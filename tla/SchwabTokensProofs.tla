------------------------- MODULE SchwabTokensProofs -------------------------
(***************************************************************************)
(* Proofs about SchwabTokens: its types, and the two promises that survive *)
(* every interleaving.                                                     *)
(***************************************************************************)
EXTENDS SchwabTokens, TLAPS

USE StateAssumption, BoundAssumption

(* A disconnect that nothing has disturbed runs beside no writer, and from *)
(* its second call on finds the cache empty: what DropRow leaves is clean. *)
CleanInv ==
    /\ GoneStaysGone
    /\ \A t \in Threads : Disconnecting(t) /\ calm[t] =>
        /\ \A u \in Threads : ~Writing(u)
        /\ pc[t] = "dropRow" => cache = NoToken

(* While the last promise is "linked" there is a row and nobody is about to *)
(* delete it; a calm reader began under that promise, a calm callback is   *)
(* about to make it.                                                       *)
RowStays == row # NoToken /\ \A u \in Threads : ~Disconnecting(u)
LinkInv ==
    /\ LinkedIsServed
    /\ link = "linked" => RowStays
    /\ \A t \in Threads : calm[t] /\ pc[t] \in {"readCache", "readRow"} => link = "linked"
    /\ \A t \in Threads : calm[t] /\ pc[t] = "putCache" => RowStays

-----------------------------------------------------------------------------
(* Types.                                                                  *)

LEMMA InitType == Init => TypeOK
BY DEF Init, TypeOK, StoresOK, LocalsOK, RequestOK, Tokens, TokenOrNone, NoToken,
       Kinds, Locations, Links, Writing, Disconnecting

(* A thread that finishes leaves well-typed locals, whatever it was doing. *)
LEMMA FinishType ==
    ASSUME TypeOK, NEW t \in Threads, Finish(t)
    PROVE  /\ pc' \in [Threads -> Locations] /\ kind' \in [Threads -> Kinds]
           /\ key' \in [Threads -> States \cup {NoState}]
           /\ hand' \in [Threads -> TokenOrNone] /\ calm' \in [Threads -> BOOLEAN]
           /\ \A u \in Threads : RequestOK(u)'
BY DEF Finish, TypeOK, LocalsOK, RequestOK, TokenOrNone, NoToken, Kinds, Locations,
       Writing, Disconnecting

(* So does a thread that has judged the token it read.                     *)
LEMMA JudgeType ==
    ASSUME TypeOK, NEW t \in Threads, NEW k \in Tokens, Judge(t, k),
           pc[t] \in {"readCache", "readRow"}
    PROVE  /\ pc' \in [Threads -> Locations] /\ kind' \in [Threads -> Kinds]
           /\ key' \in [Threads -> States \cup {NoState}]
           /\ hand' \in [Threads -> TokenOrNone] /\ calm' \in [Threads -> BOOLEAN]
           /\ \A u \in Threads : RequestOK(u)'
<1>1. CASE Finish(t)
  BY <1>1, FinishType
<1>2. CASE kind[t] = "authorized" /\ ~Finish(t)
  BY <1>2 DEF Judge, Goto, TypeOK, LocalsOK, RequestOK, Kinds, Locations, Writing, Disconnecting
<1>3. CASE Goto(t, "refresh") /\ Take(t, k) /\ UNCHANGED <<kind, key>>
  <2>1. calm' \in [Threads -> BOOLEAN]
    BY <1>3 DEF Take
  <2>2. hand' \in [Threads -> TokenOrNone]
    BY <1>3 DEF Take, TypeOK, LocalsOK, TokenOrNone
  <2>3. \A u \in Threads : RequestOK(u)'
    BY <1>3 DEF Take, Goto, TypeOK, LocalsOK, RequestOK, Tokens, NoToken, Writing, Disconnecting
  <2>4. QED
    BY <1>3, <2>1, <2>2, <2>3 DEF Goto, TypeOK, LocalsOK, Locations
<1>4. CASE Goto(t, "reauth") /\ UNCHANGED <<kind, key, hand, calm>>
  BY <1>4 DEF Goto, TypeOK, LocalsOK, RequestOK, Kinds, Locations, Writing, Disconnecting
<1>5. QED
  BY <1>1, <1>2, <1>3, <1>4 DEF Judge

LEMMA StepType == TypeOK /\ [Next]_vars => TypeOK'
<1> SUFFICES ASSUME TypeOK, [Next]_vars PROVE TypeOK'
  OBVIOUS
<1> USE DEF TypeOK, StoresOK, LocalsOK
<1>1. CASE UNCHANGED vars
  BY <1>1 DEF vars, stores, locals, RequestOK, Writing, Disconnecting
<1>2. ASSUME NEW t \in Threads, ReadCache(t) PROVE TypeOK'
  <2>1. CASE cache # NoToken /\ Judge(t, cache)
    BY <1>2, <2>1, JudgeType DEF ReadCache, stores, TokenOrNone
  <2>2. CASE cache = NoToken
    BY <1>2, <2>2 DEF ReadCache, Goto, stores, RequestOK, Locations, Writing, Disconnecting
  <2>3. QED
    BY <1>2, <2>1, <2>2 DEF ReadCache
<1>3. ASSUME NEW t \in Threads, ReadRow(t) PROVE TypeOK'
  <2>1. CASE row # NoToken /\ Judge(t, row)
    BY <1>3, <2>1, JudgeType DEF ReadRow, stores, TokenOrNone
  <2>2. CASE row = NoToken
    BY <1>3, <2>2 DEF ReadRow, Goto, stores, RequestOK, Locations, Writing, Disconnecting
  <2>3. QED
    BY <1>3, <2>1, <2>2 DEF ReadRow
<1>4. ASSUME NEW t \in Threads, Raise(t) PROVE TypeOK'
  <2>1. CASE Finish(t)
    BY <1>4, <2>1, FinishType DEF Raise, stores
  <2>2. CASE ~Finish(t)
    BY <1>4, <2>2 DEF Raise, Goto, stores, RequestOK, Locations, Writing, Disconnecting
  <2>3. QED
    BY <2>1, <2>2
<1>5. ASSUME NEW t \in Threads, Refresh(t) PROVE TypeOK'
  BY <1>5 DEF Refresh, Issue, Take, Goto, RequestOK, Tokens, TokenOrNone, NoToken, Locations,
              Writing, Disconnecting
<1>6. ASSUME NEW t \in Threads, RefreshRefused(t) PROVE TypeOK'
  BY <1>6 DEF RefreshRefused, Goto, stores, RequestOK, TokenOrNone, NoToken, Locations,
              Writing, Disconnecting
<1>7. ASSUME NEW t \in Threads, Save(t) PROVE TypeOK'
  BY <1>7 DEF Save, Goto, RequestOK, TokenOrNone, Locations, Writing, Disconnecting
<1>8. ASSUME NEW t \in Threads, PutCache(t) PROVE TypeOK'
  <2>1. CASE kind[t] = "callback"
    BY <1>8, <2>1 DEF PutCache, Goto, RequestOK, TokenOrNone, NoToken, Locations, Links,
                      Writing, Disconnecting
  <2>2. CASE kind[t] # "callback"
    BY <1>8, <2>2, FinishType DEF PutCache, TokenOrNone
  <2>3. QED
    BY <2>1, <2>2
<1>9. ASSUME NEW t \in Threads, Connect(t) PROVE TypeOK'
  BY <1>9, FinishType DEF Connect
<1>10. ASSUME NEW t \in Threads, GetState(t) PROVE TypeOK'
  <2>1. CASE Finish(t)
    BY <1>10, <2>1, FinishType DEF GetState, stores
  <2>2. CASE ~Finish(t)
    BY <1>10, <2>2 DEF GetState, Goto, stores, RequestOK, Locations, Writing, Disconnecting
  <2>3. QED
    BY <2>1, <2>2
<1>11. ASSUME NEW t \in Threads, DropState(t) PROVE TypeOK'
  BY <1>11 DEF DropState, Goto, RequestOK, Locations, Writing, Disconnecting
<1>12. ASSUME NEW t \in Threads, Exchange(t) PROVE TypeOK'
  BY <1>12 DEF Exchange, Issue, Take, Goto, RequestOK, Tokens, TokenOrNone, NoToken, Locations,
               Links, Writing, Disconnecting
<1>13. ASSUME NEW t \in Threads, ExchangeFailed(t) PROVE TypeOK'
  BY <1>13, FinishType DEF ExchangeFailed, RequestOK
<1>14. ASSUME NEW t \in Threads, Invalidate(t) PROVE TypeOK'
  BY <1>14, FinishType DEF Invalidate, stores
<1>15. ASSUME NEW t \in Threads, DropCache(t) PROVE TypeOK'
  BY <1>15 DEF DropCache, Goto, RequestOK, TokenOrNone, Locations, Writing, Disconnecting
<1>16. ASSUME NEW t \in Threads, DropRow(t) PROVE TypeOK'
  BY <1>16, FinishType DEF DropRow, TokenOrNone, Links
<1>17. ASSUME NEW t \in Threads, NEW k \in Kinds, Begin(t, k) PROVE TypeOK'
  BY <1>17 DEF Begin, Goto, stores, RequestOK, Kinds, Locations, Writing, Disconnecting
<1>18. ASSUME NEW t \in Threads, BeginDisconnect(t) PROVE TypeOK'
  <2>1. calm' \in [Threads -> BOOLEAN]
    BY <1>18 DEF BeginDisconnect
  <2>2. \A u \in Threads : RequestOK(u)'
    BY <1>18 DEF BeginDisconnect, Goto, RequestOK, Writing, Disconnecting
  <2>3. requests' \in 0 .. MaxRequests
    BY <1>18 DEF BeginDisconnect
  <2>4. /\ pc' \in [Threads -> Locations] /\ kind' \in [Threads -> Kinds]
        /\ hand' \in [Threads -> TokenOrNone] /\ link' \in Links
    BY <1>18 DEF BeginDisconnect, Goto, Kinds, Locations, Links
  <2>5. QED
    BY <1>18, <2>1, <2>2, <2>3, <2>4 DEF BeginDisconnect, stores
<1>19. ASSUME NEW t \in Threads, NEW s \in States, Callback(t, s) PROVE TypeOK'
  BY <1>19 DEF Callback, Goto, stores, RequestOK, Kinds, Locations, Writing, Disconnecting
<1>20. ASSUME NEW t \in Threads, Fail(t) PROVE TypeOK'
  BY <1>20, FinishType DEF Fail, stores
<1>21. CASE \E s \in States : Approve(s) \/ StateLapse(s)
  BY <1>21 DEF Approve, StateLapse, locals, RequestOK, Writing, Disconnecting
<1>22. CASE CacheLapse
  BY <1>22 DEF CacheLapse, locals, RequestOK, TokenOrNone, Writing, Disconnecting
<1>23. CASE \E k \in Tokens : Expire(k) \/ Die(k)
  BY <1>23 DEF Expire, Die, locals, RequestOK, Writing, Disconnecting
<1>24. QED
  BY <1>1, <1>2, <1>3, <1>4, <1>5, <1>6, <1>7, <1>8, <1>9, <1>10, <1>11, <1>12, <1>13, <1>14,
     <1>15, <1>16, <1>17, <1>18, <1>19, <1>20, <1>21, <1>22, <1>23
     DEF Next, Answering, Arriving, Environment

(* Stores and locals keep their types, and a thread holds a token exactly  *)
(* while it refreshes it or stores the one it received                     *)
(* (get_valid_token_by_user_id, claim_access_token).                       *)
THEOREM TypeCorrect == Spec => []TypeOK
BY InitType, StepType, PTL DEF Spec

-----------------------------------------------------------------------------
(* What a disconnect promises.                                             *)

LEMMA StepClean == TypeOK /\ CleanInv /\ [Next]_vars => CleanInv'
<1> SUFFICES ASSUME TypeOK, CleanInv, [Next]_vars PROVE CleanInv'
  OBVIOUS
<1> USE DEF CleanInv, GoneStaysGone, Writing, Disconnecting
<1>0. /\ pc \in [Threads -> Locations] /\ kind \in [Threads -> Kinds]
      /\ hand \in [Threads -> TokenOrNone] /\ calm \in [Threads -> BOOLEAN]
      /\ \A t \in Threads : RequestOK(t)
  BY DEF TypeOK, LocalsOK
<1>1. CASE UNCHANGED vars
  BY <1>1 DEF vars, stores, locals
<1>2. ASSUME NEW t \in Threads, ReadCache(t) \/ ReadRow(t) PROVE CleanInv'
  <2>1. CASE UNCHANGED <<hand, calm>>
    BY <1>0, <1>2, <2>1 DEF ReadCache, ReadRow, Judge, Goto, Take, Finish, stores, RequestOK
  <2>2. CASE Finish(t)
    BY <1>0, <1>2, <2>2 DEF ReadCache, ReadRow, Finish, stores, RequestOK
  <2>3. CASE \E k \in Tokens : Goto(t, "refresh") /\ Take(t, k) /\ UNCHANGED kind
    <3>1. link # "clean"
      BY <1>0, <1>2, <2>3 DEF ReadCache, ReadRow, Goto
    <3>2. \A u \in Threads : ~(kind'[u] = "disconnect" /\ calm'[u])
      BY <2>3 DEF Take
    <3>3. QED
      BY <1>2, <3>1, <3>2 DEF ReadCache, ReadRow
  <2>4. QED
    BY <1>2, <2>1, <2>2, <2>3 DEF ReadCache, ReadRow, Judge, TypeOK, StoresOK, TokenOrNone
<1>3. ASSUME NEW t \in Threads, Raise(t) \/ GetState(t) PROVE CleanInv'
  BY <1>0, <1>3 DEF Raise, GetState, Goto, Finish, stores, RequestOK
<1>4. ASSUME NEW t \in Threads, Refresh(t) \/ Exchange(t) PROVE CleanInv'
  <2>1. \A u \in Threads : ~(kind'[u] = "disconnect" /\ calm'[u])
    BY <1>4 DEF Refresh, Exchange, Take
  <2>2. link' # "clean"
    BY <1>0, <1>4 DEF Refresh, Exchange, RequestOK
  <2>3. QED
    BY <2>1, <2>2
<1>5. ASSUME NEW t \in Threads, RefreshRefused(t) PROVE CleanInv'
  BY <1>0, <1>5 DEF RefreshRefused, Goto, stores, RequestOK
<1>6. ASSUME NEW t \in Threads, Save(t) \/ PutCache(t) PROVE CleanInv'
  <2>1. Writing(t) /\ ~Disconnecting(t)
    BY <1>0, <1>6 DEF Save, PutCache, RequestOK
  <2>2. link # "clean" /\ \A u \in Threads : ~(Disconnecting(u) /\ calm[u])
    BY <2>1
  <2>3. QED
    BY <1>0, <1>6, <2>1, <2>2 DEF Save, PutCache, Goto, Finish
<1>7. ASSUME NEW t \in Threads, Connect(t) \/ ExchangeFailed(t) \/ Invalidate(t) \/ Fail(t)
      PROVE  CleanInv'
  BY <1>0, <1>7 DEF Connect, ExchangeFailed, Invalidate, Fail, Finish, stores
<1>8. ASSUME NEW t \in Threads, DropState(t) PROVE CleanInv'
  BY <1>0, <1>8 DEF DropState, Goto, RequestOK
<1>9. ASSUME NEW t \in Threads, DropCache(t) PROVE CleanInv'
  BY <1>0, <1>9 DEF DropCache, Goto
<1>10. ASSUME NEW t \in Threads, DropRow(t) PROVE CleanInv'
  <2>1. link' = "clean" => cache = NoToken /\ \A u \in Threads : ~Writing(u)
    BY <1>0, <1>10 DEF DropRow, RequestOK
  <2>2. QED
    BY <1>0, <1>10, <2>1 DEF DropRow, Finish
<1>11. ASSUME NEW t \in Threads, NEW k \in Kinds, Begin(t, k) PROVE CleanInv'
  BY <1>0, <1>11 DEF Begin, Goto, stores
<1>12. ASSUME NEW t \in Threads, BeginDisconnect(t) PROVE CleanInv'
  BY <1>0, <1>12 DEF BeginDisconnect, Goto, stores
<1>13. ASSUME NEW t \in Threads, NEW s \in States, Callback(t, s) PROVE CleanInv'
  BY <1>0, <1>13 DEF Callback, Goto, stores
<1>14. CASE \/ \E s \in States : Approve(s) \/ StateLapse(s)
            \/ CacheLapse
            \/ \E k \in Tokens : Expire(k) \/ Die(k)
  BY <1>14 DEF Approve, StateLapse, CacheLapse, Expire, Die, locals
<1>15. QED
  BY <1>1, <1>2, <1>3, <1>4, <1>5, <1>6, <1>7, <1>8, <1>9, <1>10, <1>11, <1>12, <1>13, <1>14
     DEF Next, Answering, Arriving, Environment

(* After a disconnect that no refresh or callback overlapped nothing is    *)
(* left of the token, and nothing brings it back until the user connects   *)
(* again (disconnect_user).                                                *)
THEOREM DisconnectHolds == Spec => []GoneStaysGone
<1>1. Init => CleanInv
  BY DEF Init, CleanInv, GoneStaysGone, Writing, Disconnecting, NoToken
<1>2. CleanInv => GoneStaysGone
  BY DEF CleanInv
<1>3. QED
  BY <1>1, <1>2, StepClean, TypeCorrect, PTL DEF Spec

-----------------------------------------------------------------------------
(* What a connect promises.                                                *)

LEMMA StepLink == TypeOK /\ LinkInv /\ [Next]_vars => LinkInv'
<1> SUFFICES ASSUME TypeOK, LinkInv, [Next]_vars PROVE LinkInv'
  OBVIOUS
<1> USE DEF LinkInv, LinkedIsServed, RowStays, Disconnecting
<1>0. /\ pc \in [Threads -> Locations] /\ kind \in [Threads -> Kinds]
      /\ hand \in [Threads -> TokenOrNone] /\ calm \in [Threads -> BOOLEAN]
      /\ \A t \in Threads : RequestOK(t)
  BY DEF TypeOK, LocalsOK
<1>1. CASE UNCHANGED vars
  BY <1>1 DEF vars, stores, locals
<1>2. ASSUME NEW t \in Threads, ReadCache(t) \/ ReadRow(t) PROVE LinkInv'
  <2>1. CASE /\ pc[t] = "readRow" /\ row = NoToken
             /\ Goto(t, "noToken") /\ UNCHANGED <<kind, calm>>
    <3>1. ~calm[t]
      BY <2>1
    <3>2. QED
      BY <1>0, <1>2, <2>1, <3>1 DEF ReadCache, ReadRow, Goto, stores
  <2>2. CASE Finish(t)
    BY <1>0, <1>2, <2>2 DEF ReadCache, ReadRow, Finish, stores
  <2>3. CASE \E k \in Tokens : Goto(t, "refresh") /\ Take(t, k) /\ UNCHANGED kind
    BY <1>0, <1>2, <2>3 DEF ReadCache, ReadRow, Goto, Take, stores
  <2>4. CASE \E l \in {"readCache", "readRow", "reauth"} :
                Goto(t, l) /\ kind' \in {kind, [kind EXCEPT ![t] = "status"]} /\ UNCHANGED calm
    BY <1>0, <1>2, <2>4 DEF ReadCache, ReadRow, Goto, stores
  <2>5. QED
    BY <1>2, <2>1, <2>2, <2>3, <2>4
       DEF ReadCache, ReadRow, Judge, Goto, TypeOK, StoresOK, TokenOrNone
<1>3. ASSUME NEW t \in Threads, Raise(t) \/ GetState(t) PROVE LinkInv'
  BY <1>0, <1>3 DEF Raise, GetState, Goto, Finish, stores
<1>4. ASSUME NEW t \in Threads, Refresh(t) \/ Exchange(t) PROVE LinkInv'
  BY <1>0, <1>4 DEF Refresh, Exchange, Take, Goto
<1>5. ASSUME NEW t \in Threads, RefreshRefused(t) PROVE LinkInv'
  BY <1>0, <1>5 DEF RefreshRefused, Goto, stores
<1>6. ASSUME NEW t \in Threads, Save(t) PROVE LinkInv'
  <2>1. row' # NoToken
    BY <1>0, <1>6 DEF Save, RequestOK, Writing
  <2>2. QED
    BY <1>0, <1>6, <2>1 DEF Save, Goto
<1>7. ASSUME NEW t \in Threads, PutCache(t) PROVE LinkInv'
  BY <1>0, <1>7 DEF PutCache, Goto, Finish
<1>8. ASSUME NEW t \in Threads, Connect(t) \/ ExchangeFailed(t) \/ Invalidate(t) \/ Fail(t)
      PROVE  LinkInv'
  BY <1>0, <1>8 DEF Connect, ExchangeFailed, Invalidate, Fail, Finish, stores
<1>9. ASSUME NEW t \in Threads, DropState(t) \/ DropCache(t) PROVE LinkInv'
  BY <1>0, <1>9 DEF DropState, DropCache, Goto
<1>10. ASSUME NEW t \in Threads, DropRow(t) PROVE LinkInv'
  <2>1. Disconnecting(t)
    BY <1>0, <1>10 DEF DropRow, RequestOK
  <2>2. QED
    BY <1>0, <1>10, <2>1 DEF DropRow, Finish
<1>11. ASSUME NEW t \in Threads, NEW k \in Kinds, Begin(t, k) PROVE LinkInv'
  BY <1>0, <1>11 DEF Begin, Goto, stores
<1>12. ASSUME NEW t \in Threads, BeginDisconnect(t) PROVE LinkInv'
  BY <1>0, <1>12 DEF BeginDisconnect, Goto, stores, RequestOK
<1>13. ASSUME NEW t \in Threads, NEW s \in States, Callback(t, s) PROVE LinkInv'
  BY <1>0, <1>13 DEF Callback, Goto, stores
<1>14. CASE \/ \E s \in States : Approve(s) \/ StateLapse(s)
            \/ CacheLapse
            \/ \E k \in Tokens : Expire(k) \/ Die(k)
  BY <1>14 DEF Approve, StateLapse, CacheLapse, Expire, Die, locals
<1>15. QED
  BY <1>1, <1>2, <1>3, <1>4, <1>5, <1>6, <1>7, <1>8, <1>9, <1>10, <1>11, <1>12, <1>13, <1>14
     DEF Next, Answering, Arriving, Environment

(* A user who connected before a request and does not disconnect during it *)
(* is never told there is no token (get_cached_token_by_user_id).          *)
THEOREM LinkHolds == Spec => []LinkedIsServed
<1>1. Init => LinkInv
  BY DEF Init, LinkInv, LinkedIsServed
<1>2. LinkInv => LinkedIsServed
  BY DEF LinkInv
<1>3. QED
  BY <1>1, <1>2, StepLink, TypeCorrect, PTL DEF Spec
-----------------------------------------------------------------------------
(* One request at a time: the row is never older than its copy, the token  *)
(* about to be stored is newer than both, and what is put into the cache is*)
(* what the row holds.                                                     *)
OneThread == \A t, u \in Threads : t = u

InOrder ==
    /\ \A j, k \in Tokens : j < k /\ age[k] # "unissued" => age[j] # "unissued"
    /\ row # NoToken => age[row] # "unissued"
    /\ cache <= row

OrderInv ==
    /\ InOrder
    /\ \A t \in Threads :
          /\ pc[t] = "save" => hand[t] >= row /\ age[hand[t]] # "unissued"
          /\ pc[t] = "putCache" => hand[t] = row
          /\ pc[t] = "dropRow" => cache = NoToken

Newer == Visible' = NoToken \/ Visible' >= Visible

LEMMA InitOrder == Init => OrderInv
BY DEF Init, OrderInv, InOrder, NoToken

(* No thread has stored or dropped anything: the order is as it was.       *)
LEMMA OrderStands ==
    ASSUME TypeOK, OrderInv, UNCHANGED <<row, cache, age>>,
           NEW t \in Threads, \A u \in Threads : u = t,
           (pc'[t] = pc[t] /\ hand'[t] = hand[t]) \/ pc'[t] \notin {"save", "putCache", "dropRow"}
    PROVE  OrderInv' /\ Newer
<1>1. InOrder'
  BY DEF OrderInv, InOrder
<1>2. \A u \in Threads : pc'[u] \in {"save", "putCache", "dropRow"} => pc'[u] = pc[u] /\ hand'[u] = hand[u]
  OBVIOUS
<1>3. OrderInv'
  BY <1>1, <1>2 DEF OrderInv
<1>4. row \in Nat /\ cache \in Nat
  BY DEF TypeOK, StoresOK, TokenOrNone, Tokens, NoToken
<1>5. Visible' = Visible /\ Visible \in Nat
  BY <1>4 DEF Visible
<1>6. QED
  BY <1>3, <1>5 DEF Newer

(* A token the server issues is newer than any before it.                  *)
LEMMA IssuedIsNewest ==
    ASSUME TypeOK, OrderInv, NEW t \in Threads, \A u \in Threads : u = t, NEW k \in Tokens,
           Issue(k), hand'[t] = k, pc'[t] = "save", UNCHANGED <<row, cache>>
    PROVE  OrderInv' /\ Newer
<1>1. /\ row \in TokenOrNone /\ cache \in TokenOrNone /\ k \in Nat /\ k > 0
      /\ age \in [Tokens -> {"unissued", "fresh", "stale", "dead"}]
  BY DEF TypeOK, StoresOK, Tokens
<1>2. /\ age' \in [Tokens -> {"unissued", "fresh", "stale", "dead"}]
      /\ age'[k] = "fresh" /\ \A j \in Tokens \ {k} : age'[j] = age[j]
      /\ age[k] = "unissued" /\ \A j \in Tokens : j < k => age[j] # "unissued"
  BY <1>1 DEF Issue
<1>3. ASSUME row # NoToken PROVE row \in Tokens /\ row < k /\ row # k
  <2>1. row \in Tokens /\ age[row] # "unissued"
    BY <1>1, <1>3 DEF OrderInv, InOrder, TokenOrNone
  <2>2. ~(k < row)
    BY <1>2, <2>1 DEF OrderInv, InOrder
  <2>3. row # k
    BY <1>2, <2>1
  <2>4. QED
    BY <1>1, <2>1, <2>2, <2>3 DEF Tokens
<1>4. row <= k
  <2>1. CASE row = NoToken
    BY <1>1, <2>1 DEF NoToken
  <2>2. CASE row # NoToken
    BY <1>1, <1>3, <2>2 DEF Tokens
  <2>3. QED
    BY <2>1, <2>2
<1>5. ASSUME NEW i \in Tokens, NEW j \in Tokens, i < j, age'[j] # "unissued" PROVE age'[i] # "unissued"
  BY <1>2, <1>5 DEF OrderInv, InOrder
<1>6. row # NoToken => age'[row] # "unissued"
  BY <1>2, <1>3 DEF OrderInv, InOrder
<1>7. InOrder'
  BY <1>5, <1>6 DEF OrderInv, InOrder
<1>8. OrderInv'
  BY <1>2, <1>4, <1>7 DEF OrderInv
<1>9. Visible' = Visible /\ Visible \in Nat
  BY <1>1 DEF Visible, TokenOrNone, Tokens, NoToken
<1>10. QED
  BY <1>8, <1>9 DEF Newer

LEMMA StepOrder ==
    ASSUME OneThread, TypeOK, OrderInv, [Next]_vars
    PROVE  OrderInv' /\ Newer
<1>1. /\ row \in TokenOrNone /\ cache \in TokenOrNone
      /\ age \in [Tokens -> {"unissued", "fresh", "stale", "dead"}]
      /\ pc \in [Threads -> Locations] /\ hand \in [Threads -> TokenOrNone]
  BY DEF TypeOK, StoresOK, LocalsOK
<1>2. row \in Nat /\ cache \in Nat /\ \A t \in Threads : hand[t] \in Nat
  BY <1>1 DEF TokenOrNone, Tokens, NoToken
<1>3. ASSUME NEW t \in Threads, Answering(t) \/ Arriving(t) \/ Fail(t)
      PROVE  OrderInv' /\ Newer
  <2>1. \A u \in Threads : u = t
    BY DEF OneThread
  <2>2. ASSUME UNCHANGED <<row, cache, age>>, pc'[t] \notin {"save", "putCache", "dropRow"}
        PROVE  OrderInv' /\ Newer
    BY <2>1, <2>2, OrderStands
  <2>3. CASE ReadCache(t) \/ ReadRow(t)
    BY <1>1, <2>2, <2>3 DEF ReadCache, ReadRow, Judge, Goto, Finish, stores
  <2>4. CASE Raise(t) \/ RefreshRefused(t) \/ Connect(t) \/ GetState(t) \/ DropState(t)
             \/ ExchangeFailed(t) \/ Invalidate(t) \/ Fail(t)
    BY <1>1, <2>2, <2>4 DEF Raise, RefreshRefused, Connect, GetState, DropState, ExchangeFailed,
         Invalidate, Fail, Goto, Finish, stores
  <2>5. CASE Arriving(t)
    BY <1>1, <2>2, <2>5 DEF Arriving, Begin, BeginDisconnect, Callback, Goto, stores
  <2>6. CASE Refresh(t) \/ Exchange(t)
    <3>1. PICK k \in Tokens : Issue(k) /\ Take(t, k)
      BY <2>6 DEF Refresh, Exchange
    <3>2. hand'[t] = k /\ pc'[t] = "save" /\ UNCHANGED <<row, cache>>
      BY <1>1, <2>6, <3>1 DEF Refresh, Exchange, Take, Goto
    <3>3. QED
      BY <2>1, <3>1, <3>2, IssuedIsNewest
  <2>7. CASE Save(t)
    <3>1. /\ row' = hand[t] /\ cache' = cache /\ age' = age /\ pc'[t] = "putCache" /\ hand' = hand
          /\ hand[t] >= row /\ age[hand[t]] # "unissued"
      BY <1>1, <2>7 DEF Save, Goto, OrderInv
    <3>2. InOrder' /\ OrderInv'
      BY <1>2, <2>1, <3>1 DEF OrderInv, InOrder
    <3>3. QED
      BY <1>2, <3>1, <3>2 DEF Newer, Visible
  <2>8. CASE PutCache(t)
    <3>1. /\ cache' = hand[t] /\ row' = row /\ age' = age /\ hand[t] = row
          /\ pc'[t] \notin {"save", "putCache", "dropRow"}
      BY <1>1, <2>8 DEF PutCache, Goto, Finish, OrderInv
    <3>2. OrderInv'
      BY <1>2, <2>1, <3>1 DEF OrderInv, InOrder
    <3>3. cache <= row
      BY DEF OrderInv, InOrder
    <3>4. QED
      BY <1>2, <3>1, <3>2, <3>3 DEF Newer, Visible, NoToken
  <2>9. CASE DropCache(t)
    <3>1. cache' = NoToken /\ row' = row /\ age' = age /\ pc'[t] = "dropRow"
      BY <1>1, <2>9 DEF DropCache, Goto
    <3>2. OrderInv'
      BY <1>2, <2>1, <3>1 DEF OrderInv, InOrder, NoToken
    <3>3. cache <= row
      BY DEF OrderInv, InOrder
    <3>4. QED
      BY <1>2, <3>1, <3>2, <3>3 DEF Newer, Visible, NoToken
  <2>10. CASE DropRow(t)
    <3>1. row' = NoToken /\ cache' = cache /\ cache = NoToken /\ age' = age /\ pc'[t] = "idle"
      BY <1>1, <2>10 DEF DropRow, Finish, OrderInv
    <3>2. OrderInv'
      BY <1>2, <2>1, <3>1 DEF OrderInv, InOrder, NoToken
    <3>3. QED
      BY <3>1, <3>2 DEF Newer, Visible
  <2>11. QED
    BY <1>3, <2>3, <2>4, <2>5, <2>6, <2>7, <2>8, <2>9, <2>10 DEF Answering
<1>4. ASSUME NEW s \in States, Approve(s) \/ StateLapse(s)
      PROVE  OrderInv' /\ Newer
  <2>1. UNCHANGED <<row, cache, age, pc, hand>>
    BY <1>4 DEF Approve, StateLapse, locals
  <2>2. QED
    BY <1>2, <2>1 DEF OrderInv, InOrder, Newer, Visible
<1>5. CASE CacheLapse
  <2>1. cache' = NoToken /\ UNCHANGED <<row, age, pc, hand>> /\ cache <= row
    BY <1>5 DEF CacheLapse, locals, OrderInv, InOrder
  <2>2. QED
    BY <1>2, <2>1 DEF OrderInv, InOrder, Newer, Visible, NoToken
<1>6. ASSUME NEW k \in Tokens, Expire(k) \/ Die(k)
      PROVE  OrderInv' /\ Newer
  <2>1. /\ UNCHANGED <<row, cache, pc, hand>>
        /\ \A j \in Tokens : age'[j] = "unissued" <=> age[j] = "unissued"
    BY <1>1, <1>6 DEF Expire, Die, locals
  <2>2. \A t \in Threads : pc[t] = "save" => hand[t] \in Tokens
    BY <1>1 DEF TypeOK, RequestOK, Writing, TokenOrNone
  <2>3. row # NoToken => row \in Tokens
    BY <1>1 DEF TokenOrNone
  <2>4. InOrder'
    BY <2>1, <2>3 DEF OrderInv, InOrder
  <2>5. QED
    BY <1>2, <2>1, <2>2, <2>4 DEF OrderInv, Newer, Visible
<1>7. CASE UNCHANGED vars
  BY <1>2, <1>7 DEF vars, stores, locals, OrderInv, InOrder, Newer, Visible
<1>8. QED
  BY <1>3, <1>4, <1>5, <1>6, <1>7 DEF Next, Environment

(* With requests one at a time no request sees an older token than one     *)
(* before it did, whatever fails between the row and its copy              *)
(* (claim_access_token, get_valid_token_by_user_id, disconnect_user).      *)
THEOREM TokensOnlyRenewed == ASSUME OneThread PROVE Spec => NeverOlder
<1>1. OneThread
  OBVIOUS
<1>2. Init => TypeOK /\ OrderInv
  BY InitType, InitOrder
<1>3. TypeOK /\ OrderInv /\ [Next]_vars => TypeOK' /\ OrderInv'
  BY <1>1, StepType, StepOrder
<1>4. TypeOK /\ OrderInv /\ [Next]_vars => [Visible' = NoToken \/ Visible' >= Visible]_vars
  BY <1>1, StepOrder DEF Newer
<1>5. QED
  BY <1>2, <1>3, <1>4, PTL DEF Spec, NeverOlder
=============================================================================
