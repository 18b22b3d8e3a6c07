---------------------------- MODULE SchwabTokens ----------------------------
(***************************************************************************)
(* The Schwab token of one user, as SchwabAuthService keeps it: a row in   *)
(* Oracle, a copy of it in Redis that every request reads first, and the   *)
(* OAuth state keys of the connect flow.  Requests of the user run on      *)
(* threads of several processes; each call of Redis, Oracle or the Schwab  *)
(* token server is one step, and no lock or transaction spans two of them. *)
(*                                                                         *)
(* A token is its number in the order the service received them.  Time is  *)
(* reduced to the age of a token: fresh, then stale (the access token is   *)
(* within 60 s of its expiry), then dead (the refresh token is past its    *)
(* seven days).  The Schwab server and the user's browser are external:    *)
(* the server may refuse any call, and takes an authorization code once.   *)
(***************************************************************************)
EXTENDS Naturals

CONSTANTS
    Threads,        \* worker threads of all server processes
    States,         \* OAuth state values the connect flow can mint
    NoState,        \* "no state in hand"
    MaxTokens,      \* bound: tokens the Schwab server hands out
    MaxRequests,    \* bound: disconnects and callbacks
    MaxFaults       \* bound: calls that raise, or crashes of a request

ASSUME StateAssumption == NoState \notin States
ASSUME BoundAssumption == MaxTokens \in Nat /\ MaxRequests \in Nat /\ MaxFaults \in Nat

VARIABLES
    row,        \* the token in schwab_auth_access_token
    cache,      \* the token under the key token:<user>
    states,     \* the state values under keys oauth:<state>
    codes,      \* state -> how far its authorization at Schwab has come
    age,        \* token -> how old it is
    pc,         \* thread -> the next call it makes
    kind,       \* thread -> the request it serves
    key,        \* thread -> the OAuth state its callback carries
    hand,       \* thread -> the token it refreshes, or received and stores
    link,       \* history: what the last answers promise the user
    calm,       \* history: nothing disturbed this request so far
    requests,   \* disconnects and callbacks so far
    faults      \* calls that have raised so far

stores == <<row, cache, states, codes, age>>
locals == <<pc, kind, key, hand>>
vars == <<stores, locals, link, calm, requests, faults>>

Tokens == 1 .. MaxTokens
NoToken == 0
TokenOrNone == Tokens \cup {NoToken}

(* "authorized" is the first half of a status request, is_schwab_authorized. *)
Kinds == {"none", "serve", "authorized", "status", "connect", "disconnect", "callback"}
Locations == {"idle", "readCache", "readRow", "refresh", "save", "putCache", "noToken",
              "reauth", "connect", "dropCache", "dropRow", "getState", "dropState",
              "exchange", "invalidate"}

(* What the user was last told, where it is still a promise: "linked" after *)
(* a connect that no disconnect overlapped, "told" after a disconnect,      *)
(* "clean" after one that no refresh or callback overlapped.                *)
Links == {"linked", "told", "clean", "unclear"}

Writing(u) == hand[u] # NoToken
Disconnecting(u) == kind[u] = "disconnect"
Claiming(u) == kind[u] = "callback" /\ Writing(u)

(* The token a request sees.                                               *)
Visible == IF cache # NoToken THEN cache ELSE row

-----------------------------------------------------------------------------
(* Moves of a thread.                                                      *)

Goto(t, l) == pc' = [pc EXCEPT ![t] = l]

(* The request is answered, or its thread is lost.                         *)
Finish(t) ==
    /\ pc' = [pc EXCEPT ![t] = "idle"]
    /\ kind' = [kind EXCEPT ![t] = "none"]
    /\ key' = [key EXCEPT ![t] = NoState]
    /\ hand' = [hand EXCEPT ![t] = NoToken]
    /\ calm' = [calm EXCEPT ![t] = FALSE]

(* A token in hand will be written: no disconnect in flight is alone now.  *)
Take(t, k) ==
    /\ hand' = [hand EXCEPT ![t] = k]
    /\ calm' = [u \in Threads |-> calm[u] /\ ~Disconnecting(u)]

(* A token the server issues now is the next one, and fresh.               *)
Issue(k) ==
    /\ age[k] = "unissued"
    /\ \A j \in Tokens : j < k => age[j] # "unissued"
    /\ age' = [age EXCEPT ![k] = "fresh"]

-----------------------------------------------------------------------------
(* Arrivals.                                                               *)

(* A route that needs a token, the status route, or the connect route.     *)
Begin(t, k) ==
    /\ pc[t] = "idle" /\ k \in {"serve", "authorized", "connect"}
    /\ kind' = [kind EXCEPT ![t] = k]
    /\ Goto(t, IF k = "connect" THEN "connect" ELSE "readCache")
    /\ calm' = [calm EXCEPT ![t] = (link = "linked")]
    /\ UNCHANGED <<stores, key, hand, link, requests, faults>>

(* The disconnect route, or an account deletion.                           *)
BeginDisconnect(t) ==
    /\ pc[t] = "idle" /\ requests < MaxRequests
    /\ kind' = [kind EXCEPT ![t] = "disconnect"]
    /\ Goto(t, "dropCache")
    /\ link' = "unclear"
    /\ calm' = [u \in Threads |-> IF u = t THEN \A v \in Threads : ~Writing(v)
                                           ELSE calm[u] /\ Disconnecting(u)]
    /\ requests' = requests + 1
    /\ UNCHANGED <<stores, key, hand, faults>>

(* The browser comes back from Schwab, or is reloaded.                     *)
Callback(t, s) ==
    /\ pc[t] = "idle" /\ requests < MaxRequests
    /\ codes[s] \in {"granted", "spent"}
    /\ kind' = [kind EXCEPT ![t] = "callback"]
    /\ key' = [key EXCEPT ![t] = s]
    /\ Goto(t, "getState")
    /\ requests' = requests + 1
    /\ UNCHANGED <<stores, hand, link, calm, faults>>

-----------------------------------------------------------------------------
(* get_cached_token_by_user_id and its two callers.                        *)

(* Mutant of Judge: the expiry of the access token is not looked at.      *)
Judge_ReturnsStale(t, k) ==
    \/ /\ kind[t] = "authorized" /\ age[k] = "dead"
       /\ Finish(t)
    \/ /\ kind[t] = "authorized" /\ age[k] # "dead"
       /\ kind' = [kind EXCEPT ![t] = "status"]
       /\ Goto(t, "readCache")
       /\ UNCHANGED <<key, hand, calm>>
    \/ /\ kind[t] # "authorized" /\ age[k] \in {"fresh", "stale"}
       /\ Finish(t)
    \/ /\ kind[t] # "authorized" /\ age[k] = "dead"
       /\ Goto(t, "reauth")
       /\ UNCHANGED <<kind, key, hand, calm>>

(* What is_schwab_authorized or get_valid_token_by_user_id does with the   *)
(* token k it read.                                                        *)
Judge(t, k) ==
    \/ /\ kind[t] = "authorized" /\ age[k] = "dead"
       /\ Finish(t)
    \/ /\ kind[t] = "authorized" /\ age[k] # "dead"
       /\ kind' = [kind EXCEPT ![t] = "status"]
       /\ Goto(t, "readCache")
       /\ UNCHANGED <<key, hand, calm>>
    \/ /\ kind[t] # "authorized" /\ age[k] = "fresh"
       /\ Finish(t)
    \/ /\ kind[t] # "authorized" /\ age[k] = "stale"
       /\ Goto(t, "refresh")
       /\ Take(t, k)
       /\ UNCHANGED <<kind, key>>
    \/ /\ kind[t] # "authorized" /\ age[k] = "dead"
       /\ Goto(t, "reauth")
       /\ UNCHANGED <<kind, key, hand, calm>>

(* Mutant of ReadCache: a miss is taken for "no token".                   *)
ReadCache_Only(t) ==
    /\ pc[t] = "readCache"
    /\ \/ cache # NoToken /\ Judge(t, cache)
       \/ cache = NoToken /\ Goto(t, "noToken") /\ UNCHANGED <<kind, key, hand, calm>>
    /\ UNCHANGED <<stores, link, requests, faults>>

ReadCache(t) ==
    /\ pc[t] = "readCache"
    /\ \/ cache # NoToken /\ Judge(t, cache)
       \/ cache = NoToken /\ Goto(t, "readRow") /\ UNCHANGED <<kind, key, hand, calm>>
    /\ UNCHANGED <<stores, link, requests, faults>>

(* Mutant of ReadRow: a miss puts the row back into the cache.            *)
ReadRow_ReadThrough(t) ==
    /\ pc[t] = "readRow"
    /\ \/ row # NoToken /\ Judge(t, row) /\ cache' = row
       \/ /\ row = NoToken /\ Goto(t, "noToken")
          /\ UNCHANGED <<cache, kind, key, hand, calm>>
    /\ UNCHANGED <<row, states, codes, age, link, requests, faults>>

ReadRow(t) ==
    /\ pc[t] = "readRow"
    /\ \/ row # NoToken /\ Judge(t, row)
       \/ row = NoToken /\ Goto(t, "noToken") /\ UNCHANGED <<kind, key, hand, calm>>
    /\ UNCHANGED <<stores, link, requests, faults>>

(* SchwabReauthRequired, or "not authorized" of the status route: most     *)
(* routes answer with a new authorization URL.                             *)
Raise(t) ==
    /\ pc[t] \in {"noToken", "reauth"}
    /\ \/ kind[t] = "serve" /\ Goto(t, "connect") /\ UNCHANGED <<kind, key, hand, calm>>
       \/ Finish(t)
    /\ UNCHANGED <<stores, link, requests, faults>>

(* The refresh token buys a new token; any failure asks for a new login.   *)
Refresh(t) ==
    /\ pc[t] = "refresh"
    /\ \E k \in Tokens :
        /\ Issue(k)
        /\ Take(t, k)
    /\ Goto(t, "save")
    /\ UNCHANGED <<row, cache, states, codes, kind, key, link, requests, faults>>

RefreshRefused(t) ==
    /\ pc[t] = "refresh"
    /\ Goto(t, "reauth")
    /\ hand' = [hand EXCEPT ![t] = NoToken]
    /\ UNCHANGED <<stores, kind, key, link, calm, requests, faults>>

(* Mutant of Save: the MERGE inserts but does not update.                 *)
Save_InsertOnly(t) ==
    /\ pc[t] = "save"
    /\ row' = IF row = NoToken THEN hand[t] ELSE row
    /\ Goto(t, "putCache")
    /\ calm' = [calm EXCEPT ![t] = \A u \in Threads : ~Disconnecting(u)]
    /\ UNCHANGED <<cache, states, codes, age, kind, key, hand, link, requests, faults>>

(* Both writers: the row first, then the cache.                            *)
Save(t) ==
    /\ pc[t] = "save"
    /\ row' = hand[t]
    /\ Goto(t, "putCache")
    /\ calm' = [calm EXCEPT ![t] = \A u \in Threads : ~Disconnecting(u)]
    /\ UNCHANGED <<cache, states, codes, age, kind, key, hand, link, requests, faults>>

PutCache(t) ==
    /\ pc[t] = "putCache"
    /\ cache' = hand[t]
    /\ \/ /\ kind[t] = "callback"
          /\ Goto(t, "invalidate")
          /\ hand' = [hand EXCEPT ![t] = NoToken]
          /\ link' = IF calm[t] THEN "linked" ELSE link
          /\ UNCHANGED <<kind, key, calm>>
       \/ kind[t] # "callback" /\ Finish(t) /\ UNCHANGED link
    /\ UNCHANGED <<row, states, codes, age, requests, faults>>

-----------------------------------------------------------------------------
(* The connect flow.                                                       *)

(* cache_state.  Once the bound on states is spent the request just ends.  *)
Connect(t) ==
    /\ pc[t] = "connect"
    /\ \/ \E s \in States :
            /\ codes[s] = "unused"
            /\ codes' = [codes EXCEPT ![s] = "open"]
            /\ states' = states \cup {s}
       \/ (\A s \in States : codes[s] # "unused") /\ UNCHANGED <<codes, states>>
    /\ Finish(t)
    /\ UNCHANGED <<row, cache, age, link, requests, faults>>

GetState(t) ==
    /\ pc[t] = "getState"
    /\ \/ key[t] \in states /\ Goto(t, "dropState") /\ UNCHANGED <<kind, key, hand, calm>>
       \/ key[t] \notin states /\ Finish(t)
    /\ UNCHANGED <<stores, link, requests, faults>>

DropState(t) ==
    /\ pc[t] = "dropState"
    /\ states' = states \ {key[t]}
    /\ Goto(t, "exchange")
    /\ UNCHANGED <<row, cache, codes, age, kind, key, hand, link, calm, requests, faults>>

(* claim_access_token trades the code.  A refused or lost trade is answered *)
(* with error_token; the code may be spent all the same.                    *)
Exchange(t) ==
    /\ pc[t] = "exchange" /\ codes[key[t]] = "granted"
    /\ \E k \in Tokens :
        /\ Issue(k)
        /\ Take(t, k)
    /\ codes' = [codes EXCEPT ![key[t]] = "spent"]
    /\ link' = IF link = "linked" THEN "linked" ELSE "unclear"
    /\ Goto(t, "save")
    /\ UNCHANGED <<row, cache, states, kind, key, requests, faults>>

ExchangeFailed(t) ==
    /\ pc[t] = "exchange"
    /\ \/ UNCHANGED codes
       \/ codes' = [codes EXCEPT ![key[t]] = "spent"]
    /\ Finish(t)
    /\ UNCHANGED <<row, cache, states, age, link, requests, faults>>

(* The callback drops the user's cached orders, which are not modelled.    *)
Invalidate(t) ==
    /\ pc[t] = "invalidate"
    /\ Finish(t)
    /\ UNCHANGED <<stores, link, requests, faults>>

-----------------------------------------------------------------------------
(* disconnect_user: the cached copy first, then the row.                   *)

DropCache(t) ==
    /\ pc[t] = "dropCache"
    /\ cache' = NoToken
    /\ Goto(t, "dropRow")
    /\ UNCHANGED <<row, states, codes, age, kind, key, hand, link, calm, requests, faults>>

DropRow(t) ==
    /\ pc[t] = "dropRow"
    /\ row' = NoToken
    /\ link' = IF calm[t] THEN "clean"
               ELSE IF \E u \in Threads : Claiming(u) THEN "unclear" ELSE "told"
    /\ Finish(t)
    /\ UNCHANGED <<cache, states, codes, age, requests, faults>>

-----------------------------------------------------------------------------
(* The environment.                                                        *)

(* A call raises, or the process dies under the request.                   *)
Fail(t) ==
    /\ pc[t] # "idle" /\ faults < MaxFaults
    /\ Finish(t)
    /\ faults' = faults + 1
    /\ UNCHANGED <<stores, link, requests>>

(* The user approves the application on the page of state s.               *)
Approve(s) ==
    /\ codes[s] = "open"
    /\ codes' = [codes EXCEPT ![s] = "granted"]
    /\ UNCHANGED <<row, cache, states, age, locals, link, calm, requests, faults>>

(* Redis drops a key: its time is up, or memory is short.                  *)
StateLapse(s) ==
    /\ s \in states
    /\ states' = states \ {s}
    /\ UNCHANGED <<row, cache, codes, age, locals, link, calm, requests, faults>>

CacheLapse ==
    /\ cache # NoToken
    /\ cache' = NoToken
    /\ UNCHANGED <<row, states, codes, age, locals, link, calm, requests, faults>>

Expire(k) ==
    /\ age[k] = "fresh"
    /\ age' = [age EXCEPT ![k] = "stale"]
    /\ UNCHANGED <<row, cache, states, codes, locals, link, calm, requests, faults>>

(* Seven days from receipt, older tokens first.  A cached copy lives 15    *)
(* minutes less than that, and a request far less.                         *)
Die(k) ==
    /\ age[k] = "stale" /\ cache # k
    /\ \A j \in Tokens : j < k => age[j] = "dead"
    /\ \A t \in Threads : hand[t] # k
    /\ age' = [age EXCEPT ![k] = "dead"]
    /\ UNCHANGED <<row, cache, states, codes, locals, link, calm, requests, faults>>

-----------------------------------------------------------------------------
Init ==
    /\ row = NoToken /\ cache = NoToken
    /\ states = {} /\ codes = [s \in States |-> "unused"]
    /\ age = [k \in Tokens |-> "unissued"]
    /\ pc = [t \in Threads |-> "idle"]
    /\ kind = [t \in Threads |-> "none"]
    /\ key = [t \in Threads |-> NoState]
    /\ hand = [t \in Threads |-> NoToken]
    /\ link = "clean"
    /\ calm = [t \in Threads |-> FALSE]
    /\ requests = 0 /\ faults = 0

Answering(t) ==
    \/ ReadCache(t) \/ ReadRow(t) \/ Raise(t)
    \/ Refresh(t) \/ RefreshRefused(t) \/ Save(t) \/ PutCache(t)
    \/ Connect(t) \/ GetState(t) \/ DropState(t)
    \/ Exchange(t) \/ ExchangeFailed(t) \/ Invalidate(t)
    \/ DropCache(t) \/ DropRow(t)

Arriving(t) ==
    \/ \E k \in Kinds : Begin(t, k)
    \/ BeginDisconnect(t)
    \/ \E s \in States : Callback(t, s)

Environment ==
    \/ \E t \in Threads : Fail(t)
    \/ \E s \in States : Approve(s) \/ StateLapse(s)
    \/ CacheLapse
    \/ \E k \in Tokens : Expire(k) \/ Die(k)

Next == (\E t \in Threads : Answering(t) \/ Arriving(t)) \/ Environment

Spec == Init /\ [][Next]_vars

(* A request that has begun is answered, the user's client keeps asking,   *)
(* and the Schwab server does not refuse for ever.                         *)
Fairness ==
    /\ \A t \in Threads : WF_vars(Answering(t)) /\ SF_vars(Begin(t, "serve"))
    /\ \A t \in Threads : SF_vars(Refresh(t))
FairSpec == Spec /\ Fairness

-----------------------------------------------------------------------------
(* Properties.                                                             *)

(* Every variable keeps its type, and a thread holds a token exactly while *)
(* it refreshes it or stores the one it received.                          *)
StoresOK ==
    /\ row \in TokenOrNone /\ cache \in TokenOrNone
    /\ states \subseteq States
    /\ codes \in [States -> {"unused", "open", "granted", "spent"}]
    /\ age \in [Tokens -> {"unissued", "fresh", "stale", "dead"}]
LocalsOK ==
    /\ pc \in [Threads -> Locations]
    /\ kind \in [Threads -> Kinds]
    /\ key \in [Threads -> States \cup {NoState}]
    /\ hand \in [Threads -> TokenOrNone]
    /\ link \in Links
    /\ calm \in [Threads -> BOOLEAN]
    /\ requests \in 0 .. MaxRequests /\ faults \in 0 .. MaxFaults
RequestOK(t) ==
    /\ Writing(t) <=> pc[t] \in {"refresh", "save", "putCache"}
    /\ pc[t] \in {"dropCache", "dropRow"} <=> Disconnecting(t)
    /\ pc[t] \in {"getState", "dropState", "exchange", "invalidate"} => kind[t] = "callback"
    /\ kind[t] = "callback" => key[t] \in States
    /\ pc[t] \in {"readCache", "readRow"} => kind[t] \in {"serve", "authorized", "status"}
TypeOK == StoresOK /\ LocalsOK /\ \A t \in Threads : RequestOK(t)

(* After a disconnect that no refresh or callback overlapped nothing of    *)
(* the token is left, whatever reads and other disconnects ran beside it,  *)
(* and nothing brings it back until the user connects again                *)
(* (disconnect_user, get_cached_token_by_user_id).                         *)
GoneStaysGone ==
    link = "clean" => /\ row = NoToken /\ cache = NoToken
                      /\ \A t \in Threads : ~Writing(t)

(* A user who connected before a request and does not disconnect during it *)
(* is never told there is no token, however often Redis loses its copy and *)
(* whatever refreshes and callbacks run beside it, failed ones included    *)
(* (get_cached_token_by_user_id falls back to the row, which is written    *)
(* before the copy and outlives it).                                       *)
LinkedIsServed ==
    \A t \in Threads : pc[t] = "noToken" => ~calm[t]

(* With requests one at a time, no request sees an older token than an     *)
(* earlier one did, even after failures between the row and its copy       *)
(* (claim_access_token and get_valid_token_by_user_id save, then cache;    *)
(* disconnect_user drops the copy first).                                  *)
NeverOlder == [][Visible' = NoToken \/ Visible' >= Visible]_vars

(* Once an access token has expired, requests obtain a new one as long as  *)
(* the refresh token lives and the user stays connected, after refusals,   *)
(* failures and losses of the copy (get_valid_token_by_user_id keeps the   *)
(* stored token when a refresh fails).                                     *)
NeedsRefresh == Visible # NoToken /\ age[Visible] = "stale"
Exhausted == \A k \in Tokens : age[k] # "unissued"
AccessRecovers == NeedsRefresh ~> (~NeedsRefresh \/ Exhausted)
=============================================================================
