----------------------------- MODULE AccountsProofs -----------------------------
(***************************************************************************)
(* Proofs about Accounts: whose chats are whose, what an answer answers,   *)
(* who is behind a token, and what a deletion leaves, for any number of    *)
(* users, threads, requests, faults and tables.                            *)
(***************************************************************************)
EXTENDS Accounts, FiniteSetTheorems, TLAPS

AskPlaces == {"given", "peek", "latest", "create", "history", "question", "stream", "answer"}
SweepPlaces == {"list", "wipe", "erase"}
PurgePlaces == {"schwab", "tables", "waitlist", "row"}

Requests == [at : Places, op : Ops, user : Users, kind : Kinds, session : Nat, first : BOOLEAN,
             blank : BOOLEAN, serial : Nat, work : SUBSET Nat, met : BOOLEAN]

(* The place of a request is one of its operation.                         *)
Fits(r) ==
    /\ r.op = "ask" <=> r.at \in AskPlaces
    /\ r.at \in PurgePlaces => r.op = "purge"
    /\ r.op = "purge" => r.at \in PurgePlaces \cup SweepPlaces

Shape ==
    /\ sessions \subseteq [id : Nat, user : Users, kind : Kinds]
    /\ messages \subseteq [session : Nat, role : {"user", "assistant"}, of : Nat, author : Users]
    /\ made \in Nat /\ served \in Nat
    /\ req \in [Threads -> Requests]
    /\ \A t \in Threads : Fits(req[t])
    /\ rows \in [Users -> SUBSET TableNames]
    /\ waitlist \in [Users -> [status : {"none", "waiting", "promoted"}, since : Nat]]

(* Ids are handed out once, in order.                                      *)
IdsInOrder ==
    /\ \A x \in sessions : x.id <= made
    /\ \A x, y \in sessions : x.id = y.id => x = y

-----------------------------------------------------------------------------
(* Sets of ids have a greatest element, so Last and Page are what they     *)
(* are meant to be.                                                        *)
LEMMA HasGreatest ==
    ASSUME NEW n \in Nat, NEW S \in SUBSET (0 .. n), S # {}
    PROVE  \E s \in S : \A r \in S : r <= s
  <1> DEFINE T == {n - s : s \in S}
  <1>1. T \subseteq Nat /\ T # {}
    <2>1. \A s \in S : s \in 0 .. n
      OBVIOUS
    <2>2. \A s \in S : n - s \in Nat
      BY <2>1
    <2> QED BY <2>2
  <1>2. \E x \in T : \A y \in T : <<y, x>> \notin OpToRel(<, Nat)
    <2> HIDE DEF T
    <2>1. IsWellFoundedOn(OpToRel(<, Nat), Nat)
      BY NatLessThanWellFounded
    <2> QED BY <1>1, <2>1, WFMin
  <1>3. PICK x \in T : \A y \in T : <<y, x>> \notin OpToRel(<, Nat)
    BY <1>2
  <1>4. \A y \in T : ~ (y < x)
    <2> HIDE DEF T
    <2>1. \A y \in T : y \in Nat /\ x \in Nat
      BY <1>1, <1>3
    <2>2. \A a, c \in Nat : a < c => <<a, c>> \in OpToRel(<, Nat)
      BY DEF OpToRel
    <2> QED BY <1>3, <2>1, <2>2
  <1>5. PICK s \in S : x = n - s
    OBVIOUS
  <1>6. \A r \in S : r <= s
    BY <1>4, <1>5
  <1> QED BY <1>6

LEMMA LastIsIn ==
    ASSUME NEW n \in Nat, NEW S \in SUBSET (0 .. n), S # {}
    PROVE  Last(S) \in S
  BY HasGreatest DEF Last

LEMMA EmptyPage ==
    ASSUME NEW n \in Nat, NEW S \in SUBSET (0 .. n), Page(S) = {}
    PROVE  S = {}
  <1> SUFFICES ASSUME S # {} PROVE FALSE
    OBVIOUS
  <1>1. PICK s \in S : \A r \in S : r <= s
    BY HasGreatest
  <1>2. {r \in S : r > s} = {}
    <2>1. \A r \in S : r \in Nat /\ s \in Nat /\ r <= s
      BY <1>1
    <2>2. \A r \in S : ~ (r > s)
      BY <2>1
    <2> QED BY <2>2
  <1>3. Cardinality({r \in S : r > s}) = 0
    BY <1>2, FS_EmptySet
  <1>4. s \in Page(S)
    BY <1>3, ChatBounds DEF Page
  <1> QED BY <1>4

-----------------------------------------------------------------------------
LEMMA IdleShape == Idle \in Requests /\ Fits(Idle)
  BY ChatBounds DEF Idle, Requests, Fits, Places, Ops, AskPlaces, PurgePlaces, NoSession

LEMMA InitShape == Init => Shape /\ IdsInOrder
  BY IdleShape DEF Init, ChatInit, AccountInit, Shape, IdsInOrder, NotListed

(* A record of another place is one, and keeps the rest.                   *)
LEMMA Fields ==
    ASSUME NEW r \in Requests, NEW l \in Places
    PROVE  /\ [r EXCEPT !.at = l] \in Requests
           /\ \A s \in Nat : [r EXCEPT !.at = l, !.session = s] \in Requests
           /\ \A s \in Nat, f \in BOOLEAN :
                 [r EXCEPT !.at = l, !.session = s, !.first = f] \in Requests
           /\ \A f \in BOOLEAN : [r EXCEPT !.at = l, !.first = f] \in Requests
           /\ \A b \in BOOLEAN : [r EXCEPT !.at = l, !.blank = b] \in Requests
           /\ \A w \in SUBSET Nat : [r EXCEPT !.at = l, !.work = w] \in Requests
  BY DEF Requests

(* Where a request of a kind may go.                                       *)
LEMMA FitsThere ==
    ASSUME NEW r, Fits(r), NEW q, q.op = r.op,
           \/ r.at \in AskPlaces /\ q.at \in AskPlaces
           \/ r.at \in SweepPlaces /\ q.at \in SweepPlaces
           \/ r.op = "purge" /\ q.at \in PurgePlaces \cup SweepPlaces
           \/ r.op \notin {"ask", "purge"} /\ q.at \notin AskPlaces \cup PurgePlaces
    PROVE  Fits(q)
  BY DEF Fits, AskPlaces, SweepPlaces, PurgePlaces

LEMMA AllPlaces ==
    /\ AskPlaces \subseteq Places /\ SweepPlaces \subseteq Places /\ PurgePlaces \subseteq Places
    /\ "idle" \in Places
  BY DEF Places, AskPlaces, SweepPlaces, PurgePlaces

LEMMA Moved ==
    ASSUME Shape, NEW t \in Threads, NEW r \in Requests, Fits(r), req' = [req EXCEPT ![t] = r]
    PROVE  req' \in [Threads -> Requests] /\ \A v \in Threads : Fits(req'[v])
  BY DEF Shape

LEMMA Ended ==
    ASSUME Shape, NEW t \in Threads, End(t)
    PROVE  req' \in [Threads -> Requests] /\ \A v \in Threads : Fits(req'[v])
  BY IdleShape, Moved DEF End

LEMMA Gone ==
    ASSUME Shape, NEW t \in Threads, NEW l \in Places, Goto(t, l),
           \/ req[t].at \in AskPlaces /\ l \in AskPlaces
           \/ req[t].at \in SweepPlaces /\ l \in SweepPlaces
           \/ req[t].op = "purge" /\ l \in PurgePlaces \cup SweepPlaces
           \/ req[t].op \notin {"ask", "purge"} /\ l \notin AskPlaces \cup PurgePlaces
    PROVE  req' \in [Threads -> Requests] /\ \A v \in Threads : Fits(req'[v])
  <1> DEFINE r == [req[t] EXCEPT !.at = l]
  <1>1. req[t] \in Requests /\ Fits(req[t])
    BY DEF Shape
  <1>2. r \in Requests
    BY <1>1, Fields
  <1>3. r.op = req[t].op /\ r.at = l
    BY <1>1 DEF Requests
  <1>4. req' = [req EXCEPT ![t] = r]
    BY DEF Goto
  <1> HIDE DEF r
  <1>5. Fits(r)
    BY <1>1, <1>3, FitsThere
  <1> QED BY <1>2, <1>4, <1>5, Moved

(* A request that begins, and those it meets.                              *)
LEMMA BeginShape ==
    ASSUME Shape, NEW t \in Threads, NEW r \in Requests, Fits(r), Begin(t, r)
    PROVE  /\ req' \in [Threads -> Requests]
           /\ \A v \in Threads : Fits(req'[v])
           /\ served' \in Nat
  <1>1. served \in Nat /\ served' = served + 1
    BY DEF Begin, Shape
  <1>2. \A q \in Requests : /\ [q EXCEPT !.met = TRUE] \in Requests
                            /\ [q EXCEPT !.met = TRUE].op = q.op
                            /\ [q EXCEPT !.met = TRUE].at = q.at
    BY DEF Requests
  <1>3. \A b \in BOOLEAN, n \in Nat : /\ [r EXCEPT !.met = b, !.serial = n] \in Requests
                                     /\ [r EXCEPT !.met = b, !.serial = n].op = r.op
                                     /\ [r EXCEPT !.met = b, !.serial = n].at = r.at
    BY DEF Requests
  <1>4. PICK others : req' = [v \in Threads |->
                     IF v = t THEN [r EXCEPT !.met = (others # {}), !.serial = served + 1]
                     ELSE IF v \in others THEN [req[v] EXCEPT !.met = TRUE]
                     ELSE req[v]]
    BY DEF Begin
  <1>5. \A v \in Threads : req[v] \in Requests /\ Fits(req[v])
    BY DEF Shape
  <1>6. \A v \in Threads : /\ req'[v] \in Requests
                           /\ \/ req'[v].op = req[v].op /\ req'[v].at = req[v].at
                              \/ req'[v].op = r.op /\ req'[v].at = r.at
    <2>1. \A o : (o # {}) \in BOOLEAN
      OBVIOUS
    <2>2. served + 1 \in Nat
      BY <1>1
    <2> DEFINE b == others # {}
               n == served + 1
    <2>3. b \in BOOLEAN /\ n \in Nat
      BY <2>1, <2>2
    <2>4. req' = [v \in Threads |-> IF v = t THEN [r EXCEPT !.met = b, !.serial = n]
                                   ELSE IF v \in others THEN [req[v] EXCEPT !.met = TRUE]
                                   ELSE req[v]]
      BY <1>4
    <2> HIDE DEF b, n
    <2>5. /\ [r EXCEPT !.met = b, !.serial = n] \in Requests
          /\ [r EXCEPT !.met = b, !.serial = n].op = r.op
          /\ [r EXCEPT !.met = b, !.serial = n].at = r.at
      BY <1>3, <2>3
    <2>6. ASSUME NEW v \in Threads
          PROVE  /\ req'[v] \in Requests
                 /\ \/ req'[v].op = req[v].op /\ req'[v].at = req[v].at
                    \/ req'[v].op = r.op /\ req'[v].at = r.at
      <3>1. CASE v = t
        BY <2>4, <2>5, <3>1
      <3>2. CASE v # t /\ v \in others
        BY <1>2, <1>5, <2>4, <3>2
      <3>3. CASE v # t /\ v \notin others
        BY <1>5, <2>4, <3>3
      <3> QED BY <3>1, <3>2, <3>3
    <2> QED BY <2>6
  <1>7. \A v \in Threads : Fits(req'[v])
    BY <1>5, <1>6 DEF Fits
  <1>8. req' = [v \in Threads |-> req'[v]]
    BY <1>4
  <1>9. req' \in [Threads -> Requests]
    BY <1>6, <1>8
  <1> QED BY <1>1, <1>7, <1>9

(* What a session id leaves to choose from.                                *)
LEMMA IdsBounded ==
    ASSUME Shape, IdsInOrder, NEW S \in SUBSET sessions
    PROVE  Ids(S) \in SUBSET (0 .. made)
  BY DEF Shape, IdsInOrder, Ids

(* The sweep over the sessions goes on, or into the tables.                *)
LEMMA Continues ==
    ASSUME Shape, NEW t \in Threads, req[t].at \in SweepPlaces, NEW left \in SUBSET Nat,
           NEW listing \in BOOLEAN, Continue(t, left, listing)
    PROVE  req' \in [Threads -> Requests] /\ \A v \in Threads : Fits(req'[v])
  <1>1. req[t] \in Requests /\ Fits(req[t])
    BY DEF Shape
  <1>2. CASE req' = [req EXCEPT ![t] = Idle]
    BY <1>2, Ended DEF End
  <1>3. ASSUME NEW l \in {"wipe", "list", "tables"}, NEW w \in SUBSET Nat,
               l = "tables" => req[t].op = "purge",
               req' = [req EXCEPT ![t].at = l, ![t].work = w]
        PROVE  req' \in [Threads -> Requests] /\ \A v \in Threads : Fits(req'[v])
    <2> DEFINE r == [req[t] EXCEPT !.at = l, !.work = w]
    <2>1. l \in Places
      BY <1>3 DEF Places
    <2>2. r \in Requests /\ r.op = req[t].op /\ r.at = l
      BY <1>1, <2>1, Fields DEF Requests
    <2>3. req' = [req EXCEPT ![t] = r]
      BY <1>3
    <2> HIDE DEF r
    <2>4. Fits(r)
      BY <1>1, <1>3, <2>2, FitsThere DEF SweepPlaces, PurgePlaces
    <2> QED BY <2>2, <2>3, <2>4, Moved
  <1> QED BY <1>2, <1>3 DEF Continue

LEMMA ChatShape ==
    ASSUME Shape, IdsInOrder, NEW t \in Threads, ChatStep(t)
    PROVE  /\ sessions' \subseteq [id : Nat, user : Users, kind : Kinds]
           /\ messages' \subseteq [session : Nat, role : {"user", "assistant"}, of : Nat,
                                   author : Users]
           /\ made' \in Nat /\ served' = served
           /\ req' \in [Threads -> Requests]
           /\ \A v \in Threads : Fits(req'[v])
           /\ IdsInOrder'
  <1> DEFINE Goal == req' \in [Threads -> Requests] /\ \A v \in Threads : Fits(req'[v])
  <1>0. req[t] \in Requests /\ Fits(req[t])
    BY DEF Shape
  (* A request that asks moves on with what it has read.                   *)
  <1>1. ASSUME req[t].at \in AskPlaces, NEW r \in Requests, r.op = req[t].op,
               r.at \in AskPlaces, req' = [req EXCEPT ![t] = r]
        PROVE  Goal
    BY <1>0, <1>1, FitsThere, Moved
  <1>2. CASE FindGiven(t)
    <2> DEFINE r == [req[t] EXCEPT !.at = "latest", !.session = NoSession]
    <2>1. r \in Requests /\ r.op = req[t].op /\ r.at = "latest"
      BY <1>0, Fields, AllPlaces DEF Requests, NoSession, AskPlaces
    <2>2. Goto(t, "peek") \/ req' = [req EXCEPT ![t] = r]
      BY <1>2 DEF FindGiven
    <2>3. req[t].at \in AskPlaces
      BY <1>2 DEF FindGiven, AskPlaces
    <2> HIDE DEF r
    <2>4. Goal
      BY <1>1, <2>1, <2>2, <2>3, Gone, AllPlaces DEF AskPlaces
    <2> QED BY <1>2, <2>4 DEF FindGiven, Shape, IdsInOrder
  <1>3. CASE PeekGiven(t)
    <2> DEFINE b == MessagesOf(req[t].session) = {}
               r == [req[t] EXCEPT !.at = "history", !.first = b]
    <2>0. b \in BOOLEAN
      OBVIOUS
    <2>1. req' = [req EXCEPT ![t] = r] /\ req[t].at \in AskPlaces
      BY <1>3 DEF PeekGiven, AskPlaces
    <2> HIDE DEF b
    <2>2. r \in Requests /\ r.op = req[t].op /\ r.at = "history"
      BY <1>0, <2>0, Fields, AllPlaces DEF Requests, AskPlaces
    <2> HIDE DEF r
    <2>3. Goal
      BY <1>1, <2>1, <2>2 DEF AskPlaces
    <2> QED BY <1>3, <2>3 DEF PeekGiven, Shape, IdsInOrder
  <1>4. CASE FindLatest(t)
    <2> DEFINE own == {x \in sessions : x.user = req[t].user /\ x.kind = req[t].kind}
               r == [req[t] EXCEPT !.at = "history", !.session = Last(Ids(own)), !.first = FALSE]
    <2>1. own # {} => Last(Ids(own)) \in Nat
      <3>1. Ids(own) \in SUBSET (0 .. made)
        BY IdsBounded
      <3>2. own # {} => Ids(own) # {}
        BY DEF Ids
      <3>3. made \in Nat
        BY DEF Shape
      <3> HIDE DEF own
      <3>4. own # {} => Last(Ids(own)) \in Ids(own)
        BY <3>1, <3>2, <3>3, LastIsIn
      <3> QED BY <3>1, <3>4
    <2>2. Goto(t, "create") \/ (own # {} /\ req' = [req EXCEPT ![t] = r])
      BY <1>4 DEF FindLatest
    <2>3. req[t].at \in AskPlaces
      BY <1>4 DEF FindLatest, AskPlaces
    <2> HIDE DEF own
    <2>4. own # {} => r \in Requests /\ r.op = req[t].op /\ r.at = "history"
      <3> DEFINE last == Last(Ids(own))
      <3>1. own # {} => last \in Nat /\ "history" \in Places
        BY <2>1 DEF Places
      <3> HIDE DEF last
      <3>2. own # {} => r \in Requests
        BY <1>0, <3>1, Fields DEF last
      <3> QED BY <1>0, <3>2 DEF Requests
    <2> HIDE DEF r
    <2>5. Goal
      BY <1>1, <2>2, <2>3, <2>4, Gone, AllPlaces DEF AskPlaces
    <2> QED BY <1>4, <2>5 DEF FindLatest, Shape, IdsInOrder
  <1>5. CASE CreateSession(t)
    <2> DEFINE r == [req[t] EXCEPT !.at = "history", !.session = made + 1, !.first = TRUE]
    <2>1. req[t].user \in Users /\ req[t].kind \in Kinds /\ made \in Nat
      BY <1>0 DEF Requests, Shape
    <2>2. r \in Requests /\ r.op = req[t].op /\ r.at = "history"
      <3>1. made + 1 \in Nat /\ "history" \in Places
        BY <2>1 DEF Places
      <3>2. r \in Requests
        BY <1>0, <3>1, Fields
      <3> QED BY <1>0, <3>2 DEF Requests
    <2>3. req' = [req EXCEPT ![t] = r] /\ req[t].at \in AskPlaces
      BY <1>5 DEF CreateSession, AskPlaces
    <2> HIDE DEF r
    <2>4. Goal
      BY <1>1, <2>2, <2>3 DEF AskPlaces
    <2>5. sessions' \subseteq [id : Nat, user : Users, kind : Kinds] /\ made' \in Nat
      BY <1>5, <2>1 DEF CreateSession, Shape
    <2>6. IdsInOrder'
      BY <1>5, <2>1 DEF CreateSession, Shape, IdsInOrder
    <2> QED BY <1>5, <2>4, <2>5, <2>6 DEF CreateSession, Shape
  <1>6. CASE ReadHistory(t)
    <2> DEFINE b == MessagesOf(req[t].session) = {}
               r == [req[t] EXCEPT !.at = "question", !.blank = b]
    <2>0. b \in BOOLEAN
      OBVIOUS
    <2>1. req' = [req EXCEPT ![t] = r] /\ req[t].at \in AskPlaces
      BY <1>6 DEF ReadHistory, AskPlaces
    <2> HIDE DEF b
    <2>2. r \in Requests /\ r.op = req[t].op /\ r.at = "question"
      BY <1>0, <2>0, Fields, AllPlaces DEF Requests, AskPlaces
    <2> HIDE DEF r
    <2>3. Goal
      BY <1>1, <2>1, <2>2 DEF AskPlaces
    <2> QED BY <1>6, <2>3 DEF ReadHistory, Shape, IdsInOrder
  <1>7. ASSUME NEW role \in {"user", "assistant"}, Save(t, role)
        PROVE  messages' \subseteq [session : Nat, role : {"user", "assistant"}, of : Nat,
                                   author : Users]
    BY <1>0, <1>7 DEF Save, Shape, Requests
  <1>8. CASE SaveQuestion(t)
    <2>1. Goto(t, "stream") \/ End(t)
      BY <1>8 DEF SaveQuestion
    <2>2. Goal
      BY <1>8, <2>1, Gone, Ended, AllPlaces DEF SaveQuestion, AskPlaces
    <2> QED BY <1>7, <1>8, <2>2 DEF SaveQuestion, Shape, IdsInOrder
  <1>9. CASE StreamAnswer(t)
    <2>1. Goal
      BY <1>9, Gone, Ended, AllPlaces DEF StreamAnswer, AskPlaces
    <2> QED BY <1>9, <2>1 DEF StreamAnswer, Shape, IdsInOrder
  <1>10. CASE SaveAnswer(t)
    <2>1. Goal
      BY <1>10, Ended DEF SaveAnswer
    <2> QED BY <1>7, <1>10, <2>1 DEF SaveAnswer, Shape, IdsInOrder
  <1>11. CASE ListSessions(t)
    <2> DEFINE own == {x \in sessions : /\ x.user = req[t].user
                                        /\ req[t].op = "purge" \/ x.kind = req[t].kind}
    <2>1. Page(Ids(own)) \in SUBSET Nat
      <3>1. Ids(own) \in SUBSET (0 .. made)
        BY IdsBounded
      <3> QED BY <3>1 DEF Page
    <2>2. req[t].at \in SweepPlaces /\ Continue(t, Page(Ids(own)), TRUE)
      BY <1>11 DEF ListSessions, SweepPlaces
    <2> HIDE DEF own
    <2>3. Goal
      BY <2>1, <2>2, Continues
    <2> QED BY <1>11, <2>3 DEF ListSessions, Shape, IdsInOrder
  <1>12. CASE WipeMessages(t)
    <2>1. req[t].at \in SweepPlaces /\ Goto(t, "erase") /\ "erase" \in SweepPlaces
      BY <1>12 DEF WipeMessages, SweepPlaces
    <2>2. Goal
      BY <2>1, Gone, AllPlaces
    <2> QED BY <1>12, <2>2 DEF WipeMessages, Shape, IdsInOrder
  <1>13. CASE EraseSession(t)
    <2>1. req[t].work \in SUBSET Nat /\ req[t].at \in SweepPlaces
      BY <1>0, <1>13 DEF Requests, EraseSession, SweepPlaces
    <2>2. Continue(t, req[t].work \ {Last(req[t].work)}, FALSE) \/ End(t)
      BY <1>13 DEF EraseSession
    <2>3. Goal
      BY <2>1, <2>2, Continues, Ended
    <2>4. sessions' \subseteq sessions
      BY <1>13 DEF EraseSession
    <2> QED BY <1>13, <2>3, <2>4 DEF EraseSession, Shape, IdsInOrder
  <1> QED BY <1>2, <1>3, <1>4, <1>5, <1>6, <1>8, <1>9, <1>10, <1>11, <1>12, <1>13 DEF ChatStep

-----------------------------------------------------------------------------
(* Sign-ups, deletions, tokens and rows.                                   *)
LEMMA SignUpPlace ==
    ASSUME Shape, NEW t \in Threads, req[t].at \in {"known", "count", "refuse", "promote", "save"}
    PROVE  req[t].op \notin {"ask", "purge"}
  BY DEF Shape, Fits, AskPlaces, PurgePlaces, SweepPlaces

LEMMA PurgePlace ==
    ASSUME Shape, NEW t \in Threads, req[t].at \in PurgePlaces
    PROVE  req[t].op = "purge"
  BY DEF Shape, Fits

LEMMA AccountShape ==
    ASSUME Shape, NEW t \in Threads,
           \/ FindUser(t) \/ CountUsers(t) \/ Refuse(t) \/ Promote(t) \/ SaveUser(t)
           \/ DeleteSchwab(t) \/ DeleteTables(t) \/ LeaveWaitlist(t) \/ DeleteRow(t)
    PROVE  Shape'
  <1> DEFINE Goal == req' \in [Threads -> Requests] /\ \A v \in Threads : Fits(req'[v])
  <1>0. req[t] \in Requests /\ Fits(req[t])
    BY DEF Shape
  <1>1. req[t].user \in Users
    BY <1>0 DEF Requests
  <1>2. CASE FindUser(t)
    <2>1. req[t].op \notin {"ask", "purge"} /\ (Goto(t, "count") \/ End(t))
      BY <1>2, SignUpPlace DEF FindUser
    <2>2. Goal
      BY <2>1, Gone, Ended DEF Places, AskPlaces, PurgePlaces
    <2> QED BY <1>2, <2>2 DEF FindUser, chatData, Shape
  <1>3. CASE CountUsers(t)
    <2>1. req[t].op \notin {"ask", "purge"} /\ (Goto(t, "promote") \/ Goto(t, "refuse"))
      BY <1>3, SignUpPlace DEF CountUsers
    <2>2. Goal
      BY <2>1, Gone DEF Places, AskPlaces, PurgePlaces
    <2> QED BY <1>3, <2>2 DEF CountUsers, chatData, Shape
  <1>4. CASE Refuse(t)
    <2>1. Goal
      BY <1>4, Ended DEF Refuse
    <2>2. served \in Nat /\ waitlist[req[t].user].since \in Nat
      BY <1>1 DEF Shape
    <2>3. [status |-> "waiting", since |-> IF waitlist[req[t].user] = NotListed THEN served
                                           ELSE waitlist[req[t].user].since]
             \in [status : {"none", "waiting", "promoted"}, since : Nat]
      BY <2>2
    <2>4. waitlist' \in [Users -> [status : {"none", "waiting", "promoted"}, since : Nat]]
      BY <1>1, <1>4, <2>3 DEF Refuse, Shape
    <2> QED BY <1>4, <2>1, <2>4 DEF Refuse, chatData, Shape
  <1>5. CASE Promote(t)
    <2>1. req[t].op \notin {"ask", "purge"} /\ Goto(t, "save")
      BY <1>5, SignUpPlace DEF Promote
    <2>2. Goal
      BY <2>1, Gone DEF Places, AskPlaces, PurgePlaces
    <2>3. waitlist' \in [Users -> [status : {"none", "waiting", "promoted"}, since : Nat]]
      BY <1>1, <1>5 DEF Promote, Shape
    <2> QED BY <1>5, <2>2, <2>3 DEF Promote, chatData, Shape
  <1>6. CASE SaveUser(t)
    <2>1. Goal
      BY <1>6, Ended DEF SaveUser
    <2> QED BY <1>6, <2>1 DEF SaveUser, chatData, Shape
  <1>7. CASE DeleteSchwab(t)
    <2>1. req[t].op = "purge" /\ Goto(t, "list")
      BY <1>7, PurgePlace DEF DeleteSchwab, PurgePlaces
    <2>2. Goal
      BY <2>1, Gone, AllPlaces DEF SweepPlaces
    <2>3. rows' \in [Users -> SUBSET TableNames]
      BY <1>1, <1>7 DEF DeleteSchwab, Shape
    <2> QED BY <1>7, <2>2, <2>3 DEF DeleteSchwab, chatData, Shape
  <1>8. CASE DeleteTables(t)
    <2>1. req[t].op = "purge"
      BY <1>8, PurgePlace DEF DeleteTables, PurgePlaces
    <2>2. CASE Goto(t, "waitlist") /\ UNCHANGED rows
      <3>1. Goal
        BY <2>1, <2>2, Gone, AllPlaces DEF PurgePlaces
      <3> QED BY <1>8, <2>2, <3>1 DEF DeleteTables, chatData, Shape
    <2>3. CASE \E i \in Nat : /\ rows' = [rows EXCEPT ![req[t].user] = @ \ {Tables[i]}]
                             /\ req' = [req EXCEPT ![t].work = @ \cup {i}]
      <3>1. PICK i \in Nat : /\ rows' = [rows EXCEPT ![req[t].user] = @ \ {Tables[i]}]
                            /\ req' = [req EXCEPT ![t].work = @ \cup {i}]
        BY <2>3
      <3> DEFINE r == [req[t] EXCEPT !.work = @ \cup {i}]
      <3>2. r \in Requests /\ r.op = req[t].op /\ r.at = req[t].at
        BY <1>0 DEF Requests
      <3>3. req' = [req EXCEPT ![t] = r]
        BY <3>1
      <3> HIDE DEF r
      <3>4. Fits(r)
        BY <1>0, <3>2 DEF Fits
      <3>5. Goal
        BY <3>2, <3>3, <3>4, Moved
      <3>6. rows' \in [Users -> SUBSET TableNames]
        BY <1>1, <3>1 DEF Shape
      <3> QED BY <1>8, <3>5, <3>6 DEF DeleteTables, chatData, Shape
    <2> QED BY <1>8, <2>2, <2>3 DEF DeleteTables
  <1>9. CASE LeaveWaitlist(t)
    <2>1. req[t].op = "purge" /\ Goto(t, "row")
      BY <1>9, PurgePlace DEF LeaveWaitlist, PurgePlaces
    <2>2. Goal
      BY <2>1, Gone, AllPlaces DEF PurgePlaces
    <2>3. waitlist' \in [Users -> [status : {"none", "waiting", "promoted"}, since : Nat]]
      BY <1>1, <1>9 DEF LeaveWaitlist, NotListed, Shape
    <2> QED BY <1>9, <2>2, <2>3 DEF LeaveWaitlist, chatData, Shape
  <1>10. CASE DeleteRow(t)
    <2>1. Goal
      BY <1>10, Ended DEF DeleteRow
    <2> QED BY <1>10, <2>1 DEF DeleteRow, chatData, Shape
  <1> QED BY <1>2, <1>3, <1>4, <1>5, <1>6, <1>7, <1>8, <1>9, <1>10

(* What a new request looks like.                                          *)
LEMMA NewRequests ==
    ASSUME NEW u \in Users
    PROVE  /\ \A k \in Kinds, s \in Nat, l \in AskPlaces :
                 LET r == [Idle EXCEPT !.op = "ask", !.user = u, !.kind = k, !.session = s,
                                       !.at = l]
                 IN  r \in Requests /\ r.op = "ask" /\ r.at = l
           /\ \A s \in Nat :
                 LET r == [Idle EXCEPT !.op = "drop", !.user = u, !.at = "wipe", !.work = {s}]
                 IN  r \in Requests /\ r.op = "drop" /\ r.at = "wipe"
           /\ \A k \in Kinds :
                 LET r == [Idle EXCEPT !.op = "clear", !.user = u, !.kind = k, !.at = "list"]
                 IN  r \in Requests /\ r.op = "clear" /\ r.at = "list"
           /\ LET r == [Idle EXCEPT !.op = "signin", !.user = u, !.at = "known"]
              IN  r \in Requests /\ r.op = "signin" /\ r.at = "known"
           /\ LET r == [Idle EXCEPT !.op = "purge", !.user = u, !.at = "schwab"]
              IN  r \in Requests /\ r.op = "purge" /\ r.at = "schwab"
  <1>1. Idle \in Requests
    BY IdleShape
  <1>2. AskPlaces \subseteq Places /\ {"wipe", "list", "known", "schwab"} \subseteq Places
    BY AllPlaces DEF Places
  <1>3. {"ask", "drop", "clear", "signin", "purge"} \subseteq Ops
    BY DEF Ops
  <1> QED BY <1>1, <1>2, <1>3 DEF Requests

(* A request that arrives is one of these five.                            *)
Arrives(t, r) == /\ Begin(t, r)
                 /\ r \in Requests /\ Fits(r)
                 /\ r.at \in {"given", "latest", "create", "wipe", "list", "known", "schwab"}
                 /\ r.op \in {"ask", "drop", "clear", "signin", "purge"}
                 /\ r.at = "schwab" <=> r.op = "purge"
                 /\ r.session \in 0 .. made
                 /\ r.at = "wipe" => \E s : r.work = {s} /\ OwnedBy(s, r.user)

LEMMA IdleSession ==
    ASSUME Shape
    PROVE  Idle.session \in 0 .. made
  BY DEF Idle, NoSession, Shape

LEMMA Arrivals ==
    ASSUME Shape, NEW t \in Threads, NEW u \in Users,
           SignIn(t, u) \/ DeleteAccount(t, u) \/ ChatRequest(t, u)
    PROVE  /\ \E r : Arrives(t, r)
           /\ UNCHANGED chatData
  <1>1. CASE SignIn(t, u)
    <2> DEFINE r == [Idle EXCEPT !.op = "signin", !.user = u, !.at = "known"]
    <2>1. r \in Requests /\ r.op = "signin" /\ r.at = "known" /\ r.session \in 0 .. made
      <3>1. r \in Requests /\ r.op = "signin" /\ r.at = "known"
        BY NewRequests
      <3>2. r.session = Idle.session
        BY IdleShape DEF Requests
      <3> QED BY <3>1, <3>2, IdleSession
    <2>2. Begin(t, r)
      BY <1>1 DEF SignIn
    <2> HIDE DEF r
    <2>3. Arrives(t, r)
      BY <2>1, <2>2 DEF Arrives, Fits, AskPlaces, PurgePlaces
    <2> QED BY <1>1, <2>3 DEF SignIn
  <1>2. CASE DeleteAccount(t, u)
    <2> DEFINE r == [Idle EXCEPT !.op = "purge", !.user = u, !.at = "schwab"]
    <2>1. r \in Requests /\ r.op = "purge" /\ r.at = "schwab" /\ r.session \in 0 .. made
      <3>1. r \in Requests /\ r.op = "purge" /\ r.at = "schwab"
        BY NewRequests
      <3>2. r.session = Idle.session
        BY IdleShape DEF Requests
      <3> QED BY <3>1, <3>2, IdleSession
    <2>2. Begin(t, r)
      BY <1>2 DEF DeleteAccount
    <2> HIDE DEF r
    <2>3. Arrives(t, r)
      BY <2>1, <2>2 DEF Arrives, Fits, AskPlaces, PurgePlaces
    <2> QED BY <1>2, <2>3 DEF DeleteAccount
  <1>3. ASSUME NEW k \in Kinds, NEW fresh \in BOOLEAN, NEW given \in 0 .. made,
               Ask(t, u, k, fresh, given)
        PROVE  (\E r : Arrives(t, r)) /\ UNCHANGED chatData
    <2> DEFINE l == IF fresh THEN "create" ELSE IF given # NoSession THEN "given" ELSE "latest"
               r == [Idle EXCEPT !.op = "ask", !.user = u, !.kind = k, !.session = given, !.at = l]
    <2>1. l \in {"create", "given", "latest"} /\ given \in Nat
      BY DEF Shape
    <2>2. Begin(t, r)
      BY <1>3 DEF Ask
    <2> HIDE DEF l
    <2>3. r \in Requests /\ r.op = "ask" /\ r.at = l /\ r.session = given
      <3>1. l \in AskPlaces /\ given \in Nat
        BY <2>1 DEF AskPlaces
      <3>2. Idle \in Requests /\ l \in Places /\ "ask" \in Ops
        BY <3>1, IdleShape, AllPlaces DEF Ops
      <3> QED BY <3>1, <3>2 DEF Requests
    <2> HIDE DEF r
    <2>4. Arrives(t, r)
      BY <2>1, <2>2, <2>3 DEF Arrives, Fits, AskPlaces, PurgePlaces
    <2> QED BY <1>3, <2>4 DEF Ask, chatData
  <1>4. ASSUME NEW s \in 1 .. made, DropSession(t, u, s)
        PROVE  (\E r : Arrives(t, r)) /\ UNCHANGED chatData
    <2> DEFINE r == [Idle EXCEPT !.op = "drop", !.user = u, !.at = "wipe", !.work = {s}]
    <2>1. /\ r \in Requests /\ r.op = "drop" /\ r.at = "wipe" /\ r.session \in 0 .. made
          /\ r.work = {s} /\ r.user = u
      <3>1. s \in Nat
        BY DEF Shape
      <3>2. r \in Requests /\ r.op = "drop" /\ r.at = "wipe"
        BY <3>1, NewRequests
      <3>3. r.session = Idle.session /\ r.work = {s} /\ r.user = u
        BY IdleShape DEF Requests
      <3> QED BY <3>2, <3>3, IdleSession
    <2>2. Begin(t, r) /\ OwnedBy(s, u)
      BY <1>4 DEF DropSession
    <2> HIDE DEF r
    <2>3. Arrives(t, r)
      BY <2>1, <2>2 DEF Arrives, Fits, AskPlaces, PurgePlaces
    <2> QED BY <1>4, <2>3 DEF DropSession, chatData
  <1>5. ASSUME NEW k \in Kinds, ClearSessions(t, u, k)
        PROVE  (\E r : Arrives(t, r)) /\ UNCHANGED chatData
    <2> DEFINE r == [Idle EXCEPT !.op = "clear", !.user = u, !.kind = k, !.at = "list"]
    <2>1. r \in Requests /\ r.op = "clear" /\ r.at = "list" /\ r.session \in 0 .. made
      <3>1. r \in Requests /\ r.op = "clear" /\ r.at = "list"
        BY NewRequests
      <3>2. r.session = Idle.session
        BY IdleShape DEF Requests
      <3> QED BY <3>1, <3>2, IdleSession
    <2>2. Begin(t, r)
      BY <1>5 DEF ClearSessions
    <2> HIDE DEF r
    <2>3. Arrives(t, r)
      BY <2>1, <2>2 DEF Arrives, Fits, AskPlaces, PurgePlaces
    <2> QED BY <1>5, <2>3 DEF ClearSessions, chatData
  <1> QED BY <1>1, <1>2, <1>3, <1>4, <1>5 DEF ChatRequest

LEMMA WriteRowShape ==
    ASSUME Shape, NEW u \in Users, NEW table \in TableNames, WriteRow(u, table)
    PROVE  Shape'
  <1>1. \A q \in Requests : /\ [q EXCEPT !.met = TRUE] \in Requests
                            /\ [q EXCEPT !.met = TRUE].op = q.op
                            /\ [q EXCEPT !.met = TRUE].at = q.at
    BY DEF Requests
  <1>2. req' = [t \in Threads |-> IF t \in Running /\ req[t].user = u
                                 THEN [req[t] EXCEPT !.met = TRUE] ELSE req[t]]
    BY DEF WriteRow
  <1>3. ASSUME NEW t \in Threads PROVE req'[t] \in Requests /\ Fits(req'[t])
    <2>1. req[t] \in Requests /\ Fits(req[t])
      BY DEF Shape
    <2>2. req'[t] \in {req[t], [req[t] EXCEPT !.met = TRUE]}
      BY <1>2
    <2>3. req'[t] \in Requests /\ req'[t].op = req[t].op /\ req'[t].at = req[t].at
      BY <1>1, <2>1, <2>2
    <2> QED BY <2>1, <2>3 DEF Fits
  <1>4. req' \in [Threads -> Requests]
    BY <1>2, <1>3
  <1>5. rows' \in [Users -> SUBSET TableNames]
    BY DEF WriteRow, Shape
  <1> QED BY <1>3, <1>4, <1>5 DEF WriteRow, chatData, Shape

LEMMA ShapeKeeps == Shape /\ IdsInOrder /\ [Next]_vars => Shape' /\ IdsInOrder'
  <1> SUFFICES ASSUME Shape, IdsInOrder, [Next]_vars PROVE Shape' /\ IdsInOrder'
    OBVIOUS
  <1>1. ASSUME NEW t \in Threads, ChatContinues(t) PROVE Shape' /\ IdsInOrder'
    BY <1>1, ChatShape DEF ChatContinues, Shape
  <1>2. ASSUME NEW t \in Threads,
               \/ FindUser(t) \/ CountUsers(t) \/ Refuse(t) \/ Promote(t) \/ SaveUser(t)
               \/ DeleteSchwab(t) \/ DeleteTables(t) \/ LeaveWaitlist(t) \/ DeleteRow(t)
        PROVE  Shape' /\ IdsInOrder'
    <2>1. sessions' = sessions /\ made' = made
      BY <1>2 DEF FindUser, CountUsers, Refuse, Promote, SaveUser, DeleteSchwab, DeleteTables,
         LeaveWaitlist, DeleteRow, chatData
    <2> QED BY <1>2, <2>1, AccountShape DEF IdsInOrder
  <1>3. ASSUME NEW t \in Threads, CutShort(t), UNCHANGED accountVars PROVE Shape' /\ IdsInOrder'
    BY <1>3, Ended DEF CutShort, accountVars, Shape, IdsInOrder
  <1>4. ASSUME NEW t \in Threads, NEW u \in Users,
               SignIn(t, u) \/ DeleteAccount(t, u) \/ ChatBegins(t, u)
        PROVE  Shape' /\ IdsInOrder'
    <2>1. (\E r : Arrives(t, r)) /\ UNCHANGED chatData /\ UNCHANGED accountVars
      BY <1>4, Arrivals DEF ChatBegins, SignIn, DeleteAccount
    <2>2. /\ req' \in [Threads -> Requests] /\ \A v \in Threads : Fits(req'[v])
          /\ served' \in Nat
      BY <2>1, BeginShape DEF Arrives
    <2> QED BY <2>1, <2>2 DEF chatData, accountVars, Shape, IdsInOrder
  <1>5. ASSUME NEW u \in Users, NEW table \in TableNames, WriteRow(u, table)
        PROVE  Shape' /\ IdsInOrder'
    BY <1>5, WriteRowShape DEF WriteRow, chatData, IdsInOrder
  <1>6. ASSUME NEW u \in Users, CacheExpires(u) \/ TokenExpires(u) \/ RefreshToken(u)
        PROVE  Shape' /\ IdsInOrder'
    BY <1>6 DEF CacheExpires, TokenExpires, RefreshToken, chatVars, Shape, IdsInOrder
  <1>7. CASE UNCHANGED vars
    BY <1>7 DEF vars, chatVars, accountVars, Shape, IdsInOrder
  <1> QED BY <1>1, <1>2, <1>3, <1>4, <1>5, <1>6, <1>7 DEF Next, Step

-----------------------------------------------------------------------------
(* An ask that has its session holds one of its user, unless it is gone,   *)
(* and no later one can take its id.                                       *)
HasSession == {"peek", "history", "question", "stream", "answer"}
HasAsked == {"stream", "answer"}

OwnChats ==
    /\ MessagesAreOwn
    /\ \A t \in Threads :
          req[t].at \in HasSession =>
             /\ req[t].session <= made
             /\ Exists(req[t].session) => OwnedBy(req[t].session, req[t].user)

(* The question of an ask under way is there, or was wiped under it.       *)
Question(r) == [session |-> r.session, role |-> "user", of |-> r.serial, author |-> r.user]
Answered ==
    /\ AnswersHaveQuestions
    /\ \A t \in Threads :
          req[t].at \in HasAsked => Question(req[t]) \in messages \/ req[t].serial \in torn

(* A thread goes on with the session and the question it had, or has none. *)
Carries(v) ==
    req'[v].at \in HasSession =>
       /\ req[v].at \in HasSession
       /\ req'[v].session = req[v].session /\ req'[v].user = req[v].user
       /\ req'[v].serial = req[v].serial
       /\ req'[v].at \in HasAsked => req[v].at \in HasAsked

LEMMA Quiet ==
    ASSUME OwnChats, Answered, UNCHANGED <<sessions, messages, made>>, torn \subseteq torn',
           \A v \in Threads : Carries(v)
    PROVE  OwnChats' /\ Answered'
  <1>1. OwnChats'
    BY DEF OwnChats, MessagesAreOwn, OwnedBy, Exists, Carries
  <1>2. HasAsked \subseteq HasSession
    BY DEF HasAsked, HasSession
  <1>3. Answered'
    BY <1>2 DEF Answered, AnswersHaveQuestions, Question, Carries
  <1> QED BY <1>1, <1>3

(* One thread moves to a place without a session, the others stay.         *)
LEMMA LeavesOff ==
    ASSUME Shape, NEW t \in Threads, \A v \in Threads \ {t} : req'[v] = req[v],
           req'[t].at \notin HasSession
    PROVE  \A v \in Threads : Carries(v)
  BY DEF Carries

LEMMA GoesTo ==
    ASSUME Shape, NEW t \in Threads, NEW l, Goto(t, l)
    PROVE  /\ \A v \in Threads \ {t} : req'[v] = req[v]
           /\ req'[t] = [req[t] EXCEPT !.at = l]
           /\ req'[t].at = l /\ req'[t].op = req[t].op /\ req'[t].session = req[t].session
           /\ req'[t].user = req[t].user /\ req'[t].serial = req[t].serial
  BY DEF Goto, Shape, Requests

LEMMA GoesIdle ==
    ASSUME Shape, NEW t \in Threads, End(t)
    PROVE  /\ \A v \in Threads \ {t} : req'[v] = req[v]
           /\ req'[t] = Idle /\ Idle.at = "idle" /\ Idle.op = "none"
  BY DEF End, Shape, Idle

LEMMA GoesOn ==
    ASSUME Shape, NEW t \in Threads, NEW left, NEW listing, Continue(t, left, listing)
    PROVE  /\ \A v \in Threads \ {t} : req'[v] = req[v]
           /\ \/ req'[t] = Idle
              \/ /\ req'[t].op = req[t].op /\ req'[t].user = req[t].user
                 /\ req'[t].at \in {"wipe", "list", "tables"}
                 /\ req'[t].at = "tables" => left = {} /\ listing /\ req'[t].work = {}
  BY DEF Continue, Shape, Requests

LEMMA BeginsAnew ==
    ASSUME Shape, NEW t \in Threads, NEW r, Arrives(t, r)
    PROVE  \A v \in Threads : Carries(v)
  <1>1. PICK others : req' = [v \in Threads |->
                     IF v = t THEN [r EXCEPT !.met = (others # {}), !.serial = served + 1]
                     ELSE IF v \in others THEN [req[v] EXCEPT !.met = TRUE]
                     ELSE req[v]]
    BY DEF Arrives, Begin
  <1>2. r \in Requests /\ r.at \notin HasSession
    BY DEF Arrives, HasSession
  <1>3. req'[t].at = r.at
    BY <1>1, <1>2 DEF Requests
  <1>4. ASSUME NEW v \in Threads, v # t
        PROVE  /\ req'[v].at = req[v].at /\ req'[v].session = req[v].session
               /\ req'[v].user = req[v].user /\ req'[v].serial = req[v].serial
    BY <1>1, <1>4 DEF Shape, Requests
  <1> QED BY <1>2, <1>3, <1>4 DEF Carries

-----------------------------------------------------------------------------
(* An ask finds or makes its session.                                      *)
LEMMA TakesSession ==
    ASSUME Shape, IdsInOrder, OwnChats, Answered, NEW t \in Threads,
           FindGiven(t) \/ FindLatest(t) \/ CreateSession(t)
    PROVE  OwnChats' /\ Answered'
  <1>0. req[t] \in Requests
    BY DEF Shape
  (* It has one of its user, whose id is in use.                           *)
  <1>1. ASSUME \A v \in Threads \ {t} : req'[v] = req[v],
               req'[t].at \notin HasAsked,
               req'[t].user = req[t].user,
               req'[t].at \in HasSession =>
                  [id |-> req'[t].session, user |-> req[t].user, kind |-> req[t].kind]
                     \in sessions',
               UNCHANGED <<messages, torn>>, made <= made', made' \in Nat, IdsInOrder',
               sessions \subseteq sessions', \A x \in sessions' \ sessions : x.id > made
        PROVE  OwnChats' /\ Answered'
    <2>1. MessagesAreOwn'
      BY <1>1 DEF OwnChats, MessagesAreOwn, OwnedBy
    <2>2. ASSUME NEW v \in Threads, req'[v].at \in HasSession
          PROVE  /\ req'[v].session <= made'
                 /\ (Exists(req[v].session))' => (OwnedBy(req[v].session, req[v].user))'
      <3>1. CASE v = t
        BY <1>1, <2>2, <3>1 DEF IdsInOrder, OwnedBy
      <3>2. CASE v # t
        <4>1. req'[v] = req[v] /\ req[v].session <= made /\ req[v].session \in Nat /\ made \in Nat
          BY <1>1, <2>2, <3>2 DEF OwnChats, Shape, Requests
        <4>2. ASSUME NEW x \in sessions', x.id = req[v].session PROVE x \in sessions
          BY <1>1, <4>1, <4>2
        <4>3. (Exists(req[v].session))' => Exists(req[v].session)
          BY <4>1, <4>2 DEF Exists
        <4> QED BY <1>1, <2>2, <4>1, <4>3 DEF OwnChats, OwnedBy
      <3> QED BY <3>1, <3>2
    <2>3. Answered'
      BY <1>1 DEF Answered, AnswersHaveQuestions, Question
    <2> QED BY <2>1, <2>2, <2>3 DEF OwnChats
  <1>2. CASE FindGiven(t)
    <2>1. CASE Goto(t, "peek") /\ [id |-> req[t].session, user |-> req[t].user,
                                   kind |-> req[t].kind] \in sessions
      <3>1. UNCHANGED <<sessions, messages, made, torn>> /\ made \in Nat
        BY <1>2 DEF FindGiven, Shape
      <3>2. IdsInOrder'
        BY <3>1 DEF IdsInOrder
      <3>3. /\ \A v \in Threads \ {t} : req'[v] = req[v]
            /\ req'[t].at = "peek" /\ req'[t].session = req[t].session
            /\ req'[t].user = req[t].user
        BY <2>1, GoesTo
      <3> QED BY <1>1, <2>1, <3>1, <3>2, <3>3 DEF HasAsked
    <2>2. CASE req' = [req EXCEPT ![t].at = "latest", ![t].session = NoSession]
      <3>1. req'[t].at = "latest" /\ \A v \in Threads \ {t} : req'[v] = req[v]
        BY <2>2 DEF Shape, Requests
      <3> QED BY <1>2, <3>1, LeavesOff, Quiet DEF FindGiven, HasSession
    <2> QED BY <1>2, <2>1, <2>2 DEF FindGiven
  <1>3. CASE FindLatest(t)
    <2> DEFINE own == {x \in sessions : x.user = req[t].user /\ x.kind = req[t].kind}
               n == Last(Ids(own))
    <2>1. CASE Goto(t, "create")
      <3>1. \A v \in Threads : Carries(v)
        <4>1. req'[t].at = "create" /\ \A v \in Threads \ {t} : req'[v] = req[v]
          BY <2>1, GoesTo
        <4> QED BY <4>1, LeavesOff DEF HasSession
      <3>2. UNCHANGED <<sessions, messages, made, torn>>
        BY <1>3 DEF FindLatest
      <3> QED BY <3>1, <3>2, Quiet
    <2>2. CASE own # {} /\ req' = [req EXCEPT ![t].at = "history", ![t].session = n,
                                             ![t].first = FALSE]
      <3>1. Ids(own) \in SUBSET (0 .. made) /\ made \in Nat
        BY IdsBounded DEF Shape
      <3>2. Ids(own) # {}
        BY <2>2 DEF Ids
      <3>3. n \in Ids(own)
        <4> HIDE DEF own
        <4> QED BY <3>1, <3>2, LastIsIn
      <3>4. PICK x \in own : x.id = n
        BY <3>3 DEF Ids
      <3> HIDE DEF n
      <3>5. req'[t].at = "history" /\ req'[t].session = n /\ req'[t].user = req[t].user
            /\ \A v \in Threads \ {t} : req'[v] = req[v]
        BY <1>0, <2>2 DEF Shape, Requests
      <3>6. x = [id |-> n, user |-> req[t].user, kind |-> req[t].kind] /\ x \in sessions
        BY <3>4 DEF Shape
      <3>7. UNCHANGED <<sessions, messages, made, torn>>
        BY <1>3 DEF FindLatest
      <3>8. IdsInOrder'
        BY <3>7 DEF IdsInOrder
      <3> HIDE DEF own
      <3> QED BY <1>1, <3>1, <3>5, <3>6, <3>7, <3>8 DEF HasAsked
    <2> QED BY <1>3, <2>1, <2>2 DEF FindLatest
  <1>4. CASE CreateSession(t)
    <2>1. ChatStep(t)
      BY <1>4 DEF ChatStep
    <2>2. req'[t].at = "history" /\ req'[t].session = made + 1 /\ req'[t].user = req[t].user
          /\ \A v \in Threads \ {t} : req'[v] = req[v]
      BY <1>0, <1>4 DEF CreateSession, Shape, Requests
    <2>3. made \in Nat /\ made' = made + 1
      BY <1>4 DEF CreateSession, Shape
    <2>4. IdsInOrder'
      BY <2>1, ChatShape
    <2>5. UNCHANGED <<messages, torn>> /\ sessions \subseteq sessions'
      BY <1>4 DEF CreateSession
    <2>6. [id |-> made + 1, user |-> req[t].user, kind |-> req[t].kind] \in sessions'
      BY <1>4 DEF CreateSession
    <2>7. \A x \in sessions' \ sessions : x.id > made
      BY <1>4, <2>3 DEF CreateSession
    <2>8. made <= made' /\ made' \in Nat
      BY <2>3
    <2> QED BY <1>1, <2>2, <2>4, <2>5, <2>6, <2>7, <2>8 DEF HasAsked
  <1> QED BY <1>2, <1>3, <1>4

LEMMA SavesMessage ==
    ASSUME Shape, OwnChats, Answered, NEW t \in Threads, SaveQuestion(t) \/ SaveAnswer(t)
    PROVE  OwnChats' /\ Answered'
  <1>0. req[t] \in Requests
    BY DEF Shape
  <1>1. ASSUME NEW role \in {"user", "assistant"}, Save(t, role), req[t].at \in HasSession,
               sessions' = sessions
        PROVE  MessagesAreOwn'
    BY <1>1 DEF Save, OwnChats, MessagesAreOwn, OwnedBy, Exists
  <1>2. ASSUME UNCHANGED <<sessions, made>>, MessagesAreOwn', \A v \in Threads : req'[v].at \in HasSession =>
                  /\ req[v].at \in HasSession
                  /\ req'[v].session = req[v].session /\ req'[v].user = req[v].user
        PROVE  OwnChats'
    BY <1>2 DEF OwnChats, OwnedBy, Exists
  <1>3. CASE SaveQuestion(t)
    <2>1. MessagesAreOwn' /\ UNCHANGED <<sessions, made, torn>>
      BY <1>1, <1>3 DEF SaveQuestion, HasSession
    <2>2. CASE Exists(req[t].session) /\ Goto(t, "stream")
      <3>1. messages' = messages \cup {Question(req[t])}
        BY <1>3, <2>2 DEF SaveQuestion, Save, Question
      <3>2. req[t].at \in HasSession
        BY <1>3 DEF SaveQuestion, HasSession
      <3>3. OwnChats'
        BY <1>2, <2>1, <2>2, <3>2, GoesTo
      <3>4. AnswersHaveQuestions'
        BY <2>1, <3>1 DEF Answered, AnswersHaveQuestions, Question
      <3>5. ASSUME NEW v \in Threads, req'[v].at \in HasAsked
            PROVE  (Question(req[v]))' \in messages' \/ req'[v].serial \in torn'
        <4>1. CASE v = t
          BY <2>2, <3>1, <4>1, GoesTo DEF Question
        <4>2. CASE v # t
          BY <2>1, <2>2, <3>1, <3>5, <4>2, GoesTo DEF Answered, Question
        <4> QED BY <4>1, <4>2
      <3> QED BY <3>3, <3>4, <3>5 DEF Answered
    <2>3. CASE ~Exists(req[t].session) /\ End(t)
      <3>1. \A v \in Threads : Carries(v)
        BY <2>3, GoesIdle, LeavesOff DEF HasSession
      <3> QED BY <1>3, <2>3, <3>1, Quiet DEF SaveQuestion, Save
    <2> QED BY <1>3, <2>2, <2>3 DEF SaveQuestion
  <1>4. CASE SaveAnswer(t)
    <2> DEFINE answer == [session |-> req[t].session, role |-> "assistant", of |-> req[t].serial,
                          author |-> req[t].user]
    <2>1. MessagesAreOwn' /\ UNCHANGED <<sessions, made, torn>>
      BY <1>1, <1>4 DEF SaveAnswer, HasSession
    <2>2. messages' \subseteq messages \cup {answer} /\ messages \subseteq messages'
      BY <1>4 DEF SaveAnswer, Save
    <2>3. \A v \in Threads : Carries(v)
      BY <1>4, GoesIdle, LeavesOff DEF SaveAnswer, HasSession
    <2>4. OwnChats'
      BY <1>2, <2>1, <2>3 DEF Carries
    <2>5. Question(req[t]) \in messages \/ req[t].serial \in torn
      BY <1>4 DEF SaveAnswer, HasAsked, Answered
    <2>6. [answer EXCEPT !.role = "user"] = Question(req[t])
      BY DEF Question
    <2>7. AnswersHaveQuestions'
      BY <2>1, <2>2, <2>5, <2>6 DEF Answered, AnswersHaveQuestions
    <2>8. HasAsked \subseteq HasSession
      BY DEF HasAsked, HasSession
    <2>9. Answered'
      BY <2>1, <2>2, <2>3, <2>7, <2>8 DEF Answered, Question, Carries
    <2> QED BY <2>4, <2>9
  <1> QED BY <1>3, <1>4

(* An ask reads, or waits for the model.                                   *)
LEMMA ReadsOn ==
    ASSUME Shape, OwnChats, Answered, NEW t \in Threads,
           PeekGiven(t) \/ ReadHistory(t) \/ StreamAnswer(t)
    PROVE  OwnChats' /\ Answered'
  <1>0. req[t] \in Requests
    BY DEF Shape
  <1>1. CASE PeekGiven(t)
    <2>1. /\ req'[t].at = "history" /\ req'[t].session = req[t].session
          /\ req'[t].user = req[t].user /\ req'[t].serial = req[t].serial
          /\ \A v \in Threads \ {t} : req'[v] = req[v]
      BY <1>0, <1>1 DEF PeekGiven, Shape, Requests
    <2>2. \A v \in Threads : Carries(v)
      BY <1>1, <2>1 DEF PeekGiven, Carries, HasSession, HasAsked
    <2> QED BY <1>1, <2>2, Quiet DEF PeekGiven
  <1>2. CASE ReadHistory(t)
    <2>1. /\ req'[t].at = "question" /\ req'[t].session = req[t].session
          /\ req'[t].user = req[t].user /\ req'[t].serial = req[t].serial
          /\ \A v \in Threads \ {t} : req'[v] = req[v]
      BY <1>0, <1>2 DEF ReadHistory, Shape, Requests
    <2>2. \A v \in Threads : Carries(v)
      BY <1>2, <2>1 DEF ReadHistory, Carries, HasSession, HasAsked
    <2> QED BY <1>2, <2>2, Quiet DEF ReadHistory
  <1>3. CASE StreamAnswer(t)
    <2>1. CASE Goto(t, "answer")
      <3>1. \A v \in Threads : Carries(v)
        BY <1>3, <2>1, GoesTo DEF StreamAnswer, Carries, HasSession, HasAsked
      <3> QED BY <1>3, <3>1, Quiet DEF StreamAnswer
    <2>2. CASE End(t)
      <3>1. \A v \in Threads : Carries(v)
        BY <2>2, GoesIdle, LeavesOff DEF HasSession
      <3> QED BY <1>3, <3>1, Quiet DEF StreamAnswer
    <2> QED BY <1>3, <2>1, <2>2 DEF StreamAnswer
  <1> QED BY <1>1, <1>2, <1>3

(* A deletion takes the messages of a session with it, then the session,   *)
(* if it has no message again.                                             *)
LEMMA Sweeps ==
    ASSUME Shape, OwnChats, Answered, NEW t \in Threads,
           ListSessions(t) \/ WipeMessages(t) \/ EraseSession(t)
    PROVE  OwnChats' /\ Answered'
  <1>1. ASSUME NEW left, NEW listing, Continue(t, left, listing) PROVE \A v \in Threads : Carries(v)
    <2>1. \A v \in Threads \ {t} : req'[v] = req[v]
      BY <1>1, GoesOn
    <2>2. req'[t].at \notin HasSession
      <3>1. Idle.at = "idle"
        BY DEF Idle
      <3>2. req'[t] = Idle \/ req'[t].at \in {"wipe", "list", "tables"}
        BY <1>1, GoesOn
      <3> QED BY <3>1, <3>2 DEF HasSession
    <2> QED BY <2>1, <2>2, LeavesOff
  <1>2. CASE ListSessions(t)
    <2>1. \A v \in Threads : Carries(v)
      BY <1>1, <1>2 DEF ListSessions
    <2> QED BY <1>2, <2>1, Quiet DEF ListSessions
  <1>3. CASE WipeMessages(t)
    <2> DEFINE s == Last(req[t].work)
    <2>1. /\ messages' = messages \ MessagesOf(s) /\ UNCHANGED <<sessions, made>>
          /\ torn' = torn \cup {req[v].serial : v \in {w \in Running : req[w].op = "ask"
                                                                     /\ req[w].session = s}}
      BY <1>3 DEF WipeMessages
    <2>2. req'[t].at = "erase" /\ \A v \in Threads \ {t} : req'[v] = req[v]
      BY <1>3, GoesTo DEF WipeMessages
    <2> HIDE DEF s
    <2>3. \A v \in Threads : Carries(v)
      BY <2>2, LeavesOff DEF HasSession
    <2>4. OwnChats'
      BY <2>1, <2>3 DEF OwnChats, MessagesAreOwn, OwnedBy, Exists, Carries
    <2>5. AnswersHaveQuestions'
      <3> SUFFICES ASSUME NEW m \in messages', m.role = "assistant"
                   PROVE  [m EXCEPT !.role = "user"] \in messages' \/ m.of \in torn'
        BY DEF AnswersHaveQuestions
      <3>1. m \in messages /\ m.session # s
        BY <2>1 DEF MessagesOf
      <3>2. [m EXCEPT !.role = "user"] \in messages \/ m.of \in torn
        BY <3>1 DEF Answered, AnswersHaveQuestions
      <3>3. [m EXCEPT !.role = "user"].session = m.session
        BY <3>1 DEF Shape
      <3> QED BY <2>1, <3>1, <3>2, <3>3 DEF MessagesOf
    <2>6. ASSUME NEW v \in Threads, req'[v].at \in HasAsked
          PROVE  (Question(req[v]))' \in messages' \/ req'[v].serial \in torn'
      <3>1. v # t /\ req'[v] = req[v]
        BY <2>2, <2>6 DEF HasAsked
      <3>2. Question(req[v]) \in messages \/ req[v].serial \in torn
        BY <2>6, <3>1 DEF Answered
      <3>3. (Question(req[v]))' = Question(req[v]) /\ Question(req[v]).session = req[v].session
        BY <3>1 DEF Question
      <3>4. CASE req[v].session = s
        <4>1. req[v].op = "ask" /\ v \in Running
          BY <2>6, <3>1 DEF Shape, Fits, HasAsked, AskPlaces, Running
        <4> QED BY <2>1, <3>1, <3>4, <4>1
      <3>5. CASE req[v].session # s
        BY <2>1, <3>1, <3>2, <3>3, <3>5 DEF MessagesOf
      <3> QED BY <3>4, <3>5
    <2> QED BY <2>4, <2>5, <2>6 DEF Answered
  <1>4. CASE EraseSession(t)
    <2> DEFINE s == Last(req[t].work)
    <2>1. \A v \in Threads : Carries(v)
      <3>1. CASE End(t)
        BY <3>1, GoesIdle, LeavesOff DEF HasSession
      <3> QED BY <1>1, <1>4, <3>1 DEF EraseSession
    <2>2. UNCHANGED <<messages, made, torn>>
      BY <1>4 DEF EraseSession
    <2>3. CASE UNCHANGED sessions
      BY <2>1, <2>2, <2>3, Quiet
    <2>4. CASE MessagesOf(s) = {} /\ sessions' = {x \in sessions : x.id # s}
      <3> HIDE DEF s
      <3>1. \A m \in messages : m.session # s
        BY <2>4 DEF MessagesOf
      <3>2. MessagesAreOwn'
        BY <2>2, <2>4, <3>1 DEF OwnChats, MessagesAreOwn, OwnedBy
      <3>3. OwnChats'
        BY <2>1, <2>2, <2>4, <3>2 DEF OwnChats, OwnedBy, Exists, Carries
      <3>4. HasAsked \subseteq HasSession
        BY DEF HasAsked, HasSession
      <3>5. Answered'
        BY <2>1, <2>2, <3>4 DEF Answered, AnswersHaveQuestions, Question, Carries
      <3> QED BY <3>3, <3>5
    <2> QED BY <1>4, <2>3, <2>4 DEF EraseSession
  <1> QED BY <1>2, <1>3, <1>4

LEMMA ChatsKeep == Shape /\ IdsInOrder /\ OwnChats /\ Answered /\ [Next]_vars => OwnChats' /\ Answered'
  <1> SUFFICES ASSUME Shape, IdsInOrder, OwnChats, Answered, [Next]_vars
               PROVE  OwnChats' /\ Answered'
    OBVIOUS
  <1>1. ASSUME NEW t \in Threads, ChatContinues(t) PROVE OwnChats' /\ Answered'
    BY <1>1, TakesSession, ReadsOn, SavesMessage, Sweeps DEF ChatContinues, ChatStep
  <1>2. ASSUME NEW t \in Threads,
               \/ FindUser(t) \/ CountUsers(t) \/ Refuse(t) \/ Promote(t) \/ SaveUser(t)
               \/ DeleteSchwab(t) \/ DeleteTables(t) \/ LeaveWaitlist(t) \/ DeleteRow(t)
        PROVE  OwnChats' /\ Answered'
    <2>1. UNCHANGED <<sessions, messages, made, torn>>
      BY <1>2 DEF FindUser, CountUsers, Refuse, Promote, SaveUser, DeleteSchwab, DeleteTables,
         LeaveWaitlist, DeleteRow, chatData
    <2>2. CASE \E l \in {"count", "promote", "refuse", "save", "list", "waitlist", "row"} :
                  Goto(t, l)
      <3>1. \A v \in Threads : Carries(v)
        BY <2>2, GoesTo, LeavesOff DEF HasSession
      <3> QED BY <2>1, <3>1, Quiet
    <2>3. CASE End(t)
      <3>1. \A v \in Threads : Carries(v)
        BY <2>3, GoesIdle, LeavesOff DEF HasSession
      <3> QED BY <2>1, <3>1, Quiet
    <2>4. ASSUME NEW i, req[t].at = "tables", req' = [req EXCEPT ![t].work = @ \cup {i}]
          PROVE  OwnChats' /\ Answered'
      <3>1. req'[t].at = "tables" /\ \A v \in Threads \ {t} : req'[v] = req[v]
        BY <2>4 DEF Shape, Requests
      <3>2. \A v \in Threads : Carries(v)
        BY <3>1, LeavesOff DEF HasSession
      <3> QED BY <2>1, <3>2, Quiet
    <2> QED BY <1>2, <2>2, <2>3, <2>4 DEF FindUser, CountUsers, Refuse, Promote, SaveUser,
               DeleteSchwab, DeleteTables, LeaveWaitlist, DeleteRow
  <1>3. ASSUME NEW t \in Threads, CutShort(t) PROVE OwnChats' /\ Answered'
    <2>1. \A v \in Threads : Carries(v)
      BY <1>3, GoesIdle, LeavesOff DEF CutShort, HasSession
    <2> QED BY <1>3, <2>1, Quiet DEF CutShort
  <1>4. ASSUME NEW t \in Threads, NEW u \in Users,
               SignIn(t, u) \/ DeleteAccount(t, u) \/ ChatBegins(t, u)
        PROVE  OwnChats' /\ Answered'
    <2>1. (\E r : Arrives(t, r)) /\ UNCHANGED chatData
      BY <1>4, Arrivals DEF ChatBegins
    <2>2. \A v \in Threads : Carries(v)
      BY <2>1, BeginsAnew
    <2> QED BY <2>1, <2>2, Quiet DEF chatData
  <1>5. ASSUME NEW u \in Users, NEW table \in TableNames, WriteRow(u, table)
        PROVE  OwnChats' /\ Answered'
    <2>1. ASSUME NEW v \in Threads
          PROVE  /\ req'[v].at = req[v].at /\ req'[v].session = req[v].session
                 /\ req'[v].user = req[v].user /\ req'[v].serial = req[v].serial
      BY <1>5 DEF WriteRow, Shape, Requests
    <2>2. \A v \in Threads : Carries(v)
      BY <2>1 DEF Carries
    <2> QED BY <1>5, <2>2, Quiet DEF WriteRow, chatData
  <1>6. CASE UNCHANGED chatVars
    <2>1. \A v \in Threads : Carries(v)
      BY <1>6 DEF chatVars, Carries
    <2> QED BY <1>6, <2>1, Quiet DEF chatVars
  <1> QED BY <1>1, <1>2, <1>3, <1>4, <1>5, <1>6 DEF Next, Step, CacheExpires, TokenExpires,
             RefreshToken, vars

LEMMA ChatsStart == Init => OwnChats /\ Answered
  BY IdleShape DEF Init, ChatInit, OwnChats, MessagesAreOwn, Answered, AnswersHaveQuestions,
     HasSession, HasAsked, Idle

(* No request ever writes into a chat of another user, though it may name  *)
(* any session, resolves it long before it writes, and sessions are        *)
(* deleted and made under it.                                              *)
THEOREM MessagesStayOwn == FairSpec => []MessagesAreOwn
  <1>1. OwnChats => MessagesAreOwn
    BY DEF OwnChats
  <1> QED BY <1>1, InitShape, ShapeKeeps, ChatsStart, ChatsKeep, PTL DEF FairSpec, Spec

(* An answer without its question is one whose chat was wiped, or whose    *)
(* ask was cut short, between the two saves: there is no other way.        *)
THEOREM OrphansWereWiped == FairSpec => []AnswersHaveQuestions
  <1>1. Answered => AnswersHaveQuestions
    BY DEF Answered
  <1> QED BY <1>1, InitShape, ShapeKeeps, ChatsStart, ChatsKeep, PTL DEF FairSpec, Spec

-----------------------------------------------------------------------------
(* A token, or a cached user, always stands for an account that is there   *)
(* or was deleted: no sign-in that stopped half-way leaves one.            *)
THEOREM TokensHaveAccounts == FairSpec => []AccountBehindToken
  <1>1. Init => AccountBehindToken
    BY DEF Init, AccountInit, AccountBehindToken
  <1>2. AccountBehindToken /\ [Next]_vars => AccountBehindToken'
    <2> SUFFICES ASSUME AccountBehindToken, [Next]_vars PROVE AccountBehindToken'
      OBVIOUS
    <2> USE DEF AccountBehindToken
    <2>1. CASE UNCHANGED <<users, cached, tokens, gone>>
      BY <2>1
    <2>2. ASSUME NEW t \in Threads, FindUser(t) PROVE AccountBehindToken'
      BY <2>2 DEF FindUser
    <2>3. ASSUME NEW t \in Threads, SaveUser(t) PROVE AccountBehindToken'
      BY <2>3 DEF SaveUser
    <2>4. ASSUME NEW t \in Threads, DeleteRow(t) PROVE AccountBehindToken'
      BY <2>4 DEF DeleteRow
    <2>5. ASSUME NEW u \in Users, CacheExpires(u) \/ TokenExpires(u) \/ RefreshToken(u)
          PROVE  AccountBehindToken'
      BY <2>5 DEF CacheExpires, TokenExpires, RefreshToken
    <2> QED BY <2>1, <2>2, <2>3, <2>4, <2>5 DEF Next, Step, vars, accountVars, CountUsers, Refuse,
               Promote, DeleteSchwab, DeleteTables, LeaveWaitlist, ChatContinues, SignIn,
               DeleteAccount, ChatBegins, WriteRow
  <1> QED BY <1>1, <1>2, PTL DEF FairSpec, Spec

-----------------------------------------------------------------------------
(* What a deletion is past holds nothing of its user that was not written  *)
(* beside it.                                                              *)
NoChats(u) == \A x \in sessions : x.user # u

Cleared(r) ==
    /\ r.at \in SweepPlaces \cup {"tables", "waitlist", "row"} => Tables[1] \notin rows[r.user]
    /\ r.at \in {"tables", "waitlist", "row"} => NoChats(r.user)
    /\ r.at = "tables" => \A i \in r.work : Tables[i] \notin rows[r.user]
    /\ r.at \in {"waitlist", "row"} => rows[r.user] = {}

Deletions ==
    /\ DataHasOwner
    /\ \A t \in Threads : req[t].op = "purge" => req[t].user \in late \/ Cleared(req[t])

(* Data that shrinks, or grows only for those who are late or are not      *)
(* being deleted, keeps this for the deletions that stay where they are.   *)
Stays(v) ==
    /\ req'[v].op = req[v].op /\ req'[v].at = req[v].at
    /\ req'[v].user = req[v].user /\ req'[v].work = req[v].work

Shrinks(u) ==
    rows'[u] \subseteq rows[u] /\ \A x \in sessions' : x.user = u => x \in sessions

LEMMA DataKept ==
    ASSUME Shape, Deletions,
           \A v \in Threads : Stays(v) \/ (req'[v].op = "purge" =>
                                            req'[v].user \in late' \/ (Cleared(req[v]))'),
           late \subseteq late',
           \A u \in Users \ late' : Shrinks(u) \/ (u \in users' /\ ~Deleting(u)),
           \A u \in Users \ late' : u \in users => u \in users' \/ ~HasData(u)
    PROVE  Deletions'
  <1>1. DataHasOwner'
    <2> SUFFICES ASSUME NEW u \in Users, HasData(u)', u \notin late' PROVE u \in users'
      BY DEF DataHasOwner
    <2>1. CASE Shrinks(u)
      <3>1. HasData(u)
        BY <2>1 DEF HasData, Shrinks
      <3>2. u \in users
        BY <3>1 DEF Deletions, DataHasOwner
      <3> QED BY <3>1, <3>2
    <2> QED BY <2>1
  <1>2. ASSUME NEW v \in Threads, Stays(v), req'[v].op = "purge", req'[v].user \notin late'
        PROVE  (Cleared(req[v]))'
    <2>1. /\ Stays(v) /\ req[v].op = "purge" /\ req[v].user \in Users \ late'
      BY <1>2 DEF Stays, Shape, Requests
    <2>2. Cleared(req[v])
      BY <2>1 DEF Deletions
    <2>3. Deleting(req[v].user)
      BY <2>1 DEF Deleting, Running, Shape, Fits, PurgePlaces, SweepPlaces
    <2>4. Shrinks(req[v].user)
      BY <2>1, <2>3
    <2>5. rows'[req'[v].user] \subseteq rows[req[v].user]
      BY <2>1, <2>4 DEF Stays, Shrinks
    <2>6. NoChats(req[v].user) => (NoChats(req[v].user))'
      BY <2>1, <2>4 DEF NoChats, Stays, Shrinks
    <2> QED BY <2>1, <2>2, <2>5, <2>6 DEF Cleared, Stays
  <1>3. ASSUME NEW v \in Threads, req'[v].op = "purge"
        PROVE  req'[v].user \in late' \/ (Cleared(req[v]))'
    BY <1>2, <1>3
  <1> QED BY <1>1, <1>3 DEF Deletions

(* A listing without a page means that the user has no chat.               *)
LEMMA NothingListed ==
    ASSUME Shape, IdsInOrder, NEW S \in SUBSET sessions, Page(Ids(S)) = {}
    PROVE  S = {}
  <1>1. Ids(S) \in SUBSET (0 .. made) /\ made \in Nat
    BY IdsBounded DEF Shape
  <1>2. Ids(S) = {}
    BY <1>1, EmptyPage
  <1> QED BY <1>2 DEF Ids

LEMMA ChatMoves ==
    ASSUME Shape, NEW t \in Threads, ChatStep(t)
    PROVE  /\ \A v \in Threads \ {t} : req'[v] = req[v]
           /\ req'[t] = Idle \/ (req'[t].op = req[t].op /\ req'[t].user = req[t].user)
  <1>0. req[t] \in Requests
    BY DEF Shape
  <1>1. CASE FindGiven(t) \/ SaveQuestion(t) \/ SaveAnswer(t) \/ StreamAnswer(t)
    BY <1>0, <1>1 DEF FindGiven, SaveQuestion, SaveAnswer, StreamAnswer, Goto, End, Shape, Requests
  <1>2. CASE PeekGiven(t) \/ ReadHistory(t) \/ CreateSession(t)
    BY <1>0, <1>2 DEF PeekGiven, ReadHistory, CreateSession, Shape, Requests
  <1>3. CASE FindLatest(t)
    <2>1. \/ Goto(t, "create")
          \/ \E n : req' = [req EXCEPT ![t].at = "history", ![t].session = n, ![t].first = FALSE]
      BY <1>3 DEF FindLatest
    <2>2. req \in [Threads -> Requests]
      BY DEF Shape
    <2>3. CASE Goto(t, "create")
      BY <1>0, <2>2, <2>3 DEF Goto, Requests
    <2>4. ASSUME NEW n, req' = [req EXCEPT ![t].at = "history", ![t].session = n, ![t].first = FALSE]
          PROVE  /\ \A v \in Threads \ {t} : req'[v] = req[v]
                 /\ req'[t].op = req[t].op /\ req'[t].user = req[t].user
      <3>1. req'[t] = [req[t] EXCEPT !.at = "history", !.session = n, !.first = FALSE]
        BY <2>2, <2>4
      <3> QED BY <1>0, <2>2, <2>4, <3>1 DEF Requests
    <2> QED BY <2>1, <2>3, <2>4
  <1>4. CASE ListSessions(t) \/ WipeMessages(t) \/ EraseSession(t)
    <2>1. \/ Goto(t, "erase") \/ End(t)
          \/ \E left, listing : Continue(t, left, listing)
      BY <1>4 DEF ListSessions, WipeMessages, EraseSession
    <2> QED BY <2>1, GoesTo, GoesIdle, GoesOn
  <1> QED BY <1>1, <1>2, <1>3, <1>4 DEF ChatStep

(* The chat requests: only a new session adds to what a user has.          *)
LEMMA ChatsClear ==
    ASSUME Shape, IdsInOrder, Deletions, NEW t \in Threads, ChatContinues(t)
    PROVE  Deletions'
  <1>0. req[t] \in Requests /\ Fits(req[t])
    BY DEF Shape
  <1>1. ChatStep(t) /\ UNCHANGED <<users, rows>> /\ late \subseteq late'
    BY DEF ChatContinues
  <1>2. /\ \A v \in Threads \ {t} : Stays(v)
        /\ req'[t] = Idle \/ (req'[t].op = req[t].op /\ req'[t].user = req[t].user)
    BY <1>1, ChatMoves DEF Stays
  <1>3. Idle.op # "purge"
    BY DEF Idle
  <1>4. ASSUME sessions' \subseteq sessions,
               req'[t].op = "purge" => req'[t].user \in late' \/ (Cleared(req[t]))'
        PROVE  Deletions'
    <2>1. \A u \in Users : Shrinks(u)
      BY <1>1, <1>4 DEF Shrinks
    <2> QED BY <1>1, <1>2, <1>4, <2>1, DataKept
  <1>5. CASE FindGiven(t) \/ PeekGiven(t) \/ FindLatest(t) \/ ReadHistory(t) \/ SaveQuestion(t)
             \/ StreamAnswer(t) \/ SaveAnswer(t)
    <2>1. sessions' = sessions /\ req[t].at \in AskPlaces
      BY <1>5 DEF FindGiven, PeekGiven, FindLatest, ReadHistory, SaveQuestion, StreamAnswer,
         SaveAnswer, AskPlaces
    <2>2. req'[t].op # "purge"
      BY <1>0, <1>2, <1>3, <2>1 DEF Fits
    <2> QED BY <1>4, <2>1, <2>2
  <1>6. CASE CreateSession(t)
    <2> DEFINE w == req[t].user
    <2>1. req[t].op = "ask" /\ w \in Users
      BY <1>0, <1>6 DEF CreateSession, Fits, AskPlaces, Requests
    <2>2. req'[t].op # "purge"
      BY <1>2, <1>3, <2>1
    <2>3. Deleting(w) \/ w \notin users => w \in late'
      BY <2>1 DEF ChatContinues
    <2>4. \A x \in sessions' : x \in sessions \/ x.user = w
      BY <1>6 DEF CreateSession
    <2> HIDE DEF w
    <2>5. \A u \in Users \ late' : Shrinks(u) \/ (u \in users' /\ ~Deleting(u))
      BY <1>1, <2>1, <2>3, <2>4 DEF Shrinks
    <2> QED BY <1>1, <1>2, <2>2, <2>5, DataKept
  <1>7. CASE WipeMessages(t)
    <2>1. sessions' = sessions /\ req[t].at = "wipe" /\ Goto(t, "erase")
      BY <1>7 DEF WipeMessages
    <2>2. req'[t].at = "erase" /\ req'[t].op = req[t].op /\ req'[t].user = req[t].user
      BY <2>1, GoesTo
    <2>3. req'[t].op = "purge" => req'[t].user \in late' \/ (Cleared(req[t]))'
      BY <1>1, <2>1, <2>2 DEF Deletions, Cleared, SweepPlaces
    <2> QED BY <1>4, <2>1, <2>3
  <1>8. ASSUME NEW left, NEW listing, Continue(t, left, listing), req[t].at \in SweepPlaces,
               sessions' \subseteq sessions,
               req[t].op = "purge" /\ listing /\ left = {} => NoChats(req[t].user)
        PROVE  Deletions'
    <2>1. CASE req'[t] = Idle
      BY <1>3, <1>4, <1>8, <2>1
    <2>2. CASE /\ req'[t].op = req[t].op /\ req'[t].user = req[t].user
               /\ req'[t].at \in {"wipe", "list", "tables"}
               /\ req'[t].at = "tables" => left = {} /\ listing /\ req'[t].work = {}
      <3>1. ASSUME req[t].op = "purge", req[t].user \notin late' PROVE (Cleared(req[t]))'
        <4>1. Tables[1] \notin rows[req[t].user]
          BY <1>1, <1>8, <3>1 DEF Deletions, Cleared
        <4>2. NoChats(req[t].user) => \A x \in sessions' : x.user # req'[t].user
          BY <1>8, <2>2 DEF NoChats
        <4> QED BY <1>1, <1>8, <2>2, <3>1, <4>1, <4>2 DEF Cleared, NoChats
      <3> QED BY <1>4, <1>8, <2>2, <3>1
    <2> QED BY <1>8, <2>1, <2>2, GoesOn
  <1>9. CASE ListSessions(t)
    <2> DEFINE own == {x \in sessions : /\ x.user = req[t].user
                                        /\ req[t].op = "purge" \/ x.kind = req[t].kind}
    <2>1. Continue(t, Page(Ids(own)), TRUE) /\ req[t].at \in SweepPlaces /\ sessions' = sessions
      BY <1>9 DEF ListSessions, SweepPlaces
    <2>2. Page(Ids(own)) = {} => own = {}
      BY NothingListed
    <2>3. req[t].op = "purge" /\ own = {} => NoChats(req[t].user)
      BY DEF NoChats
    <2> HIDE DEF own
    <2> QED BY <1>8, <2>1, <2>2, <2>3
  <1>10. CASE EraseSession(t)
    <2>1. sessions' \subseteq sessions /\ req[t].at \in SweepPlaces
      BY <1>10 DEF EraseSession, SweepPlaces
    <2>2. CASE End(t)
      BY <1>3, <1>4, <2>1, <2>2, GoesIdle
    <2>3. CASE \E left : Continue(t, left, FALSE)
      BY <1>8, <2>1, <2>3
    <2> QED BY <1>10, <2>2, <2>3 DEF EraseSession
  <1> QED BY <1>1, <1>5, <1>6, <1>7, <1>9, <1>10 DEF ChatStep

(* The walk of a deletion through the stores.                              *)
LEMMA WalkClears ==
    ASSUME Shape, Deletions, NEW t \in Threads,
           DeleteSchwab(t) \/ DeleteTables(t) \/ LeaveWaitlist(t) \/ DeleteRow(t)
    PROVE  Deletions'
  <1> DEFINE w == req[t].user
  <1>0. req[t] \in Requests /\ w \in Users /\ req[t].op = "purge"
    <2>1. req[t].at \in PurgePlaces
      BY DEF DeleteSchwab, DeleteTables, LeaveWaitlist, DeleteRow, PurgePlaces
    <2> QED BY <2>1, PurgePlace DEF Shape, Requests
  <1>1. w \in late \/ Cleared(req[t])
    BY <1>0 DEF Deletions
  <1>2. sessions' = sessions /\ late' = late /\ rows \in [Users -> SUBSET TableNames]
    BY DEF DeleteSchwab, DeleteTables, LeaveWaitlist, DeleteRow, chatData, Shape
  <1>3. ASSUME \A v \in Threads \ {t} : req'[v] = req[v],
               \A u \in Users : rows'[u] \subseteq rows[u],
               \A u \in Users \ late : u \in users => u \in users' \/ ~HasData(u),
               req'[t].op = "purge" => req'[t].user \in late \/ (Cleared(req[t]))'
        PROVE  Deletions'
    <2>1. \A v \in Threads \ {t} : Stays(v)
      BY <1>3 DEF Stays
    <2>2. \A u \in Users : Shrinks(u)
      BY <1>2, <1>3 DEF Shrinks
    <2> QED BY <1>2, <1>3, <2>1, <2>2, DataKept
  <1>4. CASE DeleteSchwab(t)
    <2>1. /\ \A v \in Threads \ {t} : req'[v] = req[v]
          /\ req'[t].at = "list" /\ req'[t].user = w
      BY <1>4, GoesTo DEF DeleteSchwab
    <2>2. users' = users /\ rows' = [rows EXCEPT ![w] = @ \ {Tables[1]}]
      BY <1>4 DEF DeleteSchwab
    <2>3. (Cleared(req[t]))'
      BY <1>0, <1>2, <2>1, <2>2 DEF Cleared
    <2>4. \A u \in Users : rows'[u] \subseteq rows[u]
      BY <1>2, <2>2
    <2> QED BY <1>3, <2>1, <2>2, <2>3, <2>4
  <1>5. CASE DeleteTables(t)
    <2>0. req[t].at = "tables" /\ users' = users
      BY <1>5 DEF DeleteTables
    <2>1. CASE Goto(t, "waitlist") /\ rows' = rows /\ \A i \in 2 .. Len(Tables) : i \in req[t].work
      <3>1. /\ \A v \in Threads \ {t} : req'[v] = req[v]
            /\ req'[t].at = "waitlist" /\ req'[t].user = w
        BY <2>1, GoesTo
      <3>2. ASSUME Cleared(req[t]) PROVE rows[w] = {}
        <4>1. Tables[1] \notin rows[w] /\ \A i \in req[t].work : Tables[i] \notin rows[w]
          BY <2>0, <3>2 DEF Cleared
        <4>2. \A i \in 1 .. Len(Tables) : i = 1 \/ i \in 2 .. Len(Tables)
          BY AccountBounds
        <4>3. \A i \in 1 .. Len(Tables) : Tables[i] \notin rows[w]
          BY <2>1, <4>1, <4>2
        <4> QED BY <1>0, <1>2, <4>3 DEF TableNames
      <3>3. w \in late \/ (Cleared(req[t]))'
        BY <1>1, <1>2, <2>0, <2>1, <3>1, <3>2 DEF Cleared, NoChats, SweepPlaces
      <3> QED BY <1>2, <1>3, <2>0, <2>1, <3>1, <3>3
    <2>2. CASE \E i \in Nat : /\ rows' = [rows EXCEPT ![w] = @ \ {Tables[i]}]
                             /\ req' = [req EXCEPT ![t].work = @ \cup {i}]
      <3>1. PICK i \in Nat : /\ rows' = [rows EXCEPT ![w] = @ \ {Tables[i]}]
                            /\ req' = [req EXCEPT ![t].work = @ \cup {i}]
        BY <2>2
      <3>2. /\ \A v \in Threads \ {t} : req'[v] = req[v]
            /\ req'[t].at = "tables" /\ req'[t].user = w
            /\ req'[t].work = req[t].work \cup {i}
        BY <1>0, <2>0, <3>1 DEF Shape, Requests
      <3>3. rows'[w] = rows[w] \ {Tables[i]} /\ \A u \in Users : rows'[u] \subseteq rows[u]
        BY <1>0, <1>2, <3>1
      <3>4. w \in late \/ (Cleared(req[t]))'
        BY <1>1, <1>2, <2>0, <3>2, <3>3 DEF Cleared, NoChats, SweepPlaces
      <3> QED BY <1>3, <2>0, <3>2, <3>3, <3>4
    <2> QED BY <1>5, <2>1, <2>2 DEF DeleteTables
  <1>6. CASE LeaveWaitlist(t)
    <2>1. /\ \A v \in Threads \ {t} : req'[v] = req[v]
          /\ req'[t].at = "row" /\ req'[t].user = w
      BY <1>6, GoesTo DEF LeaveWaitlist
    <2>2. users' = users /\ rows' = rows /\ req[t].at = "waitlist"
      BY <1>6 DEF LeaveWaitlist
    <2>3. w \in late \/ (Cleared(req[t]))'
      BY <1>1, <1>2, <2>1, <2>2 DEF Cleared, NoChats, SweepPlaces
    <2> QED BY <1>3, <2>1, <2>2, <2>3
  <1>7. CASE DeleteRow(t)
    <2>1. /\ \A v \in Threads \ {t} : req'[v] = req[v]
          /\ req'[t].op # "purge"
      BY <1>7, GoesIdle DEF DeleteRow
    <2>2. users' = users \ {w} /\ rows' = rows /\ req[t].at = "row"
      BY <1>7 DEF DeleteRow
    <2>3. w \in late \/ ~HasData(w)
      BY <1>1, <2>2 DEF Cleared, NoChats, HasData
    <2> QED BY <1>3, <2>1, <2>2, <2>3
  <1> QED BY <1>4, <1>5, <1>6, <1>7

LEMMA DeletionsKeep == Shape /\ IdsInOrder /\ Deletions /\ [Next]_vars => Deletions'
  <1> SUFFICES ASSUME Shape, IdsInOrder, Deletions, [Next]_vars PROVE Deletions'
    OBVIOUS
  <1>1. ASSUME NEW t \in Threads, ChatContinues(t) PROVE Deletions'
    BY <1>1, ChatsClear
  <1>2. ASSUME NEW t \in Threads,
               DeleteSchwab(t) \/ DeleteTables(t) \/ LeaveWaitlist(t) \/ DeleteRow(t)
        PROVE  Deletions'
    BY <1>2, WalkClears
  (* Steps that leave all data alone, of a thread that deletes nothing.    *)
  <1>3. ASSUME \A v \in Threads : Stays(v) \/ (req'[v].op = "purge" => (Cleared(req[v]))'),
               UNCHANGED <<sessions, rows>>, users \subseteq users', late \subseteq late'
        PROVE  Deletions'
    <2>1. \A u \in Users : Shrinks(u)
      BY <1>3 DEF Shrinks
    <2> QED BY <1>3, <2>1, DataKept
  <1>4. ASSUME NEW t \in Threads,
               FindUser(t) \/ CountUsers(t) \/ Refuse(t) \/ Promote(t) \/ SaveUser(t)
        PROVE  Deletions'
    <2>1. req[t].op # "purge"
      BY <1>4, SignUpPlace DEF FindUser, CountUsers, Refuse, Promote, SaveUser
    <2>2. End(t) \/ \E l : Goto(t, l)
      BY <1>4 DEF FindUser, CountUsers, Refuse, Promote, SaveUser
    <2>3. (\A v \in Threads \ {t} : req'[v] = req[v]) /\ req'[t].op # "purge"
      BY <2>1, <2>2, GoesTo, GoesIdle
    <2>4. UNCHANGED <<sessions, rows, late>> /\ users \subseteq users'
      BY <1>4 DEF FindUser, CountUsers, Refuse, Promote, SaveUser, chatData
    <2>5. \A v \in Threads \ {t} : Stays(v)
      BY <2>3 DEF Stays
    <2> QED BY <1>3, <2>3, <2>4, <2>5
  <1>5. ASSUME NEW t \in Threads, CutShort(t), UNCHANGED accountVars PROVE Deletions'
    <2>1. (\A v \in Threads \ {t} : req'[v] = req[v]) /\ req'[t].op # "purge"
      BY <1>5, GoesIdle DEF CutShort
    <2>2. UNCHANGED <<sessions, rows, users, late>>
      BY <1>5 DEF CutShort, accountVars
    <2>3. \A v \in Threads \ {t} : Stays(v)
      BY <2>1 DEF Stays
    <2> QED BY <1>3, <2>1, <2>2, <2>3
  <1>6. ASSUME NEW t \in Threads, NEW u \in Users,
               SignIn(t, u) \/ DeleteAccount(t, u) \/ ChatBegins(t, u)
        PROVE  Deletions'
    <2>1. (\E r : Arrives(t, r)) /\ UNCHANGED chatData /\ UNCHANGED accountVars
      BY <1>6, Arrivals DEF ChatBegins, SignIn, DeleteAccount
    <2>2. PICK r : Arrives(t, r)
      BY <2>1
    <2>3. PICK others : req' = [v \in Threads |->
                     IF v = t THEN [r EXCEPT !.met = (others # {}), !.serial = served + 1]
                     ELSE IF v \in others THEN [req[v] EXCEPT !.met = TRUE]
                     ELSE req[v]]
      BY <2>2 DEF Arrives, Begin
    <2>4. r \in Requests /\ (r.op = "purge" => r.at = "schwab")
      BY <2>2 DEF Arrives
    <2>5. req'[t].op = r.op /\ req'[t].at = r.at
      BY <2>3, <2>4 DEF Requests
    <2>6. ASSUME NEW v \in Threads, v # t PROVE Stays(v)
      BY <2>3, <2>6 DEF Stays, Shape, Requests
    <2>7. req'[t].op = "purge" => (Cleared(req[t]))'
      BY <2>4, <2>5 DEF Cleared, SweepPlaces
    <2>8. UNCHANGED <<sessions, rows, users, late>>
      BY <2>1 DEF chatData, accountVars
    <2> QED BY <1>3, <2>6, <2>7, <2>8
  <1>7. ASSUME NEW w \in Users, NEW table \in TableNames, WriteRow(w, table)
        PROVE  Deletions'
    <2>1. ASSUME NEW v \in Threads PROVE Stays(v)
      BY <1>7 DEF WriteRow, Stays, Shape, Requests
    <2>2. /\ rows' = [rows EXCEPT ![w] = @ \cup {table}] /\ sessions' = sessions
          /\ users' = users /\ late \subseteq late'
          /\ Deleting(w) \/ w \notin users => w \in late'
      BY <1>7 DEF WriteRow, chatData
    <2>3. \A u \in Users \ late' : Shrinks(u) \/ (u \in users' /\ ~Deleting(u))
      BY <2>2 DEF Shrinks, Shape
    <2> QED BY <2>1, <2>2, <2>3, DataKept
  <1>8. ASSUME UNCHANGED <<chatVars, rows, users, late>> PROVE Deletions'
    <2>1. /\ req' = req /\ sessions' = sessions /\ rows' = rows /\ users' = users
          /\ late' = late
      BY <1>8 DEF chatVars
    <2>2. \A v \in Threads : Stays(v)
      BY <2>1 DEF Stays
    <2> QED BY <1>3, <2>1, <2>2
  <1>9. ASSUME NEW u \in Users, CacheExpires(u) \/ TokenExpires(u) \/ RefreshToken(u)
        PROVE  Deletions'
    BY <1>8, <1>9 DEF CacheExpires, TokenExpires, RefreshToken
  <1>10. CASE UNCHANGED vars
    BY <1>8, <1>10 DEF vars, accountVars
  <1> QED BY <1>1, <1>2, <1>4, <1>5, <1>6, <1>7, <1>9, <1>10 DEF Next, Step

(* Whatever is left of a user without a row was written beside or after    *)
(* the deletion: the walk through the stores misses nothing, lists chats   *)
(* until there is none, and drops the row last.                            *)
THEOREM WhatIsLeftCameLate == FairSpec => []DataHasOwner
  <1>1. Init => Deletions
    BY IdleShape DEF Init, ChatInit, AccountInit, Deletions, DataHasOwner, HasData, Idle
  <1>2. Deletions => DataHasOwner
    BY DEF Deletions
  <1> QED BY <1>1, <1>2, InitShape, ShapeKeeps, DeletionsKeep, PTL DEF FairSpec, Spec

-----------------------------------------------------------------------------
(* While no two sign-ups were past the count at once, the one that is, if  *)
(* there is one, has room.                                                 *)
RoomForOne ==
    /\ IsFiniteSet(users)
    /\ ~crowded => /\ Cardinality(users) <= Capacity
                   /\ \A t, v \in SignUps : t = v
                   /\ SignUps # {} => Cardinality(users) < Capacity

LEMMA AskStays ==
    ASSUME Shape, NEW t \in Threads, ChatStep(t), req[t].at \in AskPlaces
    PROVE  req'[t].at \notin {"promote", "save"}
  <1>0. req[t] \in Requests /\ req[t].at \notin SweepPlaces
    BY DEF Shape, AskPlaces, SweepPlaces
  <1>1. CASE FindGiven(t) \/ PeekGiven(t) \/ CreateSession(t) \/ ReadHistory(t)
    BY <1>0, <1>1 DEF FindGiven, PeekGiven, CreateSession, ReadHistory, Goto, Shape, Requests
  <1>2. CASE FindLatest(t)
    <2>1. \/ Goto(t, "create")
          \/ \E n : req' = [req EXCEPT ![t].at = "history", ![t].session = n, ![t].first = FALSE]
      BY <1>2 DEF FindLatest
    <2>2. CASE Goto(t, "create")
      <3>1. req'[t].at = "create"
        BY <2>2, GoesTo
      <3> QED BY <3>1
    <2>3. ASSUME NEW n, req' = [req EXCEPT ![t].at = "history", ![t].session = n,
                                           ![t].first = FALSE]
          PROVE  req'[t].at \notin {"promote", "save"}
      BY <1>0, <2>3 DEF Shape, Requests
    <2> QED BY <2>1, <2>2, <2>3
  <1>3. CASE SaveQuestion(t) \/ StreamAnswer(t) \/ SaveAnswer(t)
    <2>1. Goto(t, "stream") \/ Goto(t, "answer") \/ End(t)
      BY <1>3 DEF SaveQuestion, StreamAnswer, SaveAnswer
    <2>2. ASSUME NEW l, Goto(t, l) PROVE req'[t].at = l
      BY <2>2, GoesTo
    <2>3. End(t) => req'[t].at = "idle"
      BY GoesIdle
    <2> QED BY <2>1, <2>2, <2>3
  <1> QED BY <1>0, <1>1, <1>2, <1>3 DEF ChatStep, ListSessions, WipeMessages, EraseSession,
             SweepPlaces

(* Only the count lets somebody past it.                                   *)
LEMMA NoNewSignUp ==
    ASSUME Shape, [Next]_vars, ~ \E t \in Threads : CountUsers(t)
    PROVE  SignUps' \subseteq SignUps
  <1> DEFINE Past == {"promote", "save"}
  <1>1. ASSUME NEW t \in Threads, \A v \in Threads \ {t} : req'[v].at = req[v].at,
               req'[t].at \in Past => req[t].at \in Past
        PROVE  SignUps' \subseteq SignUps
    BY <1>1 DEF SignUps, Running
  <1>2. ASSUME NEW t \in Threads, ChatContinues(t) PROVE SignUps' \subseteq SignUps
    <2>1. \A v \in Threads \ {t} : req'[v] = req[v]
      BY <1>2, ChatMoves DEF ChatContinues
    <2>2. /\ req'[t] = Idle \/ req'[t].op = req[t].op
          /\ req[t].at \in AskPlaces \/ req[t].at \in SweepPlaces
      BY <1>2, ChatMoves DEF ChatContinues, ChatStep, FindGiven, PeekGiven, FindLatest,
         CreateSession, ReadHistory, SaveQuestion, StreamAnswer, SaveAnswer, ListSessions,
         WipeMessages, EraseSession, AskPlaces, SweepPlaces
    <2>3. CASE req[t].at \in AskPlaces
      <3>2. req'[t].at \notin Past
        BY <1>2, <2>3, AskStays DEF ChatContinues
      <3> QED BY <1>1, <2>1, <3>2
    <2>4. CASE req[t].at \in SweepPlaces
      <3>1. \/ Goto(t, "erase") \/ End(t)
            \/ \E left, listing : Continue(t, left, listing)
        BY <1>2, <2>4 DEF ChatContinues, ChatStep, FindGiven, PeekGiven, FindLatest,
           CreateSession, ReadHistory, SaveQuestion, StreamAnswer, SaveAnswer, ListSessions,
           WipeMessages, EraseSession, SweepPlaces
      <3>2. req'[t].at \in {"erase", "wipe", "list", "tables", "idle"}
        <4>1. Goto(t, "erase") => req'[t].at = "erase"
          BY GoesTo
        <4>2. End(t) => req'[t].at = "idle"
          BY GoesIdle
        <4>3. ASSUME NEW left, NEW listing, Continue(t, left, listing)
              PROVE  req'[t].at \in {"wipe", "list", "tables", "idle"}
          BY <4>3, IdleShape DEF Continue, Shape, Requests, Idle
        <4> QED BY <3>1, <4>1, <4>2, <4>3
      <3> QED BY <1>1, <2>1, <3>2
    <2> QED BY <2>2, <2>3, <2>4
  <1>3. ASSUME NEW t \in Threads, NEW l, Goto(t, l), l \in Past => req[t].at \in Past
        PROVE  SignUps' \subseteq SignUps
    <2>1. /\ \A v \in Threads \ {t} : req'[v] = req[v]
          /\ req'[t].at = l
      BY <1>3, GoesTo
    <2>2. req'[t].at \in Past => req[t].at \in Past
      BY <1>3, <2>1
    <2> QED BY <1>1, <2>1, <2>2
  <1>4. ASSUME NEW t \in Threads, End(t) PROVE SignUps' \subseteq SignUps
    BY <1>1, <1>4, GoesIdle
  <1>5. ASSUME NEW t \in Threads, DeleteTables(t) PROVE SignUps' \subseteq SignUps
    <2>1. CASE Goto(t, "waitlist")
      BY <1>3, <2>1
    <2>2. ASSUME NEW i, req' = [req EXCEPT ![t].work = @ \cup {i}] PROVE SignUps' \subseteq SignUps
      BY <1>1, <2>2 DEF Shape, Requests
    <2> QED BY <1>5, <2>1, <2>2 DEF DeleteTables
  <1>6. ASSUME NEW t \in Threads,
               \/ FindUser(t) \/ Refuse(t) \/ Promote(t) \/ SaveUser(t) \/ DeleteSchwab(t)
               \/ LeaveWaitlist(t) \/ DeleteRow(t) \/ CutShort(t)
        PROVE  SignUps' \subseteq SignUps
    BY <1>3, <1>4, <1>6 DEF FindUser, Refuse, Promote, SaveUser, DeleteSchwab, LeaveWaitlist,
       DeleteRow, CutShort
  <1>7. ASSUME NEW t \in Threads, NEW u \in Users,
               SignIn(t, u) \/ DeleteAccount(t, u) \/ ChatBegins(t, u)
        PROVE  SignUps' \subseteq SignUps
    <2>1. PICK r : Arrives(t, r)
      BY <1>7, Arrivals DEF ChatBegins
    <2>2. PICK others : req' = [v \in Threads |->
                     IF v = t THEN [r EXCEPT !.met = (others # {}), !.serial = served + 1]
                     ELSE IF v \in others THEN [req[v] EXCEPT !.met = TRUE]
                     ELSE req[v]]
      BY <2>1 DEF Arrives, Begin
    <2>3. r \in Requests /\ r.at \notin Past
      BY <2>1 DEF Arrives
    <2>4. req'[t].at \notin Past
      BY <2>2, <2>3 DEF Requests
    <2>5. \A v \in Threads \ {t} : req'[v].at = req[v].at
      BY <2>2 DEF Shape, Requests
    <2> QED BY <1>1, <2>4, <2>5
  <1>8. ASSUME NEW u \in Users, NEW table \in TableNames, WriteRow(u, table)
        PROVE  SignUps' \subseteq SignUps
    <2>1. \A v \in Threads : req'[v].at = req[v].at
      BY <1>8 DEF WriteRow, Shape, Requests
    <2> QED BY <2>1 DEF SignUps, Running
  <1>9. CASE UNCHANGED req
    BY <1>9 DEF SignUps, Running
  <1> QED BY <1>2, <1>5, <1>6, <1>7, <1>8, <1>9 DEF Next, Step, vars, chatVars, CacheExpires,
             TokenExpires, RefreshToken

LEMMA RoomKeeps == Shape /\ RoomForOne /\ [Next]_vars => RoomForOne'
  <1> SUFFICES ASSUME Shape, RoomForOne, [Next]_vars PROVE RoomForOne'
    OBVIOUS
  <1>0. Capacity \in Nat /\ Cardinality(users) \in Nat
    BY AccountBounds, FS_CardinalityType DEF RoomForOne
  <1>1. ASSUME NEW t \in Threads, CountUsers(t) PROVE RoomForOne'
    <2>1. users' = users /\ \A v \in Threads \ {t} : req'[v] = req[v]
      BY <1>1, GoesTo DEF CountUsers
    <2>2. CASE Goto(t, "promote") /\ crowded' = (crowded \/ SignUps # {})
               /\ Cardinality(users) < Capacity
      <3>1. SignUps' \subseteq SignUps \cup {t}
        BY <2>1 DEF SignUps, Running
      <3> QED BY <1>0, <2>1, <2>2, <3>1 DEF RoomForOne
    <2>3. CASE Goto(t, "refuse") /\ crowded' = crowded
      <3>1. SignUps' \subseteq SignUps
        <4>1. req'[t].at = "refuse"
          BY <2>3, GoesTo
        <4> QED BY <2>1, <4>1 DEF SignUps, Running
      <3> QED BY <2>1, <2>3, <3>1 DEF RoomForOne
    <2> QED BY <1>1, <2>2, <2>3 DEF CountUsers
  <1>2. ASSUME NEW t \in Threads, SaveUser(t) PROVE RoomForOne'
    <2>1. users' = users \cup {req[t].user} /\ crowded' = crowded /\ t \in SignUps
          /\ t \notin SignUps'
      BY <1>2, GoesIdle DEF SaveUser, SignUps, Running
    <2>2. SignUps' \subseteq SignUps
      <3>1. \A v \in Threads \ {t} : req'[v] = req[v]
        BY <1>2, GoesIdle DEF SaveUser
      <3> QED BY <2>1, <3>1 DEF SignUps, Running
    <2>3. IsFiniteSet(users') /\ Cardinality(users') <= Cardinality(users) + 1
      <3>1. /\ IsFiniteSet(users \cup {req[t].user})
            /\ Cardinality(users \cup {req[t].user}) = IF req[t].user \in users
                                                       THEN Cardinality(users)
                                                       ELSE Cardinality(users) + 1
        BY FS_AddElement DEF RoomForOne
      <3> QED BY <1>0, <2>1, <3>1
    <2>4. Cardinality(users') \in Nat
      BY <2>3, FS_CardinalityType
    <2>5. ASSUME ~crowded PROVE SignUps' = {} /\ Cardinality(users) < Capacity
      BY <2>1, <2>2, <2>5 DEF RoomForOne
    <2> QED BY <1>0, <2>1, <2>3, <2>4, <2>5 DEF RoomForOne
  <1>3. CASE ~ \E t \in Threads : CountUsers(t) \/ SaveUser(t)
    <2>1. SignUps' \subseteq SignUps
      BY <1>3, NoNewSignUp
    <2>2. users' \subseteq users /\ crowded' = crowded
      BY <1>3 DEF Next, Step, vars, accountVars, FindUser, Refuse, Promote, DeleteSchwab,
         DeleteTables, LeaveWaitlist, DeleteRow, ChatContinues, SignIn, DeleteAccount, ChatBegins,
         WriteRow, CacheExpires, TokenExpires, RefreshToken
    <2>3. IsFiniteSet(users') /\ Cardinality(users') <= Cardinality(users)
          /\ Cardinality(users') \in Nat
      BY <2>2, FS_Subset, FS_CardinalityType DEF RoomForOne
    <2> QED BY <1>0, <2>1, <2>2, <2>3 DEF RoomForOne
  <1> QED BY <1>1, <1>2, <1>3

(* Sign-ups that never are past the count at the same time never fill the  *)
(* service beyond its capacity, whoever leaves meanwhile.                  *)
THEOREM CapacityHolds == FairSpec => []CapacityWhenAlone
  <1>1. Init => RoomForOne
    <2> SUFFICES ASSUME Init PROVE RoomForOne
      OBVIOUS
    <2>1. users = {} /\ SignUps = {}
      BY DEF Init, ChatInit, AccountInit, SignUps, Running, Idle
    <2>2. IsFiniteSet({}) /\ Cardinality({}) = 0
      BY FS_EmptySet
    <2> QED BY <2>1, <2>2, AccountBounds DEF RoomForOne
  <1>2. RoomForOne => CapacityWhenAlone
    <2> SUFFICES ASSUME RoomForOne PROVE CapacityWhenAlone
      OBVIOUS
    <2>1. Capacity \in Nat /\ Cardinality(users) \in Nat
      BY AccountBounds, FS_CardinalityType DEF RoomForOne
    <2> QED BY <2>1 DEF RoomForOne, CapacityWhenAlone
  <1> QED BY <1>1, <1>2, InitShape, ShapeKeeps, RoomKeeps, PTL DEF FairSpec, Spec

-----------------------------------------------------------------------------
(* The saves of an ask keep chats whole, whatever runs beside them.        *)
THEOREM ChatsStayWhole == FairSpec => []ChatsAreWhole
  BY MessagesStayOwn, OrphansWereWiped, PTL DEF ChatsAreWhole

(* Whatever there is of a user has an owner, or came late, and users have  *)
(* room.                                                                   *)
THEOREM UsersStayKnown == FairSpec => []UsersAreKnown
  BY CapacityHolds, TokensHaveAccounts, WhatIsLeftCameLate, PTL DEF UsersAreKnown
-----------------------------------------------------------------------------
(* A request stays what it is until it ends; the others are left alone.    *)
Same(t) ==
    /\ req'[t].op = req[t].op /\ req'[t].user = req[t].user /\ req'[t].kind = req[t].kind
    /\ req'[t].serial = req[t].serial /\ req'[t].met = req[t].met

Alone(t) ==
    /\ \A v \in Threads \ {t} : req'[v] = req[v]
    /\ req'[t] = Idle \/ Same(t)

LEMMA ChangesAlone ==
    ASSUME Shape, NEW t \in Threads, NEW r \in Requests, req' = [req EXCEPT ![t] = r],
           r.op = req[t].op, r.user = req[t].user, r.kind = req[t].kind,
           r.serial = req[t].serial, r.met = req[t].met
    PROVE  Alone(t)
  BY DEF Shape, Alone, Same

LEMMA GoesAlone ==
    ASSUME Shape, NEW t \in Threads, NEW l, Goto(t, l)
    PROVE  Alone(t)
  BY DEF Shape, Alone, Same, Goto, Requests

LEMMA EndsAlone ==
    ASSUME Shape, NEW t \in Threads, End(t)
    PROVE  Alone(t)
  BY DEF Shape, Alone, End

LEMMA SweepsAlone ==
    ASSUME Shape, NEW t \in Threads, NEW left, NEW listing, Continue(t, left, listing)
    PROVE  Alone(t)
  <1>1. ASSUME NEW l, NEW w, req' = [req EXCEPT ![t].at = l, ![t].work = w] PROVE Alone(t)
    <2>1. req'[t] = [req[t] EXCEPT !.at = l, !.work = w]
      BY <1>1 DEF Shape
    <2>2. Same(t)
      BY <2>1 DEF Shape, Same, Requests
    <2> QED BY <1>1, <2>2 DEF Shape, Alone
  <1>2. CASE req' = [req EXCEPT ![t] = Idle]
    BY <1>2 DEF Shape, Alone
  <1> QED BY <1>1, <1>2 DEF Continue

LEMMA StepsAlone ==
    ASSUME Shape, NEW t \in Threads, Step(t) \/ CutShort(t)
    PROVE  Alone(t) /\ t \in Running
  <1>0. req \in [Threads -> Requests] /\ req[t] \in Requests
    BY DEF Shape
  <1>1. ASSUME ChatStep(t) PROVE Alone(t) /\ t \in Running
    <2>1. CASE FindGiven(t)
      <3>1. CASE req' = [req EXCEPT ![t].at = "latest", ![t].session = NoSession]
        <4>1. req'[t] = [req[t] EXCEPT !.at = "latest", !.session = NoSession]
          BY <1>0, <3>1
        <4>2. Same(t)
          BY <1>0, <4>1 DEF Same, Requests
        <4>3. \A v \in Threads \ {t} : req'[v] = req[v]
          BY <1>0, <3>1
        <4>4. Alone(t)
          BY <4>2, <4>3 DEF Alone
        <4> QED BY <2>1, <4>4 DEF FindGiven, Running
      <3> QED BY <2>1, <3>1, GoesAlone DEF FindGiven, Running
    <2>2. CASE PeekGiven(t)
      <3>1. PICK b : req' = [req EXCEPT ![t].at = "history", ![t].first = b]
        BY <2>2 DEF PeekGiven
      <3>2. Same(t) /\ \A v \in Threads \ {t} : req'[v] = req[v]
        BY <1>0, <3>1 DEF Same, Requests
      <3> QED BY <2>2, <3>2 DEF Alone, PeekGiven, Running
    <2>3. CASE FindLatest(t)
      <3>1. CASE Goto(t, "create")
        BY <2>3, <3>1, GoesAlone DEF FindLatest, Running
      <3>2. ASSUME NEW n, req' = [req EXCEPT ![t].at = "history", ![t].session = n,
                                             ![t].first = FALSE]
            PROVE  Alone(t)
        BY <1>0, <3>2 DEF Alone, Same, Requests
      <3> QED BY <2>3, <3>1, <3>2 DEF FindLatest, Running
    <2>4. CASE CreateSession(t)
      <3>1. Same(t) /\ \A v \in Threads \ {t} : req'[v] = req[v]
        BY <1>0, <2>4 DEF Same, Requests, CreateSession
      <3> QED BY <2>4, <3>1 DEF Alone, CreateSession, Running
    <2>5. CASE ReadHistory(t)
      <3>1. PICK b : req' = [req EXCEPT ![t].at = "question", ![t].blank = b]
        BY <2>5 DEF ReadHistory
      <3>2. Same(t) /\ \A v \in Threads \ {t} : req'[v] = req[v]
        BY <1>0, <3>1 DEF Same, Requests
      <3> QED BY <2>5, <3>2 DEF Alone, ReadHistory, Running
    <2>6. CASE SaveQuestion(t) \/ StreamAnswer(t) \/ SaveAnswer(t)
      BY <2>6, GoesAlone, EndsAlone DEF SaveQuestion, StreamAnswer, SaveAnswer, Running
    <2>7. CASE ListSessions(t) \/ WipeMessages(t) \/ EraseSession(t)
      BY <2>7, GoesAlone, EndsAlone, SweepsAlone DEF ListSessions, WipeMessages, EraseSession, Running
    <2> QED BY <1>1, <2>1, <2>2, <2>3, <2>4, <2>5, <2>6, <2>7 DEF ChatStep
  <1>2. CASE FindUser(t) \/ CountUsers(t) \/ Refuse(t) \/ Promote(t) \/ SaveUser(t)
             \/ DeleteSchwab(t) \/ LeaveWaitlist(t) \/ DeleteRow(t) \/ CutShort(t)
    BY <1>2, GoesAlone, EndsAlone DEF FindUser, CountUsers, Refuse, Promote, SaveUser, DeleteSchwab,
       LeaveWaitlist, DeleteRow, CutShort, Running
  <1>3. CASE DeleteTables(t)
    <2>1. ASSUME NEW i, req' = [req EXCEPT ![t].work = @ \cup {i}] PROVE Alone(t)
      BY <1>0, <2>1 DEF Alone, Same, Requests
    <2> QED BY <1>3, <2>1, GoesAlone DEF DeleteTables, Running
  <1> QED BY <1>1, <1>2, <1>3 DEF Step, ChatContinues

(* A request that arrives, and those of its user that it meets.            *)
LEMMA ArrivesAmong ==
    ASSUME Shape, NEW t \in Threads, NEW r, Arrives(t, r)
    PROVE  /\ t \notin Running /\ served < MaxRequests /\ served' = served + 1
           /\ req'[t].at = r.at /\ req'[t].op = r.op /\ req'[t].user = r.user
           /\ req'[t].session = r.session /\ req'[t].work = r.work
           /\ req'[t].first = r.first /\ req'[t].blank = r.blank
           /\ req'[t].serial = served + 1
           /\ \A v \in Running : req[v].user = r.user => req'[t].met /\ req'[v].met
           /\ \A v \in Threads \ {t} :
                 /\ \/ req'[v] = req[v]
                    \/ v \in Running /\ req'[v] = [req[v] EXCEPT !.met = TRUE]
  <1> DEFINE others == {v \in Running : req[v].user = r.user}
             m == others # {}
             n == served + 1
  <1>1. req' = [v \in Threads |->
                     IF v = t THEN [r EXCEPT !.met = m, !.serial = n]
                     ELSE IF v \in others THEN [req[v] EXCEPT !.met = TRUE]
                     ELSE req[v]]
    BY DEF Arrives, Begin
  <1>2. t \notin Running /\ served < MaxRequests /\ served' = n
    BY DEF Arrives, Begin, Running
  <1>3. r \in Requests
    BY DEF Arrives
  <1>4. others \subseteq Running /\ (\A v \in Running : req[v].user = r.user => v \in others)
        /\ (m <=> others # {})
    OBVIOUS
  <1> HIDE DEF others, m
  <1>5. req'[t] = [r EXCEPT !.met = m, !.serial = n]
    BY <1>1
  <1>6. /\ req'[t].at = r.at /\ req'[t].op = r.op /\ req'[t].user = r.user
        /\ req'[t].session = r.session /\ req'[t].work = r.work
        /\ req'[t].first = r.first /\ req'[t].blank = r.blank /\ req'[t].serial = n
        /\ req'[t].met = m
    BY <1>3, <1>5 DEF Requests
  <1>7. \A v \in Threads \ {t} :
                 /\ v \in others => req'[v] = [req[v] EXCEPT !.met = TRUE]
                 /\ v \notin others => req'[v] = req[v]
    BY <1>1
  <1>8. ASSUME NEW v \in Running, req[v].user = r.user PROVE req'[t].met /\ req'[v].met
    <2>1. v \in others /\ m /\ v \in Threads \ {t}
      BY <1>2, <1>4, <1>8 DEF Running
    <2>2. req[v] \in Requests
      BY <2>1 DEF Shape
    <2>3. req'[v].met
      BY <1>7, <2>1, <2>2 DEF Requests
    <2>4. req'[t].met
      BY <1>6, <2>1
    <2> QED BY <2>3, <2>4
  <1> QED BY <1>2, <1>4, <1>6, <1>7, <1>8

(* A step is one of a running request, an arrival, a row written beside    *)
(* them, or concerns no request.                                           *)
Elsewhere == UNCHANGED <<chatVars, users, waitlist, rows, crowded, gone, late>>

LEMMA NextIs ==
    ASSUME Shape, [Next]_vars
    PROVE  \/ \E t \in Threads : Step(t)
           \/ \E t \in Threads : CutShort(t) /\ UNCHANGED accountVars
           \/ \E t \in Threads : \E r : Arrives(t, r) /\ UNCHANGED chatData /\ UNCHANGED accountVars
           \/ \E u \in Users : \E table \in TableNames : WriteRow(u, table)
           \/ Elsewhere
  <1>1. ASSUME NEW t \in Threads, NEW u \in Users,
               SignIn(t, u) \/ DeleteAccount(t, u) \/ ChatBegins(t, u)
        PROVE  \E r : Arrives(t, r) /\ UNCHANGED chatData /\ UNCHANGED accountVars
    BY <1>1, Arrivals DEF ChatBegins, SignIn, DeleteAccount
  <1>2. ASSUME NEW u \in Users, CacheExpires(u) \/ TokenExpires(u) \/ RefreshToken(u)
        PROVE  Elsewhere
    BY <1>2 DEF CacheExpires, TokenExpires, RefreshToken, Elsewhere
  <1>3. CASE UNCHANGED vars
    BY <1>3 DEF vars, accountVars, Elsewhere
  <1> QED BY <1>1, <1>2, <1>3 DEF Next

(* A row that is written meets the requests of its user.                   *)
LEMMA WritesAmong ==
    ASSUME Shape, NEW u \in Users, NEW table \in TableNames, WriteRow(u, table)
    PROVE  /\ UNCHANGED chatData
           /\ \A v \in Threads :
                 /\ v \in Running /\ req[v].user = u => req'[v] = [req[v] EXCEPT !.met = TRUE]
                 /\ ~(v \in Running /\ req[v].user = u) => req'[v] = req[v]
  BY DEF WriteRow

LEMMA Meets ==
    ASSUME NEW q \in Requests
    PROVE  LET r == [q EXCEPT !.met = TRUE]
           IN  /\ r.met /\ r.at = q.at /\ r.op = q.op /\ r.user = q.user /\ r.kind = q.kind
               /\ r.session = q.session /\ r.first = q.first /\ r.blank = q.blank
               /\ r.serial = q.serial /\ r.work = q.work
  BY DEF Requests

LEMMA MeetsOrStays ==
    ASSUME Shape, NEW v \in Running',
           req'[v] = req[v] \/ req'[v] = [req[v] EXCEPT !.met = TRUE]
    PROVE  v \in Running /\ req'[v].user = req[v].user /\ (req[v].met => req'[v].met)
  <1>1. v \in Threads /\ req[v] \in Requests /\ req'[v].at # "idle"
    BY DEF Running, Shape
  <1>2. CASE req'[v] = req[v]
    BY <1>1, <1>2 DEF Running
  <1>3. CASE req'[v] = [req[v] EXCEPT !.met = TRUE]
    <2>1. req'[v].at = req[v].at /\ req'[v].user = req[v].user
      BY <1>1, <1>3 DEF Requests
    <2>2. req'[v].met
      BY <1>1, <1>3 DEF Requests
    <2> QED BY <1>1, <2>1, <2>2 DEF Running
  <1> QED BY <1>2, <1>3

-----------------------------------------------------------------------------
(* Two requests of one user that run at once have met.                     *)
HaveMet == \A t, v \in Running : t # v /\ req[t].user = req[v].user => req[t].met

LEMMA MeetingsKeep == Shape /\ HaveMet /\ [Next]_vars => HaveMet'
  <1> SUFFICES ASSUME Shape, HaveMet, [Next]_vars PROVE HaveMet'
    OBVIOUS
  <1>1. ASSUME NEW t \in Threads, Step(t) \/ CutShort(t) PROVE HaveMet'
    <2>1. Alone(t) /\ t \in Running
      BY <1>1, StepsAlone
    <2>2. \A v \in Running' : /\ v \in Running /\ req'[v].user = req[v].user
                              /\ req'[v].met = req[v].met
      BY <2>1 DEF Running, Alone, Same, Idle
    <2> QED BY <2>2 DEF HaveMet
  <1>2. ASSUME NEW t \in Threads, NEW r, Arrives(t, r) PROVE HaveMet'
    <2>1. ASSUME NEW v \in Running', v # t
          PROVE  /\ v \in Running /\ req'[v].user = req[v].user /\ (req[v].met => req'[v].met)
                 /\ req[v].user = r.user => req'[t].met /\ req'[v].met
      <3>1. v \in Threads /\ req[v] \in Requests
        BY DEF Running, Shape
      <3>2. req'[v] = req[v] \/ (v \in Running /\ req'[v] = [req[v] EXCEPT !.met = TRUE])
        BY <1>2, <2>1, <3>1, ArrivesAmong
      <3>3. v \in Running /\ req'[v].user = req[v].user /\ (req[v].met => req'[v].met)
        BY <2>1, <3>1, <3>2, MeetsOrStays
      <3> QED BY <1>2, <3>3, ArrivesAmong
    <2>2. req'[t].user = r.user
      BY <1>2, ArrivesAmong
    <2> SUFFICES ASSUME NEW v \in Running', NEW w \in Running', v # w, req'[v].user = req'[w].user
                 PROVE  req'[v].met
      BY DEF HaveMet
    <2>3. CASE v # t /\ w # t
      BY <2>1, <2>3 DEF HaveMet
    <2>4. CASE v = t
      BY <2>1, <2>2, <2>4
    <2>5. CASE w = t
      BY <2>1, <2>2, <2>5
    <2> QED BY <2>3, <2>4, <2>5
  <1>3. ASSUME NEW u \in Users, NEW table \in TableNames, WriteRow(u, table) PROVE HaveMet'
    <2>1. ASSUME NEW v \in Running'
          PROVE  v \in Running /\ req'[v].user = req[v].user /\ (req[v].met => req'[v].met)
      <3>1. v \in Threads /\ req[v] \in Requests
        BY DEF Running, Shape
      <3>2. req'[v] = req[v] \/ req'[v] = [req[v] EXCEPT !.met = TRUE]
        BY <1>3, <3>1, WritesAmong
      <3> QED BY <2>1, <3>1, <3>2, MeetsOrStays
    <2> QED BY <2>1 DEF HaveMet
  <1>4. CASE Elsewhere
    BY <1>4 DEF Elsewhere, chatVars, HaveMet, Running
  <1> QED BY <1>1, <1>2, <1>3, <1>4, NextIs

-----------------------------------------------------------------------------
(* Who was promoted has a row, had one, or is about to get one.            *)
LEMMA SignUpStays ==
    ASSUME Shape, NEW t \in SignUps, [Next]_vars
    PROVE  \/ t \in SignUps' /\ req'[t].user = req[t].user
           \/ SaveUser(t)
           \/ CutShort(t)
  <1>0. t \in Threads /\ t \in Running /\ req[t].at \in {"promote", "save"} /\ req[t] \in Requests
    BY DEF SignUps, Running, Shape
  <1>1. ASSUME req'[t] = req[t] \/ req'[t] = [req[t] EXCEPT !.met = TRUE]
        PROVE  t \in SignUps' /\ req'[t].user = req[t].user
    BY <1>0, <1>1, Meets DEF SignUps, Running
  <1>2. ASSUME NEW v \in Threads, v # t, Step(v) \/ CutShort(v) PROVE req'[t] = req[t]
    BY <1>0, <1>2, StepsAlone DEF Alone
  <1>3. ASSUME Step(t), ~SaveUser(t) PROVE t \in SignUps' /\ req'[t].user = req[t].user
    <2>1. Promote(t)
      BY <1>0, <1>3 DEF Step, FindUser, CountUsers, Refuse, DeleteSchwab, DeleteTables, LeaveWaitlist,
         DeleteRow, ChatContinues, ChatStep, FindGiven, PeekGiven, FindLatest, CreateSession,
         ReadHistory, SaveQuestion, StreamAnswer, SaveAnswer, ListSessions, WipeMessages, EraseSession
    <2> QED BY <1>0, <2>1, GoesTo DEF Promote, SignUps, Running
  <1>4. ASSUME NEW v \in Threads, NEW r, Arrives(v, r) PROVE t \in SignUps' /\ req'[t].user = req[t].user
    <2>1. t # v
      BY <1>0, <1>4, ArrivesAmong
    <2> QED BY <1>0, <1>1, <1>4, <2>1, ArrivesAmong
  <1>5. ASSUME NEW u \in Users, NEW table \in TableNames, WriteRow(u, table)
        PROVE  t \in SignUps' /\ req'[t].user = req[t].user
    BY <1>0, <1>1, <1>5, WritesAmong
  <1>6. CASE Elsewhere
    BY <1>6 DEF Elsewhere, chatVars, SignUps, Running
  <1> QED BY <1>1, <1>2, <1>3, <1>4, <1>5, <1>6, NextIs

(* What changes the waiting list.                                          *)
LEMMA ListChanges ==
    ASSUME Shape, [Next]_vars, waitlist' # waitlist
    PROVE  \E t \in Threads : Refuse(t) \/ Promote(t) \/ LeaveWaitlist(t)
  <1>1. ASSUME NEW t \in Threads, Step(t) PROVE Refuse(t) \/ Promote(t) \/ LeaveWaitlist(t)
    BY <1>1 DEF Step, FindUser, CountUsers, SaveUser, DeleteSchwab, DeleteTables, DeleteRow,
       ChatContinues
  <1> QED BY <1>1, NextIs DEF accountVars, WriteRow, Elsewhere

PlaceInv == PromotedIsServed /\ faults \in Nat

LEMMA FaultsGrow ==
    ASSUME Shape, faults \in Nat, [Next]_vars
    PROVE  /\ faults' \in Nat /\ faults' >= faults
           /\ \A t \in Threads : CutShort(t) => faults' > 0
  <1>1. ASSUME NEW t \in Threads, Step(t) PROVE faults' = faults
    <2>1. ChatStep(t) => faults' = faults
      BY DEF ChatStep, FindGiven, PeekGiven, FindLatest, CreateSession, ReadHistory, SaveQuestion,
         StreamAnswer, SaveAnswer, ListSessions, WipeMessages, EraseSession
    <2> QED BY <1>1, <2>1 DEF Step, FindUser, CountUsers, Refuse, Promote, SaveUser, DeleteSchwab,
         DeleteTables, LeaveWaitlist, DeleteRow, ChatContinues, chatData
  <1>2. ASSUME NEW t \in Threads, CutShort(t) PROVE faults' = faults + 1
    BY <1>2 DEF CutShort
  <1>3. faults' = faults \/ \E t \in Threads : CutShort(t)
    BY <1>1, NextIs DEF chatData, Elsewhere, chatVars, WriteRow
  <1> QED BY <1>2, <1>3

LEMMA PlacesKeep ==
    ASSUME Shape, PlaceInv, [Next]_vars
    PROVE  PlaceInv'
  <1>0. faults' \in Nat /\ faults' >= faults /\ faults \in Nat
    BY FaultsGrow DEF PlaceInv
  <1> SUFFICES ASSUME NEW u \in Users, waitlist'[u].status = "promoted", ~(faults' > 0)
               PROVE  u \in users' \cup gone' \/ \E t \in SignUps' : req'[t].user = u
    BY <1>0 DEF PlaceInv, PromotedIsServed
  <1>1. \/ waitlist[u].status = "promoted"
        \/ \E t \in Threads : Promote(t) /\ req[t].user = u
    <2>1. CASE waitlist' = waitlist
      BY <2>1
    <2>2. ASSUME NEW t \in Threads, Refuse(t)
          PROVE  waitlist[u].status = "promoted"
      BY <2>2 DEF Refuse, Shape
    <2>3. ASSUME NEW t \in Threads, Promote(t)
          PROVE  waitlist[u].status = "promoted" \/ req[t].user = u
      BY <2>3 DEF Promote, Shape
    <2>4. ASSUME NEW t \in Threads, LeaveWaitlist(t)
          PROVE  waitlist[u].status = "promoted"
      BY <2>4 DEF LeaveWaitlist, Shape, NotListed
    <2> QED BY <2>1, <2>2, <2>3, <2>4, ListChanges
  <1>2. users \cup gone \subseteq users' \cup gone'
    <2>1. ASSUME NEW t \in Threads, Step(t) PROVE users \cup gone \subseteq users' \cup gone'
      BY <2>1 DEF Step, FindUser, CountUsers, Refuse, Promote, SaveUser, DeleteSchwab,
         DeleteTables, LeaveWaitlist, DeleteRow, ChatContinues
    <2> QED BY <2>1, NextIs DEF accountVars, WriteRow, Elsewhere
  <1>3. ASSUME NEW t \in SignUps, req[t].user = u
        PROVE  u \in users' \cup gone' \/ \E v \in SignUps' : req'[v].user = u
    <2>1. t \in Threads
      BY DEF SignUps, Running
    <2>2. ~CutShort(t)
      BY <2>1, FaultsGrow DEF PlaceInv
    <2>3. CASE SaveUser(t)
      BY <1>3, <2>3 DEF SaveUser
    <2>4. CASE t \in SignUps' /\ req'[t].user = req[t].user
      BY <1>3, <2>4
    <2> QED BY <2>2, <2>3, <2>4, SignUpStays
  <1>4. CASE waitlist[u].status = "promoted"
    <2>1. u \in users \cup gone \/ \E t \in SignUps : req[t].user = u
      BY <1>0, <1>4 DEF PlaceInv, PromotedIsServed
    <2> QED BY <1>2, <1>3, <2>1
  <1>5. ASSUME NEW t \in Threads, Promote(t), req[t].user = u
        PROVE  \E v \in SignUps' : req'[v].user = u
    <2>1. req'[t].at = "save" /\ req'[t].user = req[t].user
      BY <1>5, GoesTo DEF Promote
    <2>2. t \in SignUps'
      BY <2>1 DEF SignUps, Running
    <2> QED BY <1>5, <2>1, <2>2
  <1> QED BY <1>1, <1>4, <1>5

(* A place in the queue stands until it is turned into an account, or the  *)
(* account is deleted (create_or_link_user, save_waiting, mark_promoted).  *)
THEOREM PlacesStand == FairSpec => PlacesAreKept
  <1>1. Init => PlaceInv
    BY DEF Init, ChatInit, AccountInit, PlaceInv, PromotedIsServed, NotListed
  <1>2. ASSUME Shape, Next, NEW u \in Users, waitlist[u].since # 0, waitlist'[u].since # waitlist[u].since
        PROVE  \E t \in Running : req[t].user = u /\ req[t].at = "waitlist"
    <2>1. PICK t \in Threads : Refuse(t) \/ Promote(t) \/ LeaveWaitlist(t)
      BY <1>2, ListChanges
    <2>2. waitlist \in [Users -> [status : {"none", "waiting", "promoted"}, since : Nat]]
      BY <1>2 DEF Shape
    <2>3. ~Refuse(t)
      BY <1>2, <2>2 DEF Refuse, NotListed
    <2>4. ~Promote(t)
      BY <1>2, <2>2 DEF Promote
    <2> QED BY <1>2, <2>1, <2>2, <2>3, <2>4 DEF LeaveWaitlist, Running
  <1>3. Shape /\ [Next]_vars =>
           [\A u \in Users :
               waitlist[u].since # 0 /\ waitlist'[u].since # waitlist[u].since =>
                  \E t \in Running : req[t].user = u /\ req[t].at = "waitlist"]_vars
    BY <1>2
  <1>4. PlaceInv => PromotedIsServed
    BY DEF PlaceInv
  <1>5. Shape /\ PlaceInv /\ [Next]_vars => PlaceInv'
    BY PlacesKeep
  <1> QED BY <1>1, <1>3, <1>4, <1>5, InitShape, ShapeKeeps, PTL
          DEF FairSpec, Spec, PlacesAreKept, WaitersKeepPlace
-----------------------------------------------------------------------------
(* A deletion that met nobody is past nothing that it has not cleared, and *)
(* nobody has put its user on the waiting list again.                      *)
Quits(r) == Cleared(r) /\ (r.at = "row" => waitlist[r.user] = NotListed)

LoneClears == \A t \in Threads : req[t].op = "purge" /\ ~req[t].met => Quits(req[t])

(* The step of a request adds rows and chats, and changes places in the    *)
(* queue, only for its own user.                                           *)
LEMMA OnlyOwn ==
    ASSUME Shape, NEW t \in Threads, Step(t)
    PROVE  \A u \in Users \ {req[t].user} : Shrinks(u) /\ waitlist'[u] = waitlist[u]
  <1> USE DEF Shrinks
  <1>0. /\ rows \in [Users -> SUBSET TableNames]
        /\ waitlist \in [Users -> [status : {"none", "waiting", "promoted"}, since : Nat]]
    BY DEF Shape
  <1>1. CASE ChatContinues(t)
    <2>1. rows' = rows /\ waitlist' = waitlist /\ ChatStep(t)
      BY <1>1 DEF ChatContinues
    <2>2. \A x \in sessions' : x \in sessions \/ x.user = req[t].user
      <3>1. CASE CreateSession(t)
        BY <3>1 DEF CreateSession
      <3>2. CASE ~CreateSession(t)
        <4>1. sessions' \subseteq sessions
          BY <2>1, <3>2 DEF ChatStep, FindGiven, PeekGiven, FindLatest, ReadHistory, SaveQuestion,
             StreamAnswer, SaveAnswer, ListSessions, WipeMessages, EraseSession
        <4> QED BY <4>1
      <3> QED BY <3>1, <3>2
    <2> QED BY <2>1, <2>2
  <1>2. CASE FindUser(t) \/ CountUsers(t) \/ Refuse(t) \/ Promote(t) \/ SaveUser(t)
             \/ LeaveWaitlist(t) \/ DeleteRow(t)
    BY <1>0, <1>2 DEF FindUser, CountUsers, Refuse, Promote, SaveUser, LeaveWaitlist, DeleteRow, chatData
  <1>3. CASE DeleteSchwab(t) \/ DeleteTables(t)
    <2>1. UNCHANGED <<sessions, waitlist>>
      BY <1>3 DEF DeleteSchwab, DeleteTables, chatData
    <2>2. rows' = rows \/ \E name : rows' = [rows EXCEPT ![req[t].user] = @ \ {name}]
      BY <1>3 DEF DeleteSchwab, DeleteTables
    <2> QED BY <1>0, <2>1, <2>2
  <1> QED BY <1>1, <1>2, <1>3 DEF Step

LEMMA OnlyChats ==
    ASSUME Shape, NEW t \in Threads, Step(t),
           WipeMessages(t) \/ ListSessions(t) \/ EraseSession(t)
    PROVE  UNCHANGED <<rows, waitlist>>
  BY DEF Step, FindUser, CountUsers, Refuse, Promote, SaveUser, DeleteSchwab, DeleteTables,
     LeaveWaitlist, DeleteRow, ChatContinues, WipeMessages, ListSessions, EraseSession

(* A deletion that goes on has cleared what it is past then.               *)
LEMMA OwnClears ==
    ASSUME Shape, IdsInOrder, NEW t \in Threads, Step(t), req[t].op = "purge", Quits(req[t]),
           req'[t].op = "purge"
    PROVE  (Quits(req[t]))'
  <1> DEFINE w == req[t].user
  <1>0. /\ req[t] \in Requests /\ w \in Users /\ Fits(req[t])
        /\ rows \in [Users -> SUBSET TableNames]
        /\ waitlist \in [Users -> [status : {"none", "waiting", "promoted"}, since : Nat]]
    BY DEF Shape, Requests
  <1>1. Same(t) /\ req'[t].user = w
    <2>1. Idle.op # "purge"
      BY DEF Idle
    <2> QED BY <2>1, StepsAlone DEF Alone, Same
  <1>2. req[t].at \in PurgePlaces \cup SweepPlaces
    BY <1>0 DEF Fits
  <1>3. Cleared(req[t])
    BY DEF Quits
  <1>4. CASE DeleteSchwab(t)
    <2>1. req'[t].at = "list" /\ Tables[1] \notin rows'[w]
      BY <1>0, <1>4, GoesTo DEF DeleteSchwab
    <2> QED BY <1>1, <2>1 DEF Quits, Cleared
  <1>5. CASE WipeMessages(t) \/ ListSessions(t) \/ EraseSession(t)
    <2>1. ChatStep(t) /\ rows' = rows /\ waitlist' = waitlist /\ req[t].at \in SweepPlaces
      BY <1>5, OnlyChats DEF ChatStep, WipeMessages, ListSessions, EraseSession, SweepPlaces
    <2>2. Tables[1] \notin rows'[w]
      BY <1>3, <2>1 DEF Cleared
    <2>3. CASE req'[t].at \notin {"tables", "waitlist", "row"}
      BY <1>1, <2>2, <2>3 DEF Quits, Cleared
    <2>4. CASE req'[t].at \in {"tables", "waitlist", "row"}
      <3>1. ASSUME Goto(t, "erase") \/ End(t) PROVE FALSE
        <4>1. Goto(t, "erase") => req'[t].at = "erase"
          BY GoesTo
        <4>2. End(t) => req'[t].at = "idle"
          BY GoesIdle
        <4> QED BY <2>4, <3>1, <4>1, <4>2
      <3>2. ASSUME NEW left, NEW listing, Continue(t, left, listing)
            PROVE  req'[t].at = "tables" /\ left = {} /\ listing /\ req'[t].work = {}
        <4>1. Idle.at = "idle"
          BY DEF Idle
        <4> QED BY <2>4, <3>2, <4>1, GoesOn
      <3> DEFINE own == {x \in sessions : /\ x.user = req[t].user
                                          /\ req[t].op = "purge" \/ x.kind = req[t].kind}
      <3>3. ListSessions(t)
        <4>1. ~WipeMessages(t)
          BY <3>1 DEF WipeMessages
        <4>2. ~EraseSession(t)
          <5>1. \A left : ~Continue(t, left, FALSE)
            BY <3>2
          <5> QED BY <3>1, <5>1 DEF EraseSession
        <4> QED BY <1>5, <4>1, <4>2
      <3>4. Continue(t, Page(Ids(own)), TRUE) /\ sessions' = sessions
        BY <3>3 DEF ListSessions
      <3>5. Page(Ids(own)) = {} => own = {}
        BY NothingListed
      <3>6. own = {} => NoChats(w)
        BY DEF NoChats
      <3>7. req'[t].at = "tables" /\ Page(Ids(own)) = {} /\ req'[t].work = {}
        <4> HIDE DEF own
        <4> QED BY <3>2, <3>4
      <3>8. NoChats(w)
        BY <3>5, <3>6, <3>7
      <3> QED BY <1>1, <2>2, <3>4, <3>7, <3>8 DEF Quits, Cleared, NoChats
    <2> QED BY <2>3, <2>4
  <1>6. CASE DeleteTables(t)
    <2>0. req[t].at = "tables" /\ sessions' = sessions /\ Tables[1] \notin rows[w] /\ NoChats(w)
          /\ \A i \in req[t].work : Tables[i] \notin rows[w]
      BY <1>3, <1>6 DEF DeleteTables, chatData, Cleared
    <2>1. CASE Goto(t, "waitlist") /\ rows' = rows /\ \A i \in 2 .. Len(Tables) : i \in req[t].work
      <3>1. req'[t].at = "waitlist"
        BY <2>1, GoesTo
      <3>2. \A i \in 1 .. Len(Tables) : i = 1 \/ i \in 2 .. Len(Tables)
        BY AccountBounds
      <3>3. \A i \in 1 .. Len(Tables) : Tables[i] \notin rows[w]
        BY <2>0, <2>1, <3>2
      <3>4. rows[w] = {}
        BY <1>0, <3>3 DEF TableNames
      <3> QED BY <1>1, <2>0, <2>1, <3>1, <3>4 DEF Quits, Cleared, NoChats
    <2>2. CASE \E i \in Nat : /\ rows' = [rows EXCEPT ![w] = @ \ {Tables[i]}]
                             /\ req' = [req EXCEPT ![t].work = @ \cup {i}]
      <3>1. PICK i \in Nat : /\ rows' = [rows EXCEPT ![w] = @ \ {Tables[i]}]
                            /\ req' = [req EXCEPT ![t].work = @ \cup {i}]
        BY <2>2
      <3>2. req'[t].at = "tables" /\ req'[t].work = req[t].work \cup {i}
        BY <1>0, <2>0, <3>1 DEF Shape, Requests
      <3>3. rows'[w] = rows[w] \ {Tables[i]}
        BY <1>0, <3>1
      <3> QED BY <1>1, <2>0, <3>2, <3>3 DEF Quits, Cleared, NoChats
    <2> QED BY <1>6, <2>1, <2>2 DEF DeleteTables
  <1>7. CASE LeaveWaitlist(t)
    <2>1. req'[t].at = "row"
      BY <1>7, GoesTo DEF LeaveWaitlist
    <2>2. /\ rows' = rows /\ sessions' = sessions /\ req[t].at = "waitlist"
          /\ waitlist'[w] = NotListed
      BY <1>0, <1>7 DEF LeaveWaitlist, chatData
    <2> QED BY <1>1, <1>3, <2>1, <2>2 DEF Quits, Cleared, NoChats, SweepPlaces
  <1>8. ~DeleteRow(t)
    BY GoesIdle DEF DeleteRow
  <1> QED BY <1>2, <1>4, <1>5, <1>6, <1>7, <1>8 DEF Step, ChatContinues, ChatStep, FindGiven,
         PeekGiven, FindLatest, CreateSession, ReadHistory, SaveQuestion, StreamAnswer, SaveAnswer,
         FindUser, CountUsers, Refuse, Promote, SaveUser, PurgePlaces, SweepPlaces

(* A deletion that met nobody keeps what it cleared while others act.      *)
LEMMA QuitsKept ==
    ASSUME Shape, NEW v \in Threads, Quits(req[v]), Stays(v), Shrinks(req[v].user),
           waitlist'[req[v].user] = waitlist[req[v].user]
    PROVE  (Quits(req[v]))'
  BY DEF Quits, Cleared, NoChats, Stays, Shrinks

LEMMA LoneStep ==
    ASSUME Shape, IdsInOrder, HaveMet, LoneClears, NEW t \in Threads, Step(t)
    PROVE  LoneClears'
  <1>1. Alone(t) /\ t \in Running
    BY StepsAlone
  <1> SUFFICES ASSUME NEW v \in Threads, req'[v].op = "purge", ~req'[v].met
               PROVE  (Quits(req[v]))'
    BY DEF LoneClears
  <1>2. CASE v = t
    <2>1. Idle.op # "purge"
      BY DEF Idle
    <2>2. req[t].op = "purge" /\ ~req[t].met
      BY <1>1, <1>2, <2>1 DEF Alone, Same
    <2>3. Quits(req[t])
      BY <2>2 DEF LoneClears
    <2> QED BY <1>2, <2>2, <2>3, OwnClears
  <1>3. CASE v # t
    <2>1. req'[v] = req[v]
      BY <1>1, <1>3 DEF Alone
    <2>2. v \in Running /\ req[v].user \in Users
      BY <2>1 DEF Running, Shape, Fits, PurgePlaces, SweepPlaces, Requests
    <2>3. req[v].user # req[t].user
      BY <1>1, <1>3, <2>1, <2>2 DEF HaveMet
    <2>4. Shrinks(req[v].user) /\ waitlist'[req[v].user] = waitlist[req[v].user]
      BY <2>2, <2>3, OnlyOwn
    <2>5. Quits(req[v])
      BY <2>1 DEF LoneClears
    <2> QED BY <2>1, <2>4, <2>5, QuitsKept DEF Stays
  <1> QED BY <1>2, <1>3

LEMMA LoneKeeps == Shape /\ IdsInOrder /\ HaveMet /\ LoneClears /\ [Next]_vars => LoneClears'
  <1> SUFFICES ASSUME Shape, IdsInOrder, HaveMet, LoneClears, [Next]_vars PROVE LoneClears'
    OBVIOUS
  (* Steps that take nothing on, and leave every deletion where it is.     *)
  <1>1. ASSUME NEW v \in Threads, req'[v].op = "purge", ~req'[v].met,
               req'[v] = req[v] \/ req'[v] = [req[v] EXCEPT !.met = TRUE]
        PROVE  req'[v] = req[v] /\ Quits(req[v])
    <2>1. req[v] \in Requests
      BY DEF Shape
    <2>2. req'[v] = req[v]
      BY <1>1, <2>1 DEF Requests
    <2> QED BY <1>1, <2>2 DEF LoneClears
  <1>2. ASSUME NEW v \in Threads, req'[v] = req[v], Quits(req[v]),
               UNCHANGED <<sessions, rows, waitlist>>
        PROVE  (Quits(req[v]))'
    BY <1>2 DEF Quits, Cleared, NoChats
  <1>3. ASSUME NEW t \in Threads, CutShort(t), UNCHANGED accountVars PROVE LoneClears'
    <2>1. (\A v \in Threads \ {t} : req'[v] = req[v]) /\ req'[t].op # "purge"
      BY <1>3, GoesIdle DEF CutShort
    <2>2. UNCHANGED <<sessions, rows, waitlist>>
      BY <1>3 DEF CutShort, accountVars
    <2> QED BY <1>1, <1>2, <2>1, <2>2 DEF LoneClears
  <1>4. ASSUME NEW t \in Threads, NEW r, Arrives(t, r), UNCHANGED chatData, UNCHANGED accountVars
        PROVE  LoneClears'
    <2>1. UNCHANGED <<sessions, rows, waitlist>>
      BY <1>4 DEF chatData, accountVars
    <2>2. req'[t].op = "purge" => req'[t].at = "schwab"
      BY <1>4, ArrivesAmong DEF Arrives
    <2>3. req'[t].op = "purge" => (Quits(req[t]))'
      BY <2>2 DEF Quits, Cleared, SweepPlaces
    <2>4. \A v \in Threads \ {t} : req'[v] = req[v] \/ req'[v] = [req[v] EXCEPT !.met = TRUE]
      BY <1>4, ArrivesAmong
    <2> SUFFICES ASSUME NEW v \in Threads, req'[v].op = "purge", ~req'[v].met
                 PROVE  (Quits(req[v]))'
      BY DEF LoneClears
    <2>5. CASE v = t
      BY <2>3, <2>5
    <2>6. CASE v # t
      <3>1. req'[v] = req[v] /\ Quits(req[v])
        BY <1>1, <2>4, <2>6
      <3> QED BY <1>2, <2>1, <3>1
    <2> QED BY <2>5, <2>6
  <1>5. ASSUME NEW u \in Users, NEW table \in TableNames, WriteRow(u, table) PROVE LoneClears'
    <2>1. /\ UNCHANGED <<sessions, waitlist>> /\ rows' = [rows EXCEPT ![u] = @ \cup {table}]
          /\ rows \in [Users -> SUBSET TableNames]
      BY <1>5 DEF WriteRow, chatData, Shape
    <2> SUFFICES ASSUME NEW v \in Threads, req'[v].op = "purge", ~req'[v].met
                 PROVE  (Quits(req[v]))'
      BY DEF LoneClears
    <2>2. req'[v] = req[v] /\ Quits(req[v])
      BY <1>1, <1>5, WritesAmong
    <2>3. v \in Running /\ req[v].user \in Users /\ req[v] \in Requests
      BY <2>2 DEF Running, Shape, Fits, PurgePlaces, SweepPlaces, Requests
    <2>4. req[v].user # u
      <3>1. [req[v] EXCEPT !.met = TRUE].met
        BY <2>3, Meets
      <3> QED BY <1>5, <2>2, <2>3, <3>1, WritesAmong
    <2>5. Shrinks(req[v].user)
      BY <2>1, <2>3, <2>4 DEF Shrinks
    <2> QED BY <2>1, <2>2, <2>5, QuitsKept DEF Stays
  <1>6. CASE Elsewhere
    <2>1. req' = req /\ UNCHANGED <<sessions, rows, waitlist>>
      BY <1>6 DEF Elsewhere, chatVars
    <2> QED BY <1>1, <1>2, <2>1 DEF LoneClears
  <1> QED BY <1>3, <1>4, <1>5, <1>6, LoneStep, NextIs

LEMMA LoneStart == Init => HaveMet /\ LoneClears
  BY DEF Init, ChatInit, HaveMet, LoneClears, Running, Idle

(* A deletion that met no other request of its user leaves no chat, no     *)
(* row, no place in the queue and no user (delete_account).                *)
THEOREM NothingIsLeft == FairSpec => ErasedWhenAlone
  <1>1. ASSUME Shape, LoneClears, Next, NEW t \in Running, NEW u \in Users,
               req[t].user = u, req[t].at = "row", ~req[t].met, req'[t].at = "idle",
               faults' = faults, faults \in Nat
        PROVE  ~HasData(u)' /\ waitlist'[u] = NotListed /\ u \notin users'
    <2>1. t \in Threads /\ req[t] \in Requests /\ req[t].op = "purge"
      BY <1>1, PurgePlace DEF Running, Shape, PurgePlaces
    <2>2. Quits(req[t])
      BY <1>1, <2>1 DEF LoneClears
    <2>3. DeleteRow(t)
      <3>1. ASSUME NEW v \in Threads, v # t, Step(v) \/ CutShort(v) PROVE FALSE
        BY <1>1, <2>1, <3>1, StepsAlone DEF Alone
      <3>2. ~CutShort(t)
        BY <1>1 DEF CutShort
      <3>3. ASSUME NEW v \in Threads, NEW r, Arrives(v, r) PROVE FALSE
        <4>1. v # t
          BY <1>1, <3>3, ArrivesAmong
        <4>2. req'[t] = req[t] \/ req'[t] = [req[t] EXCEPT !.met = TRUE]
          BY <1>1, <2>1, <3>3, <4>1, ArrivesAmong
        <4>3. req'[t].at = req[t].at
          BY <2>1, <4>2 DEF Requests
        <4> QED BY <1>1, <4>3, IdleShape DEF PurgePlaces
      <3>4. ASSUME NEW w \in Users, NEW table \in TableNames, WriteRow(w, table) PROVE FALSE
        <4>1. req'[t].at = req[t].at
          BY <1>1, <2>1, <3>4, WritesAmong, Meets
        <4> QED BY <1>1, <4>1
      <3>5. ~Elsewhere
        BY <1>1 DEF Elsewhere, chatVars
      <3>6. Step(t)
        BY <1>1, <3>1, <3>2, <3>3, <3>4, <3>5, NextIs
      <3> QED BY <1>1, <3>6 DEF Step, FindUser, CountUsers, Refuse, Promote, SaveUser, DeleteSchwab,
             DeleteTables, LeaveWaitlist, ChatContinues, ChatStep, FindGiven, PeekGiven, FindLatest,
             CreateSession, ReadHistory, SaveQuestion, StreamAnswer, SaveAnswer, ListSessions,
             WipeMessages, EraseSession
    <2>4. /\ users' = users \ {u} /\ UNCHANGED <<waitlist, rows, sessions>>
      BY <1>1, <2>3 DEF DeleteRow, chatData
    <2>5. rows[u] = {} /\ NoChats(u) /\ waitlist[u] = NotListed
      BY <1>1, <2>2 DEF Quits, Cleared
    <2> QED BY <2>4, <2>5 DEF HasData, NoChats
  <1>2. Shape /\ LoneClears /\ faults \in Nat /\ [Next]_vars =>
           [\A t \in Running, u \in Users :
               /\ req[t].user = u /\ req[t].at = "row" /\ ~req[t].met
               /\ req'[t].at = "idle" /\ faults' = faults
               => ~HasData(u)' /\ waitlist'[u] = NotListed /\ u \notin users']_vars
    BY <1>1
  <1>3. Shape /\ faults \in Nat /\ [Next]_vars => (faults \in Nat)'
    BY FaultsGrow
  <1>4. Init => Shape /\ IdsInOrder /\ HaveMet /\ LoneClears /\ faults \in Nat
    BY InitShape, LoneStart DEF Init, ChatInit
  <1>5. Shape /\ IdsInOrder /\ [Next]_vars => Shape' /\ IdsInOrder'
    BY ShapeKeeps
  <1>6. Shape /\ HaveMet /\ [Next]_vars => HaveMet'
    BY MeetingsKeep
  <1>7. Shape /\ IdsInOrder /\ HaveMet /\ LoneClears /\ [Next]_vars => LoneClears'
    BY LoneKeeps
  <1> QED BY <1>2, <1>3, <1>4, <1>5, <1>6, <1>7, PTL DEF FairSpec, Spec, ErasedWhenAlone
-----------------------------------------------------------------------------
(* The sessions a sweep has before it are its user's, and in use.          *)
WorkIsOwn ==
    \A t \in Threads :
       req[t].at \in {"wipe", "erase"} =>
          /\ req[t].work # {} /\ req[t].work \subseteq 0 .. made
          /\ \A x \in sessions : x.id \in req[t].work => x.user = req[t].user

(* A session without a message is one that its user is busy with.          *)
Busy(v, s) ==
    \/ req[v].at \in {"history", "question"} /\ req[v].session = s
    \/ req[v].at = "erase" /\ Last(req[v].work) = s

Held(x) ==
    \/ MessagesOf(x.id) # {}
    \/ \E v \in Running : req[v].user = x.user /\ Busy(v, x.id)

(* An ask that is none of a first chat has a history, or has met another   *)
(* request of its user.                                                    *)
Informed(t) ==
    /\ req[t].at = "history" /\ ~req[t].first => req[t].met \/ MessagesOf(req[t].session) # {}
    /\ req[t].at \in {"question", "stream", "answer"} /\ ~req[t].first /\ req[t].blank => req[t].met

Context ==
    torn = {} => /\ \A x \in sessions : Held(x)
                 /\ \A t \in Threads : Informed(t)

(* A request stays where it is, whoever else it meets.                     *)
Remains(v) ==
    /\ req'[v].at = req[v].at /\ req'[v].op = req[v].op /\ req'[v].user = req[v].user
    /\ req'[v].session = req[v].session /\ req'[v].work = req[v].work
    /\ req'[v].first = req[v].first /\ req'[v].blank = req[v].blank
    /\ req[v].met => req'[v].met

LEMMA MeetsRemains ==
    ASSUME Shape, NEW v \in Threads,
           req'[v] = req[v] \/ req'[v] = [req[v] EXCEPT !.met = TRUE]
    PROVE  Remains(v)
  <1>1. req[v] \in Requests
    BY DEF Shape
  <1>2. CASE req'[v] = req[v]
    BY <1>2 DEF Remains
  <1>3. CASE req'[v] = [req[v] EXCEPT !.met = TRUE]
    <2>1. req'[v].met
      BY <1>1, <1>3 DEF Requests
    <2> QED BY <1>1, <1>3, <2>1 DEF Remains, Requests
  <1> QED BY <1>2, <1>3

(* New ids are those no session had.                                       *)
LEMMA NewIds ==
    ASSUME Shape, [Next]_vars
    PROVE  /\ made \in Nat /\ made' \in Nat /\ made' >= made
           /\ \A x \in sessions' : x \in sessions \/ x.id > made
  <1>0. made \in Nat
    BY DEF Shape
  <1>1. ASSUME NEW t \in Threads, ChatStep(t)
        PROVE  \/ made' = made /\ sessions' \subseteq sessions
               \/ made' = made + 1 /\ \A x \in sessions' : x \in sessions \/ x.id = made + 1
    <2>1. CASE CreateSession(t)
      BY <2>1 DEF CreateSession
    <2>2. CASE EraseSession(t)
      BY <2>2 DEF EraseSession
    <2> QED BY <1>1, <2>1, <2>2 DEF ChatStep, FindGiven, PeekGiven, FindLatest, ReadHistory,
           SaveQuestion, StreamAnswer, SaveAnswer, ListSessions, WipeMessages
  <1>2. ASSUME NEW t \in Threads, Step(t), ~ChatStep(t) PROVE UNCHANGED <<sessions, made>>
    BY <1>2 DEF Step, FindUser, CountUsers, Refuse, Promote, SaveUser, DeleteSchwab,
         DeleteTables, LeaveWaitlist, DeleteRow, ChatContinues, chatData
  <1>3. \/ UNCHANGED <<sessions, made>>
        \/ \E t \in Threads : ChatStep(t)
    BY <1>2, NextIs DEF chatData, CutShort, WriteRow, Elsewhere, chatVars
  <1> QED BY <1>0, <1>1, <1>3

LEMMA ContinuesWith ==
    ASSUME Shape, NEW t \in Threads, NEW left, NEW listing, Continue(t, left, listing)
    PROVE  /\ req'[t].at \notin {"erase", "history", "question", "stream", "answer"}
           /\ req'[t].at = "wipe" => /\ left # {} /\ req'[t].work = left
                                     /\ req'[t].user = req[t].user
  <1>0. req \in [Threads -> Requests] /\ req[t] \in Requests
    BY DEF Shape
  <1>1. CASE req' = [req EXCEPT ![t] = Idle]
    <2>1. req'[t].at = "idle"
      BY <1>0, <1>1 DEF Idle
    <2> QED BY <2>1
  <1>2. CASE req' = [req EXCEPT ![t].at = "wipe", ![t].work = left] /\ left # {}
    <2>1. req'[t] = [req[t] EXCEPT !.at = "wipe", !.work = left]
      BY <1>0, <1>2
    <2> QED BY <1>0, <1>2, <2>1 DEF Requests
  <1>3. ASSUME NEW l \in {"tables", "list"}, req' = [req EXCEPT ![t].at = l, ![t].work = {}]
        PROVE  req'[t].at = l
    BY <1>0, <1>3 DEF Requests
  <1> QED BY <1>1, <1>2, <1>3 DEF Continue

(* Where a step of a request that is no sweep leads.                       *)
LEMMA PlacesAhead ==
    ASSUME Shape, NEW t \in Threads, Step(t) \/ CutShort(t),
           ~(ListSessions(t) \/ WipeMessages(t) \/ EraseSession(t))
    PROVE  req'[t].at \notin {"wipe", "erase"}
  <1>0. req \in [Threads -> Requests] /\ req[t] \in Requests
    BY DEF Shape
  <1>1. CASE End(t)
    BY <1>1, GoesIdle
  <1>2. ASSUME NEW l, Goto(t, l), l \notin {"wipe", "erase"} PROVE req'[t].at \notin {"wipe", "erase"}
    BY <1>2, GoesTo
  <1>3. CASE FindGiven(t)
    <2>1. CASE req' = [req EXCEPT ![t].at = "latest", ![t].session = NoSession]
      BY <1>0, <2>1 DEF Requests
    <2> QED BY <1>2, <1>3, <2>1 DEF FindGiven
  <1>4. CASE PeekGiven(t) \/ ReadHistory(t) \/ CreateSession(t)
    BY <1>0, <1>4 DEF PeekGiven, ReadHistory, CreateSession, Requests
  <1>5. CASE FindLatest(t)
    <2>1. ASSUME NEW n, req' = [req EXCEPT ![t].at = "history", ![t].session = n, ![t].first = FALSE]
          PROVE  req'[t].at = "history"
      BY <1>0, <2>1 DEF Requests
    <2> QED BY <1>2, <1>5, <2>1 DEF FindLatest
  <1>6. CASE SaveQuestion(t) \/ StreamAnswer(t) \/ SaveAnswer(t)
    BY <1>1, <1>2, <1>6 DEF SaveQuestion, StreamAnswer, SaveAnswer
  <1>7. CASE FindUser(t) \/ CountUsers(t) \/ Refuse(t) \/ Promote(t) \/ SaveUser(t)
             \/ DeleteSchwab(t) \/ LeaveWaitlist(t) \/ DeleteRow(t) \/ CutShort(t)
    BY <1>1, <1>2, <1>7 DEF FindUser, CountUsers, Refuse, Promote, SaveUser, DeleteSchwab,
       LeaveWaitlist, DeleteRow, CutShort
  <1>8. CASE DeleteTables(t)
    <2>1. ASSUME NEW i, req' = [req EXCEPT ![t].work = @ \cup {i}] PROVE req'[t].at = req[t].at
      BY <1>0, <2>1 DEF Requests
    <2> QED BY <1>2, <1>8, <2>1 DEF DeleteTables
  <1> QED BY <1>3, <1>4, <1>5, <1>6, <1>7, <1>8 DEF Step, ChatContinues, ChatStep

LEMMA WorkKeeps == Shape /\ IdsInOrder /\ WorkIsOwn /\ [Next]_vars => WorkIsOwn'
  <1> SUFFICES ASSUME Shape, IdsInOrder, WorkIsOwn, [Next]_vars PROVE WorkIsOwn'
    OBVIOUS
  <1>0. /\ made \in Nat /\ made' \in Nat /\ made' >= made
        /\ \A x \in sessions' : x \in sessions \/ x.id > made
    BY NewIds
  <1> DEFINE Fine(v) == req[v].at \in {"wipe", "erase"} =>
                           /\ req[v].work # {} /\ req[v].work \subseteq 0 .. made
                           /\ \A x \in sessions : x.id \in req[v].work => x.user = req[v].user
  (* What is in use stays so; a new session is none of it.                 *)
  <1>1. ASSUME NEW v \in Threads, NEW W \in SUBSET (0 .. made), W # {}, NEW u,
               \A x \in sessions : x.id \in W => x.user = u,
               req'[v].work = W, req'[v].user = u
        PROVE  Fine(v)'
    <2>1. W \subseteq 0 .. made'
      BY <1>0
    <2>2. \A x \in sessions' : x.id \in W => x \in sessions
      <3>1. \A i \in W : ~(i > made)
        BY <1>0
      <3> QED BY <1>0, <3>1
    <2> QED BY <1>1, <2>1, <2>2
  <1>2. ASSUME NEW v \in Threads, Remains(v) PROVE Fine(v)'
    <2>1. CASE req'[v].at \in {"wipe", "erase"}
      BY <1>1, <1>2, <2>1 DEF Remains, WorkIsOwn
    <2> QED BY <2>1
  <1>3. ASSUME NEW v \in Threads, req'[v].at \notin {"wipe", "erase"} PROVE Fine(v)'
    BY <1>3
  <1>4. WorkIsOwn' <=> \A v \in Threads : Fine(v)'
    BY DEF WorkIsOwn
  <1> HIDE DEF Fine
  <1>5. ASSUME NEW t \in Threads, ListSessions(t) PROVE Fine(t)'
    <2> DEFINE own == {x \in sessions : /\ x.user = req[t].user
                                        /\ req[t].op = "purge" \/ x.kind = req[t].kind}
    <2>1. Continue(t, Page(Ids(own)), TRUE)
      BY <1>5 DEF ListSessions
    <2>2. Page(Ids(own)) \in SUBSET (0 .. made)
      BY IdsBounded DEF Page
    <2>3. \A x \in sessions : x.id \in Page(Ids(own)) => x.user = req[t].user
      BY DEF IdsInOrder, Page, Ids
    <2>4. CASE req'[t].at = "wipe"
      <3> HIDE DEF own
      <3>1. /\ Page(Ids(own)) # {} /\ req'[t].work = Page(Ids(own))
            /\ req'[t].user = req[t].user
        BY <2>1, <2>4, ContinuesWith
      <3> QED BY <1>1, <2>2, <2>3, <3>1
    <2> HIDE DEF own
    <2> QED BY <1>3, <2>1, <2>4, ContinuesWith
  <1>6. ASSUME NEW t \in Threads, WipeMessages(t) PROVE Fine(t)'
    <2>1. req'[t].work = req[t].work /\ req'[t].user = req[t].user /\ req[t].at = "wipe"
      BY <1>6, GoesTo DEF WipeMessages, Shape, Requests
    <2> QED BY <1>1, <2>1 DEF WorkIsOwn
  <1>7. ASSUME NEW t \in Threads, EraseSession(t) PROVE Fine(t)'
    <2> DEFINE left == req[t].work \ {Last(req[t].work)}
    <2>1. Continue(t, left, FALSE) \/ End(t)
      BY <1>7 DEF EraseSession
    <2>2. req[t].at = "erase"
      BY <1>7 DEF EraseSession
    <2>3. left \in SUBSET (0 .. made) /\ \A x \in sessions : x.id \in left => x.user = req[t].user
      BY <2>2 DEF WorkIsOwn
    <2> HIDE DEF left
    <2>4. CASE Continue(t, left, FALSE) /\ req'[t].at = "wipe"
      <3>1. left # {} /\ req'[t].work = left /\ req'[t].user = req[t].user
        BY <2>4, ContinuesWith
      <3> QED BY <1>1, <2>3, <3>1
    <2>5. CASE End(t)
      BY <1>3, <2>5, GoesIdle
    <2> QED BY <1>3, <2>1, <2>4, <2>5, ContinuesWith
  <1>8. ASSUME NEW t \in Threads, Step(t) \/ CutShort(t) PROVE WorkIsOwn'
    <2>1. \A v \in Threads \ {t} : Remains(v)
      BY <1>8, StepsAlone DEF Alone, Remains
    <2>2. CASE ListSessions(t) \/ WipeMessages(t) \/ EraseSession(t)
      BY <1>2, <1>4, <1>5, <1>6, <1>7, <2>1, <2>2
    <2>3. CASE ~(ListSessions(t) \/ WipeMessages(t) \/ EraseSession(t))
      <3>1. req'[t].at \notin {"wipe", "erase"}
        BY <1>8, <2>3, PlacesAhead
      <3> QED BY <1>2, <1>3, <1>4, <2>1, <3>1
    <2> QED BY <2>2, <2>3
  <1>9. ASSUME NEW t \in Threads, NEW r, Arrives(t, r), UNCHANGED chatData PROVE WorkIsOwn'
    <2>1. \A v \in Threads \ {t} : Remains(v)
      BY <1>9, ArrivesAmong, MeetsRemains
    <2>2. CASE r.at = "wipe"
      <3>1. PICK s : r.work = {s} /\ OwnedBy(s, r.user)
        BY <1>9, <2>2 DEF Arrives
      <3>2. req'[t].work = {s} /\ req'[t].user = r.user
        BY <1>9, <3>1, ArrivesAmong
      <3>3. s \in 0 .. made /\ \A x \in sessions : x.id = s => x.user = r.user
        BY <3>1 DEF OwnedBy, IdsInOrder, Shape
      <3>4. Fine(t)'
        BY <1>1, <3>2, <3>3
      <3> QED BY <1>2, <1>4, <2>1, <3>4
    <2>3. CASE r.at # "wipe"
      <3>1. req'[t].at \notin {"wipe", "erase"}
        BY <1>9, <2>3, ArrivesAmong DEF Arrives
      <3> QED BY <1>2, <1>3, <1>4, <2>1, <3>1
    <2> QED BY <2>2, <2>3
  <1>10. ASSUME NEW u \in Users, NEW table \in TableNames, WriteRow(u, table) PROVE WorkIsOwn'
    BY <1>2, <1>4, <1>10, WritesAmong, MeetsRemains
  <1>11. CASE Elsewhere
    BY <1>2, <1>4, <1>11, MeetsRemains DEF Elsewhere, chatVars
  <1> QED BY <1>8, <1>9, <1>10, <1>11, NextIs

(* A request that was busy with a session is still busy with it.           *)
StaysBusy(v) ==
    \A s : Busy(v, s) => Busy(v, s)' /\ req'[v].user = req[v].user

LEMMA HeldKept ==
    ASSUME Shape, NEW x, Held(x), MessagesOf(x.id) \subseteq (MessagesOf(x.id))',
           \A v \in Threads : Busy(v, x.id) => Busy(v, x.id)' /\ req'[v].user = req[v].user
    PROVE  Held(x)'
  <1>1. CASE MessagesOf(x.id) # {}
    BY <1>1 DEF Held
  <1>2. ASSUME NEW v \in Running, req[v].user = x.user, Busy(v, x.id) PROVE Held(x)'
    <2>1. v \in Threads /\ Busy(v, x.id)' /\ req'[v].user = x.user
      BY <1>2 DEF Running
    <2>2. v \in Running'
      BY <2>1 DEF Busy, Running
    <2> QED BY <2>1, <2>2 DEF Held
  <1> QED BY <1>1, <1>2 DEF Held

LEMMA RemainsBusy ==
    ASSUME NEW v \in Threads, Remains(v)
    PROVE  StaysBusy(v)
  BY DEF Remains, StaysBusy, Busy

LEMMA RemainsInformed ==
    ASSUME NEW v \in Threads, Remains(v), Informed(v),
           req[v].at = "history" =>
              (MessagesOf(req[v].session) # {} => (MessagesOf(req[v].session))' # {})
    PROVE  Informed(v)'
  BY DEF Remains, Informed, MessagesOf

(* What an ask does on its way to the question, and after it.              *)
LEMMA AskInformed ==
    ASSUME Shape, IdsInOrder, HaveMet, NEW t \in Threads, Informed(t), \A x \in sessions : Held(x),
           FindGiven(t) \/ PeekGiven(t) \/ FindLatest(t) \/ CreateSession(t) \/ ReadHistory(t)
              \/ StreamAnswer(t)
    PROVE  Informed(t)'
  <1>0. req \in [Threads -> Requests] /\ req[t] \in Requests
    BY DEF Shape
  <1>1. CASE End(t)
    BY <1>1, GoesIdle DEF Informed
  <1>2. ASSUME NEW l, Goto(t, l), l \notin {"history", "question", "stream", "answer"}
        PROVE  Informed(t)'
    BY <1>2, GoesTo DEF Informed
  <1>3. CASE FindGiven(t)
    <2>1. CASE req' = [req EXCEPT ![t].at = "latest", ![t].session = NoSession]
      <3>1. req'[t].at = "latest"
        BY <1>0, <2>1 DEF Requests
      <3> QED BY <3>1 DEF Informed
    <2> QED BY <1>2, <1>3, <2>1 DEF FindGiven
  <1>4. CASE PeekGiven(t)
    <2>1. /\ req'[t].at = "history" /\ req'[t].session = req[t].session
          /\ req'[t].first = (MessagesOf(req[t].session) = {}) /\ messages' = messages
      BY <1>0, <1>4 DEF PeekGiven, Requests
    <2> QED BY <2>1 DEF Informed, MessagesOf
  <1>5. CASE CreateSession(t)
    <2>1. req'[t].at = "history" /\ req'[t].first
      BY <1>0, <1>5 DEF CreateSession, Requests
    <2> QED BY <2>1 DEF Informed
  <1>6. CASE FindLatest(t)
    <2> DEFINE own == {x \in sessions : x.user = req[t].user /\ x.kind = req[t].kind}
    <2>1. CASE Goto(t, "create")
      BY <1>2, <2>1
    <2>2. CASE own # {} /\ req' = [req EXCEPT ![t].at = "history", ![t].session = Last(Ids(own)),
                                              ![t].first = FALSE]
      <3> HIDE DEF own
      <3>1. /\ req'[t].at = "history" /\ req'[t].session = Last(Ids(own))
            /\ req'[t].met = req[t].met
        BY <1>0, <2>2 DEF Requests
      <3>2. own \in SUBSET sessions /\ \A x \in own : x.user = req[t].user
        BY DEF own
      <3>3. Ids(own) # {} /\ Ids(own) \in SUBSET (0 .. made) /\ made \in Nat
        <4>1. Ids(own) \in SUBSET (0 .. made)
          BY <3>2, IdsBounded
        <4>2. Ids(own) # {}
          BY <2>2 DEF Ids
        <4> QED BY <4>1, <4>2 DEF Shape
      <3>4. PICK x \in own : x.id = Last(Ids(own))
        BY <3>3, LastIsIn DEF Ids
      <3>5. Held(x) /\ x.user = req[t].user
        BY <3>2
      <3>6. MessagesOf(x.id) # {} \/ req[t].met
        <4>1. ASSUME NEW v \in Running, req[v].user = x.user, Busy(v, x.id) PROVE req[t].met
          <5>1. v # t /\ t \in Running
            BY <1>6, <4>1 DEF FindLatest, Busy, Running
          <5> QED BY <3>5, <4>1, <5>1 DEF HaveMet
        <4> QED BY <3>5, <4>1 DEF Held
      <3>7. messages' = messages
        BY <1>6 DEF FindLatest
      <3> QED BY <3>1, <3>4, <3>6, <3>7 DEF Informed, MessagesOf
    <2> QED BY <1>6, <2>1, <2>2 DEF FindLatest
  <1>7. CASE ReadHistory(t)
    <2>1. /\ req'[t].at = "question" /\ req'[t].first = req[t].first /\ req'[t].met = req[t].met
          /\ req'[t].blank = (MessagesOf(req[t].session) = {}) /\ req[t].at = "history"
      BY <1>0, <1>7 DEF ReadHistory, Requests
    <2> QED BY <2>1 DEF Informed
  <1>8. CASE StreamAnswer(t)
    <2>1. CASE Goto(t, "answer")
      <3>1. /\ req'[t].at = "answer" /\ req'[t].first = req[t].first /\ req'[t].met = req[t].met
            /\ req'[t].blank = req[t].blank /\ req[t].at = "stream"
        BY <1>0, <1>8, <2>1 DEF StreamAnswer, Goto, Requests
      <3> QED BY <3>1 DEF Informed
    <2> QED BY <1>1, <1>8, <2>1 DEF StreamAnswer
  <1> QED BY <1>3, <1>4, <1>5, <1>6, <1>7, <1>8

(* What the torn asks record only grows.                                   *)
LEMMA TornGrows ==
    ASSUME Shape, [Next]_vars
    PROVE  /\ torn \subseteq torn'
           /\ \A t \in Threads : CutShort(t) => torn' # {}
  <1>1. ASSUME NEW t \in Threads, Step(t) PROVE torn \subseteq torn'
    <2>1. ChatStep(t) => torn \subseteq torn'
      BY DEF ChatStep, FindGiven, PeekGiven, FindLatest, CreateSession, ReadHistory, SaveQuestion,
         StreamAnswer, SaveAnswer, ListSessions, WipeMessages, EraseSession
    <2> QED BY <1>1, <2>1 DEF Step, FindUser, CountUsers, Refuse, Promote, SaveUser, DeleteSchwab,
         DeleteTables, LeaveWaitlist, DeleteRow, ChatContinues, chatData
  <1>2. ASSUME NEW t \in Threads, CutShort(t) PROVE torn \subseteq torn' /\ torn' # {}
    BY <1>2 DEF CutShort
  <1>3. torn \subseteq torn' \/ \E t \in Threads : CutShort(t)
    BY <1>1, NextIs DEF chatData, Elsewhere, chatVars, WriteRow
  <1> QED BY <1>2, <1>3

(* A step of a request that takes no message and no session.               *)
LEMMA ContextStep ==
    ASSUME Shape, IdsInOrder, HaveMet, WorkIsOwn, NEW t \in Threads, Step(t), torn' = {},
           torn = {}, \A x \in sessions : Held(x), \A v \in Threads : Informed(v)
    PROVE  (\A x \in sessions' : Held(x)') /\ \A v \in Threads : Informed(v)'
  <1>0. req \in [Threads -> Requests] /\ req[t] \in Requests /\ t \in Running
    BY StepsAlone DEF Shape
  <1>1. \A v \in Threads \ {t} : Remains(v)
    BY StepsAlone DEF Alone, Remains
  <1>2. \A v \in Threads \ {t} : StaysBusy(v)
    BY <1>1, RemainsBusy
  (* The messages that are there stay: the others lose no history.         *)
  <1>3. ASSUME messages \subseteq messages', Informed(t)' PROVE \A v \in Threads : Informed(v)'
    <2>1. ASSUME NEW v \in Threads, v # t PROVE Informed(v)'
      <3>1. MessagesOf(req[v].session) # {} => (MessagesOf(req[v].session))' # {}
        <4>1. req'[v].session = req[v].session
          BY <1>1, <2>1 DEF Remains
        <4> QED BY <1>3, <4>1 DEF MessagesOf
      <3> QED BY <1>1, <2>1, <3>1, RemainsInformed
    <2> QED BY <1>3, <2>1
  <1>4. ASSUME messages \subseteq messages', NEW x \in sessions,
               Busy(t, x.id) => Busy(t, x.id)' /\ req'[t].user = req[t].user
        PROVE  Held(x)'
    <2>1. MessagesOf(x.id) \subseteq (MessagesOf(x.id))'
      BY <1>4 DEF MessagesOf
    <2>2. \A v \in Threads : Busy(v, x.id) => Busy(v, x.id)' /\ req'[v].user = req[v].user
      BY <1>2, <1>4 DEF StaysBusy
    <2> QED BY <2>1, <2>2, HeldKept
  (* A request that is busy with nothing, and tells nobody that it knows.  *)
  <1>5. ASSUME messages \subseteq messages', sessions' \subseteq sessions,
               req[t].at \notin {"history", "question", "erase"}, Informed(t)'
        PROVE  (\A x \in sessions' : Held(x)') /\ \A v \in Threads : Informed(v)'
    <2>1. \A s : ~Busy(t, s)
      BY <1>5 DEF Busy
    <2> QED BY <1>3, <1>4, <1>5, <2>1
  <1>6. ASSUME req'[t].at \notin {"history", "question", "stream", "answer"} PROVE Informed(t)'
    BY <1>6 DEF Informed
  <1>7. CASE FindGiven(t) \/ PeekGiven(t) \/ FindLatest(t) \/ StreamAnswer(t)
    <2>1. /\ messages' = messages /\ sessions' = sessions
          /\ req[t].at \notin {"history", "question", "erase"}
      BY <1>7 DEF FindGiven, PeekGiven, FindLatest, StreamAnswer
    <2> QED BY <1>5, <1>7, <2>1, AskInformed
  <1>8. CASE ReadHistory(t)
    <2>1. /\ messages' = messages /\ sessions' = sessions
          /\ req[t].at = "history" /\ req'[t].at = "question"
          /\ req'[t].session = req[t].session /\ req'[t].user = req[t].user
      BY <1>0, <1>8 DEF ReadHistory, Requests
    <2>2. \A s : Busy(t, s) => Busy(t, s)'
      BY <2>1 DEF Busy
    <2> QED BY <1>3, <1>4, <1>8, <2>1, <2>2, AskInformed
  <1>9. CASE CreateSession(t)
    <2>1. /\ messages' = messages /\ req[t].at = "create"
          /\ sessions' = sessions \cup {[id |-> made + 1, user |-> req[t].user, kind |-> req[t].kind]}
          /\ req'[t].at = "history" /\ req'[t].session = made + 1 /\ req'[t].user = req[t].user
      BY <1>0, <1>9 DEF CreateSession, Requests
    <2>2. \A s : ~Busy(t, s)
      BY <2>1 DEF Busy
    <2>3. \A x \in sessions : Held(x)'
      BY <1>4, <2>1, <2>2
    <2>4. \A x \in sessions' \ sessions : Held(x)'
      <3>1. t \in Running' /\ \A i : i = made + 1 => Busy(t, i)'
        BY <2>1 DEF Busy, Running
      <3>2. \A x \in sessions' \ sessions : x.id = made + 1 /\ x.user = req[t].user
        BY <2>1
      <3> QED BY <2>1, <3>1, <3>2 DEF Held
    <2> QED BY <1>3, <1>9, <2>1, <2>3, <2>4, AskInformed
  <1>10. CASE SaveQuestion(t)
    <2>1. /\ sessions' = sessions /\ req[t].at = "question" /\ Save(t, "user")
      BY <1>10 DEF SaveQuestion
    <2>2. messages \subseteq messages'
      BY <2>1 DEF Save
    <2>3. Informed(t)'
      <3>1. CASE Goto(t, "stream")
        <4>1. /\ req'[t].at = "stream" /\ req'[t].first = req[t].first /\ req'[t].met = req[t].met
              /\ req'[t].blank = req[t].blank
          BY <1>0, <3>1 DEF Goto, Requests
        <4> QED BY <2>1, <4>1 DEF Informed
      <3>2. CASE End(t)
        BY <1>6, <3>2, GoesIdle
      <3> QED BY <1>10, <3>1, <3>2 DEF SaveQuestion
    <2>4. ASSUME NEW x \in sessions' PROVE Held(x)'
      <3>1. CASE x.id = req[t].session
        <4>1. Exists(req[t].session)
          BY <2>1, <3>1 DEF Exists
        <4>2. [session |-> x.id, role |-> "user", of |-> req[t].serial, author |-> req[t].user]
                 \in messages'
          BY <2>1, <3>1, <4>1 DEF Save
        <4> QED BY <4>2 DEF Held, MessagesOf
      <3>2. CASE x.id # req[t].session
        BY <1>4, <2>1, <2>2, <3>2 DEF Busy
      <3> QED BY <3>1, <3>2
    <2> QED BY <1>3, <2>2, <2>3, <2>4
  <1>11. CASE SaveAnswer(t)
    <2>1. /\ sessions' = sessions /\ req[t].at = "answer" /\ messages \subseteq messages'
      BY <1>11 DEF SaveAnswer, Save
    <2>2. req'[t].at = "idle"
      BY <1>11, GoesIdle DEF SaveAnswer
    <2> QED BY <1>5, <1>6, <2>1, <2>2
  <1>12. CASE ListSessions(t)
    <2>1. /\ sessions' = sessions /\ req[t].at = "list" /\ messages' = messages
          /\ \E left : Continue(t, left, TRUE)
      BY <1>12 DEF ListSessions
    <2>2. Informed(t)'
      BY <1>6, <2>1, ContinuesWith
    <2> QED BY <1>5, <2>1, <2>2
  <1>13. CASE WipeMessages(t)
    <2> DEFINE s == Last(req[t].work)
    <2>1. /\ sessions' = sessions /\ req[t].at = "wipe" /\ messages' = messages \ MessagesOf(s)
          /\ \A v \in Running : req[v].op = "ask" /\ req[v].session = s => req[v].serial \in torn'
          /\ Goto(t, "erase")
      BY <1>13 DEF WipeMessages
    <2>2. req'[t].at = "erase" /\ req'[t].user = req[t].user /\ Last(req'[t].work) = s
      BY <1>0, <2>1 DEF Goto, Requests
    <2>3. s \in req[t].work
      BY <2>1, LastIsIn DEF WorkIsOwn, Shape
    <2> HIDE DEF s
    <2>4. ASSUME NEW v \in Threads PROVE Informed(v)'
      <3>1. CASE v = t
        BY <1>6, <2>2, <3>1
      <3>2. CASE v # t
        <4>1. Remains(v)
          BY <1>1, <3>2
        <4>2. ASSUME req[v].at = "history" PROVE req[v].session # s
          <5>1. v \in Running /\ req[v].op = "ask"
            BY <4>2 DEF Running, Shape, Fits, AskPlaces
          <5> QED BY <2>1, <5>1
        <4>3. req[v].session # s => MessagesOf(req[v].session) \subseteq (MessagesOf(req[v].session))'
          <5>1. req'[v].session = req[v].session
            BY <4>1 DEF Remains
          <5> QED BY <2>1, <5>1 DEF MessagesOf
        <4>4. req[v].at = "history" => (MessagesOf(req[v].session) # {} =>
                                           (MessagesOf(req[v].session))' # {})
          BY <4>2, <4>3
        <4> QED BY <4>1, <4>4, RemainsInformed
      <3> QED BY <3>1, <3>2
    <2>5. ASSUME NEW x \in sessions PROVE Held(x)'
      <3>1. CASE x.id = s
        <4>1. x.user = req[t].user
          BY <2>1, <2>3, <3>1 DEF WorkIsOwn
        <4>2. t \in Running' /\ Busy(t, x.id)'
          BY <2>2, <3>1 DEF Running, Busy
        <4> QED BY <2>2, <3>1, <4>1, <4>2 DEF Held
      <3>2. CASE x.id # s
        <4>1. MessagesOf(x.id) \subseteq (MessagesOf(x.id))'
          BY <2>1, <3>2 DEF MessagesOf
        <4>2. \A v \in Threads : Busy(v, x.id) => Busy(v, x.id)' /\ req'[v].user = req[v].user
          BY <1>2, <2>1 DEF StaysBusy, Busy
        <4> QED BY <4>1, <4>2, HeldKept
      <3> QED BY <3>1, <3>2
    <2> QED BY <2>1, <2>4, <2>5
  <1>14. CASE EraseSession(t)
    <2> DEFINE s == Last(req[t].work)
    <2>1. /\ req[t].at = "erase" /\ messages' = messages
          /\ \/ MessagesOf(s) = {} /\ sessions' = {x \in sessions : x.id # s}
             \/ MessagesOf(s) # {} /\ sessions' = sessions
          /\ (\E left : Continue(t, left, FALSE)) \/ End(t)
      BY <1>14 DEF EraseSession
    <2>2. Informed(t)'
      <3>1. Idle.at = "idle"
        BY DEF Idle
      <3> QED BY <1>6, <2>1, <3>1, ContinuesWith, GoesIdle
    <2>3. ASSUME NEW x \in sessions' PROVE Held(x)'
      <3>1. CASE x.id = s
        <4>1. MessagesOf(x.id) # {}
          BY <2>1, <3>1
        <4> QED BY <2>1, <4>1 DEF Held, MessagesOf
      <3>2. CASE x.id # s
        <4>1. ~Busy(t, x.id) /\ x \in sessions
          BY <2>1, <3>2 DEF Busy
        <4> QED BY <1>4, <2>1, <4>1
      <3> QED BY <3>1, <3>2
    <2> QED BY <1>3, <2>1, <2>2, <2>3
  <1>15. CASE ~ChatStep(t)
    <2>1. UNCHANGED <<sessions, messages>> /\ req[t].at \notin AskPlaces \cup SweepPlaces
      BY <1>15 DEF Step, FindUser, CountUsers, Refuse, Promote, SaveUser, DeleteSchwab,
         DeleteTables, LeaveWaitlist, DeleteRow, ChatContinues, chatData, AskPlaces, SweepPlaces
    <2>2. req'[t].at \notin {"history", "question", "stream", "answer"}
      <3>1. Fits(req[t]) /\ Fits(req'[t])
        BY ShapeKeeps DEF Next, Shape
      <3>2. req'[t] = Idle \/ req'[t].op = req[t].op
        BY StepsAlone DEF Alone, Same
      <3>3. Idle.at = "idle"
        BY DEF Idle
      <3> QED BY <2>1, <3>1, <3>2, <3>3 DEF Fits, AskPlaces
    <2> QED BY <1>5, <1>6, <2>1, <2>2 DEF AskPlaces, SweepPlaces
  <1> QED BY <1>7, <1>8, <1>9, <1>10, <1>11, <1>12, <1>13, <1>14, <1>15 DEF ChatStep

LEMMA ContextKeeps ==
    Shape /\ IdsInOrder /\ HaveMet /\ WorkIsOwn /\ Context /\ [Next]_vars => Context'
  <1> SUFFICES ASSUME Shape, IdsInOrder, HaveMet, WorkIsOwn, Context, [Next]_vars, torn' = {}
               PROVE  (\A x \in sessions' : Held(x)') /\ \A v \in Threads : Informed(v)'
    BY DEF Context
  <1>0. torn = {} /\ (\A x \in sessions : Held(x)) /\ \A v \in Threads : Informed(v)
    BY TornGrows DEF Context
  <1>1. ASSUME UNCHANGED <<sessions, messages>>, NEW S \in SUBSET Threads,
               \A v \in Threads \ S : Remains(v),
               \A v \in S : v \notin Running
                            /\ req'[v].at \notin {"history", "question", "stream", "answer"}
        PROVE  (\A x \in sessions' : Held(x)') /\ \A v \in Threads : Informed(v)'
    <2>1. ASSUME NEW v \in Threads PROVE Informed(v)' /\ StaysBusy(v)
      <3>1. CASE v \in S
        <4>1. Informed(v)'
          BY <1>1, <3>1 DEF Informed
        <4>2. \A s : ~Busy(v, s)
          BY <1>1, <3>1 DEF Busy, Running
        <4> QED BY <4>1, <4>2 DEF StaysBusy
      <3>2. CASE v \notin S
        <4>1. Remains(v)
          BY <1>1, <3>2
        <4>2. MessagesOf(req[v].session) # {} => (MessagesOf(req[v].session))' # {}
          BY <1>1, <4>1 DEF Remains, MessagesOf
        <4> QED BY <1>0, <4>1, <4>2, RemainsInformed, RemainsBusy
      <3> QED BY <3>1, <3>2
    <2>2. ASSUME NEW x \in sessions PROVE Held(x)'
      <3>1. MessagesOf(x.id) \subseteq (MessagesOf(x.id))'
        BY <1>1 DEF MessagesOf
      <3>2. \A v \in Threads : Busy(v, x.id) => Busy(v, x.id)' /\ req'[v].user = req[v].user
        BY <2>1 DEF StaysBusy
      <3> QED BY <1>0, <3>1, <3>2, HeldKept
    <2> QED BY <1>1, <2>1, <2>2
  <1>2. ASSUME NEW t \in Threads, NEW r, Arrives(t, r), UNCHANGED chatData
        PROVE  (\A x \in sessions' : Held(x)') /\ \A v \in Threads : Informed(v)'
    <2>1. \A v \in Threads \ {t} : Remains(v)
      BY <1>2, ArrivesAmong, MeetsRemains
    <2>2. t \notin Running /\ req'[t].at \notin {"history", "question", "stream", "answer"}
      BY <1>2, ArrivesAmong DEF Arrives
    <2>3. {t} \in SUBSET Threads /\ UNCHANGED <<sessions, messages>>
      BY <1>2 DEF chatData
    <2>4. \A v \in {t} : v \notin Running
                         /\ req'[v].at \notin {"history", "question", "stream", "answer"}
      BY <2>2
    <2> QED BY <1>1, <2>1, <2>3, <2>4
  <1>3. ASSUME NEW u \in Users, NEW table \in TableNames, WriteRow(u, table)
        PROVE  (\A x \in sessions' : Held(x)') /\ \A v \in Threads : Informed(v)'
    <2>1. \A v \in Threads \ {} : Remains(v)
      BY <1>3, WritesAmong, MeetsRemains
    <2> QED BY <1>1, <1>3, <2>1, WritesAmong DEF chatData
  <1>4. CASE Elsewhere
    <2>1. \A v \in Threads \ {} : Remains(v)
      BY <1>4, MeetsRemains DEF Elsewhere, chatVars
    <2> QED BY <1>1, <1>4, <2>1 DEF Elsewhere, chatVars
  <1>5. \A t \in Threads : ~CutShort(t)
    BY TornGrows
  <1>6. ASSUME NEW t \in Threads, Step(t)
        PROVE  (\A x \in sessions' : Held(x)') /\ \A v \in Threads : Informed(v)'
    BY <1>0, <1>6, ContextStep
  <1> QED BY <1>2, <1>3, <1>4, <1>5, <1>6, NextIs

(* A question is asked without the context of its symbol only if there is  *)
(* a history that has it, unless requests of the user met or were cut      *)
(* short (find_latest_session, message_count).                             *)
THEOREM AloneHasContext == FairSpec => []ContextWhenAlone
  <1>1. Init => Shape /\ IdsInOrder /\ HaveMet /\ WorkIsOwn /\ Context
    <2>1. Init => WorkIsOwn /\ Context
      BY DEF Init, ChatInit, WorkIsOwn, Context, Informed, Idle
    <2> QED BY <2>1, InitShape, LoneStart
  <1>2. Context => ContextWhenAlone
    BY DEF Context, Informed, ContextWhenAlone
  <1>3. Shape /\ IdsInOrder /\ [Next]_vars => Shape' /\ IdsInOrder'
    BY ShapeKeeps
  <1>4. Shape /\ HaveMet /\ [Next]_vars => HaveMet'
    BY MeetingsKeep
  <1>5. Shape /\ IdsInOrder /\ WorkIsOwn /\ [Next]_vars => WorkIsOwn'
    BY WorkKeeps
  <1>6. Shape /\ IdsInOrder /\ HaveMet /\ WorkIsOwn /\ Context /\ [Next]_vars => Context'
    BY ContextKeeps
  <1> QED BY <1>1, <1>2, <1>3, <1>4, <1>5, <1>6, PTL DEF FairSpec, Spec
-----------------------------------------------------------------------------
(* What the bounds count: a request that is served has a serial, and one   *)
(* that may still make a session is one served that has made none.         *)
Resolving == {"given", "latest", "create"}
Pending == {t \in Threads : req[t].at \in Resolving}

Counted ==
    /\ IsFiniteSet(Pending)
    /\ made + Cardinality(Pending) <= served
    /\ served <= MaxRequests

Numbered ==
    /\ \A x \in sessions : x.id >= 1 /\ x.id <= made
    /\ \A m \in messages : m.session >= 1 /\ m.session <= made /\ m.of >= 1 /\ m.of <= served
    /\ \A t \in Threads : /\ req[t].session <= made /\ req[t].serial <= served
                          /\ t \in Running => req[t].serial >= 1
    /\ torn \subseteq 1 .. served
    /\ \A u \in Users : /\ waitlist[u].since <= served
                        /\ waitlist[u].status = "none" <=> waitlist[u].since = 0

Typed ==
    /\ faults \in 0 .. MaxFaults
    /\ users \subseteq Users /\ cached \subseteq Users /\ tokens \subseteq Users
    /\ gone \subseteq Users /\ late \subseteq Users /\ crowded \in BOOLEAN

LEMMA TypedKeeps == Shape /\ Typed /\ [Next]_vars => Typed'
  <1> SUFFICES ASSUME Shape, Typed, [Next]_vars PROVE Typed'
    OBVIOUS
  <1>0. \A t \in Threads : req[t].user \in Users
    BY DEF Shape, Requests
  <1>1. faults' \in 0 .. MaxFaults
    <2>1. ASSUME NEW t \in Threads, ChatStep(t) PROVE faults' = faults
      BY <2>1 DEF ChatStep, FindGiven, PeekGiven, FindLatest, CreateSession, ReadHistory, SaveQuestion,
         StreamAnswer, SaveAnswer, ListSessions, WipeMessages, EraseSession
    <2>2. ASSUME NEW t \in Threads, Step(t) PROVE faults' = faults
      BY <2>1, <2>2 DEF Step, FindUser, CountUsers, Refuse, Promote, SaveUser, DeleteSchwab,
         DeleteTables, LeaveWaitlist, DeleteRow, ChatContinues, chatData
    <2>3. ASSUME NEW t \in Threads, CutShort(t) PROVE faults' \in 0 .. MaxFaults
      BY <2>3, ChatBounds DEF CutShort, Typed
    <2> QED BY <2>2, <2>3, NextIs DEF chatData, Elsewhere, chatVars, WriteRow, Typed
  <1>2. UNCHANGED accountVars => users' \subseteq Users /\ cached' \subseteq Users /\ tokens' \subseteq Users
           /\ gone' \subseteq Users /\ late' \subseteq Users /\ crowded' \in BOOLEAN
    BY DEF accountVars, Typed
  <1>3. ASSUME NEW t \in Threads, Step(t)
        PROVE  users' \subseteq Users /\ cached' \subseteq Users /\ tokens' \subseteq Users
               /\ gone' \subseteq Users /\ late' \subseteq Users /\ crowded' \in BOOLEAN
    <2>1. CASE CountUsers(t)
      <3>1. crowded' \in BOOLEAN
        <4>1. crowded' = crowded \/ crowded' = (crowded \/ SignUps # {})
          BY <2>1 DEF CountUsers
        <4> QED BY <4>1 DEF Typed
      <3> QED BY <2>1, <3>1 DEF CountUsers, Typed
    <2>2. CASE ChatContinues(t)
      BY <1>0, <2>2 DEF ChatContinues, Typed
    <2>3. CASE FindUser(t)
      BY <1>0, <2>3 DEF FindUser, Typed
    <2>4. CASE Refuse(t) \/ Promote(t) \/ DeleteSchwab(t) \/ DeleteTables(t) \/ LeaveWaitlist(t)
      BY <2>4 DEF Refuse, Promote, DeleteSchwab, DeleteTables, LeaveWaitlist, Typed
    <2>5. CASE SaveUser(t) \/ DeleteRow(t)
      BY <1>0, <2>5 DEF SaveUser, DeleteRow, Typed
    <2> QED BY <1>3, <2>1, <2>2, <2>3, <2>4, <2>5 DEF Step
  <1>4. ASSUME NEW u \in Users,
               CacheExpires(u) \/ TokenExpires(u) \/ RefreshToken(u)
                  \/ \E table \in TableNames : WriteRow(u, table)
        PROVE  users' \subseteq Users /\ cached' \subseteq Users /\ tokens' \subseteq Users
               /\ gone' \subseteq Users /\ late' \subseteq Users /\ crowded' \in BOOLEAN
    BY <1>4 DEF CacheExpires, TokenExpires, RefreshToken, WriteRow, Typed
  <1>5. UNCHANGED vars => UNCHANGED accountVars
    BY DEF vars
  <1>6. ASSUME NEW t \in Threads, NEW u \in Users, SignIn(t, u) \/ DeleteAccount(t, u) \/ ChatBegins(t, u)
        PROVE  UNCHANGED accountVars
    BY <1>6 DEF SignIn, DeleteAccount, ChatBegins
  <1>7. users' \subseteq Users /\ cached' \subseteq Users /\ tokens' \subseteq Users
           /\ gone' \subseteq Users /\ late' \subseteq Users /\ crowded' \in BOOLEAN
    BY <1>2, <1>3, <1>4, <1>5, <1>6 DEF Next
  <1> QED BY <1>1, <1>7 DEF Typed

(* Only a request that arrives, or one on its way, is resolving a session. *)
LEMMA ResolvesOn ==
    ASSUME Shape, NEW t \in Threads, Step(t) \/ CutShort(t), req'[t].at \in Resolving
    PROVE  req[t].at \in Resolving /\ made' = made
  <1>0. req \in [Threads -> Requests] /\ req[t] \in Requests
    BY DEF Shape
  <1>1. CASE End(t)
    BY <1>1, GoesIdle DEF Resolving
  <1>2. ASSUME NEW l, Goto(t, l), l \notin Resolving PROVE FALSE
    BY <1>2, GoesTo
  <1>3. CASE FindGiven(t) \/ FindLatest(t)
    BY <1>3 DEF FindGiven, FindLatest, Resolving
  <1>4. CASE PeekGiven(t) \/ ReadHistory(t) \/ CreateSession(t)
    BY <1>0, <1>4 DEF PeekGiven, ReadHistory, CreateSession, Requests, Resolving
  <1>5. CASE SaveQuestion(t) \/ StreamAnswer(t) \/ SaveAnswer(t)
    BY <1>1, <1>2, <1>5 DEF SaveQuestion, StreamAnswer, SaveAnswer, Resolving
  <1>6. CASE FindUser(t) \/ CountUsers(t) \/ Refuse(t) \/ Promote(t) \/ SaveUser(t)
             \/ DeleteSchwab(t) \/ LeaveWaitlist(t) \/ DeleteRow(t) \/ CutShort(t)
    BY <1>1, <1>2, <1>6 DEF FindUser, CountUsers, Refuse, Promote, SaveUser, DeleteSchwab,
       LeaveWaitlist, DeleteRow, CutShort, Resolving
  <1>7. CASE DeleteTables(t)
    <2>1. ASSUME NEW i, req' = [req EXCEPT ![t].work = @ \cup {i}] PROVE req'[t].at = req[t].at
      BY <1>0, <2>1 DEF Requests
    <2> QED BY <1>2, <1>7, <2>1 DEF DeleteTables, Resolving
  <1>8. CASE ListSessions(t) \/ WipeMessages(t) \/ EraseSession(t)
    <2>1. CASE \E left, listing : Continue(t, left, listing)
      <3>1. req'[t] = Idle \/ req'[t].at \in {"wipe", "list", "tables"}
        BY <2>1, GoesOn
      <3> QED BY <3>1 DEF Resolving, Idle
    <2> QED BY <1>1, <1>2, <1>8, <2>1 DEF ListSessions, WipeMessages, EraseSession, Resolving
  <1> QED BY <1>3, <1>4, <1>5, <1>6, <1>7, <1>8 DEF Step, ChatContinues, ChatStep

LEMMA CountedKeeps == Shape /\ Counted /\ [Next]_vars => Counted'
  <1> SUFFICES ASSUME Shape, Counted, [Next]_vars PROVE Counted'
    OBVIOUS
  <1>0. made \in Nat /\ served \in Nat /\ IsFiniteSet(Pending) /\ Cardinality(Pending) \in Nat
    BY FS_CardinalityType DEF Shape, Counted
  <1>1. ASSUME Pending' \subseteq Pending, made' = made, served' = served \/ served' = served + 1,
               served' <= MaxRequests
        PROVE  Counted'
    <2>1. IsFiniteSet(Pending') /\ Cardinality(Pending') <= Cardinality(Pending)
      BY <1>0, <1>1, FS_Subset
    <2>2. Cardinality(Pending') \in Nat
      BY <2>1, FS_CardinalityType
    <2> QED BY <1>0, <1>1, <2>1, <2>2 DEF Counted
  <1>2. ASSUME NEW t \in Threads, Step(t) \/ CutShort(t) PROVE Counted'
    <2>1. /\ t \in Running /\ served' = served
          /\ \A v \in Threads \ {t} : req'[v] = req[v]
      <3>1. ChatStep(t) \/ CutShort(t) => served' = served
        BY DEF ChatStep, FindGiven, PeekGiven, FindLatest, CreateSession, ReadHistory, SaveQuestion,
           StreamAnswer, SaveAnswer, ListSessions, WipeMessages, EraseSession, CutShort
      <3>2. Step(t) => served' = served
        BY <3>1 DEF Step, FindUser, CountUsers, Refuse, Promote, SaveUser, DeleteSchwab,
           DeleteTables, LeaveWaitlist, DeleteRow, ChatContinues
      <3> QED BY <1>2, <3>1, <3>2, StepsAlone DEF Alone
    <2>2. \A v \in Pending' : v \in Pending
      BY <1>2, <2>1, ResolvesOn DEF Pending
    <2>3. CASE made' = made
      BY <1>0, <1>1, <2>1, <2>2, <2>3 DEF Counted
    <2>4. CASE made' # made
      <3>1. made' = made + 1 /\ req[t].at = "create"
        <4>1. CreateSession(t)
          <5>1. ChatStep(t) => CreateSession(t)
            BY <2>4 DEF ChatStep, FindGiven, PeekGiven, FindLatest, ReadHistory, SaveQuestion,
               StreamAnswer, SaveAnswer, ListSessions, WipeMessages, EraseSession
          <5> QED BY <1>2, <2>4, <5>1 DEF Step, FindUser, CountUsers, Refuse, Promote, SaveUser,
                 DeleteSchwab, DeleteTables, LeaveWaitlist, DeleteRow, ChatContinues, chatData, CutShort
        <4> QED BY <4>1 DEF CreateSession
      <3>2. t \in Pending /\ t \notin Pending'
        BY <1>2, <2>4, <3>1, ResolvesOn DEF Pending, Resolving
      <3>3. Pending' \subseteq Pending \ {t}
        BY <2>2, <3>2
      <3>4. IsFiniteSet(Pending \ {t}) /\ Cardinality(Pending \ {t}) = Cardinality(Pending) - 1
        BY <1>0, <3>2, FS_RemoveElement
      <3>5. IsFiniteSet(Pending') /\ Cardinality(Pending') <= Cardinality(Pending \ {t})
        BY <3>3, <3>4, FS_Subset
      <3>6. Cardinality(Pending') \in Nat
        BY <3>5, FS_CardinalityType
      <3> QED BY <1>0, <2>1, <3>1, <3>4, <3>5, <3>6 DEF Counted
    <2> QED BY <2>3, <2>4
  <1>3. ASSUME NEW t \in Threads, NEW r, Arrives(t, r), UNCHANGED chatData PROVE Counted'
    <2>1. /\ served < MaxRequests /\ served' = served + 1 /\ made' = made
          /\ t \notin Running
      BY <1>3, ArrivesAmong DEF chatData
    <2>2. \A v \in Pending' : v \in Pending \cup {t}
      <3>1. \A v \in Threads \ {t} : Remains(v)
        BY <1>3, ArrivesAmong, MeetsRemains
      <3> QED BY <3>1 DEF Pending, Remains
    <2>3. t \notin Pending
      BY <2>1 DEF Pending, Resolving, Running
    <2>4. IsFiniteSet(Pending \cup {t}) /\ Cardinality(Pending \cup {t}) = Cardinality(Pending) + 1
      BY <1>0, <2>3, FS_AddElement
    <2>5. IsFiniteSet(Pending') /\ Cardinality(Pending') <= Cardinality(Pending \cup {t})
      BY <2>2, <2>4, FS_Subset
    <2>6. Cardinality(Pending') \in Nat
      BY <2>5, FS_CardinalityType
    <2> QED BY <1>0, <2>1, <2>4, <2>5, <2>6, ChatBounds DEF Counted
  <1>4. ASSUME NEW u \in Users, NEW table \in TableNames, WriteRow(u, table) PROVE Counted'
    <2>1. \A v \in Threads : Remains(v)
      BY <1>4, WritesAmong, MeetsRemains
    <2>2. Pending' \subseteq Pending
      BY <2>1 DEF Pending, Remains
    <2> QED BY <1>0, <1>1, <1>4, <2>2, ChatBounds DEF WriteRow, chatData
  <1>5. CASE Elsewhere
    BY <1>5 DEF Elsewhere, chatVars, Counted, Pending
  <1> QED BY <1>2, <1>3, <1>4, <1>5, NextIs

(* The session of a request is one that was made, or none.                 *)
LEMMA SessionMoves ==
    ASSUME Shape, IdsInOrder, Numbered, NEW t \in Threads, Step(t) \/ CutShort(t)
    PROVE  req'[t].session \in Nat /\ req'[t].session <= made'
  <1>0. /\ req \in [Threads -> Requests] /\ req[t] \in Requests /\ made \in Nat
        /\ req[t].session \in Nat /\ req[t].session <= made
    BY DEF Shape, Requests, Numbered
  <1>1. ASSUME End(t), made' = made PROVE req'[t].session \in Nat /\ req'[t].session <= made'
    BY <1>0, <1>1, IdleSession DEF End
  <1>2. ASSUME NEW l, Goto(t, l), made' = made PROVE req'[t].session \in Nat /\ req'[t].session <= made'
    BY <1>0, <1>2, GoesTo
  <1>3. CASE FindGiven(t)
    <2>1. CASE req' = [req EXCEPT ![t].at = "latest", ![t].session = NoSession]
      <3>1. req'[t].session = 0
        BY <1>0, <2>1 DEF Requests, NoSession
      <3> QED BY <1>0, <1>3, <3>1 DEF FindGiven
    <2> QED BY <1>2, <1>3, <2>1 DEF FindGiven
  <1>4. CASE PeekGiven(t)
    <2>1. PICK b : req' = [req EXCEPT ![t].at = "history", ![t].first = b]
      BY <1>4 DEF PeekGiven
    <2>2. req'[t].session = req[t].session
      BY <1>0, <2>1 DEF Requests
    <2> QED BY <1>0, <1>4, <2>2 DEF PeekGiven
  <1>5. CASE ReadHistory(t)
    <2>1. PICK b : req' = [req EXCEPT ![t].at = "question", ![t].blank = b]
      BY <1>5 DEF ReadHistory
    <2>2. req'[t].session = req[t].session
      BY <1>0, <2>1 DEF Requests
    <2> QED BY <1>0, <1>5, <2>2 DEF ReadHistory
  <1>6. CASE CreateSession(t)
    <2>1. req'[t].session = made + 1 /\ made' = made + 1
      BY <1>0, <1>6 DEF CreateSession, Requests
    <2> QED BY <1>0, <2>1
  <1>7. CASE FindLatest(t)
    <2> DEFINE own == {x \in sessions : x.user = req[t].user /\ x.kind = req[t].kind}
    <2>1. CASE Goto(t, "create")
      BY <1>2, <1>7, <2>1 DEF FindLatest
    <2>2. CASE own # {} /\ req' = [req EXCEPT ![t].at = "history", ![t].session = Last(Ids(own)),
                                              ![t].first = FALSE]
      <3>1. Ids(own) \in SUBSET (0 .. made)
        BY IdsBounded
      <3> HIDE DEF own
      <3>2. Ids(own) # {}
        BY <2>2 DEF Ids
      <3>3. Last(Ids(own)) \in 0 .. made
        BY <1>0, <3>1, <3>2, LastIsIn
      <3>4. req'[t].session = Last(Ids(own))
        BY <1>0, <2>2 DEF Requests
      <3>5. made' = made
        BY <1>7 DEF FindLatest
      <3> QED BY <1>0, <3>3, <3>4, <3>5
    <2> QED BY <1>7, <2>1, <2>2 DEF FindLatest
  <1>8. CASE SaveQuestion(t) \/ StreamAnswer(t) \/ SaveAnswer(t)
    BY <1>1, <1>2, <1>8 DEF SaveQuestion, StreamAnswer, SaveAnswer
  <1>9. CASE FindUser(t) \/ CountUsers(t) \/ Refuse(t) \/ Promote(t) \/ SaveUser(t)
             \/ DeleteSchwab(t) \/ LeaveWaitlist(t) \/ DeleteRow(t) \/ CutShort(t)
    <2>1. made' = made
      BY <1>9 DEF FindUser, CountUsers, Refuse, Promote, SaveUser, DeleteSchwab,
         LeaveWaitlist, DeleteRow, CutShort, chatData
    <2> QED BY <1>1, <1>2, <1>9, <2>1 DEF FindUser, CountUsers, Refuse, Promote, SaveUser, DeleteSchwab,
       LeaveWaitlist, DeleteRow, CutShort
  <1>10. CASE DeleteTables(t)
    <2>1. ASSUME NEW i, req' = [req EXCEPT ![t].work = @ \cup {i}] PROVE req'[t].session = req[t].session
      BY <1>0, <2>1 DEF Requests
    <2>2. made' = made
      BY <1>10 DEF DeleteTables, chatData
    <2> QED BY <1>0, <1>2, <1>10, <2>1, <2>2 DEF DeleteTables
  <1>11. CASE ListSessions(t) \/ WipeMessages(t) \/ EraseSession(t)
    <2>1. made' = made
      BY <1>11 DEF ListSessions, WipeMessages, EraseSession
    <2>2. ASSUME NEW left, NEW listing, Continue(t, left, listing)
          PROVE  req'[t].session \in Nat /\ req'[t].session <= made'
      <3>1. ASSUME NEW l, NEW w, req' = [req EXCEPT ![t].at = l, ![t].work = w]
            PROVE  req'[t].session = req[t].session
        BY <1>0, <3>1 DEF Requests
      <3>2. End(t) \/ \E l, w : req' = [req EXCEPT ![t].at = l, ![t].work = w]
        BY <2>2 DEF Continue, End
      <3> QED BY <1>0, <1>1, <2>1, <3>1, <3>2
    <2> QED BY <1>1, <1>2, <1>11, <2>1, <2>2 DEF ListSessions, WipeMessages, EraseSession
  <1> QED BY <1>3, <1>4, <1>5, <1>6, <1>7, <1>8, <1>9, <1>10, <1>11 DEF Step, ChatContinues, ChatStep

(* What a step writes bears the numbers of its request.                    *)
LEMMA Writes ==
    ASSUME Shape, NEW t \in Threads, Step(t) \/ CutShort(t)
    PROVE  /\ \A m \in messages' : \/ m \in messages
                                   \/ /\ Exists(req[t].session)
                                      /\ m.session = req[t].session /\ m.of = req[t].serial
           /\ \A n \in torn' : n \in torn \/ \E v \in Running : n = req[v].serial
           /\ \A x \in sessions' : x \in sessions \/ (x.id = made + 1 /\ made' = made + 1)
           /\ served' = served
  <1>0. t \in Running
    BY StepsAlone
  <1>1. CASE SaveQuestion(t) \/ SaveAnswer(t)
    BY <1>1 DEF SaveQuestion, SaveAnswer, Save
  <1>2. CASE WipeMessages(t)
    BY <1>2 DEF WipeMessages
  <1>3. CASE EraseSession(t)
    BY <1>3 DEF EraseSession
  <1>4. CASE CreateSession(t)
    BY <1>4 DEF CreateSession
  <1>5. CASE FindGiven(t) \/ PeekGiven(t) \/ FindLatest(t) \/ ReadHistory(t) \/ StreamAnswer(t)
             \/ ListSessions(t)
    BY <1>5 DEF FindGiven, PeekGiven, FindLatest, ReadHistory, StreamAnswer, ListSessions
  <1>6. CASE CutShort(t)
    BY <1>0, <1>6 DEF CutShort
  <1>7. CASE Step(t) /\ ~ChatStep(t)
    <2>1. UNCHANGED chatData /\ served' = served
      BY <1>7 DEF Step, FindUser, CountUsers, Refuse, Promote, SaveUser, DeleteSchwab,
         DeleteTables, LeaveWaitlist, DeleteRow, ChatContinues
    <2> QED BY <2>1 DEF chatData
  <1> QED BY <1>1, <1>2, <1>3, <1>4, <1>5, <1>6, <1>7 DEF ChatStep

LEMMA ListNumbered ==
    ASSUME Shape, Numbered, NEW t \in Threads, Refuse(t) \/ Promote(t) \/ LeaveWaitlist(t),
           NEW u \in Users
    PROVE  /\ waitlist'[u].since <= served
           /\ waitlist'[u].status = "none" <=> waitlist'[u].since = 0
  <1>0. /\ waitlist \in [Users -> [status : {"none", "waiting", "promoted"}, since : Nat]]
        /\ served \in Nat /\ waitlist[u].since <= served
        /\ waitlist[u].status = "none" <=> waitlist[u].since = 0
    BY DEF Shape, Numbered
  <1>1. CASE Refuse(t)
    <2>1. served >= 1
      <3>1. t \in Running /\ req[t] \in Requests
        BY <1>1 DEF Refuse, Running, Shape
      <3>2. req[t].serial \in Nat /\ req[t].serial >= 1 /\ req[t].serial <= served
        BY <3>1 DEF Numbered, Requests
      <3> QED BY <1>0, <3>2
    <2> DEFINE old == waitlist[req[t].user]
               since == IF old = NotListed THEN served ELSE old.since
    <2>2. waitlist' = [waitlist EXCEPT ![req[t].user] = [status |-> "waiting", since |-> since]]
      BY <1>1 DEF Refuse
    <2>3. CASE u = req[t].user
      <3>1. waitlist'[u] = [status |-> "waiting", since |-> since]
        BY <1>0, <2>2, <2>3
      <3>2. old # NotListed => old.since # 0
        <4>1. old = [status |-> old.status, since |-> old.since]
          BY <1>0, <2>3
        <4> QED BY <1>0, <2>3, <4>1 DEF NotListed
      <3>3. since # 0 /\ since <= served
        BY <1>0, <2>1, <2>3, <3>2
      <3> HIDE DEF since
      <3> QED BY <3>1, <3>3
    <2>4. CASE u # req[t].user
      BY <1>0, <2>2, <2>4
    <2> QED BY <2>3, <2>4
  <1>2. CASE Promote(t)
    BY <1>0, <1>2 DEF Promote
  <1>3. CASE LeaveWaitlist(t)
    BY <1>0, <1>3 DEF LeaveWaitlist, NotListed
  <1> QED BY <1>1, <1>2, <1>3

LEMMA NumberedKeeps == Shape /\ IdsInOrder /\ Numbered /\ [Next]_vars => Numbered'
  <1> SUFFICES ASSUME Shape, IdsInOrder, Numbered, [Next]_vars PROVE Numbered'
    OBVIOUS
  <1>0. /\ made \in Nat /\ served \in Nat /\ made' \in Nat /\ made' >= made
        /\ \A v \in Threads : req[v] \in Requests /\ req[v].serial \in Nat /\ req[v].session \in Nat
        /\ waitlist \in [Users -> [status : {"none", "waiting", "promoted"}, since : Nat]]
        /\ sessions \subseteq [id : Nat, user : Users, kind : Kinds]
        /\ messages \subseteq [session : Nat, role : {"user", "assistant"}, of : Nat, author : Users]
    BY NewIds DEF Shape, Requests
  <1>1. ASSUME served' \in Nat, served' >= served, UNCHANGED <<sessions, messages, torn, made, waitlist>>,
               \A v \in Threads : /\ req'[v].session <= made /\ req'[v].serial <= served'
                                  /\ v \in Running' => req'[v].serial >= 1
        PROVE  Numbered'
    <2>1. \A m \in messages : m.of \in Nat
      BY <1>0
    <2>2. \A u \in Users : waitlist[u].since \in Nat
      BY <1>0
    <2>3. \A n \in Nat : n <= served => n <= served'
      BY <1>0, <1>1
    <2>4. 1 .. served \subseteq 1 .. served'
      BY <1>0, <1>1
    <2> QED BY <1>1, <2>1, <2>2, <2>3, <2>4 DEF Numbered
  <1>2. ASSUME NEW v \in Threads, req'[v] = req[v] \/ req'[v] = [req[v] EXCEPT !.met = TRUE]
        PROVE  /\ req'[v].session = req[v].session /\ req'[v].serial = req[v].serial
               /\ v \in Running' => v \in Running
    <2>1. CASE req'[v] = req[v]
      BY <2>1 DEF Running
    <2>2. CASE req'[v] = [req[v] EXCEPT !.met = TRUE]
      BY <1>0, <2>2 DEF Running, Requests
    <2> QED BY <1>2, <2>1, <2>2
  <1>3. ASSUME NEW t \in Threads, Step(t) \/ CutShort(t) PROVE Numbered'
    <2>0. served' = served
      BY <1>3, Writes
    <2>1. \A x \in sessions' : x.id >= 1 /\ x.id <= made'
      <3>1. \A x \in sessions : x.id \in Nat /\ x.id >= 1 /\ x.id <= made
        BY <1>0 DEF Numbered
      <3> QED BY <1>0, <1>3, <3>1, Writes
    <2>2. \A m \in messages' : m.session >= 1 /\ m.session <= made' /\ m.of >= 1 /\ m.of <= served
      <3>1. \A m \in messages : /\ m.session \in Nat /\ m.session >= 1 /\ m.session <= made
                                /\ m.of >= 1 /\ m.of <= served
        BY <1>0 DEF Numbered
      <3>2. Exists(req[t].session) => req[t].session >= 1 /\ req[t].session <= made
        BY DEF Exists, Numbered
      <3>3. req[t].serial >= 1 /\ req[t].serial <= served
        BY <1>3, StepsAlone DEF Numbered
      <3> QED BY <1>0, <1>3, <3>1, <3>2, <3>3, Writes
    <2>3. torn' \subseteq 1 .. served
      <3>1. \A v \in Running : req[v].serial \in 1 .. served
        BY <1>0 DEF Numbered, Running
      <3> QED BY <1>3, <3>1, Writes DEF Numbered
    <2>4. ASSUME NEW v \in Threads
          PROVE  /\ req'[v].session <= made' /\ req'[v].serial <= served
                 /\ v \in Running' => req'[v].serial >= 1
      <3>1. CASE v = t
        <4>1. req'[t].session <= made'
          BY <1>3, SessionMoves
        <4>2. req'[t] = Idle \/ req'[t].serial = req[t].serial
          BY <1>3, StepsAlone DEF Alone, Same
        <4>3. Idle.at = "idle" /\ Idle.serial = 0
          BY DEF Idle
        <4>4. t \in Running /\ req[t].serial >= 1 /\ req[t].serial <= served
          BY <1>3, StepsAlone DEF Numbered
        <4> QED BY <1>0, <3>1, <4>1, <4>2, <4>3, <4>4 DEF Running
      <3>2. CASE v # t
        <4>1. req'[v] = req[v]
          BY <1>3, <3>2, StepsAlone DEF Alone
        <4> QED BY <1>0, <4>1 DEF Numbered, Running
      <3> QED BY <3>1, <3>2
    <2>5. \A u \in Users : /\ waitlist'[u].since <= served
                           /\ waitlist'[u].status = "none" <=> waitlist'[u].since = 0
      BY ListChanges, ListNumbered DEF Numbered
    <2> QED BY <2>0, <2>1, <2>2, <2>3, <2>4, <2>5 DEF Numbered
  <1>4. ASSUME NEW t \in Threads, NEW r, Arrives(t, r), UNCHANGED chatData, UNCHANGED accountVars
        PROVE  Numbered'
    <2>1. served' = served + 1 /\ UNCHANGED <<sessions, messages, torn, made, waitlist>>
      BY <1>4, ArrivesAmong DEF chatData, accountVars
    <2>2. req'[t].serial = served + 1 /\ req'[t].session <= made
      BY <1>0, <1>4, ArrivesAmong DEF Arrives
    <2>3. ASSUME NEW v \in Threads, v # t
          PROVE  /\ req'[v].session <= made /\ req'[v].serial <= served + 1
                 /\ v \in Running' => req'[v].serial >= 1
      <3>1. req'[v] = req[v] \/ req'[v] = [req[v] EXCEPT !.met = TRUE]
        BY <1>4, <2>3, ArrivesAmong
      <3>2. /\ req'[v].session = req[v].session /\ req'[v].serial = req[v].serial
            /\ v \in Running' => v \in Running
        BY <1>2, <3>1
      <3> QED BY <1>0, <3>2 DEF Numbered
    <2> QED BY <1>0, <1>1, <2>1, <2>2, <2>3
  <1>5. ASSUME NEW u \in Users, NEW table \in TableNames, WriteRow(u, table) PROVE Numbered'
    <2>1. served' = served + 1 /\ UNCHANGED <<sessions, messages, torn, made, waitlist>>
      BY <1>5 DEF WriteRow, chatData
    <2>2. ASSUME NEW v \in Threads
          PROVE  /\ req'[v].session <= made /\ req'[v].serial <= served + 1
                 /\ v \in Running' => req'[v].serial >= 1
      <3>1. /\ req'[v].session = req[v].session /\ req'[v].serial = req[v].serial
            /\ v \in Running' => v \in Running
        BY <1>2, <1>5, WritesAmong
      <3> QED BY <1>0, <3>1 DEF Numbered
    <2> QED BY <1>0, <1>1, <2>1, <2>2
  <1>6. CASE Elsewhere
    BY <1>6 DEF Elsewhere, chatVars, Numbered, Running
  <1> QED BY <1>3, <1>4, <1>5, <1>6, NextIs

(* The state has its types within the bounds: a session is made, and a     *)
(* serial given, for a request that was served (get_or_create_session).    *)
THEOREM TypesHold == FairSpec => []TypeOK
  <1>1. Init => Shape /\ IdsInOrder /\ Counted /\ Numbered /\ Typed
    <2> SUFFICES ASSUME Init PROVE Counted /\ Numbered /\ Typed
      BY InitShape
    <2>1. Pending = {}
      BY DEF Init, ChatInit, Pending, Idle, Resolving
    <2>2. Counted
      BY <2>1, FS_EmptySet, ChatBounds DEF Init, ChatInit, Counted
    <2>3. Idle.session = 0 /\ Idle.serial = 0 /\ Idle.at = "idle"
      BY DEF Idle, NoSession
    <2>4. Numbered
      BY <2>3 DEF Init, ChatInit, AccountInit, Numbered, Running, NotListed
    <2>5. Typed
      <3>1. 0 \in 0 .. MaxFaults
        BY ChatBounds
      <3> QED BY <3>1 DEF Init, ChatInit, AccountInit, Typed
    <2> QED BY <2>2, <2>4, <2>5
  <1>2. Shape /\ Counted /\ Numbered /\ Typed => TypeOK
    <2> SUFFICES ASSUME Shape, Counted, Numbered, Typed PROVE TypeOK
      OBVIOUS
    <2>0. /\ made \in Nat /\ served \in Nat /\ served <= MaxRequests /\ made <= MaxRequests
          /\ MaxRequests \in Nat
      <3>1. Cardinality(Pending) \in Nat
        BY FS_CardinalityType DEF Counted
      <3> QED BY <3>1, ChatBounds DEF Shape, Counted
    <2>1. sessions \subseteq [id : SessionIds, user : Users, kind : Kinds]
      <3> SUFFICES ASSUME NEW x \in sessions PROVE x \in [id : SessionIds, user : Users, kind : Kinds]
        OBVIOUS
      <3>1. x \in [id : Nat, user : Users, kind : Kinds]
        BY DEF Shape
      <3>2. x.id \in SessionIds
        BY <2>0, <3>1 DEF Numbered, SessionIds
      <3> QED BY <3>1, <3>2
    <2>2. messages \subseteq [session : SessionIds, role : {"user", "assistant"}, of : Asks, author : Users]
      <3> SUFFICES ASSUME NEW m \in messages
                   PROVE  m \in [session : SessionIds, role : {"user", "assistant"}, of : Asks,
                                 author : Users]
        OBVIOUS
      <3>1. m \in [session : Nat, role : {"user", "assistant"}, of : Nat, author : Users]
        BY DEF Shape
      <3>2. m.session \in SessionIds /\ m.of \in Asks
        BY <2>0, <3>1 DEF Numbered, SessionIds, Asks
      <3> QED BY <3>1, <3>2
    <2>3. req \in [Threads -> [at : Places, op : Ops, user : Users, kind : Kinds,
                            session : 0 .. MaxRequests, first : BOOLEAN, blank : BOOLEAN,
                            serial : 0 .. MaxRequests, work : SUBSET Nat, met : BOOLEAN]]
      <3> DEFINE Within == [at : Places, op : Ops, user : Users, kind : Kinds,
                            session : 0 .. MaxRequests, first : BOOLEAN, blank : BOOLEAN,
                            serial : 0 .. MaxRequests, work : SUBSET Nat, met : BOOLEAN]
      <3>1. ASSUME NEW r \in Requests, r.session \in 0 .. MaxRequests, r.serial \in 0 .. MaxRequests
            PROVE  r \in Within
        BY <3>1 DEF Requests
      <3>2. \A t \in Threads : /\ req[t] \in Requests
                               /\ req[t].session \in 0 .. MaxRequests
                               /\ req[t].serial \in 0 .. MaxRequests
        BY <2>0 DEF Shape, Requests, Numbered
      <3>3. \A t \in Threads : req[t] \in Within
        BY <3>1, <3>2
      <3> HIDE DEF Within
      <3>4. req \in [Threads -> Within]
        BY <3>3 DEF Shape
      <3> QED BY <3>4 DEF Within
    <2>4. torn \subseteq Asks
      BY <2>0 DEF Numbered, Asks
    <2>5. waitlist \in [Users -> [status : {"none", "waiting", "promoted"}, since : 0 .. MaxRequests]]
      <3>1. \A u \in Users : waitlist[u] \in [status : {"none", "waiting", "promoted"},
                                              since : 0 .. MaxRequests]
        BY <2>0 DEF Shape, Numbered
      <3> QED BY <3>1 DEF Shape
    <2> QED BY <2>0, <2>1, <2>2, <2>3, <2>4, <2>5 DEF TypeOK, Shape, Numbered, Typed
  <1>3. Shape /\ IdsInOrder /\ [Next]_vars => Shape' /\ IdsInOrder'
    BY ShapeKeeps
  <1> QED BY <1>1, <1>2, <1>3, CountedKeeps, NumberedKeeps, TypedKeeps, PTL DEF FairSpec, Spec
=============================================================================
