---------------------------- MODULE ChatSessions ----------------------------
(***************************************************************************)
(* The chats of the users: an ask (a research chat and its siblings)       *)
(* resolves the session it belongs to, reads the history, saves the        *)
(* question, streams the model's answer and saves it; other requests       *)
(* delete one session, or every session of a kind.  Every store call is a  *)
(* transaction of its own; a message of a session that is gone, and the    *)
(* deletion of a session that has messages, are refused by the foreign key *)
(* of CHAT_MESSAGES.  A request is served by one thread; any step of it    *)
(* may be its last (a failed statement, a crash, a client that leaves).    *)
(*                                                                         *)
(* A title is its prefix, here the kind of the session.  Ids are handed    *)
(* out in the order of creation, which is the order of updated_at: nothing *)
(* updates a session.                                                      *)
(***************************************************************************)
EXTENDS Integers, FiniteSets

CONSTANTS
    Users,
    Kinds,          \* title prefixes: a symbol's research, a portfolio...
    Threads,        \* what serves the requests
    PageSize,       \* sessions listed at a time (100)
    MaxRequests,    \* bound: requests ever served
    MaxFaults       \* bound: requests cut short

ASSUME ChatBounds ==
    /\ MaxRequests \in Nat /\ MaxFaults \in Nat /\ PageSize \in Nat \ {0}
    /\ Users # {} /\ Kinds # {}

VARIABLES
    sessions,   \* CHAT_SESSIONS: set of [id, user, kind]
    messages,   \* CHAT_MESSAGES: set of [session, role, of, author]
    made,       \* sessions ever created
    req,        \* thread -> the request it serves
    served, faults,     \* what the bounds count
    torn        \* history variable: asks whose session was wiped under them, or cut short

chatVars == <<sessions, messages, made, req, served, faults, torn>>

SessionIds == 1 .. MaxRequests
NoSession == 0
Asks == 1 .. MaxRequests
Idle == [at |-> "idle", op |-> "none", user |-> CHOOSE u \in Users : TRUE,
         kind |-> CHOOSE k \in Kinds : TRUE, session |-> NoSession, first |-> TRUE, blank |-> TRUE,
         serial |-> 0, work |-> {}, met |-> FALSE]

Running == {t \in Threads : req[t].at # "idle"}
Exists(s) == \E x \in sessions : x.id = s
OwnedBy(s, u) == \E x \in sessions : x.id = s /\ x.user = u
Ids(S) == {x.id : x \in S}
Last(S) == CHOOSE s \in S : \A r \in S : r <= s
MessagesOf(s) == {m \in messages : m.session = s}
(* The page of the newest sessions a listing returns.                      *)
Page(S) == {s \in S : Cardinality({r \in S : r > s}) < PageSize}

Goto(t, l) == req' = [req EXCEPT ![t].at = l]
End(t) == req' = [req EXCEPT ![t] = Idle]

(* A request starts; it and the user's other requests have met.            *)
Begin(t, r) ==
    LET others == {v \in Running : req[v].user = r.user}
    IN  /\ req[t].at = "idle"
        /\ served < MaxRequests
        /\ served' = served + 1
        /\ req' = [v \in Threads |->
                     IF v = t THEN [r EXCEPT !.met = (others # {}), !.serial = served + 1]
                     ELSE IF v \in others THEN [req[v] EXCEPT !.met = TRUE]
                     ELSE req[v]]

ChatInit ==
    /\ sessions = {}
    /\ messages = {}
    /\ made = 0
    /\ req = [t \in Threads |-> Idle]
    /\ served = 0
    /\ faults = 0
    /\ torn = {}

-----------------------------------------------------------------------------
(* A client asks in a new chat, in the session it names, which may not be  *)
(* its own or may be gone, or in the latest one.                           *)
Ask(t, u, k, fresh, given) ==
    /\ Begin(t, [Idle EXCEPT !.op = "ask", !.user = u, !.kind = k, !.session = given,
                             !.at = IF fresh THEN "create"
                                    ELSE IF given # NoSession THEN "given" ELSE "latest"])
    /\ UNCHANGED <<sessions, messages, made, faults, torn>>

(* Mutant of FindGiven: whose session it is is not looked at.              *)
FindGiven_Anyone(t) ==
    /\ req[t].at = "given"
    /\ IF \E x \in sessions : x.id = req[t].session /\ x.kind = req[t].kind
       THEN Goto(t, "peek")
       ELSE req' = [req EXCEPT ![t].at = "latest", ![t].session = NoSession]
    /\ UNCHANGED <<sessions, messages, made, served, faults, torn>>

(* The named session counts if it is the user's and of this kind.          *)
FindGiven(t) ==
    /\ req[t].at = "given"
    /\ IF [id |-> req[t].session, user |-> req[t].user, kind |-> req[t].kind] \in sessions
       THEN Goto(t, "peek")
       ELSE req' = [req EXCEPT ![t].at = "latest", ![t].session = NoSession]
    /\ UNCHANGED <<sessions, messages, made, served, faults, torn>>

(* It is a first chat while it has no message.                             *)
PeekGiven(t) ==
    /\ req[t].at = "peek"
    /\ req' = [req EXCEPT ![t].at = "history", ![t].first = (MessagesOf(req[t].session) = {})]
    /\ UNCHANGED <<sessions, messages, made, served, faults, torn>>

(* The latest session of the kind is never taken for a first chat.         *)
FindLatest(t) ==
    LET own == {x \in sessions : x.user = req[t].user /\ x.kind = req[t].kind}
    IN  /\ req[t].at = "latest"
        /\ IF own = {} THEN Goto(t, "create")
           ELSE req' = [req EXCEPT ![t].at = "history", ![t].session = Last(Ids(own)),
                                   ![t].first = FALSE]
        /\ UNCHANGED <<sessions, messages, made, served, faults, torn>>

(* Mutant of CreateSession: a session that was just made is none of a      *)
(* first chat.                                                             *)
CreateSession_NotFirst(t) ==
    /\ req[t].at = "create"
    /\ made' = made + 1
    /\ sessions' = sessions \cup {[id |-> made + 1, user |-> req[t].user, kind |-> req[t].kind]}
    /\ req' = [req EXCEPT ![t].at = "history", ![t].session = made + 1, ![t].first = FALSE]
    /\ UNCHANGED <<messages, served, faults, torn>>

CreateSession(t) ==
    /\ req[t].at = "create"
    /\ made' = made + 1
    /\ sessions' = sessions \cup {[id |-> made + 1, user |-> req[t].user, kind |-> req[t].kind]}
    /\ req' = [req EXCEPT ![t].at = "history", ![t].session = made + 1, ![t].first = TRUE]
    /\ UNCHANGED <<messages, served, faults, torn>>

ReadHistory(t) ==
    /\ req[t].at = "history"
    /\ req' = [req EXCEPT ![t].at = "question", ![t].blank = (MessagesOf(req[t].session) = {})]
    /\ UNCHANGED <<sessions, messages, made, served, faults, torn>>

(* A message is refused when its session is gone.                          *)
Save(t, role) ==
    messages' = IF Exists(req[t].session)
                THEN messages \cup {[session |-> req[t].session, role |-> role,
                                     of |-> req[t].serial, author |-> req[t].user]}
                ELSE messages

(* Mutant of SaveQuestion: what the database refuses is not looked at.     *)
SaveQuestion_Unheard(t) ==
    /\ req[t].at = "question"
    /\ Save(t, "user") \/ UNCHANGED messages
    /\ Goto(t, "stream")
    /\ UNCHANGED <<sessions, made, served, faults, torn>>

SaveQuestion(t) ==
    /\ req[t].at = "question"
    /\ Save(t, "user")
    /\ IF Exists(req[t].session) THEN Goto(t, "stream") ELSE End(t)
    /\ UNCHANGED <<sessions, made, served, faults, torn>>

(* The model answers with some text or with none.                          *)
StreamAnswer(t) ==
    /\ req[t].at = "stream"
    /\ Goto(t, "answer") \/ End(t)
    /\ UNCHANGED <<sessions, messages, made, served, faults, torn>>

SaveAnswer(t) ==
    /\ req[t].at = "answer"
    /\ Save(t, "assistant")
    /\ End(t)
    /\ UNCHANGED <<sessions, made, served, faults, torn>>

-----------------------------------------------------------------------------
(* DELETE of one session, looked up for its owner.                         *)
DropSession(t, u, s) ==
    /\ OwnedBy(s, u)
    /\ Begin(t, [Idle EXCEPT !.op = "drop", !.user = u, !.at = "wipe", !.work = {s}])
    /\ UNCHANGED <<sessions, messages, made, faults, torn>>

ClearSessions(t, u, k) ==
    /\ Begin(t, [Idle EXCEPT !.op = "clear", !.user = u, !.kind = k, !.at = "list"])
    /\ UNCHANGED <<sessions, messages, made, faults, torn>>

(* Mutant of Continue: the deletion of an account lists once.              *)
Continue_Once(t, left, listing) ==
    req' = IF left # {} THEN [req EXCEPT ![t].at = "wipe", ![t].work = left]
           ELSE IF req[t].op # "purge" THEN [req EXCEPT ![t] = Idle]
           ELSE [req EXCEPT ![t].at = "tables", ![t].work = {}]

(* Where a request goes that has these sessions left to delete: a clear is *)
(* over after one listing, the deletion of an account lists again until    *)
(* there is none.                                                          *)
Continue(t, left, listing) ==
    req' = IF left # {} THEN [req EXCEPT ![t].at = "wipe", ![t].work = left]
           ELSE IF req[t].op # "purge" THEN [req EXCEPT ![t] = Idle]
           ELSE [req EXCEPT ![t].at = IF listing THEN "tables" ELSE "list", ![t].work = {}]

ListSessions(t) ==
    LET own == {x \in sessions : /\ x.user = req[t].user
                                 /\ req[t].op = "purge" \/ x.kind = req[t].kind}
    IN  /\ req[t].at = "list"
        /\ Continue(t, Page(Ids(own)), TRUE)
        /\ UNCHANGED <<sessions, messages, made, served, faults, torn>>

(* The messages of the next session, the newest first.                     *)
WipeMessages(t) ==
    LET s == Last(req[t].work)
        under == {v \in Running : req[v].op = "ask" /\ req[v].session = s}
    IN  /\ req[t].at = "wipe"
        /\ messages' = messages \ MessagesOf(s)
        /\ torn' = torn \cup {req[v].serial : v \in under}
        /\ Goto(t, "erase")
        /\ UNCHANGED <<sessions, made, served, faults>>

(* Mutant of EraseSession: the deletion is not committed.                  *)
EraseSession_Uncommitted(t) ==
    LET s == Last(req[t].work)
    IN  /\ req[t].at = "erase"
        /\ Continue(t, req[t].work \ {s}, FALSE)
        /\ UNCHANGED <<sessions, messages, made, served, faults, torn>>

(* The foreign key refuses to delete a session that has got a message, and *)
(* the request fails; a session that is gone already is no error.          *)
EraseSession(t) ==
    LET s == Last(req[t].work)
    IN  /\ req[t].at = "erase"
        /\ IF MessagesOf(s) = {}
           THEN /\ sessions' = {x \in sessions : x.id # s}
                /\ Continue(t, req[t].work \ {s}, FALSE)
           ELSE UNCHANGED sessions /\ End(t)
        /\ UNCHANGED <<messages, made, served, faults, torn>>

(* A request ends anywhere: its statement failed, its client left, its     *)
(* process stopped.                                                        *)
CutShort(t) ==
    /\ req[t].at # "idle"
    /\ faults < MaxFaults
    /\ faults' = faults + 1
    /\ torn' = torn \cup {req[t].serial}
    /\ End(t)
    /\ UNCHANGED <<sessions, messages, made, served>>

ChatStep(t) ==
    \/ FindGiven(t) \/ PeekGiven(t) \/ FindLatest(t) \/ CreateSession(t) \/ ReadHistory(t)
    \/ SaveQuestion(t) \/ StreamAnswer(t) \/ SaveAnswer(t)
    \/ ListSessions(t) \/ WipeMessages(t) \/ EraseSession(t)

ChatRequest(t, u) ==
    \/ \E k \in Kinds, fresh \in BOOLEAN, given \in 0 .. made :
          (fresh => given = NoSession) /\ Ask(t, u, k, fresh, given)
    \/ \E s \in 1 .. made : DropSession(t, u, s)
    \/ \E k \in Kinds : ClearSessions(t, u, k)

-----------------------------------------------------------------------------
(* Every message belongs to the user who owns its session.                 *)
MessagesAreOwn == \A m \in messages : OwnedBy(m.session, m.author)

(* An answer stands beside its question, unless its session was wiped      *)
(* between the two: then it is the orphan that the foreign key keeps from  *)
(* being deleted with the session.                                         *)
AnswersHaveQuestions ==
    \A m \in messages :
       m.role = "assistant" => \/ [m EXCEPT !.role = "user"] \in messages
                               \/ m.of \in torn

(* A question is asked without the context of its symbol only if there is  *)
(* a history that has it, unless requests of the user met or were cut      *)
(* short: the latest session is taken for a chat that has begun whatever   *)
(* it holds.                                                               *)
ContextWhenAlone ==
    \A t \in Threads :
       /\ req[t].op = "ask" /\ req[t].at \in {"stream", "answer"}
       /\ ~req[t].first /\ req[t].blank
       => req[t].met \/ torn # {}

(* What is saved is of one chat of one user, question before answer        *)
(* (ChatMessagesAdapter.create on both sides of the stream).               *)
ChatsAreWhole == MessagesAreOwn /\ AnswersHaveQuestions
=============================================================================
