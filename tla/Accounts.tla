------------------------------ MODULE Accounts ------------------------------
(***************************************************************************)
(* The accounts of a service that has room for Capacity users: signing in  *)
(* with Google, the waiting list, the access tokens and the deletion of an *)
(* account, beside the chats (ChatSessions) and whatever else writes rows  *)
(* of a user.  A token names a user and is not checked against APP_USER;   *)
(* the deletion goes through the stores of the user one transaction at a   *)
(* time, ends with the row of APP_USER, and leaves the cached user alone.  *)
(***************************************************************************)
EXTENDS ChatSessions, Sequences

CONSTANTS
    Tables,         \* the other stores, in the order of their deletion: Schwab first
    Capacity        \* max_active_users

ASSUME AccountBounds ==
    Capacity \in Nat /\ Tables \in Seq(STRING) /\ Len(Tables) > 0

VARIABLES
    users,      \* APP_USER: the users with a row
    cached,     \* AppUserCache: the users Redis still holds
    waitlist,   \* WAITLIST_ENTRY: user -> [status, since], since the time of created_at
    rows,       \* user -> the other stores that hold rows of the user
    tokens,     \* the users who hold an access token that has not expired
    crowded,    \* history variable: two sign-ups were past the count at once
    gone,       \* history variable: users whose row has been deleted
    late        \* history variable: users written to while or after they were deleted

accountVars == <<users, cached, waitlist, rows, tokens, crowded, gone, late>>
vars == <<chatVars, accountVars>>

TableNames == {Tables[i] : i \in 1 .. Len(Tables)}
NotListed == [status |-> "none", since |-> 0]
Deleting(u) == \E t \in Running : req[t].op = "purge" /\ req[t].user = u
SignUps == {t \in Running : req[t].at \in {"promote", "save"}}

AccountInit ==
    /\ users = {}
    /\ cached = {}
    /\ waitlist = [u \in Users |-> NotListed]
    /\ rows = [u \in Users |-> {}]
    /\ tokens = {}
    /\ crowded = FALSE
    /\ gone = {}
    /\ late = {}

Init == ChatInit /\ AccountInit

chatData == <<sessions, messages, made, faults, torn>>

-----------------------------------------------------------------------------
(* Sign-in with Google: create_or_link_user.                               *)
SignIn(t, u) ==
    /\ Begin(t, [Idle EXCEPT !.op = "signin", !.user = u, !.at = "known"])
    /\ UNCHANGED <<chatData, accountVars>>

(* Mutant of FindUser: the cache is filled before the row is there.        *)
FindUser_CachesEarly(t) ==
    LET u == req[t].user
    IN  /\ req[t].at = "known"
        /\ cached' = cached \cup {u}
        /\ IF u \in cached \cup users
           THEN End(t) /\ tokens' = tokens \cup {u}
           ELSE Goto(t, "count") /\ UNCHANGED tokens
        /\ UNCHANGED <<chatData, served, users, waitlist, rows, crowded, gone, late>>

(* A user whom the cache or APP_USER knows gets a token.                   *)
FindUser(t) ==
    LET u == req[t].user
    IN  /\ req[t].at = "known"
        /\ IF u \in cached \cup users
           THEN End(t) /\ cached' = cached \cup {u} /\ tokens' = tokens \cup {u}
           ELSE Goto(t, "count") /\ UNCHANGED <<cached, tokens>>
        /\ UNCHANGED <<chatData, served, users, waitlist, rows, crowded, gone, late>>

(* Mutant of CountUsers: one user too many is let in.                      *)
CountUsers_OffByOne(t) ==
    /\ req[t].at = "count"
    /\ IF Cardinality(users) <= Capacity
       THEN /\ Goto(t, "promote")
            /\ crowded' = (crowded \/ SignUps # {})
       ELSE Goto(t, "refuse") /\ UNCHANGED crowded
    /\ UNCHANGED <<chatData, served, users, cached, waitlist, rows, tokens, gone, late>>

CountUsers(t) ==
    /\ req[t].at = "count"
    /\ IF Cardinality(users) < Capacity
       THEN /\ Goto(t, "promote")
            /\ crowded' = (crowded \/ SignUps # {})
       ELSE Goto(t, "refuse") /\ UNCHANGED crowded
    /\ UNCHANGED <<chatData, served, users, cached, waitlist, rows, tokens, gone, late>>

(* Mutant of Refuse: the entry of a user who comes back is written anew.   *)
Refuse_Anew(t) ==
    /\ req[t].at = "refuse"
    /\ waitlist' = [waitlist EXCEPT ![req[t].user] = [status |-> "waiting", since |-> served]]
    /\ End(t)
    /\ UNCHANGED <<chatData, served, users, cached, rows, tokens, crowded, gone, late>>

(* save_waiting keeps the created_at of an entry that is there.            *)
Refuse(t) ==
    LET old == waitlist[req[t].user]
    IN  /\ req[t].at = "refuse"
        /\ waitlist' = [waitlist EXCEPT ![req[t].user] =
                          [status |-> "waiting",
                           since |-> IF old = NotListed THEN served ELSE old.since]]
        /\ End(t)
        /\ UNCHANGED <<chatData, served, users, cached, rows, tokens, crowded, gone, late>>

(* Mutant of Promote: everybody who waits is promoted.                     *)
Promote_All(t) ==
    /\ req[t].at = "promote"
    /\ waitlist' = [u \in Users |-> IF waitlist[u].status = "waiting"
                                    THEN [waitlist[u] EXCEPT !.status = "promoted"]
                                    ELSE waitlist[u]]
    /\ Goto(t, "save")
    /\ UNCHANGED <<chatData, served, users, cached, rows, tokens, crowded, gone, late>>

(* Mutant of Promote: a user who never waited is marked too.               *)
Promote_Unlisted(t) ==
    /\ req[t].at = "promote"
    /\ waitlist' = [waitlist EXCEPT ![req[t].user].status = "promoted"]
    /\ Goto(t, "save")
    /\ UNCHANGED <<chatData, served, users, cached, rows, tokens, crowded, gone, late>>

Promote(t) ==
    /\ req[t].at = "promote"
    /\ waitlist' = IF waitlist[req[t].user].status = "waiting"
                   THEN [waitlist EXCEPT ![req[t].user].status = "promoted"]
                   ELSE waitlist
    /\ Goto(t, "save")
    /\ UNCHANGED <<chatData, served, users, cached, rows, tokens, crowded, gone, late>>

SaveUser(t) ==
    /\ req[t].at = "save"
    /\ users' = users \cup {req[t].user}
    /\ cached' = cached \cup {req[t].user}
    /\ tokens' = tokens \cup {req[t].user}
    /\ End(t)
    /\ UNCHANGED <<chatData, served, waitlist, rows, crowded, gone, late>>

-----------------------------------------------------------------------------
(* A deletion walks through the stores: Schwab, the chats, the other       *)
(* tables, the waiting list, the row of APP_USER.  The serial of the       *)
(* request counts nothing for it; work holds the tables it is past.        *)
DeleteAccount(t, u) ==
    /\ u \in tokens
    /\ Begin(t, [Idle EXCEPT !.op = "purge", !.user = u, !.at = "schwab"])
    /\ UNCHANGED <<chatData, accountVars>>

DeleteSchwab(t) ==
    /\ req[t].at = "schwab"
    /\ rows' = [rows EXCEPT ![req[t].user] = @ \ {Tables[1]}]
    /\ Goto(t, "list")
    /\ UNCHANGED <<chatData, served, users, cached, waitlist, tokens, crowded, gone, late>>

(* Mutant of DeleteTables: the walk stops before the last store.           *)
DeleteTables_ButLast(t) ==
    LET left == {i \in 2 .. Len(Tables) - 1 : i \notin req[t].work}
    IN  /\ req[t].at = "tables"
        /\ IF left = {} THEN Goto(t, "waitlist") /\ UNCHANGED rows
           ELSE \E i \in left :
                   /\ \A j \in left : i <= j
                   /\ rows' = [rows EXCEPT ![req[t].user] = @ \ {Tables[i]}]
                   /\ req' = [req EXCEPT ![t].work = @ \cup {i}]
        /\ UNCHANGED <<chatData, served, users, cached, waitlist, tokens, crowded, gone, late>>

DeleteTables(t) ==
    LET left == {i \in 2 .. Len(Tables) : i \notin req[t].work}
    IN  /\ req[t].at = "tables"
        /\ IF left = {} THEN Goto(t, "waitlist") /\ UNCHANGED rows
           ELSE \E i \in left :
                   /\ \A j \in left : i <= j
                   /\ rows' = [rows EXCEPT ![req[t].user] = @ \ {Tables[i]}]
                   /\ req' = [req EXCEPT ![t].work = @ \cup {i}]
        /\ UNCHANGED <<chatData, served, users, cached, waitlist, tokens, crowded, gone, late>>

LeaveWaitlist(t) ==
    /\ req[t].at = "waitlist"
    /\ waitlist' = [waitlist EXCEPT ![req[t].user] = NotListed]
    /\ Goto(t, "row")
    /\ UNCHANGED <<chatData, served, users, cached, rows, tokens, crowded, gone, late>>

DeleteRow(t) ==
    LET u == req[t].user
    IN  /\ req[t].at = "row"
        /\ users' = users \ {u}
        /\ gone' = gone \cup {u}
        /\ End(t)
        /\ UNCHANGED <<chatData, served, cached, waitlist, rows, tokens, crowded, late>>

-----------------------------------------------------------------------------
(* A request with a token writes a row of a store: a page, a sync, a       *)
(* capture, a Schwab connection; it meets the deletion of its user.        *)
WriteRow(u, table) ==
    /\ u \in tokens
    /\ table \notin rows[u]
    /\ served < MaxRequests
    /\ served' = served + 1
    /\ rows' = [rows EXCEPT ![u] = @ \cup {table}]
    /\ late' = IF Deleting(u) \/ u \notin users THEN late \cup {u} ELSE late
    /\ req' = [t \in Threads |->
                 IF t \in Running /\ req[t].user = u THEN [req[t] EXCEPT !.met = TRUE] ELSE req[t]]
    /\ UNCHANGED <<chatData, users, cached, waitlist, tokens, crowded, gone>>

(* Ttl and expiry: Redis forgets a user, a token runs out; a client of a   *)
(* user with a row refreshes an expired one.                               *)
CacheExpires(u) ==
    /\ u \in cached
    /\ cached' = cached \ {u}
    /\ UNCHANGED <<chatVars, users, waitlist, rows, tokens, crowded, gone, late>>

TokenExpires(u) ==
    /\ u \in tokens
    /\ tokens' = tokens \ {u}
    /\ UNCHANGED <<chatVars, users, cached, waitlist, rows, crowded, gone, late>>

RefreshToken(u) ==
    /\ u \in users
    /\ u \notin tokens
    /\ tokens' = tokens \cup {u}
    /\ UNCHANGED <<chatVars, users, cached, waitlist, rows, crowded, gone, late>>

(* A chat request of a user with a token; what it writes beside or after   *)
(* the deletion of its user is late.                                       *)
ChatBegins(t, u) ==
    /\ u \in tokens
    /\ ChatRequest(t, u)
    /\ UNCHANGED accountVars

ChatContinues(t) ==
    LET u == req[t].user
    IN  /\ ChatStep(t)
        /\ late' = IF /\ req[t].op = "ask"
                      /\ Deleting(u) \/ u \notin users
                   THEN late \cup {u} ELSE late
        /\ UNCHANGED <<users, cached, waitlist, rows, tokens, crowded, gone>>

Step(t) ==
    \/ FindUser(t) \/ CountUsers(t) \/ Refuse(t) \/ Promote(t) \/ SaveUser(t)
    \/ DeleteSchwab(t) \/ DeleteTables(t) \/ LeaveWaitlist(t) \/ DeleteRow(t)
    \/ ChatContinues(t)

Next ==
    \/ \E t \in Threads :
          \/ Step(t)
          \/ CutShort(t) /\ UNCHANGED accountVars
          \/ \E u \in Users : SignIn(t, u) \/ DeleteAccount(t, u) \/ ChatBegins(t, u)
    \/ \E u \in Users :
          \/ \E table \in TableNames : WriteRow(u, table)
          \/ CacheExpires(u) \/ TokenExpires(u) \/ RefreshToken(u)

Spec == Init /\ [][Next]_vars
FairSpec == Spec /\ \A t \in Threads : WF_vars(Step(t))

-----------------------------------------------------------------------------
Places == {"idle", "given", "peek", "latest", "create", "history", "question", "stream", "answer",
           "list", "wipe", "erase", "schwab", "tables", "waitlist", "row",
           "known", "count", "refuse", "promote", "save"}
Ops == {"none", "ask", "drop", "clear", "purge", "signin"}

TypeOK ==
    /\ sessions \subseteq [id : SessionIds, user : Users, kind : Kinds]
    /\ messages \subseteq [session : SessionIds, role : {"user", "assistant"}, of : Asks,
                           author : Users]
    /\ made \in 0 .. MaxRequests
    /\ req \in [Threads -> [at : Places, op : Ops, user : Users, kind : Kinds,
                            session : 0 .. MaxRequests, first : BOOLEAN, blank : BOOLEAN,
                            serial : 0 .. MaxRequests, work : SUBSET Nat, met : BOOLEAN]]
    /\ served \in 0 .. MaxRequests /\ faults \in 0 .. MaxFaults /\ torn \subseteq Asks
    /\ users \subseteq Users /\ cached \subseteq Users /\ tokens \subseteq Users
    /\ gone \subseteq Users /\ late \subseteq Users /\ crowded \in BOOLEAN
    /\ waitlist \in [Users -> [status : {"none", "waiting", "promoted"}, since : 0 .. MaxRequests]]
    /\ \A u \in Users : waitlist[u].status = "none" <=> waitlist[u].since = 0
    /\ rows \in [Users -> SUBSET TableNames]

HasData(u) == rows[u] # {} \/ \E x \in sessions : x.user = u

(* More users than the service has room for only if two sign-ups were past *)
(* the count at once: nothing holds the count until the row is saved.      *)
CapacityWhenAlone == Cardinality(users) > Capacity => crowded

(* Whoever is let in, by a token or by the cache, has a row or has deleted *)
(* it: the deletion leaves tokens and the cached user behind.              *)
AccountBehindToken == tokens \cup cached \subseteq users \cup gone

(* What is left of a user without a row was written beside the deletion or *)
(* after it: the row goes last, so that a deletion that failed half-way    *)
(* can be asked for again.                                                 *)
DataHasOwner == \A u \in Users : HasData(u) => u \in users \cup late

(* So whatever there is of a user, a token, a cached copy or rows, is of   *)
(* one with a row, or of one whose deletion somebody overtook, and there   *)
(* are no more users than room (delete_account and sign-up beside          *)
(* authenticated requests).                                                *)
UsersAreKnown == CapacityWhenAlone /\ AccountBehindToken /\ DataHasOwner

(* Who was promoted has the row, is about to get it, or had it; unless the *)
(* sign-up was cut short between the two, which loses the place.           *)
PromotedIsServed ==
    \A u \in Users :
       waitlist[u].status = "promoted" =>
          \/ u \in users \cup gone
          \/ \E t \in SignUps : req[t].user = u
          \/ faults > 0

(* Nobody loses the place in the queue but by deleting the account.        *)
WaitersKeepPlace ==
    [][\A u \in Users :
          waitlist[u].since # 0 /\ waitlist'[u].since # waitlist[u].since =>
             \E t \in Running : req[t].user = u /\ req[t].at = "waitlist"]_vars

(* A place in the queue stands until it is turned into an account          *)
(* (create_or_link_user, save_waiting, mark_promoted).                     *)
PlacesAreKept == []PromotedIsServed /\ WaitersKeepPlace

(* A deletion that met no other request of its user leaves nothing: no     *)
(* chat, no row, no entry of the waiting list, no user.                    *)
ErasedWhenAlone ==
    [][\A t \in Running, u \in Users :
          /\ req[t].user = u /\ req[t].at = "row" /\ ~req[t].met
          /\ req'[t].at = "idle" /\ faults' = faults
          => ~HasData(u)' /\ waitlist'[u] = NotListed /\ u \notin users']_vars

(* Every request ends: the deletion stops listing chats.                   *)
RequestsEnd == \A t \in Threads : []<>(req[t].at = "idle")
=============================================================================
