---------------------------- MODULE WatchlistSync ----------------------------
(***************************************************************************)
(* The watchlist workspace of one user, read and replaced by several       *)
(* clients (web, iOS) through WatchlistAdapter.  A sync is an Oracle       *)
(* transaction that locks the user's row of WATCHLIST_WORKSPACE, compares  *)
(* its version with the one the client saw, rewrites folders and items and *)
(* counts the version up; a read is a read-only transaction.  One SQL      *)
(* statement is one step, except those that rewrite folders and items:     *)
(* nobody sees them before the commit, and WatchlistTables says what they  *)
(* leave.  Here a workspace is a value.                                    *)
(*                                                                         *)
(* Oracle is external: a row lock is waited for and freed at the end of    *)
(* the transaction, an insert waits for an uncommitted one of the same     *)
(* key, a read-only transaction sees the commits before its start.         *)
(***************************************************************************)
EXTENDS Integers

CONSTANTS
    Clients,        \* devices of the user, each with one request at a time
    Workspaces,     \* the contents a workspace can have
    NoClient,       \* nobody holds the row lock
    MaxVersion,     \* bound: syncs that commit
    MaxFaults       \* bound: statements that raise, and answers that are lost

ASSUME ClientAssumption == NoClient \notin Clients
ASSUME BoundAssumption == MaxVersion \in Nat /\ MaxFaults \in Nat

VARIABLES
    workspace,  \* WATCHLIST_FOLDER and WATCHLIST_ITEM as committed
    row,        \* version in WATCHLIST_WORKSPACE as committed, NoRow if none
    locker,     \* the transaction that holds the row's lock or inserts the row
    pc,         \* client -> the next statement of its request
    known,      \* client -> the last answer it got: a version and a workspace
    hand,       \* client -> the version and workspace its request carries: those
                \*           sent by a sync, those seen by a read, the answer of both
    current,    \* client -> current_version, as its sync read it
    faults      \* statements that raised and answers lost so far

tables == <<workspace, row, locker>>
vars == <<tables, pc, known, hand, current, faults>>

NoRow == -1
NoBase == -1
Versions == 0 .. MaxVersion
Answer == [version : Versions \cup {NoBase}, workspace : Workspaces]
Locations == {"idle", "readFolders", "readVersion", "lock", "insert", "relock", "check",
              "write", "commit", "answer"}

(* get_workspace_version: no row counts as version 0.                      *)
Version == IF row = NoRow THEN 0 ELSE row

Goto(c, l) == pc' = [pc EXCEPT ![c] = l]

(* The end of a transaction frees the lock, committed or not.              *)
Release(c) == locker' = IF locker = c THEN NoClient ELSE locker

(* A rollback and an error: the client knows what it knew.                 *)
Rollback(c) ==
    /\ Goto(c, "idle")
    /\ Release(c)
    /\ hand' = [hand EXCEPT ![c] = known[c]]
    /\ current' = [current EXCEPT ![c] = 0]
    /\ UNCHANGED <<workspace, row, known>>

-----------------------------------------------------------------------------
(* get_workspace_snapshot.                                                 *)

(* SET TRANSACTION READ ONLY fixes what both queries see.                  *)
BeginRead(c) ==
    /\ pc[c] = "idle"
    /\ hand' = [hand EXCEPT ![c] = [version |-> Version, workspace |-> workspace]]
    /\ Goto(c, "readFolders")
    /\ UNCHANGED <<tables, known, current, faults>>

ReadFolders(c) ==
    /\ pc[c] = "readFolders"
    /\ Goto(c, "readVersion")
    /\ UNCHANGED <<tables, known, hand, current, faults>>

(* Mutant of ReadVersion: the transaction is not read-only, so the second  *)
(* query sees the commits since the first.                                 *)
ReadVersion_Committed(c) ==
    /\ pc[c] = "readVersion"
    /\ hand' = [hand EXCEPT ![c].version = Version]
    /\ Goto(c, "answer")
    /\ UNCHANGED <<tables, known, current, faults>>

ReadVersion(c) ==
    /\ pc[c] = "readVersion"
    /\ Goto(c, "answer")
    /\ UNCHANGED <<tables, known, hand, current, faults>>

-----------------------------------------------------------------------------
(* sync_workspace.                                                         *)

(* A client sends a workspace with the version it knows, an old one sends  *)
(* none.                                                                   *)
BeginSync(c) ==
    /\ pc[c] = "idle"
    /\ \E w \in Workspaces, b \in {NoBase, known[c].version} :
        hand' = [hand EXCEPT ![c] = [version |-> b, workspace |-> w]]
    /\ Goto(c, "lock")
    /\ UNCHANGED <<tables, known, current, faults>>

(* The row is found and nobody holds it: the sync takes its lock.          *)
Take(c) ==
    /\ row # NoRow /\ locker = NoClient
    /\ locker' = c
    /\ current' = [current EXCEPT ![c] = row]
    /\ Goto(c, "check")

(* Mutant of Lock: the SELECT is not FOR UPDATE.                           *)
Lock_Unlocked(c) ==
    /\ pc[c] = "lock"
    /\ \/ row = NoRow /\ Goto(c, "insert") /\ UNCHANGED current
       \/ row # NoRow /\ Goto(c, "check") /\ current' = [current EXCEPT ![c] = row]
    /\ UNCHANGED <<tables, known, hand, faults>>

(* SELECT ... FOR UPDATE waits for the lock of a committed row; a row that *)
(* is not committed is not found.                                          *)
Lock(c) ==
    /\ pc[c] = "lock"
    /\ \/ row = NoRow /\ Goto(c, "insert") /\ UNCHANGED <<locker, current>>
       \/ Take(c)
    /\ UNCHANGED <<workspace, row, known, hand, faults>>

(* Mutant of Insert: an insert that fails is tried again.                  *)
Insert_Again(c) ==
    /\ pc[c] = "insert"
    /\ \/ /\ row = NoRow /\ locker = NoClient
          /\ locker' = c
          /\ current' = [current EXCEPT ![c] = 0]
          /\ Goto(c, "check")
       \/ row # NoRow /\ UNCHANGED <<pc, locker, current>>
    /\ UNCHANGED <<workspace, row, known, hand, faults>>

(* INSERT of version 0: waits for another insert, fails if that committed. *)
Insert(c) ==
    /\ pc[c] = "insert"
    /\ \/ /\ row = NoRow /\ locker = NoClient
          /\ locker' = c
          /\ current' = [current EXCEPT ![c] = 0]
          /\ Goto(c, "check")
       \/ row # NoRow /\ Goto(c, "relock") /\ UNCHANGED <<locker, current>>
    /\ UNCHANGED <<workspace, row, known, hand, faults>>

Relock(c) ==
    /\ pc[c] = "relock"
    /\ Take(c)
    /\ UNCHANGED <<workspace, row, known, hand, faults>>

Agrees(c) == hand[c].version \in {NoBase, current[c]}

(* WatchlistVersionConflictError rolls back and is answered with 409.      *)
Check(c) ==
    /\ pc[c] = "check"
    /\ \/ Agrees(c) /\ Goto(c, "write") /\ UNCHANGED <<tables, known, hand, current>>
       \/ ~Agrees(c) /\ Rollback(c)
    /\ UNCHANGED faults

(* The rewriting of folders and items, which may raise and roll back.      *)
Write(c) ==
    /\ pc[c] = "write"
    /\ \/ /\ current[c] < MaxVersion
          /\ Goto(c, "commit")
          /\ UNCHANGED <<tables, known, hand, current>>
       \/ Rollback(c)
    /\ UNCHANGED faults

(* Mutant of Commit: the first sync leaves the inserted version as it is.  *)
Commit_FirstIsZero(c) ==
    /\ pc[c] = "commit"
    /\ workspace' = hand[c].workspace
    /\ row' = IF row = NoRow THEN 0 ELSE current[c] + 1
    /\ hand' = [hand EXCEPT ![c].version = row']
    /\ current' = [current EXCEPT ![c] = 0]
    /\ Goto(c, "answer")
    /\ Release(c)
    /\ UNCHANGED <<known, faults>>

(* next_version, the listing of what was saved, and the commit.            *)
Commit(c) ==
    /\ pc[c] = "commit"
    /\ workspace' = hand[c].workspace
    /\ row' = current[c] + 1
    /\ hand' = [hand EXCEPT ![c].version = current[c] + 1]
    /\ current' = [current EXCEPT ![c] = 0]
    /\ Goto(c, "answer")
    /\ Release(c)
    /\ UNCHANGED <<known, faults>>

-----------------------------------------------------------------------------
(* The answer of either request, and what can go wrong.                    *)

Deliver(c) ==
    /\ pc[c] = "answer"
    /\ known' = [known EXCEPT ![c] = hand[c]]
    /\ Goto(c, "idle")
    /\ UNCHANGED <<tables, hand, current, faults>>

(* A statement raises or the process dies, and the transaction is rolled   *)
(* back; or the answer is lost, and the client does not know the outcome.  *)
Fail(c) ==
    /\ pc[c] # "idle" /\ faults < MaxFaults
    /\ Rollback(c)
    /\ faults' = faults + 1

-----------------------------------------------------------------------------
(* A database from before the versions has folders and no version row.     *)
Init ==
    /\ workspace \in Workspaces /\ row = NoRow /\ locker = NoClient
    /\ pc = [c \in Clients |-> "idle"]
    /\ known \in [Clients -> {[version |-> NoBase, workspace |-> w] : w \in Workspaces}]
    /\ hand = known
    /\ current = [c \in Clients |-> 0]
    /\ faults = 0

Statement(c) ==
    \/ ReadFolders(c) \/ ReadVersion(c)
    \/ Lock(c) \/ Insert(c) \/ Relock(c) \/ Check(c) \/ Write(c) \/ Commit(c)
    \/ Deliver(c)

Next == \E c \in Clients : BeginRead(c) \/ BeginSync(c) \/ Statement(c) \/ Fail(c)

Spec == Init /\ [][Next]_vars

(* The server goes on with a request, and Oracle gives a freed lock to     *)
(* whoever waits for it: nobody waits while others take it for ever.       *)
Fairness ==
    \A c \in Clients : WF_vars(Statement(c)) /\ SF_vars(Lock(c) \/ Insert(c) \/ Relock(c))
FairSpec == Spec /\ Fairness

-----------------------------------------------------------------------------
(* Properties.                                                             *)

(* Every variable keeps its type.                                          *)
TypeOK ==
    /\ workspace \in Workspaces
    /\ row \in Versions \cup {NoRow}
    /\ locker \in Clients \cup {NoClient}
    /\ pc \in [Clients -> Locations]
    /\ known \in [Clients -> Answer] /\ hand \in [Clients -> Answer]
    /\ current \in [Clients -> Versions]
    /\ faults \in 0 .. MaxFaults

(* A version names one workspace: a client that knows the version of the   *)
(* store knows what is in it, whether it read it, wrote it, or had old     *)
(* clients that send no version write beside it (get_workspace_snapshot    *)
(* and sync_workspace answer folders and version of one moment).           *)
VersionNamesWorkspace ==
    \A c \in Clients : known[c].version = Version => known[c].workspace = workspace

(* A sync that carries a version replaces exactly the workspace its client *)
(* last saw: no edit of another client is lost (the version is compared    *)
(* under the row lock that is held until the commit).                      *)
NoLostUpdate ==
    \A c \in Clients :
        pc[c] = "commit" /\ hand[c].version # NoBase => workspace = known[c].workspace

(* A client replaces only what it has seen: by version, if it sends one    *)
(* (base_version of sync_workspace).                                       *)
SyncsAreInformed == VersionNamesWorkspace /\ NoLostUpdate

(* Committed workspace and version change together, by one whole sync each *)
(* (the adapter of tests/test_watchlist_versioning.py).                    *)
Store == INSTANCE WatchlistStore WITH version <- Version
ImplementsStore == Store!Spec

(* Every request is answered: the lock is freed on every path, conflicts   *)
(* and failures included, so a waiting sync gets it in the end             *)
(* (sync_workspace rolls back on any exception).                           *)
RequestsEnd == \A c \in Clients : pc[c] # "idle" ~> pc[c] = "idle"
=============================================================================
