------------------------- MODULE WatchlistSyncProofs -------------------------
(***************************************************************************)
(* Proofs about WatchlistSync: no update is lost, a version names one      *)
(* workspace, and the transactions implement the one-step store.  Then     *)
(* about WatchlistTables, which opens its step Write: a sync leaves what   *)
(* its payload asks for and keeps the constraints of the tables.           *)
(***************************************************************************)
EXTENDS WatchlistSync, WatchlistTables, WellFoundedInduction, TLAPS

USE ClientAssumption, BoundAssumption

(* Whoever is past the lock holds it, and the version it read is still the *)
(* committed one; past the check it has been compared.                     *)
LockInv ==
    \A c \in Clients :
        /\ pc[c] \in {"check", "write", "commit"} => locker = c /\ current[c] = Version
        /\ pc[c] \in {"write", "commit"} => Agrees(c)
        /\ pc[c] = "commit" => current[c] < MaxVersion

(* An answer is no newer than the store, and right if it is as new.        *)
Sound(a) == a.version <= Version /\ (a.version = Version => a.workspace = workspace)

(* Answers are sound, delivered or under way; a sync carries no version or *)
(* the one its client knows.                                               *)
AnswerInv ==
    \A c \in Clients :
        /\ Sound(known[c])
        /\ pc[c] \in {"readFolders", "readVersion", "answer"} => Sound(hand[c])
        /\ pc[c] \in {"lock", "insert", "relock", "check", "write", "commit"}
              => hand[c].version \in {NoBase, known[c].version}

-----------------------------------------------------------------------------
LEMMA InitType == Init => TypeOK
BY DEF Init, TypeOK, Answer, Versions, NoRow, NoBase, Locations

LEMMA StepType == TypeOK /\ LockInv /\ [Next]_vars => TypeOK'
<1> SUFFICES ASSUME TypeOK, LockInv, [Next]_vars PROVE TypeOK'
  OBVIOUS
<1> USE DEF TypeOK, Versions
<1>1. CASE UNCHANGED vars
  BY <1>1 DEF vars, tables
<1>2. ASSUME NEW c \in Clients, BeginRead(c) PROVE TypeOK'
  <2>1. Version \in Versions
    BY DEF Version, NoRow
  <2>2. [version |-> Version, workspace |-> workspace] \in Answer
    BY <2>1 DEF Answer
  <2>3. QED
    BY <1>2, <2>2 DEF BeginRead, Goto, tables, Locations
<1>3. ASSUME NEW c \in Clients, ReadFolders(c) \/ ReadVersion(c) PROVE TypeOK'
  BY <1>3 DEF ReadFolders, ReadVersion, Goto, tables, Locations
<1>4. ASSUME NEW c \in Clients, BeginSync(c) PROVE TypeOK'
  <2>1. PICK w \in Workspaces, b \in {NoBase, known[c].version} :
               hand' = [hand EXCEPT ![c] = [version |-> b, workspace |-> w]]
    BY <1>4 DEF BeginSync
  <2>2. [version |-> b, workspace |-> w] \in Answer
    BY DEF Answer
  <2>3. QED
    BY <1>4, <2>1, <2>2 DEF BeginSync, Goto, tables, Locations
<1>5. ASSUME NEW c \in Clients, Lock(c) \/ Insert(c) \/ Relock(c) PROVE TypeOK'
  BY <1>5 DEF Lock, Insert, Relock, Take, Goto, Locations, NoRow
<1>6. ASSUME NEW c \in Clients, Rollback(c), UNCHANGED faults \/ faults' \in 0 .. MaxFaults
      PROVE  TypeOK'
  BY <1>6 DEF Rollback, Release, Goto, Locations
<1>7. ASSUME NEW c \in Clients, Check(c) \/ Write(c) PROVE TypeOK'
  <2>1. CASE Rollback(c)
    BY <1>6, <1>7, <2>1 DEF Check, Write
  <2>2. CASE ~Rollback(c)
    BY <1>7, <2>2 DEF Check, Write, Goto, tables, Locations
  <2>3. QED
    BY <2>1, <2>2
<1>8. ASSUME NEW c \in Clients, Commit(c) PROVE TypeOK'
  <2>1. current[c] + 1 \in Versions
    BY <1>8 DEF Commit, LockInv
  <2>2. hand' \in [Clients -> Answer]
    BY <1>8, <2>1 DEF Commit, Answer
  <2>3. QED
    BY <1>8, <2>1, <2>2 DEF Commit, Goto, Release, Answer, Locations
<1>9. ASSUME NEW c \in Clients, Deliver(c) PROVE TypeOK'
  BY <1>9 DEF Deliver, Goto, tables, Locations
<1>10. ASSUME NEW c \in Clients, Fail(c) PROVE TypeOK'
  BY <1>6, <1>10 DEF Fail
<1>11. QED
  BY <1>1, <1>2, <1>3, <1>4, <1>5, <1>7, <1>8, <1>9, <1>10 DEF Next, Statement

(* The lock, taken only while nobody holds it, keeps others from moving    *)
(* the version.                                                            *)
LEMMA StepLock == TypeOK /\ LockInv /\ [Next]_vars => LockInv'
<1> SUFFICES ASSUME TypeOK, LockInv, [Next]_vars PROVE LockInv'
  OBVIOUS
<1> USE DEF LockInv, Agrees, Version
<1>0. /\ pc \in [Clients -> Locations] /\ hand \in [Clients -> Answer]
      /\ current \in [Clients -> Versions]
  BY DEF TypeOK
<1>1. CASE UNCHANGED vars
  BY <1>1 DEF vars, tables
<1>2. ASSUME NEW c \in Clients, BeginRead(c) \/ ReadFolders(c) \/ ReadVersion(c) PROVE LockInv'
  BY <1>0, <1>2 DEF BeginRead, ReadFolders, ReadVersion, Goto, tables
<1>3. ASSUME NEW c \in Clients, BeginSync(c) PROVE LockInv'
  BY <1>0, <1>3 DEF BeginSync, Goto, tables
<1>4. ASSUME NEW c \in Clients, Lock(c) \/ Insert(c) \/ Relock(c) PROVE LockInv'
  BY <1>0, <1>4 DEF Lock, Insert, Relock, Take, Goto
<1>5. ASSUME NEW c \in Clients, Rollback(c) PROVE LockInv'
  BY <1>0, <1>5 DEF Rollback, Release, Goto
<1>6. ASSUME NEW c \in Clients, Check(c) \/ Write(c) PROVE LockInv'
  <2>1. CASE ~Rollback(c)
    BY <1>0, <1>6, <2>1 DEF Check, Write, Goto, tables
  <2>2. QED
    BY <1>5, <2>1
<1>7. ASSUME NEW c \in Clients, Commit(c) PROVE LockInv'
  <2>1. \A d \in Clients \ {c} : pc[d] \notin {"check", "write", "commit"}
    BY <1>7 DEF Commit
  <2>2. QED
    BY <1>0, <1>7, <2>1 DEF Commit, Goto
<1>8. ASSUME NEW c \in Clients, Deliver(c) PROVE LockInv'
  BY <1>0, <1>8 DEF Deliver, Goto, tables
<1>9. QED
  BY <1>1, <1>2, <1>3, <1>4, <1>5, <1>6, <1>7, <1>8 DEF Next, Statement, Fail

(* A commit moves the version past every answer given, so none of them     *)
(* becomes wrong.                                                          *)
LEMMA StepAnswer == TypeOK /\ LockInv /\ AnswerInv /\ [Next]_vars => AnswerInv'
<1> SUFFICES ASSUME TypeOK, LockInv, AnswerInv, [Next]_vars PROVE AnswerInv'
  OBVIOUS
<1> USE DEF AnswerInv, Sound
<1>0. /\ pc \in [Clients -> Locations] /\ hand \in [Clients -> Answer]
      /\ known \in [Clients -> Answer] /\ Version \in Versions
  BY DEF TypeOK, Version, Versions, NoRow
<1>1. CASE UNCHANGED vars
  BY <1>1 DEF vars, tables, Version
<1>2. ASSUME NEW c \in Clients, BeginRead(c) PROVE AnswerInv'
  <2>1. Version <= Version
    BY <1>0 DEF Versions
  <2>2. QED
    BY <1>0, <1>2, <2>1 DEF BeginRead, Goto, tables, Version
<1>3. ASSUME NEW c \in Clients, ReadFolders(c) \/ ReadVersion(c) PROVE AnswerInv'
  BY <1>0, <1>3 DEF ReadFolders, ReadVersion, Goto, tables, Version
<1>4. ASSUME NEW c \in Clients, BeginSync(c) PROVE AnswerInv'
  BY <1>0, <1>4 DEF BeginSync, Goto, tables, Version
<1>5. ASSUME NEW c \in Clients, Lock(c) \/ Insert(c) \/ Relock(c) PROVE AnswerInv'
  BY <1>0, <1>5 DEF Lock, Insert, Relock, Take, Goto, Version
<1>6. ASSUME NEW c \in Clients, Rollback(c) PROVE AnswerInv'
  BY <1>0, <1>6 DEF Rollback, Goto, Version
<1>7. ASSUME NEW c \in Clients, Check(c) \/ Write(c) PROVE AnswerInv'
  <2>1. CASE ~Rollback(c)
    BY <1>0, <1>7, <2>1 DEF Check, Write, Goto, tables, Version
  <2>2. QED
    BY <1>6, <2>1
<1>8. ASSUME NEW c \in Clients, Commit(c) PROVE AnswerInv'
  <2>1. Version' = Version + 1 /\ hand'[c].version = Version'
    BY <1>0, <1>8 DEF Commit, LockInv, TypeOK, Version, Versions, NoRow, Answer
  <2>2. \A a \in Answer : a.version <= Version => a.version < Version'
    BY <1>0, <2>1 DEF Answer, Versions, NoBase
  <2>3. \A d \in Clients : known[d] \in Answer /\ hand[d] \in Answer
    BY <1>0
  <2>4. ASSUME NEW d \in Clients \ {c} PROVE pc'[d] = pc[d] /\ hand'[d] = hand[d]
    BY <1>0, <1>8 DEF Commit, Goto
  <2>5. \A a \in Answer : a.version <= Version => Sound(a)'
    BY <1>0, <2>1, <2>2 DEF Answer, Versions, NoBase
  <2>6. Sound(hand[c])' /\ pc'[c] = "answer"
    BY <1>0, <1>8, <2>1 DEF Commit, Goto, Versions, Answer
  <2>7. QED
    BY <1>8, <2>3, <2>4, <2>5, <2>6 DEF Commit
<1>9. ASSUME NEW c \in Clients, Deliver(c) PROVE AnswerInv'
  BY <1>0, <1>9 DEF Deliver, Goto, tables, Version
<1>10. QED
  BY <1>1, <1>2, <1>3, <1>4, <1>5, <1>6, <1>7, <1>8, <1>9 DEF Next, Statement, Fail

Inv == TypeOK /\ LockInv /\ AnswerInv

LEMMA Invariant == Spec => []Inv
<1>1. Init => Inv
  <2>1. Init => LockInv /\ AnswerInv
    BY DEF Init, LockInv, AnswerInv, Sound, Version, NoRow, NoBase
  <2>2. QED
    BY <2>1, InitType DEF Inv
<1>2. Inv /\ [Next]_vars => Inv'
  BY StepType, StepLock, StepAnswer DEF Inv
<1>3. QED
  BY <1>1, <1>2, PTL DEF Spec

-----------------------------------------------------------------------------
(* Every variable keeps its type (WatchlistAdapter).                       *)
THEOREM TypeCorrect == Spec => []TypeOK
BY Invariant, PTL DEF Inv

(* A version names one workspace (get_workspace_snapshot, sync_workspace). *)
THEOREM OneWorkspacePerVersion == Spec => []VersionNamesWorkspace
<1>1. Inv => VersionNamesWorkspace
  BY DEF Inv, AnswerInv, Sound, VersionNamesWorkspace
<1>2. QED
  BY <1>1, Invariant, PTL

(* A sync that carries a version replaces exactly the workspace its client *)
(* last saw (sync_workspace).                                              *)
THEOREM UpdatesKept == Spec => []NoLostUpdate
<1>1. Inv => NoLostUpdate
  BY DEF Inv, LockInv, AnswerInv, Sound, Agrees, NoLostUpdate
<1>2. QED
  BY <1>1, Invariant, PTL

(* A client replaces only what it has seen (sync_workspace).               *)
THEOREM ClientsAreInformed == Spec => []SyncsAreInformed
BY OneWorkspacePerVersion, UpdatesKept, PTL DEF SyncsAreInformed

(* The transactions implement the store that is replaced in one step       *)
(* (sync_workspace, against the adapter of                                 *)
(* tests/test_watchlist_versioning.py).                                    *)
THEOREM StoreImplemented == Spec => ImplementsStore
<1>1. Init => Store!Init
  BY DEF Init, Store!Init, Version, NoRow
<1>2. Inv /\ [Next]_vars => [Store!Sync]_<<workspace, Version>>
  <2> SUFFICES ASSUME Inv, [Next]_vars PROVE [Store!Sync]_<<workspace, Version>>
    OBVIOUS
  <2>1. CASE UNCHANGED <<workspace, row>>
    BY <2>1 DEF Version
  <2>2. ASSUME NEW c \in Clients, Commit(c) PROVE Store!Sync
    <3>1. Version' = Version + 1
      BY <2>2 DEF Inv, LockInv, TypeOK, Commit, Version, Versions, NoRow
    <3>2. workspace' \in Workspaces
      BY <2>2 DEF Inv, TypeOK, Commit, Answer
    <3>3. QED
      BY <3>1, <3>2 DEF Store!Sync
  <2>3. QED
    BY <2>1, <2>2 DEF Next, Statement, BeginRead, ReadFolders, ReadVersion, BeginSync, Lock,
       Insert, Relock, Take, Check, Write, Rollback, Deliver, Fail, vars, tables
<1>3. QED
  BY <1>1, <1>2, Invariant, PTL DEF Spec, ImplementsStore, Store!Spec

-----------------------------------------------------------------------------
(* Induction over the naturals, for sets.                                  *)

Below == {p \in Nat \X Nat : p[1] < p[2]}

LEMMA BelowIsWellFounded == IsWellFoundedOn(Below, Nat)
  BY NatLessThanWellFounded DEF Below, OpToRel

LEMMA Least ==
    ASSUME NEW T, T \subseteq Nat, T # {}
    PROVE  \E n \in T : \A m \in T : n <= m
<1>1. PICK x \in T : \A y \in T : ~ (<<y, x>> \in Below)
  BY BelowIsWellFounded, WFMin
<1>2. ASSUME NEW y \in T PROVE x <= y
  <2>1. <<y, x>> \in Nat \X Nat /\ <<y, x>>[1] = y /\ <<y, x>>[2] = x
    OBVIOUS
  <2>2. ~(y < x)
  BY <1>1, <2>1 DEF Below
  <2> QED BY <2>2
<1> QED BY <1>2

LEMMA SetInduction ==
    ASSUME NEW S, 0 \in S, \A n \in Nat : n \in S => n + 1 \in S
    PROVE  Nat \subseteq S
<1> SUFFICES ASSUME Nat \ S # {} PROVE FALSE
  OBVIOUS
<1>1. PICK n \in Nat \ S : \A m \in Nat \ S : n <= m
  BY Least
<1>2. n - 1 \in S
  BY <1>1
<1> QED BY <1>1, <1>2

-----------------------------------------------------------------------------
LEMMA BoundedSeqIsSeq == ASSUME NEW S, NEW m PROVE BoundedSeq(S, m) \subseteq Seq(S)
<1>1. SUFFICES ASSUME NEW s, NEW k \in 0 .. m, s \in [1 .. k -> S] PROVE s \in Seq(S)
  BY DEF BoundedSeq, SeqOf
<1>2. k \in Nat
  OBVIOUS
<1>3. QED
  BY <1>1, <1>2

(* What a payload is once it has been validated.                           *)
LEMMA PayloadShape ==
    ASSUME NEW p \in Payloads
    PROVE  /\ DOMAIN p = 1 .. Len(p) /\ Len(p) \in Nat
           /\ \A i, j \in DOMAIN p : p[i].id = p[j].id => i = j
           /\ \A i \in DOMAIN p : p[i].id \in FolderIds /\ ValidFolder(p[i])
           /\ \A i \in DOMAIN p : p[i].symbols \in Seq(SymbolRecord)
<1>1. p \in BoundedSeq(FolderRecord, MaxFolders) /\ ValidateWorkspace(p)
  BY DEF Payloads
<1>2. p \in Seq(FolderRecord)
  BY <1>1, BoundedSeqIsSeq
<1>3. \A i \in DOMAIN p : p[i] \in FolderRecord
  BY <1>2
<1>4. \A i \in DOMAIN p : p[i].id \in FolderIds /\ p[i].symbols \in Seq(SymbolRecord)
  BY <1>3, BoundedSeqIsSeq DEF FolderRecord
<1>5. \A i, j \in DOMAIN p : p[i].id = p[j].id => i = j
  BY <1>1 DEF ValidateWorkspace, Injective
<1>6. \A i \in DOMAIN p : ValidFolder(p[i])
  BY <1>1 DEF ValidateWorkspace
<1>7. QED
  BY <1>2, <1>4, <1>5, <1>6

LEMMA FolderShape ==
    ASSUME NEW f, f.symbols \in Seq(SymbolRecord), ValidFolder(f)
    PROVE  /\ DOMAIN f.symbols = 1 .. Len(f.symbols) /\ Len(f.symbols) \in Nat
           /\ \A i \in DOMAIN f.symbols : f.symbols[i] \in SymbolRecord
           /\ \A i, j \in DOMAIN f.symbols : f.symbols[i].id = f.symbols[j].id => i = j
           /\ \A i, j \in DOMAIN f.symbols :
                 Normalize(f.symbols[i].ticker) = Normalize(f.symbols[j].ticker) => i = j
BY DEF ValidFolder, Injective

-----------------------------------------------------------------------------
(* The MERGEs of one folder, g holding what the first of them left.        *)
Merges(g, t, f, n) ==
    g = [k \in 0 .. n |-> IF k = 0 THEN t ELSE MergeItem(g[k - 1], f.id, f.symbols[k])]

LEMMA MergesExist == ASSUME NEW t, NEW f, NEW n \in Nat PROVE \E g : Merges(g, t, f, n)
<1> DEFINE S == {i \in Nat : \E g : Merges(g, t, f, i)}
<1>1. 0 \in S
  <2> DEFINE g == [k \in 0 .. 0 |-> t]
  <2>1. Merges(g, t, f, 0)
    BY DEF Merges
  <2>2. QED
    BY <2>1
<1>2. ASSUME NEW i \in Nat, i \in S PROVE i + 1 \in S
  <2>1. PICK g : Merges(g, t, f, i)
    BY <1>2
  <2> DEFINE h == [k \in 0 .. (i + 1) |-> IF k = i + 1 THEN MergeItem(g[i], f.id, f.symbols[k]) ELSE g[k]]
  <2>2. ASSUME NEW k \in 0 .. (i + 1)
        PROVE  h[k] = IF k = 0 THEN t ELSE MergeItem(h[k - 1], f.id, f.symbols[k])
    <3>1. CASE k = 0
      BY <2>1, <3>1 DEF Merges
    <3>2. CASE k \in 1 .. i
      BY <2>1, <3>2 DEF Merges
    <3>3. CASE k = i + 1
      BY <3>3
    <3>4. QED
      BY <3>1, <3>2, <3>3
  <2>3. Merges(h, t, f, i + 1)
    BY <2>2 DEF Merges
  <2>4. QED
    BY <2>3
<1> HIDE DEF S
<1>3. Nat \subseteq S
  BY <1>1, <1>2, SetInduction
<1>4. QED
  BY <1>3 DEF S

LEMMA MergeItemsAre ==
    ASSUME NEW t, NEW f, Len(f.symbols) \in Nat
    PROVE  \E g : Merges(g, t, f, Len(f.symbols)) /\ MergeItems(t, f) = g[Len(f.symbols)]
<1> DEFINE g == CHOOSE g : Merges(g, t, f, Len(f.symbols))
<1>1. Merges(g, t, f, Len(f.symbols))
  BY MergesExist
<1>2. MergeItems(t, f) = g[Len(f.symbols)]
  BY DEF MergeItems, Merges
<1>3. QED
  BY <1>1, <1>2

(* The turns of the loop over the folders.                                 *)
Turns(g, t, p, n) == g = [k \in 0 .. n |-> IF k = 0 THEN t ELSE WriteFolder(g[k - 1], p[k])]

LEMMA TurnsExist == ASSUME NEW t, NEW p, NEW n \in Nat PROVE \E g : Turns(g, t, p, n)
<1> DEFINE S == {i \in Nat : \E g : Turns(g, t, p, i)}
<1>1. 0 \in S
  <2> DEFINE g == [k \in 0 .. 0 |-> t]
  <2>1. Turns(g, t, p, 0)
    BY DEF Turns
  <2>2. QED
    BY <2>1
<1>2. ASSUME NEW i \in Nat, i \in S PROVE i + 1 \in S
  <2>1. PICK g : Turns(g, t, p, i)
    BY <1>2
  <2> DEFINE h == [k \in 0 .. (i + 1) |-> IF k = i + 1 THEN WriteFolder(g[i], p[k]) ELSE g[k]]
  <2>2. ASSUME NEW k \in 0 .. (i + 1)
        PROVE  h[k] = IF k = 0 THEN t ELSE WriteFolder(h[k - 1], p[k])
    <3>1. CASE k = 0
      BY <2>1, <3>1 DEF Turns
    <3>2. CASE k \in 1 .. i
      BY <2>1, <3>2 DEF Turns
    <3>3. CASE k = i + 1
      BY <3>3
    <3>4. QED
      BY <3>1, <3>2, <3>3
  <2>3. Turns(h, t, p, i + 1)
    BY <2>2 DEF Turns
  <2>4. QED
    BY <2>3
<1> HIDE DEF S
<1>3. Nat \subseteq S
  BY <1>1, <1>2, SetInduction
<1>4. QED
  BY <1>3 DEF S

LEMMA WriteFoldersAre ==
    ASSUME NEW t, NEW p, Len(p) \in Nat
    PROVE  \E g : Turns(g, t, p, Len(p)) /\ WriteFolders(t, p) = g[Len(p)]
<1> DEFINE g == CHOOSE g : Turns(g, t, p, Len(p))
<1>1. Turns(g, t, p, Len(p))
  BY TurnsExist
<1>2. WriteFolders(t, p) = g[Len(p)]
  BY DEF WriteFolders, Turns
<1>3. QED
  BY <1>1, <1>2

-----------------------------------------------------------------------------
(* Tables that keep their constraints, but for the unique index once a     *)
(* statement has raised.                                                   *)
Tabs == [folders : SUBSET FolderIds, items : SUBSET Row, ok : BOOLEAN]
Legal(t) ==
    /\ t \in Tabs
    /\ \A r \in t.items : r.folder \in t.folders
    /\ \A r, s \in t.items : r.id = s.id => r = s
    /\ t.ok => \A r, s \in t.items : r.folder = s.folder /\ r.symbol = s.symbol => r = s

LEMMA MergeIsLegal ==
    ASSUME NEW t, Legal(t), NEW f \in t.folders, NEW s \in SymbolRecord
    PROVE  Legal(MergeItem(t, f, s)) /\ MergeItem(t, f, s).folders = t.folders
<1> DEFINE others == {r \in t.items : r.id # s.id}
           made == RowOf(f, s)
           e == MergeItem(t, f, s)
<1>1. t \in Tabs /\ f \in FolderIds
  BY DEF Legal, Tabs
<1>2. made \in Row /\ made.id = s.id /\ made.folder = f
  BY <1>1 DEF RowOf, Row, SymbolRecord, Ticker, Normalize
<1> DEFINE free == \A r \in others : r.folder = f => r.symbol # made.symbol
<1> HIDE DEF made
<1>3. /\ e.folders = t.folders /\ e.items = others \cup {made} /\ e.ok = (t.ok /\ free)
      /\ e = [folders |-> e.folders, items |-> e.items, ok |-> e.ok]
  <2>1. e = [t EXCEPT !.items = others \cup {made}, !.ok = t.ok /\ free]
    BY DEF MergeItem, made
  <2> HIDE DEF e, free
  <2>2. QED
    BY <1>1, <2>1 DEF Tabs
<1> HIDE DEF e
<1>4. e \in Tabs
  <2>1. e.items \in SUBSET Row /\ e.folders \in SUBSET FolderIds
    BY <1>1, <1>2, <1>3 DEF Tabs
  <2>2. e.ok \in BOOLEAN
    BY <1>3
  <2>3. QED
    BY <1>3, <2>1, <2>2 DEF Tabs
<1>5. \A r \in e.items : r.folder \in e.folders
  BY <1>2, <1>3 DEF Legal
<1>6. \A q, r \in e.items : q.id = r.id => q = r
  BY <1>2, <1>3 DEF Legal
<1>7. ASSUME e.ok, NEW q \in e.items, NEW r \in e.items, q.folder = r.folder, q.symbol = r.symbol PROVE q = r
  <2>1. t.ok /\ \A x \in others : x.folder = f => x.symbol # made.symbol
    BY <1>3, <1>7
  <2>2. CASE q \in others /\ r \in others
    BY <1>7, <2>1, <2>2 DEF Legal
  <2>3. CASE q = made \/ r = made
    BY <1>2, <1>3, <1>7, <2>1, <2>3
  <2>4. QED
    BY <1>3, <2>2, <2>3
<1>8. QED
  BY <1>3, <1>4, <1>5, <1>6, <1>7 DEF Legal, e

(* What a folder is rewritten to.                                          *)
RowsOf(f) == {RowOf(f.id, f.symbols[j]) : j \in DOMAIN f.symbols}
FirstIds(f, k) == {f.symbols[j].id : j \in 1 .. k}
FirstRows(f, k) == {RowOf(f.id, f.symbols[j]) : j \in 1 .. k}

LEMMA MergesLeave ==
    ASSUME NEW t, Legal(t), NEW f, f.id \in t.folders, f.symbols \in Seq(SymbolRecord), ValidFolder(f)
    PROVE  LET e == MergeItems(t, f)
           IN  /\ Legal(e) /\ e.folders = t.folders
               /\ e.items = {r \in t.items : r.id \notin Ids(f.symbols)} \cup RowsOf(f)
               /\ t.ok /\ (\A r \in t.items : r.folder = f.id =>
                              \E j \in DOMAIN f.symbols : r.id = f.symbols[j].id
                                                          /\ r.symbol = Normalize(f.symbols[j].ticker))
                  => e.ok
<1> DEFINE n == Len(f.symbols)
           fits == \A r \in t.items : r.folder = f.id =>
                      \E j \in DOMAIN f.symbols : r.id = f.symbols[j].id
                                                  /\ r.symbol = Normalize(f.symbols[j].ticker)
<1>1. /\ DOMAIN f.symbols = 1 .. n /\ n \in Nat
      /\ \A i \in 1 .. n : f.symbols[i] \in SymbolRecord
      /\ \A i, j \in 1 .. n : f.symbols[i].id = f.symbols[j].id => i = j
      /\ \A i, j \in 1 .. n : Normalize(f.symbols[i].ticker) = Normalize(f.symbols[j].ticker) => i = j
  BY FolderShape
<1>2. PICK g : Merges(g, t, f, n) /\ MergeItems(t, f) = g[n]
  BY <1>1, MergeItemsAre
<1> HIDE DEF n
<1>3. g[0] = t /\ \A k \in 1 .. n : g[k] = MergeItem(g[k - 1], f.id, f.symbols[k])
  BY <1>1, <1>2 DEF Merges
<1> DEFINE Left(k) ==
              /\ Legal(g[k]) /\ g[k].folders = t.folders
              /\ g[k].items = {r \in t.items : r.id \notin FirstIds(f, k)} \cup FirstRows(f, k)
              /\ t.ok /\ fits => g[k].ok
           S == {k \in Nat : k <= n => Left(k)}
<1>4. 0 \in S
  <2>1. FirstIds(f, 0) = {} /\ FirstRows(f, 0) = {}
    BY DEF FirstIds, FirstRows
  <2>2. QED
    BY <1>3, <2>1
<1>5. ASSUME NEW k \in Nat, k \in S PROVE k + 1 \in S
  <2> SUFFICES ASSUME k + 1 <= n PROVE Left(k + 1)
    OBVIOUS
  <2> DEFINE s == f.symbols[k + 1]
             x == g[k]
             e == g[k + 1]
             others == {r \in x.items : r.id # s.id}
  <2>1. Left(k) /\ k + 1 \in 1 .. n
    BY <1>1, <1>5
  <2>2. e = MergeItem(x, f.id, s) /\ s \in SymbolRecord
    <3>1. (k + 1) - 1 = k
      OBVIOUS
    <3>2. QED
      BY <1>1, <1>3, <2>1, <3>1
  <2>3. Legal(e) /\ e.folders = t.folders
    BY <2>1, <2>2, MergeIsLegal
  <2>4. /\ e.items = others \cup {RowOf(f.id, s)}
        /\ e.ok = (x.ok /\ \A r \in others : r.folder = f.id => r.symbol # RowOf(f.id, s).symbol)
    BY <2>1, <2>2 DEF MergeItem, Legal, Tabs
  <2>5. /\ FirstIds(f, k + 1) = FirstIds(f, k) \cup {s.id}
        /\ FirstRows(f, k + 1) = FirstRows(f, k) \cup {RowOf(f.id, s)}
    <3>1. \A j : j \in 1 .. k + 1 <=> j \in 1 .. k \/ j = k + 1
      OBVIOUS
    <3>2. QED
      BY <3>1 DEF FirstIds, FirstRows
  <2>6. \A r \in FirstRows(f, k) :
           \E j \in 1 .. n : j # k + 1 /\ r.id = f.symbols[j].id /\ r.symbol = Normalize(f.symbols[j].ticker)
    <3>1. \A j \in 1 .. k : j \in 1 .. n /\ j # k + 1
      BY <1>1, <2>1
    <3>2. QED
      BY <3>1 DEF FirstRows, RowOf
  <2>7. \A r \in FirstRows(f, k) : r.id # s.id /\ r.symbol # Normalize(s.ticker)
    BY <1>1, <2>1, <2>6
  <2> HIDE DEF s, x, e
  <2>8. e.items = {r \in t.items : r.id \notin FirstIds(f, k + 1)} \cup FirstRows(f, k + 1)
    <3>1. x.items = {r \in t.items : r.id \notin FirstIds(f, k)} \cup FirstRows(f, k)
      BY <2>1 DEF x
    <3>2. QED
      BY <2>4, <2>5, <2>7, <3>1
  <2>9. ASSUME t.ok, fits PROVE e.ok
    <3>1. x.ok
      BY <2>1, <2>9 DEF x
    <3>2. ASSUME NEW r \in others, r.folder = f.id PROVE r.symbol # Normalize(s.ticker)
      <4>1. CASE r \in FirstRows(f, k)
        BY <2>7, <4>1
      <4>2. CASE r \in t.items
        <5>1. PICK j \in 1 .. n : r.id = f.symbols[j].id /\ r.symbol = Normalize(f.symbols[j].ticker)
          BY <1>1, <2>9, <3>2, <4>2
        <5>2. j # k + 1
          BY <5>1 DEF s
        <5>3. QED
          BY <1>1, <2>1, <5>1, <5>2 DEF s
      <4>3. QED
        BY <2>1, <3>2, <4>1, <4>2 DEF x
    <3>3. RowOf(f.id, s).symbol = Normalize(s.ticker)
      BY DEF RowOf
    <3>4. QED
      BY <2>4, <3>1, <3>2, <3>3
  <2>10. QED
    BY <2>3, <2>8, <2>9 DEF e
<1> HIDE DEF S
<1>6. Nat \subseteq S
  BY <1>4, <1>5, SetInduction
<1>7. Left(n)
  BY <1>1, <1>6 DEF S
<1>8. FirstIds(f, n) = Ids(f.symbols) /\ FirstRows(f, n) = RowsOf(f)
  BY <1>1 DEF FirstIds, FirstRows, Ids, RowsOf
<1>9. QED
  BY <1>2, <1>7, <1>8

LEMMA TabsRewritten ==
    ASSUME NEW t \in Tabs, NEW F, NEW R, NEW u, u = [t EXCEPT !.folders = F, !.items = R]
    PROVE  u = [folders |-> F, items |-> R, ok |-> t.ok]
<1>1. PICK a \in SUBSET FolderIds, b \in SUBSET Row, c \in BOOLEAN : t = [folders |-> a, items |-> b, ok |-> c]
  BY DEF Tabs
<1>2. ASSUME NEW x, t = [folders |-> a, items |-> b, ok |-> x] PROVE u = [folders |-> F, items |-> R, ok |-> x]
  BY <1>2
<1>3. t.ok = c
  BY <1>1
<1>4. QED
  BY <1>1, <1>2, <1>3

(* One turn of the loop.                                                   *)
LEMMA TurnLeaves ==
    ASSUME NEW t, Legal(t), NEW f, f.id \in FolderIds, f.symbols \in Seq(SymbolRecord), ValidFolder(f)
    PROVE  LET e == WriteFolder(t, f)
           IN  /\ Legal(e) /\ e.folders = t.folders \cup {f.id}
               /\ e.items = {r \in t.items : r.folder # f.id /\ r.id \notin Ids(f.symbols)} \cup RowsOf(f)
               /\ t.ok /\ (\A r \in t.items, j \in DOMAIN f.symbols :
                              r.id = f.symbols[j].id => r.symbol = Normalize(f.symbols[j].ticker))
                  => e.ok
<1> DEFINE c == Cleared(t, f)
           e == WriteFolder(t, f)
<1>1. /\ c.folders = t.folders \cup {f.id} /\ c.ok = t.ok
      /\ c.items = {r \in t.items : r.folder = f.id => r.id \in Ids(f.symbols)}
      /\ c = [folders |-> c.folders, items |-> c.items, ok |-> c.ok]
  <2> DEFINE F == t.folders \cup {f.id}
             R == {r \in t.items : r.folder = f.id => r.id \in Ids(f.symbols)}
  <2>1. c = [t EXCEPT !.folders = F, !.items = R] /\ t \in Tabs
    BY DEF Cleared, Legal
  <2> HIDE DEF c, F, R
  <2>2. c = [folders |-> F, items |-> R, ok |-> t.ok]
    BY <2>1, TabsRewritten
  <2>3. QED
    BY <2>2 DEF F, R
<1>2. e = MergeItems(c, f)
  BY DEF WriteFolder
<1> HIDE DEF c, e
<1>3. c \in Tabs
  <2>1. t.folders \in SUBSET FolderIds /\ t.items \in SUBSET Row /\ t.ok \in BOOLEAN
    BY DEF Legal, Tabs
  <2>2. c.folders \in SUBSET FolderIds /\ c.items \in SUBSET Row /\ c.ok \in BOOLEAN
    BY <1>1, <2>1
  <2>3. QED
    BY <1>1, <2>2 DEF Tabs
<1>4. Legal(c)
  BY <1>1, <1>3 DEF Legal
<1>5. /\ Legal(e) /\ e.folders = c.folders
      /\ e.items = {r \in c.items : r.id \notin Ids(f.symbols)} \cup RowsOf(f)
      /\ c.ok /\ (\A r \in c.items : r.folder = f.id =>
                     \E j \in DOMAIN f.symbols : r.id = f.symbols[j].id
                                                 /\ r.symbol = Normalize(f.symbols[j].ticker))
         => e.ok
  BY <1>1, <1>2, <1>4, MergesLeave
<1>6. {r \in c.items : r.id \notin Ids(f.symbols)}
         = {r \in t.items : r.folder # f.id /\ r.id \notin Ids(f.symbols)}
  BY <1>1
<1>7. ASSUME \A r \in t.items, j \in DOMAIN f.symbols :
                r.id = f.symbols[j].id => r.symbol = Normalize(f.symbols[j].ticker),
             NEW r \in c.items, r.folder = f.id
      PROVE  \E j \in DOMAIN f.symbols : r.id = f.symbols[j].id /\ r.symbol = Normalize(f.symbols[j].ticker)
  <2>1. r \in t.items /\ r.id \in Ids(f.symbols)
    BY <1>1, <1>7
  <2>2. PICK j \in DOMAIN f.symbols : r.id = f.symbols[j].id
    BY <2>1 DEF Ids
  <2>3. QED
    BY <1>7, <2>1, <2>2
<1>8. QED
  BY <1>1, <1>5, <1>6, <1>7 DEF e

-----------------------------------------------------------------------------
(* The tables after the first turns, when no row is in two folders of the  *)
(* payload: what they rewrote, and what they have not yet come to.         *)
FirstFolders(p, k) == {p[i].id : i \in 1 .. k}
RowsOfFirst(p, k) == UNION {RowsOf(p[i]) : i \in 1 .. k}
Untouched(t, p, k) ==
    {r \in t.items : \A i \in 1 .. k : r.folder # p[i].id /\ r.id \notin Ids(p[i].symbols)}
Kept(t, p) ==
    \A r \in t.items, i \in DOMAIN p : \A j \in DOMAIN p[i].symbols :
       r.id = p[i].symbols[j].id => r.symbol = Normalize(p[i].symbols[j].ticker)

LEMMA TurnsAreLegal ==
    ASSUME NEW p \in Payloads, NEW t, Legal(t)
    PROVE  Legal(WriteFolders(t, p))
<1> DEFINE n == Len(p)
<1>1. /\ DOMAIN p = 1 .. n /\ n \in Nat
      /\ \A i \in 1 .. n : p[i].id \in FolderIds /\ ValidFolder(p[i]) /\ p[i].symbols \in Seq(SymbolRecord)
  BY PayloadShape
<1>2. PICK g : Turns(g, t, p, n) /\ WriteFolders(t, p) = g[n]
  BY <1>1, WriteFoldersAre
<1> HIDE DEF n
<1>3. g[0] = t /\ \A k \in 1 .. n : g[k] = WriteFolder(g[k - 1], p[k])
  BY <1>1, <1>2 DEF Turns
<1> DEFINE S == {k \in Nat : k <= n => Legal(g[k])}
<1>4. 0 \in S
  BY <1>3
<1>5. ASSUME NEW k \in Nat, k \in S PROVE k + 1 \in S
  <2>1. SUFFICES ASSUME k + 1 <= n PROVE Legal(g[k + 1])
    OBVIOUS
  <2>2. k + 1 \in 1 .. n /\ (k + 1) - 1 = k /\ Legal(g[k])
    BY <1>1, <1>5, <2>1
  <2>3. Legal(WriteFolder(g[k], p[k + 1]))
    BY <1>1, <2>2, TurnLeaves
  <2>4. QED
    BY <1>3, <2>2, <2>3
<1> HIDE DEF S
<1>6. Nat \subseteq S
  BY <1>4, <1>5, SetInduction
<1>7. QED
  BY <1>1, <1>2, <1>6 DEF S

LEMMA TurnsLeave ==
    ASSUME NEW p \in Payloads, UniqueRows(p), NEW t, Legal(t)
    PROVE  LET e == WriteFolders(t, p)
           IN  /\ e.folders = t.folders \cup Ids(p)
               /\ e.items = Untouched(t, p, Len(p)) \cup Wanted(p)
               /\ t.ok /\ Kept(t, p) => e.ok
<1> DEFINE n == Len(p)
<1>1. /\ DOMAIN p = 1 .. n /\ n \in Nat
      /\ \A i \in 1 .. n : p[i].id \in FolderIds /\ ValidFolder(p[i]) /\ p[i].symbols \in Seq(SymbolRecord)
      /\ \A i, j \in 1 .. n : p[i].id = p[j].id => i = j
  BY PayloadShape
<1>2. PICK g : Turns(g, t, p, n) /\ WriteFolders(t, p) = g[n]
  BY <1>1, WriteFoldersAre
<1>3. \A i, j \in 1 .. n : i # j => Ids(p[i].symbols) \cap Ids(p[j].symbols) = {}
  BY <1>1 DEF UniqueRows
<1> HIDE DEF n
<1>4. g[0] = t /\ \A k \in 1 .. n : g[k] = WriteFolder(g[k - 1], p[k])
  BY <1>1, <1>2 DEF Turns
<1> DEFINE Left(k) ==
              /\ Legal(g[k]) /\ g[k].folders = t.folders \cup FirstFolders(p, k)
              /\ g[k].items = Untouched(t, p, k) \cup RowsOfFirst(p, k)
              /\ t.ok /\ Kept(t, p) => g[k].ok
           S == {k \in Nat : k <= n => Left(k)}
<1>5. 0 \in S
  <2>1. FirstFolders(p, 0) = {} /\ RowsOfFirst(p, 0) = {} /\ Untouched(t, p, 0) = t.items
    BY DEF FirstFolders, RowsOfFirst, Untouched
  <2>2. QED
    BY <1>4, <2>1
<1>6. ASSUME NEW k \in Nat, k \in S PROVE k + 1 \in S
  <2>1. SUFFICES ASSUME k + 1 <= n PROVE Left(k + 1)
    OBVIOUS
  <2> DEFINE f == p[k + 1]
             x == g[k]
             e == g[k + 1]
  <2>2. Left(k) /\ k + 1 \in 1 .. n /\ (k + 1) - 1 = k
    BY <1>1, <1>6, <2>1
  <2>3. /\ e = WriteFolder(x, f)
        /\ f.id \in FolderIds /\ ValidFolder(f) /\ f.symbols \in Seq(SymbolRecord)
    BY <1>1, <1>4, <2>2
  <2>4. /\ Legal(e) /\ e.folders = x.folders \cup {f.id}
        /\ e.items = {r \in x.items : r.folder # f.id /\ r.id \notin Ids(f.symbols)} \cup RowsOf(f)
        /\ x.ok /\ (\A r \in x.items, j \in DOMAIN f.symbols :
                       r.id = f.symbols[j].id => r.symbol = Normalize(f.symbols[j].ticker))
           => e.ok
    <3>1. Legal(x)
      BY <2>2
    <3> HIDE DEF x, f, e, Left
    <3>2. QED
      BY <2>3, <3>1, TurnLeaves
  <2>5. \A i : i \in 1 .. k + 1 <=> i \in 1 .. k \/ i = k + 1
    OBVIOUS
  <2>6. /\ FirstFolders(p, k + 1) = FirstFolders(p, k) \cup {f.id}
        /\ RowsOfFirst(p, k + 1) = RowsOfFirst(p, k) \cup RowsOf(f)
        /\ Untouched(t, p, k + 1) = {r \in Untouched(t, p, k) : r.folder # f.id /\ r.id \notin Ids(f.symbols)}
    BY <2>5 DEF FirstFolders, RowsOfFirst, Untouched
  <2>7. \A r \in RowsOfFirst(p, k) : r.folder # f.id /\ r.id \notin Ids(f.symbols)
    <3> TAKE r \in RowsOfFirst(p, k)
    <3>1. PICK i \in 1 .. k : r \in RowsOf(p[i])
      BY DEF RowsOfFirst
    <3>2. i \in 1 .. n /\ i # k + 1
      BY <1>1, <2>2
    <3>3. r.folder = p[i].id /\ r.id \in Ids(p[i].symbols)
      BY <3>1 DEF RowsOf, RowOf, Ids
    <3>4. p[i].id # f.id /\ Ids(p[i].symbols) \cap Ids(f.symbols) = {}
      BY <1>1, <1>3, <2>2, <3>2
    <3>5. QED
      BY <3>3, <3>4
  <2>8. f = p[k + 1] /\ k + 1 \in DOMAIN p /\ x.items = Untouched(t, p, k) \cup RowsOfFirst(p, k)
    BY <1>1, <2>2
  <2>9. x.folders = t.folders \cup FirstFolders(p, k) /\ (t.ok /\ Kept(t, p) => x.ok)
    BY <2>2
  <2> HIDE DEF f, x, e, Left
  <2>10. e.items = Untouched(t, p, k + 1) \cup RowsOfFirst(p, k + 1)
    BY <2>4, <2>6, <2>7, <2>8
  <2>11. ASSUME t.ok, Kept(t, p) PROVE e.ok
    <3>1. ASSUME NEW r \in x.items, NEW j \in DOMAIN f.symbols, r.id = f.symbols[j].id
          PROVE  r.symbol = Normalize(f.symbols[j].ticker)
      <4>1. r.id \in Ids(f.symbols)
        BY <3>1 DEF Ids
      <4>2. r \in t.items
        BY <2>7, <2>8, <4>1 DEF Untouched
      <4>3. QED
        BY <2>8, <2>11, <3>1, <4>2 DEF Kept
    <3>2. QED
      BY <2>4, <2>9, <2>11, <3>1
  <2>12. QED
    BY <2>4, <2>6, <2>9, <2>10, <2>11 DEF Left, e
<1> HIDE DEF S
<1>7. Nat \subseteq S
  BY <1>5, <1>6, SetInduction
<1>8. Left(n)
  BY <1>1, <1>7 DEF S
<1>9. FirstFolders(p, n) = Ids(p) /\ RowsOfFirst(p, n) = Wanted(p)
  BY <1>1 DEF FirstFolders, Ids, RowsOfFirst, RowsOf, Wanted
<1>10. QED
  BY <1>2, <1>8, <1>9 DEF n

-----------------------------------------------------------------------------
(* The whole sync.                                                         *)
Begun(p) == DeleteFolders([folders |-> folders, items |-> items, ok |-> TRUE], p)

LEMMA BegunIsLegal ==
    ASSUME TablesOK, NEW p
    PROVE  /\ Legal(Begun(p)) /\ Begun(p).ok /\ Begun(p).folders = folders \cap Ids(p)
           /\ Begun(p).items = {r \in items : r.folder \in Ids(p)}
<1>1. Begun(p) = [folders |-> folders \cap Ids(p), items |-> {r \in items : r.folder \in Ids(p)}, ok |-> TRUE]
  <2> DEFINE t == [folders |-> folders, items |-> items, ok |-> TRUE]
             F == folders \cap Ids(p)
             R == {r \in items : r.folder \in Ids(p)}
  <2>1. t \in Tabs /\ t.folders = folders /\ t.items = items /\ t.ok = TRUE
    BY DEF Tabs, TablesOK
  <2> HIDE DEF t
  <2>2. Begun(p) = [t EXCEPT !.folders = F, !.items = R]
    BY <2>1 DEF Begun, DeleteFolders, t
  <2> HIDE DEF F, R
  <2>3. Begun(p) = [folders |-> F, items |-> R, ok |-> TRUE]
    BY <2>1, <2>2, TabsRewritten
  <2>4. QED
    BY <2>3 DEF F, R
<1>2. Begun(p) \in Tabs
  BY <1>1 DEF Tabs, TablesOK
<1>3. QED
  BY <1>1, <1>2 DEF Legal, TablesOK

LEMMA SyncKeepsTypes == TablesOK /\ [TablesNext]_rowVars => TablesOK'
<1> SUFFICES ASSUME TablesOK, [TablesNext]_rowVars PROVE TablesOK'
  OBVIOUS
<1>1. ASSUME NEW p \in Payloads, Sync(p) PROVE TablesOK'
  <2> DEFINE e == WriteFolders(Begun(p), p)
             w == Written(p)
  <2>1. Legal(e)
    BY BegunIsLegal, TurnsAreLegal
  <2>2. w = DeleteItems(e, p)
    BY DEF Written, Begun
  <2> HIDE DEF e
  <2>3. w.folders = e.folders /\ w.items \subseteq e.items /\ w.ok = e.ok
    BY <2>1, <2>2 DEF DeleteItems, Legal, Tabs
  <2>4. CASE w.ok /\ folders' = w.folders /\ items' = w.items
    BY <2>1, <2>3, <2>4 DEF Legal, Tabs, TablesOK
  <2>5. CASE UNCHANGED rowVars
    BY <2>5 DEF rowVars, TablesOK
  <2>6. QED
    BY <1>1, <2>4, <2>5 DEF Sync
<1>2. CASE UNCHANGED rowVars
  BY <1>2 DEF rowVars, TablesOK
<1>3. QED
  BY <1>1, <1>2 DEF TablesNext

(* The tables keep the constraints of the schema: no row without its       *)
(* folder, none twice, no symbol twice in a folder                         *)
(* (sync_workspace, app/sql/watchlist_folder.sql).                         *)
THEOREM TablesStayLegal == TablesSpec => []TablesOK
<1>1. TablesInit => TablesOK
  BY DEF TablesInit, TablesOK
<1>2. QED
  BY <1>1, SyncKeepsTypes, PTL DEF TablesSpec

LEMMA SyncLeaves ==
    ASSUME TablesOK, NEW p \in Payloads, UniqueRows(p)
    PROVE  /\ Written(p).folders = Ids(p) /\ Written(p).items = Wanted(p)
           /\ (\A w \in Wanted(p), r \in items : r.id = w.id => r.symbol = w.symbol) => Written(p).ok
<1> DEFINE t == Begun(p)
           e == WriteFolders(t, p)
           w == Written(p)
<1>1. /\ Legal(t) /\ t.ok /\ t.folders = folders \cap Ids(p)
      /\ t.items = {r \in items : r.folder \in Ids(p)}
  BY BegunIsLegal
<1>2. /\ e.folders = t.folders \cup Ids(p) /\ e.items = Untouched(t, p, Len(p)) \cup Wanted(p)
      /\ Kept(t, p) => e.ok
  BY <1>1, TurnsLeave
<1>3. e \in Tabs
  BY <1>1, TurnsAreLegal DEF Legal
<1>4. w = DeleteItems(e, p)
  BY DEF Written, Begun
<1> HIDE DEF t, e, w
<1>5. DOMAIN p = 1 .. Len(p)
  BY PayloadShape
<1>6. Untouched(t, p, Len(p)) = {}
  <2>1. SUFFICES ASSUME NEW r \in t.items, \A i \in DOMAIN p : r.folder # p[i].id PROVE FALSE
    BY <1>5 DEF Untouched
  <2>2. QED
    BY <1>1, <2>1 DEF Ids
<1>7. \A r \in Wanted(p) : r.id \in ItemIdsOf(p)
  BY DEF Wanted, RowOf, ItemIdsOf, Ids
<1>8. w.folders = Ids(p) /\ w.items = Wanted(p) /\ w.ok = e.ok
  <2>1. e.folders = Ids(p) /\ e.items = Wanted(p)
    BY <1>1, <1>2, <1>6
  <2>2. {r \in Wanted(p) : r.id \in ItemIdsOf(p)} = Wanted(p)
    BY <1>7
  <2>3. QED
    BY <1>3, <1>4, <2>1, <2>2 DEF DeleteItems, Tabs
<1>9. ASSUME \A v \in Wanted(p), r \in items : r.id = v.id => r.symbol = v.symbol
      PROVE  Kept(t, p)
  <2>1. SUFFICES ASSUME NEW r \in t.items, NEW i \in DOMAIN p, NEW j \in DOMAIN p[i].symbols,
                        r.id = p[i].symbols[j].id
                 PROVE  r.symbol = Normalize(p[i].symbols[j].ticker)
    BY DEF Kept
  <2>2. RowOf(p[i].id, p[i].symbols[j]) \in Wanted(p)
    BY DEF Wanted
  <2>3. /\ RowOf(p[i].id, p[i].symbols[j]).id = p[i].symbols[j].id
        /\ RowOf(p[i].id, p[i].symbols[j]).symbol = Normalize(p[i].symbols[j].ticker)
    BY DEF RowOf
  <2>4. QED
    BY <1>1, <1>9, <2>1, <2>2, <2>3
<1>10. QED
  BY <1>2, <1>8, <1>9 DEF w

(* A sync that commits leaves exactly the folders and rows of its payload, *)
(* rows that change folder or symbol included; only symbols that change    *)
(* can make it run into the unique index (sync_workspace).                 *)
THEOREM SyncsAreExact == TablesSpec => []SyncHolds
<1>1. TablesOK => SyncHolds
  BY SyncLeaves DEF SyncHolds, SyncIsExact, KeptSymbolsSync
<1>2. QED
  BY <1>1, TablesStayLegal, PTL
=============================================================================
