--------------------------- MODULE WatchlistTables ---------------------------
(***************************************************************************)
(* What the statements of WatchlistAdapter.sync_workspace leave in         *)
(* WATCHLIST_FOLDER and WATCHLIST_ITEM for one user: the step Write of     *)
(* WatchlistSync, folder by folder and row by row.  The order matters,     *)
(* since rows move between folders and the unique index on folder and      *)
(* symbol is checked at every MERGE.  Names, colours and positions are     *)
(* left out, and with them the checks of one field (empty name, pattern    *)
(* of a symbol).                                                           *)
(***************************************************************************)
EXTENDS Naturals, Sequences, SequencesExt

CONSTANTS
    FolderIds, ItemIds,
    Symbols, Spellings,     \* a ticker as typed is a symbol in some spelling
    MaxFolders, MaxSymbolsPerFolder, MaxTotalSymbols

VARIABLES
    folders,    \* ids in WATCHLIST_FOLDER
    items       \* rows of WATCHLIST_ITEM

rowVars == <<folders, items>>

Row == [id : ItemIds, folder : FolderIds, symbol : Symbols]
Ticker == [symbol : Symbols, spelling : Spellings]
SymbolRecord == [id : ItemIds, ticker : Ticker]
FolderRecord == [id : FolderIds, symbols : BoundedSeq(SymbolRecord, MaxSymbolsPerFolder)]

(* _normalize_symbol: strip and upper case.                                *)
Normalize(t) == t.symbol

Ids(seq) == {seq[i].id : i \in DOMAIN seq}
Injective(seq, key(_)) == \A i, j \in DOMAIN seq : key(seq[i]) = key(seq[j]) => i = j
ItemIdsOf(p) == UNION {Ids(p[i].symbols) : i \in DOMAIN p}

-----------------------------------------------------------------------------
(* _validate_workspace: the ids of rows are compared within a folder.      *)
ValidFolder(f) ==
    /\ Injective(f.symbols, LAMBDA s : s.id)
    /\ Injective(f.symbols, LAMBDA s : Normalize(s.ticker))

TotalSymbols(p) == FoldLeft(LAMBDA n, f : n + Len(f.symbols), 0, p)

ValidateWorkspace(p) ==
    /\ Injective(p, LAMBDA f : f.id)
    /\ \A i \in DOMAIN p : ValidFolder(p[i])
    /\ TotalSymbols(p) <= MaxTotalSymbols

(* What a client can send and the validation lets through; the rest is     *)
(* answered with 400 and changes nothing.                                  *)
Payloads == {p \in BoundedSeq(FolderRecord, MaxFolders) : ValidateWorkspace(p)}

-----------------------------------------------------------------------------
(* A transaction under way: the tables it sees, and ok while no statement  *)
(* has raised.                                                             *)

(* The row a symbol of the payload asks for.                               *)
RowOf(f, s) == [id |-> s.id, folder |-> f, symbol |-> Normalize(s.ticker)]

(* DELETE of the folders the payload does not have, with their rows.       *)
DeleteFolders(t, p) ==
    [t EXCEPT !.folders = @ \cap Ids(p), !.items = {r \in @ : r.folder \in Ids(p)}]

(* Mutant of MergeItem: a row that exists does not change its folder.      *)
MergeItem_StaysInFolder(t, f, s) ==
    LET old == {r \in t.items : r.id = s.id}
        home == IF old = {} THEN f ELSE (CHOOSE r \in old : TRUE).folder
    IN  [t EXCEPT !.items = (@ \ old) \cup
            {[id |-> s.id, folder |-> home, symbol |-> Normalize(s.ticker)]}]

(* Mutant of MergeItem: a row is looked up by id and folder.               *)
MergeItem_PerFolder(t, f, s) ==
    LET others == {r \in t.items : r.id # s.id \/ r.folder # f}
    IN  [t EXCEPT !.items = others \cup {RowOf(f, s)},
                  !.ok = @ /\ \A r \in others : r.folder = f => r.symbol # RowOf(f, s).symbol]

(* MERGE by id; uq_watchlist_item_folder_symbol raises when another row of *)
(* the folder has the symbol.                                              *)
MergeItem(t, f, s) ==
    LET others == {r \in t.items : r.id # s.id}
    IN  [t EXCEPT !.items = others \cup {RowOf(f, s)},
                  !.ok = @ /\ \A r \in others : r.folder = f => r.symbol # RowOf(f, s).symbol]

(* The rows of a folder, MERGEd one after the other.                       *)
MergeItems(t, f) ==
    LET merged[k \in 0 .. Len(f.symbols)] ==
            IF k = 0 THEN t ELSE MergeItem(merged[k - 1], f.id, f.symbols[k])
    IN  merged[Len(f.symbols)]

(* Mutant of WriteFolder: the rows that go are deleted after the MERGEs,   *)
(* so a symbol cannot move to a new row.                                   *)
WriteFolder_MergesFirst(t, f) ==
    LET merged == MergeItems([t EXCEPT !.folders = @ \cup {f.id}], f)
    IN  [merged EXCEPT !.items = {r \in @ : r.folder = f.id => r.id \in Ids(f.symbols)}]

(* MERGE of the folder and DELETE of the rows it no longer has.            *)
Cleared(t, f) ==
    [t EXCEPT !.folders = @ \cup {f.id},
              !.items = {r \in @ : r.folder = f.id => r.id \in Ids(f.symbols)}]

(* One turn of the loop: then the rows the folder has now.                 *)
WriteFolder(t, f) == MergeItems(Cleared(t, f), f)

WriteFolders(t, p) ==
    LET written[k \in 0 .. Len(p)] == IF k = 0 THEN t ELSE WriteFolder(written[k - 1], p[k])
    IN  written[Len(p)]

(* The last DELETE runs only if the payload has rows.                      *)
DeleteItems(t, p) ==
    IF ItemIdsOf(p) = {} THEN t
    ELSE [t EXCEPT !.items = {r \in @ : r.id \in ItemIdsOf(p)}]

Written(p) ==
    LET start == [folders |-> folders, items |-> items, ok |-> TRUE]
    IN  DeleteItems(WriteFolders(DeleteFolders(start, p), p), p)

(* Commit, or rollback when a statement raised.                            *)
Sync(p) ==
    LET t == Written(p) IN
    \/ t.ok /\ folders' = t.folders /\ items' = t.items
    \/ ~t.ok /\ UNCHANGED rowVars

TablesInit == folders = {} /\ items = {}
TablesNext == \E p \in Payloads : Sync(p)
TablesSpec == TablesInit /\ [][TablesNext]_rowVars

-----------------------------------------------------------------------------
(* Properties, over every state and every payload that can come next.      *)

(* The tables satisfy the constraints of app/sql/watchlist_folder.sql.     *)
TablesOK ==
    /\ folders \subseteq FolderIds
    /\ items \subseteq Row
    /\ \A r \in items : r.folder \in folders
    /\ \A r, s \in items :
        r.id = s.id \/ (r.folder = s.folder /\ r.symbol = s.symbol) => r = s

(* The rows a payload asks for.                                            *)
Wanted(p) ==
    UNION {{RowOf(p[i].id, p[i].symbols[j]) : j \in DOMAIN p[i].symbols} : i \in DOMAIN p}
UniqueRows(p) ==
    \A i, j \in DOMAIN p : i # j => Ids(p[i].symbols) \cap Ids(p[j].symbols) = {}

(* A sync that commits leaves exactly the folders and rows of its payload, *)
(* whatever was stored, rows that change folder or symbol included         *)
(* (sync_workspace).                                                       *)
SyncIsExact ==
    \A p \in Payloads : UniqueRows(p) =>
        LET t == Written(p) IN t.ok => t.folders = Ids(p) /\ t.items = Wanted(p)

(* A sync in which no stored row changes its symbol never runs into the    *)
(* unique index: rows may move, come and go, and a symbol may go from one  *)
(* row to another, in any order of folders (sync_workspace).               *)
KeptSymbolsSync ==
    \A p \in Payloads :
        /\ UniqueRows(p)
        /\ \A w \in Wanted(p), r \in items : r.id = w.id => r.symbol = w.symbol
        => Written(p).ok

(* A sync stores exactly its payload, or is refused as a whole; what it    *)
(* may be refused for are symbols that change (sync_workspace).            *)
SyncHolds == SyncIsExact /\ KeptSymbolsSync
=============================================================================
