---------------------------- MODULE AlertHistory ----------------------------
(***************************************************************************)
(* The alert history of one user's portfolio (table ALERT_HISTORY) and the *)
(* captures that keep it: a portfolio page, the morning brief page and the *)
(* morning brief dispatch each compute the alerts of the portfolio and     *)
(* record them one MERGE at a time, then resolve the active rows that they *)
(* did not report.  The alerts are an input: they come from a cache or     *)
(* from a new analysis, so two captures may well report different ones.    *)
(*                                                                         *)
(* Rows of one fingerprint and status differ only in their id and times,   *)
(* so the table is a count per fingerprint and status.  A MERGE looks for  *)
(* an active row when it starts and inserts when it commits; there is no   *)
(* unique constraint on the table, so two of them may both insert.         *)
(***************************************************************************)
EXTENDS Naturals

CONSTANTS
    Captures,       \* the requests and dispatch threads that record alerts
    Fingerprints,   \* _alert_fingerprint: one per action and symbol
    MaxRows,        \* bound: rows after which no capture begins
    NoAlert         \* no MERGE under way

VARIABLES
    history,    \* fingerprint -> status -> number of rows
    capture,    \* capture -> where it is and what it reports
    reported,   \* history variable: the alerts of the last capture that resolved
    broken,     \* history variable: a capture failed halfway and none resolved since
    met         \* history variable: capture -> the captures it overlapped

historyVars == <<history, capture, reported, broken, met>>

NoCapture == [at |-> "idle", alerts |-> {}, done |-> {}, fp |-> NoAlert, matched |-> FALSE]

Recording == {c \in Captures : capture[c].at # "idle"}
ActiveAlerts == {f \in Fingerprints : history[f].active > 0}

(* The rows there are: what the bound of HistoryNext counts.               *)
RowsOf[F \in SUBSET Fingerprints] ==
    IF F = {} THEN 0
    ELSE LET f == CHOOSE f \in F : TRUE
         IN  history[f].active + history[f].resolved + history[f].dismissed + RowsOf[F \ {f}]

HistoryInit ==
    /\ history = [f \in Fingerprints |-> [active |-> 0, resolved |-> 0, dismissed |-> 0]]
    /\ capture = [c \in Captures |-> NoCapture]
    /\ reported = {}
    /\ broken = FALSE
    /\ met = [c \in Captures |-> {}]

-----------------------------------------------------------------------------
(* record_alerts, with the alerts of the brief just computed.              *)
RecordBegins(c, alerts) ==
    /\ capture[c].at = "idle"
    /\ capture' = [capture EXCEPT ![c] = [NoCapture EXCEPT !.at = "next", !.alerts = alerts]]
    /\ met' = [d \in Captures |-> IF d = c THEN Recording
                                  ELSE IF d \in Recording THEN met[d] \cup {c} ELSE met[d]]
    /\ UNCHANGED <<history, reported, broken>>

(* upsert_active: the MERGE looks for an active row of the alert ...       *)
UpsertReads(c) ==
    /\ capture[c].at = "next"
    /\ \E f \in capture[c].alerts \ capture[c].done :
           capture' = [capture EXCEPT ![c].at = "merge", ![c].fp = f,
                                      ![c].matched = history[f].active > 0]
    /\ UNCHANGED <<history, reported, broken, met>>

(* Mutant of UpsertInserts: a plain INSERT.                                *)
UpsertInserts_Always(c) == TRUE

(* ... and commits.  The row it found may have been closed meanwhile: then *)
(* Oracle restarts the statement, which no longer finds it.  A row that    *)
(* came meanwhile is not seen.                                             *)
UpsertInserts(c) == ~capture[c].matched \/ history[capture[c].fp].active = 0

UpsertWrites(c) ==
    /\ capture[c].at = "merge"
    /\ history' = IF UpsertInserts(c)
                  THEN [history EXCEPT ![capture[c].fp].active = @ + 1] ELSE history
    /\ capture' = [capture EXCEPT ![c].at = "next", ![c].fp = NoAlert, ![c].matched = FALSE,
                                  ![c].done = @ \cup {capture[c].fp}]
    /\ UNCHANGED <<reported, broken, met>>

(* resolve_missing: every active row of another fingerprint is resolved.   *)
Resolved(row) == [row EXCEPT !.active = 0, !.resolved = @ + row.active]

(* Mutant of ResolveMissing: nothing is resolved when nothing is reported. *)
ResolveMissing_NotWhenEmpty(c) ==
    /\ capture[c].at = "next"
    /\ capture[c].done = capture[c].alerts
    /\ history' = [f \in Fingerprints |->
                     IF capture[c].alerts = {} \/ f \in capture[c].alerts
                     THEN history[f] ELSE Resolved(history[f])]
    /\ reported' = capture[c].alerts
    /\ broken' = FALSE
    /\ capture' = [capture EXCEPT ![c] = NoCapture]
    /\ UNCHANGED met

ResolveMissing(c) ==
    /\ capture[c].at = "next"
    /\ capture[c].done = capture[c].alerts
    /\ history' = [f \in Fingerprints |->
                     IF f \in capture[c].alerts THEN history[f] ELSE Resolved(history[f])]
    /\ reported' = capture[c].alerts
    /\ broken' = FALSE
    /\ capture' = [capture EXCEPT ![c] = NoCapture]
    /\ UNCHANGED met

(* A statement raises: record_alerts logs it and returns.                  *)
RecordFails(c) ==
    /\ capture[c].at # "idle"
    /\ capture' = [capture EXCEPT ![c] = NoCapture]
    /\ broken' = TRUE
    /\ UNCHANGED <<history, reported, met>>

(* dismiss: the user closes one active row.                                *)
Dismiss(f) ==
    /\ history[f].active > 0
    /\ history' = [history EXCEPT ![f].active = @ - 1, ![f].dismissed = @ + 1]
    /\ UNCHANGED <<capture, reported, broken, met>>

Records(c) == UpsertReads(c) \/ UpsertWrites(c) \/ ResolveMissing(c)

HistoryNext ==
    \/ /\ RowsOf[Fingerprints] < MaxRows
       /\ \E c \in Captures : \E alerts \in SUBSET Fingerprints : RecordBegins(c, alerts)
    \/ \E c \in Captures : Records(c) \/ RecordFails(c)
    \/ \E f \in Fingerprints : Dismiss(f)

HistorySpec == HistoryInit /\ [][HistoryNext]_historyVars

-----------------------------------------------------------------------------
(* Types of the variables.                                                 *)
HistoryTypeOK ==
    /\ history \in [Fingerprints -> [active : Nat, resolved : Nat, dismissed : Nat]]
    /\ capture \in [Captures -> [at : {"idle", "next", "merge"}, alerts : SUBSET Fingerprints,
                                 done : SUBSET Fingerprints,
                                 fp : Fingerprints \cup {NoAlert}, matched : BOOLEAN]]
    /\ reported \in SUBSET Fingerprints
    /\ broken \in BOOLEAN
    /\ met \in [Captures -> SUBSET Captures]

(* However captures interleave, once they are all done nothing is active   *)
(* that the last one did not report, unless one stopped halfway since:     *)
(* nobody's leftovers survive resolve_missing.                             *)
ActiveIsReported == Recording = {} /\ ~broken => ActiveAlerts \subseteq reported

(* A capture that overlapped no other leaves exactly its alerts active,    *)
(* but for those the user dismissed meanwhile; two that overlap may        *)
(* resolve each other's.                                                   *)
ExactWhenAlone ==
    [][\A c \in Captures : ResolveMissing(c) /\ met[c] = {} =>
          /\ ActiveAlerts' \subseteq capture[c].alerts
          /\ \A f \in capture[c].alerts : f \in ActiveAlerts' \/ history[f].dismissed > 0]_historyVars

(* A second active row of an alert takes two captures at once, one of      *)
(* them in the middle of its MERGE for that alert.                         *)
DuplicateNeedsOverlap ==
    [][\A f \in Fingerprints : history'[f].active > 1 /\ history'[f].active > history[f].active =>
          \E c \in Captures : capture[c].fp = f /\ met[c] # {}]_historyVars

(* Captures that do not meet keep the table exact, one active row for each *)
(* alert of the last (record_alerts).                                      *)
CapturesAreExact == ExactWhenAlone /\ DuplicateNeedsOverlap
=============================================================================
