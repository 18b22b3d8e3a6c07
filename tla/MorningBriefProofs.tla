------------------------- MODULE MorningBriefProofs -------------------------
(***************************************************************************)
(* Proofs about AlertHistory: however captures interleave, nothing stays   *)
(* active that the last one did not report; and about MorningBrief: what a *)
(* dispatch reports is true, and one that is neither forced nor beside     *)
(* another neither repeats a brief that is on record as sent nor takes the *)
(* record back.                                                            *)
(***************************************************************************)
EXTENDS MorningBrief, FiniteSetTheorems, TLAPS

(* While captures run, an active alert that the last one to resolve did    *)
(* not report was recorded by one that still runs, or left by one that     *)
(* failed.                                                                 *)
LeftoverHasOwner ==
    \A f \in ActiveAlerts \ reported : broken \/ \E c \in Recording : f \in capture[c].done

MergeHasAlert == \A c \in Captures : capture[c].at = "merge" => capture[c].fp \in Fingerprints

HistoryInv == HistoryTypeOK /\ LeftoverHasOwner /\ MergeHasAlert


CaptureType == [at : {"idle", "next", "merge"}, alerts : SUBSET Fingerprints,
                done : SUBSET Fingerprints, fp : Fingerprints \cup {NoAlert}, matched : BOOLEAN]

LEMMA IdleType == NoCapture \in CaptureType
BY DEF NoCapture, CaptureType

LEMMA HistoryInitInv == HistoryInit => HistoryInv
<1> SUFFICES ASSUME HistoryInit PROVE HistoryInv
  OBVIOUS
<1>1. HistoryTypeOK
  BY IdleType DEF HistoryInit, HistoryTypeOK, CaptureType
<1>2. ActiveAlerts = {}
  BY DEF HistoryInit, ActiveAlerts
<1>3. MergeHasAlert
  BY DEF HistoryInit, MergeHasAlert, NoCapture
<1>4. QED
  BY <1>1, <1>2, <1>3 DEF HistoryInv, LeftoverHasOwner

(* A new capture has recorded nothing, and disturbs no owner: it was idle. *)
LEMMA BeginsInv ==
    ASSUME HistoryInv, NEW c \in Captures, NEW alerts \in SUBSET Fingerprints,
           RecordBegins(c, alerts)
    PROVE  HistoryInv'
<1> USE DEF HistoryInv, HistoryTypeOK, MergeHasAlert
<1>1. HistoryTypeOK'
  BY DEF RecordBegins, NoCapture, Recording
<1>2. LeftoverHasOwner'
  BY DEF RecordBegins, NoCapture, Recording, LeftoverHasOwner, ActiveAlerts
<1>3. MergeHasAlert'
  BY DEF RecordBegins, NoCapture
<1>4. QED
  BY <1>1, <1>2, <1>3

LEMMA UpsertInv ==
    ASSUME HistoryInv, NEW c \in Captures, UpsertReads(c) \/ UpsertWrites(c)
    PROVE  HistoryInv'
<1> USE DEF HistoryInv, HistoryTypeOK
<1>0. capture \in [Captures -> CaptureType]
  BY DEF CaptureType
<1>1. CASE UpsertReads(c)
  <2>1. PICK f \in capture[c].alerts \ capture[c].done :
           capture' = [capture EXCEPT ![c].at = "merge", ![c].fp = f,
                                      ![c].matched = history[f].active > 0]
    BY <1>1 DEF UpsertReads
  <2>2. f \in Fingerprints /\ (history[f].active > 0) \in BOOLEAN
    BY <1>0 DEF CaptureType
  <2>3. capture' \in [Captures -> CaptureType]
    <3> DEFINE found == history[f].active > 0
               r == [capture[c] EXCEPT !.at = "merge", !.fp = f, !.matched = found]
    <3>1. capture' = [capture EXCEPT ![c] = r]
      BY <2>1
    <3>2. found \in BOOLEAN
      BY <2>2
    <3> HIDE DEF found
    <3>3. r \in CaptureType
      BY <1>0, <2>2, <3>2 DEF CaptureType
    <3> HIDE DEF r
    <3>4. QED
      BY <1>0, <3>1, <3>3
  <2>4. HistoryTypeOK' /\ MergeHasAlert'
    BY <1>0, <1>1, <2>1, <2>2, <2>3 DEF UpsertReads, CaptureType, MergeHasAlert
  <2>5. \A d \in Captures : d \in Recording => d \in Recording' /\ capture'[d].done = capture[d].done
    BY <1>0, <2>1 DEF CaptureType, Recording
  <2>6. LeftoverHasOwner'
    BY <1>1, <2>5 DEF UpsertReads, LeftoverHasOwner, ActiveAlerts, Recording
  <2>7. QED
    BY <2>4, <2>6
<1>2. CASE UpsertWrites(c)
  <2>. DEFINE f == capture[c].fp
  <2>0. f \in Fingerprints
    BY <1>2 DEF UpsertWrites, MergeHasAlert
  <2>1. capture' = [capture EXCEPT ![c].at = "next", ![c].fp = NoAlert, ![c].matched = FALSE,
                                   ![c].done = @ \cup {f}]
    BY <1>2 DEF UpsertWrites
  <2>2. /\ history' \in [Fingerprints -> [active : Nat, resolved : Nat, dismissed : Nat]]
        /\ \A g \in Fingerprints \ {f} : history'[g] = history[g]
    <3>1. CASE UpsertInserts(c)
      <4>1. history' = [history EXCEPT ![f].active = @ + 1]
        BY <1>2, <3>1 DEF UpsertWrites
      <4>2. history[f] \in [active : Nat, resolved : Nat, dismissed : Nat]
        BY <1>0, <2>0
      <4>3. [history[f] EXCEPT !.active = @ + 1] \in [active : Nat, resolved : Nat, dismissed : Nat]
        BY <4>2
      <4>4. history' = [history EXCEPT ![f] = [history[f] EXCEPT !.active = @ + 1]]
        BY <4>1
      <4> HIDE DEF f
      <4>5. QED
        BY <1>0, <2>0, <4>3, <4>4
    <3>2. CASE ~UpsertInserts(c)
      BY <1>2, <3>2 DEF UpsertWrites
    <3>3. QED
      BY <3>1, <3>2
  <2>3. capture' \in [Captures -> CaptureType]
    <3>1. capture[c] \in CaptureType
      BY <1>0
    <3>2. (capture[c].done \cup {f}) \in SUBSET Fingerprints
      BY <2>0, <3>1 DEF CaptureType
    <3>3. [capture[c] EXCEPT !.at = "next", !.fp = NoAlert, !.matched = FALSE,
                             !.done = @ \cup {f}] \in CaptureType
      BY <3>1, <3>2 DEF CaptureType
    <3>4. QED
      BY <1>0, <2>1, <3>3
  <2>4. HistoryTypeOK' /\ MergeHasAlert'
    BY <1>0, <1>2, <2>1, <2>2, <2>3 DEF UpsertWrites, CaptureType, MergeHasAlert
  <2>5. /\ \A d \in Recording : d \in Recording' /\ capture[d].done \subseteq capture'[d].done
        /\ c \in Recording' /\ f \in capture'[c].done
    BY <1>0, <2>1 DEF CaptureType, Recording
  <2>6. ActiveAlerts' \subseteq ActiveAlerts \cup {f}
    BY <2>2 DEF ActiveAlerts
  <2>7. LeftoverHasOwner'
    BY <1>2, <2>5, <2>6 DEF UpsertWrites, LeftoverHasOwner
  <2>8. QED
    BY <2>4, <2>7
<1>3. QED
  BY <1>1, <1>2

(* After a resolve every active row is one its capture reported.           *)
LEMMA ResolveInv ==
    ASSUME HistoryInv, NEW c \in Captures, ResolveMissing(c)
    PROVE  HistoryInv'
<1> USE DEF HistoryInv, HistoryTypeOK, MergeHasAlert
<1>1. \A f \in Fingerprints : history'[f] = IF f \in capture[c].alerts THEN history[f]
                                           ELSE Resolved(history[f])
  BY DEF ResolveMissing
<1>2. \A f \in Fingerprints : /\ Resolved(history[f]) \in [active : Nat, resolved : Nat, dismissed : Nat]
                               /\ Resolved(history[f]).active = 0
  <2>1. TAKE f \in Fingerprints
  <2>2. history[f] \in [active : Nat, resolved : Nat, dismissed : Nat]
    OBVIOUS
  <2>3. history[f].resolved + history[f].active \in Nat
    BY <2>2
  <2>4. QED
    BY <2>2, <2>3 DEF Resolved
<1>3. HistoryTypeOK'
  BY <1>1, <1>2 DEF ResolveMissing, NoCapture
<1>4. ActiveAlerts' \subseteq reported'
  BY <1>1, <1>2 DEF ResolveMissing, ActiveAlerts
<1>5. MergeHasAlert'
  BY DEF ResolveMissing, NoCapture, MergeHasAlert
<1>6. QED
  BY <1>3, <1>4, <1>5 DEF LeftoverHasOwner

LEMMA FailsInv ==
    ASSUME HistoryInv, NEW c \in Captures, RecordFails(c)
    PROVE  HistoryInv'
BY DEF HistoryInv, HistoryTypeOK, MergeHasAlert, RecordFails, NoCapture, LeftoverHasOwner

LEMMA DismissInv ==
    ASSUME HistoryInv, NEW f \in Fingerprints, Dismiss(f)
    PROVE  HistoryInv'
<1> USE DEF HistoryInv, HistoryTypeOK, MergeHasAlert
<1>1. HistoryTypeOK'
  BY DEF Dismiss
<1>2. ActiveAlerts' \subseteq ActiveAlerts
  BY DEF Dismiss, ActiveAlerts
<1>3. QED
  BY <1>1, <1>2 DEF Dismiss, LeftoverHasOwner, Recording

LEMMA StutterInv == HistoryInv /\ UNCHANGED historyVars => HistoryInv'
BY DEF HistoryInv, HistoryTypeOK, MergeHasAlert, LeftoverHasOwner, historyVars, ActiveAlerts, Recording

LEMMA HistoryInvReported == HistoryInv => ActiveIsReported
BY DEF HistoryInv, LeftoverHasOwner, ActiveIsReported

(* Once all captures are done, nothing is active that the last one did not *)
(* report, unless one stopped halfway since.                               *)
THEOREM HistoryIsReported == HistorySpec => []ActiveIsReported
<1>1. HistoryInv /\ [HistoryNext]_historyVars => HistoryInv'
  BY BeginsInv, UpsertInv, ResolveInv, FailsInv, DismissInv, StutterInv DEF HistoryNext, Records
<1>2. QED
  BY <1>1, HistoryInitInv, HistoryInvReported, PTL DEF HistorySpec

-----------------------------------------------------------------------------

Locations == {"idle", "check", "token", "snapshot", "record", "recording",
              "mail", "sent", "failed", "putSent", "putFailed"}

Thread == [at : Locations, force : BOOLEAN, snapped : Days \cup {NoDay},
           basis : Days \cup {NoDay}, target : Days \cup {NoDay},
           found : BOOLEAN, mailed : BOOLEAN, outcome : Outcomes, met : BOOLEAN]

(* What the steps below keep of the types.                                 *)
ThreadType ==
    /\ day \in Days
    /\ delivery \in [Days -> RowStatuses]
    /\ thread \in [Dispatches -> Thread]

(* The e-mail goes out between "mail" and "sent".                          *)
ReportInv ==
    \A d \in Dispatches :
        /\ thread[d].at \notin {"idle", "failed", "putFailed", "sent", "putSent"} => ~thread[d].mailed
        /\ thread[d].at \in {"sent", "putSent"} => thread[d].mailed
        /\ thread[d].at # "idle" => thread[d].outcome = "none"

(* No row is of a day to come.                                             *)
FutureInv ==
    /\ \A x \in Days : x > day => delivery[x] = "none"
    /\ \A d \in Dispatches : thread[d].target <= day

(* Two threads that run have met.                                          *)
MetInv == \A d, e \in Running : d # e => thread[d].met

(* A thread past its check, undisturbed, knows that its day is not sent.   *)
CheckedInv ==
    \A d \in Dispatches : Undisturbed(d) =>
        /\ thread[d].at \notin {"idle", "check"} => delivery[day] # "sent"
        /\ thread[d].at \in {"putSent", "putFailed"} => delivery[thread[d].target] # "sent"

BriefInv == ThreadType /\ ReportInv /\ FutureInv /\ MetInv /\ CheckedInv

-----------------------------------------------------------------------------
LEMMA BriefInit == Init => BriefInv
BY BriefBounds DEF Init, BriefInv, ThreadType, ReportInv, FutureInv, MetInv, CheckedInv, NoThread, Thread,
       Locations, Outcomes, RowStatuses, Running, Days, NoDay

(* Steps that leave days, rows and threads alone.                          *)
LEMMA QuietStep ==
    ASSUME BriefInv, UNCHANGED <<day, delivery, thread>>
    PROVE  BriefInv'
BY DEF BriefInv, ThreadType, ReportInv, FutureInv, MetInv, CheckedInv, Running, Undisturbed

(* A thread moves from one location to another.                            *)
LEMMA GotoStep ==
    ASSUME BriefInv, NEW d \in Dispatches, NEW l \in Locations \ {"idle", "check"},
           thread[d].at \notin {"idle", "check"}, Goto(d, l), UNCHANGED <<day, delivery>>,
           l \in {"sent", "putSent"} => thread[d].mailed,
           l \in {"failed", "putFailed", "sent", "putSent"} \/ ~thread[d].mailed,
           l \in {"putSent", "putFailed"} => delivery[thread[d].target] # "sent"
    PROVE  BriefInv'
<1>1. thread' = [thread EXCEPT ![d].at = l]
  BY DEF Goto
<1>2. ThreadType'
  BY <1>1 DEF BriefInv, ThreadType, Thread
<1>3. /\ thread'[d].at = l /\ thread'[d].mailed = thread[d].mailed
      /\ thread'[d].outcome = thread[d].outcome /\ thread'[d].target = thread[d].target
      /\ thread'[d].met = thread[d].met /\ thread'[d].force = thread[d].force
      /\ \A e \in Dispatches : e # d => thread'[e] = thread[e]
  BY <1>1 DEF BriefInv, ThreadType, Thread
<1>4. ReportInv'
  BY <1>3 DEF BriefInv, ReportInv
<1>5. FutureInv'
  BY <1>3 DEF BriefInv, FutureInv
<1>6. MetInv'
  BY <1>3 DEF BriefInv, MetInv, Running
<1>7. CheckedInv'
  BY <1>3 DEF BriefInv, CheckedInv, Undisturbed
<1>8. QED
  BY <1>2, <1>4, <1>5, <1>6, <1>7 DEF BriefInv

(* A thread ends.                                                          *)
LEMMA EndStep ==
    ASSUME BriefInv, NEW d \in Dispatches, NEW o \in Outcomes, End(d, o),
           UNCHANGED <<day, delivery>>
    PROVE  BriefInv'
<1> DEFINE t == [NoThread EXCEPT !.mailed = thread[d].mailed, !.outcome = o]
<1>1. thread' = [thread EXCEPT ![d] = t]
  BY DEF End
<1>2. thread[d].mailed \in BOOLEAN
  BY DEF BriefInv, ThreadType, Thread
<1>3. t \in Thread /\ t.at = "idle" /\ t.target = NoDay
  BY <1>2 DEF NoThread, Thread, Locations, Outcomes
<1> HIDE DEF t
<1>4. ThreadType'
  BY <1>1, <1>3 DEF BriefInv, ThreadType
<1>5. thread'[d] = t /\ \A e \in Dispatches : e # d => thread'[e] = thread[e]
  BY <1>1 DEF BriefInv, ThreadType
<1>6. ReportInv'
  BY <1>3, <1>5 DEF BriefInv, ReportInv
<1>7. FutureInv'
  BY <1>3, <1>5, BriefBounds DEF BriefInv, FutureInv, ThreadType, NoDay, Days
<1>8. MetInv'
  BY <1>3, <1>5 DEF BriefInv, MetInv, Running
<1>9. CheckedInv'
  BY <1>3, <1>5 DEF BriefInv, CheckedInv, Undisturbed
<1>10. QED
  BY <1>4, <1>6, <1>7, <1>8, <1>9 DEF BriefInv

(* A thread that ends reports the truth if its outcome is that of its mail. *)
LEMMA EndReport ==
    ASSUME ReportIsTrue, BriefInv, NEW d \in Dispatches, NEW o \in Outcomes, End(d, o),
           o = "sent" => thread[d].mailed, o = "skipped" => ~thread[d].mailed
    PROVE  ReportIsTrue'
BY DEF ReportIsTrue, End, NoThread, BriefInv, ThreadType

LEMMA GotoReport ==
    ASSUME ReportIsTrue, BriefInv, NEW d \in Dispatches, NEW l \in Locations, Goto(d, l)
    PROVE  ReportIsTrue'
BY DEF ReportIsTrue, Goto, BriefInv, ThreadType, Thread

LEMMA DispatchStep ==
    ASSUME BriefInv, NEW d \in Dispatches, NEW force \in BOOLEAN, Dispatch(d, force)
    PROVE  BriefInv' /\ (ReportIsTrue => ReportIsTrue')
<1> DEFINE m == Running # {}
           t == [NoThread EXCEPT !.at = "check", !.force = force, !.met = m]
<1>1. thread' = [e \in Dispatches |->
                    IF e = d THEN t
                    ELSE IF e \in Running THEN [thread[e] EXCEPT !.met = TRUE] ELSE thread[e]]
  BY DEF Dispatch
<1>2. /\ t \in Thread /\ t.at = "check" /\ t.target = NoDay /\ t.met = m
      /\ t.mailed = FALSE /\ t.outcome = "none"
  <2>1. m \in BOOLEAN
    OBVIOUS
  <2>2. QED
    BY <2>1 DEF NoThread, Thread, Locations, Outcomes
<1>3. thread[d].at = "idle" /\ UNCHANGED <<day, delivery>>
  BY DEF Dispatch
<1> HIDE DEF t
<1>4. ThreadType'
  <2>1. ASSUME NEW e \in Dispatches PROVE [thread[e] EXCEPT !.met = TRUE] \in Thread
    BY DEF BriefInv, ThreadType, Thread
  <2>2. QED
    BY <1>1, <1>2, <1>3, <2>1 DEF BriefInv, ThreadType
<1>5. /\ thread'[d] = t
      /\ \A e \in Dispatches : e # d =>
            /\ thread'[e].at = thread[e].at /\ thread'[e].mailed = thread[e].mailed
            /\ thread'[e].outcome = thread[e].outcome /\ thread'[e].target = thread[e].target
            /\ thread'[e].force = thread[e].force
            /\ thread[e].at # "idle" => thread'[e].met
            /\ thread[e].at = "idle" => thread'[e] = thread[e]
            /\ thread[e].met => thread'[e].met
  BY <1>1 DEF BriefInv, ThreadType, Thread, Running
<1>6. ReportInv'
  BY <1>2, <1>5 DEF BriefInv, ReportInv
<1>7. FutureInv'
  BY <1>2, <1>3, <1>5, BriefBounds DEF BriefInv, FutureInv, ThreadType, NoDay, Days
<1>8. MetInv'
  <2> SUFFICES ASSUME NEW e \in Running', NEW f \in Running', e # f
               PROVE  thread'[e].met
    BY DEF MetInv
  <2>1. CASE e # d
    BY <1>5, <2>1 DEF Running
  <2>2. CASE e = d
    <3>1. f \in Running
      BY <1>5, <2>2 DEF Running
    <3>2. QED
      BY <1>2, <1>5, <2>2, <3>1
  <2>3. QED
    BY <2>1, <2>2
<1>9. CheckedInv'
  BY <1>2, <1>3, <1>5 DEF BriefInv, CheckedInv, Undisturbed
<1>10. ReportIsTrue => ReportIsTrue'
  BY <1>2, <1>5 DEF ReportIsTrue
<1>11. QED
  BY <1>4, <1>6, <1>7, <1>8, <1>9, <1>10 DEF BriefInv

(* A new day has no row yet.                                               *)
LEMMA MidnightStep ==
    ASSUME BriefInv, Midnight
    PROVE  BriefInv'
<1>1. day \in Days /\ day' = day + 1 /\ day' \in Days /\ UNCHANGED <<delivery, thread>>
  BY BriefBounds DEF Midnight, BriefInv, ThreadType, Days
<1>2. ThreadType' /\ ReportInv' /\ MetInv'
  BY <1>1 DEF BriefInv, ThreadType, ReportInv, MetInv, Running
<1>3. FutureInv'
  <2>1. \A d \in Dispatches : thread[d].target \in Days \cup {NoDay}
    BY DEF BriefInv, ThreadType, Thread
  <2>2. QED
    BY <1>1, <2>1, BriefBounds DEF BriefInv, FutureInv, Days, NoDay
<1>4. delivery[day'] = "none"
  BY <1>1, BriefBounds DEF BriefInv, FutureInv, Days
<1>5. CheckedInv'
  BY <1>1, <1>4 DEF BriefInv, CheckedInv, Undisturbed
<1>6. QED
  BY <1>2, <1>3, <1>5 DEF BriefInv

(* The check itself: a thread that goes on found no sent row of the day,   *)
(* or is forced.                                                           *)
LEMMA CheckStep ==
    ASSUME BriefInv, NEW d \in Dispatches, Check(d)
    PROVE  BriefInv' /\ (ReportIsTrue => ReportIsTrue')
<1>0. thread[d].at = "check" /\ ~thread[d].mailed /\ UNCHANGED <<day, delivery>>
  BY DEF Check, BriefInv, ReportInv
<1>1. CASE Delivered(d)
  BY <1>0, <1>1, EndStep, EndReport DEF Check, Outcomes
<1>2. CASE ~Delivered(d)
  <2>1. thread' = [thread EXCEPT ![d].at = "token"]
    BY <1>2 DEF Check, Goto
  <2>2. ThreadType'
    BY <1>0, <2>1 DEF BriefInv, ThreadType, Thread, Locations
  <2>3. /\ thread'[d].at = "token" /\ thread'[d].mailed = thread[d].mailed
        /\ thread'[d].outcome = thread[d].outcome /\ thread'[d].target = thread[d].target
        /\ thread'[d].met = thread[d].met /\ thread'[d].force = thread[d].force
        /\ \A e \in Dispatches : e # d => thread'[e] = thread[e]
    BY <2>1 DEF BriefInv, ThreadType, Thread
  <2>4. ReportInv' /\ FutureInv' /\ MetInv'
    BY <1>0, <2>3 DEF BriefInv, ReportInv, FutureInv, MetInv, Running
  <2>5. ~thread[d].force => delivery[day] # "sent"
    BY <1>2 DEF Delivered
  <2>6. CheckedInv'
    BY <1>0, <2>3, <2>5 DEF BriefInv, CheckedInv, Undisturbed
  <2>7. QED
    BY <2>1, <2>2, <2>4, <2>6, GotoReport DEF BriefInv, Goto, Locations
<1>3. QED
  BY <1>1, <1>2

(* A step that moves one undisturbed thread, or gives it other data.       *)
LEMMA MoveStep ==
    ASSUME BriefInv, NEW d \in Dispatches, NEW t \in Thread, thread[d].at \notin {"idle", "check"},
           thread' = [thread EXCEPT ![d] = t], UNCHANGED <<day, delivery>>,
           t.at \notin {"idle", "check"}, t.outcome = thread[d].outcome, t.met = thread[d].met,
           t.force = thread[d].force, t.target <= day,
           t.at \in {"sent", "putSent"} => t.mailed,
           t.at \in {"failed", "putFailed", "sent", "putSent"} \/ ~t.mailed,
           t.at \in {"putSent", "putFailed"} => t.target = day
    PROVE  BriefInv' /\ (ReportIsTrue => ReportIsTrue')
<1>1. ThreadType'
  BY DEF BriefInv, ThreadType
<1>2. thread'[d] = t /\ \A e \in Dispatches : e # d => thread'[e] = thread[e]
  BY DEF BriefInv, ThreadType
<1>3. thread[d].outcome = "none"
  BY DEF BriefInv, ReportInv
<1>4. ReportInv' /\ FutureInv' /\ MetInv'
  BY <1>2 DEF BriefInv, ReportInv, FutureInv, MetInv, Running
<1>5. CheckedInv'
  BY <1>2 DEF BriefInv, CheckedInv, Undisturbed
<1>6. ReportIsTrue => ReportIsTrue'
  BY <1>2, <1>3 DEF ReportIsTrue
<1>7. QED
  BY <1>1, <1>4, <1>5, <1>6 DEF BriefInv

(* Steps of a thread before its e-mail.                                    *)
LEMMA BuildStep ==
    ASSUME BriefInv, NEW d \in Dispatches,
           GetToken(d) \/ CaptureSnapshot(d) \/ RecordAlerts(d) \/ BuildBrief(d) \/ BuildFails(d)
    PROVE  BriefInv' /\ (ReportIsTrue => ReportIsTrue')
<1>0. /\ thread[d].at \in {"token", "snapshot", "record", "recording"} /\ ~thread[d].mailed
      /\ UNCHANGED <<day, delivery>> /\ thread[d] \in Thread /\ thread[d].target <= day
  BY DEF GetToken, CaptureSnapshot, RecordAlerts, BuildBrief, BuildFails, BriefInv, ReportInv,
         ThreadType, FutureInv
<1>1. ASSUME NEW o \in {"skipped", "none"}, End(d, o)
      PROVE  BriefInv' /\ (ReportIsTrue => ReportIsTrue')
  BY <1>0, <1>1, EndStep, EndReport DEF Outcomes
<1>2. ASSUME NEW l \in {"snapshot", "record", "recording", "failed"}, Goto(d, l)
      PROVE  BriefInv' /\ (ReportIsTrue => ReportIsTrue')
  BY <1>0, <1>2, GotoStep, GotoReport DEF Locations
<1>3. CASE GetToken(d) \/ RecordAlerts(d) \/ BuildFails(d)
  BY <1>1, <1>2, <1>3 DEF GetToken, RecordAlerts, BuildFails
<1>4. CASE CaptureSnapshot(d) /\ ~Goto(d, "record")
  <2> DEFINE t == [thread[d] EXCEPT !.at = "record", !.snapped = day]
  <2>1. thread' = [thread EXCEPT ![d] = t]
    BY <1>4 DEF CaptureSnapshot
  <2>2. /\ t \in Thread /\ t.at = "record" /\ t.mailed = thread[d].mailed
        /\ t.outcome = thread[d].outcome /\ t.met = thread[d].met
        /\ t.force = thread[d].force /\ t.target = thread[d].target
    BY <1>0 DEF BriefInv, ThreadType, Thread, Locations
  <2> HIDE DEF t
  <2>3. QED
    BY <1>0, <2>1, <2>2, MoveStep
<1>5. CASE BuildBrief(d)
  <2>1. PICK s \in Days \cup {NoDay} :
           thread' = [thread EXCEPT ![d].at = "mail", ![d].basis = s]
    BY <1>5 DEF BuildBrief
  <2> DEFINE t == [thread[d] EXCEPT !.at = "mail", !.basis = s]
  <2>2. thread' = [thread EXCEPT ![d] = t]
    BY <2>1
  <2>3. /\ t \in Thread /\ t.at = "mail" /\ t.mailed = thread[d].mailed
        /\ t.outcome = thread[d].outcome /\ t.met = thread[d].met
        /\ t.force = thread[d].force /\ t.target = thread[d].target
    BY <1>0 DEF Thread, Locations
  <2> HIDE DEF t
  <2>4. QED
    BY <1>0, <2>2, <2>3, MoveStep
<1>6. QED
  BY <1>2, <1>3, <1>4, <1>5

LEMMA SendStep ==
    ASSUME BriefInv, NEW d \in Dispatches, SendEmail(d)
    PROVE  BriefInv' /\ (ReportIsTrue => ReportIsTrue')
<1>1. PICK taken \in BOOLEAN, answered \in BOOLEAN :
         thread' = [thread EXCEPT ![d].at = IF taken /\ answered THEN "sent" ELSE "failed",
                                  ![d].mailed = taken]
  BY DEF SendEmail
<1> DEFINE t == [thread[d] EXCEPT !.at = IF taken /\ answered THEN "sent" ELSE "failed",
                                  !.mailed = taken]
<1>2. /\ thread' = [thread EXCEPT ![d] = t]
      /\ thread[d].at = "mail" /\ UNCHANGED <<day, delivery>>
      /\ thread[d] \in Thread /\ thread[d].target <= day
  BY <1>1 DEF SendEmail, BriefInv, ThreadType, FutureInv
<1>3. /\ t \in Thread /\ t.at \in {"sent", "failed"} /\ (t.at = "sent" => t.mailed)
      /\ t.outcome = thread[d].outcome /\ t.met = thread[d].met
      /\ t.force = thread[d].force /\ t.target = thread[d].target
  BY <1>2 DEF Thread, Locations
<1> HIDE DEF t
<1>4. QED
  BY <1>2, <1>3, MoveStep

LEMMA ReadsStep ==
    ASSUME BriefInv, NEW d \in Dispatches, RecordReads(d)
    PROVE  BriefInv' /\ (ReportIsTrue => ReportIsTrue')
<1> DEFINE t == [thread[d] EXCEPT !.at = IF @ = "sent" THEN "putSent" ELSE "putFailed",
                                  !.target = day, !.found = delivery[day] # "none"]
<1>1. /\ thread' = [thread EXCEPT ![d] = t]
      /\ thread[d].at \in {"sent", "failed"} /\ UNCHANGED <<day, delivery>>
      /\ thread[d] \in Thread /\ day \in Days
      /\ thread[d].at = "sent" => thread[d].mailed
  BY DEF RecordReads, BriefInv, ThreadType, ReportInv
<1>2. (delivery[day] # "none") \in BOOLEAN
  OBVIOUS
<1>3. /\ t \in Thread /\ t.at = IF thread[d].at = "sent" THEN "putSent" ELSE "putFailed"
      /\ t.mailed = thread[d].mailed /\ t.target = day
      /\ t.outcome = thread[d].outcome /\ t.met = thread[d].met /\ t.force = thread[d].force
  BY <1>1, <1>2 DEF Thread, Locations
<1>4. t.target <= day
  BY <1>1, <1>3, BriefBounds DEF Days
<1> HIDE DEF t
<1>5. QED
  BY <1>1, <1>3, <1>4, MoveStep

(* The row of a day changes only through a thread that runs: whoever else  *)
(* runs has met it.                                                        *)
LEMMA WritesStep ==
    ASSUME BriefInv, NEW d \in Dispatches, RecordWrites(d)
    PROVE  BriefInv' /\ (ReportIsTrue => ReportIsTrue')
<1> DEFINE status == IF thread[d].at = "putSent" THEN "sent" ELSE "failed"
<1>0. /\ thread[d].at \in {"putSent", "putFailed"} /\ UNCHANGED day
      /\ thread[d].target \in Days \cup {NoDay} /\ thread[d].target <= day
      /\ thread[d].at = "putSent" => thread[d].mailed
  BY DEF RecordWrites, BriefInv, ThreadType, Thread, FutureInv, ReportInv
<1>1. CASE UNCHANGED delivery
  <2>1. CASE Goto(d, "failed") /\ status = "sent"
    BY <1>0, <1>1, <2>1, GotoStep, GotoReport DEF Locations
  <2>2. CASE End(d, status)
    BY <1>0, <1>1, <2>2, EndStep, EndReport DEF Outcomes
  <2>3. CASE End(d, "failed")
    BY <1>0, <1>1, <2>3, EndStep, EndReport DEF Outcomes
  <2>4. QED
    BY <2>1, <2>2, <2>3 DEF RecordWrites
<1>2. CASE /\ delivery' = [delivery EXCEPT ![thread[d].target] = status]
           /\ End(d, status)
  <2> DEFINE t == [NoThread EXCEPT !.mailed = thread[d].mailed, !.outcome = status]
  <2>1. thread' = [thread EXCEPT ![d] = t]
    BY <1>2 DEF End
  <2>2. t \in Thread /\ t.at = "idle" /\ t.target = NoDay
    <3>1. thread[d].mailed \in BOOLEAN
      BY DEF BriefInv, ThreadType, Thread
    <3>2. QED
      BY <3>1 DEF NoThread, Thread, Locations, Outcomes
  <2> HIDE DEF t
  <2>3. ThreadType'
    BY <1>0, <1>2, <2>1, <2>2 DEF BriefInv, ThreadType, RowStatuses
  <2>4. thread'[d] = t /\ \A e \in Dispatches : e # d => thread'[e] = thread[e]
    BY <2>1 DEF BriefInv, ThreadType
  <2>5. ReportInv' /\ MetInv'
    BY <2>2, <2>4 DEF BriefInv, ReportInv, MetInv, Running
  <2>6. FutureInv'
    BY <1>0, <1>2, <2>2, <2>4, BriefBounds DEF BriefInv, FutureInv, ThreadType, NoDay, Days
  <2>7. ASSUME NEW e \in Dispatches, thread'[e].at \notin {"idle", "check"} PROVE ~Undisturbed(e)'
    <3>1. e # d /\ thread'[e] = thread[e] /\ e \in Running /\ d \in Running
      BY <1>0, <2>2, <2>4, <2>7 DEF Running
    <3>2. thread[e].met
      BY <3>1 DEF BriefInv, MetInv
    <3>3. QED
      BY <3>1, <3>2 DEF Undisturbed
  <2>8. CheckedInv'
    BY <2>7 DEF CheckedInv
  <2>9. ReportIsTrue => ReportIsTrue'
    BY <1>0, <1>2, EndReport DEF Outcomes
  <2>10. QED
    BY <2>3, <2>5, <2>6, <2>8, <2>9 DEF BriefInv
<1>3. QED
  BY <1>1, <1>2 DEF RecordWrites

LEMMA CrashStep ==
    ASSUME BriefInv, NEW d \in Dispatches, Crash(d)
    PROVE  BriefInv' /\ (ReportIsTrue => ReportIsTrue')
BY EndStep, EndReport DEF Crash, Outcomes

LEMMA BriefStep == BriefInv /\ [Next]_vars => BriefInv' /\ (ReportIsTrue => ReportIsTrue')
<1> SUFFICES ASSUME BriefInv, [Next]_vars
             PROVE  BriefInv' /\ (ReportIsTrue => ReportIsTrue')
  OBVIOUS
<1>1. ASSUME UNCHANGED <<day, delivery, thread>>
      PROVE  BriefInv' /\ (ReportIsTrue => ReportIsTrue')
  BY <1>1, QuietStep DEF ReportIsTrue
<1>2. CASE UNCHANGED vars
  BY <1>1, <1>2 DEF vars, briefVars
<1>3. ASSUME NEW d \in Dispatches, ThreadStep(d)
      PROVE  BriefInv' /\ (ReportIsTrue => ReportIsTrue')
  BY <1>3, CheckStep, BuildStep, SendStep, ReadsStep, WritesStep DEF ThreadStep
<1>4. CASE Midnight
  BY <1>4, MidnightStep DEF ReportIsTrue, Midnight
<1>5. CASE \/ \E c \in Captures : AlertStep(c) \/ AlertFails(c)
           \/ PageSnapshot \/ Connection \/ \E f \in Fingerprints : DismissAlert(f)
  BY <1>1, <1>5 DEF AlertStep, AlertFails, PageSnapshot, Connection, DismissAlert, briefVars
<1>6. QED
  BY <1>2, <1>3, <1>4, <1>5, DispatchStep, CrashStep DEF Next

(* What a dispatch reports of a user is what happened.                     *)
THEOREM ReportsAreTrue == Spec => []ReportIsTrue
<1>1. Init => ReportIsTrue
  BY DEF Init, ReportIsTrue, NoThread
<1>2. QED
  BY <1>1, BriefInit, BriefStep, PTL DEF Spec

(* A dispatch that is neither forced nor beside another mails no day that  *)
(* is on record as sent.                                                   *)
THEOREM NoSecondBrief == Spec => OneBriefWhenAlone
<1>1. BriefInv /\ [Next]_vars =>
         [\A d \in Dispatches : SendEmail(d) /\ delivery[day] = "sent" => ~Undisturbed(d)]_vars
  BY DEF BriefInv, CheckedInv, SendEmail
<1>2. QED
  BY <1>1, BriefInit, BriefStep, PTL DEF Spec, OneBriefWhenAlone

(* Only a thread that writes its outcome changes the row of a day.         *)
LEMMA RowsChange ==
    ASSUME [Next]_vars, delivery' # delivery
    PROVE  \E d \in Dispatches : /\ RecordWrites(d)
                                 /\ delivery' = [delivery EXCEPT ![thread[d].target] =
                                       IF thread[d].at = "putSent" THEN "sent" ELSE "failed"]
<1>1. ASSUME NEW d \in Dispatches, ThreadStep(d) PROVE RecordWrites(d)
  BY <1>1 DEF ThreadStep, Check, GetToken, CaptureSnapshot, RecordAlerts, BuildBrief, SendEmail,
              RecordReads, BuildFails
<1>2. \E d \in Dispatches : RecordWrites(d)
  BY <1>1 DEF Next, vars, briefVars, Dispatch, Crash, AlertStep, AlertFails, PageSnapshot,
              DismissAlert, Midnight, Connection
<1>3. QED
  BY <1>2 DEF RecordWrites

(* ... and takes no record of a sent brief back.                           *)
THEOREM SentRecordsStand == Spec => SentStands
<1>1. ASSUME BriefInv, [Next]_vars, NEW x \in SentDays, delivery'[x] # "sent"
      PROVE  \E d \in Dispatches : RecordWrites(d) /\ ~Undisturbed(d)
  <2>1. delivery' # delivery
    BY <1>1 DEF SentDays
  <2>2. PICK d \in Dispatches : /\ RecordWrites(d)
                                /\ delivery' = [delivery EXCEPT ![thread[d].target] =
                                       IF thread[d].at = "putSent" THEN "sent" ELSE "failed"]
    BY <1>1, <2>1, RowsChange
  <2>3. thread[d].target = x /\ delivery[x] = "sent"
    BY <1>1, <2>2 DEF SentDays, BriefInv, ThreadType
  <2>4. thread[d].at \in {"putSent", "putFailed"}
    BY <2>2 DEF RecordWrites
  <2>5. QED
    BY <1>1, <2>2, <2>3, <2>4 DEF BriefInv, CheckedInv
<1>2. BriefInv /\ [Next]_vars =>
         [\A x \in SentDays : delivery'[x] = "sent" \/ \E d \in Dispatches :
             RecordWrites(d) /\ ~Undisturbed(d)]_vars
  BY <1>1
<1>3. QED
  BY <1>2, BriefInit, BriefStep, PTL DEF Spec, SentStands

(* A day on record as sent is not mailed again (was_delivered_today,       *)
(* record_delivery).                                                       *)
THEOREM OneBriefADay == Spec => BriefOncePerDay
BY NoSecondBrief, SentRecordsStand, PTL DEF BriefOncePerDay

-----------------------------------------------------------------------------
(* The threads of dispatches are captures like any other.                  *)
LEMMA HistoryKept == HistoryInv /\ [Next]_vars => HistoryInv'
<1> SUFFICES ASSUME HistoryInv, [Next]_vars PROVE HistoryInv'
  OBVIOUS
<1>1. CASE UNCHANGED historyVars
  BY <1>1, StutterInv
<1>2. ASSUME NEW c \in Captures, Records(c) \/ RecordFails(c) PROVE HistoryInv'
  BY <1>2, UpsertInv, ResolveInv, FailsInv DEF Records
<1>3. ASSUME NEW d \in Dispatches, ThreadStep(d) PROVE HistoryInv'
  <2>1. CASE RecordAlerts(d)
    BY <2>1, BeginsInv, BriefProcesses DEF RecordAlerts
  <2>2. CASE ~RecordAlerts(d)
    BY <1>1, <1>3, <2>2 DEF ThreadStep, Check, GetToken, CaptureSnapshot, BuildBrief, SendEmail,
                             RecordReads, RecordWrites, BuildFails
  <2>3. QED
    BY <2>1, <2>2
<1>4. ASSUME NEW d \in Dispatches, Crash(d) PROVE HistoryInv'
  BY <1>1, <1>2, <1>4, BriefProcesses DEF Crash
<1>5. QED
  BY <1>1, <1>2, <1>3, <1>4, DismissInv
     DEF Next, vars, Dispatch, AlertStep, AlertFails, PageSnapshot, DismissAlert, Midnight, Connection

(* What AlertHistory promises holds beside the delivery of the brief.      *)
THEOREM BriefKeepsHistory == Spec => []ActiveIsReported
<1>1. Init => HistoryInv
  BY HistoryInitInv DEF Init
<1>2. QED
  BY <1>1, HistoryKept, HistoryInvReported, PTL DEF Spec

-----------------------------------------------------------------------------
(* Two captures that run have met; one that met none found every active    *)
(* row there is, and what it recorded is active unless it was dismissed.   *)
OverlapIsMet == \A c, d \in Recording : c # d => d \in met[c]

AloneIsExact ==
    \A c \in Recording : met[c] = {} =>
        /\ capture[c].at = "merge" /\ ~capture[c].matched => history[capture[c].fp].active = 0
        /\ \A f \in capture[c].done : history[f].active > 0 \/ history[f].dismissed > 0

ExactInv == HistoryInv /\ OverlapIsMet /\ AloneIsExact

LEMMA ExactInit == HistoryInit => ExactInv
<1> SUFFICES ASSUME HistoryInit PROVE ExactInv
  OBVIOUS
<1>1. Recording = {}
  BY DEF HistoryInit, Recording, NoCapture
<1>2. QED
  BY <1>1, HistoryInitInv DEF ExactInv, OverlapIsMet, AloneIsExact

LEMMA BeginsExact ==
    ASSUME ExactInv, NEW c \in Captures, NEW alerts \in SUBSET Fingerprints,
           RecordBegins(c, alerts)
    PROVE  ExactInv'
<1>1. HistoryInv /\ HistoryInv'
  BY BeginsInv DEF ExactInv
<1>2. /\ capture'[c].at = "next" /\ capture'[c].done = {} /\ history' = history
      /\ met'[c] = Recording /\ c \notin Recording /\ Recording' = Recording \cup {c}
      /\ \A d \in Recording : /\ d # c /\ d \in Captures
                              /\ capture'[d] = capture[d] /\ met'[d] = met[d] \cup {c}
  BY <1>1 DEF HistoryInv, HistoryTypeOK, RecordBegins, NoCapture, Recording
<1>3. OverlapIsMet'
  BY <1>2 DEF ExactInv, OverlapIsMet
<1>4. AloneIsExact'
  BY <1>2 DEF ExactInv, AloneIsExact
<1>5. QED
  BY <1>1, <1>3, <1>4 DEF ExactInv

(* A capture ends or goes on; those that still run met what they met.      *)
LEMMA OverlapKept ==
    ASSUME OverlapIsMet, Recording' \subseteq Recording, met' = met
    PROVE  OverlapIsMet'
BY DEF OverlapIsMet

LEMMA ReadsExact ==
    ASSUME ExactInv, NEW c \in Captures, UpsertReads(c)
    PROVE  ExactInv'
<1>1. HistoryInv /\ HistoryInv'
  BY UpsertInv DEF ExactInv
<1>2. PICK f \in capture[c].alerts \ capture[c].done :
           capture' = [capture EXCEPT ![c].at = "merge", ![c].fp = f,
                                      ![c].matched = history[f].active > 0]
  BY DEF UpsertReads
<1>3. capture \in [Captures -> CaptureType] /\ f \in Fingerprints
  BY <1>1 DEF HistoryInv, HistoryTypeOK, CaptureType
<1>4. history' = history /\ met' = met /\ capture[c].at = "next"
  BY DEF UpsertReads
<1> DEFINE m == history[f].active > 0
<1>5. m \in BOOLEAN
  OBVIOUS
<1>6. /\ capture'[c].fp = f /\ (capture'[c].matched <=> m) /\ capture'[c].done = capture[c].done
      /\ \A d \in Captures : d # c => capture'[d] = capture[d]
  BY <1>2, <1>3, <1>5 DEF CaptureType
<1>7. Recording' = Recording /\ c \in Recording
  BY <1>2, <1>3, <1>4 DEF Recording, CaptureType
<1>8. history[f].active \in Nat
  BY <1>1, <1>3 DEF HistoryInv, HistoryTypeOK
<1>9. AloneIsExact'
  BY <1>4, <1>6, <1>7, <1>8 DEF ExactInv, AloneIsExact, Recording
<1>10. QED
  BY <1>1, <1>4, <1>7, <1>9, OverlapKept DEF ExactInv

LEMMA WritesExact ==
    ASSUME ExactInv, NEW c \in Captures, UpsertWrites(c)
    PROVE  /\ ExactInv'
           /\ \A f \in Fingerprints :
                 history'[f].active > 1 /\ history'[f].active > history[f].active =>
                    capture[c].fp = f /\ met[c] # {}
<1>1. HistoryInv /\ HistoryInv'
  BY UpsertInv DEF ExactInv
<1> DEFINE g == capture[c].fp
<1>2. /\ capture \in [Captures -> CaptureType] /\ g \in Fingerprints /\ c \in Recording
      /\ history \in [Fingerprints -> [active : Nat, resolved : Nat, dismissed : Nat]]
      /\ capture[c].at = "merge" /\ met' = met
  BY <1>1 DEF HistoryInv, HistoryTypeOK, CaptureType, MergeHasAlert, UpsertWrites, Recording
<1>3. capture' = [capture EXCEPT ![c].at = "next", ![c].fp = NoAlert, ![c].matched = FALSE,
                                 ![c].done = @ \cup {capture[c].fp}]
  BY DEF UpsertWrites
<1>4. /\ capture'[c].at = "next" /\ capture'[c].done = capture[c].done \cup {g}
      /\ \A d \in Captures : d # c => capture'[d] = capture[d]
      /\ Recording' = Recording
  BY <1>2, <1>3 DEF CaptureType, Recording
<1>5. CASE UpsertInserts(c)
  <2>1. history' = [history EXCEPT ![g].active = @ + 1]
    BY <1>5 DEF UpsertWrites
  <2>2. /\ history'[g].active = history[g].active + 1
        /\ history'[g].dismissed = history[g].dismissed
        /\ \A f \in Fingerprints : f # g => history'[f] = history[f]
    BY <1>2, <2>1
  <2>3. met[c] = {} => history[g].active = 0
    BY <1>2, <1>5 DEF ExactInv, AloneIsExact, UpsertInserts
  <2>4. ASSUME NEW d \in Recording, met[d] = {} PROVE d = c
    BY <1>2, <2>4 DEF ExactInv, OverlapIsMet
  <2>5. \A f \in capture[c].done : f \in Fingerprints
    BY <1>2 DEF CaptureType
  <2>6. AloneIsExact'
    <3> SUFFICES ASSUME met[c] = {}, NEW f \in capture[c].done \cup {g}
                 PROVE  history'[f].active > 0 \/ history'[f].dismissed > 0
      BY <1>2, <1>4, <2>4 DEF AloneIsExact
    <3>1. CASE f = g
      BY <1>2, <2>2, <3>1
    <3>2. CASE f # g
      BY <1>2, <2>2, <2>5, <3>2 DEF ExactInv, AloneIsExact
    <3>3. QED
      BY <3>1, <3>2
  <2>7. ASSUME NEW f \in Fingerprints, history'[f].active > 1, history'[f].active > history[f].active
        PROVE  g = f /\ met[c] # {}
    <3>1. f = g
      BY <1>2, <2>2, <2>7
    <3>2. QED
      BY <1>2, <2>2, <2>3, <2>7, <3>1
  <2>8. QED
    BY <1>1, <1>2, <1>4, <2>6, <2>7, OverlapKept DEF ExactInv
<1>6. CASE ~UpsertInserts(c)
  <2>1. history' = history
    BY <1>6 DEF UpsertWrites
  <2>2. history[g].active > 0
    BY <1>2, <1>6 DEF UpsertInserts
  <2>3. AloneIsExact'
    BY <1>2, <1>4, <2>1, <2>2 DEF ExactInv, AloneIsExact, Recording
  <2>4. QED
    BY <1>1, <1>2, <1>4, <2>1, <2>3, OverlapKept DEF ExactInv
<1>7. QED
  BY <1>5, <1>6

(* resolve_missing: a capture that met none is alone, and leaves what it   *)
(* reported.                                                               *)
LEMMA ResolvesExact ==
    ASSUME ExactInv, NEW c \in Captures, ResolveMissing(c)
    PROVE  /\ ExactInv'
           /\ \A f \in Fingerprints : history'[f].active <= history[f].active
           /\ met[c] = {} =>
                 /\ ActiveAlerts' \subseteq capture[c].alerts
                 /\ \A f \in capture[c].alerts : f \in ActiveAlerts' \/ history[f].dismissed > 0
<1>1. HistoryInv /\ HistoryInv'
  BY ResolveInv DEF ExactInv
<1>2. /\ capture \in [Captures -> CaptureType] /\ met' = met /\ c \in Recording
      /\ history \in [Fingerprints -> [active : Nat, resolved : Nat, dismissed : Nat]]
      /\ capture[c].done = capture[c].alerts /\ capture[c].alerts \subseteq Fingerprints
  BY <1>1 DEF HistoryInv, HistoryTypeOK, CaptureType, ResolveMissing, Recording
<1>3. capture' = [capture EXCEPT ![c] = NoCapture]
  BY DEF ResolveMissing
<1>4. /\ Recording' = Recording \ {c}
      /\ \A d \in Captures : d # c => capture'[d] = capture[d]
  BY <1>2, <1>3 DEF Recording, NoCapture
<1>5. \A f \in Fingerprints :
         /\ f \in capture[c].alerts => history'[f] = history[f]
         /\ f \notin capture[c].alerts => history'[f].active = 0
  BY <1>2 DEF ResolveMissing, Resolved
<1>6. ASSUME NEW d \in Recording \ {c} PROVE met[d] # {}
  BY <1>2, <1>6 DEF ExactInv, OverlapIsMet
<1>7. AloneIsExact'
  BY <1>2, <1>4, <1>6 DEF AloneIsExact
<1>8. OverlapIsMet'
  BY <1>2, <1>4, OverlapKept DEF ExactInv
<1>9. \A f \in Fingerprints : history'[f].active <= history[f].active
  BY <1>2, <1>5
<1>10. ASSUME met[c] = {}
       PROVE  /\ ActiveAlerts' \subseteq capture[c].alerts
              /\ \A f \in capture[c].alerts : f \in ActiveAlerts' \/ history[f].dismissed > 0
  <2>1. ActiveAlerts' \subseteq capture[c].alerts
    BY <1>5 DEF ActiveAlerts
  <2>2. \A f \in capture[c].alerts : history[f].active > 0 \/ history[f].dismissed > 0
    BY <1>2, <1>10 DEF ExactInv, AloneIsExact
  <2>3. QED
    BY <1>2, <1>5, <2>1, <2>2 DEF ActiveAlerts
<1>11. QED
  BY <1>1, <1>7, <1>8, <1>9, <1>10 DEF ExactInv

LEMMA FailsExact ==
    ASSUME ExactInv, NEW c \in Captures, RecordFails(c)
    PROVE  ExactInv'
<1>1. HistoryInv /\ HistoryInv'
  BY FailsInv DEF ExactInv
<1>2. capture \in [Captures -> CaptureType] /\ met' = met /\ history' = history
  BY <1>1 DEF HistoryInv, HistoryTypeOK, CaptureType, RecordFails
<1>3. capture' = [capture EXCEPT ![c] = NoCapture]
  BY DEF RecordFails
<1>4. /\ Recording' = Recording \ {c}
      /\ \A d \in Captures : d # c => capture'[d] = capture[d]
  BY <1>2, <1>3 DEF Recording, NoCapture
<1>5. AloneIsExact'
  BY <1>2, <1>4 DEF ExactInv, AloneIsExact, Recording
<1>6. QED
  BY <1>1, <1>2, <1>4, <1>5, OverlapKept DEF ExactInv

LEMMA DismissExact ==
    ASSUME ExactInv, NEW f \in Fingerprints, Dismiss(f)
    PROVE  ExactInv' /\ \A g \in Fingerprints : history'[g].active <= history[g].active
<1>1. HistoryInv /\ HistoryInv'
  BY DismissInv DEF ExactInv
<1>2. /\ capture \in [Captures -> CaptureType] /\ met' = met /\ capture' = capture
      /\ history \in [Fingerprints -> [active : Nat, resolved : Nat, dismissed : Nat]]
      /\ Recording' = Recording /\ history[f].active > 0
  BY <1>1 DEF HistoryInv, HistoryTypeOK, CaptureType, Dismiss, Recording
<1>3. history' = [history EXCEPT ![f].active = @ - 1, ![f].dismissed = @ + 1]
  BY DEF Dismiss
<1>4. /\ history'[f].active = history[f].active - 1 /\ history'[f].dismissed > 0
      /\ \A g \in Fingerprints : g # f => history'[g] = history[g]
  BY <1>2, <1>3
<1>5. AloneIsExact'
  <2> SUFFICES ASSUME NEW c \in Recording, met[c] = {}
               PROVE  /\ capture[c].at = "merge" /\ ~capture[c].matched =>
                            history'[capture[c].fp].active = 0
                      /\ \A g \in capture[c].done :
                            history'[g].active > 0 \/ history'[g].dismissed > 0
    BY <1>2 DEF AloneIsExact
  <2>1. c \in Captures /\ capture[c].done \subseteq Fingerprints
    BY <1>2 DEF Recording, CaptureType
  <2>2. capture[c].at = "merge" => capture[c].fp \in Fingerprints
    BY <1>1, <2>1 DEF HistoryInv, MergeHasAlert
  <2>3. capture[c].at = "merge" /\ ~capture[c].matched => history[capture[c].fp].active = 0
    BY DEF ExactInv, AloneIsExact
  <2>4. \A g \in capture[c].done : history[g].active > 0 \/ history[g].dismissed > 0
    BY DEF ExactInv, AloneIsExact
  <2>5. capture[c].at = "merge" /\ ~capture[c].matched => history'[capture[c].fp].active = 0
    BY <1>2, <1>4, <2>2, <2>3
  <2>6. \A g \in capture[c].done : history'[g].active > 0 \/ history'[g].dismissed > 0
    BY <1>4, <2>1, <2>4
  <2>7. QED
    BY <2>5, <2>6
<1>6. \A g \in Fingerprints : history'[g].active <= history[g].active
  BY <1>2, <1>4
<1>7. QED
  BY <1>1, <1>2, <1>5, <1>6, OverlapKept DEF ExactInv

(* What a step of the history may do, whichever capture takes it.          *)
ExactStep ==
    /\ \A c \in Captures : ResolveMissing(c) /\ met[c] = {} =>
          /\ ActiveAlerts' \subseteq capture[c].alerts
          /\ \A f \in capture[c].alerts : f \in ActiveAlerts' \/ history[f].dismissed > 0
    /\ \A f \in Fingerprints : history'[f].active > 1 /\ history'[f].active > history[f].active =>
          \E c \in Captures : capture[c].fp = f /\ met[c] # {}

LEMMA StaysExact == ExactInv /\ UNCHANGED historyVars => ExactInv'
BY StutterInv DEF ExactInv, OverlapIsMet, AloneIsExact, historyVars, Recording

(* Rows that do not grow in number are not duplicated.                     *)
LEMMA NoDuplicates ==
    ASSUME HistoryInv, HistoryInv',
           \A f \in Fingerprints : history'[f].active <= history[f].active
    PROVE  \A f \in Fingerprints : history'[f].active > 1 /\ history'[f].active > history[f].active =>
              \E c \in Captures : capture[c].fp = f /\ met[c] # {}
<1>1. ASSUME NEW f \in Fingerprints PROVE history[f].active \in Nat /\ history'[f].active \in Nat
  BY DEF HistoryInv, HistoryTypeOK
<1>2. QED
  BY <1>1

LEMMA NotResolving ==
    ASSUME ExactInv, ExactInv', history' = history
    PROVE  /\ \A f \in Fingerprints : history'[f].active <= history[f].active
           /\ \A c \in Captures : ResolveMissing(c) /\ met[c] = {} =>
                 /\ ActiveAlerts' \subseteq capture[c].alerts
                 /\ \A f \in capture[c].alerts : f \in ActiveAlerts' \/ history[f].dismissed > 0
<1>1. ASSUME NEW f \in Fingerprints PROVE history[f].active \in Nat
  BY DEF ExactInv, HistoryInv, HistoryTypeOK
<1>2. QED
  BY <1>1, ResolvesExact

(* Every step of the history keeps it exact.                               *)
LEMMA HistoryExact ==
    ASSUME ExactInv,
           \/ UNCHANGED historyVars
           \/ \E c \in Captures : \E alerts \in SUBSET Fingerprints : RecordBegins(c, alerts)
           \/ \E c \in Captures : Records(c) \/ RecordFails(c)
           \/ \E f \in Fingerprints : Dismiss(f)
    PROVE  ExactInv' /\ [ExactStep]_historyVars
<1>1. ASSUME ExactInv', history' = history PROVE ExactInv' /\ ExactStep
  <2>1. HistoryInv /\ HistoryInv'
    BY <1>1 DEF ExactInv
  <2>2. QED
    BY <1>1, <2>1, NotResolving, NoDuplicates DEF ExactStep
<1>2. CASE UNCHANGED historyVars
  BY <1>2, StaysExact
<1>3. ASSUME NEW c \in Captures, NEW alerts \in SUBSET Fingerprints, RecordBegins(c, alerts)
      PROVE  ExactInv' /\ ExactStep
  BY <1>1, <1>3, BeginsExact DEF RecordBegins
<1>4. ASSUME NEW c \in Captures, UpsertReads(c) \/ RecordFails(c) PROVE ExactInv' /\ ExactStep
  BY <1>1, <1>4, ReadsExact, FailsExact DEF UpsertReads, RecordFails
<1>5. ASSUME NEW c \in Captures, UpsertWrites(c) PROVE ExactInv' /\ ExactStep
  <2>2. ASSUME NEW d \in Captures, ResolveMissing(d), met[d] = {}
        PROVE  /\ ActiveAlerts' \subseteq capture[d].alerts
               /\ \A f \in capture[d].alerts : f \in ActiveAlerts' \/ history[f].dismissed > 0
    BY <2>2, ResolvesExact
  <2>3. QED
    BY <1>5, <2>2, WritesExact DEF ExactStep
<1>6. ASSUME NEW c \in Captures, ResolveMissing(c) PROVE ExactInv' /\ ExactStep
  <2>1. HistoryInv /\ HistoryInv' /\ ExactInv'
    BY <1>6, ResolvesExact DEF ExactInv
  <2>2. \A f \in Fingerprints : history'[f].active <= history[f].active
    BY <1>6, ResolvesExact
  <2>3. \A d \in Captures : ResolveMissing(d) /\ met[d] = {} =>
          /\ ActiveAlerts' \subseteq capture[d].alerts
          /\ \A f \in capture[d].alerts : f \in ActiveAlerts' \/ history[f].dismissed > 0
    BY ResolvesExact
  <2>4. QED
    BY <2>1, <2>2, <2>3, NoDuplicates DEF ExactStep
<1>7. ASSUME NEW f \in Fingerprints, Dismiss(f) PROVE ExactInv' /\ ExactStep
  <2>1. HistoryInv /\ HistoryInv' /\ ExactInv'
    BY <1>7, DismissExact DEF ExactInv
  <2>2. \A g \in Fingerprints : history'[g].active <= history[g].active
    BY <1>7, DismissExact
  <2>3. \A d \in Captures : ResolveMissing(d) /\ met[d] = {} =>
          /\ ActiveAlerts' \subseteq capture[d].alerts
          /\ \A g \in capture[d].alerts : g \in ActiveAlerts' \/ history[g].dismissed > 0
    BY ResolvesExact
  <2>4. QED
    BY <2>1, <2>2, <2>3, NoDuplicates DEF ExactStep
<1>8. QED
  BY <1>2, <1>3, <1>4, <1>5, <1>6, <1>7 DEF Records

(* The same of the steps of the morning brief.                             *)
LEMMA BriefIsExact == ExactInv /\ [Next]_vars => ExactInv' /\ [ExactStep]_historyVars
<1> SUFFICES ASSUME ExactInv, [Next]_vars PROVE ExactInv' /\ [ExactStep]_historyVars
  OBVIOUS
<1>1. \/ UNCHANGED historyVars
      \/ \E c \in Captures : \E alerts \in SUBSET Fingerprints : RecordBegins(c, alerts)
      \/ \E c \in Captures : Records(c) \/ RecordFails(c)
      \/ \E f \in Fingerprints : Dismiss(f)
  <2>1. CASE UNCHANGED vars
    BY <2>1 DEF vars
  <2>2. ASSUME NEW d \in Dispatches, ThreadStep(d)
        PROVE  \/ UNCHANGED historyVars
               \/ \E c \in Captures : \E alerts \in SUBSET Fingerprints : RecordBegins(c, alerts)
    BY <2>2, BriefProcesses DEF ThreadStep, Check, GetToken, CaptureSnapshot, RecordAlerts,
         BuildBrief, SendEmail, RecordReads, RecordWrites, BuildFails
  <2>3. ASSUME NEW d \in Dispatches, Crash(d)
        PROVE  UNCHANGED historyVars \/ \E c \in Captures : RecordFails(c)
    BY <2>3, BriefProcesses DEF Crash
  <2>4. QED
    BY <2>1, <2>2, <2>3 DEF Next, Dispatch, AlertStep, AlertFails, PageSnapshot, DismissAlert,
         Midnight, Connection
<1>2. QED
  BY <1>1, HistoryExact

(* A capture that met no other leaves exactly the alerts it reported       *)
(* active, but for those dismissed meanwhile, and a second active row of   *)
(* an alert takes two captures at once (upsert_active, resolve_missing).   *)
THEOREM AlertsAreExact == Spec => CapturesAreExact
<1>1. Init => ExactInv
  BY ExactInit DEF Init
<1>2. ExactInv /\ [Next]_vars =>
         [\A c \in Captures : ResolveMissing(c) /\ met[c] = {} =>
             /\ ActiveAlerts' \subseteq capture[c].alerts
             /\ \A f \in capture[c].alerts :
                   f \in ActiveAlerts' \/ history[f].dismissed > 0]_historyVars
  BY BriefIsExact DEF ExactStep
<1>3. ExactInv /\ [Next]_vars =>
         [\A f \in Fingerprints : history'[f].active > 1 /\ history'[f].active > history[f].active =>
             \E c \in Captures : capture[c].fp = f /\ met[c] # {}]_historyVars
  BY BriefIsExact DEF ExactStep
<1>4. ExactInv /\ [Next]_vars => ExactInv'
  BY BriefIsExact
<1>5. QED
  BY <1>1, <1>2, <1>3, <1>4, PTL DEF Spec, CapturesAreExact, ExactWhenAlone, DuplicateNeedsOverlap
-----------------------------------------------------------------------------
(* The deliveries on record as sent, and those still to be recorded, are   *)
(* of e-mails that left.                                                   *)
ToRecord == {d \in Dispatches : Recorded(d)}

Tally == IsFiniteSet(ToRecord) /\ Cardinality(SentDays) + Cardinality(ToRecord) <= mails

(* No thread has stored a snapshot that is not there, or shows one older   *)
(* than its own.                                                           *)
Shown ==
    \A d \in Dispatches :
        /\ thread[d].snapped \in snapshots \cup {NoDay}
        /\ thread[d].at = "mail" => thread[d].basis >= thread[d].snapped

TrueInv == TypeOK /\ HistoryInv /\ BriefInv /\ ReportIsTrue /\ Tally /\ Shown

LEMMA DaysFinite == IsFiniteSet(SentDays) /\ Cardinality(SentDays) \in Nat
<1>1. IsFiniteSet(Days)
  BY FS_Interval, BriefBounds DEF Days
<1>2. SentDays \subseteq Days
  BY DEF SentDays
<1>3. QED
  BY <1>1, <1>2, FS_Subset, FS_CardinalityType

LEMMA DaysFiniteThen == IsFiniteSet(SentDays') /\ Cardinality(SentDays') \in Nat
<1>1. IsFiniteSet(Days)
  BY FS_Interval, BriefBounds DEF Days
<1>2. SentDays' \subseteq Days
  BY DEF SentDays, Days
<1>3. QED
  BY <1>1, <1>2, FS_Subset, FS_CardinalityType

(* A step that records no more days and owes no more records.              *)
LEMMA TallyKept ==
    ASSUME Tally, SentDays' \subseteq SentDays, ToRecord' \subseteq ToRecord,
           mails \in Nat, mails' \in Nat, mails' >= mails
    PROVE  Tally'
<1>1. Cardinality(SentDays') <= Cardinality(SentDays)
  BY DaysFinite, FS_Subset
<1>2. IsFiniteSet(ToRecord') /\ Cardinality(ToRecord') <= Cardinality(ToRecord)
  BY FS_Subset DEF Tally
<1>3. Cardinality(ToRecord') \in Nat /\ Cardinality(ToRecord) \in Nat
  BY <1>2, FS_CardinalityType DEF Tally
<1>4. QED
  BY <1>1, <1>2, <1>3, DaysFinite, DaysFiniteThen DEF Tally

(* An e-mail leaves, and its thread has to record it.                      *)
LEMMA TallyMailed ==
    ASSUME Tally, NEW d, SentDays' = SentDays, ToRecord' \subseteq ToRecord \cup {d},
           mails \in Nat, mails' = mails + 1
    PROVE  Tally'
<1>1. /\ IsFiniteSet(ToRecord \cup {d})
      /\ Cardinality(ToRecord \cup {d}) <= Cardinality(ToRecord) + 1
  BY FS_AddElement, FS_CardinalityType DEF Tally
<1>2. IsFiniteSet(ToRecord') /\ Cardinality(ToRecord') <= Cardinality(ToRecord \cup {d})
  BY <1>1, FS_Subset
<1>3. /\ Cardinality(ToRecord') \in Nat /\ Cardinality(ToRecord) \in Nat
      /\ Cardinality(ToRecord \cup {d}) \in Nat
  BY <1>1, <1>2, FS_CardinalityType DEF Tally
<1>4. QED
  BY <1>1, <1>2, <1>3, DaysFinite DEF Tally

(* A thread records its e-mail.                                            *)
LEMMA TallyRecorded ==
    ASSUME Tally, NEW d \in ToRecord, NEW x, SentDays' \subseteq SentDays \cup {x},
           ToRecord' \subseteq ToRecord \ {d}, mails \in Nat, mails' = mails
    PROVE  Tally'
<1>1. /\ IsFiniteSet(SentDays \cup {x})
      /\ Cardinality(SentDays \cup {x}) <= Cardinality(SentDays) + 1
  BY DaysFinite, FS_AddElement
<1>2. Cardinality(SentDays') <= Cardinality(SentDays \cup {x})
  BY <1>1, FS_Subset
<1>3. /\ IsFiniteSet(ToRecord \ {d})
      /\ Cardinality(ToRecord \ {d}) = Cardinality(ToRecord) - 1
  BY FS_RemoveElement DEF Tally
<1>4. IsFiniteSet(ToRecord') /\ Cardinality(ToRecord') <= Cardinality(ToRecord \ {d})
  BY <1>3, FS_Subset
<1>5. /\ Cardinality(ToRecord') \in Nat /\ Cardinality(ToRecord) \in Nat
      /\ Cardinality(SentDays \cup {x}) \in Nat
  BY <1>1, <1>4, FS_CardinalityType DEF Tally
<1>6. QED
  BY <1>1, <1>2, <1>3, <1>4, <1>5, DaysFinite, DaysFiniteThen DEF Tally

(* A step of one thread leaves what the others show and owe alone.         *)
OthersStay(d) ==
    \A e \in Dispatches : e # d =>
        /\ thread'[e].at = thread[e].at /\ thread'[e].mailed = thread[e].mailed
        /\ thread'[e].snapped = thread[e].snapped /\ thread'[e].basis = thread[e].basis

LEMMA ShownKept ==
    ASSUME Shown, NEW d \in Dispatches, OthersStay(d), snapshots \subseteq snapshots',
           thread'[d].snapped \in snapshots' \cup {NoDay},
           thread'[d].at = "mail" => thread'[d].basis >= thread'[d].snapped
    PROVE  Shown'
BY DEF Shown, OthersStay

LEMMA OwesNoMore ==
    ASSUME NEW d \in Dispatches, OthersStay(d), Recorded(d)' => Recorded(d)
    PROVE  ToRecord' \subseteq ToRecord
BY DEF ToRecord, Recorded, OthersStay

LEMMA EndsTrue ==
    ASSUME TrueInv, NEW d \in Dispatches, NEW o \in Outcomes, End(d, o), UNCHANGED snapshots
    PROVE  Shown' /\ ToRecord' \subseteq ToRecord \ {d}
<1> DEFINE t == [NoThread EXCEPT !.mailed = thread[d].mailed, !.outcome = o]
<1>1. thread' = [thread EXCEPT ![d] = t] /\ thread \in [Dispatches -> Thread]
  BY DEF End, TrueInv, BriefInv, ThreadType
<1>2. t.at = "idle" /\ t.snapped = NoDay
  BY DEF NoThread
<1> HIDE DEF t
<1>3. thread'[d] = t /\ OthersStay(d)
  BY <1>1 DEF OthersStay
<1>4. Shown'
  BY <1>2, <1>3, ShownKept DEF TrueInv
<1>5. ToRecord' \subseteq ToRecord \ {d}
  BY <1>2, <1>3 DEF ToRecord, Recorded, OthersStay
<1>6. QED
  BY <1>4, <1>5

LEMMA GoesTrue ==
    ASSUME TrueInv, NEW d \in Dispatches, NEW l \in Locations \ {"sent", "putSent", "mail"},
           Goto(d, l), UNCHANGED snapshots
    PROVE  Shown' /\ ToRecord' \subseteq ToRecord
<1>1. thread' = [thread EXCEPT ![d].at = l] /\ thread \in [Dispatches -> Thread]
  BY DEF Goto, TrueInv, BriefInv, ThreadType
<1>2. thread'[d].at = l /\ thread'[d].snapped = thread[d].snapped /\ OthersStay(d)
  BY <1>1 DEF OthersStay, Thread
<1>3. Shown'
  BY <1>2, ShownKept DEF TrueInv, Shown
<1>4. QED
  BY <1>2, <1>3, OwesNoMore DEF Recorded

(* A thread moves on with other data, to a place where it owes nothing.    *)
LEMMA MovesTrue ==
    ASSUME TrueInv, NEW d \in Dispatches, NEW t \in Thread, thread' = [thread EXCEPT ![d] = t],
           t.at \notin {"sent", "putSent"}, snapshots \subseteq snapshots',
           t.snapped \in snapshots' \cup {NoDay}, t.at = "mail" => t.basis >= t.snapped
    PROVE  Shown' /\ ToRecord' \subseteq ToRecord
<1>1. thread'[d] = t /\ OthersStay(d)
  BY DEF TrueInv, BriefInv, ThreadType, OthersStay
<1>2. QED
  BY <1>1, ShownKept, OwesNoMore DEF TrueInv, Recorded

LEMMA DispatchTrue ==
    ASSUME TrueInv, NEW d \in Dispatches, NEW force \in BOOLEAN, Dispatch(d, force)
    PROVE  Shown' /\ ToRecord' \subseteq ToRecord
<1> DEFINE t == [NoThread EXCEPT !.at = "check", !.force = force, !.met = Running # {}]
<1>1. thread' = [e \in Dispatches |->
                    IF e = d THEN t
                    ELSE IF e \in Running THEN [thread[e] EXCEPT !.met = TRUE] ELSE thread[e]]
  BY DEF Dispatch
<1>2. t.at = "check" /\ t.snapped = NoDay /\ UNCHANGED snapshots
  BY DEF NoThread, Dispatch
<1> HIDE DEF t
<1>3. thread'[d] = t
  BY <1>1
<1>4. thread \in [Dispatches -> Thread]
  BY DEF TrueInv, BriefInv, ThreadType
<1>5. OthersStay(d)
  BY <1>1, <1>4 DEF OthersStay, Thread
<1>6. QED
  BY <1>2, <1>3, <1>5, ShownKept, OwesNoMore DEF TrueInv, Recorded

(* The steps before the e-mail.                                            *)
LEMMA BuildTrue ==
    ASSUME TrueInv, NEW d \in Dispatches,
           \/ Check(d) \/ GetToken(d) \/ CaptureSnapshot(d) \/ RecordAlerts(d) \/ BuildBrief(d)
           \/ BuildFails(d) \/ Crash(d)
    PROVE  Shown' /\ ToRecord' \subseteq ToRecord
<1>0. thread \in [Dispatches -> Thread] /\ day \in Days
  BY DEF TrueInv, BriefInv, ThreadType
<1>1. ASSUME NEW o \in {"none", "skipped"}, End(d, o), UNCHANGED snapshots
      PROVE  Shown' /\ ToRecord' \subseteq ToRecord
  BY <1>1, EndsTrue DEF Outcomes
<1>2. ASSUME NEW l \in {"token", "snapshot", "record", "recording", "failed"}, Goto(d, l),
             UNCHANGED snapshots
      PROVE  Shown' /\ ToRecord' \subseteq ToRecord
  BY <1>2, GoesTrue DEF Locations
<1>3. CASE Check(d) \/ GetToken(d) \/ RecordAlerts(d) \/ BuildFails(d) \/ Crash(d)
  BY <1>1, <1>2, <1>3 DEF Check, GetToken, RecordAlerts, BuildFails, Crash
<1>4. CASE CaptureSnapshot(d)
  <2>1. CASE /\ snapshots' = snapshots \cup {day}
             /\ thread' = [thread EXCEPT ![d].at = "record", ![d].snapped = day]
    <3> DEFINE t == [thread[d] EXCEPT !.at = "record", !.snapped = day]
    <3>1. thread' = [thread EXCEPT ![d] = t]
      BY <1>0, <2>1
    <3>2. t \in Thread /\ t.at = "record" /\ t.snapped = day
      BY <1>0 DEF Thread, Locations
    <3> HIDE DEF t
    <3>3. QED
      BY <2>1, <3>1, <3>2, MovesTrue
  <2>2. QED
    BY <1>2, <1>4, <2>1 DEF CaptureSnapshot
<1>5. CASE BuildBrief(d)
  <2>1. PICK s \in Days \cup {NoDay} :
           Latest(s) /\ thread' = [thread EXCEPT ![d].at = "mail", ![d].basis = s]
    BY <1>5 DEF BuildBrief
  <2> DEFINE t == [thread[d] EXCEPT !.at = "mail", !.basis = s]
  <2>2. thread' = [thread EXCEPT ![d] = t]
    BY <1>0, <2>1
  <2>3. t \in Thread /\ t.at = "mail" /\ t.snapped = thread[d].snapped /\ t.basis = s
    BY <1>0 DEF Thread, Locations
  <2>4. thread[d].snapped \in snapshots \cup {NoDay}
    BY DEF TrueInv, Shown
  <2>5. s >= thread[d].snapped
    <3>1. CASE thread[d].snapped \in snapshots
      <4>1. thread[d].snapped \in Days
        BY <3>1 DEF TrueInv, TypeOK
      <4>2. QED
        BY <2>1, <3>1, <4>1, BriefBounds DEF Latest, Days, NoDay
    <3>2. CASE thread[d].snapped = NoDay
      BY <3>2, BriefBounds DEF Days, NoDay
    <3>3. QED
      BY <2>4, <3>1, <3>2
  <2> HIDE DEF t
  <2>6. snapshots' = snapshots
    BY <1>5 DEF BuildBrief
  <2>7. QED
    BY <2>2, <2>3, <2>4, <2>5, <2>6, MovesTrue
<1>6. QED
  BY <1>3, <1>4, <1>5

(* The e-mail: if it leaves, its thread has to record it or has failed.    *)
LEMMA SendTrue ==
    ASSUME TrueInv, NEW d \in Dispatches, SendEmail(d)
    PROVE  Shown' /\ Tally'
<1>0. thread \in [Dispatches -> Thread] /\ mails \in Nat /\ ~thread[d].mailed
  BY DEF TrueInv, BriefInv, ThreadType, TypeOK, SendEmail, ReportInv
<1>1. PICK taken \in BOOLEAN, answered \in BOOLEAN :
          /\ mails' = IF taken THEN mails + 1 ELSE mails
          /\ thread' = [thread EXCEPT ![d].at = IF taken /\ answered THEN "sent" ELSE "failed",
                                      ![d].mailed = taken]
  BY DEF SendEmail
<1> DEFINE l == IF taken /\ answered THEN "sent" ELSE "failed"
<1>2. l \in {"sent", "failed"} /\ (l = "sent" => taken)
  OBVIOUS
<1>3. thread' = [thread EXCEPT ![d].at = l, ![d].mailed = taken]
  BY <1>1
<1> HIDE DEF l
<1>4. /\ thread'[d].at = l /\ thread'[d].mailed = taken
      /\ thread'[d].snapped = thread[d].snapped
      /\ OthersStay(d)
  BY <1>0, <1>3 DEF OthersStay, Thread
<1>5. snapshots' = snapshots /\ delivery' = delivery /\ SentDays' = SentDays
  BY DEF SendEmail, SentDays, Days
<1>6. Shown'
  BY <1>2, <1>4, <1>5, ShownKept DEF TrueInv, Shown
<1>7. CASE taken
  <2>1. ToRecord' \subseteq ToRecord \cup {d}
    BY <1>4 DEF ToRecord, Recorded, OthersStay
  <2>2. QED
    BY <1>0, <1>1, <1>5, <1>6, <1>7, <2>1, TallyMailed DEF TrueInv
<1>8. CASE ~taken
  <2>1. ToRecord' \subseteq ToRecord
    BY <1>4, <1>8, OwesNoMore DEF Recorded
  <2>2. QED
    BY <1>0, <1>1, <1>5, <1>6, <1>8, <2>1, TallyKept DEF TrueInv
<1>9. QED
  BY <1>7, <1>8

LEMMA ReadsTrue ==
    ASSUME TrueInv, NEW d \in Dispatches, RecordReads(d)
    PROVE  Shown' /\ ToRecord' \subseteq ToRecord
<1>0. thread \in [Dispatches -> Thread] /\ day \in Days
  BY DEF TrueInv, BriefInv, ThreadType
<1> DEFINE l == IF thread[d].at = "sent" THEN "putSent" ELSE "putFailed"
           b == delivery[day] # "none"
<1>1. /\ l \in {"putSent", "putFailed"} /\ (l = "putSent" => thread[d].at = "sent")
      /\ b \in BOOLEAN
  BY DEF RecordReads
<1>2. thread' = [thread EXCEPT ![d].at = l, ![d].target = day, ![d].found = b]
  BY <1>0 DEF RecordReads
<1> HIDE DEF l, b
<1>3. /\ thread'[d].at = l /\ thread'[d].mailed = thread[d].mailed
      /\ thread'[d].snapped = thread[d].snapped /\ OthersStay(d)
  BY <1>0, <1>2 DEF OthersStay, Thread
<1>4. snapshots' = snapshots
  BY DEF RecordReads
<1>5. Shown'
  BY <1>1, <1>3, <1>4, ShownKept DEF TrueInv, Shown
<1>6. QED
  BY <1>1, <1>3, <1>5, OwesNoMore DEF Recorded

(* A row that becomes sent is that of an e-mail that its thread no longer  *)
(* owes.                                                                   *)
LEMMA WritesTrue ==
    ASSUME TrueInv, NEW d \in Dispatches, RecordWrites(d)
    PROVE  Shown' /\ Tally'
<1>0. /\ thread \in [Dispatches -> Thread] /\ mails \in Nat /\ mails' = mails
      /\ snapshots' = snapshots /\ delivery \in [Days -> RowStatuses]
      /\ thread[d].at \in {"putSent", "putFailed"}
  BY DEF TrueInv, BriefInv, ThreadType, TypeOK, RecordWrites
<1> DEFINE status == IF thread[d].at = "putSent" THEN "sent" ELSE "failed"
<1>1. CASE /\ delivery' = [delivery EXCEPT ![thread[d].target] = status]
           /\ End(d, status)
  <2>1. Shown' /\ ToRecord' \subseteq ToRecord \ {d}
    BY <1>0, <1>1, EndsTrue DEF Outcomes
  <2>2. CASE thread[d].at = "putSent"
    <3>1. d \in ToRecord
      BY <2>2 DEF ToRecord, Recorded, TrueInv, BriefInv, ReportInv
    <3>2. SentDays' \subseteq SentDays \cup {thread[d].target}
      BY <1>0, <1>1 DEF SentDays, Days
    <3>3. QED
      BY <1>0, <2>1, <3>1, <3>2, TallyRecorded DEF TrueInv
  <2>3. CASE thread[d].at = "putFailed"
    <3>1. SentDays' \subseteq SentDays
      BY <1>0, <1>1, <2>3 DEF SentDays, Days
    <3>2. QED
      BY <1>0, <2>1, <3>1, TallyKept DEF TrueInv
  <2>4. QED
    BY <1>0, <2>2, <2>3
<1>2. CASE /\ delivery' = delivery
           /\ IF status = "sent" THEN Goto(d, "failed") ELSE End(d, "failed")
  <2>1. Shown' /\ ToRecord' \subseteq ToRecord
    BY <1>0, <1>2, GoesTrue, EndsTrue DEF Locations, Outcomes
  <2>2. SentDays' = SentDays
    BY <1>2 DEF SentDays, Days
  <2>3. QED
    BY <1>0, <2>1, <2>2, TallyKept DEF TrueInv
<1>3. QED
  BY <1>1, <1>2 DEF RecordWrites

(* The types of what the clock, the pages and the bounds change.           *)
RestType ==
    /\ connected \in BOOLEAN
    /\ snapshots \in SUBSET Days
    /\ starts \in 0 .. MaxStarts
    /\ faults \in 0 .. MaxFaults
    /\ mails \in Nat

LEMMA TypesAre == TypeOK <=> HistoryTypeOK /\ ThreadType /\ RestType
BY DEF TypeOK, ThreadType, RestType, Thread, Locations

LEMMA FaultType ==
    ASSUME RestType, Fault \/ UNCHANGED faults
    PROVE  faults' \in 0 .. MaxFaults
BY BriefBounds DEF RestType, Fault

LEMMA RestStep ==
    ASSUME RestType, day \in Days, [Next]_vars
    PROVE  RestType'
<1>1. CASE UNCHANGED <<connected, snapshots, starts, faults, mails>>
  BY <1>1 DEF RestType, Days
<1>2. ASSUME NEW d \in Dispatches, NEW force \in BOOLEAN, Dispatch(d, force) PROVE RestType'
  <2>1. starts < MaxStarts /\ starts' = starts + 1 /\ UNCHANGED <<connected, snapshots, faults, mails>>
    BY <1>2 DEF Dispatch
  <2>2. QED
    BY <2>1, BriefBounds DEF RestType, Days
<1>3. ASSUME NEW d \in Dispatches, CaptureSnapshot(d) PROVE RestType'
  <2>1. snapshots' \subseteq snapshots \cup {day}
    BY <1>3 DEF CaptureSnapshot
  <2>2. UNCHANGED <<connected, starts, mails>> /\ (Fault \/ UNCHANGED faults)
    BY <1>3 DEF CaptureSnapshot
  <2>3. QED
    BY <2>1, <2>2, FaultType DEF RestType, Days
<1>4. ASSUME NEW d \in Dispatches, SendEmail(d) PROVE RestType'
  <2>1. mails' \in {mails, mails + 1} /\ (Fault \/ UNCHANGED faults)
    BY <1>4 DEF SendEmail
  <2>2. UNCHANGED <<connected, starts, snapshots>>
    BY <1>4 DEF SendEmail
  <2>3. QED
    BY <2>1, <2>2, FaultType DEF RestType, Days
<1>5. ASSUME UNCHANGED <<connected, snapshots, starts, mails>>, Fault PROVE RestType'
  BY <1>5, FaultType DEF RestType, Days
<1>6. ASSUME NEW d \in Dispatches, ThreadStep(d) PROVE RestType'
  BY <1>1, <1>3, <1>4, <1>5, <1>6
     DEF ThreadStep, Check, GetToken, RecordAlerts, BuildBrief, RecordReads, RecordWrites, BuildFails
<1>7. CASE PageSnapshot
  BY <1>7 DEF PageSnapshot, RestType, Days
<1>8. CASE Connection
  <2>1. connected' = ~connected /\ UNCHANGED <<snapshots, starts, faults, mails>>
    BY <1>8 DEF Connection
  <2>2. connected' \in BOOLEAN
    BY <2>1
  <2>3. QED
    BY <2>1, <2>2 DEF RestType, Days
<1>9. CASE \/ UNCHANGED vars \/ Midnight
           \/ \E c \in Captures : AlertStep(c)
           \/ \E f \in Fingerprints : DismissAlert(f)
  BY <1>1, <1>9 DEF vars, briefVars, Midnight, AlertStep, DismissAlert
<1>10. CASE \/ \E c \in Captures : AlertFails(c)
            \/ \E d \in Dispatches : Crash(d)
  BY <1>5, <1>10 DEF AlertFails, Crash
<1>11. QED
  BY <1>2, <1>6, <1>7, <1>8, <1>9, <1>10 DEF Next

LEMMA TrueInit == Init => TrueInv
<1> SUFFICES ASSUME Init PROVE TrueInv
  OBVIOUS
<1>1. RestType
  BY BriefBounds DEF Init, RestType
<1>2. HistoryInv /\ BriefInv
  BY HistoryInitInv, BriefInit DEF Init
<1>3. ReportIsTrue
  BY DEF Init, ReportIsTrue, NoThread
<1>4. ToRecord = {} /\ SentDays = {} /\ Shown
  BY DEF Init, ToRecord, SentDays, Recorded, Shown, NoThread
<1>5. mails = 0
  BY DEF Init
<1>6. Cardinality({}) = 0 /\ IsFiniteSet({})
  BY FS_EmptySet
<1>7. Tally
  BY <1>4, <1>5, <1>6 DEF Tally
<1>8. QED
  BY <1>1, <1>2, <1>3, <1>4, <1>7, TypesAre DEF TrueInv, HistoryInv, BriefInv

LEMMA TrueStep == TrueInv /\ [Next]_vars => TrueInv'
<1> SUFFICES ASSUME TrueInv, [Next]_vars PROVE TrueInv'
  OBVIOUS
<1>1. BriefInv' /\ ReportIsTrue'
  BY BriefStep DEF TrueInv
<1>2. HistoryInv'
  BY HistoryKept DEF TrueInv
<1>3. RestType /\ RestType'
  BY RestStep, TypesAre DEF TrueInv, BriefInv, ThreadType
<1>4. TypeOK'
  BY <1>1, <1>2, <1>3 DEF HistoryInv, BriefInv, TypeOK, ThreadType, RestType, Thread, Locations
<1>5. ASSUME Shown', ToRecord' \subseteq ToRecord, delivery' = delivery, mails' = mails
      PROVE  Shown' /\ Tally'
  <2>1. SentDays' = SentDays
    BY <1>5 DEF SentDays, Days
  <2>2. QED
    BY <1>3, <1>5, <2>1, TallyKept DEF TrueInv, RestType
<1>6. ASSUME NEW d \in Dispatches, ThreadStep(d) PROVE Shown' /\ Tally'
  <2>1. CASE SendEmail(d) \/ RecordWrites(d)
    BY <2>1, SendTrue, WritesTrue
  <2>2. CASE RecordReads(d)
    BY <1>5, <2>2, ReadsTrue DEF RecordReads
  <2>3. CASE \/ Check(d) \/ GetToken(d) \/ CaptureSnapshot(d) \/ RecordAlerts(d)
             \/ BuildBrief(d) \/ BuildFails(d)
    <3>1. delivery' = delivery /\ mails' = mails
      BY <2>3 DEF Check, GetToken, CaptureSnapshot, RecordAlerts, BuildBrief, BuildFails
    <3>2. QED
      BY <1>5, <2>3, <3>1, BuildTrue
  <2>4. QED
    BY <1>6, <2>1, <2>2, <2>3 DEF ThreadStep
<1>7. ASSUME NEW d \in Dispatches, Crash(d) PROVE Shown' /\ Tally'
  BY <1>5, <1>7, BuildTrue DEF Crash
<1>8. ASSUME NEW d \in Dispatches, NEW force \in BOOLEAN, Dispatch(d, force)
      PROVE  Shown' /\ Tally'
  BY <1>5, <1>8, DispatchTrue DEF Dispatch
<1>9. ASSUME thread' = thread, delivery' = delivery, mails' = mails, snapshots \subseteq snapshots'
      PROVE  Shown' /\ Tally'
  BY <1>5, <1>9 DEF TrueInv, Shown, ToRecord, Recorded
<1>10. ASSUME \/ UNCHANGED vars \/ PageSnapshot \/ Midnight \/ Connection
              \/ \E c \in Captures : AlertStep(c) \/ AlertFails(c)
              \/ \E f \in Fingerprints : DismissAlert(f)
       PROVE  Shown' /\ Tally'
  BY <1>9, <1>10 DEF vars, briefVars, AlertStep, AlertFails, PageSnapshot, DismissAlert, Midnight,
                     Connection
<1>11. Shown' /\ Tally'
  BY <1>6, <1>7, <1>8, <1>10 DEF Next
<1>12. QED
  BY <1>1, <1>2, <1>4, <1>11 DEF TrueInv

(* What is recorded, reported and mailed of a brief is true: no day is on  *)
(* record as sent but for an e-mail that left, no dispatch reports one     *)
(* that did not, and none shows a snapshot older than the one it stored    *)
(* (_dispatch_one_user).                                                   *)
THEOREM TheBriefIsTrue == Spec => []BriefIsTrue
<1>1. TrueInv => BriefIsTrue
  BY DEF TrueInv, BriefIsTrue, Tally, SentIsTrue, ToRecord, Shown, BriefIsCurrent
<1>2. QED
  BY <1>1, TrueInit, TrueStep, PTL DEF Spec
=============================================================================
