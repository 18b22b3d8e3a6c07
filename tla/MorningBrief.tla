---------------------------- MODULE MorningBrief ----------------------------
(***************************************************************************)
(* The morning brief of one user: an HTTP request of the cron workflow     *)
(* dispatches it (dispatch_all gives every user a thread, and nothing is   *)
(* shared between users), which builds it from the broker account, stores  *)
(* the day's portfolio snapshot, records the alerts (AlertHistory), reads  *)
(* the latest snapshot back, sends the e-mail and records the delivery of  *)
(* the day.  Beside it pages of the user store snapshots and dismiss       *)
(* alerts; that they record alerts too is AlertHistory's business.         *)
(*                                                                         *)
(* date.today() is asked for at every use.  Oracle and the e-mail provider *)
(* are external: a statement or a post may fail, and a post that times out *)
(* may have sent the e-mail.  A process may stop between any two steps.    *)
(***************************************************************************)
EXTENDS AlertHistory, FiniteSets

CONSTANTS
    Dispatches,     \* dispatch requests, each running the user's thread
    MaxDay,         \* bound: the last day
    MaxStarts,      \* bound: dispatches that start
    MaxFaults       \* bound: crashes and failed statements, posts and calls

ASSUME BriefProcesses == Captures = Dispatches
ASSUME BriefBounds == MaxDay \in Nat \ {0} /\ MaxStarts \in Nat /\ MaxFaults \in Nat

VARIABLES
    day,        \* the date the server's clock shows
    connected,  \* the user has a Schwab connection whose token is valid
    snapshots,  \* PORTFOLIO_SNAPSHOT: the days that have a row
    delivery,   \* MORNING_BRIEF_DELIVERY: day -> the row's status, "none" if none
    thread,     \* dispatch -> its _dispatch_one_user
    starts, faults,     \* what the bounds count
    mails       \* history variable: the e-mails that left

briefVars == <<day, connected, snapshots, delivery, thread, starts, faults, mails>>
vars == <<historyVars, briefVars>>

Days == 1 .. MaxDay
NoDay == 0
RowStatuses == {"none", "sent", "failed"}
Outcomes == {"none", "sent", "skipped", "failed"}
NoThread == [at |-> "idle", force |-> FALSE, snapped |-> NoDay, basis |-> NoDay,
             target |-> NoDay, found |-> FALSE, mailed |-> FALSE, outcome |-> "none", met |-> FALSE]

Running == {d \in Dispatches : thread[d].at # "idle"}
(* Mutant of Latest: the snapshots are listed oldest first.                *)
Latest_Ascending(s) == /\ s \in snapshots \cup {NoDay}
                       /\ \A t \in snapshots : s # NoDay /\ s <= t

(* The day of the newest snapshot, NoDay if there is none.                 *)
Latest(s) == s \in snapshots \cup {NoDay} /\ \A t \in snapshots : t <= s

Goto(d, l) == thread' = [thread EXCEPT ![d].at = l]
End(d, outcome) ==
    thread' = [thread EXCEPT ![d] = [NoThread EXCEPT !.mailed = thread[d].mailed, !.outcome = outcome]]
Fault == faults < MaxFaults /\ faults' = faults + 1

Init ==
    /\ HistoryInit
    /\ day = 1
    /\ connected = TRUE
    /\ snapshots = {}
    /\ delivery = [x \in Days |-> "none"]
    /\ thread = [d \in Dispatches |-> NoThread]
    /\ starts = 0
    /\ faults = 0
    /\ mails = 0

-----------------------------------------------------------------------------
(* dispatch_all lists the users with a Schwab connection.                  *)
Dispatch(d, force) ==
    /\ thread[d].at = "idle"
    /\ starts < MaxStarts
    /\ connected
    /\ starts' = starts + 1
    /\ thread' = [e \in Dispatches |->
                    IF e = d THEN [NoThread EXCEPT !.at = "check", !.force = force,
                                                   !.met = Running # {}]
                    ELSE IF e \in Running THEN [thread[e] EXCEPT !.met = TRUE] ELSE thread[e]]
    /\ UNCHANGED <<historyVars, day, connected, snapshots, delivery, faults, mails>>

(* Mutant of Delivered: a row of the day counts whatever its status but    *)
(* sent.                                                                   *)
Delivered_Failed(d) == ~thread[d].force /\ delivery[day] = "failed"

(* Mutant of Delivered: force is read the wrong way round.                 *)
Delivered_Forced(d) == thread[d].force /\ delivery[day] = "sent"

(* was_delivered_today, unless the dispatch is forced.                     *)
Delivered(d) == ~thread[d].force /\ delivery[day] = "sent"

Check(d) ==
    /\ thread[d].at = "check"
    /\ IF Delivered(d) THEN End(d, "skipped") ELSE Goto(d, "token")
    /\ UNCHANGED <<historyVars, day, connected, snapshots, delivery, starts, faults, mails>>

(* Mutant of GetToken: the thread waits for the user to connect.           *)
GetToken_Waits(d) ==
    /\ thread[d].at = "token"
    /\ connected
    /\ Goto(d, "snapshot")
    /\ UNCHANGED <<historyVars, day, connected, snapshots, delivery, starts, faults, mails>>

(* build_for_user: without a valid token there is no brief.                *)
GetToken(d) ==
    /\ thread[d].at = "token"
    /\ IF connected THEN Goto(d, "snapshot") ELSE End(d, "skipped")
    /\ UNCHANGED <<historyVars, day, connected, snapshots, delivery, starts, faults, mails>>

(* Mutant of CaptureSnapshot: the date is the next one, as in a zone ahead *)
(* of the server.                                                          *)
CaptureSnapshot_Ahead(d) ==
    /\ thread[d].at = "snapshot"
    /\ snapshots' = snapshots \cup {day + 1}
    /\ thread' = [thread EXCEPT ![d].at = "record", ![d].snapped = day + 1]
    /\ UNCHANGED <<historyVars, day, connected, delivery, starts, faults, mails>>

(* capture_snapshot replaces the day's row; a failure is logged.           *)
CaptureSnapshot(d) ==
    /\ thread[d].at = "snapshot"
    /\ \/ /\ snapshots' = snapshots \cup {day}
          /\ thread' = [thread EXCEPT ![d].at = "record", ![d].snapped = day]
          /\ UNCHANGED faults
       \/ /\ Fault
          /\ Goto(d, "record")
          /\ UNCHANGED snapshots
    /\ UNCHANGED <<historyVars, day, connected, delivery, starts, mails>>

(* record_alerts with the alerts of this brief, then the brief is built.   *)
RecordAlerts(d) ==
    /\ thread[d].at = "record"
    /\ \E alerts \in SUBSET Fingerprints : RecordBegins(d, alerts)
    /\ Goto(d, "recording")
    /\ UNCHANGED <<day, connected, snapshots, delivery, starts, faults, mails>>

(* build_morning_brief reads the latest snapshot back.                     *)
BuildBrief(d) ==
    /\ thread[d].at = "recording"
    /\ capture[d].at = "idle"
    /\ \E s \in Days \cup {NoDay} :
          Latest(s) /\ thread' = [thread EXCEPT ![d].at = "mail", ![d].basis = s]
    /\ UNCHANGED <<historyVars, day, connected, snapshots, delivery, starts, faults, mails>>

(* Mutant of SendEmail: an error answer of the provider is not looked at.  *)
SendEmail_NoStatus(d) ==
    /\ thread[d].at = "mail"
    /\ \E taken \in BOOLEAN :
          /\ IF taken THEN UNCHANGED faults ELSE Fault
          /\ mails' = IF taken THEN mails + 1 ELSE mails
          /\ thread' = [thread EXCEPT ![d].at = "sent", ![d].mailed = taken]
    /\ UNCHANGED <<historyVars, day, connected, snapshots, delivery, starts>>

(* send_email: the provider takes it, refuses it, or takes it and the      *)
(* answer is lost.                                                         *)
SendEmail(d) ==
    /\ thread[d].at = "mail"
    /\ \E taken, answered \in BOOLEAN :
          /\ IF taken /\ answered THEN UNCHANGED faults ELSE Fault
          /\ mails' = IF taken THEN mails + 1 ELSE mails
          /\ thread' = [thread EXCEPT ![d].at = IF taken /\ answered THEN "sent" ELSE "failed",
                                      ![d].mailed = taken]
    /\ UNCHANGED <<historyVars, day, connected, snapshots, delivery, starts>>

(* record_delivery: the day is read again and the MERGE looks for its row  *)
(* ...                                                                     *)
RecordReads(d) ==
    /\ thread[d].at \in {"sent", "failed"}
    /\ thread' = [thread EXCEPT ![d].at = IF @ = "sent" THEN "putSent" ELSE "putFailed",
                                ![d].target = day, ![d].found = delivery[day] # "none"]
    /\ UNCHANGED <<historyVars, day, connected, snapshots, delivery, starts, faults, mails>>

(* ... and commits, unless a row it did not find is there now: the unique  *)
(* constraint on user and date makes it raise.                             *)
Collides(d) == ~thread[d].found /\ delivery[thread[d].target] # "none"

(* A delivery that could not be recorded as sent is recorded as failed;    *)
(* one that could not be recorded as failed is only logged.                *)
RecordWrites(d) ==
    /\ thread[d].at \in {"putSent", "putFailed"}
    /\ LET status == IF thread[d].at = "putSent" THEN "sent" ELSE "failed"
       IN  \/ /\ ~Collides(d)
              /\ delivery' = [delivery EXCEPT ![thread[d].target] = status]
              /\ End(d, status)
              /\ UNCHANGED faults
           \/ /\ IF Collides(d) THEN UNCHANGED faults ELSE Fault
              /\ IF status = "sent" THEN Goto(d, "failed") ELSE End(d, "failed")
              /\ UNCHANGED delivery
    /\ UNCHANGED <<historyVars, day, connected, snapshots, starts, mails>>

(* Any other call of the build raises: the run is recorded as failed, but  *)
(* for a login that expired, which is skipped.                             *)
BuildFails(d) ==
    /\ thread[d].at \in {"token", "snapshot", "recording"}
    /\ capture[d].at = "idle"
    /\ Fault
    /\ \/ Goto(d, "failed")
       \/ thread[d].at = "snapshot" /\ End(d, "skipped")
    /\ UNCHANGED <<historyVars, day, connected, snapshots, delivery, starts, mails>>

AlertStep(c) == Records(c) /\ UNCHANGED briefVars

(* A statement of record_alerts raises and is logged: the thread goes on.  *)
AlertFails(c) ==
    /\ RecordFails(c)
    /\ Fault
    /\ UNCHANGED <<day, connected, snapshots, delivery, thread, starts, mails>>

(* The process dies: the thread is gone, and so is its capture.            *)
Crash(d) ==
    /\ thread[d].at # "idle"
    /\ Fault
    /\ End(d, "none")
    /\ IF capture[d].at = "idle" THEN UNCHANGED historyVars ELSE RecordFails(d)
    /\ UNCHANGED <<day, connected, snapshots, delivery, starts, mails>>

-----------------------------------------------------------------------------
(* A page of the user stores the day's snapshot.                           *)
PageSnapshot ==
    /\ snapshots' = snapshots \cup {day}
    /\ UNCHANGED <<historyVars, day, connected, delivery, thread, starts, faults, mails>>

DismissAlert(f) == Dismiss(f) /\ UNCHANGED briefVars

Midnight ==
    /\ day < MaxDay
    /\ day' = day + 1
    /\ UNCHANGED <<historyVars, connected, snapshots, delivery, thread, starts, faults, mails>>

(* The user disconnects Schwab, or the refresh token expires; a new login  *)
(* connects again.                                                         *)
Connection ==
    /\ connected' = ~connected
    /\ UNCHANGED <<historyVars, day, snapshots, delivery, thread, starts, faults, mails>>

ThreadStep(d) ==
    \/ Check(d) \/ GetToken(d) \/ CaptureSnapshot(d) \/ RecordAlerts(d) \/ BuildBrief(d)
    \/ SendEmail(d) \/ RecordReads(d) \/ RecordWrites(d) \/ BuildFails(d)

Next ==
    \/ \E d \in Dispatches : \E force \in BOOLEAN : Dispatch(d, force)
    \/ \E d \in Dispatches : ThreadStep(d)
    \/ \E d \in Dispatches : Crash(d)
    \/ \E c \in Captures : AlertStep(c)
    \/ \E c \in Captures : AlertFails(c)
    \/ PageSnapshot
    \/ \E f \in Fingerprints : DismissAlert(f)
    \/ Midnight
    \/ Connection

Spec == Init /\ [][Next]_vars

(* A thread goes on until it ends: its calls have timeouts, and a crash is *)
(* an end too.  Nobody promises another dispatch.                          *)
FairSpec ==
    /\ Spec
    /\ \A d \in Dispatches : WF_vars(ThreadStep(d))
    /\ \A c \in Captures : WF_vars(AlertStep(c))

-----------------------------------------------------------------------------
(* Types of the variables.                                                 *)
TypeOK ==
    /\ HistoryTypeOK
    /\ day \in Days
    /\ connected \in BOOLEAN
    /\ snapshots \in SUBSET Days
    /\ delivery \in [Days -> RowStatuses]
    /\ thread \in [Dispatches -> [at : {"idle", "check", "token", "snapshot", "record", "recording",
                                        "mail", "sent", "failed", "putSent", "putFailed"},
                                  force : BOOLEAN, snapped : Days \cup {NoDay},
                                  basis : Days \cup {NoDay}, target : Days \cup {NoDay},
                                  found : BOOLEAN, mailed : BOOLEAN, outcome : Outcomes,
                                  met : BOOLEAN]]
    /\ starts \in 0 .. MaxStarts
    /\ faults \in 0 .. MaxFaults
    /\ mails \in Nat

SentDays == {x \in Days : delivery[x] = "sent"}
Recorded(d) == thread[d].mailed /\ thread[d].at \in {"sent", "putSent"}

(* A day is on record as sent only for an e-mail that left: there are no   *)
(* more such days than e-mails, counting those still to be recorded.       *)
SentIsTrue == Cardinality(SentDays) + Cardinality({d \in Dispatches : Recorded(d)}) <= mails

(* What a dispatch reports is what happened: a skipped user got no e-mail  *)
(* from it, one counted as sent did.                                       *)
ReportIsTrue ==
    \A d \in Dispatches :
        /\ thread[d].outcome = "sent" => thread[d].mailed
        /\ thread[d].outcome = "skipped" => ~thread[d].mailed

(* The brief shows the snapshot its own run stored, or a later one: an old *)
(* one only when storing it failed.                                        *)
BriefIsCurrent ==
    \A d \in Dispatches : thread[d].at = "mail" => thread[d].basis >= thread[d].snapped

(* What is recorded, reported and mailed of a brief is well formed and     *)
(* true (_dispatch_one_user).                                              *)
BriefIsTrue == TypeOK /\ SentIsTrue /\ ReportIsTrue /\ BriefIsCurrent

(* A dispatch that is neither forced nor beside another one mails no day   *)
(* that is on record as sent ...                                           *)
Undisturbed(d) == ~thread[d].force /\ ~thread[d].met

OneBriefWhenAlone ==
    [][\A d \in Dispatches : SendEmail(d) /\ delivery[day] = "sent" => ~Undisturbed(d)]_vars

(* ... and takes no such record back, whenever it fails: the next dispatch *)
(* of the day would send the brief again.                                  *)
SentStands ==
    [][\A x \in SentDays : delivery'[x] = "sent" \/ \E d \in Dispatches :
          RecordWrites(d) /\ ~Undisturbed(d)]_vars

(* ... so that without force and one dispatch at a time a day on record as *)
(* sent is never mailed again.                                             *)
BriefOncePerDay == OneBriefWhenAlone /\ SentStands

(* Every dispatch ends.                                                    *)
DispatchEnds == \A d \in Dispatches : thread[d].at # "idle" ~> thread[d].at = "idle"
=============================================================================
