------------------------------ MODULE Schedules ------------------------------
(***************************************************************************)
(* One schedule of a server, and the panels whose timers look for          *)
(* schedules that are due.  A panel claims a schedule by moving its next   *)
(* date a little into the future, runs its sequence, then writes the true  *)
(* next date; within one process a set of schedules in flight keeps it     *)
(* from being claimed again when that lease runs out.                      *)
(*                                                                         *)
(* Sources: scheduler/schedule-runner.service.ts (tick, claimDue, execute, *)
(* reschedule, signalerEchec) and client/schedules.service.ts (update,     *)
(* setActive, runNow, remove).                                             *)
(*                                                                         *)
(* Time is counted in ticks of a minute and dates are relative:            *)
(* next = 0 is a date that has passed.  The other schedules are only seen  *)
(* through the time a claimed one waits for one of the six workers.        *)
(***************************************************************************)
EXTENDS Naturals

CONSTANTS
  Panels,       \* instances of the API on one database
  Lease,        \* ticks a claim reserves
  Waits,        \* what the steps of the sequence may ask to wait, in ticks
  Occurrences,  \* how far the next date of the cron expression may be
  Never,        \* no next date (null)
  MaxChanges    \* bound: requests of the client, and restarts of panels

ASSUME LeaseAssumption == Lease \in Nat \ {0} /\ Waits \subseteq Nat /\ Occurrences \subseteq Nat
ASSUME ChangesAssumption == MaxChanges \in Nat
ASSUME NeverAssumption == Never \notin Nat

VARIABLES
  schedule,   \* the row of schedules
  run,        \* the executions of each panel: the second place is for none
  inFlight,   \* enVol, of each panel
  told,       \* history: notices of the present breakdown
  excused,    \* history: an execution outlived its lease, or the client moved
              \* the date under it
  changes     \* requests of the client and restarts so far

schedulesVars == <<schedule, run, inFlight, told, excused, changes>>

Places == 1..2

NoRun == [at |-> "idle", lease |-> 0, wait |-> 0, failed |-> FALSE]

\* claimed: waits for a worker, or reads; running: between its steps; ended: its
\* outcome is known; telling: the next date is written, the owner is to be told.
Run == [at: {"idle", "claimed", "running", "ended", "skipped", "telling"},
        lease: Nat, wait: Nat, failed: BOOLEAN]

SchedulesTypeOK ==
  /\ schedule \in [exists: BOOLEAN, active: BOOLEAN, next: {Never} \cup Nat,
                   failed: BOOLEAN, notified: BOOLEAN]
  /\ run \in [Panels -> [Places -> Run]]
  /\ inFlight \in [Panels -> BOOLEAN]
  /\ told \in Nat
  /\ excused \in BOOLEAN
  /\ changes \in 0..MaxChanges
  \* A panel marks what it claims before anything else can happen, and a row
  \* that is gone has no date.
  /\ \A p \in Panels : (\E i \in Places : run[p][i] # NoRun) => inFlight[p]
  /\ ~schedule.exists => schedule.next = Never

SchedulesInit ==
  /\ schedule = [exists |-> TRUE, active |-> TRUE, next |-> 0, failed |-> FALSE,
                 notified |-> FALSE]
  /\ run = [p \in Panels |-> [i \in Places |-> NoRun]]
  /\ inFlight = [p \in Panels |-> FALSE]
  /\ told = 0 /\ excused = FALSE /\ changes = 0

-----------------------------------------------------------------------------

Runs == Panels \X Places
RunOf(r) == run[r[1]][r[2]]
Executes(r) == RunOf(r).at \in {"claimed", "running", "ended", "skipped"}
Executing == \E r \in Runs : Executes(r)

RunBecomes(r, new) == run' = [run EXCEPT ![r[1]][r[2]] = new]

\* The finally of a worker.
RunOver(r) ==
  /\ RunBecomes(r, NoRun)
  /\ inFlight' = [inFlight EXCEPT ![r[1]] = FALSE]

\* A write to a row that is gone changes nothing.
Written(new) == IF schedule.exists THEN new ELSE schedule

\* Excuses last as long as something is executing.
StillExcused(yes) ==
  excused' = ((excused \/ yes) /\ \E r \in Runs : run'[r[1]][r[2]].at \in
                                       {"claimed", "running", "ended", "skipped"})

-----------------------------------------------------------------------------
(* A panel. *)

Due == schedule.exists /\ schedule.active /\ schedule.next = 0

\* A fault: what this process is executing already is not looked at.
ClaimDue_Again(p) ==
  /\ Due
  /\ schedule' = [schedule EXCEPT !.next = Lease]
  /\ \E i \in Places :
       /\ run[p][i] = NoRun
       /\ RunBecomes(<<p, i>>, [NoRun EXCEPT !.at = "claimed", !.lease = Lease])
  /\ inFlight' = [inFlight EXCEPT ![p] = TRUE]
  /\ StillExcused(FALSE)
  /\ UNCHANGED <<told, changes>>

\* A fault: it is only marked as in flight by the worker that takes it.
ClaimDue_Unmarked(p) ==
  /\ Due /\ ~inFlight[p]
  /\ schedule' = [schedule EXCEPT !.next = Lease]
  /\ RunBecomes(<<p, 1>>, [NoRun EXCEPT !.at = "claimed", !.lease = Lease])
  /\ StillExcused(FALSE)
  /\ UNCHANGED <<inFlight, told, changes>>

\* One UPDATE reads the dates and reserves the rows.
ClaimDue(p) ==
  /\ Due /\ ~inFlight[p]
  /\ schedule' = [schedule EXCEPT !.next = Lease]
  /\ \E i \in Places :
       /\ run[p][i] = NoRun /\ \A j \in Places : j < i => run[p][j] # NoRun
       /\ RunBecomes(<<p, i>>, [NoRun EXCEPT !.at = "claimed", !.lease = Lease])
  /\ inFlight' = [inFlight EXCEPT ![p] = TRUE]
  /\ StillExcused(FALSE)
  /\ UNCHANGED <<told, changes>>

\* A fault: an early return that leaves the schedule in flight.
Postpone_InFlight(r) ==
  /\ RunOf(r).at = "claimed"
  /\ RunBecomes(r, NoRun)
  /\ StillExcused(FALSE)
  /\ UNCHANGED <<schedule, inFlight, told, changes>>

\* The server is busy, or a read fails: the lease is left as it is.
Postpone(r) ==
  /\ RunOf(r).at = "claimed"
  /\ RunOver(r)
  /\ StillExcused(FALSE)
  /\ UNCHANGED <<schedule, told, changes>>

\* The server is suspended, or stopped where the schedule wants it running.
Skip(r) ==
  /\ RunOf(r).at = "claimed"
  /\ RunBecomes(r, [RunOf(r) EXCEPT !.at = "skipped"])
  /\ UNCHANGED <<schedule, inFlight, told, excused, changes>>

\* A fault: the row keeps the lease of the claim.
Begin_ShortLease(r, wait) ==
  /\ RunOf(r).at = "claimed"
  /\ RunBecomes(r, [RunOf(r) EXCEPT !.at = "running", !.wait = wait,
                     !.lease = IF wait > 1 THEN wait + Lease ELSE @])
  /\ UNCHANGED <<schedule, inFlight, told, excused, changes>>

\* The lease is lengthened by what the steps will wait, when that is long: more
\* than a tick.
Begin(r, wait) ==
  /\ RunOf(r).at = "claimed"
  /\ LET lengthened == wait > 1
         lease == IF lengthened THEN wait + Lease ELSE RunOf(r).lease
     IN /\ RunBecomes(r, [RunOf(r) EXCEPT !.at = "running", !.wait = wait, !.lease = lease])
        /\ schedule' = IF lengthened THEN Written([schedule EXCEPT !.next = lease])
                                     ELSE schedule
  /\ UNCHANGED <<inFlight, told, excused, changes>>

\* The sequence goes to its end, or stops at the first step that fails.
Finish(r, failed) ==
  /\ RunOf(r).at = "running"
  /\ RunOf(r).wait = 0 \/ failed
  /\ RunBecomes(r, [RunOf(r) EXCEPT !.at = "ended", !.wait = 0, !.failed = failed])
  /\ UNCHANGED <<schedule, inFlight, told, excused, changes>>

\* Only an execution writes an outcome; a success clears the notice.  The next
\* date is that of the expression as it was when the schedule was claimed, and it
\* is written whatever the client changed meanwhile.
Reschedule(r) ==
  /\ RunOf(r).at \in {"ended", "skipped"}
  /\ LET ran == RunOf(r).at = "ended"
         failed == RunOf(r).failed
         outcome == IF ran THEN [schedule EXCEPT !.failed = failed,
                                                 !.notified = failed /\ schedule.notified]
                           ELSE schedule
     IN /\ \E next \in Occurrences \cup {Never} :
             schedule' = Written([outcome EXCEPT !.next = next])
        /\ told' = IF ran /\ ~failed THEN 0 ELSE told
        /\ IF ran /\ failed
           THEN RunBecomes(r, [NoRun EXCEPT !.at = "telling"]) /\ UNCHANGED inFlight
           ELSE RunOver(r)
  /\ StillExcused(FALSE)
  /\ UNCHANGED changes

\* An expression that has become invalid stops the schedule, and says nothing.
RescheduleInvalid(r) ==
  /\ RunOf(r).at \in {"ended", "skipped"}
  /\ schedule' = Written([schedule EXCEPT !.active = FALSE, !.next = Never])
  /\ RunOver(r)
  /\ StillExcused(FALSE)
  /\ UNCHANGED <<told, changes>>

\* A fault: every failure is told.
SignalerEchec_Always(r) ==
  /\ RunOf(r).at = "telling"
  /\ schedule' = IF schedule.exists THEN [schedule EXCEPT !.notified = TRUE] ELSE schedule
  /\ told' = told + 1
  /\ RunOver(r)
  /\ UNCHANGED <<excused, changes>>

\* Setting the flag is the lock: who sets it tells the owner.
SignalerEchec(r) ==
  /\ RunOf(r).at = "telling"
  /\ LET armed == schedule.exists /\ ~schedule.notified
     IN /\ schedule' = IF armed THEN [schedule EXCEPT !.notified = TRUE] ELSE schedule
        /\ told' = IF armed THEN told + 1 ELSE told
  /\ RunOver(r)
  /\ UNCHANGED <<excused, changes>>

\* The process stops: what it executed is lost, the date it reserved stays.
PanelStops(p) ==
  /\ changes < MaxChanges
  /\ inFlight[p]
  /\ changes' = changes + 1
  /\ run' = [run EXCEPT ![p] = [i \in Places |-> NoRun]]
  /\ inFlight' = [inFlight EXCEPT ![p] = FALSE]
  /\ StillExcused(FALSE)
  /\ UNCHANGED <<schedule, told>>

-----------------------------------------------------------------------------
(* The client, and the clock. *)

Change ==
  /\ schedule.exists
  /\ changes < MaxChanges
  /\ changes' = changes + 1
  /\ excused' = (excused \/ Executing)
  /\ UNCHANGED <<run, inFlight, told>>

RunNow ==
  /\ schedule' = [schedule EXCEPT !.next = 0]
  /\ Change

\* update() and setActive() alike write the date again from now.
SetActive(active) ==
  /\ \E next \in IF active THEN Occurrences \cup {Never} ELSE {Never} :
       schedule' = [schedule EXCEPT !.active = active, !.next = next]
  /\ Change

RemoveSchedule ==
  /\ schedule' = [schedule EXCEPT !.exists = FALSE, !.next = Never]
  /\ Change

Sooner(n) == IF n \in {Never, 0} THEN n ELSE n - 1

Tick ==
  /\ schedule' = [schedule EXCEPT !.next = Sooner(@)]
  /\ run' = [p \in Panels |-> [i \in Places |->
               [run[p][i] EXCEPT !.lease = Sooner(@), !.wait = Sooner(@)]]]
  /\ StillExcused(\E r \in Runs : Executes(r) /\ RunOf(r).lease <= 1)
  /\ schedule' # schedule \/ run' # run
  /\ UNCHANGED <<inFlight, told, changes>>

-----------------------------------------------------------------------------

Execute(r) ==
  \/ Postpone(r) \/ Skip(r)
  \/ \E wait \in Waits : Begin(r, wait)
  \/ \E failed \in BOOLEAN : Finish(r, failed)
  \/ Reschedule(r) \/ RescheduleInvalid(r) \/ SignalerEchec(r)

SchedulesNext ==
  \/ \E p \in Panels : ClaimDue(p) \/ PanelStops(p)
  \/ \E r \in Runs : Execute(r)
  \/ RunNow \/ RemoveSchedule
  \/ \E active \in BOOLEAN : SetActive(active)
  \/ Tick

SchedulesSpec == SchedulesInit /\ [][SchedulesNext]_schedulesVars

-----------------------------------------------------------------------------

\* Within one process a schedule is never run twice at a time, however long its
\* sequence waits and whoever moves its date.
OncePerPanel == \A p \in Panels : \E i \in Places : run[p][i] = NoRun

\* Two panels never run it at once as long as its executions stay within their
\* leases and the client leaves the date alone.
OneExecution ==
  ~excused => \A r, s \in Runs : Executes(r) /\ Executes(s) => r = s

\* The owner is told once of a breakdown, until an execution succeeds.
ToldOnce == told <= 1

\* A schedule with a date is run, even if the panel that claimed it stopped.
DueIsRun == (schedule.active /\ schedule.next # Never) ~>
              (Executing \/ ~schedule.active \/ schedule.next = Never)
=============================================================================
