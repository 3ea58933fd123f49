--------------------------- MODULE DueRowsProofs ----------------------------
(***************************************************************************)
(* Rows that fall due and that any of the panels may take: the schedules   *)
(* of a server and the deliveries of a webhook, for any number of panels,  *)
(* any lease, waits and delays.  One panel runs a schedule once at a time, *)
(* two never run it at once within the leases, and the owner is told once; *)
(* the posts of a delivery are counted, what is closed stays closed, and   *)
(* what is open is never forgotten by a dispatcher that did not fail.      *)
(***************************************************************************)
EXTENDS Schedules, WebhookQueue, TLAPS

-----------------------------------------------------------------------------
(* The schedules (module Schedules). *)

ScheduleRow == [exists: BOOLEAN, active: BOOLEAN, next: {Never} \cup Nat,
                failed: BOOLEAN, notified: BOOLEAN]

SchedulesTyped ==
  /\ schedule \in ScheduleRow /\ run \in [Panels -> [Places -> Run]]
  /\ inFlight \in [Panels -> BOOLEAN]
  /\ told \in Nat /\ excused \in BOOLEAN /\ changes \in 0..MaxChanges

\* What a panel runs, it has marked as in flight.
Marked == \A p \in Panels : (\E i \in Places : run[p][i] # NoRun) => inFlight[p]

\* A row that is gone has no date.
Dated == ~schedule.exists => schedule.next = Never

\* A notice given and not yet cleared is written in the row.
Armed == told \in 0..1 /\ (schedule.exists /\ told = 1 => schedule.notified)

\* Unexcused, the date of the row is the end of the lease of the only execution.
Leased ==
  ~excused =>
    /\ \A r, s \in Runs : Executes(r) /\ Executes(s) => r = s
    /\ \A r \in Runs : Executes(r) =>
         RunOf(r).lease >= 1 /\ (schedule.exists => schedule.next = RunOf(r).lease)

SchedulesIInv == SchedulesTyped /\ Marked /\ Dated /\ OncePerPanel /\ Armed /\ Leased

-----------------------------------------------------------------------------

LEMMA SchedulesConstants ==
  Lease \in Nat \ {0} /\ Waits \subseteq Nat /\ Occurrences \subseteq Nat /\ Never \notin Nat
  BY LeaseAssumption, NeverAssumption

LEMMA Nothing ==
  /\ NoRun \in Run /\ NoRun.at = "idle" /\ NoRun.lease = 0 /\ NoRun.wait = 0
  /\ NoRun.failed = FALSE
  BY DEF NoRun, Run

\* What writing one place of run leaves alone.
LEMMA RunStep ==
  ASSUME run \in [Panels -> [Places -> Run]], NEW r \in Runs, NEW new \in Run, RunBecomes(r, new)
  PROVE  /\ run' \in [Panels -> [Places -> Run]]
         /\ RunOf(r)' = new
         /\ \A s \in Runs : s # r => RunOf(s)' = RunOf(s)
<1>1. r[1] \in Panels /\ r[2] \in Places /\ r = <<r[1], r[2]>>
  BY DEF Runs
<1>2. run' = [run EXCEPT ![r[1]] = [run[r[1]] EXCEPT ![r[2]] = new]]
  BY DEF RunBecomes
<1>3. [run[r[1]] EXCEPT ![r[2]] = new] \in [Places -> Run]
  BY <1>1
<1>4. run' \in [Panels -> [Places -> Run]] /\ run'[r[1]] = [run[r[1]] EXCEPT ![r[2]] = new]
  BY <1>1, <1>2, <1>3
<1>5. run'[r[1]][r[2]] = new
  BY <1>1, <1>4
<1>6. ASSUME NEW s \in Runs, s # r PROVE run'[s[1]][s[2]] = run[s[1]][s[2]]
  <2>1. s[1] \in Panels /\ s[2] \in Places /\ s = <<s[1], s[2]>>
    BY DEF Runs
  <2>2. CASE s[1] = r[1]
    <3>1. s[2] # r[2]
      BY <1>1, <1>6, <2>1, <2>2
    <3> QED
      BY <1>1, <1>4, <2>1, <2>2, <3>1
  <2>3. CASE s[1] # r[1]
    BY <1>1, <1>2, <2>1, <2>3
  <2> QED
    BY <2>2, <2>3
<1> QED
  BY <1>4, <1>5, <1>6 DEF RunOf

\* A panel that runs something in one place has nothing in the other.
LEMMA OtherPlace ==
  ASSUME OncePerPanel, NEW r \in Runs, RunOf(r) # NoRun
  PROVE  \A i \in Places : i # r[2] => run[r[1]][i] = NoRun
  BY DEF OncePerPanel, Runs, RunOf, Places

\* A run that goes on, or ends and is no longer in flight.
LEMMA OwnPlace ==
  ASSUME SchedulesTyped, Marked, OncePerPanel, NEW r \in Runs, RunOf(r) # NoRun,
         NEW new \in Run, RunBecomes(r, new),
         \/ UNCHANGED inFlight
         \/ new = NoRun /\ inFlight' = [inFlight EXCEPT ![r[1]] = FALSE]
  PROVE  inFlight' \in [Panels -> BOOLEAN] /\ Marked' /\ OncePerPanel'
<1>1. r[1] \in Panels /\ r[2] \in Places /\ r = <<r[1], r[2]>>
  BY DEF Runs
<1>2. /\ run' \in [Panels -> [Places -> Run]] /\ run'[r[1]][r[2]] = new
      /\ \A p \in Panels, i \in Places : p # r[1] \/ i # r[2] => run'[p][i] = run[p][i]
  <2>1. \A p \in Panels, i \in Places : <<p, i>> \in Runs /\ <<p, i>>[1] = p /\ <<p, i>>[2] = i
    BY DEF Runs
  <2>2. /\ run' \in [Panels -> [Places -> Run]] /\ RunOf(r)' = new
        /\ \A s \in Runs : s # r => RunOf(s)' = RunOf(s)
    BY RunStep DEF SchedulesTyped
  <2>3. ASSUME NEW p \in Panels, NEW i \in Places, p # r[1] \/ i # r[2]
        PROVE  run'[p][i] = run[p][i]
    <3>1. <<p, i>> # r
      BY <1>1, <2>3
    <3>2. RunOf(<<p, i>>)' = RunOf(<<p, i>>)
      BY <2>1, <2>2, <3>1
    <3> QED
      BY <2>1, <3>2 DEF RunOf
  <2> QED
    BY <2>2, <2>3 DEF RunOf
<1>3. \A i \in Places : i # r[2] => run'[r[1]][i] = NoRun
  BY <1>1, <1>2, OtherPlace
<1>4. inFlight \in [Panels -> BOOLEAN] /\ inFlight' \in [Panels -> BOOLEAN]
  BY <1>1 DEF SchedulesTyped
<1>5. inFlight[r[1]]
  BY <1>1 DEF Marked, RunOf
<1>6. Marked'
  BY <1>1, <1>2, <1>3, <1>4, <1>5 DEF Marked
<1>7. OncePerPanel'
  <2>1. \E i \in Places : i # r[2]
    BY <1>1 DEF Places
  <2> QED
    BY <1>1, <1>2, <1>3, <2>1 DEF OncePerPanel
<1> QED
  BY <1>4, <1>6, <1>7

\* The only execution is over: no other was going on, or the excuse stays.
LEMMA ExecutionOver ==
  ASSUME SchedulesTyped, Leased, NEW r \in Runs, Executes(r), StillExcused(FALSE), ~Executes(r)',
         \A s \in Runs : s # r => RunOf(s)' = RunOf(s)
  PROVE  excused' \in BOOLEAN /\ Leased'
<1>1. excused' = (excused /\ \E s \in Runs : Executes(s)')
  BY DEF StillExcused, Executes, RunOf
<1>2. ASSUME ~excused' PROVE \A s \in Runs : ~Executes(s)'
  BY <1>1, <1>2 DEF Leased, Executes
<1>3. excused' \in BOOLEAN
  BY <1>1
<1> QED
  BY <1>2, <1>3 DEF Leased

\* An execution that goes on under the same lease, or one that does not execute.
LEMMA LeaseStays ==
  ASSUME SchedulesTyped, Leased, NEW r \in Runs, Executes(r)' => Executes(r),
         RunOf(r)'.lease = RunOf(r).lease \/ ~Executes(r)',
         schedule'.next = schedule.next, schedule'.exists = schedule.exists, UNCHANGED excused,
         \A s \in Runs : s # r => RunOf(s)' = RunOf(s)
  PROVE  Leased'
  BY DEF Leased, Executes

LEMMA SchedulesInitially == SchedulesInit => SchedulesIInv
<1> SUFFICES ASSUME SchedulesInit PROVE SchedulesIInv
  OBVIOUS
<1>1. \A p \in Panels, i \in Places : run[p][i] = NoRun
  BY DEF SchedulesInit
<1>2. SchedulesTyped
  <2>1. run \in [Panels -> [Places -> Run]]
    BY Nothing DEF SchedulesInit
  <2>2. inFlight \in [Panels -> BOOLEAN]
    BY DEF SchedulesInit
  <2>3. schedule \in ScheduleRow
    BY DEF SchedulesInit, ScheduleRow
  <2>4. 0 \in 0..MaxChanges
    BY ChangesAssumption
  <2> QED
    BY <2>1, <2>2, <2>3, <2>4 DEF SchedulesInit, SchedulesTyped
<1>3. Marked /\ Dated /\ Armed
  BY <1>1 DEF SchedulesInit, Marked, Dated, Armed
<1>4. OncePerPanel
  <2>1. 1 \in Places
    BY DEF Places
  <2> QED
    BY <1>1, <2>1 DEF OncePerPanel
<1>5. Leased
  <2>1. \A r \in Runs : ~Executes(r)
    BY <1>1, Nothing DEF Runs, Executes, RunOf
  <2> QED
    BY <2>1 DEF Leased
<1> QED
  BY <1>2, <1>3, <1>4, <1>5 DEF SchedulesIInv

-----------------------------------------------------------------------------

LEMMA ClaimDueKeeps ==
  ASSUME SchedulesIInv, NEW p \in Panels, ClaimDue(p)
  PROVE  SchedulesIInv'
<1>i. SchedulesTyped /\ Marked /\ Dated /\ OncePerPanel /\ Armed /\ Leased
  BY DEF SchedulesIInv
<1>t. /\ schedule \in ScheduleRow /\ run \in [Panels -> [Places -> Run]]
      /\ inFlight \in [Panels -> BOOLEAN] /\ excused \in BOOLEAN
  BY <1>i DEF SchedulesTyped
<1> DEFINE new == [NoRun EXCEPT !.at = "claimed", !.lease = Lease]
<1>1. PICK i \in Places : RunBecomes(<<p, i>>, new)
  BY DEF ClaimDue
<1>2. new \in Run /\ new.at = "claimed" /\ new.lease = Lease
  BY SchedulesConstants DEF NoRun, Run
<1> HIDE DEF new
<1>3. /\ Due /\ ~inFlight[p] /\ schedule' = [schedule EXCEPT !.next = Lease]
      /\ inFlight' = [inFlight EXCEPT ![p] = TRUE] /\ StillExcused(FALSE)
      /\ UNCHANGED <<told, changes>>
  BY DEF ClaimDue
<1> DEFINE r == <<p, i>>
<1>4. r \in Runs /\ r[1] = p /\ r[2] = i
  BY DEF Runs
<1>5. RunBecomes(r, new)
  BY <1>1
<1>6. /\ run' \in [Panels -> [Places -> Run]] /\ RunOf(r)' = new
      /\ \A s \in Runs : s # r => RunOf(s)' = RunOf(s)
  BY <1>t, <1>2, <1>4, <1>5, RunStep
<1>7. ASSUME NEW q \in Panels, NEW j \in Places, q # p \/ j # i
      PROVE  run'[q][j] = run[q][j]
  <2>1. <<q, j>> \in Runs /\ <<q, j>>[1] = q /\ <<q, j>>[2] = j /\ <<q, j>> # r
    BY <1>7 DEF Runs
  <2>2. RunOf(<<q, j>>)' = RunOf(<<q, j>>)
    BY <1>6, <2>1
  <2> QED
    BY <2>1, <2>2 DEF RunOf
<1>8. /\ schedule' \in ScheduleRow /\ schedule'.next = Lease /\ schedule'.exists = schedule.exists
      /\ schedule'.notified = schedule.notified
  BY <1>t, <1>3, SchedulesConstants DEF ScheduleRow
<1>9. \A j \in Places : run[p][j] = NoRun
  BY <1>i, <1>3 DEF Marked
<1>10. Marked' /\ OncePerPanel'
  <2>1. Marked'
    BY <1>i, <1>t, <1>3, <1>7 DEF Marked
  <2>2. \E j \in Places : j # i
    BY DEF Places
  <2> QED
    BY <1>i, <1>7, <1>9, <2>1, <2>2 DEF OncePerPanel
<1>11. Executes(r)'
  BY <1>2, <1>6 DEF Executes
<1>12. excused' = excused
  <2>1. \E s \in Runs : run'[s[1]][s[2]].at \in {"claimed", "running", "ended", "skipped"}
    BY <1>4, <1>11 DEF Executes, RunOf
  <2> QED
    BY <1>t, <1>3, <2>1 DEF StillExcused
<1>13. Leased'
  <2> SUFFICES ASSUME ~excused PROVE Leased'
    BY <1>12 DEF Leased
  <2>1. \A s \in Runs : ~Executes(s)
    <3> SUFFICES ASSUME NEW s \in Runs, Executes(s) PROVE FALSE
      OBVIOUS
    <3>1. RunOf(s).lease >= 1 /\ schedule.next = RunOf(s).lease
      BY <1>i, <1>3 DEF Leased, Due
    <3> QED
      BY <1>3, <3>1 DEF Due
  <2>2. \A s \in Runs : Executes(s)' => s = r
    BY <1>6, <2>1 DEF Executes
  <2> QED
    BY <1>2, <1>6, <1>8, <2>2, SchedulesConstants DEF Leased
<1>14. SchedulesTyped'
  BY <1>i, <1>t, <1>3, <1>6, <1>8, <1>12 DEF SchedulesTyped
<1>15. Dated' /\ Armed'
  BY <1>i, <1>3, <1>8 DEF Dated, Armed, Due
<1> QED
  BY <1>10, <1>13, <1>14, <1>15 DEF SchedulesIInv

\* The steps of an execution that leave the row alone.
LEMMA ExecuteKeeps ==
  ASSUME SchedulesIInv, NEW r \in Runs,
         Postpone(r) \/ Skip(r) \/ \E failed \in BOOLEAN : Finish(r, failed)
  PROVE  SchedulesIInv'
<1>i. SchedulesTyped /\ Marked /\ Dated /\ OncePerPanel /\ Armed /\ Leased
  BY DEF SchedulesIInv
<1>t. run \in [Panels -> [Places -> Run]] /\ RunOf(r) \in Run
  BY <1>i DEF SchedulesTyped, RunOf, Runs
<1>1. CASE Postpone(r)
  <2>1. /\ RunOf(r).at = "claimed" /\ RunBecomes(r, NoRun)
        /\ inFlight' = [inFlight EXCEPT ![r[1]] = FALSE]
        /\ StillExcused(FALSE) /\ UNCHANGED <<schedule, told, changes>>
    BY <1>1 DEF Postpone, RunOver
  <2>2. RunOf(r) # NoRun /\ Executes(r)
    BY <2>1, Nothing DEF Executes
  <2>3. /\ run' \in [Panels -> [Places -> Run]] /\ RunOf(r)' = NoRun
        /\ \A s \in Runs : s # r => RunOf(s)' = RunOf(s)
    BY <1>t, <2>1, Nothing, RunStep
  <2>4. inFlight' \in [Panels -> BOOLEAN] /\ Marked' /\ OncePerPanel'
    BY <1>i, <2>1, <2>2, Nothing, OwnPlace
  <2>5. excused' \in BOOLEAN /\ Leased'
    <3>1. ~Executes(r)'
      BY <2>3, Nothing DEF Executes
    <3> QED
      BY <1>i, <2>1, <2>2, <2>3, <3>1, ExecutionOver
  <2> QED
    BY <1>i, <2>1, <2>3, <2>4, <2>5 DEF SchedulesIInv, SchedulesTyped, Dated, Armed
<1>2. CASE Skip(r) \/ \E failed \in BOOLEAN : Finish(r, failed)
  <2>1. PICK new \in Run :
          /\ RunBecomes(r, new) /\ new.lease = RunOf(r).lease /\ new.at # "idle"
    <3>1. CASE Skip(r)
      <4>1. [RunOf(r) EXCEPT !.at = "skipped"] \in Run
        BY <1>t DEF Run
      <4> QED
        BY <1>t, <3>1, <4>1 DEF Skip, Run
    <3>2. ASSUME NEW failed \in BOOLEAN, Finish(r, failed)
          PROVE  \E new \in Run :
                   RunBecomes(r, new) /\ new.lease = RunOf(r).lease /\ new.at # "idle"
      <4> DEFINE new == [RunOf(r) EXCEPT !.at = "ended", !.wait = 0, !.failed = failed]
      <4>1. new \in Run /\ new.lease = RunOf(r).lease /\ new.at # "idle"
        BY <1>t DEF Run
      <4>2. RunBecomes(r, new)
        BY <3>2 DEF Finish
      <4> QED
        BY <4>1, <4>2
    <3> QED
      BY <1>2, <3>1, <3>2
  <2>2. /\ RunOf(r).at \in {"claimed", "running"}
        /\ UNCHANGED <<schedule, inFlight, told, excused, changes>>
    BY <1>2 DEF Skip, Finish
  <2>3. RunOf(r) # NoRun /\ Executes(r)
    BY <2>2, Nothing DEF Executes
  <2>4. /\ run' \in [Panels -> [Places -> Run]] /\ RunOf(r)' = new
        /\ \A s \in Runs : s # r => RunOf(s)' = RunOf(s)
    BY <1>t, <2>1, RunStep
  <2>5. Marked' /\ OncePerPanel'
    BY <1>i, <2>1, <2>2, <2>3, OwnPlace
  <2>6. Leased'
    BY <1>i, <2>1, <2>2, <2>3, <2>4, LeaseStays
  <2> QED
    BY <1>i, <2>2, <2>4, <2>5, <2>6 DEF SchedulesIInv, SchedulesTyped, Dated, Armed
<1> QED
  BY <1>1, <1>2

LEMMA BeginKeeps ==
  ASSUME SchedulesIInv, NEW r \in Runs, NEW wait \in Waits, Begin(r, wait)
  PROVE  SchedulesIInv'
<1>i. SchedulesTyped /\ Marked /\ Dated /\ OncePerPanel /\ Armed /\ Leased
  BY DEF SchedulesIInv
<1>t. /\ run \in [Panels -> [Places -> Run]] /\ RunOf(r) \in Run
      /\ schedule \in ScheduleRow /\ excused \in BOOLEAN
  BY <1>i DEF SchedulesTyped, RunOf, Runs
<1> DEFINE lengthened == wait > 1
           lease == IF lengthened THEN wait + Lease ELSE RunOf(r).lease
           new == [RunOf(r) EXCEPT !.at = "running", !.wait = wait, !.lease = lease]
<1>1. /\ RunOf(r).at = "claimed" /\ RunBecomes(r, new)
      /\ schedule' = IF lengthened /\ schedule.exists THEN [schedule EXCEPT !.next = lease]
                                                      ELSE schedule
      /\ UNCHANGED <<inFlight, told, excused, changes>>
  BY DEF Begin, Written
<1>2. wait \in Nat /\ lease \in Nat /\ (lengthened => lease >= 1)
  BY <1>t, SchedulesConstants DEF Run
<1>3. new \in Run /\ new.at = "running" /\ new.lease = lease
  BY <1>t, <1>2 DEF Run
<1> HIDE DEF new
<1>4. RunOf(r) # NoRun /\ Executes(r)
  BY <1>1, Nothing DEF Executes
<1>5. /\ run' \in [Panels -> [Places -> Run]] /\ RunOf(r)' = new
      /\ \A s \in Runs : s # r => RunOf(s)' = RunOf(s)
  BY <1>t, <1>1, <1>3, RunStep
<1>6. Marked' /\ OncePerPanel'
  BY <1>i, <1>1, <1>3, <1>4, OwnPlace
<1>7. /\ schedule' \in ScheduleRow /\ schedule'.exists = schedule.exists
      /\ schedule'.notified = schedule.notified
      /\ schedule.exists => schedule'.next = IF lengthened THEN lease ELSE schedule.next
      /\ ~schedule.exists => schedule' = schedule
  BY <1>t, <1>1, <1>2 DEF ScheduleRow
<1>8. Leased'
  <2> SUFFICES ASSUME ~excused PROVE Leased'
    BY <1>1 DEF Leased
  <2>1. /\ \A s \in Runs : s # r => ~Executes(s)
        /\ RunOf(r).lease >= 1 /\ (schedule.exists => schedule.next = RunOf(r).lease)
    BY <1>i, <1>4 DEF Leased
  <2>2. \A s \in Runs : Executes(s)' => s = r
    BY <1>5, <2>1 DEF Executes
  <2>3. lease >= 1 /\ (schedule'.exists => schedule'.next = lease)
    BY <1>2, <1>7, <2>1
  <2> QED
    BY <1>3, <1>5, <2>2, <2>3 DEF Leased
<1> QED
  BY <1>i, <1>1, <1>5, <1>6, <1>7, <1>8 DEF SchedulesIInv, SchedulesTyped, Dated, Armed

\* The end of an execution, whether it has run, was skipped or has no date any more.
LEMMA RescheduleKeeps ==
  ASSUME SchedulesIInv, NEW r \in Runs, Reschedule(r) \/ RescheduleInvalid(r)
  PROVE  SchedulesIInv'
<1>i. SchedulesTyped /\ Marked /\ Dated /\ OncePerPanel /\ Armed /\ Leased
  BY DEF SchedulesIInv
<1>t. /\ run \in [Panels -> [Places -> Run]] /\ RunOf(r) \in Run /\ schedule \in ScheduleRow
      /\ told \in Nat
  BY <1>i DEF SchedulesTyped, RunOf, Runs
<1>1. /\ RunOf(r).at \in {"ended", "skipped"} /\ StillExcused(FALSE) /\ UNCHANGED changes
  BY DEF Reschedule, RescheduleInvalid
<1>2. RunOf(r) # NoRun /\ Executes(r)
  BY <1>1, Nothing DEF Executes
<1>3. PICK new \in Run :
        /\ RunBecomes(r, new) /\ new.at \in {"idle", "telling"}
        /\ \/ UNCHANGED inFlight
           \/ new = NoRun /\ inFlight' = [inFlight EXCEPT ![r[1]] = FALSE]
  <2>1. CASE RunOver(r)
    BY <2>1, Nothing DEF RunOver
  <2>2. CASE RunBecomes(r, [NoRun EXCEPT !.at = "telling"]) /\ UNCHANGED inFlight
    <3>1. [NoRun EXCEPT !.at = "telling"] \in Run /\ [NoRun EXCEPT !.at = "telling"].at = "telling"
      BY DEF NoRun, Run
    <3> QED
      BY <2>2, <3>1
  <2> QED
    BY <2>1, <2>2 DEF Reschedule, RescheduleInvalid
<1>4. /\ run' \in [Panels -> [Places -> Run]] /\ RunOf(r)' = new
      /\ \A s \in Runs : s # r => RunOf(s)' = RunOf(s)
  BY <1>t, <1>3, RunStep
<1>5. inFlight' \in [Panels -> BOOLEAN] /\ Marked' /\ OncePerPanel'
  BY <1>i, <1>2, <1>3, OwnPlace
<1>6. excused' \in BOOLEAN /\ Leased'
  <2>1. ~Executes(r)'
    BY <1>3, <1>4 DEF Executes
  <2> QED
    BY <1>i, <1>1, <1>2, <1>4, <2>1, ExecutionOver
<1>7. schedule' \in ScheduleRow /\ Dated' /\ Armed'
  <2>1. CASE ~schedule.exists
    <3>1. schedule' = schedule /\ told' \in {0, told}
      BY <2>1 DEF Reschedule, RescheduleInvalid, Written
    <3> QED
      BY <1>i, <1>t, <2>1, <3>1 DEF Dated, Armed
  <2>2. CASE schedule.exists /\ RescheduleInvalid(r)
    <3>1. schedule' = [schedule EXCEPT !.active = FALSE, !.next = Never] /\ told' = told
      BY <2>2 DEF RescheduleInvalid, Written
    <3>2. schedule' \in ScheduleRow /\ schedule'.exists /\ schedule'.notified = schedule.notified
      BY <1>t, <2>2, <3>1 DEF ScheduleRow
    <3> QED
      BY <1>i, <3>1, <3>2, <2>2 DEF Dated, Armed
  <2>3. CASE schedule.exists /\ Reschedule(r)
    <3> DEFINE ran == RunOf(r).at = "ended"
               failed == RunOf(r).failed
               noted == [schedule EXCEPT !.failed = failed,
                                         !.notified = failed /\ schedule.notified]
               outcome == IF ran THEN noted ELSE schedule
    <3>1. PICK next \in Occurrences \cup {Never} : schedule' = [outcome EXCEPT !.next = next]
      BY <2>3 DEF Reschedule, Written
    <3>2. failed \in BOOLEAN /\ schedule.notified \in BOOLEAN /\ next \in {Never} \cup Nat
      BY <1>t, SchedulesConstants DEF Run, ScheduleRow
    <3>3. /\ noted \in ScheduleRow /\ noted.exists = schedule.exists
          /\ noted.notified = (failed /\ schedule.notified)
      BY <1>t, <3>2 DEF ScheduleRow
    <3> HIDE DEF noted
    <3>4. /\ outcome \in ScheduleRow /\ outcome.exists = schedule.exists
          /\ outcome.notified = IF ran THEN failed /\ schedule.notified ELSE schedule.notified
      BY <1>t, <3>3
    <3> HIDE DEF outcome
    <3>5. /\ schedule' \in ScheduleRow /\ schedule'.exists
          /\ schedule'.notified = IF ran THEN failed /\ schedule.notified ELSE schedule.notified
      BY <2>3, <3>1, <3>2, <3>4 DEF ScheduleRow
    <3>6. told' = IF ran /\ ~failed THEN 0 ELSE told
      BY <2>3 DEF Reschedule
    <3>7. CASE ran /\ ~failed
      BY <1>t, <3>5, <3>6, <3>7 DEF Dated, Armed
    <3>8. CASE ~(ran /\ ~failed)
      BY <1>i, <2>3, <3>2, <3>5, <3>6, <3>8 DEF Dated, Armed
    <3> QED
      BY <3>7, <3>8
  <2> QED
    BY <2>1, <2>2, <2>3
<1>8. told' \in Nat
  BY <1>7 DEF Armed
<1> QED
  BY <1>i, <1>1, <1>4, <1>5, <1>6, <1>7, <1>8 DEF SchedulesIInv, SchedulesTyped

LEMMA SignalerEchecKeeps ==
  ASSUME SchedulesIInv, NEW r \in Runs, SignalerEchec(r)
  PROVE  SchedulesIInv'
<1>i. SchedulesTyped /\ Marked /\ Dated /\ OncePerPanel /\ Armed /\ Leased
  BY DEF SchedulesIInv
<1>t. run \in [Panels -> [Places -> Run]] /\ schedule \in ScheduleRow /\ told \in Nat
  BY <1>i DEF SchedulesTyped
<1> DEFINE armed == schedule.exists /\ ~schedule.notified
<1>1. /\ RunOf(r).at = "telling" /\ RunBecomes(r, NoRun)
      /\ inFlight' = [inFlight EXCEPT ![r[1]] = FALSE]
      /\ schedule' = IF armed THEN [schedule EXCEPT !.notified = TRUE] ELSE schedule
      /\ told' = IF armed THEN told + 1 ELSE told
      /\ UNCHANGED <<excused, changes>>
  BY DEF SignalerEchec, RunOver
<1>2. RunOf(r) # NoRun
  BY <1>1, Nothing
<1>3. /\ run' \in [Panels -> [Places -> Run]] /\ RunOf(r)' = NoRun
      /\ \A s \in Runs : s # r => RunOf(s)' = RunOf(s)
  BY <1>t, <1>1, Nothing, RunStep
<1>4. inFlight' \in [Panels -> BOOLEAN] /\ Marked' /\ OncePerPanel'
  BY <1>i, <1>1, <1>2, Nothing, OwnPlace
<1>5. /\ schedule' \in ScheduleRow /\ schedule'.exists = schedule.exists
      /\ schedule'.next = schedule.next
      /\ schedule'.notified = (schedule.notified \/ armed)
  BY <1>t, <1>1 DEF ScheduleRow
<1>6. Leased'
  <2>1. ~Executes(r)'
    BY <1>3, Nothing DEF Executes
  <2> QED
    BY <1>i, <1>1, <1>3, <1>5, <2>1, LeaseStays
<1>7. told' \in Nat /\ Dated' /\ Armed'
  BY <1>i, <1>t, <1>1, <1>5 DEF Dated, Armed
<1> QED
  BY <1>i, <1>1, <1>3, <1>4, <1>5, <1>6, <1>7 DEF SchedulesIInv, SchedulesTyped

LEMMA PanelStopsKeeps ==
  ASSUME SchedulesIInv, NEW p \in Panels, PanelStops(p)
  PROVE  SchedulesIInv'
<1>i. SchedulesTyped /\ Marked /\ Dated /\ OncePerPanel /\ Armed /\ Leased
  BY DEF SchedulesIInv
<1>t. /\ run \in [Panels -> [Places -> Run]] /\ inFlight \in [Panels -> BOOLEAN]
      /\ excused \in BOOLEAN /\ changes \in 0..MaxChanges
  BY <1>i DEF SchedulesTyped
<1>1. /\ changes < MaxChanges /\ changes' = changes + 1
      /\ run' = [run EXCEPT ![p] = [i \in Places |-> NoRun]]
      /\ inFlight' = [inFlight EXCEPT ![p] = FALSE]
      /\ StillExcused(FALSE) /\ UNCHANGED <<schedule, told>>
  BY DEF PanelStops
<1>2. [i \in Places |-> NoRun] \in [Places -> Run]
  BY Nothing
<1>3. /\ run' \in [Panels -> [Places -> Run]] /\ \A i \in Places : run'[p][i] = NoRun
      /\ \A q \in Panels : q # p => run'[q] = run[q]
  BY <1>t, <1>1, <1>2
<1>4. inFlight' \in [Panels -> BOOLEAN] /\ Marked'
  BY <1>i, <1>t, <1>1, <1>3 DEF Marked
<1>5. OncePerPanel'
  BY <1>i, <1>3 DEF OncePerPanel, Places
<1>6. \A r \in Runs : Executes(r)' => Executes(r) /\ RunOf(r)' = RunOf(r)
  BY <1>3, Nothing DEF Runs, Executes, RunOf
<1>7. excused' = (excused /\ \E s \in Runs : Executes(s)')
  BY <1>1 DEF StillExcused, Executes, RunOf
<1>8. Leased'
  BY <1>i, <1>1, <1>6, <1>7 DEF Leased
<1>9. changes' \in 0..MaxChanges /\ excused' \in BOOLEAN
  BY <1>t, <1>1, <1>7, ChangesAssumption
<1> QED
  BY <1>i, <1>1, <1>3, <1>4, <1>5, <1>8, <1>9 DEF SchedulesIInv, SchedulesTyped, Dated, Armed

\* The client: whatever executes is excused.
LEMMA ChangeKeeps ==
  ASSUME SchedulesIInv, RunNow \/ RemoveSchedule \/ \E active \in BOOLEAN : SetActive(active)
  PROVE  SchedulesIInv'
<1>i. SchedulesTyped /\ Marked /\ Dated /\ OncePerPanel /\ Armed /\ Leased
  BY DEF SchedulesIInv
<1>t. schedule \in ScheduleRow /\ excused \in BOOLEAN /\ changes \in 0..MaxChanges
  BY <1>i DEF SchedulesTyped
<1>1. /\ schedule.exists /\ changes < MaxChanges /\ changes' = changes + 1
      /\ excused' = (excused \/ Executing) /\ UNCHANGED <<run, inFlight, told>>
  BY DEF RunNow, RemoveSchedule, SetActive, Change
<1>2. /\ schedule' \in ScheduleRow /\ schedule'.notified = schedule.notified
      /\ ~schedule'.exists => schedule'.next = Never
  <2>1. CASE RunNow
    BY <1>t, <1>1, <2>1 DEF RunNow, ScheduleRow
  <2>2. CASE RemoveSchedule
    BY <1>t, <1>1, <2>2 DEF RemoveSchedule, ScheduleRow
  <2>3. ASSUME NEW active \in BOOLEAN, SetActive(active)
        PROVE  /\ schedule' \in ScheduleRow /\ schedule'.notified = schedule.notified
               /\ schedule'.exists
    <3>1. PICK next \in {Never} \cup Nat :
            schedule' = [schedule EXCEPT !.active = active, !.next = next]
      BY <2>3, SchedulesConstants DEF SetActive
    <3> QED
      BY <1>t, <1>1, <3>1 DEF ScheduleRow
  <2> QED
    BY <2>1, <2>2, <2>3
<1>3. Leased'
  <2>1. ~excused' => \A r \in Runs : ~Executes(r)'
    BY <1>1 DEF Executing, Executes, RunOf
  <2> QED
    BY <2>1 DEF Leased
<1>4. changes' \in 0..MaxChanges /\ excused' \in BOOLEAN
  BY <1>t, <1>1, ChangesAssumption DEF Executing
<1>5. Dated' /\ Armed'
  BY <1>i, <1>1, <1>2 DEF Dated, Armed
<1> QED
  BY <1>i, <1>1, <1>2, <1>3, <1>4, <1>5 DEF SchedulesIInv, SchedulesTyped, Marked, OncePerPanel

LEMMA TickKeeps ==
  ASSUME SchedulesIInv, Tick
  PROVE  SchedulesIInv'
<1>i. SchedulesTyped /\ Marked /\ Dated /\ OncePerPanel /\ Armed /\ Leased
  BY DEF SchedulesIInv
<1>t. schedule \in ScheduleRow /\ run \in [Panels -> [Places -> Run]] /\ excused \in BOOLEAN
  BY <1>i DEF SchedulesTyped
<1> DEFINE Older(x) == [x EXCEPT !.lease = Sooner(@), !.wait = Sooner(@)]
<1>1. /\ schedule' = [schedule EXCEPT !.next = Sooner(@)]
      /\ run' = [p \in Panels |-> [i \in Places |-> Older(run[p][i])]]
      /\ StillExcused(\E r \in Runs : Executes(r) /\ RunOf(r).lease <= 1)
      /\ UNCHANGED <<inFlight, told, changes>>
  BY DEF Tick
<1>2. /\ \A n \in Nat : Sooner(n) \in Nat /\ (n > 1 => Sooner(n) = n - 1 /\ Sooner(n) >= 1)
      /\ Sooner(Never) = Never /\ Sooner(0) = 0
  BY SchedulesConstants DEF Sooner
<1>3. \A x \in Run : Older(x) \in Run /\ Older(x).at = x.at /\ Older(x).lease = Sooner(x.lease)
  BY <1>2 DEF Run
<1>4. Older(NoRun) = NoRun
  <2> DEFINE a == [NoRun EXCEPT !.lease = Sooner(NoRun.lease)]
             b == [a EXCEPT !.wait = Sooner(a.wait)]
  <2>1. a = NoRun
    BY <1>2 DEF NoRun
  <2>2. b = NoRun
    BY <1>2, <2>1 DEF NoRun
  <2> QED
    BY <2>1, <2>2
<1> HIDE DEF Older
<1>5. /\ run' \in [Panels -> [Places -> Run]]
      /\ \A p \in Panels, i \in Places : run'[p][i] = Older(run[p][i])
  BY <1>t, <1>1, <1>3
<1>6. Marked' /\ OncePerPanel'
  BY <1>i, <1>1, <1>4, <1>5 DEF Marked, OncePerPanel
<1>7. /\ schedule' \in ScheduleRow /\ schedule'.exists = schedule.exists
      /\ schedule'.notified = schedule.notified /\ schedule'.next = Sooner(schedule.next)
  BY <1>t, <1>1, <1>2 DEF ScheduleRow
<1>8. \A r \in Runs : /\ RunOf(r) \in Run /\ RunOf(r)' \in Run
                      /\ Executes(r)' <=> Executes(r)
                      /\ RunOf(r)'.lease = Sooner(RunOf(r).lease)
  BY <1>t, <1>3, <1>5 DEF Runs, RunOf, Executes
<1>9. excused' = /\ excused \/ \E r \in Runs : Executes(r) /\ RunOf(r).lease <= 1
                 /\ \E r \in Runs : Executes(r)'
  BY <1>1 DEF StillExcused, Executes, RunOf
<1>10. Leased'
  <2> SUFFICES ASSUME ~excused', NEW r \in Runs, Executes(r)'
               PROVE  /\ \A s \in Runs : Executes(s)' => r = s
                      /\ RunOf(r)'.lease >= 1
                      /\ schedule'.exists => schedule'.next = RunOf(r)'.lease
    BY DEF Leased
  <2>1. ~excused /\ RunOf(r).lease > 1 /\ RunOf(r).lease \in Nat
    BY <1>8, <1>9 DEF Run
  <2>2. \A s \in Runs : Executes(s) => r = s
    BY <1>i, <1>8, <2>1 DEF Leased
  <2>3. schedule.exists => schedule.next = RunOf(r).lease
    BY <1>i, <1>8, <2>1 DEF Leased
  <2> QED
    BY <1>2, <1>7, <1>8, <2>1, <2>2, <2>3
<1>11. Dated' /\ Armed' /\ excused' \in BOOLEAN
  BY <1>i, <1>t, <1>1, <1>2, <1>7, <1>9 DEF Dated, Armed
<1> QED
  BY <1>i, <1>1, <1>5, <1>6, <1>7, <1>10, <1>11 DEF SchedulesIInv, SchedulesTyped

LEMMA SchedulesPreserved == SchedulesIInv /\ [SchedulesNext]_schedulesVars => SchedulesIInv'
<1> SUFFICES ASSUME SchedulesIInv, [SchedulesNext]_schedulesVars PROVE SchedulesIInv'
  OBVIOUS
<1>1. CASE UNCHANGED schedulesVars
  BY <1>1 DEF schedulesVars, SchedulesIInv, SchedulesTyped, Marked, Dated, OncePerPanel, Armed,
              Leased, Executes, RunOf
<1> QED
  BY <1>1, ClaimDueKeeps, ExecuteKeeps, BeginKeeps, RescheduleKeeps, SignalerEchecKeeps,
     PanelStopsKeeps, ChangeKeeps, TickKeeps DEF SchedulesNext, Execute

LEMMA SchedulesInductive == SchedulesSpec => []SchedulesIInv
<1> QED
  BY SchedulesInitially, SchedulesPreserved, PTL DEF SchedulesSpec

-----------------------------------------------------------------------------

\* The type of the row and of the executions; what runs is marked as in flight.
THEOREM SchedulesTypeCorrect == SchedulesSpec => []SchedulesTypeOK
<1>1. SchedulesIInv => SchedulesTypeOK
  BY DEF SchedulesIInv, SchedulesTyped, Marked, Dated, SchedulesTypeOK, ScheduleRow
<1> QED
  BY <1>1, SchedulesInductive, PTL

\* The set in flight keeps a process from running a schedule twice at a time, whatever
\* becomes of its date and of its lease.
THEOREM NeverTwiceInAPanel == SchedulesSpec => []OncePerPanel
<1>1. SchedulesIInv => OncePerPanel
  BY DEF SchedulesIInv
<1> QED
  BY <1>1, SchedulesInductive, PTL

\* The lease keeps two panels apart, while no execution outlives it and the client
\* leaves the date alone.
THEOREM LeaseIsExclusive == SchedulesSpec => []OneExecution
<1>1. SchedulesIInv => OneExecution
  BY DEF SchedulesIInv, Leased, OneExecution
<1> QED
  BY <1>1, SchedulesInductive, PTL

\* The owner is told of a breakdown once, however many executions fail and however
\* they interleave with the client's changes.
THEOREM BreakdownToldOnce == SchedulesSpec => []ToldOnce
<1>1. SchedulesIInv => ToldOnce
  BY DEF SchedulesIInv, Armed, ToldOnce
<1> QED
  BY <1>1, SchedulesInductive, PTL

-----------------------------------------------------------------------------
(* The deliveries (module WebhookQueue). *)

DeliveryRow == [attempts: 0..(Retries + 1), next: {"none", "later", "due"},
                outcome: {"open", "delivered", "abandoned"}]
Sender == [at: {"idle", "read", "taken", "posted"}, attempts: 0..Retries,
           answer: {"none", "accepted", "unavailable", "rejected"}]

\* The types, without what the last conjunct of WebhookTypeOK says of an answer.
WebhookTyped ==
  /\ delivery \in DeliveryRow /\ isActive \in BOOLEAN /\ sender \in [Dispatchers -> Sender]
  /\ posts \in Nat /\ mishaps \in 0..MaxMishaps /\ shared \in BOOLEAN /\ lost \in BOOLEAN

\* Only a posted request has an answer.
Answered == \A d \in Dispatchers : sender[d].at = "posted" <=> sender[d].answer # "none"

\* A delivery in the queue has an attempt left.
AttemptLeft == delivery.next # "none" => delivery.attempts <= Retries

\* What each holder knows of a delivery nobody else holds.
InHand(d) ==
  /\ delivery.outcome = "open" /\ sender[d].attempts = delivery.attempts
  /\ posts = delivery.attempts + (IF sender[d].at = "posted" THEN 1 ELSE 0)
  /\ delivery.next = IF sender[d].at = "read" THEN "due" ELSE "none"

\* As long as no two dispatchers have held the delivery at once.
Alone ==
  ~shared =>
    /\ \A d, e \in Dispatchers : Holds(d) /\ Holds(e) => d = e
    /\ \A d \in Dispatchers : Holds(d) => InHand(d)
    /\ delivery.next # "none" => delivery.outcome = "open" /\ posts = delivery.attempts
    /\ posts <= delivery.attempts + 1 /\ posts <= Retries + 1

\* A delivery that is open and out of the queue is with someone who took it.
TakenOff ==
  delivery.outcome = "open" /\ ~lost /\ delivery.next = "none" =>
    \E d \in Dispatchers : sender[d].at \in {"taken", "posted"}

WebhookIInv == WebhookTyped /\ Answered /\ AttemptLeft /\ Alone /\ TakenOff

-----------------------------------------------------------------------------

LEMMA SenderStep ==
  ASSUME sender \in [Dispatchers -> Sender], NEW d \in Dispatchers, NEW s \in Sender,
         SenderBecomes(d, s)
  PROVE  /\ sender' \in [Dispatchers -> Sender] /\ sender'[d] = s
         /\ \A e \in Dispatchers : e # d => sender'[e] = sender[e]
  BY DEF SenderBecomes

LEMMA NobodyHolds ==
  /\ NoSender \in Sender /\ NoSender.at = "idle" /\ NoSender.answer = "none"
  /\ NoSender.attempts = 0
<1>1. 0 \in 0..Retries
  BY WebhookAssumption
<1> QED
  BY <1>1 DEF NoSender, Sender

LEMMA WebhookInitially == WebhookInit => WebhookIInv
<1> SUFFICES ASSUME WebhookInit PROVE WebhookIInv
  OBVIOUS
<1>1. \A d \in Dispatchers : sender[d] = NoSender
  BY DEF WebhookInit
<1>2. WebhookTyped
  <2>1. sender \in [Dispatchers -> Sender]
    BY NobodyHolds DEF WebhookInit
  <2>2. 0 \in 0..(Retries + 1) /\ 0 \in 0..MaxMishaps
    BY WebhookAssumption
  <2>3. delivery \in DeliveryRow
    BY <2>2 DEF WebhookInit, DeliveryRow
  <2> QED
    BY <2>1, <2>2, <2>3 DEF WebhookInit, WebhookTyped
<1>3. \A d \in Dispatchers : ~Holds(d)
  BY <1>1, NobodyHolds DEF Holds
<1>4. delivery.next = "due" /\ delivery.outcome = "open" /\ delivery.attempts = 0 /\ posts = 0
  BY DEF WebhookInit
<1>5. Answered /\ AttemptLeft /\ TakenOff
  BY <1>1, <1>4, NobodyHolds, WebhookAssumption DEF Answered, AttemptLeft, TakenOff
<1>6. Alone
  BY <1>3, <1>4, WebhookAssumption DEF Alone
<1> QED
  BY <1>2, <1>5, <1>6 DEF WebhookIInv

LEMMA WebhookPreserved == WebhookIInv /\ [WebhookNext]_webhookVars => WebhookIInv'
<1> SUFFICES ASSUME WebhookIInv, [WebhookNext]_webhookVars PROVE WebhookIInv'
  OBVIOUS
<1>i. WebhookTyped /\ Answered /\ AttemptLeft /\ Alone /\ TakenOff
  BY DEF WebhookIInv
<1>t. /\ delivery \in DeliveryRow /\ isActive \in BOOLEAN /\ sender \in [Dispatchers -> Sender]
      /\ posts \in Nat /\ mishaps \in 0..MaxMishaps /\ shared \in BOOLEAN /\ lost \in BOOLEAN
  BY <1>i DEF WebhookTyped
<1>n. Retries \in Nat /\ MaxMishaps \in Nat
  BY WebhookAssumption
<1>1. ASSUME NEW d \in Dispatchers, ClaimRead(d) PROVE WebhookIInv'
  <2> DEFINE s == [at |-> "read", attempts |-> delivery.attempts, answer |-> "none"]
  <2>1. /\ ~Holds(d) /\ delivery.next = "due" /\ SenderBecomes(d, s)
        /\ shared' = (shared \/ \E e \in Dispatchers : Holds(e))
        /\ UNCHANGED <<delivery, isActive, posts, mishaps, lost>>
    BY <1>1 DEF ClaimRead
  <2>2. s \in Sender /\ s.at = "read" /\ s.answer = "none" /\ s.attempts = delivery.attempts
    <3>1. delivery.attempts \in 0..Retries
      BY <1>i, <1>t, <1>n, <2>1 DEF AttemptLeft, DeliveryRow
    <3> QED
      BY <3>1 DEF Sender
  <2> HIDE DEF s
  <2>3. /\ sender' \in [Dispatchers -> Sender] /\ sender'[d] = s
        /\ \A e \in Dispatchers : e # d => sender'[e] = sender[e]
    BY <1>t, <2>1, <2>2, SenderStep
  <2>4. WebhookTyped' /\ Answered' /\ AttemptLeft' /\ TakenOff'
    BY <1>i, <1>t, <2>1, <2>2, <2>3 DEF WebhookTyped, Answered, AttemptLeft, TakenOff, DeliveryRow
  <2>5. Alone'
    <3> SUFFICES ASSUME ~shared' PROVE Alone'
      BY DEF Alone
    <3>1. ~shared /\ \A e \in Dispatchers : ~Holds(e)
      BY <2>1, <2>2
    <3>2. /\ delivery.outcome = "open" /\ posts = delivery.attempts
          /\ posts <= delivery.attempts + 1 /\ posts <= Retries + 1
      BY <1>i, <2>1, <3>1 DEF Alone
    <3>3. \A e \in Dispatchers : Holds(e)' => e = d
      BY <2>3, <3>1 DEF Holds
    <3>4. InHand(d)'
      BY <2>1, <2>2, <2>3, <3>2, <1>t DEF InHand, DeliveryRow
    <3> QED
      BY <2>1, <3>2, <3>3, <3>4 DEF Alone
  <2> QED
    BY <2>4, <2>5 DEF WebhookIInv
<1>2. ASSUME NEW d \in Dispatchers, ClaimTake(d) PROVE WebhookIInv'
  <2> DEFINE s == [sender[d] EXCEPT !.at = "taken"]
  <2>1. /\ sender[d].at = "read" /\ SenderBecomes(d, s)
        /\ delivery' = [delivery EXCEPT !.next = "none"]
        /\ UNCHANGED <<isActive, posts, mishaps, shared, lost>>
    BY <1>2 DEF ClaimTake
  <2>2. s \in Sender /\ s.at = "taken" /\ s.answer = "none" /\ s.attempts = sender[d].attempts
    BY <1>i, <1>t, <2>1 DEF Sender, Answered
  <2> HIDE DEF s
  <2>3. /\ sender' \in [Dispatchers -> Sender] /\ sender'[d] = s
        /\ \A e \in Dispatchers : e # d => sender'[e] = sender[e]
    BY <1>t, <2>1, <2>2, SenderStep
  <2>4. /\ delivery' \in DeliveryRow /\ delivery'.next = "none"
        /\ delivery'.attempts = delivery.attempts
        /\ delivery'.outcome = delivery.outcome
    BY <1>t, <2>1 DEF DeliveryRow
  <2>5. WebhookTyped' /\ Answered' /\ AttemptLeft' /\ TakenOff'
    BY <1>i, <1>t, <2>1, <2>2, <2>3, <2>4 DEF WebhookTyped, Answered, AttemptLeft, TakenOff
  <2>6. Alone'
    <3> SUFFICES ASSUME ~shared PROVE Alone'
      BY <2>1 DEF Alone
    <3>1. \A e \in Dispatchers : Holds(e)' => e = d
      BY <1>i, <2>1, <2>3 DEF Alone, Holds
    <3>2. /\ delivery.outcome = "open" /\ sender[d].attempts = delivery.attempts
          /\ posts = delivery.attempts /\ posts <= delivery.attempts + 1 /\ posts <= Retries + 1
      BY <1>i, <1>t, <2>1 DEF Alone, Holds, InHand, DeliveryRow
    <3>3. InHand(d)'
      BY <1>t, <2>1, <2>2, <2>3, <2>4, <3>2 DEF InHand, DeliveryRow
    <3> QED
      BY <2>1, <2>4, <3>1, <3>2, <3>3 DEF Alone
  <2> QED
    BY <2>5, <2>6 DEF WebhookIInv
<1>3. ASSUME NEW d \in Dispatchers, Deliver(d) PROVE WebhookIInv'
  <2>1. PICK answer \in {"accepted", "unavailable", "rejected"} :
          SenderBecomes(d, [at |-> "posted", attempts |-> sender[d].attempts, answer |-> answer])
    BY <1>3 DEF Deliver
  <2> DEFINE s == [at |-> "posted", attempts |-> sender[d].attempts, answer |-> answer]
  <2>2. s \in Sender /\ s.at = "posted" /\ s.answer # "none" /\ s.attempts = sender[d].attempts
    BY <1>t DEF Sender
  <2>3. SenderBecomes(d, s)
    BY <2>1
  <2> HIDE DEF s
  <2>4. /\ sender' \in [Dispatchers -> Sender] /\ sender'[d] = s
        /\ \A e \in Dispatchers : e # d => sender'[e] = sender[e]
    BY <1>t, <2>2, <2>3, SenderStep
  <2>5. /\ sender[d].at = "taken" /\ posts' = IF posts > Retries + 1 THEN posts ELSE posts + 1
        /\ UNCHANGED <<delivery, isActive, mishaps, shared, lost>>
    BY <1>3 DEF Deliver
  <2>6. WebhookTyped' /\ Answered' /\ AttemptLeft' /\ TakenOff'
    BY <1>i, <1>t, <1>n, <2>2, <2>4, <2>5 DEF WebhookTyped, Answered, AttemptLeft, TakenOff
  <2>7. ASSUME ~shared PROVE posts = delivery.attempts /\ delivery.attempts \in 0..Retries
    BY <1>i, <1>t, <2>5, <2>7 DEF Alone, Holds, InHand, Sender
  <2>8. Alone'
    BY <1>i, <1>t, <1>n, <2>2, <2>4, <2>5, <2>7 DEF Alone, Holds, InHand
  <2> QED
    BY <2>6, <2>8 DEF WebhookIInv
<1>4. ASSUME NEW d \in Dispatchers, Settle(d) PROVE WebhookIInv'
  <2>1. /\ sender[d].at = "posted" /\ SenderBecomes(d, NoSender)
        /\ UNCHANGED <<isActive, posts, mishaps, shared, lost>>
    BY <1>4 DEF Settle
  <2>2. /\ delivery' \in DeliveryRow /\ delivery'.next = "none" /\ delivery'.outcome # "open"
        /\ delivery'.attempts = sender[d].attempts + 1
    <3>1. sender[d].attempts + 1 \in 0..(Retries + 1)
      BY <1>t, <1>n DEF Sender
    <3> QED
      BY <1>4, <3>1 DEF Settle, Attempts, DeliveryRow
  <2>3. /\ sender' \in [Dispatchers -> Sender] /\ sender'[d] = NoSender
        /\ \A e \in Dispatchers : e # d => sender'[e] = sender[e]
    BY <1>t, <2>1, NobodyHolds, SenderStep
  <2>4. WebhookTyped' /\ Answered' /\ AttemptLeft' /\ TakenOff'
    BY <1>i, <1>t, <2>1, <2>2, <2>3, NobodyHolds DEF WebhookTyped, Answered, AttemptLeft, TakenOff
  <2>5. Alone'
    <3> SUFFICES ASSUME ~shared PROVE Alone'
      BY <2>1 DEF Alone
    <3>1. posts = sender[d].attempts + 1 /\ sender[d].attempts \in 0..Retries
      BY <1>i, <1>t, <2>1 DEF Alone, Holds, InHand, Sender
    <3>2. \A e \in Dispatchers : ~Holds(e)'
      BY <1>i, <2>1, <2>3, NobodyHolds DEF Alone, Holds
    <3> QED
      BY <1>n, <2>1, <2>2, <3>1, <3>2 DEF Alone
  <2> QED
    BY <2>4, <2>5 DEF WebhookIInv
<1>5. ASSUME NEW d \in Dispatchers, Retry(d) PROVE WebhookIInv'
  <2>1. /\ sender[d].at = "posted" /\ SenderBecomes(d, NoSender)
        /\ sender[d].attempts + 1 <= Retries
        /\ delivery' = [delivery EXCEPT !.attempts = sender[d].attempts + 1, !.next = "later"]
        /\ UNCHANGED <<isActive, posts, mishaps, shared, lost>>
    BY <1>5 DEF Retry, Attempts
  <2>2. /\ delivery' \in DeliveryRow /\ delivery'.next = "later"
        /\ delivery'.outcome = delivery.outcome
        /\ delivery'.attempts = sender[d].attempts + 1
    <3>1. sender[d].attempts + 1 \in 0..(Retries + 1)
      BY <1>t, <1>n DEF Sender
    <3> QED
      BY <1>t, <2>1, <3>1 DEF DeliveryRow
  <2>3. /\ sender' \in [Dispatchers -> Sender] /\ sender'[d] = NoSender
        /\ \A e \in Dispatchers : e # d => sender'[e] = sender[e]
    BY <1>t, <2>1, NobodyHolds, SenderStep
  <2>4. WebhookTyped' /\ Answered' /\ AttemptLeft' /\ TakenOff'
    BY <1>i, <1>t, <2>1, <2>2, <2>3, NobodyHolds DEF WebhookTyped, Answered, AttemptLeft, TakenOff
  <2>5. Alone'
    <3> SUFFICES ASSUME ~shared PROVE Alone'
      BY <2>1 DEF Alone
    <3>1. /\ posts = sender[d].attempts + 1 /\ sender[d].attempts \in 0..Retries
          /\ delivery.outcome = "open"
      BY <1>i, <1>t, <2>1 DEF Alone, Holds, InHand, Sender
    <3>2. \A e \in Dispatchers : ~Holds(e)'
      BY <1>i, <2>1, <2>3, NobodyHolds DEF Alone, Holds
    <3> QED
      BY <1>n, <2>1, <2>2, <3>1, <3>2 DEF Alone
  <2> QED
    BY <2>4, <2>5 DEF WebhookIInv
<1>6. ASSUME NEW d \in Dispatchers, SenderFails(d) PROVE WebhookIInv'
  <2>1. /\ Holds(d) /\ SenderBecomes(d, NoSender)
        /\ lost' = (lost \/ sender[d].at # "read")
        /\ UNCHANGED <<delivery, isActive, posts, shared>> /\ mishaps' \in 0..MaxMishaps
    BY <1>6, <1>t, <1>n DEF SenderFails
  <2>2. /\ sender' \in [Dispatchers -> Sender] /\ sender'[d] = NoSender
        /\ \A e \in Dispatchers : e # d => sender'[e] = sender[e]
    BY <1>t, <2>1, NobodyHolds, SenderStep
  <2>3. WebhookTyped' /\ Answered' /\ AttemptLeft' /\ TakenOff'
    BY <1>i, <1>t, <2>1, <2>2, NobodyHolds DEF WebhookTyped, Answered, AttemptLeft, TakenOff
  <2>4. Alone'
    BY <1>i, <2>1, <2>2, NobodyHolds DEF Alone, Holds, InHand
  <2> QED
    BY <2>3, <2>4 DEF WebhookIInv
<1>7. ASSUME DelayPasses PROVE WebhookIInv'
  <2>1. /\ delivery.next = "later" /\ delivery' = [delivery EXCEPT !.next = "due"]
        /\ UNCHANGED <<isActive, sender, posts, mishaps, shared, lost>>
    BY <1>7 DEF DelayPasses
  <2>2. /\ delivery' \in DeliveryRow /\ delivery'.next = "due"
        /\ delivery'.outcome = delivery.outcome
        /\ delivery'.attempts = delivery.attempts
    BY <1>t, <2>1 DEF DeliveryRow
  <2>3. WebhookTyped' /\ Answered' /\ AttemptLeft' /\ TakenOff'
    BY <1>i, <1>t, <2>1, <2>2 DEF WebhookTyped, Answered, AttemptLeft, TakenOff
  <2>4. Alone'
    BY <1>i, <2>1, <2>2 DEF Alone, Holds, InHand
  <2> QED
    BY <2>3, <2>4 DEF WebhookIInv
<1>8. ASSUME SwitchWebhook PROVE WebhookIInv'
  BY <1>i, <1>t, <1>n, <1>8
     DEF SwitchWebhook, WebhookIInv, WebhookTyped, Answered, AttemptLeft, Alone, TakenOff, Holds,
         InHand
<1>9. ASSUME UNCHANGED webhookVars PROVE WebhookIInv'
  BY <1>i, <1>9
     DEF webhookVars, WebhookIInv, WebhookTyped, Answered, AttemptLeft, Alone, TakenOff, Holds,
         InHand
<1> QED
  BY <1>1, <1>2, <1>3, <1>4, <1>5, <1>6, <1>7, <1>8, <1>9 DEF WebhookNext, Dispatch

LEMMA WebhookInductive == WebhookSpec => []WebhookIInv
<1> QED
  BY WebhookInitially, WebhookPreserved, PTL DEF WebhookSpec

-----------------------------------------------------------------------------

\* The type of the row, of what the dispatchers hold and of the counters.
THEOREM WebhookTypeCorrect == WebhookSpec => []WebhookTypeOK
<1>1. WebhookIInv => WebhookTypeOK
  BY DEF WebhookIInv, WebhookTyped, Answered, WebhookTypeOK, DeliveryRow, Sender
<1> QED
  BY <1>1, WebhookInductive, PTL

\* The receiver gets one request per attempt of the schedule of delays at most, as
\* long as two panels do not hold the delivery at once.
THEOREM PostsCounted == WebhookSpec => []OnePostPerAttempt
<1>1. WebhookIInv => OnePostPerAttempt
  BY DEF WebhookIInv, Alone, OnePostPerAttempt
<1> QED
  BY <1>1, WebhookInductive, PTL

\* A delivery that is open is in the queue or held, unless a holder failed.
THEOREM NeverForgotten == WebhookSpec => []Queued
<1>1. WebhookIInv => Queued
  BY DEF WebhookIInv, TakenOff, Queued, Holds
<1> QED
  BY <1>1, WebhookInductive, PTL

\* A closed delivery changes no more, as long as two panels do not hold it at once.
THEOREM StaysClosed == WebhookSpec => ClosedForGood
<1>1. WebhookIInv /\ [WebhookNext]_webhookVars =>
        [~shared' /\ delivery.outcome # "open" => delivery' = delivery]_webhookVars
  <2> SUFFICES ASSUME WebhookIInv, [WebhookNext]_webhookVars, ~shared', delivery.outcome # "open"
               PROVE  delivery' = delivery
    OBVIOUS
  <2>1. CASE shared
    BY <2>1 DEF WebhookNext, Dispatch, ClaimRead, ClaimTake, Deliver, Settle, Retry,
                SenderFails, DelayPasses, SwitchWebhook, webhookVars
  <2>2. CASE ~shared
    <3>1. (\A d \in Dispatchers : sender[d].at = "idle") /\ delivery.next = "none"
      BY <2>2 DEF WebhookIInv, Alone, Holds, InHand
    <3> QED
      BY <3>1 DEF WebhookNext, Dispatch, ClaimRead, ClaimTake, Deliver, Settle, Retry,
                  SenderFails, DelayPasses, SwitchWebhook, webhookVars
  <2> QED
    BY <2>1, <2>2
<1> QED
  BY <1>1, WebhookInductive, PTL DEF WebhookSpec, ClosedForGood
=============================================================================
