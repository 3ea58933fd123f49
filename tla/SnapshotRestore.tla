--------------------------- MODULE SnapshotRestore ---------------------------
(***************************************************************************)
(* Restoring one server from a snapshot: the panel locks the server, waits *)
(* for its daemon to report it stopped, then lets the agent of the node    *)
(* fetch the order, take a safety snapshot, copy, and report.              *)
(*                                                                         *)
(* Sources: snapshots/snapshots.service.ts (restore, releaseWhenStopped,   *)
(* failWaiting, expireOrders, agentState, applyReport), the restoration of *)
(* a backup, which takes the same lock, what lifts that lock from outside, *)
(* and the agent (instantanes/service.go, restauration.go, journal.go).    *)
(*                                                                         *)
(* A transaction of the panel is one step; so is one write of the agent's  *)
(* journal with the work it brackets, up to where a crash would show.      *)
(***************************************************************************)
EXTENDS Integers, Sequences, FiniteSets

CONSTANTS
  Handlers,    \* requests and followers of the API that may be in progress
  MaxOrders,   \* bound: rows of snapshot_orders
  MaxFaults    \* bound: restarts of the API, of the agent and of the daemon,
               \* answers to a report lost, other writes of the server's row

ASSUME BoundsAssumption == MaxOrders \in Nat /\ MaxFaults \in Nat

VARIABLES
  state,     \* servers.state
  overdue,   \* six hours have passed since servers.updated_at
  orders,    \* snapshot_orders of kind restaurer, in order of creation
  call,      \* what each request or follower in progress has reached
  running,   \* the daemon runs the game
  backup,    \* the daemon is restoring a backup of this server
  echo,      \* its report of the last one: to be heard first, or again, or none
  folder,    \* what the folder of the server holds
  journal,   \* the agent's record of each order
  agent,     \* its round in progress
  faults,    \* restarts, lost answers and foreign writes of the row so far
  excused,   \* history: a start went out on a check that no longer held, or the
             \* lock was lifted under an operation in progress
  orphan     \* history: who took the present lock is gone

vars == <<state, overdue, orders, call, running, backup, echo, folder, journal, agent,
          faults, excused, orphan>>

Orders == 1..MaxOrders
Content == {"nothing", "whole", "half"}

Order == [state: {"waiting", "pending", "done", "failed"}, age: 0..2, safety: Content]
Entry == [state: {"unknown", "begun", "succeeded", "failed"},
          before: Content, safety: Content]

Idle == [at |-> "idle"]
Call == {Idle} \cup [at: {"start", "claimed", "backup"}]
               \cup [at: {"follow", "send"}, order: Nat]

\* The order being copied, 0 for none.
Resting == [todo |-> {}, copying |-> 0, results |-> {}]

TypeOK ==
  /\ state \in {"none", "restoring", "suspended"}
  /\ overdue \in BOOLEAN
  /\ orders \in Seq(Order)
  /\ call \in [Handlers -> Call]
  /\ \A h \in Handlers : call[h].at \in {"follow", "send"} => call[h].order \in DOMAIN orders
  /\ running \in BOOLEAN /\ backup \in BOOLEAN
  /\ echo \in {"none", "first", "again"}
  /\ folder \in {"whole", "half"}
  /\ journal \in [Orders -> Entry]
  /\ agent \in [todo: SUBSET DOMAIN orders, copying: {0} \cup DOMAIN orders,
                results: SUBSET DOMAIN orders]
  /\ faults \in 0..MaxFaults
  /\ excused \in BOOLEAN /\ orphan \in BOOLEAN

Init ==
  /\ state = "none" /\ overdue = FALSE
  /\ orders = << >>
  /\ call = [h \in Handlers |-> Idle]
  /\ running \in BOOLEAN /\ backup = FALSE /\ echo = "none"
  /\ folder = "whole"
  /\ journal = [o \in Orders |->
                  [state |-> "unknown", before |-> "nothing", safety |-> "nothing"]]
  /\ agent = Resting
  /\ faults = 0
  /\ excused = FALSE /\ orphan = FALSE

-----------------------------------------------------------------------------

Open(o) == orders[o].state \in {"waiting", "pending"}

\* Something is in progress under the lock.
Busy ==
  \/ \E o \in DOMAIN orders : Open(o)
  \/ \E h \in Handlers : call[h].at \in {"claimed", "backup"}
  \/ backup

\* Or a report not heard yet will give it back.
InUse == Busy \/ echo = "first"

\* Only the state restoring is ever given back; the row's clock starts again.
Release ==
  /\ state' = IF state = "restoring" THEN "none" ELSE state
  /\ overdue' = FALSE

Hold == UNCHANGED <<state, overdue>>

\* A closed row: how old it is no longer matters.
Closed(o, outcome) == [orders[o] EXCEPT !.state = outcome, !.age = 0]

Becomes(h, c) == call' = [call EXCEPT ![h] = c]

-----------------------------------------------------------------------------
(* The server: starting goes through the panel, stopping happens by itself, *)
(* on the order of a follower or not.                                       *)

\* requireOperable, or the check made at the head of a schedule.
StartRead(h) ==
  /\ call[h] = Idle /\ state = "none"
  /\ Becomes(h, [at |-> "start"])
  /\ UNCHANGED <<state, overdue, orders, running, backup, echo, folder, journal, agent,
                 faults, excused, orphan>>

\* The daemon obeys: it knows nothing of a restoration by the agent.
StartSend(h) ==
  /\ call[h].at = "start"
  /\ Becomes(h, Idle)
  /\ running' \in {running, TRUE}
  /\ excused' = (excused \/ (running' /\ state # "none"))
  /\ UNCHANGED <<state, overdue, orders, backup, echo, folder, journal, agent, faults, orphan>>

GameStops ==
  /\ running
  /\ running' = FALSE
  /\ UNCHANGED <<state, overdue, orders, call, backup, echo, folder, journal, agent,
                 faults, excused, orphan>>

-----------------------------------------------------------------------------
(* restore() and its follower. *)

\* Bound: no more claims than rows they could still create.
Room ==
  Len(orders) + Cardinality({h \in Handlers : call[h].at = "claimed"}) < MaxOrders

Claim(h, at) ==
  /\ call[h] = Idle /\ state = "none"
  /\ state' = "restoring" /\ overdue' = FALSE /\ orphan' = FALSE
  /\ Becomes(h, [at |-> at])
  /\ UNCHANGED <<orders, running, backup, echo, folder, journal, agent, faults, excused>>

RestoreClaim(h) == Room /\ Claim(h, "claimed")

RestoreInsert(h) ==
  /\ call[h].at = "claimed"
  /\ orders' = Append(orders, [state |-> "waiting", age |-> 0, safety |-> "nothing"])
  /\ Becomes(h, [at |-> "follow", order |-> Len(orders) + 1])
  /\ UNCHANGED <<state, overdue, running, backup, echo, folder, journal, agent, faults,
                 excused, orphan>>

\* A fault: the follower sends the order without waiting for the stop.
FollowAnyway(h) ==
  /\ call[h].at = "follow"
  /\ Becomes(h, [at |-> "send", order |-> call[h].order])
  /\ UNCHANGED <<state, overdue, orders, running, backup, echo, folder, journal, agent,
                 faults, excused, orphan>>

\* The daemon gives the server stopped.
FollowOffline(h) ==
  /\ call[h].at = "follow" /\ ~running
  /\ Becomes(h, [at |-> "send", order |-> call[h].order])
  /\ UNCHANGED <<state, overdue, orders, running, backup, echo, folder, journal, agent,
                 faults, excused, orphan>>

\* A fault: the order is sent whether it still waits or not.
SendAnyway(h) ==
  /\ call[h].at = "send"
  /\ Becomes(h, Idle)
  /\ orders' = [orders EXCEPT ![call[h].order].state = "pending"]
  /\ UNCHANGED <<state, overdue, running, backup, echo, folder, journal, agent, faults,
                 excused, orphan>>

\* Only if the order still waits: closed meanwhile, nothing goes.
FollowSend(h) ==
  /\ call[h].at = "send"
  /\ Becomes(h, Idle)
  /\ orders' = [orders EXCEPT ![call[h].order].state =
                  IF @ = "waiting" THEN "pending" ELSE @]
  /\ UNCHANGED <<state, overdue, running, backup, echo, folder, journal, agent, faults,
                 excused, orphan>>

\* A fault: the order is closed, the server is not given back.
GivesUpLocked(h) ==
  /\ call[h].at \in {"follow", "send"}
  /\ Becomes(h, Idle)
  /\ orders[call[h].order].state = "waiting"
  /\ orders' = [orders EXCEPT ![call[h].order] = Closed(call[h].order, "failed")]
  /\ UNCHANGED <<state, overdue, running, backup, echo, folder, journal, agent, faults,
                 excused, orphan>>

\* failWaiting: the server did not stop in time, or could not be followed.
FollowGivesUp(h) ==
  /\ call[h].at \in {"follow", "send"}
  /\ Becomes(h, Idle)
  /\ LET o == call[h].order
     IN IF orders[o].state = "waiting"
        THEN orders' = [orders EXCEPT ![o] = Closed(o, "failed")] /\ Release
        ELSE orders' = orders /\ Hold
  /\ UNCHANGED <<running, backup, echo, folder, journal, agent, faults, excused, orphan>>

-----------------------------------------------------------------------------
(* Orders nobody reports. *)

\* Past five minutes, then past the six hours of an order given to the agent:
\* an order that still waits expires at the first.
Age(o) ==
  /\ o \in DOMAIN orders /\ Open(o)
  /\ orders[o].age < IF orders[o].state = "waiting" THEN 1 ELSE 2
  /\ orders' = [orders EXCEPT ![o].age = @ + 1]
  /\ UNCHANGED <<state, overdue, call, running, backup, echo, folder, journal, agent,
                 faults, excused, orphan>>

\* A fault: only the orders given to the agent expire.
ExpiredPending(o) == orders[o].state = "pending" /\ orders[o].age = 2

Expired(o) ==
  \/ orders[o].state = "waiting" /\ orders[o].age >= 1
  \/ orders[o].state = "pending" /\ orders[o].age = 2

\* expireOrders, one transaction: the agent may still be at an order it closes.
ExpireOrders ==
  /\ orders' = [o \in DOMAIN orders |->
                  IF Expired(o) THEN Closed(o, "failed") ELSE orders[o]]
  /\ IF \E o \in DOMAIN orders : Expired(o) THEN Release ELSE Hold
  /\ excused' = (excused \/ \E o \in DOMAIN orders : Expired(o) /\ orders[o].state = "pending")

Sweep ==
  /\ \E o \in DOMAIN orders : Expired(o)
  /\ ExpireOrders
  /\ UNCHANGED <<call, running, backup, echo, folder, journal, agent, faults, orphan>>

-----------------------------------------------------------------------------
(* The agent: fetch, execute each order, report. *)

\* agentState expires first, then lists.
Fetch ==
  /\ agent = Resting
  /\ ExpireOrders
  /\ agent' = [Resting EXCEPT !.todo = {o \in DOMAIN orders : orders'[o].state = "pending"}]
  /\ agent' # Resting
  /\ UNCHANGED <<call, running, backup, echo, folder, journal, faults, orphan>>

IsNext(o) == agent.copying = 0 /\ o \in agent.todo /\ \A u \in agent.todo : o <= u

Finished(o) == journal[o].state \in {"succeeded", "failed"}

\* Already executed: the same result, without doing anything again.
Known(o) ==
  /\ IsNext(o) /\ Finished(o)
  /\ agent' = [agent EXCEPT !.todo = @ \ {o}, !.results = @ \cup {o}]
  /\ UNCHANGED <<state, overdue, orders, call, running, backup, echo, folder, journal,
                 faults, excused, orphan>>

\* A fault: the journal is not consulted.
BeginAgain(o) ==
  /\ IsNext(o)
  /\ journal' = [journal EXCEPT ![o].state = "begun", ![o].safety = folder]
  /\ folder' = "half"
  /\ agent' = [agent EXCEPT !.todo = @ \ {o}, !.copying = o]
  /\ UNCHANGED <<state, overdue, orders, call, running, backup, echo, faults, excused, orphan>>

\* Left begun by an agent that stopped: done again, from the safety snapshot on.
Begin(o) ==
  /\ IsNext(o) /\ ~Finished(o)
  /\ journal' = [journal EXCEPT ![o] =
                   [state |-> "begun", safety |-> folder,
                    before |-> IF @.state = "unknown" THEN folder ELSE @.before]]
  /\ folder' = "half"
  /\ agent' = [agent EXCEPT !.todo = @ \ {o}, !.copying = o]
  /\ UNCHANGED <<state, overdue, orders, call, running, backup, echo, faults, excused, orphan>>

\* No such snapshot or folder, or no room for the safety snapshot.
BeginFails(o) ==
  /\ IsNext(o) /\ ~Finished(o)
  /\ journal' = [journal EXCEPT ![o].state = "failed", ![o].safety = "nothing"]
  /\ agent' = [agent EXCEPT !.todo = @ \ {o}, !.results = @ \cup {o}]
  /\ UNCHANGED <<state, overdue, orders, call, running, backup, echo, folder, faults,
                 excused, orphan>>

CopyEnds ==
  /\ agent.copying # 0
  /\ \/ folder' = "whole" /\ journal' = [journal EXCEPT ![agent.copying].state = "succeeded"]
     \/ folder' = "half" /\ journal' = [journal EXCEPT ![agent.copying].state = "failed"]
  /\ agent' = [agent EXCEPT !.copying = 0, !.results = @ \cup {agent.copying}]
  /\ UNCHANGED <<state, overdue, orders, call, running, backup, echo, faults, excused, orphan>>

RoundOver == agent.todo = {} /\ agent.copying = 0 /\ agent.results # {}

\* applyReport, one transaction: the orders still pending are closed, their
\* restorations give the server back.
Report ==
  /\ RoundOver
  /\ LET closed == {o \in agent.results : orders[o].state = "pending"}
     IN /\ orders' = [o \in DOMAIN orders |->
                        IF o \in closed
                        THEN [Closed(o, IF journal[o].state = "succeeded"
                                        THEN "done" ELSE "failed")
                                EXCEPT !.safety = journal[o].safety]
                        ELSE orders[o]]
        /\ IF closed # {} THEN Release ELSE Hold
  /\ agent' = Resting
  /\ UNCHANGED <<call, running, backup, echo, folder, journal, faults, excused, orphan>>

ReportLost ==
  /\ RoundOver
  /\ agent' = Resting
  /\ UNCHANGED <<state, overdue, orders, call, running, backup, echo, folder, journal,
                 faults, excused, orphan>>

-----------------------------------------------------------------------------
(* What else takes or lifts the lock. *)

\* BackupsService.restore: the lock, a wait for a safety snapshot, the daemon.
\* Bound: it restores one backup at a time.
BackupClaim(h) == ~backup /\ Claim(h, "backup")

\* The daemon takes the order; the request may fail all the same, and the lock
\* is then given back under the restoration.
BackupSend(h) ==
  /\ call[h].at = "backup" /\ ~backup
  /\ Becomes(h, Idle)
  /\ backup' = TRUE
  /\ \/ Hold /\ UNCHANGED excused
     \/ Release /\ excused' = TRUE
  /\ UNCHANGED <<orders, running, echo, folder, journal, agent, faults, orphan>>

\* A fault: the state of the process is written where the management state goes.
RefusedOffline(h) ==
  /\ call[h].at = "backup"
  /\ Becomes(h, Idle)
  /\ state' = "offline" /\ overdue' = FALSE
  /\ UNCHANGED <<orders, running, backup, echo, folder, journal, agent, faults,
                 excused, orphan>>

BackupRefused(h) ==
  /\ call[h].at = "backup"
  /\ Becomes(h, Idle)
  /\ Release
  /\ UNCHANGED <<orders, running, backup, echo, folder, journal, agent, faults,
                 excused, orphan>>

\* The report of the daemon names a backup, hence a server: any lock is lifted.
\* It ends, well or not, and the daemon reports it until it is answered.
BackupEnds ==
  /\ backup
  /\ backup' = FALSE /\ echo' = "first"
  /\ UNCHANGED <<state, overdue, orders, call, running, folder, journal, agent,
                 faults, excused, orphan>>

\* The report names a backup, hence a server: whatever holds the lock by then
\* loses it.  If its answer is lost it is sent again.
\* Bound: the repetitions of one report, the last one.
BackupReported ==
  /\ echo # "none"
  /\ \/ echo' = "none" /\ faults' = faults
     \/ echo' = "again" /\ faults < MaxFaults /\ faults' = faults + 1
  /\ Release
  /\ excused' = (excused \/ (state = "restoring" /\ Busy))
  /\ UNCHANGED <<orders, call, running, backup, folder, journal, agent, orphan>>

\* The restoration is lost with its report, or its report is.
BackupLost ==
  /\ backup \/ echo = "first"
  /\ backup' = FALSE /\ echo' = "none"
  /\ orphan' = TRUE
  /\ UNCHANGED <<state, overdue, orders, call, running, folder, journal, agent,
                 faults, excused>>

LockAge ==
  /\ state = "restoring" /\ ~overdue
  /\ \A h \in Handlers : call[h].at # "claimed"
  /\ \A o \in DOMAIN orders : Open(o) => orders[o].age >= 1
  /\ overdue' = TRUE
  /\ UNCHANGED <<state, orders, call, running, backup, echo, folder, journal, agent,
                 faults, excused, orphan>>

\* A fault: the sweep looks only at servers with an order or a request left.
ExpireUsedRestores ==
  /\ state = "restoring" /\ overdue /\ Busy
  /\ Release
  /\ excused' = TRUE
  /\ UNCHANGED <<orders, call, running, backup, echo, folder, journal, agent, faults, orphan>>

\* expireStaleRestores, every five minutes.
ExpireStaleRestores ==
  /\ state = "restoring" /\ overdue
  /\ Release
  /\ excused' = (excused \/ Busy)
  /\ UNCHANGED <<orders, call, running, backup, echo, folder, journal, agent,
                 faults, orphan>>

\* Any other write of the server's row starts the clock of its lock again.
RowTouched ==
  /\ faults < MaxFaults
  /\ state = "restoring" /\ overdue
  /\ faults' = faults + 1
  /\ overdue' = FALSE
  /\ UNCHANGED <<state, orders, call, running, backup, echo, folder, journal,
                 agent, excused, orphan>>

\* The daemon starts again: its own work is lost, and the panel lifts the lock.
ResetTransientStates ==
  /\ faults < MaxFaults
  /\ faults' = faults + 1
  /\ backup' = FALSE /\ echo' \in {"none", echo}
  /\ Release
  /\ excused' = (excused \/ (Busy /\ state = "restoring"))
  /\ UNCHANGED <<orders, call, running, folder, journal, agent, orphan>>

\* The administration suspends, and stops the server; or resumes.
SetServerSuspended(suspended) ==
  /\ state' = IF suspended THEN "suspended" ELSE "none"
  /\ overdue' = FALSE
  /\ excused' = (excused \/ (~suspended /\ Busy))
  /\ UNCHANGED <<orders, call, running, backup, echo, folder, journal, agent,
                 faults, orphan>>

-----------------------------------------------------------------------------
(* Restarts. *)

Crash ==
  /\ faults < MaxFaults
  /\ \E h \in Handlers : call[h] # Idle
  /\ faults' = faults + 1
  /\ orphan' = (orphan \/ \E h \in Handlers : call[h].at \in {"claimed", "backup"})
  /\ call' = [h \in Handlers |-> Idle]
  /\ UNCHANGED <<state, overdue, orders, running, backup, echo, folder, journal, agent,
                 excused>>

AgentHalts ==
  /\ faults < MaxFaults
  /\ agent # Resting
  /\ faults' = faults + 1
  /\ agent' = Resting
  /\ UNCHANGED <<state, overdue, orders, call, running, backup, echo, folder, journal,
                 excused, orphan>>

-----------------------------------------------------------------------------

Panel(h) ==
  \/ StartRead(h) \/ StartSend(h)
  \/ RestoreClaim(h) \/ RestoreInsert(h)
  \/ FollowOffline(h) \/ FollowSend(h) \/ FollowGivesUp(h)
  \/ BackupClaim(h) \/ BackupSend(h) \/ BackupRefused(h)

Execute(o) == Known(o) \/ Begin(o) \/ BeginFails(o)

Next ==
  \/ \E h \in Handlers : Panel(h)
  \/ \E o \in Orders : Execute(o)
  \/ \E o \in Orders : Age(o)
  \/ \E suspended \in BOOLEAN : SetServerSuspended(suspended)
  \/ GameStops \/ Sweep
  \/ Fetch \/ CopyEnds \/ Report \/ ReportLost
  \/ BackupEnds \/ BackupReported \/ BackupLost
  \/ LockAge \/ RowTouched \/ ExpireStaleRestores \/ ResetTransientStates
  \/ Crash \/ AgentHalts

\* The clock runs and both sweeps run on timers; a request claims the lock and
\* inserts its row without waiting for anything.  Nothing is asked of the agent,
\* of the daemon, nor of the followers.
Fairness ==
  /\ \A h \in Handlers : WF_vars(RestoreInsert(h))
  /\ \A o \in Orders : WF_vars(Age(o))
  /\ WF_vars(Sweep)
  /\ WF_vars(LockAge)
  /\ WF_vars(ExpireStaleRestores)

Spec == Init /\ [][Next]_vars /\ Fairness

-----------------------------------------------------------------------------

\* While the agent copies, neither the game nor the daemon writes the folder,
\* unless a start went out on a stale check or the lock was lifted under it (by
\* the sweeps, a resumption, or the late or repeated report of a restoration).
OneWriter ==
  ~excused /\ agent.copying # 0 => ~running /\ ~backup

\* A lock always has someone who will give it back, unless who took it is gone:
\* an order is closed and the server given back in one transaction.
LockAccounted == state = "restoring" /\ ~orphan => InUse

\* A closed order is never closed again, sent, nor changed: the follower, the
\* agent's report and the sweep race for it.
ClosedOnce == [][\A o \in DOMAIN orders : ~Open(o) => orders'[o] = orders[o]]_vars

\* An order the agent has finished is never executed again, however often the
\* panel hands it out (its report was lost).
ExecutedOnce ==
  [][\A o \in Orders : Finished(o) => journal'[o] = journal[o] /\ agent'.copying # o]_vars

\* Every order is closed in the end, even if the agent is silent or the panel
\* lost the follower.
OrderEnds ==
  \A o \in Orders :
    (o \in DOMAIN orders /\ Open(o)) ~> (o \in DOMAIN orders /\ ~Open(o))

\* No server stays locked for ever.
LockEnds == state = "restoring" ~> state # "restoring"

\* What the agent relies on: the server is stopped while its folder is copied.
StoppedWhileCopied == agent.copying # 0 => ~running

\* What the design promises: the safety snapshot of a restoration that was done
\* holds what the folder held before it.
Undoable ==
  \A o \in DOMAIN orders :
    orders[o].state = "done" => orders[o].safety = journal[o].before
=============================================================================
