--------------------------- MODULE ServerTransfer ---------------------------
(***************************************************************************)
(* Moving a game server from one node to another, as the panel records it: *)
(* the row of the server (node, default port, management state), the ports *)
(* of the nodes, and the rows of server_transfers.                         *)
(*                                                                         *)
(* Sources: modules/admin/server-transfer.service.ts (start, reserve,      *)
(* complete, fail, rollback, expireStale), the route of remote.controller  *)
(* that receives the reports of the daemons, setServerSuspended, and the   *)
(* port operations a client may interleave (client/allocations.service).   *)
(*                                                                         *)
(* A single UPDATE is one step, and so is a transaction nobody can come    *)
(* between.  The transaction of complete() is two steps: it frees the      *)
(* departure ports before it takes the row of the server, and a claim()    *)
(* that holds this row commits in between.  Everything an API handler does *)
(* between two steps is a window in which every other handler may run:     *)
(* `call' holds what each handler has read so far, and the rows a          *)
(* transaction has locked keep the others waiting.                         *)
(* A report names the server and its outcome, never the transfer.          *)
(***************************************************************************)
EXTENDS Integers, Sequences, FiniteSets

CONSTANTS
  Servers,
  Nodes,
  Ports,
  NodeOf,        \* allocations.node_id: the node each port belongs to
  HomeNode,      \* where each server is at first
  HomePort,      \* its default port at first
  None,          \* no server: a free port
  Handlers,      \* the API requests and timers that may be in progress
  PortLimit,     \* servers.allocation_limit
  MaxTransfers,  \* bound: rows of server_transfers
  MaxCrashes     \* bound: restarts of the API

ASSUME PlacesAssumption ==
  /\ NodeOf \in [Ports -> Nodes]
  /\ HomeNode \in [Servers -> Nodes]
  /\ HomePort \in [Servers -> Ports]
  /\ \A s \in Servers : NodeOf[HomePort[s]] = HomeNode[s]
  /\ \A s, z \in Servers : HomePort[s] = HomePort[z] => s = z
  /\ None \notin Servers

ASSUME BoundsAssumption ==
  PortLimit \in Nat /\ MaxTransfers \in Nat /\ MaxCrashes \in Nat

VARIABLES
  srv,        \* servers: node, default port, management state
  owner,      \* allocations.server_id
  transfers,  \* server_transfers, in order of creation
  call,       \* what each handler in progress has read
  jobs,       \* transfers the daemons are carrying out, or have not reported yet
  copies,     \* nodes that hold the files of a server
  crashes,
  raced,      \* history: a reservation was made on a check that no longer held
  strayed,    \* history: the client's requests moved or freed the default port
  overlooked  \* history: ports taken while the switch of their server was under way

vars ==
  <<srv, owner, transfers, call, jobs, copies, crashes, raced, strayed, overlooked>>

Managed == {"none", "suspended", "transferring"}
Row == [server: Servers, from: Nodes, to: Nodes,
        state: {"running", "completed", "failed"}, late: BOOLEAN]

Idle == [at |-> "idle"]

Call ==
  {Idle}
    \cup [at: {"reserve"}, server: Servers, from: Nodes, to: Nodes]
    \cup [at: {"order", "switch", "undo"}, row: Nat]
    \cup [at: {"switching"}, row: Nat, arrival: Ports, freed: SUBSET Ports]
    \cup [at: {"confirmed"}, server: Servers]
    \cup [at: {"delete"}, server: Servers, from: Nodes]
    \cup [at: {"failed"}, server: Servers, by: Nodes \cup {None}]
    \cup [at: {"primary", "release"}, server: Servers, port: Ports]

\* Types, and the rows that requests and daemons refer to exist.
TypeOK ==
  /\ srv \in [Servers -> [node: Nodes, primary: Ports, state: Managed]]
  /\ owner \in [Ports -> Servers \cup {None}]
  /\ transfers \in Seq(Row)
  /\ call \in [Handlers -> Call]
  /\ \A h \in Handlers :
       call[h].at \in {"order", "switch", "switching", "undo"}
         => call[h].row \in DOMAIN transfers
  /\ jobs \subseteq DOMAIN transfers
  /\ copies \in [Servers -> SUBSET Nodes]
  /\ crashes \in 0..MaxCrashes
  /\ raced \in [Servers -> BOOLEAN]
  /\ strayed \in [Servers -> BOOLEAN]
  /\ overlooked \subseteq Ports

Init ==
  /\ srv = [s \in Servers |->
              [node |-> HomeNode[s], primary |-> HomePort[s], state |-> "none"]]
  /\ owner = [p \in Ports |->
                IF \E s \in Servers : HomePort[s] = p
                THEN CHOOSE s \in Servers : HomePort[s] = p
                ELSE None]
  /\ transfers = << >>
  /\ call = [h \in Handlers |-> Idle]
  /\ jobs = {}
  /\ copies = [s \in Servers |-> {HomeNode[s]}]
  /\ crashes = 0
  /\ raced = [s \in Servers |-> FALSE]
  /\ strayed = [s \in Servers |-> FALSE]
  /\ overlooked = {}

-----------------------------------------------------------------------------
(* Reading the tables. *)

Running(s) ==
  {t \in DOMAIN transfers : transfers[t].server = s /\ transfers[t].state = "running"}

\* The running transfer the panel takes for the current one: the newest row.
IsPending(s, t) == t \in Running(s) /\ \A u \in Running(s) : u <= t

\* A node may confirm, and read the configuration, while a recent transfer to it runs.
IsTransferTarget(s, n) ==
  \E t \in Running(s) : transfers[t].to = n /\ ~transfers[t].late

PortsOf(s, n) == {p \in Ports : owner[p] = s /\ NodeOf[p] = n}

\* A fault: the transaction trusts what was read before it.
LockUnchecked(t) == TRUE

\* What a transaction sees after it has locked the row: it is still running.
LockRunning(t) == transfers[t].state = "running"

\* Another handler is in the middle of a switch that keeps row t, or port p, locked.
RowHeld(h, t) ==
  \E g \in Handlers \ {h} : call[g].at = "switching" /\ call[g].row = t
PortHeld(h, p) ==
  \E g \in Handlers \ {h} : call[g].at = "switching" /\ p \in call[g].freed

\* The departure ports of a server are freed, its row not yet written.
Switching(s) ==
  \E g \in Handlers : call[g].at = "switching" /\ transfers[call[g].row].server = s

-----------------------------------------------------------------------------
(* start(): the check, the reservation, then the order to the daemon. *)

Becomes(h, c) == call' = [call EXCEPT ![h] = c]

\* Bound: no more requests than rows they could still create.
Room == Len(transfers) + Cardinality({h \in Handlers : call[h].at = "reserve"}) < MaxTransfers

StartRead(h, s, n) ==
  /\ call[h] = Idle /\ Room
  /\ srv[s].state = "none" /\ n # srv[s].node
  /\ Becomes(h, [at |-> "reserve", server |-> s, from |-> srv[s].node, to |-> n])
  /\ UNCHANGED <<srv, owner, transfers, jobs, copies, crashes, raced, strayed, overlooked>>

\* The lowest free port in the code, but locked ports are skipped: any free one.
FreePorts(n) == {p \in Ports : owner[p] = None /\ NodeOf[p] = n}

StartReserve(h) ==
  /\ call[h].at = "reserve"
  /\ LET s == call[h].server
         n == call[h].to
     IN \E p \in FreePorts(n) :
          /\ owner' = [owner EXCEPT ![p] = s]
          /\ overlooked' = overlooked \ {p}
          /\ transfers' = Append(transfers,
                            [server |-> s, from |-> call[h].from, to |-> n,
                             state |-> "running", late |-> FALSE])
          /\ srv' = [srv EXCEPT ![s].state = "transferring"]
          /\ raced' = [raced EXCEPT ![s] =
                         @ \/ srv[s].state # "none" \/ srv[s].node # call[h].from
                           \/ Running(s) # {}]
          /\ Becomes(h, [at |-> "order", row |-> Len(transfers) + 1])
  /\ UNCHANGED <<jobs, copies, crashes, strayed>>

StartNoPort(h) ==
  /\ call[h].at = "reserve" /\ FreePorts(call[h].to) = {}
  /\ Becomes(h, Idle)
  /\ UNCHANGED <<srv, owner, transfers, jobs, copies, crashes, raced, strayed, overlooked>>

\* The source daemon takes the order: the request returns, or times out all the same.
StartOrdered(h) ==
  /\ call[h].at = "order"
  /\ jobs' = jobs \cup {call[h].row}
  /\ call' \in {[call EXCEPT ![h] = Idle],
                [call EXCEPT ![h] = [at |-> "undo", row |-> call[h].row]]}
  /\ UNCHANGED <<srv, owner, transfers, copies, crashes, raced, strayed, overlooked>>

StartRefused(h) ==
  /\ call[h].at = "order"
  /\ Becomes(h, [at |-> "undo", row |-> call[h].row])
  /\ UNCHANGED <<srv, owner, transfers, jobs, copies, crashes, raced, strayed, overlooked>>

-----------------------------------------------------------------------------
(* The report of a daemon, and the sweep of the transfers nobody reported. *)

\* A daemon replays a report until it is acknowledged.
Reported(t) == jobs' \in {jobs, jobs \ {t}}

\* The arrival node says it has everything: it must be the target of a transfer.
ReportSuccess(h, t) ==
  /\ call[h] = Idle /\ t \in jobs
  /\ LET s == transfers[t].server
         n == transfers[t].to
     IN /\ {transfers[t].from, n} \cap copies[s] # {}
        /\ copies' = [copies EXCEPT ![s] = @ \cup {n}]
        /\ Becomes(h, IF IsTransferTarget(s, n)
                      THEN [at |-> "confirmed", server |-> s] ELSE Idle)
  /\ Reported(t)
  /\ UNCHANGED <<srv, owner, transfers, crashes, raced, strayed, overlooked>>

\* Either end of the transfer says it failed.
ReportFailure(h, t, n) ==
  /\ call[h] = Idle /\ t \in jobs
  /\ n \in {transfers[t].from, transfers[t].to}
  /\ Becomes(h, [at |-> "failed", server |-> transfers[t].server, by |-> n])
  /\ Reported(t)
  /\ UNCHANGED <<srv, owner, transfers, copies, crashes, raced, strayed, overlooked>>

\* A fault: the sweep looks for the late transfers of locked servers only.
SweepLocked(h, t) ==
  /\ call[h] = Idle
  /\ t \in DOMAIN transfers
  /\ transfers[t].state = "running" /\ transfers[t].late
  /\ srv[transfers[t].server].state = "transferring"
  /\ Becomes(h, [at |-> "failed", server |-> transfers[t].server, by |-> None])
  /\ UNCHANGED <<srv, owner, transfers, jobs, copies, crashes, raced, strayed, overlooked>>

Sweep(h, t) ==
  /\ call[h] = Idle
  /\ t \in DOMAIN transfers
  /\ transfers[t].state = "running" /\ transfers[t].late
  /\ Becomes(h, [at |-> "failed", server |-> transfers[t].server, by |-> None])
  /\ UNCHANGED <<srv, owner, transfers, jobs, copies, crashes, raced, strayed, overlooked>>

\* complete() and fail() look the transfer up again, by server.
Pending(h) ==
  /\ call[h].at \in {"confirmed", "failed"}
  /\ \/ \E t \in DOMAIN transfers :
          /\ IsPending(call[h].server, t)
          /\ \/ /\ call[h].at = "confirmed"
                /\ Becomes(h, [at |-> "switch", row |-> t])
             \/ /\ call[h].at = "failed"
                /\ call[h].by \in {None, transfers[t].from, transfers[t].to}
                /\ Becomes(h, [at |-> "undo", row |-> t])
             \/ /\ call[h].at = "failed"
                /\ call[h].by \notin {None, transfers[t].from, transfers[t].to}
                /\ Becomes(h, Idle)
     \/ /\ Running(call[h].server) = {}
        /\ Becomes(h, Idle)
  /\ UNCHANGED <<srv, owner, transfers, jobs, copies, crashes, raced, strayed, overlooked>>

\* The transaction of complete(), up to its second UPDATE: the row is locked, the
\* arrival port read without a lock, the ports found at the departure freed but not
\* committed.  Without a port at the arrival it is undone.
SwitchFrees(h) ==
  /\ call[h].at = "switch"
  /\ ~RowHeld(h, call[h].row)
  /\ LET t == call[h].row
         a == PortsOf(transfers[t].server, transfers[t].to)
         d == PortsOf(transfers[t].server, transfers[t].from)
     IN IF LockRunning(t) /\ a # {}
        THEN /\ \A p \in d : ~PortHeld(h, p)
             /\ \E p \in a :
                  Becomes(h, [at |-> "switching", row |-> t, arrival |-> p, freed |-> d])
        ELSE Becomes(h, Idle)
  /\ UNCHANGED <<srv, owner, transfers, jobs, copies, crashes, raced, strayed, overlooked>>

\* Then it has the row of the server, writes it with the transfer, and commits.
SwitchCommits(h) ==
  /\ call[h].at = "switching"
  /\ LET t == call[h].row
         s == transfers[t].server
     IN /\ srv' = [srv EXCEPT ![s] = [node |-> transfers[t].to,
                                      primary |-> call[h].arrival, state |-> "none"]]
        /\ owner' = [p \in Ports |-> IF p \in call[h].freed THEN None ELSE owner[p]]
        /\ transfers' = [transfers EXCEPT ![t].state = "completed"]
        /\ Becomes(h, [at |-> "delete", server |-> s, from |-> transfers[t].from])
  /\ UNCHANGED <<jobs, copies, crashes, raced, strayed, overlooked>>

\* Then the copy left behind is deleted; the daemon may not answer.
Delete(h) ==
  /\ call[h].at = "delete"
  /\ Becomes(h, Idle)
  /\ copies' \in {copies, [copies EXCEPT ![call[h].server] = @ \ {call[h].from}]}
  /\ UNCHANGED <<srv, owner, transfers, jobs, crashes, raced, strayed, overlooked>>

\* A fault: the row is deleted rather than marked failed.
RollbackDeleting(h) ==
  /\ call[h].at = "undo"
  /\ Becomes(h, Idle)
  /\ transfers' = SubSeq(transfers, 1, Len(transfers) - 1)
  /\ UNCHANGED <<srv, owner, jobs, copies, crashes, raced, strayed, overlooked>>

\* A fault: the row is closed and the ports freed, the server stays locked.
RollbackLocked(h) ==
  /\ call[h].at = "undo"
  /\ Becomes(h, Idle)
  /\ LET t == call[h].row
     IN /\ LockRunning(t)
        /\ owner' = [p \in Ports |->
                       IF p \in PortsOf(transfers[t].server, transfers[t].to)
                       THEN None ELSE owner[p]]
        /\ transfers' = [transfers EXCEPT ![t].state = "failed"]
  /\ UNCHANGED <<srv, jobs, copies, crashes, raced, strayed, overlooked>>

\* A fault: the reserved ports are not freed.
RollbackKeeping(h) ==
  /\ call[h].at = "undo"
  /\ Becomes(h, Idle)
  /\ LET t == call[h].row
     IN /\ LockRunning(t)
        /\ transfers' = [transfers EXCEPT ![t].state = "failed"]
        /\ srv' = [srv EXCEPT ![transfers[t].server].state =
                     IF @ = "transferring" THEN "none" ELSE @]
  /\ UNCHANGED <<owner, jobs, copies, crashes, raced, strayed, overlooked>>

\* A fault: fail() closes whatever it finds, completed or not.
RollbackAnyway(h) ==
  /\ call[h].at = "undo"
  /\ Becomes(h, Idle)
  /\ transfers' = [transfers EXCEPT ![call[h].row].state = "failed"]
  /\ UNCHANGED <<srv, owner, jobs, copies, crashes, raced, strayed, overlooked>>

\* The transaction of rollback(), at its commit: it waits for the rows another one holds.
Rollback(h) ==
  /\ call[h].at = "undo"
  /\ ~RowHeld(h, call[h].row)
  /\ Becomes(h, Idle)
  /\ LET t == call[h].row
         s == transfers[t].server
     IN IF LockRunning(t)
        THEN /\ \A p \in PortsOf(s, transfers[t].to) : ~PortHeld(h, p)
             /\ owner' = [p \in Ports |->
                            IF p \in PortsOf(s, transfers[t].to) THEN None ELSE owner[p]]
             /\ transfers' = [transfers EXCEPT ![t].state = "failed"]
             /\ srv' = [srv EXCEPT ![s].state = IF @ = "transferring" THEN "none" ELSE @]
        ELSE UNCHANGED <<srv, owner, transfers>>
  /\ UNCHANGED <<jobs, copies, crashes, raced, strayed, overlooked>>

-----------------------------------------------------------------------------
(* The daemons, and time. *)

\* The daemon dies: nothing will ever be reported.
JobLost(t) ==
  /\ t \in jobs
  /\ jobs' = jobs \ {t}
  /\ UNCHANGED <<srv, owner, transfers, call, copies, crashes, raced, strayed, overlooked>>

\* Two hours have passed since the row was created (and since the older ones were).
Age(t) ==
  /\ t \in DOMAIN transfers
  /\ transfers[t].state = "running" /\ ~transfers[t].late
  /\ \A u \in Running(transfers[t].server) : u < t => transfers[u].late
  /\ transfers' = [transfers EXCEPT ![t].late = TRUE]
  /\ UNCHANGED <<srv, owner, call, jobs, copies, crashes, raced, strayed, overlooked>>

-----------------------------------------------------------------------------
(* The administration suspends and resumes; the client handles its ports.  *)
(* Neither choosing the default port nor freeing one looks at the state.   *)

SetSuspended(s, suspended) ==
  /\ srv' = [srv EXCEPT ![s].state = IF suspended THEN "suspended" ELSE "none"]
  /\ UNCHANGED <<owner, transfers, call, jobs, copies, crashes, raced, strayed, overlooked>>

\* Under the lock of the server's row: count, then take a free port of its node.
\* The state was read by the guard of the route, earlier: it may be anything here.
\* The step is its commit: whoever writes the server's row waits for it, a switch that
\* is freeing the departure ports does not, and has not seen this one.
Claim(s) ==
  /\ Cardinality({p \in Ports : owner[p] = s}) < PortLimit
  /\ \E p \in FreePorts(srv[s].node) :
       /\ owner' = [owner EXCEPT ![p] = s]
       /\ overlooked' = IF Switching(s) THEN overlooked \cup {p} ELSE overlooked \ {p}
  /\ UNCHANGED <<srv, transfers, call, jobs, copies, crashes, raced, strayed>>

PrimaryCheck(h, p) ==
  /\ call[h] = Idle /\ owner[p] # None
  /\ Becomes(h, [at |-> "primary", server |-> owner[p], port |-> p])
  /\ UNCHANGED <<srv, owner, transfers, jobs, copies, crashes, raced, strayed, overlooked>>

SetPrimary(h) ==
  /\ call[h].at = "primary"
  /\ Becomes(h, Idle)
  /\ LET s == call[h].server
         p == call[h].port
     IN /\ srv' = [srv EXCEPT ![s].primary = p]
        /\ strayed' = [strayed EXCEPT ![s] =
                         @ \/ owner[p] # s \/ NodeOf[p] # srv[s].node]
  /\ UNCHANGED <<owner, transfers, jobs, copies, crashes, raced, overlooked>>

ReleaseCheck(h, p) ==
  /\ call[h] = Idle /\ owner[p] # None
  /\ srv[owner[p]].primary # p
  /\ Becomes(h, [at |-> "release", server |-> owner[p], port |-> p])
  /\ UNCHANGED <<srv, owner, transfers, jobs, copies, crashes, raced, strayed, overlooked>>

Release(h) ==
  /\ call[h].at = "release"
  /\ ~PortHeld(h, call[h].port)
  /\ Becomes(h, Idle)
  /\ LET s == call[h].server
         p == call[h].port
     IN IF owner[p] = s
        THEN /\ owner' = [owner EXCEPT ![p] = None]
             /\ overlooked' = overlooked \ {p}
             /\ strayed' = [strayed EXCEPT ![s] =
                              @ \/ srv[s].primary = p
                                \/ \E g \in Handlers :
                                     call[g].at = "switching" /\ call[g].arrival = p]
        ELSE UNCHANGED <<owner, strayed, overlooked>>
  /\ UNCHANGED <<srv, transfers, jobs, copies, crashes, raced>>

\* The API restarts: every request in progress is lost where it stood.
Crash ==
  /\ crashes < MaxCrashes
  /\ \E h \in Handlers : call[h] # Idle
  /\ call' = [h \in Handlers |-> Idle]
  /\ crashes' = crashes + 1
  /\ UNCHANGED <<srv, owner, transfers, jobs, copies, raced, strayed, overlooked>>

-----------------------------------------------------------------------------

Continue(h) ==
  \/ StartReserve(h) \/ StartNoPort(h) \/ StartOrdered(h) \/ StartRefused(h)
  \/ Pending(h) \/ SwitchFrees(h) \/ SwitchCommits(h) \/ Delete(h) \/ Rollback(h)
  \/ SetPrimary(h) \/ Release(h)

Next ==
  \/ \E h \in Handlers, s \in Servers, n \in Nodes : StartRead(h, s, n)
  \/ \E h \in Handlers, t \in 1..MaxTransfers : ReportSuccess(h, t)
  \/ \E h \in Handlers, t \in 1..MaxTransfers, n \in Nodes : ReportFailure(h, t, n)
  \/ \E h \in Handlers, t \in 1..MaxTransfers : Sweep(h, t)
  \/ \E s \in Servers : Claim(s)
  \/ \E h \in Handlers, p \in Ports : PrimaryCheck(h, p)
  \/ \E h \in Handlers, p \in Ports : ReleaseCheck(h, p)
  \/ \E h \in Handlers : Continue(h)
  \/ \E t \in 1..MaxTransfers : JobLost(t)
  \/ \E t \in 1..MaxTransfers : Age(t)
  \/ \E s \in Servers, suspended \in BOOLEAN : SetSuspended(s, suspended)
  \/ Crash

\* A request in progress ends, the clock runs, and the sweep runs every five
\* minutes: strong fairness for the sweep, since handlers here are few and shared.
Fairness ==
  /\ \A h \in Handlers : WF_vars(Continue(h))
  /\ \A t \in 1..MaxTransfers : WF_vars(Age(t))
  /\ \A t \in 1..MaxTransfers : SF_vars(\E h \in Handlers : Sweep(h, t))

Spec == Init /\ [][Next]_vars /\ Fairness

-----------------------------------------------------------------------------

\* A server marked as moving always has a transfer in progress, so that some
\* report or the sweep can still release it (start, complete and rollback).
LockBacked ==
  \A s \in Servers : srv[s].state = "transferring" => Running(s) # {}

\* No port is forgotten: a port of a server is on its node or at the arrival of
\* a transfer in progress, unless a reservation was made on a stale check, or the
\* client took this port while complete() was between its two updates.
PortsAccounted ==
  \A s \in Servers : ~raced[s] =>
    \A p \in Ports \ overlooked : owner[p] = s =>
      \/ NodeOf[p] = srv[s].node
      \/ \E t \in Running(s) : transfers[t].to = NodeOf[p]

\* Whatever wins between the report and the sweep, the server keeps an address:
\* its default port is its own and on its node, unless a reservation was made on
\* a stale check or the client moved the default port away itself.
AddressKept ==
  \A s \in Servers : ~raced[s] /\ ~strayed[s] =>
    owner[srv[s].primary] = s /\ NodeOf[srv[s].primary] = srv[s].node

\* A transfer concluded one way is never concluded again, nor the other way
\* (complete against rollback, after both have read it as running).
OneOutcome ==
  [][\A t \in DOMAIN transfers :
       transfers[t].state # "running" => transfers'[t] = transfers[t]]_vars

\* A transfer is always concluded in the end, even if no daemon reports it.
TransferEnds ==
  \A t \in 1..MaxTransfers :
    (t \in DOMAIN transfers /\ transfers[t].state = "running")
      ~> (t \in DOMAIN transfers /\ transfers[t].state # "running")

\* What release() promises of the default port: it is never given back while it
\* is the address of the server.
HasAddress == \A s \in Servers : owner[srv[s].primary] = s

\* What the service promises of the switch: the node the database names holds
\* the files of the server.
FilesAtHome == \A s \in Servers : srv[s].node \in copies[s]

\* Only the administration lifts a suspension.
SuspensionHolds ==
  [][\A s \in Servers :
       srv[s].state = "suspended" /\ srv'[s].state # "suspended"
         => SetSuspended(s, FALSE)]_vars
=============================================================================
