------------------------ MODULE ServerTransferProofs ------------------------
(***************************************************************************)
(* What holds of a transfer for any servers, nodes, ports and number of    *)
(* requests in progress.  A single inductive invariant, IInv, carries the  *)
(* safety properties of ServerTransfer:                                    *)
(*   - a transferring server has a running row;                            *)
(*   - as long as no reservation was made on a stale check, a server has   *)
(*     at most one running row, which leaves the node the server is on;    *)
(*   - a switch between its two updates alone holds its row and the ports  *)
(*     it frees, and has missed no port but those taken since;             *)
(*   - hence the ports of a server, and its address, are where they should *)
(*     be.                                                                 *)
(***************************************************************************)
EXTENDS ServerTransfer, TLAPS

\* Requests and rows never leave a node for itself.
Elsewhere ==
  /\ \A h \in Handlers : call[h].at = "reserve" => call[h].from # call[h].to
  /\ \A t \in DOMAIN transfers : transfers[t].from # transfers[t].to

\* Without a stale check: one running row at most, from where the server is.
OneRunning ==
  \A s \in Servers : ~raced[s] =>
    \A t \in Running(s) :
      /\ transfers[t].from = srv[s].node
      /\ \A u \in Running(s) : u = t

\* What a switch that has freed the departure ports may count on until it commits.
Midway ==
  \A h \in Handlers : call[h].at = "switching" =>
    LET t == call[h].row
        s == transfers[t].server
    IN  /\ transfers[t].state = "running"
        /\ \A p \in call[h].freed : owner[p] = s /\ NodeOf[p] = transfers[t].from
        /\ \A g \in Handlers \ {h} : call[g].at = "switching" =>
             call[g].row # t /\ call[g].freed \cap call[h].freed = {}
        /\ NodeOf[call[h].arrival] = transfers[t].to
        /\ ~raced[s] => PortsOf(s, transfers[t].from) \subseteq call[h].freed \cup overlooked
        /\ ~raced[s] /\ ~strayed[s] => owner[call[h].arrival] = s

IInv ==
  /\ TypeOK /\ LockBacked /\ Elsewhere /\ OneRunning
  /\ PortsAccounted /\ AddressKept /\ Midway

-----------------------------------------------------------------------------
(* Typing. *)

RowCalls == {"order", "switch", "switching", "undo"}

\* What a request in progress has read, by the point it is at.
LEMMA CallFields ==
  ASSUME NEW c \in Call
  PROVE  /\ c.at = "reserve" => c.server \in Servers /\ c.from \in Nodes /\ c.to \in Nodes
         /\ c.at \in RowCalls => c.row \in Nat
         /\ c.at = "switching" => c.arrival \in Ports /\ c.freed \subseteq Ports
         /\ c.at = "confirmed" => c.server \in Servers
         /\ c.at = "delete" => c.server \in Servers /\ c.from \in Nodes
         /\ c.at = "failed" => c.server \in Servers /\ c.by \in Nodes \cup {None}
         /\ c.at \in {"primary", "release"} => c.server \in Servers /\ c.port \in Ports
  BY DEF Call, Idle, RowCalls

\* A request that refers to an existing row keeps the requests well typed.
LEMMA CallStep ==
  ASSUME TypeOK, NEW h \in Handlers, NEW c \in Call, Becomes(h, c),
         c.at \in RowCalls => c.row \in DOMAIN transfers',
         DOMAIN transfers \subseteq DOMAIN transfers'
  PROVE  /\ call' \in [Handlers -> Call]
         /\ \A g \in Handlers :
              call'[g].at \in {"order", "switch", "switching", "undo"}
                => call'[g].row \in DOMAIN transfers'
<1>1. call \in [Handlers -> Call] /\ call' = [call EXCEPT ![h] = c]
  BY DEF TypeOK, Becomes
<1>2. call' \in [Handlers -> Call]
  BY <1>1
<1>3. ASSUME NEW g \in Handlers, call'[g].at \in RowCalls
      PROVE  call'[g].row \in DOMAIN transfers'
  <2>1. CASE g = h
    BY <1>1, <1>3, <2>1
  <2>2. CASE g # h
    <3>1. call'[g] = call[g]
      BY <1>1, <2>2
    <3> QED
      BY <1>3, <3>1 DEF TypeOK, RowCalls
  <2> QED
    BY <2>1, <2>2
<1> QED
  BY <1>2, <1>3 DEF RowCalls

\* Closing or ageing a row changes neither the number of rows nor their type.
LEMMA RowStep ==
  ASSUME NEW rows \in Seq(Row), NEW t \in DOMAIN rows
  PROVE  /\ \A v \in {"running", "completed", "failed"} :
              LET r == [rows EXCEPT ![t].state = v]
              IN  /\ r \in Seq(Row) /\ DOMAIN r = DOMAIN rows
                  /\ r[t] = [rows[t] EXCEPT !.state = v]
                  /\ \A u \in DOMAIN rows : u # t => r[u] = rows[u]
         /\ LET r == [rows EXCEPT ![t].late = TRUE]
            IN  /\ r \in Seq(Row) /\ DOMAIN r = DOMAIN rows
                /\ r[t] = [rows[t] EXCEPT !.late = TRUE]
                /\ \A u \in DOMAIN rows : u # t => r[u] = rows[u]
<1>1. rows \in [1..Len(rows) -> Row] /\ Len(rows) \in Nat /\ DOMAIN rows = 1..Len(rows)
  OBVIOUS
<1>2. ASSUME NEW x \in Row
      PROVE  LET r == [rows EXCEPT ![t] = x]
             IN  /\ r \in Seq(Row) /\ DOMAIN r = DOMAIN rows /\ r[t] = x
                 /\ \A u \in DOMAIN rows : u # t => r[u] = rows[u]
  BY <1>1
<1>3. \A v \in {"running", "completed", "failed"} : [rows[t] EXCEPT !.state = v] \in Row
  <2>1. rows[t] \in Row
    OBVIOUS
  <2> QED
    BY <2>1 DEF Row
<1>4. [rows[t] EXCEPT !.late = TRUE] \in Row
  <2>1. rows[t] \in Row
    OBVIOUS
  <2> QED
    BY <2>1 DEF Row
<1>5. \A v : [rows EXCEPT ![t].state = v] = [rows EXCEPT ![t] = [rows[t] EXCEPT !.state = v]]
  OBVIOUS
<1>6. [rows EXCEPT ![t].late = TRUE] = [rows EXCEPT ![t] = [rows[t] EXCEPT !.late = TRUE]]
  OBVIOUS
<1> QED
  BY <1>2, <1>3, <1>4, <1>5, <1>6

\* A row names a server and two nodes.
LEMMA RowAt ==
  ASSUME NEW rows \in Seq(Row), NEW t \in DOMAIN rows
  PROVE  /\ rows[t] \in Row /\ t \in Nat
         /\ rows[t].server \in Servers /\ rows[t].from \in Nodes /\ rows[t].to \in Nodes
<1>1. rows[t] \in Row
  OBVIOUS
<1> QED
  BY <1>1 DEF Row

\* A new row comes after the others, which stay as they are.
LEMMA NewRow ==
  ASSUME NEW rows \in Seq(Row), NEW x \in Row
  PROVE  LET r == Append(rows, x)
         IN  /\ r \in Seq(Row) /\ Len(rows) \in Nat
             /\ DOMAIN rows = 1..Len(rows) /\ DOMAIN r = 1..(Len(rows) + 1)
             /\ r[Len(rows) + 1] = x
             /\ \A u \in DOMAIN rows : r[u] = rows[u]
  OBVIOUS

\* Every change of the management state or of the default port is well typed.
LEMMA SrvStep ==
  ASSUME NEW f \in [Servers -> [node: Nodes, primary: Ports, state: Managed]],
         NEW s \in Servers
  PROVE  /\ \A v \in Managed :
              LET g == [f EXCEPT ![s].state = v]
              IN  /\ g \in [Servers -> [node: Nodes, primary: Ports, state: Managed]]
                  /\ g[s].node = f[s].node /\ g[s].primary = f[s].primary /\ g[s].state = v
                  /\ \A z \in Servers : z # s => g[z] = f[z]
         /\ \A v \in Ports :
              LET g == [f EXCEPT ![s].primary = v]
              IN  /\ g \in [Servers -> [node: Nodes, primary: Ports, state: Managed]]
                  /\ g[s].node = f[s].node /\ g[s].primary = v /\ g[s].state = f[s].state
                  /\ \A z \in Servers : z # s => g[z] = f[z]
<1>1. f[s] \in [node: Nodes, primary: Ports, state: Managed]
  OBVIOUS
<1>2. \A v \in Managed :
        [f[s] EXCEPT !.state = v] \in [node: Nodes, primary: Ports, state: Managed]
  BY <1>1
<1>3. \A v \in Ports :
        [f[s] EXCEPT !.primary = v] \in [node: Nodes, primary: Ports, state: Managed]
  BY <1>1
<1>4. \A v : [f EXCEPT ![s].state = v] = [f EXCEPT ![s] = [f[s] EXCEPT !.state = v]]
  OBVIOUS
<1>5. \A v : [f EXCEPT ![s].primary = v] = [f EXCEPT ![s] = [f[s] EXCEPT !.primary = v]]
  OBVIOUS
<1>6. \A v : [f[s] EXCEPT !.state = v].node = f[s].node
             /\ [f[s] EXCEPT !.state = v].primary = f[s].primary
             /\ [f[s] EXCEPT !.state = v].state = v
  BY <1>1
<1>7. \A v : [f[s] EXCEPT !.primary = v].node = f[s].node
             /\ [f[s] EXCEPT !.primary = v].primary = v
             /\ [f[s] EXCEPT !.primary = v].state = f[s].state
  BY <1>1
<1> QED
  BY <1>2, <1>3, <1>4, <1>5, <1>6, <1>7

\* The table of servers is well typed.
LEMMA SrvTyped ==
  TypeOK => srv \in [Servers -> [node: Nodes, primary: Ports, state: Managed]]
  BY DEF TypeOK

\* The initial rows are well typed.
LEMMA InitTypes == Init => TypeOK
<1> SUFFICES ASSUME Init PROVE TypeOK
  OBVIOUS
<1>1. srv \in [Servers -> [node: Nodes, primary: Ports, state: Managed]]
  BY PlacesAssumption DEF Init, PlacesAssumption, Managed
<1>2. owner \in [Ports -> Servers \cup {None}]
  <2>1. ASSUME NEW p \in Ports, \E z \in Servers : HomePort[z] = p
        PROVE  (CHOOSE z \in Servers : HomePort[z] = p) \in Servers
    BY <2>1
  <2> QED
    BY <2>1 DEF Init
<1>3. transfers \in Seq(Row)
  BY DEF Init
<1>4. call \in [Handlers -> Call] /\ \A h \in Handlers : call[h].at = "idle"
  BY DEF Init, Call, Idle
<1>5. copies \in [Servers -> SUBSET Nodes]
  BY PlacesAssumption DEF Init, PlacesAssumption
<1> QED
  BY <1>1, <1>2, <1>3, <1>4, <1>5, BoundsAssumption DEF Init, TypeOK, BoundsAssumption

\* Every step of a request, a daemon, the administration or the client keeps
\* the rows well typed.
LEMMA StepTypes == TypeOK /\ [Next]_vars => TypeOK'
<1> SUFFICES ASSUME TypeOK, [Next]_vars PROVE TypeOK'
  OBVIOUS
<1>1. ASSUME NEW h \in Handlers, NEW s \in Servers, NEW n \in Nodes, StartRead(h, s, n)
      PROVE TypeOK'
  <2>1. [at |-> "reserve", server |-> s, from |-> srv[s].node, to |-> n] \in Call
    BY DEF TypeOK, Call
  <2> QED
    BY <1>1, <2>1, CallStep DEF StartRead, TypeOK, RowCalls
<1>2. ASSUME NEW h \in Handlers, NEW t \in 1..MaxTransfers, ReportSuccess(h, t)
      PROVE TypeOK'
  <2>0. t \in DOMAIN transfers
    BY <1>2 DEF ReportSuccess, TypeOK
  <2>1. transfers[t].server \in Servers /\ transfers[t].to \in Nodes
    BY <2>0, RowAt DEF TypeOK
  <2>2. [at |-> "confirmed", server |-> transfers[t].server] \in Call /\ Idle \in Call
    BY <2>1 DEF Call
  <2>3. \E c \in {Idle, [at |-> "confirmed", server |-> transfers[t].server]} : Becomes(h, c)
    BY <1>2 DEF ReportSuccess
  <2>4. copies' \in [Servers -> SUBSET Nodes]
    BY <1>2, <2>1 DEF ReportSuccess, TypeOK
  <2> QED
    BY <1>2, <2>2, <2>3, <2>4, CallStep DEF ReportSuccess, Reported, TypeOK, RowCalls, Idle
<1>3. ASSUME NEW h \in Handlers, NEW t \in 1..MaxTransfers, NEW n \in Nodes, ReportFailure(h, t, n)
      PROVE TypeOK'
  <2>0. t \in DOMAIN transfers
    BY <1>3 DEF ReportFailure, TypeOK
  <2>1. transfers[t].server \in Servers
    BY <2>0, RowAt DEF TypeOK
  <2>2. [at |-> "failed", server |-> transfers[t].server, by |-> n] \in Call
    BY <2>1 DEF Call
  <2> QED
    BY <1>3, <2>2, CallStep DEF ReportFailure, Reported, TypeOK, RowCalls
<1>4. ASSUME NEW h \in Handlers, NEW t \in 1..MaxTransfers, Sweep(h, t)
      PROVE TypeOK'
  <2>0. t \in DOMAIN transfers
    BY <1>4 DEF Sweep, TypeOK
  <2>1. transfers[t].server \in Servers
    BY <2>0, RowAt DEF TypeOK
  <2>2. [at |-> "failed", server |-> transfers[t].server, by |-> None] \in Call
    BY <2>1 DEF Call
  <2> QED
    BY <1>4, <2>2, CallStep DEF Sweep, TypeOK, RowCalls
<1>5. ASSUME NEW s \in Servers, Claim(s) PROVE TypeOK'
  BY <1>5 DEF Claim, FreePorts, TypeOK
<1>6. ASSUME NEW h \in Handlers, NEW p \in Ports, PrimaryCheck(h, p) PROVE TypeOK'
  <2>1. [at |-> "primary", server |-> owner[p], port |-> p] \in Call
    BY <1>6 DEF PrimaryCheck, TypeOK, Call
  <2> QED
    BY <1>6, <2>1, CallStep DEF PrimaryCheck, TypeOK, RowCalls
<1>7. ASSUME NEW h \in Handlers, NEW p \in Ports, ReleaseCheck(h, p) PROVE TypeOK'
  <2>1. [at |-> "release", server |-> owner[p], port |-> p] \in Call
    BY <1>7 DEF ReleaseCheck, TypeOK, Call
  <2> QED
    BY <1>7, <2>1, CallStep DEF ReleaseCheck, TypeOK, RowCalls
<1>8. ASSUME NEW h \in Handlers, Continue(h) PROVE TypeOK'
  <2> DEFINE c == call[h]
  <2>a. c \in Call
    BY DEF TypeOK
  <2>b. Idle \in Call
    BY DEF Call
  <2>c. c.at \in RowCalls => c.row \in DOMAIN transfers
    BY DEF TypeOK, RowCalls
  <2>1. CASE StartReserve(h)
    <3>1. c.server \in Servers /\ c.from \in Nodes /\ c.to \in Nodes
      BY <2>1, <2>a, CallFields DEF StartReserve
    <3>2. [server |-> c.server, from |-> c.from, to |-> c.to,
           state |-> "running", late |-> FALSE] \in Row
      BY <3>1 DEF Row
    <3>3. [at |-> "order", row |-> Len(transfers) + 1] \in Call
      BY DEF Call, TypeOK
    <3>4. /\ transfers' \in Seq(Row) /\ Len(transfers) + 1 \in DOMAIN transfers'
          /\ DOMAIN transfers \subseteq DOMAIN transfers'
      BY <2>1, <3>2, NewRow DEF StartReserve, TypeOK
    <3>5. /\ call' \in [Handlers -> Call]
          /\ \A g \in Handlers :
               call'[g].at \in {"order", "switch", "switching", "undo"}
                 => call'[g].row \in DOMAIN transfers'
      BY <2>1, <3>3, <3>4, CallStep DEF StartReserve
    <3>6. srv' \in [Servers -> [node: Nodes, primary: Ports, state: Managed]]
      <4>1. srv' = [srv EXCEPT ![c.server].state = "transferring"]
        BY <2>1 DEF StartReserve
      <4>2. "transferring" \in Managed
        BY DEF Managed
      <4>3. srv \in [Servers -> [node: Nodes, primary: Ports, state: Managed]]
        BY DEF TypeOK
      <4>4. [srv EXCEPT ![c.server].state = "transferring"]
              \in [Servers -> [node: Nodes, primary: Ports, state: Managed]]
        BY <3>1, <4>2, <4>3, SrvStep
      <4> QED
        BY <4>1, <4>4
    <3>7. owner' \in [Ports -> Servers \cup {None}]
      BY <2>1, <3>1 DEF StartReserve, TypeOK, FreePorts
    <3>8. raced' \in [Servers -> BOOLEAN]
      BY <2>1, <3>1 DEF StartReserve, TypeOK
    <3> QED
      BY <2>1, <3>4, <3>5, <3>6, <3>7, <3>8 DEF StartReserve, TypeOK
  <2>2. CASE StartNoPort(h)
    BY <2>2, <2>b, CallStep DEF StartNoPort, TypeOK, RowCalls, Idle
  <2>3. CASE StartOrdered(h)
    <3>1. c.row \in DOMAIN transfers /\ c.row \in Nat
      BY <2>3, <2>a, <2>c, CallFields DEF StartOrdered, RowCalls
    <3>2. [at |-> "undo", row |-> c.row] \in Call
      BY <3>1 DEF Call
    <3>3. Becomes(h, Idle) \/ Becomes(h, [at |-> "undo", row |-> c.row])
      BY <2>3 DEF StartOrdered, Becomes
    <3> QED
      BY <2>3, <2>b, <3>1, <3>2, <3>3, CallStep DEF StartOrdered, TypeOK, RowCalls, Idle
  <2>4. CASE StartRefused(h)
    <3>1. c.row \in DOMAIN transfers /\ c.row \in Nat
      BY <2>4, <2>a, <2>c, CallFields DEF StartRefused, RowCalls
    <3>2. [at |-> "undo", row |-> c.row] \in Call
      BY <3>1 DEF Call
    <3> QED
      BY <2>4, <3>1, <3>2, CallStep DEF StartRefused, TypeOK, RowCalls
  <2>5. CASE Pending(h)
    <3>1. \/ Becomes(h, Idle)
          \/ \E t \in DOMAIN transfers : \/ Becomes(h, [at |-> "switch", row |-> t])
                                         \/ Becomes(h, [at |-> "undo", row |-> t])
      BY <2>5 DEF Pending
    <3>2. \A t \in DOMAIN transfers : /\ [at |-> "switch", row |-> t] \in Call
                                      /\ [at |-> "undo", row |-> t] \in Call
      BY DEF TypeOK, Call
    <3> QED
      BY <2>5, <2>b, <3>1, <3>2, CallStep DEF Pending, TypeOK, RowCalls, Idle
  <2>6. CASE SwitchFrees(h)
    <3> DEFINE t == c.row
               a == PortsOf(transfers[t].server, transfers[t].to)
               d == PortsOf(transfers[t].server, transfers[t].from)
    <3>1. t \in DOMAIN transfers /\ t \in Nat
      BY <2>6, <2>a, <2>c, CallFields DEF SwitchFrees, RowCalls
    <3>2. CASE LockRunning(t) /\ a # {}
      <4>1. PICK p \in a :
              Becomes(h, [at |-> "switching", row |-> t, arrival |-> p, freed |-> d])
        BY <2>6, <3>2 DEF SwitchFrees
      <4>2. [at |-> "switching", row |-> t, arrival |-> p, freed |-> d] \in Call
        BY <3>1 DEF Call, PortsOf
      <4> QED
        BY <2>6, <3>1, <4>1, <4>2, CallStep DEF SwitchFrees, TypeOK
    <3>3. CASE ~(LockRunning(t) /\ a # {})
      BY <2>6, <2>b, <3>3, CallStep DEF SwitchFrees, TypeOK, RowCalls, Idle
    <3> QED
      BY <3>2, <3>3
  <2>11. CASE SwitchCommits(h)
    <3> DEFINE t == c.row
               s == transfers[t].server
    <3>1. t \in DOMAIN transfers /\ c.arrival \in Ports
      BY <2>11, <2>a, <2>c, CallFields DEF SwitchCommits, RowCalls
    <3>2. s \in Servers /\ transfers[t].from \in Nodes /\ transfers[t].to \in Nodes
      BY <3>1, RowAt DEF TypeOK
    <3>3. [at |-> "delete", server |-> s, from |-> transfers[t].from] \in Call
      BY <3>2 DEF Call
    <3>4. transfers' \in Seq(Row) /\ DOMAIN transfers' = DOMAIN transfers
      <4>1. transfers' = [transfers EXCEPT ![t].state = "completed"]
        BY <2>11 DEF SwitchCommits
      <4> QED
        BY <3>1, <4>1, RowStep DEF TypeOK
    <3>5. srv' \in [Servers -> [node: Nodes, primary: Ports, state: Managed]]
      <4>1. srv' = [srv EXCEPT ![s] = [node |-> transfers[t].to,
                                      primary |-> c.arrival, state |-> "none"]]
        BY <2>11 DEF SwitchCommits
      <4>2. [node |-> transfers[t].to, primary |-> c.arrival, state |-> "none"]
              \in [node: Nodes, primary: Ports, state: Managed]
        BY <3>1, <3>2 DEF Managed
      <4> QED
        BY <3>2, <4>1, <4>2 DEF TypeOK
    <3>6. owner' \in [Ports -> Servers \cup {None}]
      BY <2>11 DEF SwitchCommits, TypeOK
    <3>7. Becomes(h, [at |-> "delete", server |-> s, from |-> transfers[t].from])
      BY <2>11 DEF SwitchCommits
    <3>8. /\ call' \in [Handlers -> Call]
          /\ \A g \in Handlers :
               call'[g].at \in {"order", "switch", "switching", "undo"}
                 => call'[g].row \in DOMAIN transfers'
      BY <3>3, <3>4, <3>7, CallStep DEF RowCalls
    <3> QED
      BY <2>11, <3>4, <3>5, <3>6, <3>8 DEF SwitchCommits, TypeOK
  <2>7. CASE Delete(h)
    <3>1. c.server \in Servers
      BY <2>7, <2>a, CallFields DEF Delete
    <3>2. copies' \in [Servers -> SUBSET Nodes]
      BY <2>7, <3>1 DEF Delete, TypeOK
    <3> QED
      BY <2>7, <2>b, <3>2, CallStep DEF Delete, TypeOK, RowCalls, Idle
  <2>8. CASE Rollback(h)
    <3> DEFINE t == c.row
               s == transfers[t].server
    <3>1. t \in DOMAIN transfers
      BY <2>8, <2>c DEF Rollback, RowCalls
    <3>2. transfers[t] \in Row
      BY <3>1 DEF TypeOK
    <3>3. s \in Servers
      BY <3>2 DEF Row
    <3>4. CASE LockRunning(t)
      <4>1. transfers' \in Seq(Row) /\ DOMAIN transfers' = DOMAIN transfers
        <5>1. transfers' = [transfers EXCEPT ![t].state = "failed"]
          BY <2>8, <3>4 DEF Rollback
        <5> QED
          BY <3>1, <5>1, RowStep DEF TypeOK
      <4>2. \E v \in Managed : srv' = [srv EXCEPT ![s].state = v]
        <5>1. srv' = [srv EXCEPT ![s].state =
                        IF srv[s].state = "transferring" THEN "none" ELSE srv[s].state]
          BY <2>8, <3>4 DEF Rollback
        <5>2. (IF srv[s].state = "transferring" THEN "none" ELSE srv[s].state) \in Managed
          BY <3>3 DEF TypeOK, Managed
        <5> QED
          BY <5>1, <5>2
      <4>3. srv' \in [Servers -> [node: Nodes, primary: Ports, state: Managed]]
        BY <4>2, <3>3, SrvStep, SrvTyped
      <4>4. owner' \in [Ports -> Servers \cup {None}]
        BY <2>8, <3>4 DEF Rollback, TypeOK
      <4>5. /\ call' \in [Handlers -> Call]
            /\ \A g \in Handlers :
                 call'[g].at \in {"order", "switch", "switching", "undo"}
                   => call'[g].row \in DOMAIN transfers'
        BY <2>8, <2>b, <4>1, CallStep DEF RowCalls, Idle, Rollback
      <4> QED
        BY <2>8, <4>1, <4>3, <4>4, <4>5 DEF Rollback, TypeOK
    <3>5. CASE ~LockRunning(t)
      BY <2>8, <2>b, <3>5, CallStep DEF Rollback, TypeOK, RowCalls, Idle
    <3> QED
      BY <3>4, <3>5
  <2>9. CASE SetPrimary(h)
    <3>1. c.server \in Servers /\ c.port \in Ports
      BY <2>9, <2>a, CallFields DEF SetPrimary
    <3>2. srv' \in [Servers -> [node: Nodes, primary: Ports, state: Managed]]
      <4>1. srv' = [srv EXCEPT ![c.server].primary = c.port]
        BY <2>9 DEF SetPrimary
      <4>2. srv \in [Servers -> [node: Nodes, primary: Ports, state: Managed]]
        BY DEF TypeOK
      <4>3. [srv EXCEPT ![c.server].primary = c.port]
              \in [Servers -> [node: Nodes, primary: Ports, state: Managed]]
        BY <3>1, <4>2, SrvStep
      <4> QED
        BY <4>1, <4>3
    <3>3. strayed' \in [Servers -> BOOLEAN]
      BY <2>9, <3>1 DEF SetPrimary, TypeOK
    <3> QED
      BY <2>9, <2>b, <3>2, <3>3, CallStep DEF SetPrimary, TypeOK, RowCalls, Idle
  <2>10. CASE Release(h)
    <3>1. c.server \in Servers /\ c.port \in Ports
      BY <2>10, <2>a, CallFields DEF Release
    <3>2. strayed' \in [Servers -> BOOLEAN] /\ owner' \in [Ports -> Servers \cup {None}]
      BY <2>10, <3>1 DEF Release, TypeOK
    <3> QED
      BY <2>10, <2>b, <3>2, CallStep DEF Release, TypeOK, RowCalls, Idle
  <2> QED
    BY <1>8, <2>1, <2>2, <2>3, <2>4, <2>5, <2>6, <2>7, <2>8, <2>9, <2>10, <2>11 DEF Continue
<1>9. ASSUME NEW t \in 1..MaxTransfers, JobLost(t) PROVE TypeOK'
  BY <1>9 DEF JobLost, TypeOK
<1>10. ASSUME NEW t \in 1..MaxTransfers, Age(t) PROVE TypeOK'
  <2>1. transfers' \in Seq(Row) /\ DOMAIN transfers' = DOMAIN transfers
    BY <1>10, RowStep DEF Age, TypeOK
  <2> QED
    BY <1>10, <2>1 DEF Age, TypeOK
<1>11. ASSUME NEW s \in Servers, NEW b \in BOOLEAN, SetSuspended(s, b) PROVE TypeOK'
  <2>1. srv' \in [Servers -> [node: Nodes, primary: Ports, state: Managed]]
    <3>1. PICK v \in Managed : srv' = [srv EXCEPT ![s].state = v]
      BY <1>11 DEF SetSuspended, Managed
    <3> QED
      BY <3>1, SrvStep, SrvTyped
  <2> QED
    BY <1>11, <2>1 DEF SetSuspended, TypeOK
<1>12. CASE Crash
  <2>1. crashes' \in 0..MaxCrashes
    BY <1>12, BoundsAssumption DEF Crash, TypeOK, BoundsAssumption
  <2>2. call' \in [Handlers -> Call] /\ \A h \in Handlers : call'[h].at = "idle"
    BY <1>12 DEF Crash, Call, Idle
  <2> QED
    BY <1>12, <2>1, <2>2 DEF Crash, TypeOK
<1>13. CASE UNCHANGED vars
  BY <1>13 DEF vars, TypeOK
<1> QED
  BY <1>1, <1>2, <1>3, <1>4, <1>5, <1>6, <1>7, <1>8, <1>9, <1>10, <1>11, <1>12, <1>13 DEF Next

\* The rows of the panel, and what requests and daemons refer to, keep their types.
THEOREM TypeCorrect == Spec => []TypeOK
  BY InitTypes, StepTypes, PTL DEF Spec

-----------------------------------------------------------------------------
(* The rows of the transfers: closing, ageing, adding one. *)

\* Closing a row takes it, and nothing else, out of the running ones.
LEMMA CloseRow ==
  ASSUME TypeOK, NEW t \in DOMAIN transfers, NEW v \in {"completed", "failed"},
         transfers' = [transfers EXCEPT ![t].state = v]
  PROVE  /\ DOMAIN transfers' = DOMAIN transfers
         /\ \A u \in DOMAIN transfers :
              /\ transfers'[u].server = transfers[u].server
              /\ transfers'[u].from = transfers[u].from
              /\ transfers'[u].to = transfers[u].to
              /\ u # t => transfers'[u] = transfers[u]
         /\ \A z \in Servers : Running(z)' = Running(z) \ {t}
<1>1. /\ DOMAIN transfers' = DOMAIN transfers
      /\ transfers'[t] = [transfers[t] EXCEPT !.state = v]
      /\ \A u \in DOMAIN transfers : u # t => transfers'[u] = transfers[u]
  BY RowStep DEF TypeOK
<1>2. transfers[t] \in Row
  BY RowAt DEF TypeOK
<1>3. /\ transfers'[t].server = transfers[t].server
      /\ transfers'[t].from = transfers[t].from
      /\ transfers'[t].to = transfers[t].to
      /\ transfers'[t].state # "running"
  BY <1>1, <1>2 DEF Row
<1>4. \A z \in Servers : Running(z)' = Running(z) \ {t}
  BY <1>1, <1>3 DEF Running
<1> QED
  BY <1>1, <1>3, <1>4

\* Time changes nothing of a row but its age.
LEMMA AgeRow ==
  ASSUME TypeOK, NEW t \in 1..MaxTransfers, Age(t)
  PROVE  /\ DOMAIN transfers' = DOMAIN transfers
         /\ transfers[t].state = "running"
         /\ \A u \in DOMAIN transfers :
              /\ transfers'[u].server = transfers[u].server
              /\ transfers'[u].from = transfers[u].from
              /\ transfers'[u].to = transfers[u].to
              /\ u # t => transfers'[u] = transfers[u]
         /\ \A z \in Servers : Running(z)' = Running(z)
<1>0. t \in DOMAIN transfers /\ transfers' = [transfers EXCEPT ![t].late = TRUE]
  BY DEF Age
<1>1. /\ DOMAIN transfers' = DOMAIN transfers
      /\ transfers'[t] = [transfers[t] EXCEPT !.late = TRUE]
      /\ \A u \in DOMAIN transfers : u # t => transfers'[u] = transfers[u]
  BY <1>0, RowStep DEF TypeOK
<1>2. transfers[t] \in Row
  BY <1>0, RowAt DEF TypeOK
<1>3. /\ transfers'[t].server = transfers[t].server
      /\ transfers'[t].from = transfers[t].from
      /\ transfers'[t].to = transfers[t].to
      /\ transfers'[t].state = transfers[t].state
  BY <1>1, <1>2 DEF Row
<1>4. \A z \in Servers : Running(z)' = Running(z)
  BY <1>1, <1>3 DEF Running
<1> QED
  BY <1>1, <1>3, <1>4 DEF Age

\* What a reservation adds.
LEMMA ReserveRow ==
  ASSUME TypeOK, NEW h \in Handlers, StartReserve(h)
  PROVE  LET t == Len(transfers) + 1
             s == call[h].server
         IN  /\ s \in Servers /\ call[h].from \in Nodes /\ call[h].to \in Nodes
             /\ t \notin DOMAIN transfers
             /\ DOMAIN transfers' = DOMAIN transfers \cup {t}
             /\ \A u \in DOMAIN transfers : transfers'[u] = transfers[u]
             /\ transfers'[t] = [server |-> s, from |-> call[h].from, to |-> call[h].to,
                                 state |-> "running", late |-> FALSE]
             /\ \A z \in Servers :
                  Running(z)' = IF z = s THEN Running(z) \cup {t} ELSE Running(z)
<1> DEFINE t == Len(transfers) + 1
           s == call[h].server
           x == [server |-> s, from |-> call[h].from, to |-> call[h].to,
                 state |-> "running", late |-> FALSE]
<1>1. s \in Servers /\ call[h].from \in Nodes /\ call[h].to \in Nodes
  BY CallFields DEF StartReserve, TypeOK
<1>2. x \in Row
  BY <1>1 DEF Row
<1>3. transfers' = Append(transfers, x)
  BY DEF StartReserve
<1>4. /\ t \notin DOMAIN transfers
      /\ DOMAIN transfers' = DOMAIN transfers \cup {t}
      /\ \A u \in DOMAIN transfers : transfers'[u] = transfers[u]
      /\ transfers'[t] = x
  BY <1>2, <1>3, NewRow DEF TypeOK
<1>5. \A z \in Servers :
        Running(z)' = IF z = s THEN Running(z) \cup {t} ELSE Running(z)
  BY <1>4 DEF Running
<1> QED
  BY <1>1, <1>4, <1>5

-----------------------------------------------------------------------------
(* The lock of the server, its ports and its address. *)

\* The panel starts with no transfer, every server at home with its own port.
LEMMA InitInv == Init => IInv
<1> SUFFICES ASSUME Init PROVE IInv
  OBVIOUS
<1>1. TypeOK
  BY InitTypes
<1>2. DOMAIN transfers = {}
  BY DEF Init
<1>3. \A s \in Servers : owner[HomePort[s]] = s
  <2> SUFFICES ASSUME NEW s \in Servers PROVE owner[HomePort[s]] = s
    OBVIOUS
  <2>1. HomePort[s] \in Ports
    BY PlacesAssumption DEF PlacesAssumption
  <2>2. owner[HomePort[s]] = CHOOSE z \in Servers : HomePort[z] = HomePort[s]
    BY <2>1 DEF Init
  <2> QED
    BY <2>2, PlacesAssumption DEF PlacesAssumption
<1>4. \A p \in Ports, s \in Servers : owner[p] = s => p = HomePort[s]
  <2> SUFFICES ASSUME NEW p \in Ports, NEW s \in Servers, owner[p] = s
               PROVE  p = HomePort[s]
    OBVIOUS
  <2>1. CASE \E z \in Servers : HomePort[z] = p
    <3>1. owner[p] = CHOOSE z \in Servers : HomePort[z] = p
      BY <2>1 DEF Init
    <3> QED
      BY <2>1, <3>1
  <2>2. CASE ~ \E z \in Servers : HomePort[z] = p
    <3>1. owner[p] = None
      BY <2>2 DEF Init
    <3> QED
      BY <3>1, PlacesAssumption DEF PlacesAssumption
  <2> QED
    BY <2>1, <2>2
<1>5. \A s \in Servers : /\ srv[s].node = HomeNode[s] /\ srv[s].primary = HomePort[s]
                         /\ srv[s].state = "none"
                         /\ NodeOf[HomePort[s]] = HomeNode[s]
  BY PlacesAssumption DEF Init, PlacesAssumption
<1>6. LockBacked
  BY <1>5 DEF LockBacked
<1>7. Elsewhere
  BY <1>2 DEF Elsewhere, Init, Idle
<1>8. OneRunning
  BY <1>2 DEF OneRunning, Running
<1>9. PortsAccounted
  BY <1>4, <1>5 DEF PortsAccounted
<1>10. AddressKept
  BY <1>3, <1>5 DEF AddressKept
<1>11. Midway
  BY DEF Midway, Init, Idle
<1> QED
  BY <1>1, <1>6, <1>7, <1>8, <1>9, <1>10, <1>11 DEF IInv

\* No request comes to its reservation, or into a switch, by this step.
CallsKept ==
  \A h \in Handlers :
    /\ call'[h].at = "reserve" => call'[h].from # call'[h].to
    /\ call'[h].at = "switching" => call'[h] = call[h]

\* A switch under way goes on as long as its row stays running, nobody frees the
\* ports it holds, and the ports it has not seen are noted.
LEMMA MidwayStep ==
  ASSUME TypeOK, Midway, CallsKept,
         \A h \in Handlers :
           call[h].at = "switching" /\ call'[h] = call[h] =>
             LET t == call[h].row
                 s == transfers[t].server
             IN  /\ transfers'[t].state = "running" /\ transfers'[t].server = s
                 /\ transfers'[t].from = transfers[t].from /\ transfers'[t].to = transfers[t].to
                 /\ \A p \in call[h].freed : owner'[p] = owner[p]
                 /\ ~raced'[s] =>
                      /\ ~raced[s]
                      /\ \A p \in Ports : owner'[p] = s =>
                           p \in overlooked' \/ (owner[p] = s /\ p \notin overlooked)
                 /\ ~raced'[s] /\ ~strayed'[s] =>
                      ~strayed[s] /\ (owner[call[h].arrival] = s => owner'[call[h].arrival] = s)
  PROVE  Midway'
<1> SUFFICES ASSUME NEW h \in Handlers, call'[h].at = "switching",
                    NEW t, t = call'[h].row, NEW s, s = transfers'[t].server
             PROVE  /\ transfers'[t].state = "running"
                    /\ \A p \in call'[h].freed : owner'[p] = s /\ NodeOf[p] = transfers'[t].from
                    /\ \A g \in Handlers \ {h} : call'[g].at = "switching" =>
                         call'[g].row # t /\ call'[g].freed \cap call'[h].freed = {}
                    /\ NodeOf[call'[h].arrival] = transfers'[t].to
                    /\ ~raced'[s] => {p \in Ports : owner'[p] = s /\ NodeOf[p] = transfers'[t].from}
                                       \subseteq call'[h].freed \cup overlooked'
                    /\ ~raced'[s] /\ ~strayed'[s] => owner'[call'[h].arrival] = s
  BY DEF Midway, PortsOf
<1>1. call'[h] = call[h] /\ call[h].at = "switching" /\ call[h].row = t
  BY DEF CallsKept
<1>2. /\ transfers'[t].state = "running" /\ transfers[t].server = s
      /\ transfers'[t].from = transfers[t].from /\ transfers'[t].to = transfers[t].to
      /\ \A p \in call[h].freed : owner'[p] = owner[p]
  BY <1>1
<1>3. /\ \A p \in call[h].freed : owner[p] = s /\ NodeOf[p] = transfers[t].from
      /\ \A g \in Handlers \ {h} : call[g].at = "switching" =>
           call[g].row # t /\ call[g].freed \cap call[h].freed = {}
      /\ NodeOf[call[h].arrival] = transfers[t].to
      /\ ~raced[s] => PortsOf(s, transfers[t].from) \subseteq call[h].freed \cup overlooked
      /\ ~raced[s] /\ ~strayed[s] => owner[call[h].arrival] = s
  BY <1>1, <1>2 DEF Midway
<1>4. \A g \in Handlers \ {h} : call'[g].at = "switching" =>
        call'[g].row # t /\ call'[g].freed \cap call[h].freed = {}
  BY <1>3 DEF CallsKept
<1>5. ASSUME ~raced'[s], NEW p \in Ports, owner'[p] = s, NodeOf[p] = transfers[t].from
      PROVE  p \in call[h].freed \cup overlooked'
  <2>1. ~raced[s] /\ (p \in overlooked' \/ (owner[p] = s /\ p \notin overlooked))
    BY <1>1, <1>2, <1>5
  <2> QED
    BY <1>3, <1>5, <2>1 DEF PortsOf
<1>6. ~raced'[s] /\ ~strayed'[s] => owner'[call[h].arrival] = s
  BY <1>1, <1>2, <1>3
<1>7. ~raced'[s] => {p \in Ports : owner'[p] = s /\ NodeOf[p] = transfers'[t].from}
                     \subseteq call'[h].freed \cup overlooked'
  BY <1>1, <1>2, <1>5
<1>8. \A p \in call'[h].freed : owner'[p] = s /\ NodeOf[p] = transfers'[t].from
  BY <1>1, <1>2, <1>3
<1> QED
  BY <1>1, <1>2, <1>3, <1>4, <1>6, <1>7, <1>8

\* A step that touches neither the tables nor the history leaves the rest of
\* the invariant alone.
LEMMA QuietStep ==
  ASSUME IInv, TypeOK', CallsKept,
         UNCHANGED <<srv, owner, transfers, raced, strayed, overlooked>>
  PROVE  IInv'
<1>1. \A s \in Servers : Running(s)' = Running(s)
  BY DEF Running
<1>2. LockBacked'
  BY <1>1 DEF IInv, LockBacked
<1>3. Elsewhere'
  BY DEF IInv, Elsewhere, CallsKept
<1>4. OneRunning'
  BY <1>1 DEF IInv, OneRunning
<1>5. PortsAccounted'
  BY <1>1 DEF IInv, PortsAccounted
<1>6. AddressKept'
  BY DEF IInv, AddressKept
<1>7. Midway'
  BY MidwayStep DEF IInv, Midway
<1> QED
  BY <1>2, <1>3, <1>4, <1>5, <1>6, <1>7 DEF IInv

\* A request that has just gone to a point other than its reservation or its switch.
LEMMA CallMoves ==
  ASSUME TypeOK, Elsewhere, NEW h \in Handlers, NEW c,
         c.at \notin {"reserve", "switching"}, Becomes(h, c)
  PROVE  CallsKept
<1>1. ASSUME NEW g \in Handlers, call'[g].at \in {"reserve", "switching"}
      PROVE  call'[g] = call[g]
  BY <1>1 DEF TypeOK, Becomes
<1> QED
  BY <1>1 DEF CallsKept, Elsewhere

\* The reservation of start() adds the row, the lock and the port together.
LEMMA ReserveKeeps == ASSUME IInv, TypeOK', NEW h \in Handlers, StartReserve(h) PROVE IInv'
<1> DEFINE t == Len(transfers) + 1
           s == call[h].server
<1>1. /\ s \in Servers
      /\ t \notin DOMAIN transfers
      /\ DOMAIN transfers' = DOMAIN transfers \cup {t}
      /\ \A u \in DOMAIN transfers : transfers'[u] = transfers[u]
      /\ transfers'[t].from = call[h].from /\ transfers'[t].to = call[h].to
      /\ \A z \in Servers : Running(z)' = IF z = s THEN Running(z) \cup {t} ELSE Running(z)
  <2>1. TypeOK
    BY DEF IInv
  <2>2. transfers'[t] = [server |-> s, from |-> call[h].from, to |-> call[h].to,
                         state |-> "running", late |-> FALSE]
    BY <2>1, ReserveRow
  <2>3. transfers'[t].from = call[h].from /\ transfers'[t].to = call[h].to
    BY <2>2
  <2> HIDE DEF t, s
  <2> QED
    BY <2>1, <2>3, ReserveRow DEF t, s
<1>2. call[h].from # call[h].to
  BY DEF IInv, Elsewhere, StartReserve
<1>3. PICK p \in Ports : /\ owner[p] = None /\ NodeOf[p] = call[h].to
                         /\ owner' = [owner EXCEPT ![p] = s]
                         /\ overlooked' = overlooked \ {p}
  BY DEF StartReserve, FreePorts
<1>4. /\ srv'[s].node = srv[s].node /\ srv'[s].primary = srv[s].primary
      /\ srv'[s].state = "transferring"
      /\ \A z \in Servers : z # s => srv'[z] = srv[z]
  <2>1. srv' = [srv EXCEPT ![s].state = "transferring"]
    BY DEF StartReserve
  <2>2. "transferring" \in Managed
    BY DEF Managed
  <2> QED
    BY <1>1, <2>1, <2>2, SrvStep, SrvTyped DEF IInv
<1>5. /\ \A z \in Servers : z # s => raced'[z] = raced[z]
      /\ ~raced'[s] => ~raced[s] /\ srv[s].node = call[h].from /\ Running(s) = {}
      /\ strayed' = strayed
  BY <1>1 DEF StartReserve, IInv, TypeOK
<1>6. /\ \A q \in Ports : q # p => owner'[q] = owner[q]
      /\ owner'[p] = s
  BY <1>3 DEF IInv, TypeOK
<1>c. CallsKept
  BY CallMoves DEF IInv, StartReserve
<1>o. overlooked' = overlooked \ {p}
  BY <1>3 DEF StartReserve
<1>7. Elsewhere'
  <2>2. \A u \in DOMAIN transfers' : transfers'[u].from # transfers'[u].to
    BY <1>1, <1>2 DEF IInv, Elsewhere
  <2> QED
    BY <1>c, <2>2 DEF Elsewhere, CallsKept
<1>8. LockBacked'
  BY <1>1, <1>4 DEF IInv, LockBacked
<1>9. OneRunning'
  <2> SUFFICES ASSUME NEW z \in Servers, ~raced'[z], NEW u \in Running(z)'
               PROVE  transfers'[u].from = srv'[z].node /\ \A v \in Running(z)' : u = v
    BY DEF OneRunning
  <2>1. CASE z = s
    BY <1>1, <1>4, <1>5, <2>1
  <2>2. CASE z # s
    <3>1. Running(z)' = Running(z) /\ u \in DOMAIN transfers /\ ~raced[z]
      BY <1>1, <1>5, <2>2 DEF Running
    <3> QED
      BY <1>1, <1>4, <2>2, <3>1 DEF IInv, OneRunning
  <2> QED
    BY <2>1, <2>2
<1>10. PortsAccounted'
  <2> SUFFICES ASSUME NEW z \in Servers, ~raced'[z],
                        NEW q \in Ports, q \notin overlooked', owner'[q] = z
               PROVE  \/ NodeOf[q] = srv'[z].node
                      \/ \E u \in Running(z)' : transfers'[u].to = NodeOf[q]
    BY DEF PortsAccounted
  <2>1. CASE q = p
    BY <1>1, <1>3, <1>6, <2>1
  <2>2. CASE q # p /\ z = s
    BY <1>4, <1>5, <1>6, <1>o, <2>2 DEF IInv, PortsAccounted
  <2>3. CASE q # p /\ z # s
    <3>1. /\ Running(z)' = Running(z) /\ ~raced[z] /\ owner[q] = z
          /\ \A u \in Running(z) : transfers'[u].to = transfers[u].to
      BY <1>1, <1>5, <1>6, <2>3 DEF Running
    <3> QED
      BY <1>4, <1>o, <2>3, <3>1 DEF IInv, PortsAccounted
  <2> QED
    BY <2>1, <2>2, <2>3
<1>11. AddressKept'
  <2> SUFFICES ASSUME NEW z \in Servers, ~raced'[z], ~strayed'[z]
               PROVE  owner'[srv'[z].primary] = z /\ NodeOf[srv'[z].primary] = srv'[z].node
    BY DEF AddressKept
  <2>1. srv'[z].primary = srv[z].primary /\ srv'[z].node = srv[z].node /\ ~raced[z]
    BY <1>4, <1>5
  <2>2. owner[srv[z].primary] = z /\ NodeOf[srv[z].primary] = srv[z].node
    BY <1>5, <2>1 DEF IInv, AddressKept
  <2>3. srv[z].primary # p /\ srv[z].primary \in Ports
    BY <1>3, <2>2, PlacesAssumption DEF PlacesAssumption, IInv, TypeOK
  <2> QED
    BY <1>6, <2>1, <2>2, <2>3
<1>12. Midway'
  <2> SUFFICES ASSUME NEW g \in Handlers, call[g].at = "switching"
               PROVE  LET u == call[g].row
                          z == transfers[u].server
                      IN  /\ transfers'[u] = transfers[u] /\ transfers[u].state = "running"
                          /\ \A q \in call[g].freed : owner'[q] = owner[q]
                          /\ ~raced'[z] =>
                               /\ ~raced[z]
                               /\ \A q \in Ports : owner'[q] = z =>
                                    q \in overlooked' \/ (owner[q] = z /\ q \notin overlooked)
                          /\ ~raced'[z] /\ ~strayed'[z] =>
                               ~strayed[z] /\ (owner[call[g].arrival] = z
                                                 => owner'[call[g].arrival] = z)
    BY <1>c, MidwayStep DEF IInv
  <2> DEFINE u == call[g].row
             z == transfers[u].server
  <2>1. /\ u \in DOMAIN transfers /\ transfers[u].state = "running" /\ z \in Servers
        /\ call[g].arrival \in Ports /\ call[g].freed \subseteq Ports
        /\ \A q \in call[g].freed : owner[q] = z
    BY RowAt, CallFields DEF IInv, TypeOK, Midway
  <2>2. ~raced'[z] => z # s
    BY <1>5, <2>1 DEF Running
  <2>3. \A q \in Ports : owner[q] = z => q # p
    BY <1>3, <2>1, PlacesAssumption DEF PlacesAssumption
  <2> QED
    BY <1>1, <1>5, <1>6, <1>o, <2>1, <2>2, <2>3
<1> QED
  BY <1>7, <1>8, <1>9, <1>10, <1>11, <1>12 DEF IInv

\* The first half of complete() holds the row and the ports, and has seen them all.
LEMMA FreesKeeps == ASSUME IInv, TypeOK', NEW h \in Handlers, SwitchFrees(h) PROVE IInv'
<1> DEFINE t == call[h].row
           s == transfers[t].server
           a == PortsOf(s, transfers[t].to)
           d == PortsOf(s, transfers[t].from)
<1>1. UNCHANGED <<srv, owner, transfers, raced, strayed, overlooked>>
  BY DEF SwitchFrees
<1>2. t \in DOMAIN transfers /\ s \in Servers
  BY RowAt DEF SwitchFrees, IInv, TypeOK
<1>3. CASE ~(LockRunning(t) /\ a # {})
  <2>1. CallsKept
    BY <1>3, CallMoves DEF IInv, SwitchFrees, Idle
  <2> QED
    BY <1>1, <2>1, QuietStep
<1>4. CASE LockRunning(t) /\ a # {}
  <2>1. PICK p \in a :
          Becomes(h, [at |-> "switching", row |-> t, arrival |-> p, freed |-> d])
    BY <1>4 DEF SwitchFrees
  <2>2. /\ call'[h] = [at |-> "switching", row |-> t, arrival |-> p, freed |-> d]
        /\ \A g \in Handlers \ {h} : call'[g] = call[g]
    BY <2>1 DEF Becomes, IInv, TypeOK
  <2>3. /\ \A g \in Handlers \ {h} : call[g].at = "switching" => call[g].row # t
        /\ \A g \in Handlers \ {h}, q \in d : call[g].at = "switching" => q \notin call[g].freed
    BY <1>4 DEF SwitchFrees, RowHeld, PortHeld
  <2>4. \A z \in Servers : Running(z)' = Running(z)
    BY <1>1 DEF Running
  <2>5. LockBacked' /\ OneRunning' /\ PortsAccounted' /\ AddressKept'
    BY <1>1, <2>4 DEF IInv, LockBacked, OneRunning, PortsAccounted, AddressKept
  <2>6. Elsewhere'
    BY <1>1, <2>2 DEF IInv, Elsewhere
  <2>7. Midway'
    <3> SUFFICES ASSUME NEW g \in Handlers, call'[g].at = "switching"
                 PROVE  LET u == call'[g].row
                            z == transfers[u].server
                        IN  /\ transfers[u].state = "running"
                            /\ \A q \in call'[g].freed :
                                 owner[q] = z /\ NodeOf[q] = transfers[u].from
                            /\ \A f \in Handlers \ {g} : call'[f].at = "switching" =>
                                 call'[f].row # u /\ call'[f].freed \cap call'[g].freed = {}
                            /\ NodeOf[call'[g].arrival] = transfers[u].to
                            /\ ~raced[z] => PortsOf(z, transfers[u].from)
                                              \subseteq call'[g].freed \cup overlooked
                            /\ ~raced[z] /\ ~strayed[z] => owner[call'[g].arrival] = z
      BY <1>1 DEF Midway, PortsOf
    <3>1. CASE g = h
      <4>1. /\ p \in Ports /\ owner[p] = s /\ NodeOf[p] = transfers[t].to
            /\ \A q \in d : owner[q] = s /\ NodeOf[q] = transfers[t].from
        BY DEF PortsOf
      <4>2. transfers[t].state = "running"
        BY <1>4 DEF LockRunning
      <4>3. /\ call'[g].row = t /\ call'[g].arrival = p /\ call'[g].freed = d
        BY <2>2, <3>1
      <4>4. \A f \in Handlers \ {g} : call'[f].at = "switching" =>
              call'[f].row # t /\ call'[f].freed \cap d = {}
        BY <2>2, <2>3, <3>1
      <4> HIDE DEF d, a
      <4> QED
        BY <4>1, <4>2, <4>3, <4>4 DEF d
    <3>2. CASE g # h
      <4>1. call'[g] = call[g] /\ call[g].at = "switching"
        BY <2>2, <3>2
      <4>2. \A f \in Handlers \ {g} : call'[f].at = "switching" =>
              call'[f].row # call[g].row /\ call'[f].freed \cap call[g].freed = {}
        <5> SUFFICES ASSUME NEW f \in Handlers \ {g}, call'[f].at = "switching"
                     PROVE  call'[f].row # call[g].row /\ call'[f].freed \cap call[g].freed = {}
          OBVIOUS
        <5>1. CASE f = h
          BY <2>2, <2>3, <3>2, <4>1, <5>1
        <5>2. CASE f # h
          BY <2>2, <4>1, <5>2 DEF IInv, Midway
        <5> QED
          BY <5>1, <5>2
      <4> QED
        BY <4>1, <4>2 DEF IInv, Midway
    <3> QED
      BY <3>1, <3>2
  <2> QED
    BY <2>5, <2>6, <2>7 DEF IInv
<1> QED
  BY <1>3, <1>4

\* The second half moves the server, its port and the row together.
LEMMA CommitsKeeps == ASSUME IInv, TypeOK', NEW h \in Handlers, SwitchCommits(h) PROVE IInv'
<1> DEFINE t == call[h].row
           s == transfers[t].server
           p == call[h].arrival
           d == call[h].freed
<1>1. /\ t \in DOMAIN transfers /\ p \in Ports /\ d \subseteq Ports
      /\ call[h].at = "switching"
  BY CallFields DEF SwitchCommits, IInv, TypeOK
<1>2. s \in Servers /\ transfers[t].from \in Nodes /\ transfers[t].to \in Nodes
  BY <1>1, RowAt DEF IInv, TypeOK
<1>c. CallsKept
  BY CallMoves DEF IInv, SwitchCommits
<1>m. /\ transfers[t].state = "running"
      /\ \A q \in d : owner[q] = s /\ NodeOf[q] = transfers[t].from
      /\ \A g \in Handlers \ {h} : call[g].at = "switching" =>
           call[g].row # t /\ call[g].freed \cap d = {}
      /\ NodeOf[p] = transfers[t].to
      /\ ~raced[s] => PortsOf(s, transfers[t].from) \subseteq d \cup overlooked
      /\ ~raced[s] /\ ~strayed[s] => owner[p] = s
  BY <1>1 DEF IInv, Midway
<1>3. /\ owner' = [q \in Ports |-> IF q \in d THEN None ELSE owner[q]]
      /\ transfers' = [transfers EXCEPT ![t].state = "completed"]
      /\ srv' = [srv EXCEPT ![s] = [node |-> transfers[t].to, primary |-> p, state |-> "none"]]
      /\ raced' = raced /\ strayed' = strayed /\ overlooked' = overlooked
  BY DEF SwitchCommits
<1>4. /\ DOMAIN transfers' = DOMAIN transfers
      /\ \A u \in DOMAIN transfers : /\ transfers'[u].from = transfers[u].from
                                     /\ transfers'[u].to = transfers[u].to
                                     /\ transfers'[u].server = transfers[u].server
                                     /\ u # t => transfers'[u] = transfers[u]
      /\ \A z \in Servers : Running(z)' = Running(z) \ {t}
  BY <1>1, <1>3, CloseRow DEF IInv
<1>5. /\ srv'[s].node = transfers[t].to /\ srv'[s].primary = p /\ srv'[s].state = "none"
      /\ \A z \in Servers : z # s => srv'[z] = srv[z]
  BY <1>2, <1>3 DEF IInv, TypeOK
<1>6. /\ \A z \in Servers : z # s => Running(z)' = Running(z)
      /\ t \in Running(s) /\ transfers[t].from # transfers[t].to
  BY <1>1, <1>4, <1>m DEF Running, IInv, Elsewhere
<1>7. /\ \A z \in Servers, q \in Ports : owner'[q] = z => owner[q] = z /\ q \notin d
      /\ \A z \in Servers, q \in Ports :
           owner[q] = z /\ ~(z = s /\ NodeOf[q] = transfers[t].from) => owner'[q] = z
  BY <1>2, <1>3, <1>m, PlacesAssumption DEF PlacesAssumption
<1>8. LockBacked'
  BY <1>5, <1>6 DEF IInv, LockBacked
<1>9. Elsewhere'
  BY <1>c, <1>4 DEF IInv, Elsewhere, CallsKept
<1>10. ~raced[s] => Running(s) = {t} /\ srv[s].node = transfers[t].from
  BY <1>2, <1>6 DEF IInv, OneRunning
<1>11. OneRunning'
  <2> SUFFICES ASSUME NEW z \in Servers, ~raced'[z], NEW u \in Running(z)'
               PROVE  transfers'[u].from = srv'[z].node /\ \A v \in Running(z)' : u = v
    BY DEF OneRunning
  <2>1. z # s
    BY <1>3, <1>4, <1>10
  <2>2. Running(z)' = Running(z) /\ u \in DOMAIN transfers
    BY <1>6, <2>1 DEF Running
  <2> QED
    BY <1>3, <1>4, <1>5, <2>1, <2>2 DEF IInv, OneRunning
<1>12. PortsAccounted'
  <2> SUFFICES ASSUME NEW z \in Servers, ~raced'[z],
                      
                        NEW q \in Ports, q \notin overlooked', owner'[q] = z
               PROVE  \/ NodeOf[q] = srv'[z].node
                      \/ \E u \in Running(z)' : transfers'[u].to = NodeOf[q]
    BY DEF PortsAccounted
  <2>1. owner[q] = z /\ q \notin d /\ ~raced[z] /\ q \notin overlooked
    BY <1>3, <1>7
  <2>2. NodeOf[q] = srv[z].node \/ \E u \in Running(z) : transfers[u].to = NodeOf[q]
    BY <2>1 DEF IInv, PortsAccounted
  <2>3. CASE z = s
    <3>1. NodeOf[q] # transfers[t].from
      BY <1>m, <2>1, <2>3 DEF PortsOf
    <3> QED
      BY <1>5, <1>10, <2>1, <2>2, <2>3, <3>1
  <2>4. CASE z # s
    <3>1. Running(z)' = Running(z) /\ \A u \in Running(z) : transfers'[u].to = transfers[u].to
      BY <1>4, <1>6, <2>4 DEF Running
    <3> QED
      BY <1>5, <2>2, <2>4, <3>1
  <2> QED
    BY <2>3, <2>4
<1>13. AddressKept'
  <2> SUFFICES ASSUME NEW z \in Servers, ~raced'[z], ~strayed'[z]
               PROVE  owner'[srv'[z].primary] = z /\ NodeOf[srv'[z].primary] = srv'[z].node
    BY DEF AddressKept
  <2>1. CASE z = s
    BY <1>1, <1>2, <1>3, <1>5, <1>6, <1>7, <1>m, <2>1
  <2>2. CASE z # s
    <3>1. srv[z].primary \in Ports
      BY DEF IInv, TypeOK
    <3> QED
      BY <1>3, <1>5, <1>7, <2>2, <3>1 DEF IInv, AddressKept
  <2> QED
    BY <2>1, <2>2
<1>14. Midway'
  <2> SUFFICES ASSUME NEW g \in Handlers, call[g].at = "switching", call'[g] = call[g]
               PROVE  LET u == call[g].row
                          z == transfers[u].server
                      IN  /\ transfers'[u] = transfers[u] /\ transfers[u].state = "running"
                          /\ \A q \in call[g].freed : owner'[q] = owner[q]
                          /\ \A q \in Ports : owner'[q] = z => owner[q] = z
                          /\ ~raced[z] => (owner[call[g].arrival] = z
                                             => owner'[call[g].arrival] = z)
    <3>1. \A q \in Ports, z \in Servers : owner'[q] = z => owner[q] = z
      BY <1>7
    <3> QED
      BY <1>c, <1>3, MidwayStep DEF IInv
  <2> DEFINE u == call[g].row
             z == transfers[u].server
  <2>1. /\ u \in DOMAIN transfers /\ z \in Servers
        /\ call[g].arrival \in Ports /\ call[g].freed \subseteq Ports
        /\ transfers[u].state = "running"
    BY RowAt, CallFields DEF IInv, TypeOK, Midway
  <2>2. g # h
    BY <1>1 DEF SwitchCommits, Becomes, IInv, TypeOK
  <2>3. u # t /\ call[g].freed \cap d = {}
    BY <1>m, <2>2
  <2>4. ~raced[z] => z # s
    BY <1>10, <2>1, <2>3 DEF Running
  <2> QED
    BY <1>3, <1>4, <1>7, <2>1, <2>3, <2>4
<1> QED
  BY <1>8, <1>9, <1>11, <1>12, <1>13, <1>14 DEF IInv

\* The transaction of rollback() frees the reserved ports and the lock with the row.
LEMMA RollbackKeeps == ASSUME IInv, TypeOK', NEW h \in Handlers, Rollback(h) PROVE IInv'
<1> DEFINE t == call[h].row
           s == transfers[t].server
<1>1. t \in DOMAIN transfers
  BY DEF Rollback, IInv, TypeOK
<1>2. s \in Servers /\ transfers[t].from \in Nodes /\ transfers[t].to \in Nodes
  BY <1>1, RowAt DEF IInv, TypeOK
<1>3. CallsKept
  BY CallMoves DEF IInv, Rollback, Idle
<1>4. CASE ~LockRunning(t)
  BY <1>3, <1>4, QuietStep DEF Rollback
<1>5. CASE LockRunning(t)
  <2>1. /\ owner' = [q \in Ports |-> IF q \in PortsOf(s, transfers[t].to)
                                     THEN None ELSE owner[q]]
        /\ transfers' = [transfers EXCEPT ![t].state = "failed"]
        /\ raced' = raced /\ strayed' = strayed /\ overlooked' = overlooked
    BY <1>5 DEF Rollback
  <2>2. /\ srv'[s].node = srv[s].node /\ srv'[s].primary = srv[s].primary
        /\ srv'[s].state # "transferring"
        /\ \A z \in Servers : z # s => srv'[z] = srv[z]
    <3> DEFINE v == IF srv[s].state = "transferring" THEN "none" ELSE srv[s].state
    <3>1. srv' = [srv EXCEPT ![s].state = v]
      BY <1>5 DEF Rollback
    <3>2. v \in Managed /\ v # "transferring"
      BY <1>2 DEF IInv, TypeOK, Managed
    <3> HIDE DEF v
    <3> QED
      BY <1>2, <3>1, <3>2, SrvStep, SrvTyped DEF IInv
  <2>3. /\ DOMAIN transfers' = DOMAIN transfers
        /\ \A u \in DOMAIN transfers : /\ transfers'[u].from = transfers[u].from
                                       /\ transfers'[u].to = transfers[u].to
                                       /\ u # t => transfers'[u] = transfers[u]
        /\ \A z \in Servers : Running(z)' = Running(z) \ {t}
    BY <1>1, <2>1, CloseRow DEF IInv
  <2>4. /\ \A z \in Servers : z # s => Running(z)' = Running(z)
        /\ t \in Running(s) /\ transfers[t].from # transfers[t].to
    BY <1>1, <1>5, <2>3 DEF Running, LockRunning, IInv, Elsewhere
  <2>5. /\ \A z \in Servers, q \in Ports : owner'[q] = z => owner[q] = z
        /\ \A z \in Servers, q \in Ports :
             owner[q] = z /\ ~(z = s /\ NodeOf[q] = transfers[t].to) => owner'[q] = z
        /\ \A q \in Ports : owner'[q] = s => NodeOf[q] # transfers[t].to
    BY <1>2, <2>1, PlacesAssumption DEF PortsOf, PlacesAssumption
  <2>6. ~raced[s] => Running(s) = {t} /\ srv[s].node = transfers[t].from
    BY <1>2, <2>4 DEF IInv, OneRunning
  <2>7. \A z \in Servers : srv'[z].node = srv[z].node /\ srv'[z].primary = srv[z].primary
    BY <2>2
  <2>8. LockBacked'
    BY <2>2, <2>4 DEF IInv, LockBacked
  <2>9. Elsewhere'
    BY <1>3, <2>3 DEF IInv, Elsewhere, CallsKept
  <2>10. OneRunning'
    <3> SUFFICES ASSUME NEW z \in Servers, ~raced'[z], NEW u \in Running(z)'
                 PROVE  transfers'[u].from = srv'[z].node /\ \A v \in Running(z)' : u = v
      BY DEF OneRunning
    <3>1. Running(z)' \subseteq Running(z) /\ u \in DOMAIN transfers
      BY <2>3 DEF Running
    <3> QED
      BY <2>1, <2>3, <2>7, <3>1 DEF IInv, OneRunning
  <2>11. PortsAccounted'
    <3> SUFFICES ASSUME NEW z \in Servers, ~raced'[z],
                        NEW q \in Ports, q \notin overlooked', owner'[q] = z
                 PROVE  \/ NodeOf[q] = srv'[z].node
                        \/ \E u \in Running(z)' : transfers'[u].to = NodeOf[q]
      BY DEF PortsAccounted
    <3>1. owner[q] = z /\ ~raced[z]
      BY <2>1, <2>5
    <3>2. NodeOf[q] = srv[z].node \/ \E u \in Running(z) : transfers[u].to = NodeOf[q]
      BY <2>1, <3>1 DEF IInv, PortsAccounted
    <3>3. CASE z = s
      BY <2>5, <2>6, <2>7, <3>1, <3>2, <3>3
    <3>4. CASE z # s
      <4>1. Running(z)' = Running(z) /\ \A u \in Running(z) : transfers'[u].to = transfers[u].to
        BY <2>3, <2>4, <3>4 DEF Running
      <4> QED
        BY <2>7, <3>2, <4>1
    <3> QED
      BY <3>3, <3>4
  <2>12. AddressKept'
    <3> SUFFICES ASSUME NEW z \in Servers, ~raced'[z], ~strayed'[z]
                 PROVE  owner'[srv'[z].primary] = z /\ NodeOf[srv'[z].primary] = srv'[z].node
      BY DEF AddressKept
    <3>1. /\ srv[z].primary \in Ports /\ owner[srv[z].primary] = z
          /\ NodeOf[srv[z].primary] = srv[z].node
      BY <2>1 DEF IInv, AddressKept, TypeOK
    <3>2. ~(z = s /\ NodeOf[srv[z].primary] = transfers[t].to)
      BY <2>1, <2>4, <2>6, <3>1
    <3> QED
      BY <2>5, <2>7, <3>1, <3>2
  <2>13. Midway'
    <3> SUFFICES ASSUME NEW g \in Handlers, call[g].at = "switching", call'[g] = call[g]
                 PROVE  LET u == call[g].row
                            z == transfers[u].server
                        IN  /\ transfers'[u] = transfers[u] /\ transfers[u].state = "running"
                            /\ \A q \in call[g].freed : owner'[q] = owner[q]
                            /\ \A q \in Ports : owner'[q] = z => owner[q] = z
                            /\ ~raced[z] => (owner[call[g].arrival] = z
                                               => owner'[call[g].arrival] = z)
      BY <1>3, <2>1, MidwayStep DEF IInv
    <3> DEFINE u == call[g].row
               z == transfers[u].server
    <3>1. /\ u \in DOMAIN transfers /\ z \in Servers
          /\ call[g].arrival \in Ports /\ call[g].freed \subseteq Ports
          /\ transfers[u].state = "running"
          /\ \A q \in call[g].freed : owner[q] = z
      BY RowAt, CallFields DEF IInv, TypeOK, Midway
    <3>2. g # h /\ u # t
      BY DEF Rollback, RowHeld
    <3>3. \A q \in PortsOf(s, transfers[t].to) : q \notin call[g].freed
      BY <1>5, <3>2 DEF Rollback, PortHeld
    <3>4. ~raced[z] => z # s
      BY <2>4, <2>6, <3>1, <3>2 DEF Running
    <3> QED
      BY <2>1, <2>3, <2>5, <3>1, <3>2, <3>3, <3>4
  <2> QED
    BY <2>8, <2>9, <2>10, <2>11, <2>12, <2>13 DEF IInv
<1> QED
  BY <1>4, <1>5

\* The steps of the administration and of the client: they change the row of the
\* server or a port, never a transfer.
LEMMA DirectKeeps ==
  ASSUME IInv, TypeOK', transfers' = transfers, raced' = raced, CallsKept, Midway',
         \A s \in Servers, p \in Ports :
           owner'[p] = s /\ p \in overlooked \ overlooked' => NodeOf[p] = srv[s].node,
         \A s \in Servers :
           /\ srv'[s].node = srv[s].node
           /\ srv'[s].state = "transferring" => srv[s].state = "transferring"
           /\ \A p \in Ports : owner'[p] = s => owner[p] = s \/ NodeOf[p] = srv[s].node
           /\ ~strayed'[s] =>
                /\ ~strayed[s]
                /\ \/ srv'[s].primary = srv[s].primary
                   \/ owner[srv'[s].primary] = s /\ NodeOf[srv'[s].primary] = srv[s].node
                /\ owner[srv'[s].primary] = s => owner'[srv'[s].primary] = s
  PROVE  IInv'
<1>1. \A s \in Servers : Running(s)' = Running(s)
  BY DEF Running
<1>2. LockBacked'
  BY <1>1 DEF IInv, LockBacked
<1>3. Elsewhere'
  BY DEF IInv, Elsewhere, CallsKept
<1>4. OneRunning'
  BY <1>1 DEF IInv, OneRunning
<1>5. PortsAccounted'
  BY <1>1 DEF IInv, PortsAccounted
<1>6. AddressKept'
  BY DEF IInv, AddressKept
<1> QED
  BY <1>2, <1>3, <1>4, <1>5, <1>6 DEF IInv

\* Time alone breaks nothing.
LEMMA AgeKeeps == ASSUME IInv, TypeOK', NEW t \in 1..MaxTransfers, Age(t) PROVE IInv'
<1>1. /\ DOMAIN transfers' = DOMAIN transfers
      /\ \A u \in DOMAIN transfers :
           /\ transfers'[u].from = transfers[u].from
           /\ transfers'[u].to = transfers[u].to
           /\ transfers'[u].server = transfers[u].server
           /\ transfers[u].state = "running" => transfers'[u].state = "running"
      /\ \A z \in Servers : Running(z)' = Running(z)
  <2>1. \A u \in DOMAIN transfers : transfers'[u].state = transfers[u].state
    <3>1. t \in DOMAIN transfers /\ transfers' = [transfers EXCEPT ![t].late = TRUE]
      BY DEF Age
    <3>2. transfers[t] \in Row
      BY <3>1, RowAt DEF IInv, TypeOK
    <3> QED
      BY <3>1, <3>2, RowStep DEF IInv, TypeOK, Row
  <2> QED
    BY <2>1, AgeRow DEF IInv
<1>2. /\ srv' = srv /\ owner' = owner /\ call' = call
      /\ raced' = raced /\ strayed' = strayed /\ overlooked' = overlooked
  BY DEF Age
<1>3. \A z \in Servers : Running(z) \subseteq DOMAIN transfers
  BY DEF Running
<1>4. LockBacked'
  BY <1>1, <1>2 DEF IInv, LockBacked
<1>5. Elsewhere'
  BY <1>1, <1>2 DEF IInv, Elsewhere
<1>6. OneRunning'
  BY <1>1, <1>2, <1>3 DEF IInv, OneRunning
<1>7. PortsAccounted'
  BY <1>1, <1>2, <1>3 DEF IInv, PortsAccounted
<1>8. AddressKept'
  BY <1>2 DEF IInv, AddressKept
<1>9. Midway'
  <2>1. \A h \in Handlers : call[h].at = "switching" => call[h].row \in DOMAIN transfers
    BY DEF IInv, TypeOK
  <2>2. CallsKept
    BY <1>2 DEF IInv, Elsewhere, CallsKept
  <2>3. \A h \in Handlers : call[h].at = "switching" => transfers[call[h].row].state = "running"
    BY DEF IInv, Midway
  <2> QED
    BY <1>1, <1>2, <2>1, <2>2, <2>3, MidwayStep DEF IInv
<1> QED
  BY <1>4, <1>5, <1>6, <1>7, <1>8, <1>9 DEF IInv

\* Every step keeps the inductive invariant: one case per action of the panel.
LEMMA StepInv == IInv /\ [Next]_vars => IInv'
<1> SUFFICES ASSUME IInv, [Next]_vars PROVE IInv'
  OBVIOUS
<1>t. TypeOK /\ TypeOK'
  BY StepTypes DEF IInv
<1>n. None \notin Servers
  BY PlacesAssumption DEF PlacesAssumption
<1>q. ASSUME UNCHANGED <<srv, owner, transfers, raced, strayed, overlooked, call>> PROVE IInv'
  <2>1. CallsKept
    BY <1>q DEF IInv, Elsewhere, CallsKept
  <2> QED
    BY <1>q, <1>t, <2>1, QuietStep
<1>c. ASSUME NEW h \in Handlers, NEW c, c.at \notin {"reserve", "switching"}, Becomes(h, c),
             UNCHANGED <<srv, owner, transfers, raced, strayed, overlooked>>
      PROVE  IInv'
  BY <1>c, <1>t, CallMoves, QuietStep DEF IInv
<1>1. ASSUME NEW h \in Handlers, NEW s \in Servers, NEW n \in Nodes, StartRead(h, s, n)
      PROVE IInv'
  <2>1. /\ call' = [call EXCEPT ![h] = [at |-> "reserve", server |-> s,
                                         from |-> srv[s].node, to |-> n]]
        /\ n # srv[s].node
    BY <1>1 DEF StartRead, Becomes
  <2>2. CallsKept
    BY <1>t, <2>1 DEF IInv, Elsewhere, TypeOK, CallsKept
  <2> QED
    BY <1>1, <1>t, <2>2, QuietStep DEF StartRead
<1>2. ASSUME NEW h \in Handlers, NEW t \in 1..MaxTransfers, ReportSuccess(h, t)
      PROVE IInv'
  BY <1>2, <1>c DEF ReportSuccess, Idle
<1>3. ASSUME NEW h \in Handlers, NEW t \in 1..MaxTransfers, NEW n \in Nodes, ReportFailure(h, t, n)
      PROVE IInv'
  BY <1>3, <1>c DEF ReportFailure
<1>4. ASSUME NEW h \in Handlers, NEW t \in 1..MaxTransfers, Sweep(h, t)
      PROVE IInv'
  BY <1>4, <1>c DEF Sweep
<1>5. ASSUME NEW s \in Servers, Claim(s) PROVE IInv'
  <2>1. PICK p \in Ports :
          /\ owner[p] = None /\ NodeOf[p] = srv[s].node
          /\ owner' = [owner EXCEPT ![p] = s]
          /\ overlooked' = IF Switching(s) THEN overlooked \cup {p} ELSE overlooked \ {p}
    BY <1>5 DEF Claim, FreePorts
  <2>2. \A z \in Servers, q \in Ports :
          /\ owner'[q] = z => owner[q] = z \/ NodeOf[q] = srv[z].node
          /\ owner[q] = z => owner'[q] = z
    BY <1>t, <1>n, <2>1 DEF TypeOK
  <2>3. CallsKept
    BY <1>5 DEF Claim, IInv, Elsewhere, CallsKept
  <2>4. \A z \in Servers : srv[z].primary \in Ports
    BY <1>t DEF TypeOK
  <2>5. /\ overlooked \ {p} \subseteq overlooked'
        /\ Switching(s) => p \in overlooked'
        /\ owner[p] = None /\ owner'[p] = s /\ NodeOf[p] = srv[s].node
        /\ \A q \in Ports \ {p} : owner'[q] = owner[q]
    BY <1>t, <2>1 DEF TypeOK
  <2>7. Midway'
    <3> SUFFICES ASSUME NEW g \in Handlers, call[g].at = "switching"
                 PROVE  LET u == call[g].row
                            z == transfers[u].server
                        IN  /\ transfers[u].state = "running"
                            /\ \A q \in call[g].freed : owner'[q] = owner[q]
                            /\ \A q \in Ports : owner'[q] = z =>
                                 q \in overlooked' \/ (owner[q] = z /\ q \notin overlooked)
                            /\ owner[call[g].arrival] = z => owner'[call[g].arrival] = z
      BY <1>5, <1>t, <2>3, MidwayStep DEF IInv, Claim
    <3> DEFINE u == call[g].row
               z == transfers[u].server
    <3>1. /\ z \in Servers /\ transfers[u].state = "running"
          /\ call[g].arrival \in Ports /\ call[g].freed \subseteq Ports
          /\ \A q \in call[g].freed : owner[q] = z
      BY <1>t, RowAt, CallFields DEF IInv, TypeOK, Midway
    <3>2. z = s => Switching(s)
      BY DEF Switching
    <3>3. \A q \in Ports : owner[q] = z => q # p
      BY <1>n, <2>5, <3>1
    <3> QED
      BY <2>5, <3>1, <3>2, <3>3
  <2>8. \A z \in Servers, q \in Ports :
          owner'[q] = z /\ q \in overlooked \ overlooked' => NodeOf[q] = srv[z].node
    BY <1>n, <2>5
  <2> QED
    BY <1>5, <1>t, <2>2, <2>3, <2>4, <2>7, <2>8, DirectKeeps DEF Claim
<1>6. ASSUME NEW h \in Handlers, NEW p \in Ports, PrimaryCheck(h, p) PROVE IInv'
  BY <1>6, <1>c DEF PrimaryCheck
<1>7. ASSUME NEW h \in Handlers, NEW p \in Ports, ReleaseCheck(h, p) PROVE IInv'
  BY <1>7, <1>c DEF ReleaseCheck
<1>8. ASSUME NEW h \in Handlers, Continue(h) PROVE IInv'
  <2> DEFINE c == call[h]
  <2>a. c \in Call
    BY <1>t DEF TypeOK
  <2>1. CASE StartReserve(h)
    BY <1>t, <2>1, ReserveKeeps
  <2>2. CASE StartNoPort(h)
    BY <1>c, <2>2 DEF StartNoPort, Idle
  <2>3. CASE StartOrdered(h)
    <3>1. Becomes(h, Idle) \/ Becomes(h, [at |-> "undo", row |-> c.row])
      BY <2>3 DEF StartOrdered, Becomes
    <3> QED
      BY <1>c, <2>3, <3>1 DEF StartOrdered, Idle
  <2>4. CASE StartRefused(h)
    BY <1>c, <2>4 DEF StartRefused
  <2>5. CASE Pending(h)
    <3>1. \/ Becomes(h, Idle)
          \/ \E t \in DOMAIN transfers : \/ Becomes(h, [at |-> "switch", row |-> t])
                                         \/ Becomes(h, [at |-> "undo", row |-> t])
      BY <2>5 DEF Pending
    <3> QED
      BY <1>c, <2>5, <3>1 DEF Pending, Idle
  <2>6. CASE SwitchFrees(h)
    BY <1>t, <2>6, FreesKeeps
  <2>11. CASE SwitchCommits(h)
    BY <1>t, <2>11, CommitsKeeps
  <2>7. CASE Delete(h)
    BY <1>c, <2>7 DEF Delete, Idle
  <2>8. CASE Rollback(h)
    BY <1>t, <2>8, RollbackKeeps
  <2>9. CASE SetPrimary(h)
    <3>1. c.server \in Servers /\ c.port \in Ports
      BY <2>9, <2>a, CallFields DEF SetPrimary
    <3>2. srv' = [srv EXCEPT ![c.server].primary = c.port]
      BY <2>9 DEF SetPrimary
    <3>3. /\ srv'[c.server].node = srv[c.server].node /\ srv'[c.server].primary = c.port
          /\ srv'[c.server].state = srv[c.server].state
          /\ \A z \in Servers : z # c.server => srv'[z] = srv[z]
      BY <1>t, <3>1, <3>2, SrvStep, SrvTyped
    <3>4. /\ \A z \in Servers : z # c.server => strayed'[z] = strayed[z]
          /\ ~strayed'[c.server] => /\ ~strayed[c.server]
                                    /\ owner[c.port] = c.server
                                    /\ NodeOf[c.port] = srv[c.server].node
      BY <1>t, <2>9, <3>1 DEF SetPrimary, TypeOK
    <3>5. CallsKept
      BY <1>t, <2>9, CallMoves DEF IInv, SetPrimary, Idle
    <3>6. /\ owner' = owner /\ transfers' = transfers /\ raced' = raced
          /\ overlooked' = overlooked
      BY <2>9 DEF SetPrimary
    <3>7. Midway'
      <4>1. \A z \in Servers : strayed[z] => strayed'[z]
        BY <1>t, <2>9, <3>1 DEF SetPrimary, TypeOK
      <4>2. \A g \in Handlers : call[g].at = "switching" =>
              /\ transfers[call[g].row].server \in Servers
              /\ transfers[call[g].row].state = "running"
        BY <1>t, RowAt DEF IInv, TypeOK, Midway
      <4> QED
        BY <1>t, <3>5, <3>6, <4>1, <4>2, MidwayStep DEF IInv
    <3> QED
      BY <1>t, <3>3, <3>4, <3>5, <3>6, <3>7, DirectKeeps
  <2>10. CASE Release(h)
    <3>1. c.server \in Servers /\ c.port \in Ports
      BY <2>10, <2>a, CallFields DEF Release
    <3>2. CallsKept
      BY <1>t, <2>10, CallMoves DEF IInv, Release, Idle
    <3>3. srv' = srv /\ transfers' = transfers /\ raced' = raced
      BY <2>10 DEF Release
    <3>4. CASE owner[c.port] = c.server
      <4>1. owner' = [owner EXCEPT ![c.port] = None]
        BY <2>10, <3>4 DEF Release
      <4>2. /\ \A z \in Servers : z # c.server => strayed'[z] = strayed[z]
            /\ ~strayed'[c.server] => /\ ~strayed[c.server]
                                      /\ srv[c.server].primary # c.port
        BY <1>t, <2>10, <3>1, <3>4 DEF Release, TypeOK
      <4>3. \A z \in Servers, q \in Ports :
              /\ owner'[q] = z => owner[q] = z
              /\ owner[q] = z /\ q # c.port => owner'[q] = z
        BY <1>t, <1>n, <3>1, <4>1 DEF TypeOK
      <4>4. \A z \in Servers : /\ srv[z].primary \in Ports
                               /\ z # c.server /\ owner[srv[z].primary] = z
                                    => srv[z].primary # c.port
        BY <1>t, <3>4 DEF TypeOK
      <4>5. overlooked' = overlooked \ {c.port} /\ owner'[c.port] = None
        BY <1>t, <2>10, <3>1, <3>4, <4>1 DEF Release, TypeOK
      <4>6. Midway'
        <5> SUFFICES ASSUME NEW g \in Handlers, call[g].at = "switching"
                     PROVE  LET u == call[g].row
                                z == transfers[u].server
                            IN  /\ transfers[u].state = "running"
                                /\ \A q \in call[g].freed : owner'[q] = owner[q]
                                /\ \A q \in Ports : owner'[q] = z =>
                                     q \in overlooked' \/ (owner[q] = z /\ q \notin overlooked)
                                /\ ~strayed'[z] =>
                                     ~strayed[z] /\ (owner[call[g].arrival] = z
                                                       => owner'[call[g].arrival] = z)
          BY <1>t, <3>2, <3>3, MidwayStep DEF IInv
        <5> DEFINE u == call[g].row
                   z == transfers[u].server
        <5>1. /\ z \in Servers /\ transfers[u].state = "running"
              /\ call[g].arrival \in Ports /\ call[g].freed \subseteq Ports
          BY <1>t, RowAt, CallFields DEF IInv, TypeOK, Midway
        <5>2. c.port \notin call[g].freed
          BY <2>10 DEF Release, PortHeld
        <5>3. call[g].arrival = c.port => strayed'[c.server]
          BY <1>t, <2>10, <3>1, <3>4 DEF Release, TypeOK
        <5>4. \A q \in Ports \ {c.port} : owner'[q] = owner[q]
          BY <1>t, <4>1 DEF TypeOK
        <5> QED
          BY <1>n, <3>4, <4>2, <4>5, <5>1, <5>2, <5>3, <5>4
      <4>7. \A z \in Servers, q \in Ports :
              owner'[q] = z /\ q \in overlooked \ overlooked' => NodeOf[q] = srv[z].node
        BY <1>n, <4>5
      <4> QED
        BY <1>t, <3>2, <3>3, <4>2, <4>3, <4>4, <4>6, <4>7, DirectKeeps
    <3>5. CASE owner[c.port] # c.server
      BY <1>c, <2>10, <3>5 DEF Release, Idle
    <3> QED
      BY <3>4, <3>5
  <2> QED
    BY <1>8, <2>1, <2>2, <2>3, <2>4, <2>5, <2>6, <2>7, <2>8, <2>9, <2>10, <2>11 DEF Continue
<1>9. ASSUME NEW t \in 1..MaxTransfers, JobLost(t) PROVE IInv'
  BY <1>9, <1>q DEF JobLost
<1>10. ASSUME NEW t \in 1..MaxTransfers, Age(t) PROVE IInv'
  BY <1>10, <1>t, AgeKeeps
<1>11. ASSUME NEW s \in Servers, NEW b \in BOOLEAN, SetSuspended(s, b) PROVE IInv'
  <2>1. PICK v \in {"suspended", "none"} : srv' = [srv EXCEPT ![s].state = v]
    BY <1>11 DEF SetSuspended
  <2>2. v \in Managed /\ v # "transferring"
    BY DEF Managed
  <2>3. /\ srv'[s].node = srv[s].node /\ srv'[s].primary = srv[s].primary
        /\ srv'[s].state # "transferring"
        /\ \A z \in Servers : z # s => srv'[z] = srv[z]
    BY <1>t, <2>1, <2>2, SrvStep, SrvTyped
  <2>4. CallsKept
    BY <1>11 DEF SetSuspended, IInv, Elsewhere, CallsKept
  <2>5. Midway'
    BY <1>11, <1>t, <2>4, MidwayStep DEF SetSuspended, IInv, Midway
  <2> QED
    BY <1>11, <1>t, <2>3, <2>4, <2>5, DirectKeeps DEF SetSuspended
<1>12. CASE Crash
  <2>1. CallsKept
    BY <1>12 DEF Crash, Idle, CallsKept
  <2> QED
    BY <1>12, <1>t, <2>1, QuietStep DEF Crash
<1>13. CASE UNCHANGED vars
  BY <1>13, <1>q DEF vars
<1> QED
  BY <1>1, <1>2, <1>3, <1>4, <1>5, <1>6, <1>7, <1>8, <1>9, <1>10, <1>11, <1>12, <1>13 DEF Next

\* The inductive invariant holds of every behaviour of the panel.
THEOREM Inductive == Spec => []IInv
  BY InitInv, StepInv, PTL DEF Spec

\* A server marked as moving can still be released: a running row backs its lock,
\* whatever start, complete, rollback and the administration do together.
THEOREM LockIsBacked == Spec => []LockBacked
  BY Inductive, PTL DEF IInv

\* Until a reservation is made on a stale check, no port of a server is forgotten.
THEOREM PortsAreAccounted == Spec => []PortsAccounted
  BY Inductive, PTL DEF IInv

\* Until then, and unless the client moves it away, the server keeps its address,
\* whoever wins between the report of the daemon and the sweep.
THEOREM AddressIsKept == Spec => []AddressKept
  BY Inductive, PTL DEF IInv

\* A report, the sweep or a refused order that comes second finds the row
\* concluded and leaves it as it is: no transfer is concluded twice.
THEOREM Concluded == Spec => OneOutcome
<1> DEFINE Step == \A t \in DOMAIN transfers :
                     transfers[t].state # "running" => transfers'[t] = transfers[t]
<1>1. IInv /\ [Next]_vars => Step
  <2> SUFFICES ASSUME IInv, [Next]_vars,
                      NEW u \in DOMAIN transfers, transfers[u].state # "running"
               PROVE  transfers'[u] = transfers[u]
    OBVIOUS
  <2>1. ASSUME NEW h \in Handlers, StartReserve(h) PROVE transfers'[u] = transfers[u]
    BY <2>1, ReserveRow DEF IInv
  <2>2. ASSUME NEW h \in Handlers, SwitchCommits(h) PROVE transfers'[u] = transfers[u]
    <3>1. /\ call[h].row \in DOMAIN transfers /\ transfers[call[h].row].state = "running"
          /\ transfers' = [transfers EXCEPT ![call[h].row].state = "completed"]
      BY <2>2 DEF SwitchCommits, IInv, TypeOK, Midway
    <3> QED
      BY <3>1, CloseRow DEF IInv
  <2>3. ASSUME NEW h \in Handlers, Rollback(h) PROVE transfers'[u] = transfers[u]
    <3>1. CASE transfers' = transfers
      BY <3>1
    <3>2. CASE /\ LockRunning(call[h].row)
               /\ transfers' = [transfers EXCEPT ![call[h].row].state = "failed"]
      <4>1. call[h].row \in DOMAIN transfers
        BY <2>3 DEF Rollback, IInv, TypeOK
      <4> QED
        BY <3>2, <4>1, CloseRow DEF LockRunning, IInv
    <3> QED
      BY <2>3, <3>1, <3>2 DEF Rollback
  <2>4. ASSUME NEW t \in 1..MaxTransfers, Age(t) PROVE transfers'[u] = transfers[u]
    BY <2>4, AgeRow DEF IInv
  <2>5. CASE UNCHANGED transfers
    BY <2>5
  <2> QED
    BY <2>1, <2>2, <2>3, <2>4, <2>5
    DEF Next, Continue, vars, StartRead, ReportSuccess, ReportFailure, Sweep, Claim,
        PrimaryCheck, ReleaseCheck, StartNoPort, StartOrdered, StartRefused, Pending,
        SwitchFrees, Delete, SetPrimary, Release, JobLost, SetSuspended, Crash
<1>2. IInv /\ [Next]_vars => [Step]_vars
  BY <1>1
<1>3. Spec => [][Step]_vars
  BY <1>2, Inductive, PTL DEF Spec
<1> QED
  BY <1>3 DEF OneOutcome
=============================================================================
