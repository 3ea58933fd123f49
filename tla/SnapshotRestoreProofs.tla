------------------------ MODULE SnapshotRestoreProofs ------------------------
(***************************************************************************)
(* What holds of a restoration for any number of requests in progress, of  *)
(* orders and of restarts.  The inductive invariant is IInv: typing, who   *)
(* is accounted for, and Sound, which relates the lock to its one holder,  *)
(* the holder's order to a stopped server, and the agent's round to orders *)
(* that are still pending.  Sound is lost with the first excuse.           *)
(***************************************************************************)
EXTENDS SnapshotRestore, TLAPS

Holding == {"claimed", "backup"}

\* The agent copies an order whose beginning it has recorded.
Placed ==
  /\ agent.copying \in {0} \cup Orders /\ agent.results \subseteq Orders
  /\ agent.copying # 0 => journal[agent.copying].state = "begun"

\* One restoration at a time: an open order, a claim, or the daemon's own.
Alone ==
  /\ \A o, u \in DOMAIN orders : Open(o) /\ Open(u) => o = u
  /\ \A h, g \in Handlers : call[h].at \in Holding /\ call[g].at \in Holding => h = g
  /\ \A o \in DOMAIN orders, h \in Handlers : ~(Open(o) /\ call[h].at \in Holding)
  /\ backup => /\ \A o \in DOMAIN orders : ~Open(o)
               /\ \A h \in Handlers : call[h].at \notin Holding

\* Under it the server is not free.
Locked == Busy => state # "none"

\* An order handed to the agent, or about to be, finds the server stopped.
Halted ==
  /\ \A o \in DOMAIN orders : orders[o].state = "pending" => ~running
  /\ \A h \in Handlers :
       call[h].at = "send" /\ orders[call[h].order].state = "waiting" => ~running

\* What the agent has left to do, or is doing, has not been closed.
Handed ==
  /\ \A o \in agent.todo : orders[o].state = "pending"
  /\ agent.copying # 0 => orders[agent.copying].state = "pending"

Sound == Alone /\ Locked /\ Halted /\ Handed

IInv == TypeOK /\ Placed /\ LockAccounted /\ (~excused => Sound)

-----------------------------------------------------------------------------
(* Typing. *)

LEMMA CallFields ==
  ASSUME NEW c \in Call
  PROVE  /\ c.at \in {"idle", "start", "claimed", "backup", "follow", "send"}
         /\ c.at \in {"follow", "send"} => c.order \in Nat
  BY DEF Call, Idle

LEMMA NewCalls ==
  /\ Idle \in Call /\ Idle.at = "idle"
  /\ \A at \in {"start", "claimed", "backup"} : [at |-> at] \in Call
  /\ \A at \in {"follow", "send"}, o \in Nat : [at |-> at, order |-> o] \in Call
  BY DEF Call, Idle

LEMMA CallStep ==
  ASSUME TypeOK, NEW h \in Handlers, NEW c \in Call, Becomes(h, c),
         c.at \in {"follow", "send"} => c.order \in DOMAIN orders',
         DOMAIN orders \subseteq DOMAIN orders'
  PROVE  /\ call' \in [Handlers -> Call] /\ call'[h] = c
         /\ \A g \in Handlers : g # h => call'[g] = call[g]
         /\ \A g \in Handlers :
              call'[g].at \in {"follow", "send"} => call'[g].order \in DOMAIN orders'
<1>1. call \in [Handlers -> Call] /\ call' = [call EXCEPT ![h] = c]
  BY DEF TypeOK, Becomes
<1>2. /\ call' \in [Handlers -> Call] /\ call'[h] = c
      /\ \A g \in Handlers : g # h => call'[g] = call[g]
  BY <1>1
<1>3. \A g \in Handlers : call[g].at \in {"follow", "send"} => call[g].order \in DOMAIN orders
  BY DEF TypeOK
<1> QED
  BY <1>2, <1>3

\* Rows: each is an order, and rewriting them one by one keeps their number.
LEMMA RowFields ==
  ASSUME NEW x \in Order
  PROVE  /\ x.state \in {"waiting", "pending", "done", "failed"} /\ x.age \in 0..2
         /\ x.safety \in Content
  BY DEF Order

LEMMA RowsRewritten ==
  ASSUME NEW rows \in Seq(Order), NEW r, r = [o \in DOMAIN rows |-> r[o]],
         \A o \in DOMAIN rows : r[o] \in Order
  PROVE  r \in Seq(Order) /\ DOMAIN r = DOMAIN rows
<1>1. Len(rows) \in Nat /\ DOMAIN rows = 1..Len(rows)
  OBVIOUS
<1>2. r \in [1..Len(rows) -> Order]
  BY <1>1
<1> QED
  BY <1>1, <1>2

LEMMA RowStep ==
  ASSUME NEW rows \in Seq(Order), NEW t \in DOMAIN rows, NEW x \in Order
  PROVE  LET r == [rows EXCEPT ![t] = x]
         IN  /\ r \in Seq(Order) /\ DOMAIN r = DOMAIN rows /\ r[t] = x
             /\ \A u \in DOMAIN rows : u # t => r[u] = rows[u]
<1>1. rows \in [1..Len(rows) -> Order] /\ Len(rows) \in Nat /\ DOMAIN rows = 1..Len(rows)
  OBVIOUS
<1> QED
  BY <1>1

LEMMA RowAt ==
  ASSUME TypeOK, NEW o \in DOMAIN orders
  PROVE  /\ orders[o] \in Order /\ o \in Nat /\ o # 0
         /\ orders[o].state \in {"waiting", "pending", "done", "failed"}
<1>1. orders[o] \in Order /\ o \in Nat /\ o # 0
  BY DEF TypeOK
<1> QED
  BY <1>1, RowFields

LEMMA ClosedRow ==
  ASSUME TypeOK, NEW o \in DOMAIN orders, NEW outcome \in {"done", "failed"}
  PROVE  /\ Closed(o, outcome) \in Order /\ Closed(o, outcome).state = outcome
         /\ \A kept \in Content :
              /\ [Closed(o, outcome) EXCEPT !.safety = kept] \in Order
              /\ [Closed(o, outcome) EXCEPT !.safety = kept].state = outcome
<1>1. orders[o] \in Order
  BY RowAt
<1> DEFINE x == [orders[o] EXCEPT !.state = outcome]
<1>3. x \in Order /\ x.state = outcome
  BY <1>1 DEF Order
<1>4. Closed(o, outcome) = [x EXCEPT !.age = 0]
  BY DEF Closed
<1> HIDE DEF x
<1>5. 0 \in 0..2
  OBVIOUS
<1>2. Closed(o, outcome) \in Order /\ Closed(o, outcome).state = outcome
  BY <1>3, <1>4, <1>5 DEF Order
<1> HIDE DEF Closed
<1> QED
  BY <1>2 DEF Order

-----------------------------------------------------------------------------
(* What each step does to the orders. *)

\* An order waits, is sent, is closed; a closed one stays as it is.
Forward ==
  /\ orders' \in Seq(Order) /\ DOMAIN orders' = DOMAIN orders
  /\ \A o \in DOMAIN orders : ~Open(o) => orders'[o] = orders[o]

LEMMA SameRows ==
  ASSUME TypeOK, UNCHANGED orders
  PROVE  Forward
  BY DEF TypeOK, Forward

LEMMA SendRows ==
  ASSUME TypeOK, NEW h \in Handlers, FollowSend(h)
  PROVE  /\ Forward /\ call[h].order \in DOMAIN orders
         /\ \A o \in DOMAIN orders :
              orders'[o].state = IF o = call[h].order /\ orders[o].state = "waiting"
                                 THEN "pending" ELSE orders[o].state
<1> DEFINE o == call[h].order
           v == IF orders[o].state = "waiting" THEN "pending" ELSE orders[o].state
           x == [orders[o] EXCEPT !.state = v]
<1>1. o \in DOMAIN orders /\ orders \in Seq(Order)
  BY DEF TypeOK, FollowSend
<1>2. orders[o] \in Order
  BY <1>1, RowAt
<1>3. x \in Order /\ x.state = v /\ (v = orders[o].state => x = orders[o])
  BY <1>2 DEF Order
<1>4. orders' = [orders EXCEPT ![o] = x]
  BY <1>1 DEF FollowSend
<1> HIDE DEF x
<1>5. /\ orders' \in Seq(Order) /\ DOMAIN orders' = DOMAIN orders /\ orders'[o] = x
      /\ \A u \in DOMAIN orders : u # o => orders'[u] = orders[u]
  BY <1>1, <1>3, <1>4, RowStep
<1> QED
  BY <1>1, <1>3, <1>5 DEF Forward, Open

LEMMA GiveUpRows ==
  ASSUME TypeOK, NEW h \in Handlers, FollowGivesUp(h)
  PROVE  /\ Forward
         /\ \/ orders' = orders /\ Hold
            \/ /\ Release
               /\ \E o \in DOMAIN orders :
                    /\ orders[o].state = "waiting" /\ orders'[o].state = "failed"
                    /\ \A u \in DOMAIN orders : u # o => orders'[u] = orders[u]
<1> DEFINE o == call[h].order
<1>1. o \in DOMAIN orders /\ orders \in Seq(Order)
  BY DEF TypeOK, FollowGivesUp
<1>2. CASE orders[o].state = "waiting"
  <2>1. orders' = [orders EXCEPT ![o] = Closed(o, "failed")] /\ Release
    BY <1>2 DEF FollowGivesUp
  <2>2. Closed(o, "failed") \in Order /\ Closed(o, "failed").state = "failed"
    BY <1>1, ClosedRow
  <2>3. /\ orders' \in Seq(Order) /\ DOMAIN orders' = DOMAIN orders
        /\ orders'[o] = Closed(o, "failed")
        /\ \A u \in DOMAIN orders : u # o => orders'[u] = orders[u]
    BY <1>1, <2>1, <2>2, RowStep
  <2> QED
    BY <1>1, <1>2, <2>1, <2>2, <2>3 DEF Forward, Open
<1>3. CASE orders[o].state # "waiting"
  BY <1>3, SameRows DEF FollowGivesUp
<1> QED
  BY <1>2, <1>3

LEMMA AgeRows ==
  ASSUME TypeOK, NEW o, Age(o)
  PROVE  /\ Forward
         /\ \A u \in DOMAIN orders : orders'[u].state = orders[u].state
<1> DEFINE x == [orders[o] EXCEPT !.age = orders[o].age + 1]
<1>1. o \in DOMAIN orders /\ orders \in Seq(Order) /\ orders[o] \in Order
  BY RowAt DEF TypeOK, Age
<1>2. orders[o].age + 1 \in 0..2
  BY <1>1, RowFields DEF Age
<1>3. x \in Order /\ x.state = orders[o].state
  BY <1>1, <1>2 DEF Order
<1>4. orders' = [orders EXCEPT ![o] = x]
  BY <1>1 DEF Age
<1> HIDE DEF x
<1>5. /\ orders' \in Seq(Order) /\ DOMAIN orders' = DOMAIN orders /\ orders'[o] = x
      /\ \A u \in DOMAIN orders : u # o => orders'[u] = orders[u]
  BY <1>1, <1>3, <1>4, RowStep
<1>6. Open(o)
  BY DEF Age
<1> QED
  BY <1>3, <1>5, <1>6 DEF Forward

LEMMA ExpireRows ==
  ASSUME TypeOK, ExpireOrders
  PROVE  /\ Forward
         /\ \A o \in DOMAIN orders :
              orders'[o].state = IF Expired(o) THEN "failed" ELSE orders[o].state
         /\ \A o \in DOMAIN orders : Expired(o) => Open(o)
<1>1. orders' = [o \in DOMAIN orders |->
                   IF Expired(o) THEN Closed(o, "failed") ELSE orders[o]]
  BY DEF ExpireOrders
<1>2. \A o \in DOMAIN orders :
        /\ Closed(o, "failed") \in Order /\ Closed(o, "failed").state = "failed"
        /\ orders[o] \in Order
  BY RowAt, ClosedRow
<1>3. \A o \in DOMAIN orders : orders'[o] \in Order
  BY <1>1, <1>2
<1>4. orders' \in Seq(Order) /\ DOMAIN orders' = DOMAIN orders
  <2>1. orders' = [o \in DOMAIN orders |-> orders'[o]] /\ orders \in Seq(Order)
    BY <1>1 DEF TypeOK
  <2> QED
    BY <1>3, <2>1, RowsRewritten
<1>5. \A o \in DOMAIN orders : Expired(o) => Open(o)
  BY DEF Expired, Open
<1> QED
  BY <1>1, <1>2, <1>4, <1>5 DEF Forward

\* The orders a report closes.
Reported == {o \in agent.results : orders[o].state = "pending"}

LEMMA ReportRows ==
  ASSUME TypeOK, Placed, Report
  PROVE  /\ Forward /\ Reported \subseteq DOMAIN orders
         /\ IF Reported # {} THEN Release ELSE Hold
         /\ \A o \in DOMAIN orders :
              IF o \in Reported THEN Open(o) /\ orders'[o].state \in {"done", "failed"}
                                ELSE orders'[o] = orders[o]
<1> DEFINE outcome(o) == IF journal[o].state = "succeeded" THEN "done" ELSE "failed"
           row(o) == [Closed(o, outcome(o)) EXCEPT !.safety = journal[o].safety]
<1>1. /\ orders' = [o \in DOMAIN orders |-> IF o \in Reported THEN row(o) ELSE orders[o]]
      /\ IF Reported # {} THEN Release ELSE Hold
  BY DEF Report, Reported
<1>2. Reported \subseteq DOMAIN orders /\ Reported \subseteq Orders
  BY DEF Reported, TypeOK, Placed
<1>3. \A o \in Reported : row(o) \in Order /\ row(o).state \in {"done", "failed"} /\ Open(o)
  <2> TAKE o \in Reported
  <2>1. journal[o] \in Entry
    BY <1>2 DEF TypeOK
  <2>2. journal[o].safety \in Content /\ outcome(o) \in {"done", "failed"}
    BY <2>1 DEF Entry
  <2>3. o \in DOMAIN orders
    BY <1>2
  <2>4. row(o) \in Order /\ row(o).state = outcome(o)
    BY <2>2, <2>3, ClosedRow
  <2> QED
    BY <2>2, <2>4 DEF Reported, Open
<1> HIDE DEF row
<1>4. \A o \in DOMAIN orders : orders'[o] \in Order
  BY <1>1, <1>3, RowAt
<1>5. orders' \in Seq(Order) /\ DOMAIN orders' = DOMAIN orders
  <2>1. orders' = [o \in DOMAIN orders |-> orders'[o]] /\ orders \in Seq(Order)
    BY <1>1 DEF TypeOK
  <2> QED
    BY <1>4, <2>1, RowsRewritten
<1> QED
  BY <1>1, <1>2, <1>3, <1>5 DEF Forward

LEMMA InsertRows ==
  ASSUME TypeOK, NEW h \in Handlers, RestoreInsert(h)
  PROVE  LET n == Len(orders) + 1
         IN  /\ orders' \in Seq(Order) /\ n \in Nat
             /\ n \in DOMAIN orders' /\ n \notin DOMAIN orders
             /\ DOMAIN orders' = DOMAIN orders \cup {n}
             /\ orders'[n].state = "waiting"
             /\ \A o \in DOMAIN orders : orders'[o] = orders[o]
             /\ Becomes(h, [at |-> "follow", order |-> n])
<1> DEFINE x == [state |-> "waiting", age |-> 0, safety |-> "nothing"]
<1>1. x \in Order
  BY DEF Order, Content
<1>2. orders' = Append(orders, x) /\ orders \in Seq(Order)
  BY DEF RestoreInsert, TypeOK
<1>3. x.state = "waiting"
  OBVIOUS
<1> HIDE DEF x
<1>4. /\ orders' \in Seq(Order) /\ Len(orders) \in Nat
      /\ DOMAIN orders = 1..Len(orders) /\ DOMAIN orders' = 1..(Len(orders) + 1)
      /\ orders'[Len(orders) + 1] = x
      /\ \A u \in DOMAIN orders : orders'[u] = orders[u]
  BY <1>1, <1>2
<1> QED
  BY <1>3, <1>4 DEF RestoreInsert

-----------------------------------------------------------------------------
(* Typing, and the agent's place in its journal. *)

CallsTyped ==
  /\ call \in [Handlers -> Call]
  /\ \A g \in Handlers : call[g].at \in {"follow", "send"} => call[g].order \in DOMAIN orders

LEMMA LockTyped ==
  ASSUME TypeOK, Release \/ Hold
  PROVE  state' \in {"none", "restoring", "suspended"} /\ overdue' \in BOOLEAN
  BY DEF TypeOK, Release, Hold

\* The requests, the server, the sweeps: nothing of the orders nor of the agent changes.
LEMMA OutsideTyped ==
  ASSUME TypeOK, Placed, UNCHANGED <<orders, folder, journal, agent>>,
         state' \in {"none", "restoring", "suspended"}, overdue' \in BOOLEAN,
         running' \in BOOLEAN, backup' \in BOOLEAN, echo' \in {"none", "first", "again"},
         faults' \in 0..MaxFaults,
         excused' \in BOOLEAN, orphan' \in BOOLEAN,
         \/ call' = call
         \/ call' = [h \in Handlers |-> Idle]
         \/ \E h \in Handlers, c \in Call :
              /\ Becomes(h, c)
              /\ c.at \in {"follow", "send"} => c.order \in DOMAIN orders
  PROVE  TypeOK' /\ Placed'
<1>1. CallsTyped'
  <2>1. CASE call' = call
    BY <2>1 DEF TypeOK, CallsTyped
  <2>2. CASE call' = [h \in Handlers |-> Idle]
    BY <2>2, NewCalls DEF CallsTyped
  <2>3. ASSUME NEW h \in Handlers, NEW c \in Call, Becomes(h, c),
               c.at \in {"follow", "send"} => c.order \in DOMAIN orders
        PROVE  CallsTyped'
    BY <2>3, CallStep DEF CallsTyped
  <2> QED
    BY <2>1, <2>2, <2>3
<1>2. /\ agent' \in [todo: SUBSET DOMAIN orders', copying: {0} \cup DOMAIN orders',
                     results: SUBSET DOMAIN orders']
      /\ journal' \in [Orders -> Entry] /\ orders' \in Seq(Order) /\ folder' \in {"whole", "half"}
  BY DEF TypeOK
<1>3. Placed'
  BY DEF Placed
<1> QED
  BY <1>1, <1>2, <1>3 DEF TypeOK, CallsTyped

\* The rows move on.
LEMMA RowsTyped ==
  ASSUME TypeOK, Placed, orders' \in Seq(Order), DOMAIN orders \subseteq DOMAIN orders',
         UNCHANGED <<running, backup, echo, folder, journal, faults, orphan>>,
         Release \/ Hold, excused' \in BOOLEAN,
         \/ call' = call
         \/ \E h \in Handlers, c \in Call :
              /\ Becomes(h, c)
              /\ c.at \in {"follow", "send"} => c.order \in DOMAIN orders',
         \/ agent' = agent
         \/ agent' = Resting
         \/ /\ agent'.todo \subseteq DOMAIN orders
            /\ agent' = [todo |-> agent'.todo, copying |-> 0, results |-> {}]
  PROVE  TypeOK' /\ Placed'
<1>1. CallsTyped'
  <2>1. CASE call' = call
    BY <2>1 DEF TypeOK, CallsTyped
  <2>2. ASSUME NEW h \in Handlers, NEW c \in Call, Becomes(h, c),
               c.at \in {"follow", "send"} => c.order \in DOMAIN orders'
        PROVE  CallsTyped'
    BY <2>2, CallStep DEF CallsTyped
  <2> QED
    BY <2>1, <2>2
<1>2. /\ agent' \in [todo: SUBSET DOMAIN orders', copying: {0} \cup DOMAIN orders',
                     results: SUBSET DOMAIN orders']
      /\ Placed'
  <2>1. CASE agent' = agent
    BY <2>1 DEF TypeOK, Placed
  <2>2. CASE agent' = Resting
    BY <2>2 DEF Resting, Placed
  <2>3. CASE /\ agent'.todo \subseteq DOMAIN orders
             /\ agent' = [todo |-> agent'.todo, copying |-> 0, results |-> {}]
    <3> DEFINE todo == agent'.todo
    <3>1. /\ todo \subseteq DOMAIN orders
          /\ agent' = [todo |-> todo, copying |-> 0, results |-> {}]
      BY <2>3
    <3> HIDE DEF todo
    <3> QED
      BY <3>1 DEF Placed
  <2> QED
    BY <2>1, <2>2, <2>3
<1>3. /\ state' \in {"none", "restoring", "suspended"} /\ overdue' \in BOOLEAN
      /\ folder' \in {"whole", "half"} /\ running' \in BOOLEAN /\ backup' \in BOOLEAN
      /\ echo' \in {"none", "first", "again"}
      /\ journal' \in [Orders -> Entry] /\ faults' \in 0..MaxFaults /\ orphan' \in BOOLEAN
  BY LockTyped DEF TypeOK
<1> QED
  BY <1>1, <1>2, <1>3 DEF TypeOK, CallsTyped

\* The agent moves on, by one order.
LEMMA RoundTyped ==
  ASSUME TypeOK, Placed, UNCHANGED <<state, overdue, orders, call, running, backup, echo, orphan>>,
         folder' \in {"whole", "half"}, journal' \in [Orders -> Entry],
         faults' \in 0..MaxFaults, UNCHANGED excused,
         NEW todo \in SUBSET DOMAIN orders, NEW copying \in {0} \cup DOMAIN orders,
         NEW results \in SUBSET DOMAIN orders,
         agent' = [todo |-> todo, copying |-> copying, results |-> results],
         copying \in {0} \cup Orders, results \subseteq Orders,
         copying # 0 => journal'[copying].state = "begun"
  PROVE  TypeOK' /\ Placed'
  BY DEF TypeOK, Placed

LEMMA EntryFields ==
  ASSUME NEW e \in Entry
  PROVE  /\ e.state \in {"unknown", "begun", "succeeded", "failed"}
         /\ e.before \in Content /\ e.safety \in Content
  BY DEF Entry

\* What the agent writes of one order.
LEMMA EntryStep ==
  ASSUME NEW j \in [Orders -> Entry], NEW o \in Orders,
         NEW v \in {"begun", "succeeded", "failed"}
  PROVE  /\ [j EXCEPT ![o].state = v] \in [Orders -> Entry]
         /\ [j EXCEPT ![o].state = v][o].state = v
         /\ [j EXCEPT ![o].state = v, ![o].safety = "nothing"] \in [Orders -> Entry]
         /\ \A u \in Orders : u # o =>
              /\ [j EXCEPT ![o].state = v][u] = j[u]
              /\ [j EXCEPT ![o].state = v, ![o].safety = "nothing"][u] = j[u]
<1>1. j[o] \in Entry
  OBVIOUS
<1> DEFINE e == [j[o] EXCEPT !.state = v]
           k == [j EXCEPT ![o] = e]
<1>2. e \in Entry /\ e.state = v
  BY <1>1 DEF Entry
<1>3. "nothing" \in Content
  BY DEF Content
<1>4. [e EXCEPT !.safety = "nothing"] \in Entry
  BY <1>2, <1>3 DEF Entry
<1>5. [j EXCEPT ![o].state = v] = k
  OBVIOUS
<1> HIDE DEF e
<1>6. k \in [Orders -> Entry] /\ k[o] = e /\ \A u \in Orders : u # o => k[u] = j[u]
  BY <1>2
<1>7. [j EXCEPT ![o].state = v, ![o].safety = "nothing"] = [k EXCEPT ![o] = [e EXCEPT !.safety = "nothing"]]
  BY <1>6 DEF e
<1> HIDE DEF k
<1>8. /\ [k EXCEPT ![o] = [e EXCEPT !.safety = "nothing"]] \in [Orders -> Entry]
      /\ \A u \in Orders : u # o => [k EXCEPT ![o] = [e EXCEPT !.safety = "nothing"]][u] = k[u]
  BY <1>4, <1>6
<1> QED
  BY <1>2, <1>5, <1>6, <1>7, <1>8

LEMMA AgentFields ==
  ASSUME TypeOK
  PROVE  /\ agent = [todo |-> agent.todo, copying |-> agent.copying, results |-> agent.results]
         /\ agent.todo \subseteq DOMAIN orders /\ agent.results \subseteq DOMAIN orders
         /\ agent.copying \in {0} \cup DOMAIN orders
  BY DEF TypeOK

\* Every step, one by one.
LEMMA PanelTyped ==
  ASSUME TypeOK, Placed, NEW h \in Handlers, Panel(h)
  PROVE  TypeOK' /\ Placed'
<1>0. /\ call \in [Handlers -> Call] /\ running \in BOOLEAN /\ backup \in BOOLEAN
      /\ echo \in {"none", "first", "again"}
      /\ excused \in BOOLEAN /\ orphan \in BOOLEAN /\ faults \in 0..MaxFaults
      /\ state \in {"none", "restoring", "suspended"} /\ overdue \in BOOLEAN
  BY DEF TypeOK
<1>1. ASSUME call[h].at \in {"follow", "send"}
      PROVE  /\ call[h].order \in DOMAIN orders
             /\ [at |-> "send", order |-> call[h].order] \in Call
  <2>1. call[h].order \in DOMAIN orders
    BY <1>1 DEF TypeOK
  <2>2. call[h].order \in Nat
    BY <2>1, RowAt
  <2> QED
    BY <2>1, <2>2, NewCalls
<1>2. CASE StartRead(h)
  BY <1>0, <1>2, NewCalls, OutsideTyped DEF StartRead
<1>3. CASE StartSend(h)
  <2>1. /\ UNCHANGED <<state, overdue, orders, backup, echo, folder, journal, agent, faults, orphan>>
        /\ Becomes(h, Idle) /\ running' \in BOOLEAN /\ excused' \in BOOLEAN
    BY <1>0, <1>3 DEF StartSend
  <2> QED
    BY <1>0, <2>1, NewCalls, OutsideTyped
<1>4. CASE RestoreClaim(h)
  BY <1>0, <1>4, NewCalls, OutsideTyped DEF RestoreClaim, Claim
<1>5. CASE RestoreInsert(h)
  <2>1. /\ UNCHANGED <<running, backup, echo, folder, journal, faults, orphan, agent, excused>>
        /\ Hold
    BY <1>5 DEF RestoreInsert, Hold
  <2> DEFINE c == [at |-> "follow", order |-> Len(orders) + 1]
  <2>2. /\ orders' \in Seq(Order) /\ DOMAIN orders \subseteq DOMAIN orders'
        /\ c \in Call /\ c.at = "follow" /\ c.order \in DOMAIN orders' /\ Becomes(h, c)
    BY <1>5, InsertRows, NewCalls
  <2> HIDE DEF c
  <2> QED
    BY <1>0, <2>1, <2>2, RowsTyped
<1>6. CASE FollowOffline(h)
  <2> DEFINE c == [at |-> "send", order |-> call[h].order]
  <2>1. c \in Call /\ c.order \in DOMAIN orders /\ Becomes(h, c)
    BY <1>1, <1>6 DEF FollowOffline
  <2> HIDE DEF c
  <2>2. UNCHANGED <<state, overdue, orders, running, backup, echo, folder, journal, agent, faults,
                    excused, orphan>>
    BY <1>6 DEF FollowOffline
  <2> QED
    BY <1>0, <2>1, <2>2, OutsideTyped
<1>7. CASE FollowSend(h)
  <2>1. /\ UNCHANGED <<running, backup, echo, folder, journal, faults, orphan, agent, excused>>
        /\ Hold /\ Becomes(h, Idle)
    BY <1>7 DEF FollowSend, Hold
  <2>2. orders' \in Seq(Order) /\ DOMAIN orders \subseteq DOMAIN orders'
    BY <1>7, SendRows DEF Forward
  <2> QED
    BY <1>0, <2>1, <2>2, NewCalls, RowsTyped
<1>8. CASE FollowGivesUp(h)
  <2>1. /\ UNCHANGED <<running, backup, echo, folder, journal, faults, orphan, agent, excused>>
        /\ Becomes(h, Idle)
    BY <1>8 DEF FollowGivesUp
  <2>2. /\ orders' \in Seq(Order) /\ DOMAIN orders \subseteq DOMAIN orders'
        /\ Release \/ Hold
    BY <1>8, GiveUpRows DEF Forward
  <2> QED
    BY <1>0, <2>1, <2>2, NewCalls, RowsTyped
<1>9. CASE BackupClaim(h)
  BY <1>0, <1>9, NewCalls, OutsideTyped DEF BackupClaim, Claim
<1>10. CASE BackupSend(h)
  <2>1. /\ UNCHANGED <<orders, running, echo, folder, journal, agent, faults, orphan>>
        /\ Becomes(h, Idle) /\ backup' \in BOOLEAN /\ excused' \in BOOLEAN
        /\ Release \/ Hold
    BY <1>0, <1>10 DEF BackupSend
  <2> QED
    BY <1>0, <2>1, LockTyped, NewCalls, OutsideTyped
<1>11. CASE BackupRefused(h)
  <2>1. /\ UNCHANGED <<orders, running, backup, echo, folder, journal, agent, faults, excused, orphan>>
        /\ Becomes(h, Idle) /\ Release
    BY <1>11 DEF BackupRefused
  <2> QED
    BY <1>0, <2>1, LockTyped, NewCalls, OutsideTyped
<1> QED
  BY <1>2, <1>3, <1>4, <1>5, <1>6, <1>7, <1>8, <1>9, <1>10, <1>11 DEF Panel

LEMMA AgentTyped ==
  ASSUME TypeOK, Placed,
         \/ \E o \in Orders : Execute(o)
         \/ CopyEnds \/ ReportLost \/ AgentHalts
  PROVE  TypeOK' /\ Placed'
<1>0. /\ journal \in [Orders -> Entry] /\ folder \in {"whole", "half"}
      /\ faults \in 0..MaxFaults
  BY DEF TypeOK
<1>1. /\ agent.todo \subseteq DOMAIN orders /\ agent.results \subseteq DOMAIN orders
      /\ agent.copying \in {0} \cup DOMAIN orders /\ agent.copying \in {0} \cup Orders
      /\ agent.results \subseteq Orders
      /\ agent = [todo |-> agent.todo, copying |-> agent.copying, results |-> agent.results]
  BY AgentFields DEF Placed
<1> DEFINE todo == agent.todo
           results == agent.results
<1>2. ASSUME NEW o \in Orders, Known(o)
      PROVE  TypeOK' /\ Placed'
  <2>1. /\ UNCHANGED <<state, overdue, orders, call, running, backup, echo, folder, journal,
                       faults, excused, orphan>>
        /\ agent.copying = 0 /\ o \in todo
        /\ agent' = [agent EXCEPT !.todo = @ \ {o}, !.results = @ \cup {o}]
    BY <1>2 DEF Known, IsNext
  <2>2. agent' = [todo |-> todo \ {o}, copying |-> 0, results |-> results \cup {o}]
    BY <1>1, <2>1
  <2> HIDE DEF todo, results
  <2>3. /\ todo \ {o} \in SUBSET DOMAIN orders /\ results \cup {o} \in SUBSET DOMAIN orders
        /\ results \cup {o} \subseteq Orders
    BY <1>1, <1>2, <2>1 DEF todo, results
  <2> QED
    BY <1>0, <2>1, <2>2, <2>3, RoundTyped
<1>3. ASSUME NEW o \in Orders, Begin(o)
      PROVE  TypeOK' /\ Placed'
  <2> DEFINE e == [state |-> "begun", safety |-> folder,
                   before |-> IF journal[o].state = "unknown" THEN folder ELSE journal[o].before]
  <2>1. /\ UNCHANGED <<state, overdue, orders, call, running, backup, echo, faults, excused, orphan>>
        /\ folder' = "half" /\ o \in todo
        /\ journal' = [journal EXCEPT ![o] = e]
        /\ agent' = [agent EXCEPT !.todo = @ \ {o}, !.copying = o]
    BY <1>3 DEF Begin, IsNext
  <2>2. e \in Entry /\ e.state = "begun"
    <3>1. journal[o] \in Entry
      BY <1>0
    <3> QED
      BY <1>0, <3>1, EntryFields DEF Entry, Content
  <2> HIDE DEF e
  <2>3. journal' \in [Orders -> Entry] /\ journal'[o].state = "begun"
    BY <1>0, <2>1, <2>2
  <2>4. agent' = [todo |-> todo \ {o}, copying |-> o, results |-> results]
    BY <1>1, <2>1
  <2> HIDE DEF todo, results
  <2>5. /\ todo \ {o} \in SUBSET DOMAIN orders /\ results \in SUBSET DOMAIN orders
        /\ results \subseteq Orders /\ o \in {0} \cup Orders /\ o \in {0} \cup DOMAIN orders
    BY <1>1, <1>3, <2>1 DEF todo, results
  <2> QED
    BY <1>0, <2>1, <2>3, <2>4, <2>5, RoundTyped
<1>4. ASSUME NEW o \in Orders, BeginFails(o)
      PROVE  TypeOK' /\ Placed'
  <2>1. /\ UNCHANGED <<state, overdue, orders, call, running, backup, echo, folder, faults,
                       excused, orphan>>
        /\ agent.copying = 0 /\ o \in todo
        /\ journal' = [journal EXCEPT ![o].state = "failed", ![o].safety = "nothing"]
        /\ agent' = [agent EXCEPT !.todo = @ \ {o}, !.results = @ \cup {o}]
    BY <1>4 DEF BeginFails, IsNext
  <2>2. agent' = [todo |-> todo \ {o}, copying |-> 0, results |-> results \cup {o}]
    BY <1>1, <2>1
  <2>3. journal' \in [Orders -> Entry]
    BY <1>0, <2>1, EntryStep
  <2> HIDE DEF todo, results
  <2>4. /\ todo \ {o} \in SUBSET DOMAIN orders /\ results \cup {o} \in SUBSET DOMAIN orders
        /\ results \cup {o} \subseteq Orders
    BY <1>1, <1>4, <2>1 DEF todo, results
  <2> QED
    BY <1>0, <2>1, <2>2, <2>3, <2>4, RoundTyped
<1>5. CASE CopyEnds
  <2> DEFINE o == agent.copying
  <2>1. /\ UNCHANGED <<state, overdue, orders, call, running, backup, echo, faults, excused, orphan>>
        /\ o # 0 /\ folder' \in {"whole", "half"}
        /\ \E v \in {"succeeded", "failed"} : journal' = [journal EXCEPT ![o].state = v]
        /\ agent' = [agent EXCEPT !.copying = 0, !.results = @ \cup {o}]
    BY <1>5 DEF CopyEnds
  <2>2. agent' = [todo |-> todo, copying |-> 0, results |-> results \cup {o}]
    BY <1>1, <2>1
  <2>3. o \in Orders
    BY <1>1, <2>1
  <2>4. journal' \in [Orders -> Entry]
    <3>1. PICK v \in {"succeeded", "failed"} : journal' = [journal EXCEPT ![o].state = v]
      BY <2>1
    <3> HIDE DEF o
    <3>2. [journal EXCEPT ![o].state = v] \in [Orders -> Entry]
      BY <1>0, <2>3, EntryStep
    <3> QED
      BY <3>1, <3>2
  <2> HIDE DEF todo, results
  <2>5. /\ todo \in SUBSET DOMAIN orders /\ results \cup {o} \in SUBSET DOMAIN orders
        /\ results \cup {o} \subseteq Orders
    BY <1>1, <2>1, <2>3 DEF todo, results
  <2> HIDE DEF o
  <2> QED
    BY <1>0, <2>1, <2>2, <2>4, <2>5, RoundTyped
<1>6. ASSUME agent' = Resting, faults' \in 0..MaxFaults,
             UNCHANGED <<state, overdue, orders, call, running, backup, echo, folder, journal,
                         excused, orphan>>
      PROVE  TypeOK' /\ Placed'
  <2>1. /\ agent' = [todo |-> {}, copying |-> 0, results |-> {}]
        /\ {} \in SUBSET DOMAIN orders /\ {} \subseteq Orders
    BY <1>6 DEF Resting
  <2> QED
    BY <1>0, <1>6, <2>1, RoundTyped
<1>7. CASE ReportLost
  BY <1>0, <1>6, <1>7 DEF ReportLost
<1>8. CASE AgentHalts
  <2>1. faults' \in 0..MaxFaults
    BY <1>0, <1>8, BoundsAssumption DEF AgentHalts
  <2> QED
    BY <1>6, <1>8, <2>1 DEF AgentHalts
<1> QED
  BY <1>2, <1>3, <1>4, <1>5, <1>7, <1>8 DEF Execute

LEMMA SweepsTyped ==
  ASSUME TypeOK, Placed,
         (\E o \in Orders : Age(o)) \/ Sweep \/ Fetch \/ Report
  PROVE  TypeOK' /\ Placed'
<1>0. excused \in BOOLEAN
  BY DEF TypeOK
<1>1. ASSUME ExpireOrders
      PROVE  /\ orders' \in Seq(Order) /\ DOMAIN orders' = DOMAIN orders
             /\ Release \/ Hold
             /\ excused' \in BOOLEAN
  <2>1. Release \/ Hold
    BY <1>1 DEF ExpireOrders
  <2>2. excused' \in BOOLEAN
    BY <1>0, <1>1 DEF ExpireOrders
  <2> QED
    BY <1>1, <2>1, <2>2, ExpireRows DEF Forward
<1>2. ASSUME NEW o \in Orders, Age(o)
      PROVE  TypeOK' /\ Placed'
  <2>1. /\ UNCHANGED <<running, backup, echo, folder, journal, faults, orphan, agent, excused, call>>
        /\ Hold
    BY <1>2 DEF Age, Hold
  <2>2. orders' \in Seq(Order) /\ DOMAIN orders \subseteq DOMAIN orders'
    BY <1>2, AgeRows DEF Forward
  <2> QED
    BY <1>0, <2>1, <2>2, RowsTyped
<1>3. CASE Sweep
  <2>1. /\ UNCHANGED <<running, backup, echo, folder, journal, faults, orphan, agent, call>>
        /\ ExpireOrders
    BY <1>3 DEF Sweep
  <2> QED
    BY <1>1, <2>1, RowsTyped
<1>4. CASE Fetch
  <2> DEFINE todo == {o \in DOMAIN orders : orders'[o].state = "pending"}
  <2>1. /\ UNCHANGED <<running, backup, echo, folder, journal, faults, orphan, call>>
        /\ ExpireOrders /\ agent' = [Resting EXCEPT !.todo = todo]
    BY <1>4 DEF Fetch
  <2>2. todo \subseteq DOMAIN orders
    OBVIOUS
  <2> HIDE DEF todo
  <2>3. agent' = [todo |-> todo, copying |-> 0, results |-> {}] /\ agent'.todo = todo
    BY <2>1 DEF Resting
  <2>4. /\ agent'.todo \subseteq DOMAIN orders
        /\ agent' = [todo |-> agent'.todo, copying |-> 0, results |-> {}]
    BY <2>2, <2>3
  <2> QED
    BY <1>1, <2>1, <2>4, RowsTyped
<1>5. CASE Report
  <2>1. /\ UNCHANGED <<call, running, backup, echo, folder, journal, faults, excused, orphan>>
        /\ agent' = Resting
    BY <1>5 DEF Report
  <2>2. /\ orders' \in Seq(Order) /\ DOMAIN orders \subseteq DOMAIN orders'
        /\ Release \/ Hold
    BY <1>5, ReportRows DEF Forward
  <2> QED
    BY <1>0, <2>1, <2>2, RowsTyped
<1> QED
  BY <1>2, <1>3, <1>4, <1>5

LEMMA OthersTyped ==
  ASSUME TypeOK, Placed,
         \/ \E suspended \in BOOLEAN : SetServerSuspended(suspended)
         \/ GameStops \/ BackupEnds \/ BackupReported \/ BackupLost
         \/ LockAge \/ RowTouched \/ ExpireStaleRestores \/ ResetTransientStates \/ Crash
  PROVE  TypeOK' /\ Placed'
<1>1. /\ UNCHANGED <<orders, folder, journal, agent>>
      /\ call' = call \/ call' = [h \in Handlers |-> Idle]
  BY DEF SetServerSuspended, GameStops, BackupEnds, BackupReported, BackupLost, LockAge, RowTouched,
         ExpireStaleRestores, ResetTransientStates, Crash
<1>2. state' \in {"none", "restoring", "suspended"} /\ overdue' \in BOOLEAN
  BY DEF TypeOK, SetServerSuspended, GameStops, BackupEnds, BackupReported, BackupLost, LockAge, RowTouched,
         ExpireStaleRestores, ResetTransientStates, Crash, Release
<1>3. /\ running' \in BOOLEAN /\ backup' \in BOOLEAN /\ echo' \in {"none", "first", "again"}
      /\ excused' \in BOOLEAN /\ orphan' \in BOOLEAN
  BY DEF TypeOK, SetServerSuspended, GameStops, BackupEnds, BackupReported, BackupLost, LockAge, RowTouched,
         ExpireStaleRestores, ResetTransientStates, Crash
<1>4. faults' \in 0..MaxFaults
  BY BoundsAssumption
     DEF TypeOK, SetServerSuspended, GameStops, BackupEnds, BackupReported, BackupLost, LockAge, RowTouched,
         ExpireStaleRestores, ResetTransientStates, Crash
<1> QED
  BY <1>1, <1>2, <1>3, <1>4, OutsideTyped

LEMMA StepTyped ==
  ASSUME TypeOK, Placed, [Next]_vars
  PROVE  TypeOK' /\ Placed'
<1>1. CASE UNCHANGED vars
  BY <1>1 DEF vars, TypeOK, Placed
<1>2. CASE Next
  BY <1>2, PanelTyped, AgentTyped, SweepsTyped, OthersTyped DEF Next
<1> QED
  BY <1>1, <1>2

LEMMA InitTyped == Init => TypeOK /\ Placed
<1> SUFFICES ASSUME Init PROVE TypeOK /\ Placed
  OBVIOUS
<1>1. /\ orders \in Seq(Order) /\ DOMAIN orders = {}
  BY DEF Init
<1>2. /\ call \in [Handlers -> Call] /\ \A h \in Handlers : call[h].at = "idle"
  BY NewCalls DEF Init
<1>3. journal \in [Orders -> Entry]
  BY DEF Init, Entry, Content
<1>4. /\ agent \in [todo: SUBSET DOMAIN orders, copying: {0} \cup DOMAIN orders,
                    results: SUBSET DOMAIN orders]
      /\ Placed
  BY DEF Init, Resting, Placed
<1>5. 0 \in 0..MaxFaults
  BY BoundsAssumption
<1> QED
  BY <1>1, <1>2, <1>3, <1>4, <1>5 DEF Init, TypeOK

\* The tables of the panel and of the agent stay well formed, whatever stops or is lost:
\* every follower and every round refers to rows that exist.
THEOREM TypeCorrect == Spec => []TypeOK
<1>1. TypeOK /\ Placed /\ [Next]_vars => (TypeOK /\ Placed)'
  BY StepTyped
<1> QED
  BY <1>1, InitTyped, PTL DEF Spec

-----------------------------------------------------------------------------
(* What is closed, and what is executed. *)

\* A follower, the report of the agent and the sweep all write the order of a
\* restoration: whoever closes it, it stays as it was closed.
THEOREM OrdersClosedOnce == Spec => ClosedOnce
<1> DEFINE A == \A o \in DOMAIN orders : ~Open(o) => orders'[o] = orders[o]
<1>1. ASSUME TypeOK, Placed, [Next]_vars
      PROVE  A
  <2>1. CASE orders' = orders
    BY <2>1
  <2>2. ASSUME NEW h \in Handlers, Panel(h) PROVE A
    <3>1. CASE RestoreInsert(h)
      BY <1>1, <3>1, InsertRows
    <3>2. CASE FollowSend(h)
      BY <1>1, <3>2, SendRows DEF Forward
    <3>3. CASE FollowGivesUp(h)
      BY <1>1, <3>3, GiveUpRows DEF Forward
    <3>4. CASE ~RestoreInsert(h) /\ ~FollowSend(h) /\ ~FollowGivesUp(h)
      BY <2>1, <2>2, <3>4
         DEF Panel, StartRead, StartSend, RestoreClaim, BackupClaim, Claim, FollowOffline,
             BackupSend, BackupRefused
    <3> QED
      BY <3>1, <3>2, <3>3, <3>4
  <2>3. ASSUME NEW o \in Orders, Age(o) PROVE A
    BY <1>1, <2>3, AgeRows DEF Forward
  <2>4. CASE Sweep \/ Fetch
    BY <1>1, <2>4, ExpireRows DEF Forward, Sweep, Fetch
  <2>5. CASE Report
    BY <1>1, <2>5, ReportRows DEF Forward
  <2>6. CASE \/ \E o \in Orders : Execute(o)
             \/ \E suspended \in BOOLEAN : SetServerSuspended(suspended)
             \/ GameStops \/ CopyEnds \/ ReportLost \/ BackupEnds \/ BackupReported \/ BackupLost
             \/ LockAge \/ RowTouched \/ ExpireStaleRestores \/ ResetTransientStates \/ Crash \/ AgentHalts
             \/ UNCHANGED vars
    BY <2>1, <2>6
       DEF Execute, Known, Begin, BeginFails, SetServerSuspended, GameStops, CopyEnds,
           ReportLost, BackupEnds, BackupReported, BackupLost, LockAge, RowTouched, ExpireStaleRestores,
           ResetTransientStates, Crash, AgentHalts, vars
  <2> QED
    BY <1>1, <2>2, <2>3, <2>4, <2>5, <2>6 DEF Next
<1>2. TypeOK /\ Placed /\ [Next]_vars => [A]_vars
  BY <1>1
<1>3. TypeOK /\ Placed /\ [Next]_vars => (TypeOK /\ Placed)'
  BY StepTyped
<1> QED
  BY <1>2, <1>3, InitTyped, PTL DEF Spec, ClosedOnce

\* The panel hands an order out again until it has the report; an agent that
\* finished it, before a restart or not, never copies it again.
THEOREM OrdersExecutedOnce == Spec => ExecutedOnce
<1> DEFINE A == \A o \in Orders :
                  Finished(o) => journal'[o] = journal[o] /\ agent'.copying # o
<1>1. ASSUME TypeOK, Placed, [Next]_vars
      PROVE  A
  <2>0. /\ journal \in [Orders -> Entry] /\ agent.copying \in {0} \cup Orders
        /\ \A o \in Orders : o # 0
        /\ \A o \in Orders : Finished(o) => agent.copying # o
    BY <1>1 DEF TypeOK, Placed, Orders, Finished
  <2>1. ASSUME journal' = journal, agent'.copying \in {0, agent.copying} PROVE A
    BY <2>0, <2>1
  <2>2. ASSUME NEW o \in Orders, Known(o) PROVE A
    <3>1. agent'.copying = agent.copying /\ journal' = journal
      BY <1>1, <2>2, AgentFields DEF Known
    <3> QED
      BY <2>1, <3>1
  <2>3. ASSUME NEW o \in Orders, Begin(o) PROVE A
    <3>1. /\ agent'.copying = o /\ ~Finished(o)
          /\ \A u \in Orders : u # o => journal'[u] = journal[u]
      BY <1>1, <2>0, <2>3, AgentFields DEF Begin
    <3> QED
      BY <3>1
  <2>4. ASSUME NEW o \in Orders, BeginFails(o) PROVE A
    <3>1. agent'.copying = agent.copying /\ ~Finished(o)
      BY <1>1, <2>4, AgentFields DEF BeginFails
    <3>2. \A u \in Orders : u # o => journal'[u] = journal[u]
      BY <2>0, <2>4, EntryStep DEF BeginFails
    <3> QED
      BY <2>0, <3>1, <3>2
  <2>5. CASE CopyEnds
    <3>1. agent'.copying = 0
      BY <1>1, <2>5, AgentFields DEF CopyEnds
    <3>2. \A u \in Orders : u # agent.copying => journal'[u] = journal[u]
      BY <2>0, <2>5 DEF CopyEnds
    <3> QED
      BY <2>0, <3>1, <3>2
  <2>6. CASE Fetch
    <3> DEFINE todo == {o \in DOMAIN orders : orders'[o].state = "pending"}
    <3>1. agent' = [Resting EXCEPT !.todo = todo] /\ journal' = journal
      BY <2>6 DEF Fetch
    <3> HIDE DEF todo
    <3>2. agent'.copying = 0
      BY <3>1 DEF Resting
    <3> QED
      BY <2>1, <3>1, <3>2
  <2>7. CASE Report \/ ReportLost \/ AgentHalts
    BY <2>1, <2>7 DEF Report, ReportLost, AgentHalts, Resting
  <2>8. CASE \/ \E h \in Handlers : Panel(h)
             \/ \E o \in Orders : Age(o)
             \/ \E suspended \in BOOLEAN : SetServerSuspended(suspended)
             \/ GameStops \/ Sweep \/ BackupEnds \/ BackupReported \/ BackupLost
             \/ LockAge \/ RowTouched \/ ExpireStaleRestores \/ ResetTransientStates \/ Crash
             \/ UNCHANGED vars
    <3>1. journal' = journal /\ agent' = agent
      BY <2>8
         DEF Panel, StartRead, StartSend, RestoreClaim, BackupClaim, Claim, RestoreInsert,
             FollowOffline, FollowSend, FollowGivesUp, BackupSend, BackupRefused, Age,
             SetServerSuspended, GameStops, Sweep, BackupEnds, BackupReported, BackupLost, LockAge, RowTouched,
             ExpireStaleRestores, ResetTransientStates, Crash, vars
    <3> QED
      BY <2>1, <3>1
  <2> QED
    BY <1>1, <2>2, <2>3, <2>4, <2>5, <2>6, <2>7, <2>8 DEF Next, Execute
<1>2. TypeOK /\ Placed /\ [Next]_vars => [A]_vars
  BY <1>1
<1>3. TypeOK /\ Placed /\ [Next]_vars => (TypeOK /\ Placed)'
  BY StepTyped
<1> QED
  BY <1>2, <1>3, InitTyped, PTL DEF Spec, ExecutedOnce

-----------------------------------------------------------------------------
(* Who gives the lock back. *)

\* Whoever counted on the lock still does.
LEMMA StillInUse ==
  ASSUME TypeOK, InUse, DOMAIN orders \subseteq DOMAIN orders',
         \A o \in DOMAIN orders : Open(o) => orders'[o].state \in {"waiting", "pending"},
         \A h \in Handlers : call[h].at \in Holding => call'[h].at \in Holding,
         backup \/ echo = "first" => backup' \/ echo' = "first"
  PROVE  InUse'
  BY DEF InUse, Busy, Open, Holding

\* Steps that leave who holds the lock alone.
LEMMA HoldersStay ==
  ASSUME TypeOK, LockAccounted, UNCHANGED <<orders, orphan>>,
         state' = "restoring" => state = "restoring",
         \A h \in Handlers : call[h].at \in Holding => call'[h].at \in Holding,
         backup \/ echo = "first" => backup' \/ echo' = "first"
  PROVE  LockAccounted'
<1>1. InUse => InUse'
  BY StillInUse DEF Open
<1> QED
  BY <1>1 DEF LockAccounted

LEMMA PanelAccounted ==
  ASSUME TypeOK, LockAccounted, NEW h \in Handlers, Panel(h)
  PROVE  LockAccounted'
<1>0. call \in [Handlers -> Call]
  BY DEF TypeOK
<1>1. CASE StartRead(h) \/ StartSend(h) \/ FollowOffline(h)
  <2>1. /\ UNCHANGED <<state, orders, orphan, backup, echo>>
        /\ call[h].at \notin Holding
        /\ \A g \in Handlers : g # h => call'[g] = call[g]
    BY <1>0, <1>1, NewCalls DEF StartRead, StartSend, FollowOffline, Becomes, Holding
  <2> QED
    BY <2>1, HoldersStay
<1>2. CASE RestoreClaim(h) \/ BackupClaim(h)
  <2>1. call'[h].at \in Holding
    BY <1>0, <1>2 DEF RestoreClaim, BackupClaim, Claim, Becomes, Holding
  <2> QED
    BY <2>1 DEF LockAccounted, InUse, Busy, Holding
<1>3. CASE RestoreInsert(h)
  <2>1. /\ Len(orders) + 1 \in DOMAIN orders'
        /\ orders'[Len(orders) + 1].state = "waiting"
    BY <1>3, InsertRows
  <2> QED
    BY <2>1 DEF LockAccounted, InUse, Busy, Open
<1>4. CASE FollowSend(h)
  <2>1. /\ UNCHANGED <<state, orphan, backup, echo>> /\ call[h].at \notin Holding
        /\ \A g \in Handlers : g # h => call'[g] = call[g]
    BY <1>0, <1>4 DEF FollowSend, Becomes, Holding
  <2>2. /\ DOMAIN orders' = DOMAIN orders
        /\ \A o \in DOMAIN orders : Open(o) => orders'[o].state \in {"waiting", "pending"}
    BY <1>4, SendRows DEF Forward, Open
  <2>3. InUse => InUse'
    BY <2>1, <2>2, StillInUse
  <2> QED
    BY <2>1, <2>3 DEF LockAccounted
<1>5. CASE FollowGivesUp(h)
  <2>1. /\ UNCHANGED <<orphan, backup, echo>> /\ call[h].at \notin Holding
        /\ \A g \in Handlers : g # h => call'[g] = call[g]
    BY <1>0, <1>5 DEF FollowGivesUp, Becomes, Holding
  <2>2. CASE Release
    BY <2>2 DEF LockAccounted, Release
  <2>3. CASE orders' = orders /\ Hold
    BY <2>1, <2>3, HoldersStay DEF Hold
  <2> QED
    BY <1>5, <2>2, <2>3, GiveUpRows
<1>6. CASE BackupSend(h)
  BY <1>6 DEF BackupSend, LockAccounted, InUse, Busy
<1>7. CASE BackupRefused(h)
  BY <1>7 DEF BackupRefused, LockAccounted, Release
<1> QED
  BY <1>1, <1>2, <1>3, <1>4, <1>5, <1>6, <1>7 DEF Panel

LEMMA StepAccounted ==
  ASSUME TypeOK, Placed, LockAccounted, [Next]_vars
  PROVE  LockAccounted'
<1>1. ASSUME NEW o \in Orders, Age(o) PROVE LockAccounted'
  <2>1. /\ DOMAIN orders' = DOMAIN orders
        /\ \A u \in DOMAIN orders : Open(u) => orders'[u].state \in {"waiting", "pending"}
    BY <1>1, AgeRows DEF Forward, Open
  <2>2. UNCHANGED <<state, call, backup, echo, orphan>>
    BY <1>1 DEF Age
  <2>3. InUse => InUse'
    BY <2>1, <2>2, StillInUse
  <2> QED
    BY <2>2, <2>3 DEF LockAccounted
<1>2. ASSUME ExpireOrders, UNCHANGED <<call, backup, echo, orphan>> PROVE LockAccounted'
  <2>1. CASE \E o \in DOMAIN orders : Expired(o)
    BY <1>2, <2>1 DEF ExpireOrders, Release, LockAccounted
  <2>2. CASE ~\E o \in DOMAIN orders : Expired(o)
    <3>1. /\ state' = state /\ DOMAIN orders' = DOMAIN orders
          /\ \A u \in DOMAIN orders : Open(u) => orders'[u].state \in {"waiting", "pending"}
      BY <1>2, <2>2, ExpireRows DEF ExpireOrders, Hold, Forward, Open
    <3>2. InUse => InUse'
      BY <1>2, <3>1, StillInUse
    <3> QED
      BY <1>2, <3>1, <3>2 DEF LockAccounted
  <2> QED
    BY <2>1, <2>2
<1>3. CASE Sweep \/ Fetch
  BY <1>2, <1>3 DEF Sweep, Fetch
<1>4. CASE Report
  <2>1. CASE Reported # {}
    BY <1>4, <2>1, ReportRows DEF Release, LockAccounted
  <2>2. CASE Reported = {}
    <3>1. /\ UNCHANGED <<state, call, backup, echo, orphan>> /\ DOMAIN orders' = DOMAIN orders
          /\ \A u \in DOMAIN orders : Open(u) => orders'[u].state \in {"waiting", "pending"}
      BY <1>4, <2>2, ReportRows DEF Report, Hold, Forward, Open
    <3>2. InUse => InUse'
      BY <3>1, StillInUse
    <3> QED
      BY <3>1, <3>2 DEF LockAccounted
  <2> QED
    BY <2>1, <2>2
<1>5. CASE \/ \E o \in Orders : Execute(o)
           \/ CopyEnds \/ ReportLost \/ AgentHalts \/ GameStops \/ LockAge
           \/ UNCHANGED vars
  <2>1. UNCHANGED <<state, orders, call, backup, echo, orphan>>
    BY <1>5 DEF Execute, Known, Begin, BeginFails, CopyEnds, ReportLost, AgentHalts,
                GameStops, LockAge, vars
  <2> QED
    BY <2>1, HoldersStay
<1>6. CASE BackupReported \/ ExpireStaleRestores \/ ResetTransientStates
  BY <1>6 DEF BackupReported, ExpireStaleRestores, ResetTransientStates, Release, LockAccounted
<1>10. CASE BackupEnds \/ RowTouched
  <2>1. /\ UNCHANGED <<state, orders, call, orphan>>
        /\ backup \/ echo = "first" => backup' \/ echo' = "first"
    BY <1>10 DEF BackupEnds, RowTouched
  <2> QED
    BY <2>1, HoldersStay
<1>7. CASE BackupLost
  BY <1>7 DEF BackupLost, LockAccounted
<1>8. ASSUME NEW suspended \in BOOLEAN, SetServerSuspended(suspended) PROVE LockAccounted'
  BY <1>8 DEF SetServerSuspended, LockAccounted
<1>9. CASE Crash
  <2>1. CASE \E h \in Handlers : call[h].at \in Holding
    BY <1>9, <2>1 DEF Crash, LockAccounted, Holding
  <2>2. CASE ~\E h \in Handlers : call[h].at \in Holding
    <3>1. /\ UNCHANGED <<state, orders, backup, echo>> /\ orphan' = orphan
      BY <1>9, <2>2 DEF Crash, Holding, TypeOK
    <3> QED
      BY <2>2, <3>1, HoldersStay
  <2> QED
    BY <2>1, <2>2
<1> QED
  BY <1>1, <1>3, <1>4, <1>5, <1>6, <1>7, <1>8, <1>9, <1>10, PanelAccounted DEF Next

\* Whenever a server is locked for a restoration, somebody will unlock it: only a
\* stop of the panel or of the daemon can leave it to the sweep of six hours.
THEOREM LockIsAccounted == Spec => []LockAccounted
<1>1. Init => LockAccounted
  BY DEF Init, LockAccounted
<1>2. TypeOK /\ Placed /\ LockAccounted /\ [Next]_vars => (TypeOK /\ Placed /\ LockAccounted)'
  BY StepTyped, StepAccounted
<1> QED
  BY <1>1, <1>2, InitTyped, PTL DEF Spec

-----------------------------------------------------------------------------
(* One writer of the folder. *)

\* What a request may become in a step that takes no lock.
Unheld ==
  \A h \in Handlers :
    \/ call'[h] = call[h]
    \/ call'[h].at \notin Holding \cup {"send"}
    \/ call'[h].at = "send" /\ call'[h].order \in DOMAIN orders /\ ~running

\* No lock is taken: orders are closed or stay as they are, the game does not start
\* but on a free server, and the server is given back only when nobody counts on it.
LEMMA NothingTaken ==
  ASSUME TypeOK, Sound, Unheld, DOMAIN orders' = DOMAIN orders,
         \A o \in DOMAIN orders :
           orders'[o].state = orders[o].state \/ orders'[o].state \in {"done", "failed"},
         backup' => backup,
         (running' => running) \/ state = "none",
         state' # "none" \/ state' = state \/ ~Busy',
         Handed'
  PROVE  Sound'
<1>1. \A o \in DOMAIN orders : Open(o)' => Open(o) /\ orders'[o].state = orders[o].state
  BY DEF Open
<1>2. \A h \in Handlers : call'[h].at \in Holding => call[h].at \in Holding
  BY DEF Unheld, Holding
<1>3. Alone'
  BY <1>1, <1>2 DEF Sound, Alone
<1>4. Busy' => Busy
  BY <1>1, <1>2 DEF Busy, Holding
<1>5. Locked'
  BY <1>4 DEF Sound, Locked
<1>6. Halted'
  <2>1. CASE state = "none"
    <3>1. \A o \in DOMAIN orders : ~Open(o)
      BY <2>1 DEF Sound, Locked, Busy
    <3>2. \A o \in DOMAIN orders : orders'[o].state \notin {"waiting", "pending"}
      BY <1>1, <3>1 DEF Open
    <3>3. \A h \in Handlers : call'[h].at = "send" => call'[h].order \in DOMAIN orders
      BY DEF Unheld, TypeOK
    <3> QED
      BY <3>2, <3>3 DEF Halted
  <2>2. CASE running' => running
    <3>1. \A o \in DOMAIN orders : orders'[o].state = "pending" => ~running'
      BY <2>2 DEF Sound, Halted
    <3>2. ASSUME NEW h \in Handlers, call'[h].at = "send",
                 orders'[call'[h].order].state = "waiting"
          PROVE  ~running'
      <4>1. CASE call'[h] = call[h]
        <5>1. call[h].order \in DOMAIN orders
          BY <3>2, <4>1 DEF TypeOK
        <5> QED
          BY <2>2, <3>2, <4>1, <5>1 DEF Sound, Halted
      <4>2. CASE call'[h] # call[h]
        BY <2>2, <3>2, <4>2 DEF Unheld
      <4> QED
        BY <4>1, <4>2
    <3> QED
      BY <3>1, <3>2 DEF Halted
  <2> QED
    BY <2>1, <2>2
<1> QED
  BY <1>3, <1>5, <1>6 DEF Sound

\* The agent keeps to orders that are still pending.
LEMMA StillHanded ==
  ASSUME TypeOK, Sound, agent'.todo \subseteq agent.todo,
         agent'.copying = 0 \/ agent'.copying = agent.copying \/ agent'.copying \in agent.todo,
         \A o \in DOMAIN orders :
           orders[o].state = "pending" => orders'[o].state = "pending"
  PROVE  Handed'
  BY AgentFields DEF Sound, Handed

LEMMA RestingHanded ==
  ASSUME agent' = Resting
  PROVE  Handed'
  BY DEF Handed, Resting

\* The holder of the lock, if it ends, was the only one.
LEMMA HolderEnds ==
  ASSUME TypeOK, Sound, DOMAIN orders' = DOMAIN orders,
         \A o \in DOMAIN orders : Open(o)' => Open(o),
         \A h \in Handlers : call'[h].at \in Holding => call[h].at \in Holding,
         backup' => backup,
         \/ \E o \in DOMAIN orders : Open(o) /\ ~Open(o)'
         \/ \E h \in Handlers : call[h].at \in Holding /\ call'[h].at \notin Holding
         \/ backup /\ ~backup'
  PROVE  ~Busy'
<1>1. CASE \E o \in DOMAIN orders : Open(o) /\ ~Open(o)'
  BY <1>1 DEF Sound, Alone, Busy, Holding
<1>2. CASE \E h \in Handlers : call[h].at \in Holding /\ call'[h].at \notin Holding
  BY <1>2 DEF Sound, Alone, Busy, Holding
<1>3. CASE backup /\ ~backup'
  BY <1>3 DEF Sound, Alone, Busy, Holding
<1> QED
  BY <1>1, <1>2, <1>3

\* A lock is taken only on a free server: nobody else holds it.
LEMMA ClaimSound ==
  ASSUME TypeOK, Sound, NEW h \in Handlers, NEW at \in Holding, Claim(h, at)
  PROVE  Sound'
<1>0. call \in [Handlers -> Call]
  BY DEF TypeOK
<1>1. /\ UNCHANGED <<orders, running, backup, agent>> /\ state' = "restoring"
      /\ call'[h] = [at |-> at] /\ \A g \in Handlers : g # h => call'[g] = call[g]
  BY <1>0 DEF Claim, Becomes
<1>2. ~Busy
  BY DEF Claim, Sound, Locked
<1>3. Alone'
  BY <1>1, <1>2 DEF Alone, Busy, Open, Holding
<1>4. Halted' /\ Handed' /\ Locked'
  BY <1>1 DEF Sound, Halted, Handed, Locked, Holding
<1> QED
  BY <1>3, <1>4 DEF Sound

LEMMA InsertSound ==
  ASSUME TypeOK, Sound, NEW h \in Handlers, RestoreInsert(h)
  PROVE  Sound'
<1> DEFINE n == Len(orders) + 1
<1>0. call \in [Handlers -> Call]
  BY DEF TypeOK
<1>1. /\ DOMAIN orders' = DOMAIN orders \cup {n} /\ n \notin DOMAIN orders
      /\ orders'[n].state = "waiting"
      /\ \A o \in DOMAIN orders : orders'[o] = orders[o]
      /\ Becomes(h, [at |-> "follow", order |-> n])
  BY InsertRows
<1> HIDE DEF n
<1>2. /\ UNCHANGED <<state, running, backup, agent>> /\ call[h].at = "claimed"
      /\ call'[h].at = "follow" /\ \A g \in Handlers : g # h => call'[g] = call[g]
  BY <1>0, <1>1 DEF RestoreInsert, Becomes
<1>3. /\ \A o \in DOMAIN orders : ~Open(o)
      /\ \A g \in Handlers : call'[g].at \notin Holding
      /\ ~backup /\ state # "none"
  BY <1>2 DEF Sound, Alone, Locked, Busy, Holding
<1>4. \A o \in DOMAIN orders' : Open(o)' => o = n
  BY <1>1, <1>3 DEF Open
<1>5. Alone' /\ Locked'
  BY <1>2, <1>3, <1>4 DEF Alone, Locked
<1>6. Halted'
  <2>1. \A o \in DOMAIN orders' : orders'[o].state # "pending"
    BY <1>1, <1>4 DEF Open
  <2>2. ASSUME NEW g \in Handlers, call'[g].at = "send"
        PROVE  orders'[call'[g].order].state # "waiting"
    <3>1. call'[g] = call[g] /\ call[g].order \in DOMAIN orders
      BY <1>2, <2>2 DEF TypeOK
    <3> QED
      BY <1>1, <1>3, <3>1 DEF Open
  <2> QED
    BY <2>1, <2>2 DEF Halted
<1>7. Handed'
  BY <1>1, <1>2, AgentFields DEF Sound, Handed
<1> QED
  BY <1>5, <1>6, <1>7 DEF Sound

\* The daemon said the server stopped, and it cannot have started since: the order
\* that still waits keeps the server locked.
LEMMA SendSound ==
  ASSUME TypeOK, Sound, NEW h \in Handlers, FollowSend(h)
  PROVE  Sound'
<1> DEFINE o == call[h].order
<1>0. call \in [Handlers -> Call]
  BY DEF TypeOK
<1>1. /\ o \in DOMAIN orders /\ DOMAIN orders' = DOMAIN orders
      /\ \A u \in DOMAIN orders :
           orders'[u].state = IF u = o /\ orders[u].state = "waiting"
                              THEN "pending" ELSE orders[u].state
  BY SendRows DEF Forward
<1>2. /\ UNCHANGED <<state, running, backup, agent>> /\ call[h].at = "send"
      /\ call'[h] = Idle /\ \A g \in Handlers : g # h => call'[g] = call[g]
  BY <1>0 DEF FollowSend, Becomes
<1>3. orders[o].state = "waiting" => ~running
  BY <1>2 DEF Sound, Halted
<1> HIDE DEF o
<1>4. /\ \A u \in DOMAIN orders : Open(u)' <=> Open(u)
      /\ \A g \in Handlers : call'[g].at \in Holding <=> call[g].at \in Holding
  BY <1>1, <1>2, NewCalls DEF Open, Holding
<1>5. Alone' /\ Locked'
  BY <1>1, <1>2, <1>4 DEF Sound, Alone, Locked, Busy, Holding
<1>6. Halted'
  <2>1. \A u \in DOMAIN orders : orders'[u].state = "pending" => ~running'
    BY <1>1, <1>2, <1>3 DEF Sound, Halted
  <2>2. ASSUME NEW g \in Handlers, call'[g].at = "send",
               orders'[call'[g].order].state = "waiting"
        PROVE  ~running'
    <3>1. call'[g] = call[g] /\ call[g].order \in DOMAIN orders
      BY <1>2, <2>2, NewCalls DEF TypeOK
    <3>2. orders[call[g].order].state = "waiting"
      BY <1>1, <2>2, <3>1
    <3> QED
      BY <1>2, <2>2, <3>1, <3>2 DEF Sound, Halted
  <2> QED
    BY <1>1, <2>1, <2>2 DEF Halted
<1>7. Handed'
  <2>1. agent'.todo \subseteq agent.todo /\ agent'.copying = agent.copying
    BY <1>2
  <2> QED
    BY <1>1, <2>1, StillHanded
<1> QED
  BY <1>5, <1>6, <1>7 DEF Sound

LEMMA BackupSendSound ==
  ASSUME TypeOK, Sound, NEW h \in Handlers, BackupSend(h), ~excused'
  PROVE  Sound'
<1>0. call \in [Handlers -> Call]
  BY DEF TypeOK
<1>1. /\ UNCHANGED <<state, orders, running, agent>> /\ call[h].at = "backup"
      /\ call'[h] = Idle /\ \A g \in Handlers : g # h => call'[g] = call[g]
  BY <1>0 DEF BackupSend, Becomes, Hold
<1>2. /\ \A o \in DOMAIN orders : ~Open(o)
      /\ \A g \in Handlers : call'[g].at \notin Holding
      /\ state # "none"
  BY <1>1, NewCalls DEF Sound, Alone, Locked, Busy, Holding
<1>3. Alone' /\ Locked'
  BY <1>1, <1>2 DEF Alone, Locked, Open
<1>4. Halted' /\ Handed'
  BY <1>1, NewCalls DEF Sound, Halted, Handed
<1> QED
  BY <1>3, <1>4 DEF Sound

LEMMA PanelSound ==
  ASSUME TypeOK, Sound, NEW h \in Handlers, Panel(h), ~excused'
  PROVE  Sound'
<1>0. call \in [Handlers -> Call]
  BY DEF TypeOK
<1>1. CASE StartRead(h) \/ StartSend(h) \/ FollowOffline(h)
  <2>1. Unheld
    <3>1. \A g \in Handlers : g # h => call'[g] = call[g]
      BY <1>0, <1>1 DEF StartRead, StartSend, FollowOffline, Becomes
    <3>2. CASE StartRead(h) \/ StartSend(h)
      <4>1. call'[h].at \in {"start", "idle"}
        <5>1. call'[h] = [at |-> "start"] \/ call'[h] = Idle
          BY <1>0, <3>2 DEF StartRead, StartSend, Becomes
        <5> QED
          BY <5>1, NewCalls
      <4> QED
        BY <3>1, <4>1 DEF Unheld, Holding
    <3>3. CASE FollowOffline(h)
      <4>1. /\ call'[h] = [at |-> "send", order |-> call[h].order] /\ ~running
            /\ call[h].order \in DOMAIN orders
        BY <1>0, <3>3 DEF FollowOffline, Becomes, TypeOK
      <4> QED
        BY <3>1, <4>1 DEF Unheld
    <3> QED
      BY <1>1, <3>2, <3>3
  <2>2. UNCHANGED <<state, orders, backup, agent>>
    BY <1>1 DEF StartRead, StartSend, FollowOffline
  <2>3. (running' => running) \/ state = "none"
    BY <1>1 DEF StartRead, StartSend, FollowOffline
  <2>4. Handed'
    BY <2>2, StillHanded
  <2> QED
    BY <2>1, <2>2, <2>3, <2>4, NothingTaken
<1>2. CASE RestoreClaim(h) \/ BackupClaim(h)
  BY <1>2, ClaimSound DEF RestoreClaim, BackupClaim, Holding
<1>3. CASE RestoreInsert(h)
  BY <1>3, InsertSound
<1>4. CASE FollowSend(h)
  BY <1>4, SendSound
<1>5. CASE FollowGivesUp(h)
  <2>1. /\ UNCHANGED <<running, backup, agent>> /\ call[h].at \in {"follow", "send"}
        /\ call'[h] = Idle /\ \A g \in Handlers : g # h => call'[g] = call[g]
    BY <1>0, <1>5 DEF FollowGivesUp, Becomes
  <2>2. Unheld /\ \A g \in Handlers : call'[g].at \in Holding => call[g].at \in Holding
    BY <2>1, NewCalls DEF Unheld, Holding
  <2>3. CASE orders' = orders /\ Hold
    <3>1. Handed'
      BY <2>1, <2>3, StillHanded
    <3> QED
      BY <2>1, <2>2, <2>3, <3>1, NothingTaken DEF Hold
  <2>4. CASE \E o \in DOMAIN orders :
               /\ orders[o].state = "waiting" /\ orders'[o].state = "failed"
               /\ \A u \in DOMAIN orders : u # o => orders'[u] = orders[u]
    <3>0. DOMAIN orders' = DOMAIN orders
      BY <1>5, GiveUpRows DEF Forward
    <3>1. PICK o \in DOMAIN orders :
            /\ orders[o].state = "waiting" /\ orders'[o].state = "failed"
            /\ \A u \in DOMAIN orders : u # o => orders'[u] = orders[u]
      BY <2>4
    <3>2. /\ \A u \in DOMAIN orders : Open(u)' => Open(u)
          /\ Open(o) /\ ~Open(o)'
      BY <3>1 DEF Open
    <3>3. ~Busy'
      BY <2>1, <2>2, <3>0, <3>1, <3>2, HolderEnds
    <3>4. Handed'
      BY <2>1, <3>1, StillHanded
    <3>5. \A u \in DOMAIN orders :
            orders'[u].state = orders[u].state \/ orders'[u].state \in {"done", "failed"}
      BY <3>1
    <3> QED
      BY <2>1, <2>2, <3>0, <3>3, <3>4, <3>5, NothingTaken
  <2> QED
    BY <1>5, <2>3, <2>4, GiveUpRows
<1>6. CASE BackupSend(h)
  BY <1>6, BackupSendSound
<1>7. CASE BackupRefused(h)
  <2>1. /\ UNCHANGED <<orders, running, backup, agent>> /\ call[h].at = "backup"
        /\ call'[h] = Idle /\ \A g \in Handlers : g # h => call'[g] = call[g]
    BY <1>0, <1>7 DEF BackupRefused, Becomes
  <2>2. /\ Unheld /\ \A g \in Handlers : call'[g].at \in Holding => call[g].at \in Holding
        /\ call[h].at \in Holding /\ call'[h].at \notin Holding
    BY <2>1, NewCalls DEF Unheld, Holding
  <2>3. ~Busy'
    BY <2>1, <2>2, HolderEnds DEF Open
  <2>4. Handed'
    BY <2>1, StillHanded
  <2> QED
    BY <2>1, <2>2, <2>3, <2>4, NothingTaken
<1> QED
  BY <1>1, <1>2, <1>3, <1>4, <1>5, <1>6, <1>7 DEF Panel

LEMMA StepSound ==
  ASSUME TypeOK, Placed, ~excused => Sound, [Next]_vars, ~excused'
  PROVE  Sound'
<1>0. excused \in BOOLEAN
  BY DEF TypeOK
<1>1. CASE UNCHANGED vars
  BY <1>1
     DEF vars, Sound, Alone, Locked, Halted, Handed, Busy, Open, Holding
<1>2. CASE Next
  <2>1. ~excused
    BY <1>0, <1>2
       DEF Next, Panel, StartRead, StartSend, RestoreClaim, BackupClaim, Claim, RestoreInsert,
           FollowOffline, FollowSend, FollowGivesUp, BackupSend, BackupRefused, Execute, Known,
           Begin, BeginFails, Age, SetServerSuspended, GameStops, Sweep, Fetch, ExpireOrders,
           CopyEnds, Report, ReportLost, BackupEnds, BackupReported, BackupLost, LockAge, RowTouched,
           ExpireStaleRestores, ResetTransientStates, Crash, AgentHalts
  <2>2. Sound
    BY <2>1
  <2>3. ASSUME call' = call \/ call' = [h \in Handlers |-> Idle] PROVE Unheld
    BY <2>3, NewCalls DEF Unheld, Holding
  <2>4. ASSUME ExpireOrders, UNCHANGED <<call, running, backup>>, agent' = agent \/ Handed'
        PROVE  Sound'
    <3>1. \A o \in DOMAIN orders : Expired(o) => orders[o].state = "waiting"
      BY <2>4 DEF ExpireOrders, Expired
    <3>2. /\ DOMAIN orders' = DOMAIN orders
          /\ \A o \in DOMAIN orders :
               orders'[o].state = IF Expired(o) THEN "failed" ELSE orders[o].state
          /\ \A o \in DOMAIN orders : Expired(o) => Open(o)
      BY <2>4, ExpireRows DEF Forward
    <3>3. Unheld
      BY <2>3, <2>4
    <3>4. Handed'
      <4>1. CASE Handed'
        BY <4>1
      <4>2. CASE agent' = agent
        BY <2>2, <3>1, <3>2, <4>2, StillHanded
      <4> QED
        BY <2>4, <4>1, <4>2
    <3>5. state' = state \/ ~Busy'
      <4>1. CASE \E o \in DOMAIN orders : Expired(o)
        <5>1. \E o \in DOMAIN orders : Open(o) /\ ~Open(o)'
          BY <3>2, <4>1 DEF Open
        <5>2. \A o \in DOMAIN orders : Open(o)' => Open(o)
          BY <3>2 DEF Open
        <5> QED
          BY <2>2, <2>4, <3>2, <5>1, <5>2, HolderEnds
      <4>2. CASE ~\E o \in DOMAIN orders : Expired(o)
        BY <2>4, <4>2 DEF ExpireOrders, Hold
      <4> QED
        BY <4>1, <4>2
    <3> QED
      BY <2>2, <2>4, <3>2, <3>3, <3>4, <3>5, NothingTaken
  <2>5. ASSUME NEW o \in Orders, Age(o) PROVE Sound'
    <3>1. /\ DOMAIN orders' = DOMAIN orders
          /\ \A u \in DOMAIN orders : orders'[u].state = orders[u].state
      BY <2>5, AgeRows DEF Forward
    <3>2. UNCHANGED <<state, call, running, backup, agent>>
      BY <2>5 DEF Age
    <3>3. Handed'
      BY <2>2, <3>1, <3>2, StillHanded
    <3> QED
      BY <2>2, <2>3, <3>1, <3>2, <3>3, NothingTaken
  <2>6. CASE Sweep
    BY <2>4, <2>6 DEF Sweep
  <2>7. CASE Fetch
    <3> DEFINE todo == {o \in DOMAIN orders : orders'[o].state = "pending"}
    <3>1. agent' = [Resting EXCEPT !.todo = todo]
      BY <2>7 DEF Fetch
    <3>2. \A o \in todo : orders'[o].state = "pending"
      OBVIOUS
    <3> HIDE DEF todo
    <3>3. agent'.todo = todo /\ agent'.copying = 0
      BY <3>1 DEF Resting
    <3>4. Handed'
      BY <3>2, <3>3 DEF Handed
    <3> QED
      BY <2>4, <2>7, <3>4 DEF Fetch
  <2>8. CASE Report
    <3>1. /\ DOMAIN orders' = DOMAIN orders
          /\ IF Reported # {} THEN Release ELSE Hold
          /\ \A o \in DOMAIN orders :
               IF o \in Reported THEN Open(o) /\ orders'[o].state \in {"done", "failed"}
                                 ELSE orders'[o] = orders[o]
          /\ Reported \subseteq DOMAIN orders
      BY <2>8, ReportRows DEF Forward
    <3>2. UNCHANGED <<call, running, backup>> /\ agent' = Resting
      BY <2>8 DEF Report
    <3>3. state' = state \/ ~Busy'
      <4>1. CASE Reported # {}
        <5>1. /\ \E o \in DOMAIN orders : Open(o) /\ ~Open(o)'
              /\ \A o \in DOMAIN orders : Open(o)' => Open(o)
          BY <3>1, <4>1 DEF Open
        <5> QED
          BY <2>2, <3>1, <3>2, <5>1, HolderEnds
      <4>2. CASE Reported = {}
        BY <3>1, <4>2 DEF Hold
      <4> QED
        BY <4>1, <4>2
    <3>4. \A o \in DOMAIN orders :
            orders'[o].state = orders[o].state \/ orders'[o].state \in {"done", "failed"}
      BY <3>1
    <3> QED
      BY <2>2, <2>3, <3>1, <3>2, <3>3, <3>4, RestingHanded, NothingTaken
  <2>9. CASE \/ \E o \in Orders : Execute(o)
             \/ CopyEnds \/ ReportLost \/ AgentHalts
    <3>1. UNCHANGED <<state, orders, call, running, backup>>
      BY <2>9 DEF Execute, Known, Begin, BeginFails, CopyEnds, ReportLost, AgentHalts
    <3>2. Handed'
      <4>1. CASE ReportLost \/ AgentHalts
        BY <4>1, RestingHanded DEF ReportLost, AgentHalts
      <4>2. ASSUME NEW o \in Orders, Known(o) \/ BeginFails(o) PROVE Handed'
        <5>1. /\ agent'.todo \subseteq agent.todo /\ agent'.copying = agent.copying
          BY <4>2, AgentFields DEF Known, BeginFails
        <5> QED
          BY <2>2, <3>1, <5>1, StillHanded
      <4>3. ASSUME NEW o \in Orders, Begin(o) PROVE Handed'
        <5>1. /\ agent'.todo \subseteq agent.todo /\ agent'.copying = o /\ o \in agent.todo
          BY <4>3, AgentFields DEF Begin, IsNext
        <5> QED
          BY <2>2, <3>1, <5>1, StillHanded
      <4>4. CASE CopyEnds
        <5>1. agent'.todo = agent.todo /\ agent'.copying = 0
          BY <4>4, AgentFields DEF CopyEnds
        <5> QED
          BY <2>2, <3>1, <5>1, StillHanded
      <4> QED
        BY <2>9, <4>1, <4>2, <4>3, <4>4 DEF Execute
    <3> QED
      BY <2>2, <2>3, <3>1, <3>2, NothingTaken
  <2>10. CASE GameStops \/ LockAge \/ RowTouched \/ BackupEnds \/ BackupLost \/ Crash
    <3>1. /\ UNCHANGED <<state, orders, agent>> /\ (running' => running) /\ (backup' => backup)
          /\ call' = call \/ call' = [h \in Handlers |-> Idle]
      BY <2>10 DEF GameStops, LockAge, RowTouched, BackupEnds, BackupLost, Crash
    <3>2. Handed'
      BY <2>2, <3>1, StillHanded
    <3> QED
      BY <2>2, <2>3, <3>1, <3>2, NothingTaken
  <2>12. CASE \/ BackupReported \/ ExpireStaleRestores
              \/ (\E suspended \in BOOLEAN : SetServerSuspended(suspended))
    <3>1. /\ UNCHANGED <<orders, call, running, backup, agent>>
          /\ state' # "none" \/ state' = state \/ ~Busy
      BY <2>1, <2>12 DEF BackupReported, ExpireStaleRestores, SetServerSuspended, Release
    <3>2. Handed'
      BY <2>2, <3>1, StillHanded
    <3>3. Busy' <=> Busy
      BY <3>1 DEF Busy, Open
    <3> QED
      BY <2>2, <2>3, <3>1, <3>2, <3>3, NothingTaken
  <2>13. CASE ResetTransientStates
    <3>1. /\ UNCHANGED <<orders, call, running, agent>> /\ ~backup'
          /\ state' = state \/ ~Busy
      BY <2>1, <2>13 DEF ResetTransientStates, Release
    <3>2. Handed'
      BY <2>2, <3>1, StillHanded
    <3>3. Busy' => Busy
      BY <3>1 DEF Busy, Open
    <3> QED
      BY <2>2, <2>3, <3>1, <3>2, <3>3, NothingTaken
  <2> QED
    BY <1>2, <2>2, <2>5, <2>6, <2>7, <2>8, <2>9, <2>10, <2>12, <2>13, PanelSound DEF Next
<1> QED
  BY <1>1, <1>2

\* The lock of a server and its one holder go together, and what the agent is given
\* to do finds the server stopped: the invariant the other theorems come from.
THEOREM Inductive == Spec => []IInv
<1>1. Init => IInv
  <2> SUFFICES ASSUME Init PROVE IInv
    OBVIOUS
  <2>1. LockAccounted
    BY DEF Init, LockAccounted
  <2>2. DOMAIN orders = {} /\ \A h \in Handlers : call[h].at = "idle"
    BY NewCalls DEF Init
  <2>3. Sound
    BY <2>2 DEF Init, Resting, Sound, Alone, Locked, Halted, Handed, Busy, Holding
  <2> QED
    BY <2>1, <2>3, InitTyped DEF IInv
<1>2. IInv /\ [Next]_vars => IInv'
  BY StepTyped, StepAccounted, StepSound DEF IInv
<1> QED
  BY <1>1, <1>2, PTL DEF Spec

\* As long as no start went out on a check made before the lock, and no lock was
\* lifted under an operation, the agent alone writes the folder it restores.
THEOREM FolderHasOneWriter == Spec => []OneWriter
<1>1. IInv => OneWriter
  <2> SUFFICES ASSUME IInv, ~excused, agent.copying # 0 PROVE ~running /\ ~backup
    BY DEF OneWriter
  <2>1. agent.copying \in DOMAIN orders /\ orders[agent.copying].state = "pending"
    BY AgentFields DEF IInv, Sound, Handed
  <2> QED
    BY <2>1 DEF IInv, Sound, Alone, Halted, Open
<1> QED
  BY <1>1, Inductive, PTL
=============================================================================
