-------------------------- MODULE SnapshotRotation --------------------------
(***************************************************************************)
(* The rounds of the snapshot agent of a node: it asks the panel for the   *)
(* settings, the snapshots to spare and the orders, executes the orders,   *)
(* takes an automatic snapshot where one is due, destroys what the         *)
(* rotation does not keep, sacrifices one snapshot when space is short,    *)
(* and reports.                                                            *)
(*                                                                         *)
(* Sources: agent/internal/instantanes/politique.go, service.go (Releve    *)
(* and what it calls); of the panel, snapshots.service.ts (agentState,     *)
(* applyReport, expireOrders) as far as the snapshots to spare go.         *)
(*                                                                         *)
(* A snapshot is the instant it was taken at, as in its name.  The clock   *)
(* moves between rounds and while files are copied: the rest of a round is *)
(* short.  A round is one thread: of the snapshots in use, only the one    *)
(* being restored meets a destruction, when room is made for the safety    *)
(* snapshot.  The settings do not change, and no one pins.                 *)
(***************************************************************************)
EXTENDS Integers, FiniteSets, FiniteSetsExt

CONSTANTS
  Levels,     \* Niveaux: records of an interval and a retention
  MaxAge,     \* DureeMax
  Grace,      \* DelaiDeGrace
  Grouping,   \* Regroupement: how old a snapshot given for a new one may be
  Requested,  \* how long the panel spares a snapshot that was asked for
  Horizon,    \* bound: the last instant
  MaxEvents   \* bound: orders, calls to the panel that fail, shortages of space

\* What Reglages.Valider requires.
ASSUME LevelsAssumption ==
  \A level \in Levels :
    /\ level.interval \in Nat \ {0}
    /\ level.retention \in level.interval..MaxAge
ASSUME DelaysAssumption ==
  /\ MaxAge \in Nat /\ Grace \in Nat /\ Requested \in Nat /\ Horizon \in Nat /\ MaxEvents \in Nat
  /\ Grouping \in 0..(Grace - 1)

VARIABLES
  now,
  snaps,     \* the snapshots on the node
  gardes,    \* those the panel asked to spare, as last heard
  round,     \* where the round is; the panel answered; the safety snapshot
  results,   \* snapshots asked for or taken for safety, by orders that the panel has
             \* not closed as failed
  known,     \* of those, the ones the panel has recorded
  reported,  \* when the panel last got a report with its results
  synced,    \* history: the last report the agent knows the consequences of
  taken,     \* history: every snapshot ever taken
  spent,     \* history: those destroyed by an order or for want of space
  late,      \* history: an hour went by without a report and its consequences
  events     \* orders, failed calls and shortages so far

rotationVars ==
  <<now, snaps, gardes, round, results, known, reported, synced, taken, spent, late, events>>

Instants == 0..Horizon
NoSnapshot == -1

RotationTypeOK ==
  /\ now \in Instants /\ {reported, synced} \subseteq 0..now
  /\ round \in [at: {"idle", "orders", "copying"}, heard: BOOLEAN,
                safety: Instants \cup {NoSnapshot}]
  /\ taken \subseteq 0..now /\ late \in BOOLEAN
  /\ snaps \cup spent \cup results \subseteq taken /\ snaps \cap spent = {}
  /\ gardes \subseteq known /\ known \subseteq results
  /\ synced <= reported /\ events \in 0..MaxEvents

RotationInit ==
  /\ now = 0 /\ snaps = {} /\ gardes = {}
  /\ round = [at |-> "idle", heard |-> FALSE, safety |-> NoSnapshot]
  /\ results = {} /\ known = {} /\ taken = {} /\ spent = {}
  /\ reported = 0 /\ synced = 0 /\ late = FALSE /\ events = 0

-----------------------------------------------------------------------------
(* The policy. *)

Age(s) == now - s

\* case_: the slots of a level are counted from the epoch.
Slot(s, level) == s \div level.interval

APrendreAuto == \E level \in Levels : \A s \in snaps : Slot(s, level) # Slot(now, level)

InRetention(S, level) == {s \in S : Age(s) <= level.retention}

\* A fault: the latest of each slot.
KeptByLevel_Latest(S, level) ==
  {s \in InRetention(S, level) :
     \A t \in InRetention(S, level) : t > s => Slot(t, level) # Slot(s, level)}

\* The oldest of each slot, among those in the retention of the level.
KeptByLevel(S, level) ==
  {s \in InRetention(S, level) :
     \A t \in InRetention(S, level) : t < s => Slot(t, level) # Slot(s, level)}

\* A fault: what the panel does not know yet is not spared.
AConserver_NoGrace(S) ==
  {s \in (S \cap gardes) \cup UNION {KeptByLevel(S, level) : level \in Levels} : Age(s) <= MaxAge}

AConserver(S) ==
  LET spared == {s \in S : s \in gardes \/ Age(s) < Grace}
      levels == UNION {KeptByLevel(S, level) : level \in Levels}
  IN {s \in spared \cup levels : Age(s) <= MaxAge}

\* tenirSeuil: one snapshot goes, the oldest of those nobody asked to spare, then
\* the oldest of the others; never one in use (enCours).
Sacrificed(S, enCours) ==
  LET free == S \ enCours
  IN IF free = {} THEN S
     ELSE IF free \subseteq gardes THEN S \ {Min(free)}
     ELSE S \ {Min(free \ gardes)}

Reusable == {s \in snaps : Grouping > 0 /\ Age(s) <= Grouping}

-----------------------------------------------------------------------------
(* A round. *)

Events(n) == events' = events + n /\ events' <= MaxEvents

\* The panel spares a day long what was asked for; when it does not answer, the
\* last answer still holds.
StartRound(heard) ==
  /\ round.at = "idle"
  /\ round' = [at |-> "orders", heard |-> heard, safety |-> NoSnapshot]
  /\ gardes' = IF heard THEN {s \in known \cap snaps : Age(s) < Requested} ELSE gardes
  /\ synced' = IF heard THEN reported ELSE synced
  /\ UNCHANGED <<now, snaps, results, known, reported, taken, spent, late>>
  /\ Events(IF heard THEN 0 ELSE 1)

Ordered == round.at = "orders" /\ round.heard /\ Events(1)

\* prendre, where space is short or not: one snapshot per instant, as the agent
\* waits for the next one.
Prendre(low, enCours) ==
  /\ low \/ now \notin taken
  /\ snaps' = IF low THEN Sacrificed(snaps, enCours) ELSE snaps \cup {now}
  /\ spent' = spent \cup (snaps \ snaps')
  /\ taken' = taken \cup snaps'

\* prendreRegroupe: the latest snapshot young enough, or else a new one.
PrendreRegroupe(low) ==
  IF Reusable # {} THEN UNCHANGED <<snaps, spent, taken>> ELSE Prendre(low, {})

\* The snapshot it gives, if any.
Given(low) == IF Reusable # {} THEN {Max(Reusable)} ELSE IF low THEN {} ELSE {now}

\* An order to take a snapshot: manual, or for safety before a backup is restored.
OrdrePrendre(low) ==
  /\ Ordered
  /\ PrendreRegroupe(low)
  /\ results' = results \cup Given(low)
  /\ UNCHANGED <<now, gardes, round, known, reported, synced, late>>

\* An order to archive: it has no cause, and the panel spares nothing for it.
Archiver(low) ==
  /\ Ordered
  /\ PrendreRegroupe(low)
  /\ round' = IF Given(low) = {} THEN round
              ELSE [round EXCEPT !.at = "copying", !.safety = NoSnapshot]
  /\ UNCHANGED <<now, gardes, results, known, reported, synced, late>>

\* An order to restore: the safety snapshot, then the copy.
Restaurer(source, low) ==
  /\ Ordered /\ source \in snaps
  /\ Prendre(low, {source})
  /\ round' = IF low THEN round ELSE [round EXCEPT !.at = "copying", !.safety = now]
  /\ UNCHANGED <<now, gardes, results, known, reported, synced, late>>

\* Copied, or not: the safety snapshot, where there is one, is the result.
Restored ==
  /\ round.at = "copying"
  /\ round' = [round EXCEPT !.at = "orders"]
  /\ results' = results \cup ({round.safety} \ {NoSnapshot})
  /\ UNCHANGED <<now, snaps, gardes, known, reported, synced, taken, spent, late, events>>

\* The panel closes as failed the orders a snapshot was taken for, before it is told:
\* half an hour went by (six for a restoration), or the restoration of a backup waits
\* no more.  The result comes too late to be written.
OrderExpires(s) ==
  /\ s \in results \ known
  /\ results' = results \ {s}
  /\ UNCHANGED <<now, snaps, gardes, round, known, reported, synced, taken, spent, late, events>>

\* The agent stops; the order will be executed again, with another safety snapshot.
AgentStops ==
  /\ round.at = "copying"
  /\ round' = [round EXCEPT !.at = "idle", !.safety = NoSnapshot]
  /\ UNCHANGED <<now, snaps, gardes, results, known, reported, synced, taken, spent, late, events>>

Detruire(s) ==
  /\ Ordered /\ s \in snaps
  /\ snaps' = snaps \ {s}
  /\ spent' = spent \cup {s}
  /\ UNCHANGED <<now, gardes, round, results, known, reported, synced, taken, late>>

Troubles == {"shortBefore", "shortAfter", "undelivered"}

\* Automatic snapshot, rotation, free space, report.  The results are those of the
\* orders the panel gave in this round.
EndRound(troubles) ==
  /\ round.at = "orders"
  /\ LET takes == APrendreAuto /\ "shortBefore" \notin troubles
         before == IF ~APrendreAuto THEN snaps
                   ELSE IF takes THEN snaps \cup {now} ELSE Sacrificed(snaps, {})
         kept == AConserver(before)
     IN /\ takes => now \notin taken
        /\ snaps' = IF "shortAfter" \in troubles THEN Sacrificed(kept, {}) ELSE kept
        /\ taken' = taken \cup before
        /\ spent' = spent \cup (snaps \ before) \cup (kept \ snaps')
  /\ late' = (late \/ now - synced >= Grace - Grouping)
  /\ LET told == "undelivered" \notin troubles /\ round.heard
     IN /\ known' = IF told THEN results ELSE known
        /\ reported' = IF told THEN now ELSE reported
  /\ round' = [round EXCEPT !.at = "idle", !.safety = NoSnapshot]
  /\ Events(Cardinality(troubles))
  /\ UNCHANGED <<now, gardes, results, synced>>

Passes ==
  /\ round.at \in {"idle", "copying"} /\ now < Horizon
  /\ now' = now + 1
  /\ UNCHANGED <<snaps, gardes, round, results, known, reported, synced, taken, spent, late, events>>

RotationNext ==
  \/ \E heard \in BOOLEAN : StartRound(heard)
  \/ \E low \in BOOLEAN : OrdrePrendre(low) \/ Archiver(low)
  \/ \E source \in snaps, low \in BOOLEAN : Restaurer(source, low)
  \/ Restored \/ AgentStops
  \/ \E s \in snaps : Detruire(s)
  \/ \E s \in results : OrderExpires(s)
  \/ \E troubles \in SUBSET Troubles : EndRound(troubles)
  \/ Passes

RotationSpec == RotationInit /\ [][RotationNext]_rotationVars

-----------------------------------------------------------------------------

\* The first snapshot taken in a slot of a level is there for the whole retention of
\* that level, whatever the other levels, the grace and the panel asked: what was
\* due was taken, and taking and keeping agree on the slots.
FirstOfSlotKept ==
  \A level \in Levels, s \in taken \ spent :
    /\ Age(s) <= level.retention
    /\ \A t \in taken : t < s => Slot(t, level) # Slot(s, level)
    => s \in snaps

\* A snapshot that was asked for, or taken for safety, outlives the rotation for as
\* long as the panel means to spare it, unless the panel closed its order as failed
\* first: the hour of grace covers the time it needs to hear of it, less the age it
\* may already have when it is given for a new one.
KeptAsPromised ==
  ~late => \A s \in results \ spent : Age(s) < Requested /\ Age(s) <= MaxAge => s \in snaps
=============================================================================
