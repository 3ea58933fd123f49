--------------------------- MODULE SubdomainsProofs ---------------------------
(***************************************************************************)
(* The names of a server in a DNS zone, for any labels, places, wishes and *)
(* number of changes: up to the first lapse, an active name is published   *)
(* exactly as its row lists it, and a name that is gone has left nothing.  *)
(***************************************************************************)
EXTENDS Subdomains, TLAPS

Name == [st: {"none", "pending", "active", "error"}, held: BOOLEAN, place: ZonePlaces,
         records: SUBSET Records]

Synchronisation ==
  [at: {"idle", "moving", "publishing", "withdrawing"}, unsure: BOOLEAN, held: BOOLEAN,
   place: ZonePlaces, setting: ZonePlaces, desired: Wishes \cup {{}}, listed: SUBSET Records]

Around ==
  /\ hosted \in BOOLEAN /\ wish \in Wishes /\ setting \in ZonePlaces
  /\ claim \in [label: Labels, place: ZonePlaces] \cup {Unclaimed}
  /\ turns \in 0..MaxTurns
  /\ lapses \subseteq {"stopped", "moved", "turned", "forbidden"}

Filed ==
  /\ names \in [Labels -> Name] /\ sync \in [Labels -> Synchronisation]
  /\ zone \in [Labels -> SUBSET Records] /\ tried \in [Labels -> SUBSET Wishes]

\* One record for a name in a place.
Distinct(S) == \A p, q \in S : p.place = q.place /\ p.name = q.name => p = q

\* What is in the zone z and not in the list has the name of a record of a wish of W,
\* and is where the name is published.
Spotted(z, list, place, W) ==
  \A r \in z : \/ \E p \in list : SameKey(p, r)
               \/ r.place = place /\ \E w \in W : \E t \in w : t.name = r.name

\* What is listed is in the zone, unless a wish of W has changed or removed it.
Trusted(z, list, place, W) ==
  \A p \in list : p \in z \/ p.place # place \/ \E w \in W : \A d \in w : ~Same(p, d)

StillWanted(list, place, D) == {p \in list : p.place = place /\ \E d \in D : Same(p, d)}

\* A row, with the wishes W tried in vain since it was last active.
RowSound(row, z, W) ==
  /\ Spotted(z, row.records, row.place, W)
  /\ row.held => Trusted(z, row.records, row.place, W)
  /\ row.held /\ W = {} => \A p \in row.records : p.place = row.place
  /\ row.st = "active" => W = {} /\ (~row.held => z \subseteq row.records)
  /\ row.st = "none" => z = {} /\ W = {} /\ row.records = {} /\ ~row.held

\* What a synchronisation has read stays true of the row it locks.
Begun(row, s, W) ==
  /\ row.st # "none" /\ s.unsure = (row.st # "active")
  /\ s.at = "moving" => /\ row.held /\ s.held /\ s.setting # s.place
                        /\ s.place = row.place /\ s.listed = row.records
  /\ s.at = "publishing" => row.held /\ s.held /\ s.place = s.setting /\ s.desired \in Wishes
  /\ s.at = "withdrawing" => /\ ~s.held
                             /\ row.held => s.place # row.place
                             /\ ~row.held => s.place = row.place

\* A publication of D, of which the list says what is done.
PublicationSound(z, list, place, D, W) ==
  /\ Distinct(z) /\ Distinct(list)
  /\ Spotted(z, list, place, W \cup {D})
  /\ StillWanted(list, place, D) \subseteq z

\* If it is undone, the row it has read still says where to look.
Reversible(row, z, list, D, W) ==
  /\ Spotted(z, row.records, row.place, W \cup {D})
  /\ StillWanted(row.records, row.place, D) \subseteq list

Publishes(row, s, z, W) ==
  /\ PublicationSound(z, s.listed, s.place, s.desired, W)
  /\ row.st # "active" /\ s.place = row.place => Reversible(row, z, s.listed, s.desired, W)
  /\ row.st = "active" => W = {}
  /\ s.desired # {} => \A w \in W : \A t \in w : \E d \in s.desired : d.name = t.name

Withdraws(row, s, z, W) ==
  /\ Spotted(z, s.listed, s.place, W)
  /\ row.st = "active" => W = {}
  /\ ~row.held => RowSound(row, z, W)

Sound(row, s, z, W) ==
  /\ Distinct(z) /\ Distinct(row.records) /\ Distinct(s.listed)
  /\ s.at # "idle" => Begun(row, s, W)
  /\ s.at \in {"idle", "moving"} => RowSound(row, z, W)
  /\ s.at = "publishing" => Publishes(row, s, z, W)
  /\ s.at = "withdrawing" => Withdraws(row, s, z, W)

AllSound == \A l \in Labels : Sound(names[l], sync[l], zone[l], tried[l])

SubdomainsIInv == Around /\ Filed /\ (lapses = {} => AllSound)

-----------------------------------------------------------------------------
(* The zone, the list and the wishes, whatever the label. *)

LEMMA RemovePublishes ==
  ASSUME NEW z, NEW list, NEW place, NEW D, NEW W, PublicationSound(z, list, place, D, W),
         NEW p \in list, p \notin StillWanted(list, place, D)
  PROVE  /\ PublicationSound({r \in z : ~SameKey(r, p)}, list, place, D, W)
         /\ PublicationSound({r \in z : ~SameKey(r, p)}, list \ {p}, place, D, W)
<1> DEFINE z2 == {r \in z : ~SameKey(r, p)}
<1>1. Distinct(z2) /\ Distinct(list) /\ Distinct(list \ {p})
  BY DEF PublicationSound, Distinct
<1>2. ASSUME NEW q \in StillWanted(list, place, D) PROVE q \in z2 /\ q # p
  <2>1. q # p /\ q \in list /\ q \in z
    BY DEF PublicationSound, StillWanted
  <2>2. ~SameKey(q, p)
    BY <2>1 DEF PublicationSound, Distinct, SameKey
  <2> QED
    BY <2>1, <2>2
<1>3. StillWanted(list, place, D) \subseteq z2 /\ StillWanted(list \ {p}, place, D) \subseteq z2
  BY <1>2 DEF StillWanted
<1>4. ASSUME NEW r \in z2
      PROVE  \/ \E q \in list \ {p} : SameKey(q, r)
             \/ r.place = place /\ \E w \in W \cup {D} : \E t \in w : t.name = r.name
  <2>1. \/ \E q \in list : SameKey(q, r)
        \/ r.place = place /\ \E w \in W \cup {D} : \E t \in w : t.name = r.name
    BY DEF PublicationSound, Spotted
  <2>2. ~SameKey(p, r)
    BY DEF SameKey
  <2> QED
    BY <2>1, <2>2
<1>5. Spotted(z2, list \ {p}, place, W \cup {D}) /\ Spotted(z2, list, place, W \cup {D})
  BY <1>4 DEF Spotted
<1> QED
  BY <1>1, <1>3, <1>5 DEF PublicationSound

LEMMA GonePublishes ==
  ASSUME NEW z, NEW list, NEW place, NEW D, NEW W, PublicationSound(z, list, place, D, W),
         NEW p \in list, \A r \in z : ~SameKey(r, p)
  PROVE  PublicationSound(z, list \ {p}, place, D, W)
<1>1. \A r \in z : ~SameKey(p, r)
  BY DEF SameKey
<1> QED
  BY <1>1 DEF PublicationSound, Distinct, Spotted, StillWanted

LEMMA StrayPublishes ==
  ASSUME NEW z, NEW list, NEW place, NEW D, NEW W, PublicationSound(z, list, place, D, W),
         NEW r \in z, \A p \in list : ~SameKey(p, r)
  PROVE  PublicationSound(z \ {r}, list, place, D, W)
<1>1. \A q \in list : q # r
  BY DEF SameKey
<1> QED
  BY <1>1 DEF PublicationSound, Distinct, Spotted, StillWanted

LEMMA PutIs ==
  ASSUME NEW d, NEW place
  PROVE  /\ Put(d, place).name = d.name /\ Put(d, place).type = d.type
         /\ Put(d, place).place = place /\ Put(d, place).content = d.content
  BY DEF Put

LEMMA UpdatePublishes ==
  ASSUME NEW z, NEW list, NEW place, NEW D, NEW W, PublicationSound(z, list, place, D, W),
         NEW p \in list, p \notin StillWanted(list, place, D), p.place = place,
         NEW d \in D, p.name = d.name, p.type = d.type,
         \E r \in z : SameKey(r, p)
  PROVE  /\ PublicationSound({r \in z : ~SameKey(r, p)} \cup {Put(d, place)}, list, place, D, W)
         /\ PublicationSound({r \in z : ~SameKey(r, p)} \cup {Put(d, place)},
                         (list \ {p}) \cup {Put(d, place)}, place, D, W)
<1> DEFINE less == {r \in z : ~SameKey(r, p)}
           rest == list \ {p}
<1>1. PublicationSound(less, list, place, D, W) /\ PublicationSound(less, rest, place, D, W)
  BY RemovePublishes
<1>2. PICK new : new = Put(d, place)
  OBVIOUS
<1>3. new.name = d.name /\ new.type = d.type /\ new.place = place
  BY <1>2, PutIs
<1>4. \A q \in rest : ~(q.place = place /\ q.name = d.name)
  BY DEF PublicationSound, Distinct
<1>5. ASSUME NEW q \in less PROVE ~(q.place = place /\ q.name = d.name)
  <2>1. PICK r \in z : SameKey(r, p)
    OBVIOUS
  <2>2. q \in z /\ ~SameKey(q, p)
    OBVIOUS
  <2> HIDE DEF less
  <2> QED
    BY <2>1, <2>2 DEF PublicationSound, Distinct, SameKey
<1> HIDE DEF less, rest
<1>6. Distinct(less \cup {new}) /\ Distinct(rest \cup {new})
  BY <1>1, <1>3, <1>4, <1>5 DEF PublicationSound, Distinct
<1>7. SameKey(new, new) /\ SameKey(p, new)
  BY <1>3 DEF SameKey
<1>8. Spotted(less \cup {new}, list, place, W \cup {D})
  BY <1>1, <1>7 DEF PublicationSound, Spotted
<1>9. Spotted(less \cup {new}, rest \cup {new}, place, W \cup {D})
  BY <1>1, <1>7 DEF PublicationSound, Spotted
<1>10. /\ StillWanted(list, place, D) \subseteq less \cup {new}
       /\ StillWanted(rest \cup {new}, place, D) \subseteq less \cup {new}
  BY <1>1 DEF PublicationSound, StillWanted
<1> QED
  BY <1>1, <1>2, <1>6, <1>8, <1>9, <1>10 DEF PublicationSound, less, rest

LEMMA CreatePublishes ==
  ASSUME NEW z, NEW list, NEW place, NEW D, NEW W, PublicationSound(z, list, place, D, W),
         NEW d \in D, \A q \in list : ~(q.place = place /\ q.name = d.name),
         \A r \in z : r.name = d.name /\ r.place = place /\ (\A p \in list : ~SameKey(p, r))
                        => r.type = d.type
  PROVE  LET new == Put(d, place)
             z2 == {r \in z : ~SameKey(r, new)} \cup {new}
         IN /\ PublicationSound(z2, list, place, D, W)
            /\ PublicationSound(z2, list \cup {new}, place, D, W)
<1>1. PICK new : new = Put(d, place)
  OBVIOUS
<1>2. new.name = d.name /\ new.type = d.type /\ new.place = place
  BY <1>1, PutIs
<1> DEFINE less == {r \in z : ~SameKey(r, new)}
<1>3. ASSUME NEW q \in less PROVE ~(q.place = place /\ q.name = d.name)
  <2>1. q \in z /\ ~SameKey(q, new)
    OBVIOUS
  <2>2. CASE \E p \in list : SameKey(p, q)
    BY <2>2 DEF SameKey
  <2>3. CASE \A p \in list : ~SameKey(p, q)
    BY <1>2, <2>1, <2>3 DEF SameKey
  <2> QED
    BY <2>2, <2>3
<1>4. less \subseteq z
  OBVIOUS
<1>5. \A q \in list : ~SameKey(q, new)
  BY <1>2 DEF SameKey
<1>6. StillWanted(list, place, D) \subseteq less
  BY <1>5 DEF PublicationSound, StillWanted
<1> HIDE DEF less
<1>7. Distinct(less \cup {new}) /\ Distinct(list \cup {new})
  BY <1>2, <1>3, <1>4 DEF PublicationSound, Distinct
<1>8. SameKey(new, new)
  BY DEF SameKey
<1>9. Spotted(less \cup {new}, list, place, W \cup {D})
  BY <1>2, <1>4 DEF PublicationSound, Spotted
<1>10. Spotted(less \cup {new}, list \cup {new}, place, W \cup {D})
  BY <1>2, <1>4 DEF PublicationSound, Spotted
<1>11. /\ StillWanted(list, place, D) \subseteq less \cup {new}
       /\ StillWanted(list \cup {new}, place, D) \subseteq less \cup {new}
  BY <1>6 DEF StillWanted
<1> QED
  BY <1>1, <1>7, <1>9, <1>10, <1>11 DEF PublicationSound, less

\* At the end, what is listed and wanted is exactly what there is.
LEMMA PublishedExactly ==
  ASSUME NEW z, NEW list, NEW place, NEW D, NEW W, PublicationSound(z, list, place, D, W),
         list = StillWanted(list, place, D),
         \A d \in D : \E p \in list : Same(p, d),
         \A w \in W : \A t \in w : \E d \in D : d.name = t.name
  PROVE  z = list
<1>1. list \subseteq z
  BY DEF PublicationSound
<1>2. ASSUME NEW r \in z PROVE r \in list
  <2>1. \E p \in list : p.place = r.place /\ p.name = r.name
    <3>1. CASE \E p \in list : SameKey(p, r)
      BY <3>1 DEF SameKey
    <3>2. CASE r.place = place /\ \E w \in W \cup {D} : \E t \in w : t.name = r.name
      <4>1. PICK d \in D : d.name = r.name
        BY <3>2
      <4>2. PICK p \in list : Same(p, d)
        OBVIOUS
      <4>3. p.place = place
        BY DEF StillWanted
      <4> QED
        BY <3>2, <4>1, <4>2, <4>3 DEF Same
    <3> QED
      BY <3>1, <3>2 DEF PublicationSound, Spotted
  <2> QED
    BY <1>1, <2>1 DEF PublicationSound, Distinct
<1> QED
  BY <1>1, <1>2

LEMMA StaysReversible ==
  ASSUME NEW row, NEW z, NEW list, NEW D, NEW W, Reversible(row, z, list, D, W),
         NEW z2, NEW list2,
         \A r \in z2 : r \in z \/ (r.place = row.place /\ \E d \in D : d.name = r.name),
         StillWanted(list, row.place, D) \subseteq list2
  PROVE  Reversible(row, z2, list2, D, W)
<1>1. StillWanted(row.records, row.place, D) \subseteq StillWanted(list, row.place, D)
  BY DEF Reversible, StillWanted
<1> QED
  BY <1>1 DEF Reversible, Spotted

\* What is left of a zone raises no more questions than the whole.
LEMMA LessSpotted ==
  ASSUME NEW z, NEW list, NEW place, NEW W, Spotted(z, list, place, W), NEW z2 \in SUBSET z
  PROVE  Spotted(z2, list, place, W)
  BY DEF Spotted

-----------------------------------------------------------------------------
(* A step on one label. *)

Becomes(l, n, s, z, W) ==
  /\ names' = [names EXCEPT ![l] = n] /\ sync' = [sync EXCEPT ![l] = s]
  /\ zone' = [zone EXCEPT ![l] = z] /\ tried' = [tried EXCEPT ![l] = W]

LEMMA AsItIs ==
  ASSUME Filed, NEW l \in Labels
  PROVE  /\ names = [names EXCEPT ![l] = names[l]] /\ sync = [sync EXCEPT ![l] = sync[l]]
         /\ zone = [zone EXCEPT ![l] = zone[l]] /\ tried = [tried EXCEPT ![l] = tried[l]]
         /\ names[l] \in Name /\ sync[l] \in Synchronisation
         /\ zone[l] \in SUBSET Records /\ tried[l] \in SUBSET Wishes
  BY DEF Filed

LEMMA LabelStep ==
  ASSUME SubdomainsIInv, lapses = {}, NEW l \in Labels, NEW n \in Name,
         NEW s \in Synchronisation, NEW z \in SUBSET Records, NEW W \in SUBSET Wishes,
         Becomes(l, n, s, z, W), Around', lapses' = {} => Sound(n, s, z, W)
  PROVE  SubdomainsIInv'
<1>1. /\ names' \in [Labels -> Name] /\ names'[l] = n
      /\ \A m \in Labels : m # l => names'[m] = names[m]
  BY DEF SubdomainsIInv, Filed, Becomes
<1>2. /\ sync' \in [Labels -> Synchronisation] /\ sync'[l] = s
      /\ \A m \in Labels : m # l => sync'[m] = sync[m]
  BY DEF SubdomainsIInv, Filed, Becomes
<1>3. /\ zone' \in [Labels -> SUBSET Records] /\ zone'[l] = z
      /\ \A m \in Labels : m # l => zone'[m] = zone[m]
  BY DEF SubdomainsIInv, Filed, Becomes
<1>4. /\ tried' \in [Labels -> SUBSET Wishes] /\ tried'[l] = W
      /\ \A m \in Labels : m # l => tried'[m] = tried[m]
  BY DEF SubdomainsIInv, Filed, Becomes
<1>5. ASSUME NEW m \in Labels, lapses' = {} PROVE Sound(names'[m], sync'[m], zone'[m], tried'[m])
  BY <1>1, <1>2, <1>3, <1>4, <1>5 DEF SubdomainsIInv, AllSound
<1> QED
  BY <1>1, <1>2, <1>3, <1>4, <1>5 DEF SubdomainsIInv, AllSound, Filed

LEMMA NoSyncTyped == NoSync \in Synchronisation /\ NoSync.at = "idle" /\ NoSync.listed = {}
<1>1. FirstPlace \in ZonePlaces
  BY SubdomainsAssumption DEF FirstPlace
<1> QED
  BY <1>1 DEF NoSync, Synchronisation

\* A row that nothing is done about.
LEMMA AtRest ==
  ASSUME NEW row, NEW z, NEW W, Distinct(z), Distinct(row.records), RowSound(row, z, W)
  PROVE  Sound(row, NoSync, z, W)
  BY NoSyncTyped DEF Sound, Distinct

TriedOf(l) == IF sync[l].at = "publishing" THEN tried[l] \cup {sync[l].desired} ELSE tried[l]

LEMMA TriedTyped ==
  ASSUME SubdomainsIInv, lapses = {}, NEW l \in Labels
  PROVE  /\ TriedOf(l) \in SUBSET Wishes
         /\ Tried(l) => tried' = [tried EXCEPT ![l] = TriedOf(l)]
<1>1. sync[l].at = "publishing" => sync[l].desired \in Wishes
  BY DEF SubdomainsIInv, AllSound, Sound, Begun
<1> QED
  BY <1>1, AsItIs DEF SubdomainsIInv, TriedOf, Tried

LEMMA SavedIs ==
  ASSUME SubdomainsIInv, NEW l \in Labels, NEW st \in {"active", "error"}
  PROVE  /\ Saved(l, st) \in Name /\ Saved(l, st).st = st /\ Saved(l, st).held = sync[l].held
         /\ Saved(l, st).place = sync[l].place /\ Saved(l, st).records = sync[l].listed
<1>1. sync[l] \in Synchronisation
  BY AsItIs DEF SubdomainsIInv
<1> QED
  BY <1>1 DEF Saved, Name, Synchronisation

\* Wherever a synchronisation fails, what it writes says where to look.
LEMMA FailedSound ==
  ASSUME SubdomainsIInv, lapses = {}, NEW l \in Labels, sync[l].at # "idle", NEW z,
         sync[l].at = "moving" => z = zone[l],
         sync[l].at = "publishing" =>
           PublicationSound(z, sync[l].listed, sync[l].place, sync[l].desired, tried[l]),
         sync[l].at = "withdrawing" =>
           Distinct(z) /\ Spotted(z, sync[l].listed, sync[l].place, tried[l])
  PROVE  Sound(Saved(l, "error"), NoSync, z, TriedOf(l))
<1> DEFINE row == names[l]
           s == sync[l]
           W == tried[l]
<1>1. PICK new : new = Saved(l, "error")
  OBVIOUS
<1>2. /\ new.st = "error" /\ new.held = s.held /\ new.place = s.place /\ new.records = s.listed
  BY <1>1, SavedIs
<1>3. Sound(row, s, zone[l], W) /\ s \in Synchronisation
  BY AsItIs DEF SubdomainsIInv, AllSound
<1>4. Begun(row, s, W) /\ Distinct(s.listed)
  BY <1>3 DEF Sound
<1> HIDE DEF row, s, W
<1>5. CASE s.at = "moving"
  <2>1. RowSound(row, z, W) /\ Distinct(z)
    BY <1>3, <1>5 DEF Sound, s
  <2>2. /\ row.held /\ s.held /\ s.place = row.place /\ s.listed = row.records
    BY <1>4, <1>5 DEF Begun
  <2>3. RowSound(new, z, W)
    BY <1>2, <2>1, <2>2 DEF RowSound
  <2>4. TriedOf(l) = W
    BY <1>5 DEF TriedOf, s, W
  <2> QED
    BY <1>1, <1>2, <1>4, <2>1, <2>3, <2>4, AtRest
<1>6. CASE s.at = "publishing"
  <2>1. PublicationSound(z, s.listed, s.place, s.desired, W)
    BY <1>6 DEF s, W
  <2>2. TriedOf(l) = W \cup {s.desired}
    BY <1>6 DEF TriedOf, s, W
  <2>3. Trusted(z, s.listed, s.place, W \cup {s.desired})
    BY <2>1 DEF PublicationSound, Trusted, StillWanted
  <2>4. RowSound(new, z, W \cup {s.desired}) /\ Distinct(z)
    BY <1>2, <2>1, <2>3 DEF RowSound, PublicationSound
  <2> QED
    BY <1>1, <1>2, <1>4, <2>2, <2>4, AtRest
<1>7. CASE s.at = "withdrawing"
  <2>1. Distinct(z) /\ Spotted(z, s.listed, s.place, W) /\ ~s.held
    BY <1>4, <1>7 DEF s, W, Begun
  <2>2. RowSound(new, z, W)
    BY <1>2, <2>1 DEF RowSound
  <2>3. TriedOf(l) = W
    BY <1>7 DEF TriedOf, s, W
  <2> QED
    BY <1>1, <1>2, <1>4, <2>1, <2>2, <2>3, AtRest
<1> QED
  BY <1>3, <1>5, <1>6, <1>7 DEF Synchronisation, s

LEMMA AroundStays ==
  ASSUME SubdomainsIInv, UNCHANGED <<hosted, wish, setting, claim, turns>>,
         lapses' \subseteq {"stopped", "moved", "turned", "forbidden"}
  PROVE  Around'
  BY DEF SubdomainsIInv, Around

LEMMA FailsKeep ==
  ASSUME SubdomainsIInv, lapses = {}, NEW l \in Labels, Fails(l), NEW z \in SUBSET Records,
         zone' = [zone EXCEPT ![l] = z], UNCHANGED <<hosted, wish, setting, claim, turns, lapses>>,
         Sound(Saved(l, "error"), NoSync, z, TriedOf(l))
  PROVE  SubdomainsIInv'
<1>1. Becomes(l, Saved(l, "error"), NoSync, z, TriedOf(l)) /\ TriedOf(l) \in SUBSET Wishes
  BY TriedTyped DEF Fails, Becomes
<1>2. Around'
  BY AroundStays DEF SubdomainsIInv, Around
<1> QED
  BY <1>1, <1>2, LabelStep, SavedIs, NoSyncTyped

LEMMA ProviderRefusesKeeps ==
  ASSUME SubdomainsIInv, lapses = {}, NEW l \in Labels, ProviderRefuses(l)
  PROVE  SubdomainsIInv'
<1>1. /\ sync[l].at # "idle" /\ Fails(l)
      /\ UNCHANGED <<hosted, wish, setting, claim, zone, turns, lapses>>
  BY DEF ProviderRefuses
<1>2. Sound(names[l], sync[l], zone[l], tried[l])
  BY DEF SubdomainsIInv, AllSound
<1>3. Sound(Saved(l, "error"), NoSync, zone[l], TriedOf(l))
  BY <1>1, <1>2, FailedSound DEF Sound, Publishes, Withdraws
<1>4. zone' = [zone EXCEPT ![l] = zone[l]] /\ zone[l] \in SUBSET Records
  BY <1>1, AsItIs DEF SubdomainsIInv
<1> QED
  BY <1>1, <1>3, <1>4, FailsKeep

\* A synchronisation that goes on with another list.
LEMMA Relisted ==
  ASSUME SubdomainsIInv, NEW l \in Labels, NEW list \in SUBSET Records
  PROVE  LET s == [sync[l] EXCEPT !.listed = list]
         IN /\ s \in Synchronisation /\ s.listed = list
            /\ s.at = sync[l].at /\ s.unsure = sync[l].unsure /\ s.held = sync[l].held
            /\ s.place = sync[l].place /\ s.setting = sync[l].setting
            /\ s.desired = sync[l].desired
            /\ [sync EXCEPT ![l].listed = list] = [sync EXCEPT ![l] = s]
<1>1. sync[l] \in Synchronisation
  BY AsItIs DEF SubdomainsIInv
<1> QED
  BY <1>1 DEF Synchronisation

LEMMA ListingSound ==
  ASSUME SubdomainsIInv, lapses = {}, NEW l \in Labels, NEW z, NEW list \in SUBSET Records,
         sync[l].at \in {"publishing", "withdrawing"},
         sync[l].at = "publishing" =>
           /\ PublicationSound(z, list, sync[l].place, sync[l].desired, tried[l])
           /\ Reversible(names[l], zone[l], sync[l].listed, sync[l].desired, tried[l])
                /\ sync[l].place = names[l].place
                => Reversible(names[l], z, list, sync[l].desired, tried[l]),
         sync[l].at = "withdrawing" =>
           /\ Distinct(z) /\ Distinct(list) /\ z \subseteq zone[l]
           /\ Spotted(z, list, sync[l].place, tried[l])
  PROVE  Sound(names[l], [sync[l] EXCEPT !.listed = list], z, tried[l])
<1> DEFINE row == names[l]
           W == tried[l]
<1>1. PICK s : s = [sync[l] EXCEPT !.listed = list]
  OBVIOUS
<1>2. /\ s.at = sync[l].at /\ s.unsure = sync[l].unsure /\ s.held = sync[l].held
      /\ s.place = sync[l].place /\ s.setting = sync[l].setting
      /\ s.desired = sync[l].desired /\ s.listed = list
  BY <1>1, Relisted
<1>3. Sound(row, sync[l], zone[l], W)
  BY DEF SubdomainsIInv, AllSound
<1> HIDE DEF row, W
<1>4. Begun(row, s, W)
  BY <1>2, <1>3 DEF Sound, Begun
<1>5. CASE s.at = "publishing"
  <2>1. Publishes(row, sync[l], zone[l], W)
    BY <1>2, <1>3, <1>5 DEF Sound
  <2>2. Publishes(row, s, z, W)
    BY <1>2, <1>5, <2>1 DEF Publishes, row, W
  <2>3. Distinct(z) /\ Distinct(list)
    BY <1>2, <1>5 DEF PublicationSound
  <2> QED
    BY <1>1, <1>2, <1>3, <1>4, <1>5, <2>2, <2>3 DEF Sound, row, W
<1>6. CASE s.at = "withdrawing"
  <2>1. Withdraws(row, sync[l], zone[l], W) /\ row.st # "none"
    BY <1>2, <1>3, <1>4, <1>6 DEF Sound, Begun
  <2>2. z \subseteq zone[l] /\ Spotted(z, list, s.place, W) /\ Distinct(z) /\ Distinct(list)
    BY <1>2, <1>6 DEF W
  <2>3. ~row.held => RowSound(row, z, W)
    BY <2>1, <2>2 DEF Withdraws, RowSound, Spotted
  <2>4. Withdraws(row, s, z, W)
    BY <1>2, <2>1, <2>2, <2>3 DEF Withdraws
  <2> QED
    BY <1>1, <1>2, <1>3, <1>4, <1>6, <2>2, <2>4 DEF Sound, row, W
<1> QED
  BY <1>2, <1>5, <1>6

\* A call that is carried out, and one whose answer is lost.
LEMMA CarriedKeeps ==
  ASSUME SubdomainsIInv, lapses = {}, NEW l \in Labels, NEW z \in SUBSET Records,
         NEW list \in SUBSET Records, Carried(l, z, list),
         sync[l].at \in {"publishing", "withdrawing"},
         sync[l].at = "publishing" =>
           /\ PublicationSound(z, sync[l].listed, sync[l].place, sync[l].desired, tried[l])
           /\ PublicationSound(z, list, sync[l].place, sync[l].desired, tried[l])
           /\ Reversible(names[l], zone[l], sync[l].listed, sync[l].desired, tried[l])
                /\ sync[l].place = names[l].place
                => Reversible(names[l], z, list, sync[l].desired, tried[l]),
         sync[l].at = "withdrawing" =>
           /\ Distinct(z) /\ Distinct(list) /\ z \subseteq zone[l]
           /\ Spotted(z, sync[l].listed, sync[l].place, tried[l])
           /\ Spotted(z, list, sync[l].place, tried[l])
  PROVE  SubdomainsIInv'
<1>1. /\ zone' = [zone EXCEPT ![l] = z]
      /\ UNCHANGED <<hosted, wish, setting, claim, turns, lapses>>
      /\ \/ sync' = [sync EXCEPT ![l].listed = list] /\ UNCHANGED <<names, tried>>
         \/ Fails(l)
  BY DEF Carried
<1>2. CASE Fails(l)
  BY <1>1, <1>2, FailedSound, FailsKeep
<1>3. CASE sync' = [sync EXCEPT ![l].listed = list] /\ UNCHANGED <<names, tried>>
  <2>1. PICK s : s = [sync[l] EXCEPT !.listed = list]
    OBVIOUS
  <2>2. s \in Synchronisation /\ Becomes(l, names[l], s, z, tried[l])
    BY <1>1, <1>3, <2>1, Relisted, AsItIs DEF SubdomainsIInv, Becomes
  <2>3. Sound(names[l], s, z, tried[l])
    BY <2>1, ListingSound
  <2>4. Around'
    BY <1>1, AroundStays DEF SubdomainsIInv, Around
  <2> QED
    BY <2>2, <2>3, <2>4, LabelStep, AsItIs DEF SubdomainsIInv
<1> QED
  BY <1>1, <1>2, <1>3

-----------------------------------------------------------------------------
(* publish() *)

\* What the invariant says of a publication in progress.
LEMMA InPublication ==
  ASSUME SubdomainsIInv, lapses = {}, NEW l \in Labels, sync[l].at = "publishing"
  PROVE  /\ sync[l] \in Synchronisation /\ names[l] \in Name
         /\ Begun(names[l], sync[l], tried[l])
         /\ Publishes(names[l], sync[l], zone[l], tried[l])
         /\ PublicationSound(zone[l], sync[l].listed, sync[l].place, sync[l].desired, tried[l])
         /\ sync[l].desired \in Wishes /\ sync[l].listed \subseteq Records
         /\ zone[l] \subseteq Records /\ sync[l].place \in ZonePlaces
         /\ KeptHere(l) = StillWanted(sync[l].listed, sync[l].place, sync[l].desired)
<1>1. /\ sync[l] \in Synchronisation /\ names[l] \in Name /\ zone[l] \subseteq Records
      /\ Sound(names[l], sync[l], zone[l], tried[l])
  BY AsItIs DEF SubdomainsIInv, AllSound
<1>2. sync[l].listed \subseteq Records /\ sync[l].place \in ZonePlaces
  BY <1>1 DEF Synchronisation
<1>3. KeptHere(l) = StillWanted(sync[l].listed, sync[l].place, sync[l].desired)
  BY DEF KeptHere, Here, StillWanted
<1> QED
  BY <1>1, <1>2, <1>3 DEF Sound, Publishes, Begun

\* Nothing wanted that is missing bears the name of a record that is kept.
LEMMA MissingIsAlone ==
  ASSUME SubdomainsIInv, lapses = {}, NEW l \in Labels, sync[l].at = "publishing",
         NEW d \in Missing(l), NEW p \in Here(l), p.name = d.name
  PROVE  p \notin KeptHere(l)
<1>1. sync[l].desired \in Wishes /\ d \in sync[l].desired
  BY InPublication DEF Missing
<1> SUFFICES ASSUME p \in KeptHere(l) PROVE FALSE
  OBVIOUS
<1>2. PICK e \in sync[l].desired : Same(p, e)
  BY DEF KeptHere
<1>3. e = d
  BY <1>1, <1>2, WishesAssumption DEF Same
<1> QED
  BY <1>2, <1>3 DEF Missing

LEMMA PutRecord ==
  ASSUME SubdomainsIInv, lapses = {}, NEW l \in Labels, sync[l].at = "publishing",
         NEW d \in sync[l].desired
  PROVE  Put(d, sync[l].place) \in Records
<1>1. sync[l].desired \in Wishes /\ sync[l].place \in ZonePlaces
  BY InPublication
<1> QED
  BY <1>1 DEF Put, Records

LEMMA UpdateKeeps ==
  ASSUME SubdomainsIInv, lapses = {}, NEW l \in Labels, Update(l)
  PROVE  SubdomainsIInv'
<1> DEFINE row == names[l]
           D == sync[l].desired
           W == tried[l]
           place == sync[l].place
           list == sync[l].listed
<1>1. sync[l].at = "publishing"
  BY DEF Update
<1>2. PICK p \in Candidates(l), d \in Missing(l) :
        /\ p.name = d.name /\ p.type = d.type
        /\ LET new == Put(d, sync[l].place)
               others == sync[l].listed \ {p}
           IN IF \E r \in zone[l] : SameKey(r, p)
              THEN Carried(l, Without(l, p) \cup {new}, others \cup {new})
              ELSE /\ sync' = [sync EXCEPT ![l].listed = others]
                   /\ UNCHANGED <<hosted, wish, setting, names, claim, zone, tried, turns, lapses>>
  BY DEF Update
<1>3. /\ p \in list /\ p.place = place /\ p \notin StillWanted(list, place, D) /\ d \in D
      /\ PublicationSound(zone[l], list, place, D, W)
      /\ list \subseteq Records /\ zone[l] \subseteq Records
  BY <1>1, InPublication DEF Candidates, Here, Missing
<1>4. CASE \E r \in zone[l] : SameKey(r, p)
  <2> DEFINE z2 == Without(l, p) \cup {Put(d, place)}
             list2 == (list \ {p}) \cup {Put(d, place)}
  <2>1. Carried(l, z2, list2)
    BY <1>2, <1>4
  <2>2. z2 \in SUBSET Records /\ list2 \in SUBSET Records
    BY <1>1, <1>3, PutRecord DEF Without
  <2>3. PublicationSound(z2, list, place, D, W) /\ PublicationSound(z2, list2, place, D, W)
    BY <1>2, <1>3, <1>4, UpdatePublishes DEF Without
  <2>4. Reversible(row, zone[l], list, D, W) /\ place = row.place =>
          Reversible(row, z2, list2, D, W)
    <3>1. StillWanted(list, place, D) \subseteq list2
      BY <1>3 DEF StillWanted
    <3>2. \A r \in z2 : r \in zone[l] \/ (r.place = place /\ \E e \in D : e.name = r.name)
      BY <1>3, PutIs DEF Without
    <3> HIDE DEF z2, list2, list, place, D, W, row
    <3> QED
      BY <3>1, <3>2, StaysReversible
  <2> HIDE DEF z2, list2
  <2> QED
    BY <1>1, <2>1, <2>2, <2>3, <2>4, CarriedKeeps
<1>5. CASE ~\E r \in zone[l] : SameKey(r, p)
  <2> DEFINE list2 == list \ {p}
  <2>1. /\ sync' = [sync EXCEPT ![l].listed = list2]
        /\ UNCHANGED <<hosted, wish, setting, names, claim, zone, tried, turns, lapses>>
    BY <1>2, <1>5
  <2>2. list2 \in SUBSET Records
    BY <1>3
  <2>3. PublicationSound(zone[l], list2, place, D, W)
    BY <1>3, <1>5, GonePublishes
  <2>4. Reversible(row, zone[l], list, D, W) /\ place = row.place
          => Reversible(row, zone[l], list2, D, W)
    <3>1. StillWanted(list, place, D) \subseteq list2
      BY <1>3 DEF StillWanted
    <3> HIDE DEF list2, list, place, D, W, row
    <3> QED
      BY <3>1, StaysReversible
  <2> HIDE DEF list2
  <2>5. PICK s : s = [sync[l] EXCEPT !.listed = list2]
    OBVIOUS
  <2>6. s \in Synchronisation /\ Becomes(l, names[l], s, zone[l], tried[l])
    BY <2>1, <2>2, <2>5, Relisted, AsItIs DEF SubdomainsIInv, Becomes
  <2>7. Sound(names[l], s, zone[l], tried[l])
    BY <1>1, <2>2, <2>3, <2>4, <2>5, ListingSound
  <2>8. Around'
    BY <2>1, AroundStays DEF SubdomainsIInv, Around
  <2> QED
    BY <2>6, <2>7, <2>8, LabelStep, AsItIs DEF SubdomainsIInv
<1> QED
  BY <1>4, <1>5

\* A lapse is a step after which nothing is said: only the types are kept.
LEMMA LapseKeeps ==
  ASSUME SubdomainsIInv, lapses = {}, NEW l \in Labels, NEW list \in SUBSET Records,
         sync' = [sync EXCEPT ![l].listed = list],
         UNCHANGED <<hosted, wish, setting, names, claim, zone, tried, turns>>,
         lapses' = lapses \cup {"forbidden"}
  PROVE  SubdomainsIInv'
<1>1. PICK s : s = [sync[l] EXCEPT !.listed = list]
  OBVIOUS
<1>2. s \in Synchronisation /\ Becomes(l, names[l], s, zone[l], tried[l])
  BY <1>1, Relisted, AsItIs DEF SubdomainsIInv, Becomes
<1>3. Around' /\ lapses' # {}
  BY AroundStays DEF SubdomainsIInv, Around
<1> QED
  BY <1>2, <1>3, LabelStep, AsItIs DEF SubdomainsIInv

\* removeRecords(), of a record that is not to be kept.
LEMMA RemoveKeeps ==
  ASSUME SubdomainsIInv, lapses = {}, NEW l \in Labels, NEW p \in sync[l].listed, Remove(l, p),
         sync[l].at = "withdrawing" \/ (sync[l].at = "publishing" /\ p \notin KeptHere(l))
  PROVE  SubdomainsIInv'
<1> DEFINE row == names[l]
           D == sync[l].desired
           W == tried[l]
           place == sync[l].place
           list == sync[l].listed
           z2 == Without(l, p)
           list2 == list \ {p}
<1>1. list \subseteq Records /\ zone[l] \subseteq Records
  BY AsItIs DEF SubdomainsIInv, Synchronisation
<1>2. z2 \in SUBSET Records /\ list2 \in SUBSET Records /\ z2 \subseteq zone[l]
  BY <1>1 DEF Without
<1>3. \/ Carried(l, z2, list2)
      \/ /\ sync' = [sync EXCEPT ![l].listed = list2]
         /\ lapses' = lapses \cup {"forbidden"}
         /\ UNCHANGED <<hosted, wish, setting, names, claim, zone, tried, turns>>
  BY DEF Remove
<1>4. CASE Carried(l, z2, list2) /\ sync[l].at = "publishing"
  <2>1. PublicationSound(zone[l], list, place, D, W) /\ p \notin StillWanted(list, place, D)
    BY <1>4, InPublication
  <2>2. PublicationSound(z2, list, place, D, W) /\ PublicationSound(z2, list2, place, D, W)
    BY <2>1, RemovePublishes DEF Without
  <2>3. Reversible(row, zone[l], list, D, W) /\ place = row.place =>
          Reversible(row, z2, list2, D, W)
    <3>1. StillWanted(list, place, D) \subseteq list2
      BY <2>1 DEF StillWanted
    <3> HIDE DEF z2, list2, list, place, D, W, row
    <3> QED
      BY <1>2, <3>1, StaysReversible
  <2> HIDE DEF z2, list2
  <2> QED
    BY <1>2, <1>4, <2>2, <2>3, CarriedKeeps
<1>5. CASE Carried(l, z2, list2) /\ sync[l].at = "withdrawing"
  <2>1. Sound(row, sync[l], zone[l], W)
    BY DEF SubdomainsIInv, AllSound
  <2>2. Distinct(zone[l]) /\ Distinct(list) /\ Spotted(zone[l], list, place, W)
    BY <1>5, <2>1 DEF Sound, Withdraws
  <2>3. \A r \in z2 : ~SameKey(p, r)
    BY DEF Without, SameKey
  <2>4. Distinct(z2) /\ Distinct(list2)
    BY <1>2, <2>2 DEF Distinct
  <2>5. Spotted(z2, list, place, W) /\ Spotted(z2, list2, place, W)
    BY <1>2, <2>2, <2>3 DEF Spotted
  <2> HIDE DEF z2, list2
  <2> QED
    BY <1>2, <1>5, <2>4, <2>5, CarriedKeeps
<1>6. CASE /\ sync' = [sync EXCEPT ![l].listed = list2]
           /\ lapses' = lapses \cup {"forbidden"}
           /\ UNCHANGED <<hosted, wish, setting, names, claim, zone, tried, turns>>
  BY <1>2, <1>6, LapseKeeps
<1> QED
  BY <1>3, <1>4, <1>5, <1>6

LEMMA CreateKeeps ==
  ASSUME SubdomainsIInv, lapses = {}, NEW l \in Labels, Create(l)
  PROVE  SubdomainsIInv'
<1> DEFINE row == names[l]
           D == sync[l].desired
           W == tried[l]
           place == sync[l].place
           list == sync[l].listed
<1>1. sync[l].at = "publishing" /\ Candidates(l) = {} /\ Blocking(l) = {}
  BY DEF Create
<1>2. PICK d \in Missing(l) :
        LET new == Put(d, sync[l].place)
            wrong == {r \in Strays(l, d) : r.type # d.type}
        IN IF wrong # {} THEN \E r \in wrong : Carried(l, zone[l] \ {r}, sync[l].listed)
           ELSE Carried(l, Without(l, new) \cup {new}, sync[l].listed \cup {new})
  BY DEF Create
<1>3. /\ d \in D /\ PublicationSound(zone[l], list, place, D, W)
      /\ list \subseteq Records /\ zone[l] \subseteq Records
  BY <1>1, InPublication DEF Missing
<1> DEFINE wrong == {r \in Strays(l, d) : r.type # d.type}
<1>4. CASE wrong # {}
  <2>1. PICK r \in wrong : Carried(l, zone[l] \ {r}, list)
    BY <1>2, <1>4
  <2>2. r \in zone[l] /\ \A p \in list : ~SameKey(p, r)
    BY DEF Strays, SameKey
  <2> DEFINE z2 == zone[l] \ {r}
  <2>3. z2 \in SUBSET Records /\ z2 \subseteq zone[l]
    BY <1>3
  <2>4. PublicationSound(z2, list, place, D, W)
    BY <1>3, <2>2, StrayPublishes
  <2>5. Reversible(row, zone[l], list, D, W) /\ place = row.place => Reversible(row, z2, list, D, W)
    <3>1. StillWanted(list, place, D) \subseteq list
      BY DEF StillWanted
    <3> HIDE DEF z2, list, place, D, W, row
    <3> QED
      BY <2>3, <3>1, StaysReversible
  <2> HIDE DEF z2
  <2> QED
    BY <1>1, <1>3, <2>1, <2>3, <2>4, <2>5, CarriedKeeps DEF z2
<1>5. CASE wrong = {}
  <2> DEFINE z2 == Without(l, Put(d, place)) \cup {Put(d, place)}
             list2 == list \cup {Put(d, place)}
  <2>1. Carried(l, z2, list2)
    BY <1>2, <1>5
  <2>2. z2 \in SUBSET Records /\ list2 \in SUBSET Records
    BY <1>1, <1>3, PutRecord DEF Without
  <2>3. \A q \in list : ~(q.place = place /\ q.name = d.name)
    <3> SUFFICES ASSUME NEW q \in list, q.place = place, q.name = d.name PROVE FALSE
      OBVIOUS
    <3>1. q \in Here(l)
      BY DEF Here
    <3>2. q \notin KeptHere(l)
      BY <1>1, <3>1, MissingIsAlone
    <3> QED
      BY <1>1, <3>1, <3>2 DEF Blocking
  <2>4. \A r \in zone[l] : r.name = d.name /\ r.place = place /\ (\A p \in list : ~SameKey(p, r))
                             => r.type = d.type
    BY <1>5 DEF Strays, SameKey
  <2>5. PublicationSound(z2, list, place, D, W) /\ PublicationSound(z2, list2, place, D, W)
    BY <1>3, <2>3, <2>4, CreatePublishes DEF Without
  <2>6. Reversible(row, zone[l], list, D, W) /\ place = row.place =>
          Reversible(row, z2, list2, D, W)
    <3>1. StillWanted(list, place, D) \subseteq list2
      BY DEF StillWanted
    <3>2. \A r \in z2 : r \in zone[l] \/ (r.place = place /\ \E e \in D : e.name = r.name)
      BY <1>3, PutIs DEF Without
    <3> HIDE DEF z2, list2, list, place, D, W, row
    <3> QED
      BY <3>1, <3>2, StaysReversible
  <2> HIDE DEF z2, list2
  <2> QED
    BY <1>1, <2>1, <2>2, <2>5, <2>6, CarriedKeeps
<1> QED
  BY <1>4, <1>5

LEMMA PublishEndsKeeps ==
  ASSUME SubdomainsIInv, lapses = {}, NEW l \in Labels, PublishEnds(l)
  PROVE  SubdomainsIInv'
<1> DEFINE D == sync[l].desired
           W == tried[l]
           list == sync[l].listed
<1>1. /\ sync[l].at = "publishing" /\ Missing(l) = {} /\ list = KeptHere(l)
      /\ UNCHANGED <<hosted, wish, setting, claim, zone, turns, lapses>>
  BY DEF PublishEnds
<1>2. /\ PublicationSound(zone[l], list, sync[l].place, D, W)
      /\ Publishes(names[l], sync[l], zone[l], W) /\ Begun(names[l], sync[l], W)
      /\ KeptHere(l) = StillWanted(list, sync[l].place, D)
      /\ zone[l] \in SUBSET Records
  BY <1>1, InPublication
<1>3. zone' = [zone EXCEPT ![l] = zone[l]]
  BY <1>1, AsItIs DEF SubdomainsIInv
<1>4. CASE D = {}
  <2>1. Fails(l)
    BY <1>4 DEF PublishEnds
  <2>2. Sound(Saved(l, "error"), NoSync, zone[l], TriedOf(l))
    BY <1>1, <1>2, FailedSound
  <2> QED
    BY <1>1, <1>2, <1>3, <2>1, <2>2, FailsKeep
<1>5. CASE D # {}
  <2>1. /\ names' = [names EXCEPT ![l] = Saved(l, "active")]
        /\ sync' = [sync EXCEPT ![l] = NoSync] /\ tried' = [tried EXCEPT ![l] = {}]
    BY <1>5 DEF PublishEnds
  <2>2. Becomes(l, Saved(l, "active"), NoSync, zone[l], {})
    BY <1>3, <2>1 DEF Becomes
  <2>3. \A d \in D : \E p \in list : Same(p, d)
    BY <1>1 DEF Missing, KeptHere, Here
  <2>4. \A w \in W : \A t \in w : \E d \in D : d.name = t.name
    BY <1>2, <1>5 DEF Publishes
  <2>5. zone[l] = list
    BY <1>1, <1>2, <2>3, <2>4, PublishedExactly
  <2>6. PICK new : new = Saved(l, "active")
    OBVIOUS
  <2>7. /\ new.st = "active" /\ new.held /\ new.place = sync[l].place /\ new.records = list
    BY <1>1, <1>2, <2>6, SavedIs DEF Begun
  <2>8. \A p \in list : p.place = new.place
    BY <1>1, <2>7 DEF KeptHere, Here
  <2> HIDE DEF list
  <2>9. RowSound(new, zone[l], {}) /\ Distinct(zone[l]) /\ Distinct(new.records)
    <3>1. \A p \in list : SameKey(p, p)
      BY DEF SameKey
    <3> QED
      BY <1>2, <2>5, <2>7, <2>8, <3>1 DEF RowSound, Spotted, Trusted, PublicationSound
  <2>10. Sound(new, NoSync, zone[l], {})
    BY <2>9, AtRest
  <2>11. Around'
    BY <1>1, AroundStays DEF SubdomainsIInv, Around
  <2> QED
    BY <1>2, <2>2, <2>6, <2>10, <2>11, LabelStep, SavedIs, NoSyncTyped
<1> QED
  BY <1>4, <1>5

-----------------------------------------------------------------------------
(* The row is locked, moved, undone. *)

\* No lapse: what was tried in vain bears on the same names, and what is listed and
\* wanted now was wanted all along.
LEMMA PublishingStarts ==
  ASSUME NEW row, NEW z, NEW W, NEW s, NEW D,
         Distinct(z), Distinct(row.records), RowSound(row, z, W),
         row.held, row.st # "none", D \in Wishes,
         ~(D # {} /\ \E w \in W : \/ \E t \in w : \A d \in D : d.name # t.name
                                  \/ \E d \in D \ w, p \in row.records : Same(p, d)),
         s.at = "publishing", s.unsure = (row.st # "active"), s.held, s.place = row.place,
         s.setting = s.place, s.desired = D, s.listed = row.records
  PROVE  Sound(row, s, z, W)
<1>1. Begun(row, s, W)
  BY DEF Begun
<1>2. Spotted(z, row.records, row.place, W \cup {D})
  BY DEF RowSound, Spotted
<1>3. StillWanted(row.records, row.place, D) \subseteq z
  <2> SUFFICES ASSUME NEW p \in StillWanted(row.records, row.place, D), p \notin z PROVE FALSE
    OBVIOUS
  <2>1. PICK d \in D : Same(p, d)
    BY DEF StillWanted
  <2>2. p \in row.records /\ p.place = row.place
    BY DEF StillWanted
  <2>3. PICK w \in W : \A e \in w : ~Same(p, e)
    BY <2>2 DEF RowSound, Trusted
  <2>4. d \in D \ w
    BY <2>1, <2>3
  <2> QED
    BY <2>1, <2>2, <2>4
<1>4. PublicationSound(z, s.listed, s.place, s.desired, W)
  BY <1>2, <1>3 DEF PublicationSound
<1>5. Reversible(row, z, s.listed, s.desired, W)
  BY <1>2 DEF Reversible, StillWanted
<1>6. D # {} => \A w \in W : \A t \in w : \E d \in D : d.name = t.name
  OBVIOUS
<1>7. Publishes(row, s, z, W)
  BY <1>4, <1>5, <1>6 DEF Publishes, RowSound
<1> QED
  BY <1>1, <1>7 DEF Sound

LEMMA SyncRowKeeps ==
  ASSUME SubdomainsIInv, lapses = {}, NEW l \in Labels, SyncRow(l)
  PROVE  SubdomainsIInv'
<1> DEFINE row == names[l]
           z == zone[l]
           W == tried[l]
           s0 == [NoSync EXCEPT !.unsure = row.st # "active", !.held = row.held,
                                !.place = row.place, !.setting = setting, !.listed = row.records]
<1>1. /\ row.st # "none" /\ sync[l].at = "idle"
      /\ IF row.held /\ row.place = setting THEN Publishing(l, s0)
         ELSE /\ sync' = [sync EXCEPT ![l] = [s0 EXCEPT !.at = IF row.held THEN "moving"
                                                              ELSE "withdrawing"]]
              /\ UNCHANGED lapses
      /\ UNCHANGED <<hosted, wish, setting, names, claim, zone, tried, turns>>
  BY DEF SyncRow
<1>2. /\ row \in Name /\ z \in SUBSET Records /\ W \in SUBSET Wishes
      /\ Sound(row, sync[l], z, W) /\ setting \in ZonePlaces /\ wish \in Wishes
  BY AsItIs DEF SubdomainsIInv, AllSound, Around
<1>3. Distinct(z) /\ Distinct(row.records) /\ RowSound(row, z, W)
  BY <1>1, <1>2 DEF Sound
<1>4. /\ s0 \in Synchronisation /\ s0.unsure = (row.st # "active") /\ s0.held = row.held
      /\ s0.place = row.place /\ s0.setting = setting /\ s0.listed = row.records
  <2>1. NoSync \in Synchronisation
    BY NoSyncTyped
  <2>2. /\ (row.st # "active") \in BOOLEAN /\ row.held \in BOOLEAN /\ row.place \in ZonePlaces
        /\ row.records \in SUBSET Records /\ setting \in ZonePlaces
    BY <1>2 DEF Name
  <2> HIDE DEF row
  <2> QED
    BY <2>1, <2>2 DEF Synchronisation
<1>5. PICK s1 : s1 = s0
  OBVIOUS
<1>6. /\ s1 \in Synchronisation /\ s1.unsure = (row.st # "active") /\ s1.held = row.held
      /\ s1.place = row.place /\ s1.setting = setting /\ s1.listed = row.records
  BY <1>4, <1>5
<1>7. CASE row.held /\ row.place = setting
  <2>1. PICK s : s = [s1 EXCEPT !.at = "publishing", !.desired = wish]
    OBVIOUS
  <2>2. /\ sync' = [sync EXCEPT ![l] = s]
        /\ lapses' = IF Turned(l, wish) THEN lapses \cup {"turned"} ELSE lapses
    BY <1>1, <1>5, <1>7, <2>1 DEF Publishing
  <2>3. /\ s \in Synchronisation /\ s.at = "publishing" /\ s.desired = wish
        /\ s.unsure = (row.st # "active") /\ s.held /\ s.place = row.place
        /\ s.setting = s.place /\ s.listed = row.records
    BY <1>2, <1>6, <1>7, <2>1 DEF Synchronisation
  <2>4. Becomes(l, names[l], s, zone[l], tried[l])
    BY <1>1, <2>2, AsItIs DEF SubdomainsIInv, Becomes
  <2>5. lapses' = {} => Sound(row, s, z, W)
    <3> SUFFICES ASSUME ~Turned(l, wish) PROVE Sound(row, s, z, W)
      BY <2>2
    <3>1. ~(wish # {} /\ \E w \in W : \/ \E t \in w : \A d \in wish : d.name # t.name
                                      \/ \E d \in wish \ w, p \in row.records : Same(p, d))
      BY DEF Turned
    <3> HIDE DEF row, z, W
    <3> QED
      BY <1>1, <1>2, <1>3, <1>7, <2>3, <3>1, PublishingStarts
  <2>6. Around'
    BY <1>1, <2>2, AroundStays DEF SubdomainsIInv, Around
  <2> QED
    BY <1>2, <2>3, <2>4, <2>5, <2>6, LabelStep
<1>8. CASE ~(row.held /\ row.place = setting)
  <2>1. PICK s : s = [s1 EXCEPT !.at = IF row.held THEN "moving" ELSE "withdrawing"]
    OBVIOUS
  <2>2. /\ sync' = [sync EXCEPT ![l] = s] /\ UNCHANGED lapses
    BY <1>1, <1>5, <1>8, <2>1
  <2>3. /\ s \in Synchronisation
        /\ s.at = IF row.held THEN "moving" ELSE "withdrawing"
        /\ s.unsure = (row.st # "active") /\ s.held = row.held /\ s.place = row.place
        /\ s.setting = setting /\ s.listed = row.records
    BY <1>6, <2>1 DEF Synchronisation
  <2>4. Becomes(l, names[l], s, zone[l], tried[l])
    BY <1>1, <2>2, AsItIs DEF SubdomainsIInv, Becomes
  <2>5. Begun(row, s, W)
    BY <1>1, <1>8, <2>3 DEF Begun
  <2>6. s.at = "withdrawing" => Withdraws(row, s, z, W)
    BY <1>3, <2>3 DEF Withdraws, RowSound
  <2>7. Sound(row, s, z, W)
    BY <1>3, <2>3, <2>5, <2>6 DEF Sound
  <2>8. Around'
    BY <1>1, <2>2, AroundStays DEF SubdomainsIInv, Around
  <2> QED
    BY <1>2, <2>3, <2>4, <2>7, <2>8, LabelStep
<1> QED
  BY <1>7, <1>8

\* The place changes only while nothing was tried in vain: all that is listed is
\* elsewhere, and nothing else is there.
LEMMA MoveKeeps ==
  ASSUME SubdomainsIInv, lapses = {}, NEW l \in Labels, Move(l)
  PROVE  SubdomainsIInv'
<1> DEFINE row == names[l]
           z == zone[l]
           W == tried[l]
           s0 == [sync[l] EXCEPT !.place = sync[l].setting]
<1>1. /\ sync[l].at = "moving"
      /\ \/ sync' = [sync EXCEPT ![l] = [s0 EXCEPT !.at = "publishing", !.desired = wish]]
         \/ sync' = [sync EXCEPT ![l] = [s0 EXCEPT !.at = "withdrawing", !.held = FALSE]]
      /\ lapses' = lapses \cup (IF tried[l] # {} THEN {"moved"} ELSE {})
      /\ UNCHANGED <<hosted, wish, setting, names, claim, zone, tried, turns>>
  BY DEF Move
<1>2. /\ row \in Name /\ z \in SUBSET Records /\ W \in SUBSET Wishes
      /\ sync[l] \in Synchronisation /\ Sound(row, sync[l], z, W) /\ wish \in Wishes
  BY AsItIs DEF SubdomainsIInv, AllSound, Around
<1>3. /\ Distinct(z) /\ Distinct(row.records) /\ RowSound(row, z, W)
      /\ row.held /\ sync[l].held /\ sync[l].setting # sync[l].place /\ row.st # "none"
      /\ sync[l].place = row.place /\ sync[l].listed = row.records
      /\ sync[l].unsure = (row.st # "active")
  BY <1>1, <1>2 DEF Sound, Begun
<1>4. PICK s : /\ s = [s0 EXCEPT !.at = "publishing", !.desired = wish]
                  \/ s = [s0 EXCEPT !.at = "withdrawing", !.held = FALSE]
               /\ sync' = [sync EXCEPT ![l] = s]
  BY <1>1
<1>5. /\ s \in Synchronisation /\ s.unsure = (row.st # "active")
      /\ s.place = sync[l].setting /\ s.setting = sync[l].setting /\ s.listed = row.records
      /\ \/ s.at = "publishing" /\ s.desired = wish /\ s.held
         \/ s.at = "withdrawing" /\ ~s.held
  BY <1>2, <1>3, <1>4 DEF Synchronisation
<1>6. Becomes(l, names[l], s, zone[l], tried[l])
  BY <1>1, <1>4, AsItIs DEF SubdomainsIInv, Becomes
<1>7. Around'
  BY <1>1, AroundStays DEF SubdomainsIInv, Around
<1>8. ASSUME lapses' = {} PROVE Sound(row, s, z, W)
  <2>1. W = {}
    BY <1>1, <1>8
  <2> HIDE DEF row, z, W
  <2>2. Begun(row, s, W)
    BY <1>2, <1>3, <1>5 DEF Begun
  <2>3. \A p \in row.records : p.place # s.place
    BY <1>3, <1>5, <2>1 DEF RowSound
  <2>4. \A r \in z : \E p \in row.records : SameKey(p, r)
    BY <1>3, <2>1 DEF RowSound, Spotted
  <2>5. PublicationSound(z, s.listed, s.place, s.desired, W)
    BY <1>3, <1>5, <2>3, <2>4 DEF PublicationSound, Spotted, StillWanted
  <2>6. s.at = "publishing" => Publishes(row, s, z, W)
    BY <1>3, <1>5, <2>1, <2>5 DEF Publishes
  <2>7. s.at = "withdrawing" => Withdraws(row, s, z, W)
    BY <1>3, <1>5, <2>1, <2>4 DEF Withdraws, Spotted
  <2> QED
    BY <1>3, <1>5, <2>2, <2>6, <2>7 DEF Sound
<1> QED
  BY <1>2, <1>5, <1>6, <1>7, <1>8, LabelStep

LEMMA SyncStopsKeeps ==
  ASSUME SubdomainsIInv, lapses = {}, NEW l \in Labels, SyncStops(l)
  PROVE  SubdomainsIInv'
<1> DEFINE row == names[l]
           s == sync[l]
           z == zone[l]
           W == tried[l]
<1>1. /\ s.at # "idle" /\ sync' = [sync EXCEPT ![l] = NoSync] /\ Tried(l)
      /\ lapses' = IF row.held /\ (~s.unsure \/ s.place # row.place)
                   THEN lapses \cup {"stopped"} ELSE lapses
      /\ UNCHANGED <<hosted, wish, setting, names, claim, zone, turns>>
  BY DEF SyncStops
<1>2. /\ row \in Name /\ z \in SUBSET Records /\ s \in Synchronisation /\ Sound(row, s, z, W)
  BY AsItIs DEF SubdomainsIInv, AllSound
<1>3. Becomes(l, names[l], NoSync, zone[l], TriedOf(l))
  BY <1>1, AsItIs, TriedTyped DEF SubdomainsIInv, Becomes
<1>4. Around'
  BY <1>1, AroundStays DEF SubdomainsIInv, Around
<1>5. ASSUME lapses' = {} PROVE Sound(row, NoSync, z, TriedOf(l))
  <2>1. ~(row.held /\ (~s.unsure \/ s.place # row.place))
    BY <1>1, <1>5
  <2>2. Distinct(z) /\ Distinct(row.records) /\ Begun(row, s, W)
    BY <1>1, <1>2 DEF Sound
  <2>3. s.at = "publishing" => TriedOf(l) = W \cup {s.desired}
    BY DEF TriedOf
  <2>4. s.at # "publishing" => TriedOf(l) = W
    BY DEF TriedOf
  <2> HIDE DEF row, s, z, W
  <2>5. CASE s.at = "publishing"
    <3>1. /\ row.held /\ row.st # "active" /\ row.st # "none" /\ s.place = row.place
          /\ Publishes(row, s, z, W)
      BY <1>2, <2>1, <2>2, <2>5 DEF Sound, Begun
    <3>2. Reversible(row, z, s.listed, s.desired, W)
          /\ PublicationSound(z, s.listed, s.place, s.desired, W)
      BY <3>1 DEF Publishes
    <3>3. Trusted(z, row.records, row.place, W \cup {s.desired})
      BY <3>1, <3>2 DEF Reversible, PublicationSound, Trusted, StillWanted
    <3>4. RowSound(row, z, W \cup {s.desired})
      BY <3>1, <3>2, <3>3 DEF RowSound, Reversible
    <3> QED
      BY <2>2, <2>3, <2>5, <3>4, AtRest
  <2>6. CASE s.at = "moving"
    BY <1>2, <2>2, <2>4, <2>6, AtRest DEF Sound
  <2>7. CASE s.at = "withdrawing"
    <3>1. ~row.held
      BY <2>1, <2>2, <2>7 DEF Begun
    <3> QED
      BY <1>2, <2>2, <2>4, <2>7, <3>1, AtRest DEF Sound, Withdraws
  <2> QED
    BY <1>1, <1>2, <2>5, <2>6, <2>7 DEF Synchronisation, s
<1> QED
  BY <1>2, <1>3, <1>4, <1>5, LabelStep, NoSyncTyped, TriedTyped

-----------------------------------------------------------------------------
(* A name that nobody holds any more. *)

LEMMA RemoveLostKeeps ==
  ASSUME SubdomainsIInv, lapses = {}, NEW l \in Labels, RemoveLost(l)
  PROVE  SubdomainsIInv'
<1>1. sync[l].at = "withdrawing" /\ sync[l].listed = {}
  BY DEF RemoveLost
<1>2. PICK r \in Lost(l) : Carried(l, zone[l] \ {r}, {})
  BY DEF RemoveLost
<1>3. Sound(names[l], sync[l], zone[l], tried[l]) /\ zone[l] \in SUBSET Records
  BY AsItIs DEF SubdomainsIInv, AllSound
<1>4. Distinct(zone[l]) /\ Spotted(zone[l], sync[l].listed, sync[l].place, tried[l])
  BY <1>1, <1>3 DEF Sound, Withdraws
<1> DEFINE z2 == zone[l] \ {r}
<1>5. z2 \in SUBSET Records /\ z2 \subseteq zone[l] /\ {} \in SUBSET Records /\ Distinct({})
  BY <1>3 DEF Distinct
<1>6. Distinct(z2) /\ Spotted(z2, sync[l].listed, sync[l].place, tried[l])
  BY <1>4, <1>5 DEF Distinct, Spotted
<1> HIDE DEF z2
<1> QED
  BY <1>1, <1>2, <1>5, <1>6, CarriedKeeps DEF z2

LEMMA WithdrawEndsKeeps ==
  ASSUME SubdomainsIInv, lapses = {}, NEW l \in Labels, WithdrawEnds(l)
  PROVE  SubdomainsIInv'
<1>1. /\ sync[l].at = "withdrawing" /\ sync[l].listed = {}
      /\ \/ Lost(l) = {} /\ UNCHANGED lapses
         \/ lapses' = lapses \cup {"forbidden"}
      /\ names' = [names EXCEPT ![l] = NoName] /\ sync' = [sync EXCEPT ![l] = NoSync]
      /\ tried' = [tried EXCEPT ![l] = {}]
      /\ UNCHANGED <<hosted, wish, setting, claim, zone, turns>>
  BY DEF WithdrawEnds
<1>2. Sound(names[l], sync[l], zone[l], tried[l]) /\ zone[l] \in SUBSET Records
  BY AsItIs DEF SubdomainsIInv, AllSound
<1>3. Becomes(l, NoName, NoSync, zone[l], {})
  BY <1>1, AsItIs DEF SubdomainsIInv, Becomes
<1>4. /\ NoName \in Name /\ NoName.st = "none" /\ ~NoName.held /\ NoName.records = {}
  <2>1. FirstPlace \in ZonePlaces
    BY SubdomainsAssumption DEF FirstPlace
  <2> QED
    BY <2>1 DEF NoName, Name
<1>5. Around'
  BY <1>1, AroundStays DEF SubdomainsIInv, Around
<1>6. ASSUME lapses' = {} PROVE Sound(NoName, NoSync, zone[l], {})
  <2>1. Lost(l) = {}
    BY <1>1, <1>6
  <2>2. /\ Spotted(zone[l], {}, sync[l].place, tried[l])
        /\ ~sync[l].unsure => tried[l] = {}
    BY <1>1, <1>2 DEF Sound, Withdraws, Begun
  <2>3. zone[l] = {}
    BY <2>1, <2>2 DEF Spotted, Lost
  <2>4. RowSound(NoName, zone[l], {}) /\ Distinct(zone[l]) /\ Distinct(NoName.records)
    BY <1>4, <2>3 DEF RowSound, Spotted, Distinct
  <2> QED
    BY <2>4, AtRest
<1> QED
  BY <1>2, <1>3, <1>4, <1>5, <1>6, LabelStep, NoSyncTyped

-----------------------------------------------------------------------------
(* The client, the settings, the removal of the server. *)

\* A name abandoned while nothing is done about it.
LEMMA AbandonSound ==
  ASSUME SubdomainsIInv, lapses = {}, Unlocked, NEW l \in Labels
  PROVE  /\ Abandoned[l] \in Name
         /\ Sound(Abandoned[l], sync[l], zone[l], tried[l])
         /\ Abandoned[l].st = names[l].st
<1> DEFINE row == names[l]
<1>1. /\ row \in Name /\ Sound(row, sync[l], zone[l], tried[l])
  BY AsItIs DEF SubdomainsIInv, AllSound
<1>2. PICK new : new = Abandoned[l]
  OBVIOUS
<1>3. /\ new \in Name /\ new.st = row.st /\ ~new.held /\ new.place = row.place
      /\ new.records = row.records
  BY <1>1, <1>2 DEF Abandoned, Name
<1>4. CASE ~row.held
  <2>1. new = row
    BY <1>1, <1>2, <1>4 DEF Abandoned, Name
  <2> QED
    BY <1>1, <1>2, <1>3, <2>1
<1>5. CASE row.held
  <2>1. sync[l].at = "idle"
    BY <1>5 DEF Unlocked, Holding
  <2>2. RowSound(row, zone[l], tried[l]) /\ Distinct(zone[l])
    BY <1>1, <2>1 DEF Sound
  <2>3. row.st = "active" => zone[l] \subseteq row.records
    <3> SUFFICES ASSUME row.st = "active", NEW r \in zone[l] PROVE r \in row.records
      OBVIOUS
    <3>1. tried[l] = {}
      BY <2>2 DEF RowSound
    <3>2. PICK p \in row.records : SameKey(p, r)
      BY <2>2, <3>1 DEF RowSound, Spotted
    <3>3. p \in zone[l]
      BY <1>5, <2>2, <3>1 DEF RowSound, Trusted
    <3> QED
      BY <2>2, <3>2, <3>3 DEF Distinct, SameKey
  <2> HIDE DEF row
  <2>4. RowSound(new, zone[l], tried[l])
    BY <1>3, <2>2, <2>3 DEF RowSound
  <2>5. Sound(new, sync[l], zone[l], tried[l])
    BY <1>1, <1>3, <2>1, <2>4 DEF Sound
  <2> QED
    BY <1>2, <1>3, <2>5 DEF row
<1> QED
  BY <1>4, <1>5

LEMMA AbandonKeeps ==
  ASSUME SubdomainsIInv, lapses = {}, Release \/ Departing
  PROVE  SubdomainsIInv'
<1>1. /\ Unlocked /\ names' = Abandoned /\ hosted' \in {hosted, FALSE}
      /\ UNCHANGED <<wish, setting, claim, sync, zone, tried, turns, lapses>>
  BY DEF Release, Departing
<1>2. \A l \in Labels : /\ Abandoned[l] \in Name
                        /\ Sound(Abandoned[l], sync[l], zone[l], tried[l])
  BY <1>1, AbandonSound
<1>3. Abandoned \in [Labels -> Name]
  BY <1>2 DEF Abandoned
<1>4. Around' /\ Filed'
  BY <1>1, <1>3 DEF SubdomainsIInv, Around, Filed
<1>5. AllSound'
  BY <1>1, <1>2 DEF AllSound
<1> QED
  BY <1>4, <1>5 DEF SubdomainsIInv

LEMMA ClaimInsertKeeps ==
  ASSUME SubdomainsIInv, lapses = {}, ClaimInsert
  PROVE  SubdomainsIInv'
<1> DEFINE c == claim.label
           new == [st |-> "pending", held |-> TRUE, place |-> claim.place, records |-> {}]
<1>1. /\ claim # Unclaimed /\ Unlocked /\ names[c].st = "none"
      /\ names' = [Abandoned EXCEPT ![c] = new] /\ claim' = Unclaimed
      /\ UNCHANGED <<hosted, wish, setting, sync, zone, tried, turns, lapses>>
  BY DEF ClaimInsert
<1>2. c \in Labels /\ claim.place \in ZonePlaces
  BY <1>1 DEF SubdomainsIInv, Around
<1>3. /\ new \in Name /\ new.st = "pending" /\ new.held /\ new.records = {}
  BY <1>2 DEF Name
<1> HIDE DEF c, new
<1>4. \A l \in Labels : /\ Abandoned[l] \in Name
                        /\ Sound(Abandoned[l], sync[l], zone[l], tried[l])
  BY <1>1, AbandonSound
<1>5. Abandoned \in [Labels -> Name]
  BY <1>4 DEF Abandoned
<1>6. /\ names' \in [Labels -> Name] /\ names'[c] = new
      /\ \A l \in Labels : l # c => names'[l] = Abandoned[l]
  BY <1>1, <1>2, <1>3, <1>5
<1>7. Sound(new, sync[c], zone[c], tried[c])
  <2>1. Sound(names[c], sync[c], zone[c], tried[c]) /\ sync[c] \in Synchronisation
    BY <1>2, AsItIs DEF SubdomainsIInv, AllSound
  <2>2. sync[c].at = "idle"
    BY <1>1, <2>1 DEF Sound, Begun
  <2>3. zone[c] = {} /\ tried[c] = {}
    BY <1>1, <2>1, <2>2 DEF Sound, RowSound
  <2>4. RowSound(new, zone[c], tried[c])
    BY <1>3, <2>3 DEF RowSound, Spotted, Trusted
  <2> QED
    BY <1>3, <2>1, <2>2, <2>4 DEF Sound, Distinct
<1>8. Around' /\ Filed'
  BY <1>1, <1>6 DEF SubdomainsIInv, Around, Filed
<1>9. AllSound'
  BY <1>1, <1>4, <1>6, <1>7 DEF AllSound
<1> QED
  BY <1>8, <1>9 DEF SubdomainsIInv

\* A check, an answer, or a change of what the names are to follow.
LEMMA AroundKeeps ==
  ASSUME SubdomainsIInv, Around', UNCHANGED <<names, sync, zone, tried, lapses>>
  PROVE  SubdomainsIInv'
  BY DEF SubdomainsIInv, Filed, AllSound

LEMMA SubdomainsInitially == SubdomainsInit => SubdomainsIInv
<1> SUFFICES ASSUME SubdomainsInit PROVE SubdomainsIInv
  OBVIOUS
<1>1. FirstPlace \in ZonePlaces /\ 0 \in 0..MaxTurns
  BY SubdomainsAssumption DEF FirstPlace
<1>2. NoName \in Name /\ NoName.st = "none" /\ ~NoName.held /\ NoName.records = {}
  BY <1>1 DEF NoName, Name
<1>3. Around /\ Filed
  BY <1>1, <1>2, NoSyncTyped DEF SubdomainsInit, Around, Filed
<1>4. RowSound(NoName, {}, {}) /\ Distinct({})
  BY <1>2 DEF RowSound, Spotted, Distinct
<1>5. Sound(NoName, NoSync, {}, {})
  BY <1>2, <1>4, AtRest
<1>6. AllSound
  BY <1>5 DEF SubdomainsInit, AllSound
<1> QED
  BY <1>3, <1>6 DEF SubdomainsIInv

LEMMA SubdomainsPreserved == SubdomainsIInv /\ [SubdomainsNext]_subdomainVars => SubdomainsIInv'
<1> SUFFICES ASSUME SubdomainsIInv, [SubdomainsNext]_subdomainVars PROVE SubdomainsIInv'
  OBVIOUS
<1>1. CASE UNCHANGED subdomainVars
  BY <1>1 DEF subdomainVars, SubdomainsIInv, Around, Filed, AllSound
<1>2. CASE SubdomainsNext
  <2> USE <1>2
  <2>0. lapses = {}
    BY DEF SubdomainsNext
  <2>1. CASE WishChanges \/ SettingChanges \/ ClaimFails
    <3>1. UNCHANGED <<names, sync, zone, tried, lapses>>
      BY <2>1 DEF WishChanges, SettingChanges, ClaimFails
    <3>2. turns \in 0..MaxTurns /\ turns < MaxTurns => turns + 1 \in 0..MaxTurns
      BY SubdomainsAssumption
    <3>3. Around'
      BY <2>1, <3>2 DEF SubdomainsIInv, Around, WishChanges, SettingChanges, ClaimFails
    <3> QED
      BY <3>1, <3>3, AroundKeeps
  <2>2. CASE ClaimInsert
    BY <2>0, <2>2, ClaimInsertKeeps
  <2>3. CASE Release \/ Departing
    BY <2>0, <2>3, AbandonKeeps
  <2>4. ASSUME NEW l \in Labels, ClaimLabel(l) PROVE SubdomainsIInv'
    <3>1. Around' /\ UNCHANGED <<names, sync, zone, tried, lapses>>
      BY <2>4 DEF ClaimLabel, SubdomainsIInv, Around
    <3> QED
      BY <3>1, AroundKeeps
  <2>5. ASSUME NEW l \in Labels, SyncRow(l) PROVE SubdomainsIInv'
    BY <2>0, <2>5, SyncRowKeeps
  <2>6. ASSUME NEW l \in Labels, Move(l) PROVE SubdomainsIInv'
    BY <2>0, <2>6, MoveKeeps
  <2>7. ASSUME NEW l \in Labels, Publication(l) PROVE SubdomainsIInv'
    <3>1. CASE Update(l)
      BY <2>0, <3>1, UpdateKeeps
    <3>2. CASE RemoveBlocking(l)
      BY <2>0, <3>2, RemoveKeeps DEF RemoveBlocking, Blocking, Here
    <3>3. CASE Create(l)
      BY <2>0, <3>3, CreateKeeps
    <3>4. CASE RemoveRest(l)
      BY <2>0, <3>4, RemoveKeeps DEF RemoveRest
    <3>5. CASE PublishEnds(l)
      BY <2>0, <3>5, PublishEndsKeeps
    <3> QED
      BY <2>7, <3>1, <3>2, <3>3, <3>4, <3>5 DEF Publication
  <2>8. ASSUME NEW l \in Labels, Withdraw(l) PROVE SubdomainsIInv'
    BY <2>0, <2>8, RemoveKeeps DEF Withdraw
  <2>9. ASSUME NEW l \in Labels, RemoveLost(l) PROVE SubdomainsIInv'
    BY <2>0, <2>9, RemoveLostKeeps
  <2>10. ASSUME NEW l \in Labels, WithdrawEnds(l) PROVE SubdomainsIInv'
    BY <2>0, <2>10, WithdrawEndsKeeps
  <2>11. ASSUME NEW l \in Labels, ProviderRefuses(l) PROVE SubdomainsIInv'
    BY <2>0, <2>11, ProviderRefusesKeeps
  <2>12. ASSUME NEW l \in Labels, SyncStops(l) PROVE SubdomainsIInv'
    BY <2>0, <2>12, SyncStopsKeeps
  <2> QED
    BY <2>1, <2>2, <2>3, <2>4, <2>5, <2>6, <2>7, <2>8, <2>9, <2>10, <2>11, <2>12
       DEF SubdomainsNext
<1> QED
  BY <1>1, <1>2

LEMMA SubdomainsInductive == SubdomainsSpec => []SubdomainsIInv
  BY SubdomainsInitially, SubdomainsPreserved, PTL DEF SubdomainsSpec

-----------------------------------------------------------------------------

LEMMA SubdomainsTyped == SubdomainsIInv => SubdomainsTypeOK
  BY DEF SubdomainsIInv, Around, Filed, SubdomainsTypeOK, Name, Synchronisation

LEMMA SubdomainsListed == SubdomainsIInv => ZoneAsListed
<1> SUFFICES ASSUME SubdomainsIInv, lapses = {}, NEW l \in Labels, sync[l].at = "idle"
             PROVE  /\ names[l].st = "active" =>
                         /\ zone[l] \subseteq names[l].records
                         /\ names[l].held => zone[l] = names[l].records
                    /\ names[l].st = "none" => zone[l] = {}
  BY DEF ZoneAsListed
<1>1. RowSound(names[l], zone[l], tried[l]) /\ Distinct(zone[l]) /\ names[l] \in Name
  BY AsItIs DEF SubdomainsIInv, AllSound, Sound
<1>2. ASSUME names[l].st = "active", names[l].held PROVE zone[l] = names[l].records
  <2>1. tried[l] = {}
    BY <1>1, <1>2 DEF RowSound
  <2>2. \A p \in names[l].records : p \in zone[l]
    BY <1>1, <1>2, <2>1 DEF RowSound, Trusted
  <2>3. ASSUME NEW r \in zone[l] PROVE r \in names[l].records
    <3>1. PICK p \in names[l].records : SameKey(p, r)
      BY <1>1, <2>1 DEF RowSound, Spotted
    <3> QED
      BY <1>1, <2>2, <3>1 DEF Distinct, SameKey
  <2> QED
    BY <2>2, <2>3
<1> QED
  BY <1>1, <1>2 DEF RowSound, Name

\* The rows, the synchronisations and the zones keep their types.
THEOREM SubdomainsTypeCorrect == SubdomainsSpec => []SubdomainsTypeOK
  BY SubdomainsInductive, SubdomainsTyped, PTL

\* syncRow() publishes what the row lists and leaves nothing of a name that is gone,
\* whatever answers of the provider were lost, as long as none of the four windows of
\* the code was met.
THEOREM ZoneIsAsListed == SubdomainsSpec => []ZoneAsListed
  BY SubdomainsInductive, SubdomainsListed, PTL
=============================================================================
