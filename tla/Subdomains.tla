---------------------------- MODULE Subdomains ----------------------------
(***************************************************************************)
(* The names of a server in the zone of a DNS provider: the rows that say  *)
(* what is published, and the synchronisations, which hold the lock of one *)
(* row while they call the provider.  A call may be carried out although   *)
(* its answer is lost; the records it left are recognised by their note.   *)
(*                                                                         *)
(* Source: dns/subdomains.service.ts.  One server and its labels; a place  *)
(* is a zone and a domain, so that a change of either is a change of       *)
(* place; the zone holds the records that carry this server's note.  What  *)
(* an operator put there himself is one reason for a refusal.  A record is *)
(* its place, name and type: the panel looks before it creates, so that no *)
(* two of its own are alike.                                               *)
(***************************************************************************)
EXTENDS Naturals

CONSTANTS
  Labels,      \* labels the server may take
  ZonePlaces,  \* zones and domains the operator may set
  Wishes,      \* what the server's address may ask to publish; {}: a private address
  Unclaimed,
  MaxTurns     \* bound: changes of the address and of the settings

ASSUME SubdomainsAssumption ==
  /\ MaxTurns \in Nat /\ ZonePlaces # {}
  /\ Unclaimed \notin [label: Labels, place: ZonePlaces]

\* desiredRecords(): an address record at the name, and the SRV under another.
ASSUME WishesAssumption == \A w \in Wishes : \A d, e \in w : d.name = e.name => d = e

Records == {[name |-> d.name, type |-> d.type, content |-> d.content, place |-> p] :
              d \in UNION Wishes, p \in ZonePlaces}

VARIABLES
  hosted,   \* the server exists
  wish,     \* what its address asks to publish
  setting,  \* the place set by the operator
  names,    \* the rows of server_subdomains
  claim,    \* a claim whose checks are done
  sync,     \* the synchronisation that holds the lock of each row
  zone,     \* the records at the provider that carry the server's note
  tried,    \* history: the wishes tried on a row, and failed, since it was last active
  turns,
  lapses    \* history: why a record may have been lost from sight

subdomainVars == <<hosted, wish, setting, names, claim, sync, zone, tried, turns, lapses>>

FirstPlace == CHOOSE p \in ZonePlaces : TRUE

NoName == [st |-> "none", held |-> FALSE, place |-> FirstPlace, records |-> {}]

NoSync == [at |-> "idle", unsure |-> FALSE, held |-> FALSE, place |-> FirstPlace,
           setting |-> FirstPlace, desired |-> {}, listed |-> {}]

SubdomainsTypeOK ==
  /\ hosted \in BOOLEAN /\ wish \in Wishes /\ setting \in ZonePlaces
  /\ claim \in [label: Labels, place: ZonePlaces] \cup {Unclaimed}
  /\ DOMAIN names = Labels /\ DOMAIN sync = Labels /\ DOMAIN zone = Labels /\ DOMAIN tried = Labels
  /\ \A l \in Labels :
       /\ names[l].st \in {"none", "pending", "active", "error"}
       /\ names[l].held \in BOOLEAN /\ names[l].place \in ZonePlaces
       /\ names[l].records \subseteq Records /\ zone[l] \subseteq Records
       /\ sync[l].at \in {"idle", "moving", "publishing", "withdrawing"}
       /\ sync[l].listed \subseteq Records /\ sync[l].desired \in Wishes \cup {{}}
       /\ tried[l] \subseteq Wishes
  /\ turns \in 0..MaxTurns
  /\ lapses \subseteq {"stopped", "moved", "turned", "forbidden"}

SubdomainsInit ==
  /\ hosted = TRUE /\ wish \in Wishes /\ setting = FirstPlace
  /\ names = [l \in Labels |-> NoName] /\ claim = Unclaimed
  /\ sync = [l \in Labels |-> NoSync] /\ zone = [l \in Labels |-> {}]
  /\ tried = [l \in Labels |-> {}] /\ turns = 0 /\ lapses = {}

-----------------------------------------------------------------------------
(* What changes around the names: the port, the node or the game of the    *)
(* server, and the operator's settings.                                    *)

WishChanges ==
  /\ hosted
  /\ turns < MaxTurns /\ turns' = turns + 1
  /\ wish' \in Wishes \ {wish}
  /\ UNCHANGED <<hosted, setting, names, claim, sync, zone, tried, lapses>>

SettingChanges ==
  /\ turns < MaxTurns /\ turns' = turns + 1
  /\ setting' \in ZonePlaces \ {setting}
  /\ UNCHANGED <<hosted, wish, names, claim, sync, zone, tried, lapses>>

-----------------------------------------------------------------------------
(* The client, and the removal of the server. *)

Holding == {l \in Labels : names[l].held}

\* The row is locked by a synchronisation: a statement that writes it waits.
Unlocked == \A l \in Holding : sync[l].at = "idle"

Abandoned == [l \in Labels |-> [names[l] EXCEPT !.held = FALSE]]

\* A name abandoned and not yet withdrawn.
Withdrawing == \E l \in Labels : names[l].st # "none" /\ ~names[l].held

\* claim(): the checks, among them that the former name has been withdrawn.
ClaimLabel(l) ==
  /\ hosted /\ claim = Unclaimed
  /\ names[l].st = "none" /\ ~Withdrawing
  /\ claim' = [label |-> l, place |-> setting]
  /\ UNCHANGED <<hosted, wish, setting, names, sync, zone, tried, turns, lapses>>

\* Its transaction: the former name is abandoned, the new one inserted.
ClaimInsert ==
  /\ claim # Unclaimed /\ hosted /\ Unlocked
  /\ names[claim.label].st = "none"
  /\ names' = [Abandoned EXCEPT ![claim.label] = [st |-> "pending", held |-> TRUE,
                                                  place |-> claim.place, records |-> {}]]
  /\ claim' = Unclaimed
  /\ UNCHANGED <<hosted, wish, setting, sync, zone, tried, turns, lapses>>

\* A check that failed, a name taken meanwhile, a server gone.
ClaimFails ==
  /\ claim # Unclaimed
  /\ claim' = Unclaimed
  /\ UNCHANGED <<hosted, wish, setting, names, sync, zone, tried, turns, lapses>>

Release ==
  /\ hosted /\ Holding # {} /\ Unlocked /\ ~Withdrawing
  /\ names' = Abandoned
  /\ UNCHANGED <<hosted, wish, setting, claim, sync, zone, tried, turns, lapses>>

\* departing(), in the transaction that deletes the server.
Departing ==
  /\ hosted /\ Unlocked
  /\ hosted' = FALSE
  /\ names' = Abandoned
  /\ UNCHANGED <<wish, setting, claim, sync, zone, tried, turns, lapses>>

-----------------------------------------------------------------------------
(* syncRow(). *)

Same(p, d) == p.name = d.name /\ p.type = d.type /\ p.content = d.content

SameKey(p, r) == p.name = r.name /\ p.type = r.type /\ p.place = r.place

Put(d, p) == [name |-> d.name, type |-> d.type, content |-> d.content, place |-> p]

\* A wish that failed named a record this one does not; or this one has a record the
\* row still lists, which a wish that failed has changed or removed.
Turned(l, desired) ==
  /\ desired # {}
  /\ \E w \in tried[l] :
       \/ \E t \in w : \A d \in desired : d.name # t.name
       \/ \E d \in desired \ w, p \in names[l].records : Same(p, d)

Tried(l) == tried' = [tried EXCEPT ![l] = IF sync[l].at = "publishing"
                                          THEN @ \cup {sync[l].desired} ELSE @]

Publishing(l, s) ==
  /\ sync' = [sync EXCEPT ![l] = [s EXCEPT !.at = "publishing", !.desired = wish]]
  /\ lapses' = IF Turned(l, wish) THEN lapses \cup {"turned"} ELSE lapses

\* The row is locked, and the settings were read.
SyncRow(l) ==
  /\ names[l].st # "none" /\ sync[l].at = "idle"
  /\ LET row == names[l]
         s == [NoSync EXCEPT !.unsure = row.st # "active", !.held = row.held,
                             !.place = row.place, !.setting = setting, !.listed = row.records]
     IN IF row.held /\ row.place = setting THEN Publishing(l, s)
        ELSE /\ sync' = [sync EXCEPT ![l] = [s EXCEPT !.at = IF row.held THEN "moving"
                                                             ELSE "withdrawing"]]
             /\ UNCHANGED lapses
  /\ UNCHANGED <<hosted, wish, setting, names, claim, zone, tried, turns>>

\* The failure is written with what was published so far.
Saved(l, st) == [st |-> st, held |-> sync[l].held, place |-> sync[l].place,
                 records |-> sync[l].listed]

\* A fault: the transaction is undone.
Fails_Undone(l) ==
  /\ names' = names
  /\ sync' = [sync EXCEPT ![l] = NoSync]
  /\ Tried(l)

Fails(l) ==
  /\ names' = [names EXCEPT ![l] = Saved(l, "error")]
  /\ sync' = [sync EXCEPT ![l] = NoSync]
  /\ Tried(l)

\* A call the provider does not carry out, and a reading that fails.
ProviderRefuses(l) ==
  /\ sync[l].at # "idle"
  /\ Fails(l)
  /\ UNCHANGED <<hosted, wish, setting, claim, zone, turns, lapses>>

\* A call that is carried out: the zone becomes z, and either the answer comes and
\* the list becomes the given one, or it is lost.
Carried(l, z, listed) ==
  /\ zone' = [zone EXCEPT ![l] = z]
  /\ \/ sync' = [sync EXCEPT ![l].listed = listed] /\ UNCHANGED <<names, tried>>
     \/ Fails(l)
  /\ UNCHANGED <<hosted, wish, setting, claim, turns, lapses>>

\* move(): only to a zone that answers; a name taken there is abandoned.
Move(l) ==
  /\ sync[l].at = "moving"
  /\ LET s == [sync[l] EXCEPT !.place = sync[l].setting]
         moved == IF tried[l] # {} THEN {"moved"} ELSE {}
     IN \/ /\ sync' = [sync EXCEPT ![l] = [s EXCEPT !.at = "publishing", !.desired = wish]]
           /\ lapses' = lapses \cup moved
        \/ /\ sync' = [sync EXCEPT ![l] = [s EXCEPT !.at = "withdrawing", !.held = FALSE]]
           /\ lapses' = lapses \cup moved
  /\ UNCHANGED <<hosted, wish, setting, names, claim, zone, tried, turns>>

-----------------------------------------------------------------------------
(* publish(), one call at a time. *)

Here(l) == {p \in sync[l].listed : p.place = sync[l].place}
KeptHere(l) == {p \in Here(l) : \E d \in sync[l].desired : Same(p, d)}
Missing(l) == {d \in sync[l].desired : \A p \in KeptHere(l) : ~Same(p, d)}

\* A record of the same name and type, to be changed in place.
Candidates(l) == {p \in Here(l) \ KeptHere(l) :
                    \E d \in Missing(l) : p.name = d.name /\ p.type = d.type}

\* A record of the same name and another type, to be removed first.
Blocking(l) == {p \in Here(l) \ KeptHere(l) : \E d \in Missing(l) : p.name = d.name}

Without(l, p) == {r \in zone[l] : ~SameKey(r, p)}

Update(l) ==
  /\ sync[l].at = "publishing"
  /\ \E p \in Candidates(l), d \in Missing(l) :
       /\ p.name = d.name /\ p.type = d.type
       /\ LET new == Put(d, sync[l].place)
              others == sync[l].listed \ {p}
          IN IF \E r \in zone[l] : SameKey(r, p)
             THEN Carried(l, Without(l, p) \cup {new}, others \cup {new})
             ELSE \* gone: to be created again
                  /\ sync' = [sync EXCEPT ![l].listed = others]
                  /\ UNCHANGED <<hosted, wish, setting, names, claim, zone, tried, turns, lapses>>

\* One record is removed, in its own zone.  In a zone that is no longer the one set,
\* the token may be refused: the record is given up.
Remove(l, p) ==
  \/ Carried(l, Without(l, p), sync[l].listed \ {p})
  \/ /\ p.place # sync[l].setting
     /\ sync' = [sync EXCEPT ![l].listed = @ \ {p}]
     /\ lapses' = lapses \cup {"forbidden"}
     /\ UNCHANGED <<hosted, wish, setting, names, claim, zone, tried, turns>>

RemoveBlocking(l) ==
  /\ sync[l].at = "publishing" /\ Candidates(l) = {}
  /\ \E p \in Blocking(l) : Remove(l, p)

\* The server's own records at this name that the row does not list.
Strays(l, d) == {r \in zone[l] : /\ r.name = d.name /\ r.place = sync[l].place
                                 /\ \A p \in sync[l].listed : ~SameKey(r, p)}

\* Created, or, if its creation was carried out before, taken up again; the
\* others of that name go first.
Create(l) ==
  /\ sync[l].at = "publishing" /\ Candidates(l) = {} /\ Blocking(l) = {}
  /\ \E d \in Missing(l) :
       LET new == Put(d, sync[l].place)
           wrong == {r \in Strays(l, d) : r.type # d.type}
       IN IF wrong # {} THEN \E r \in wrong : Carried(l, zone[l] \ {r}, sync[l].listed)
          ELSE Carried(l, Without(l, new) \cup {new}, sync[l].listed \cup {new})

RemoveRest(l) ==
  /\ sync[l].at = "publishing" /\ Missing(l) = {}
  /\ \E p \in sync[l].listed \ KeptHere(l) : Remove(l, p)

\* A private address is reported as an error.
PublishEnds(l) ==
  /\ sync[l].at = "publishing" /\ Missing(l) = {} /\ sync[l].listed = KeptHere(l)
  /\ IF sync[l].desired = {} THEN Fails(l)
     ELSE /\ names' = [names EXCEPT ![l] = Saved(l, "active")]
          /\ sync' = [sync EXCEPT ![l] = NoSync]
          /\ tried' = [tried EXCEPT ![l] = {}]
  /\ UNCHANGED <<hosted, wish, setting, claim, zone, turns, lapses>>

-----------------------------------------------------------------------------
(* A name that nobody holds any more. *)

Withdraw(l) ==
  /\ sync[l].at = "withdrawing"
  /\ \E p \in sync[l].listed : Remove(l, p)

Lost(l) == IF sync[l].unsure THEN {r \in zone[l] : r.place = sync[l].place} ELSE {}

\* removeLost(): for a name that was not active, what carries its note.
RemoveLost(l) ==
  /\ sync[l].at = "withdrawing" /\ sync[l].listed = {}
  /\ \E r \in Lost(l) : Carried(l, zone[l] \ {r}, {})

WithdrawEnds(l) ==
  /\ sync[l].at = "withdrawing" /\ sync[l].listed = {}
  /\ \/ Lost(l) = {} /\ UNCHANGED lapses
     \/ /\ Lost(l) # {} /\ sync[l].place # sync[l].setting
        /\ lapses' = lapses \cup {"forbidden"}
  /\ names' = [names EXCEPT ![l] = NoName]
  /\ sync' = [sync EXCEPT ![l] = NoSync]
  /\ tried' = [tried EXCEPT ![l] = {}]
  /\ UNCHANGED <<hosted, wish, setting, claim, zone, turns>>

\* The API stops, or the base refuses what it writes at the end: the transaction is
\* undone, what the provider did is not.
SyncStops(l) ==
  /\ sync[l].at # "idle"
  /\ sync' = [sync EXCEPT ![l] = NoSync]
  /\ Tried(l)
  /\ lapses' = IF names[l].held /\ (~sync[l].unsure \/ sync[l].place # names[l].place)
               THEN lapses \cup {"stopped"} ELSE lapses
  /\ UNCHANGED <<hosted, wish, setting, names, claim, zone, turns>>

-----------------------------------------------------------------------------

Publication(l) == Update(l) \/ RemoveBlocking(l) \/ Create(l) \/ RemoveRest(l) \/ PublishEnds(l)

\* Followed to the first lapse: nothing is said of what comes after it.
SubdomainsNext ==
  /\ lapses = {}
  /\ \/ WishChanges \/ SettingChanges
     \/ ClaimInsert \/ ClaimFails \/ Release \/ Departing
     \/ \E l \in Labels :
          \/ ClaimLabel(l) \/ SyncRow(l) \/ Move(l) \/ Publication(l)
          \/ Withdraw(l) \/ RemoveLost(l) \/ WithdrawEnds(l)
          \/ ProviderRefuses(l) \/ SyncStops(l)

SubdomainsSpec == SubdomainsInit /\ [][SubdomainsNext]_subdomainVars

-----------------------------------------------------------------------------

\* When no synchronisation is under way, an active name is published exactly as its
\* row lists it, and a name that is gone has left nothing in any zone: whatever
\* answers were lost.  Four windows of the code are named and set apart.
ZoneAsListed ==
  lapses = {} =>
    \A l \in Labels : sync[l].at = "idle" =>
      /\ names[l].st = "active" =>
           zone[l] \subseteq names[l].records /\ (names[l].held => zone[l] = names[l].records)
      /\ names[l].st = "none" => zone[l] = {}
=============================================================================
