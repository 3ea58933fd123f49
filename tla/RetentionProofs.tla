-------------------------- MODULE RetentionProofs ---------------------------
(***************************************************************************)
(* What accumulates and must not all go: the versions of the panel that    *)
(* updates itself, and the snapshots of a node under rotation.  For any    *)
(* number of versions and of starts allowed, until something crosses, the  *)
(* version in service is on disk, a trial keeps its way back open, and     *)
(* what was refused never comes back.  For any levels, delays and horizon, *)
(* the first snapshot of a slot is there for the whole retention of its    *)
(* level, and what the panel means to spare outlives the rotation.         *)
(***************************************************************************)
EXTENDS Updates, SnapshotRotation, FiniteSetTheorems, WellFoundedInduction, TLAPS

-----------------------------------------------------------------------------
(* The least and the greatest of a set of numbers. *)

LEMMA Least ==
  ASSUME NEW T, T \subseteq Nat, T # {}
  PROVE  \E x \in T : \A y \in T : x <= y
<1> DEFINE Below == {ss \in Nat \X Nat : ss[1] < ss[2]}
<1>1. IsWellFoundedOn(Below, Nat)
  <2>1. OpToRel(<, Nat) = Below
    BY DEF OpToRel
  <2> QED
    BY <2>1, NatLessThanWellFounded
<1>2. \A x, y \in Nat : y < x => <<y, x>> \in Below
  OBVIOUS
<1> HIDE DEF Below
<1>3. PICK x \in T : \A y \in T : ~(<<y, x>> \in Below)
  BY <1>1, WFMin
<1>4. \A y \in T : ~(y < x)
  BY <1>2, <1>3, Zenon
<1> QED
  BY <1>4

LEMMA Greatest ==
  ASSUME NEW n \in Nat, NEW T, T \subseteq 0..n, T # {}
  PROVE  \E x \in T : \A y \in T : y <= x
<1> DEFINE U == {m \in Nat : \E v \in T : m = n - v}
<1>1. PICK t \in T : TRUE
  OBVIOUS
<1>2. n - t \in Nat
  OBVIOUS
<1>3. U \subseteq Nat /\ U # {}
  BY <1>2
<1>4. PICK u \in U : \A y \in U : u <= y
  BY <1>3, Least
<1>5. PICK x \in T : u = n - x
  OBVIOUS
<1>6. \A y \in T : n - y \in U
  OBVIOUS
<1> HIDE DEF U
<1>7. \A y \in T : n - x <= n - y
  BY <1>4, <1>5, <1>6
<1> QED
  BY <1>7

-----------------------------------------------------------------------------
(* The updates (module Updates). *)

Search == [at: {"idle", "fetching", "extracting", "rehearsing", "cleaning"},
           version: {None} \cup Versions]

\* What is loaded, or brought in, is a version.
WellFormed ==
  /\ UpdatesTypeOK
  /\ api.at # "down" => api.version \in Versions
  /\ interface.at # "down" => interface.version \in Versions
  /\ check.at \in {"extracting", "rehearsing"} => check.version \in Versions
  /\ etat.precedente # None => etat.enService # None

\* Nothing was ever put in service: only the version delivered is there.
Fresh == etat.enService = None => disk = {1} /\ etat.refused = {} /\ api.at # "up"

\* The version in service, and the one before it.
Serving ==
  /\ etat.enService # None => etat.enService \in disk
  /\ etat.enService \notin etat.refused /\ etat.precedente \notin etat.refused
  /\ etat.precedente # None => etat.precedente < etat.enService

\* A trial is that of the youngest version installed.
OnTrial ==
  etat.bascule # None =>
    /\ etat.bascule = etat.enService /\ etat.precedente \in disk
    /\ etat.starts <= StartsAllowed
    /\ \A v \in disk : v <= etat.bascule

\* What a search brings in is younger than all there is, and was not refused; no
\* trial begins while it lasts.
Searching ==
  /\ check.at # "idle" => etat.bascule = None
  /\ check.at \in {"extracting", "rehearsing"} =>
       /\ check.version \in Versions \ etat.refused
       /\ etat.enService < check.version /\ check.version <= latest
       /\ \A v \in disk : v <= check.version
       /\ \A v \in doomed : v < check.version
  /\ check.at = "rehearsing" => check.version \in disk

\* A cleaning never erases what is in service or the way back; that of a
\* confirmation, nothing a later search could bring in.
Cleaning ==
  /\ \A v \in doomed : v # etat.enService /\ v # etat.precedente
  /\ check.at # "cleaning" => \A v \in doomed : v < latest
  /\ \A v \in disk : v <= latest

\* A confirmation that waits is that of the version running.
Confirms == confirm = "waiting" => etat.bascule # None /\ etat.bascule = api.version

\* A launcher loads what it read to be in service, if there is a way back.
Launches(launch) ==
  launch.at = "loading" /\ launch.seen.precedente # None =>
    launch.version = launch.seen.enService

Untangled ==
  /\ Fresh /\ Serving /\ OnTrial /\ Searching /\ Cleaning /\ Confirms
  /\ Launches(api) /\ Launches(interface)
  /\ api.at = "loading" /\ etat.enService = None => api.version = 1

UpdatesIInv == WellFormed /\ (tangles = {} => Untangled)

-----------------------------------------------------------------------------
(* What the launcher chooses. *)

\* There is something to start, in service or the highest installed.
LEMMA ChosenInstalled ==
  ASSUME UpdatesTypeOK, disk # {}
  PROVE  Chosen \in disk
<1>1. \E v \in disk : \A w \in disk : w <= v
  <2>1. Newest \in Nat /\ disk \subseteq 0..Newest
    BY UpdatesAssumption DEF UpdatesTypeOK, Versions
  <2> QED
    BY <2>1, Greatest
<1> QED
  BY <1>1 DEF Chosen

-----------------------------------------------------------------------------
(* Typing. *)

LEMMA UpdatesTyped ==
  ASSUME UpdatesTypeOK
  PROVE  /\ Newest \in Nat \ {0} /\ StartsAllowed \in Nat /\ None = 0 /\ None \notin Versions
         /\ 1 \in Versions /\ Versions \subseteq Nat
         /\ etat \in Etat /\ api \in Launch /\ interface \in Launch /\ check \in Search
  BY UpdatesAssumption DEF UpdatesTypeOK, Search, None, Versions

LEMMA RevertedTyped ==
  ASSUME UpdatesTypeOK, NEW seen \in Etat, NEW faulty \in Versions, CanRevert(seen, faulty)
  PROVE  /\ Reverted(seen, faulty) \in Etat
         /\ Reverted(seen, faulty).enService = seen.precedente
         /\ Reverted(seen, faulty).precedente = None
         /\ Reverted(seen, faulty).bascule = None
         /\ Reverted(seen, faulty).starts = 0
         /\ Reverted(seen, faulty).refused = seen.refused \cup {faulty}
         /\ seen.precedente \in disk /\ seen.precedente # None /\ seen.precedente # faulty
  BY UpdatesTyped DEF Reverted, CanRevert, Etat

LEMMA LoadingTyped ==
  ASSUME NEW version \in {None} \cup Versions, NEW seen \in Etat
  PROVE  /\ Loading(version, seen) \in Launch /\ Loading(version, seen).at = "loading"
         /\ Loading(version, seen).version = version /\ Loading(version, seen).seen = seen
  BY DEF Loading, Launch

LEMMA DownTyped ==
  /\ NoEtat \in Etat /\ Down(NoEtat) \in Launch /\ Down(NoEtat).at = "down"
  /\ Down(NoEtat).version = None
  BY DEF NoEtat, Down, Etat, Launch, None

LEMMA ChecksTyped ==
  ASSUME NEW at \in {"idle", "fetching", "extracting", "rehearsing", "cleaning"},
         NEW version \in {None} \cup Versions, Checks(at, version)
  PROVE  check' \in Search /\ check'.at = at /\ check'.version = version
  BY DEF Checks, Search

LEMMA TypesInitially == UpdatesInit => WellFormed
<1> SUFFICES ASSUME UpdatesInit PROVE WellFormed
  OBVIOUS
<1>1. /\ 1 \in Versions /\ None \notin Versions /\ NoEtat.bascule = None /\ NoEtat.starts = 0
      /\ NoEtat.precedente = None
  BY UpdatesAssumption DEF Versions, None, NoEtat
<1>2. api.at = "down" /\ interface.at = "down"
  BY DownTyped DEF UpdatesInit
<1> QED
  BY <1>1, <1>2, DownTyped DEF UpdatesInit, UpdatesTypeOK, WellFormed

LEMMA TypesKept ==
  ASSUME WellFormed, [UpdatesNext]_updatesVars
  PROVE  WellFormed'
<1>t. UpdatesTypeOK
  BY DEF WellFormed
<1>m. /\ Newest \in Nat \ {0} /\ StartsAllowed \in Nat /\ None = 0 /\ None \notin Versions
      /\ 1 \in Versions /\ Versions \subseteq Nat
      /\ etat \in Etat /\ api \in Launch /\ interface \in Launch /\ check \in Search
  BY <1>t, UpdatesTyped
<1>f. /\ etat.enService \in {None} \cup Versions /\ etat.precedente \in {None} \cup Versions
      /\ etat.bascule \in {None} \cup Versions /\ etat.starts \in Nat
      /\ etat.refused \subseteq Versions
      /\ api.version \in {None} \cup Versions /\ api.seen \in Etat
      /\ interface.version \in {None} \cup Versions /\ interface.seen \in Etat
      /\ check.version \in {None} \cup Versions
  BY <1>m DEF Etat, Launch, Search
<1>d. Down(NoEtat) \in Launch /\ Down(NoEtat).at = "down"
  BY DownTyped
<1>1. ASSUME StartApi PROVE WellFormed'
  <2>1. /\ api.at = "down" /\ UNCHANGED <<disk, latest, interface, check, confirm, doomed, tangles>>
    BY <1>1 DEF StartApi
  <2>2. Chosen \in disk /\ disk \subseteq Versions
    BY <1>1, <1>t, ChosenInstalled DEF StartApi, UpdatesTypeOK
  <2> DEFINE counted == [etat EXCEPT !.starts = IF @ > StartsAllowed THEN @ ELSE @ + 1]
             tried == etat.bascule = Chosen
             back == tried /\ counted.starts > StartsAllowed /\ CanRevert(counted, Chosen)
  <2>3. /\ etat' = IF back THEN Reverted(counted, Chosen) ELSE IF tried THEN counted ELSE etat
        /\ api' = Loading(IF back THEN etat.precedente ELSE Chosen, etat')
    BY <1>1 DEF StartApi
  <2>4. /\ counted \in Etat /\ counted.bascule = etat.bascule
        /\ counted.enService = etat.enService /\ counted.precedente = etat.precedente
    BY <1>m DEF Etat
  <2> HIDE DEF counted
  <2>5. /\ etat' \in Etat /\ (etat'.bascule = None => etat'.starts = 0)
        /\ (etat'.precedente # None => etat'.enService # None)
    BY <2>2, <2>3, <2>4, <1>t, <1>m, RevertedTyped DEF UpdatesTypeOK, WellFormed
  <2>6. api' \in Launch /\ api'.at = "loading" /\ api'.version \in Versions
    <3> DEFINE v == IF back THEN etat.precedente ELSE Chosen
    <3>1. v \in Versions
      BY <2>2, <2>4, <1>f, <1>t, <1>m, RevertedTyped
    <3> HIDE DEF v, back
    <3>2. api' = Loading(v, etat')
      BY <2>3 DEF v
    <3> QED
      BY <3>1, <3>2, <2>5, LoadingTyped
  <2> HIDE DEF back, tried
  <2> QED
    BY <2>1, <2>5, <2>6 DEF UpdatesTypeOK, WellFormed
<1>2. ASSUME ApiLoads PROVE WellFormed'
  <2>1. api' \in Launch /\ api'.at = "up" /\ api'.version = api.version
    BY <1>2, <1>f, DownTyped DEF ApiLoads, Launch
  <2>2. /\ etat' \in Etat /\ etat'.bascule = etat.bascule /\ etat'.starts = etat.starts
        /\ etat'.precedente = etat.precedente
        /\ etat'.enService = IF etat.enService = None THEN api.version ELSE etat.enService
    BY <1>2, <1>m, <1>f DEF ApiLoads, Etat
  <2> QED
    BY <1>2, <1>m, <2>1, <2>2 DEF ApiLoads, UpdatesTypeOK, WellFormed
<1>3. ASSUME NEW launch \in Launch, Breaks(launch), launch.version \in Versions
      PROVE  /\ etat' \in Etat /\ etat'.bascule = None /\ etat'.starts = 0
             /\ etat'.precedente = None
             /\ tangles' \subseteq {"crossed", "stale"}
             /\ Loading(launch.seen.precedente, etat') \in Launch
             /\ Loading(launch.seen.precedente, etat').at = "loading"
             /\ Loading(launch.seen.precedente, etat').version \in Versions
  <2>1. launch.seen \in Etat
    BY DEF Launch
  <2>2. launch.seen.precedente \in Versions
    BY <2>1, <1>3 DEF Breaks, CanRevert, Etat
  <2>3. etat' = Reverted(launch.seen, launch.version)
    BY <1>3 DEF Breaks
  <2>4. etat' \in Etat /\ etat'.bascule = None /\ etat'.starts = 0 /\ etat'.precedente = None
    BY <1>3, <1>t, <2>1, <2>3, RevertedTyped DEF Breaks
  <2>5. tangles' \subseteq {"crossed", "stale"}
    BY <1>3, <1>t DEF Breaks, Crossing, UpdatesTypeOK
  <2> QED
    BY <2>2, <2>4, <2>5, LoadingTyped
<1>4. ASSUME ApiBreaks PROVE WellFormed'
  <2>1. /\ Breaks(api) /\ api' = Loading(api.seen.precedente, etat') /\ api.at = "loading"
        /\ UNCHANGED <<disk, latest, interface, check, confirm, doomed>>
    BY <1>4 DEF ApiBreaks, Breaks
  <2>2. api.version \in Versions
    BY <2>1 DEF WellFormed
  <2> QED
    BY <1>3, <1>m, <2>1, <2>2 DEF UpdatesTypeOK, WellFormed
<1>5. ASSUME InterfaceBreaks PROVE WellFormed'
  <2>1. /\ Breaks(interface) /\ interface' = Loading(interface.seen.precedente, etat')
        /\ interface.at = "loading" /\ UNCHANGED <<disk, latest, api, check, confirm, doomed>>
    BY <1>5 DEF InterfaceBreaks, Breaks
  <2>2. interface.version \in Versions
    BY <2>1 DEF WellFormed
  <2> QED
    BY <1>3, <1>m, <2>1, <2>2 DEF UpdatesTypeOK, WellFormed
<1>6. ASSUME StartInterface PROVE WellFormed'
  <2>1. Chosen \in Versions
    BY <1>6, <1>t, ChosenInstalled DEF StartInterface, UpdatesTypeOK
  <2>2. interface' \in Launch /\ interface'.version \in Versions
    BY <1>6, <1>m, <2>1, LoadingTyped DEF StartInterface
  <2> QED
    BY <1>6, <2>2 DEF StartInterface, UpdatesTypeOK, WellFormed
<1>7. ASSUME InterfaceSettles PROVE WellFormed'
  BY <1>7, <1>d DEF InterfaceSettles, UpdatesTypeOK, WellFormed
<1>8. ASSUME ApiStops PROVE WellFormed'
  <2>1. /\ api' = Down(NoEtat) /\ check' = [at |-> "idle", version |-> None]
        /\ confirm' = "due" /\ doomed' = {} /\ UNCHANGED <<etat, disk, latest, interface, tangles>>
    BY <1>8 DEF ApiStops
  <2>2. /\ check'.at = "idle"
        /\ check' \in [at: {"idle", "fetching", "extracting", "rehearsing", "cleaning"},
                       version: {None} \cup Versions]
    BY <2>1
  <2>3. UpdatesTypeOK'
    BY <2>1, <2>2, <1>d, <1>t DEF UpdatesTypeOK
  <2> QED
    BY <2>1, <2>2, <2>3, <1>d DEF WellFormed
<1>9. ASSUME Publish PROVE WellFormed'
  <2>1. latest' \in Versions
    BY <1>9, <1>t, UpdatesAssumption DEF Publish, UpdatesTypeOK, Versions
  <2> QED
    BY <1>9, <2>1 DEF Publish, UpdatesTypeOK, WellFormed
<1>10. ASSUME CheckOnce \/ Fetch PROVE WellFormed'
  <2>1. /\ check' \in Search /\ check'.at \in {"idle", "fetching", "extracting"}
        /\ check'.at = "extracting" => check'.version \in Versions
        /\ api.at = "up"
    BY <1>10, <1>t, ChecksTyped DEF CheckOnce, Fetch, UpdatesTypeOK
  <2> QED
    BY <1>10, <2>1 DEF CheckOnce, Fetch, Search, UpdatesTypeOK, WellFormed
<1>11. ASSUME Extract PROVE WellFormed'
  <2>1. check.version \in Versions /\ api.at = "up"
    BY <1>11 DEF Extract, UpdatesTypeOK, WellFormed
  <2>2. /\ check' \in Search /\ check'.at \in {"idle", "rehearsing"}
        /\ check'.at = "rehearsing" => check'.version \in Versions
        /\ disk' \subseteq Versions
    BY <1>11, <1>t, <2>1, ChecksTyped DEF Extract, UpdatesTypeOK
  <2> QED
    BY <1>11, <2>1, <2>2 DEF Extract, Search, UpdatesTypeOK, WellFormed
<1>12. ASSUME RehearseFails PROVE WellFormed'
  <2>1. check.version \in Versions
    BY <1>12 DEF RehearseFails, WellFormed
  <2>2. /\ etat' \in Etat /\ etat'.bascule = etat.bascule /\ etat'.starts = etat.starts
        /\ etat'.precedente = etat.precedente /\ etat'.enService = etat.enService
    BY <1>12, <1>m, <2>1 DEF RehearseFails, Etat
  <2> QED
    BY <1>12, <1>m, <2>1, <2>2 DEF RehearseFails, Checks, UpdatesTypeOK, WellFormed
<1>13. ASSUME RehearsePasses PROVE WellFormed'
  <2>1. check.version \in Versions
    BY <1>13 DEF RehearsePasses, WellFormed
  <2>2. /\ etat' \in Etat /\ etat'.bascule = check.version /\ etat'.starts = 0
        /\ etat'.enService = check.version
    BY <1>13, <1>m, <1>f, <2>1 DEF RehearsePasses, Etat
  <2> QED
    BY <1>13, <1>m, <2>1, <2>2 DEF RehearsePasses, Checks, UpdatesTypeOK, WellFormed
<1>14. ASSUME NEW v \in Versions, Erase(v) PROVE WellFormed'
  BY <1>14 DEF Erase, UpdatesTypeOK, WellFormed
<1>15. ASSUME Cleaned PROVE WellFormed'
  BY <1>15, <1>m DEF Cleaned, UpdatesTypeOK, WellFormed
<1>16. ASSUME ConfirmIfPending PROVE WellFormed'
  BY <1>16 DEF ConfirmIfPending, UpdatesTypeOK, WellFormed
<1>17. ASSUME Answers PROVE WellFormed'
  <2>1. /\ etat' \in Etat /\ etat'.bascule = None /\ etat'.starts = 0
        /\ etat'.precedente = etat.precedente /\ etat'.enService = etat.enService
    BY <1>17, <1>m DEF Answers, Etat
  <2> QED
    BY <1>17, <1>m, <2>1 DEF Answers, UpdatesTypeOK, WellFormed
<1>18. ASSUME NoAnswer PROVE WellFormed'
  <2> DEFINE refusing ==
               [etat EXCEPT !.refused = @ \cup {api.version}, !.bascule = None, !.starts = 0]
  <2>1. api.version \in Versions /\ api.at = "up"
    BY <1>18 DEF NoAnswer, WellFormed, UpdatesTypeOK
  <2>2. /\ refusing \in Etat /\ refusing.bascule = None /\ refusing.starts = 0
        /\ refusing.precedente = etat.precedente /\ refusing.enService = etat.enService
    BY <1>m, <2>1 DEF Etat
  <2>3. etat' = IF etat.precedente = None THEN refusing
                ELSE [refusing EXCEPT !.enService = etat.precedente, !.precedente = None]
    BY <1>18 DEF NoAnswer
  <2> HIDE DEF refusing
  <2>4. /\ etat' \in Etat /\ etat'.bascule = None /\ etat'.starts = 0 /\ etat'.precedente = None
    BY <1>f, <2>2, <2>3 DEF Etat
  <2> QED
    BY <1>18, <2>1, <2>4 DEF NoAnswer, UpdatesTypeOK, WellFormed
<1>19. ASSUME RollbackVersion PROVE WellFormed'
  <2>1. etat.enService \in Versions /\ etat.precedente \in Versions
    BY <1>19, <1>f DEF RollbackVersion, WellFormed
  <2>2. /\ etat' \in Etat /\ etat'.bascule = None /\ etat'.starts = 0 /\ etat'.precedente = None
    BY <1>19, <1>m, <2>1 DEF RollbackVersion, Etat
  <2> QED
    BY <1>19, <2>2 DEF RollbackVersion, Crossing, UpdatesTypeOK, WellFormed
<1>20. ASSUME UNCHANGED updatesVars PROVE WellFormed'
  BY <1>20 DEF updatesVars, UpdatesTypeOK, WellFormed
<1> QED
  BY <1>1, <1>2, <1>4, <1>5, <1>6, <1>7, <1>8, <1>9, <1>10, <1>11, <1>12, <1>13, <1>14,
     <1>15, <1>16, <1>17, <1>18, <1>19, <1>20 DEF UpdatesNext, Confirming

-----------------------------------------------------------------------------
(* What holds until something crosses. *)

\* What was refused stays refused, and is not put in service.
KeepsRefusals ==
  /\ etat.refused \subseteq etat'.refused
  /\ etat'.enService # etat.enService => etat'.enService \notin etat'.refused

LEMMA ChosenServes ==
  ASSUME WellFormed, Fresh, Serving
  PROVE  Chosen = IF etat.enService = None THEN 1 ELSE etat.enService
<1>1. CASE etat.enService # None
  BY <1>1 DEF Chosen, Serving
<1>2. CASE etat.enService = None
  <2>1. disk = {1} /\ etat.enService \notin disk
    BY <1>2 DEF Fresh, None
  <2>2. \E v \in disk : \A w \in disk : w <= v
    BY <2>1
  <2> QED
    BY <1>2, <2>1, <2>2 DEF Chosen
<1> QED
  BY <1>1, <1>2

LEMMA UntangledInitially == UpdatesInit => Untangled
<1> SUFFICES ASSUME UpdatesInit PROVE Untangled
  OBVIOUS
<1>1. /\ NoEtat.enService = None /\ NoEtat.precedente = None /\ NoEtat.bascule = None
      /\ NoEtat.refused = {} /\ Down(NoEtat).at = "down"
  BY DEF NoEtat, Down
<1>2. check.at = "idle"
  BY DEF UpdatesInit
<1> QED
  BY <1>1, <1>2 DEF UpdatesInit, Untangled, Fresh, Serving, OnTrial, Searching, Cleaning,
     Confirms, Launches

LEMMA UntangledKept ==
  ASSUME WellFormed, Untangled, tangles = {}, tangles' = {}, [UpdatesNext]_updatesVars
  PROVE  Untangled' /\ KeepsRefusals
<1>t. UpdatesTypeOK
  BY DEF WellFormed
<1>m. /\ StartsAllowed \in Nat /\ None = 0 /\ None \notin Versions
      /\ 1 \in Versions /\ Versions \subseteq Nat
      /\ etat \in Etat /\ api \in Launch /\ interface \in Launch /\ check \in Search
  BY <1>t, UpdatesTyped
<1>f. /\ etat.enService \in {None} \cup Versions /\ etat.precedente \in {None} \cup Versions
      /\ etat.bascule \in {None} \cup Versions /\ etat.starts \in Nat
      /\ etat.refused \subseteq Versions
      /\ api.version \in {None} \cup Versions /\ api.seen \in Etat
      /\ interface.version \in {None} \cup Versions /\ interface.seen \in Etat
      /\ disk \subseteq Versions /\ doomed \subseteq Versions /\ latest \in Versions
  BY <1>m, <1>t DEF Etat, Launch, UpdatesTypeOK
<1>n. /\ etat.enService \in Nat /\ etat.precedente \in Nat /\ etat.bascule \in Nat
      /\ latest \in Nat /\ disk \subseteq Nat /\ doomed \subseteq Nat
  <2>1. 0 \in Nat
    OBVIOUS
  <2> QED
    BY <2>1, <1>m, <1>f
<1>u. /\ Fresh /\ Serving /\ OnTrial /\ Searching /\ Cleaning /\ Confirms
      /\ Launches(api) /\ Launches(interface)
      /\ api.at = "loading" /\ etat.enService = None => api.version = 1
  BY DEF Untangled
<1>c. Chosen = IF etat.enService = None THEN 1 ELSE etat.enService
  BY <1>u, ChosenServes
<1> USE DEF KeepsRefusals
<1>1. ASSUME StartApi PROVE Untangled' /\ KeepsRefusals
  <2> DEFINE counted == [etat EXCEPT !.starts = IF @ > StartsAllowed THEN @ ELSE @ + 1]
             tried == etat.bascule = Chosen
             back == tried /\ counted.starts > StartsAllowed /\ CanRevert(counted, Chosen)
  <2>1. /\ api.at = "down" /\ UNCHANGED <<disk, latest, interface, check, confirm, doomed, tangles>>
        /\ etat' = IF back THEN Reverted(counted, Chosen) ELSE IF tried THEN counted ELSE etat
        /\ api' = Loading(IF back THEN etat.precedente ELSE Chosen, etat')
    BY <1>1 DEF StartApi
  <2>2. /\ counted \in Etat /\ counted.bascule = etat.bascule
        /\ counted.enService = etat.enService /\ counted.precedente = etat.precedente
        /\ counted.refused = etat.refused
        /\ counted.starts = IF etat.starts > StartsAllowed THEN etat.starts ELSE etat.starts + 1
    BY <1>m DEF Etat
  <2>3. check.at = "idle" /\ doomed = {} /\ confirm = "due"
    BY <2>1, <1>t DEF UpdatesTypeOK
  <2>4. Chosen \in Versions
    BY <1>c, <1>f, <1>m
  <2> HIDE DEF counted
  <2>5. CASE tried
    <3>1. etat.enService = Chosen /\ etat.bascule # None /\ etat.precedente \in disk
          /\ etat.precedente < etat.enService /\ etat.starts <= StartsAllowed
          /\ etat.precedente # None
      BY <2>5, <2>4, <1>m, <1>f, <1>u DEF OnTrial, Serving
    <3>2. CanRevert(counted, Chosen)
      <4>1. etat.precedente # Chosen
        BY <3>1, <1>n
      <4> QED
        BY <4>1, <3>1, <2>2 DEF CanRevert
    <3>3. CASE counted.starts > StartsAllowed
      <4>1. back /\ CanRevert(counted, Chosen)
        BY <3>2, <3>3, <2>5
      <4>2. etat' = Reverted(counted, Chosen) /\ api' = Loading(etat.precedente, etat')
        BY <4>1, <2>1
      <4>3. /\ etat' \in Etat /\ etat'.enService = etat.precedente /\ etat'.precedente = None
            /\ etat'.bascule = None /\ etat'.refused = etat.refused \cup {Chosen}
            /\ etat.precedente # None /\ etat.precedente # Chosen
        BY <4>1, <4>2, <2>2, <2>4, <1>t, RevertedTyped
      <4>4. api'.at = "loading" /\ api'.seen = etat'
        BY <4>2, <4>3, <1>f, LoadingTyped
      <4> QED
        BY <4>3, <4>4, <3>1, <2>1, <2>3, <1>m, <1>f, <1>u DEF Untangled, Fresh, Serving, OnTrial,
           Searching, Cleaning, Confirms, Launches
    <3>4. CASE ~(counted.starts > StartsAllowed)
      <4>1. etat' = counted /\ api' = Loading(Chosen, etat')
        BY <3>4, <2>1, <2>5
      <4>2. /\ etat'.enService = etat.enService /\ etat'.precedente = etat.precedente
            /\ etat'.bascule = etat.bascule /\ etat'.refused = etat.refused
            /\ etat'.starts <= StartsAllowed
        BY <4>1, <3>4, <2>2, <1>f, <1>m
      <4>3. api'.at = "loading" /\ api'.seen = etat' /\ api'.version = Chosen
        BY <4>1, <2>2, <2>4, LoadingTyped
      <4> QED
        BY <4>2, <4>3, <3>1, <2>1, <2>3, <1>m, <1>f, <1>u DEF Untangled, Fresh, Serving, OnTrial,
           Searching, Cleaning, Confirms, Launches
    <3> QED
      BY <3>3, <3>4
  <2>6. CASE ~tried
    <3>1. etat' = etat /\ api' = Loading(Chosen, etat')
      BY <2>1, <2>6
    <3>2. api'.at = "loading" /\ api'.seen = etat' /\ api'.version = Chosen
      BY <3>1, <2>4, <1>m, LoadingTyped
    <3> QED
      BY <3>1, <3>2, <2>1, <2>3, <1>c, <1>m, <1>f, <1>u DEF Untangled, Fresh, Serving, OnTrial,
         Searching, Cleaning, Confirms, Launches, WellFormed
  <2> QED
    BY <2>5, <2>6
<1>2. ASSUME ApiLoads PROVE Untangled' /\ KeepsRefusals
  <2>1. /\ api.at = "loading" /\ api'.at = "up" /\ api'.version = api.version
        /\ UNCHANGED <<disk, latest, interface, check, confirm, doomed, tangles>>
    BY <1>2 DEF ApiLoads
  <2>2. /\ etat'.bascule = etat.bascule /\ etat'.starts = etat.starts
        /\ etat'.precedente = etat.precedente /\ etat'.refused = etat.refused
        /\ etat'.enService = IF etat.enService = None THEN api.version ELSE etat.enService
    BY <1>2, <1>m DEF ApiLoads, Etat
  <2>3. check.at = "idle" /\ doomed = {} /\ confirm = "due"
    BY <2>1, <1>t DEF UpdatesTypeOK
  <2>4. etat.enService = None => api.version = 1 /\ etat.precedente = None /\ etat.bascule = None
    BY <2>1, <1>u, <1>m, <1>f DEF WellFormed, OnTrial
  <2> QED
    BY <2>1, <2>2, <2>3, <2>4, <1>m, <1>f, <1>u DEF Untangled, Fresh, Serving, OnTrial,
       Searching, Cleaning, Confirms, Launches
<1>3. ASSUME NEW launch \in Launch, Breaks(launch), launch.version \in Versions, Launches(launch)
      PROVE  /\ confirm # "waiting"
             /\ etat.precedente \in disk /\ etat.precedente # None
             /\ etat'.enService = etat.precedente /\ etat'.precedente = None
             /\ etat'.bascule = None /\ etat'.refused = etat.refused \cup {etat.enService}
             /\ Loading(launch.seen.precedente, etat').at = "loading"
             /\ Loading(launch.seen.precedente, etat').seen = etat'
  <2>1. etat = launch.seen /\ confirm # "waiting"
    BY <1>3 DEF Breaks, Crossing
  <2>2. /\ etat' = Reverted(etat, launch.version) /\ CanRevert(etat, launch.version)
        /\ launch.at = "loading"
    BY <1>3, <2>1 DEF Breaks
  <2>3. /\ etat' \in Etat /\ etat'.enService = etat.precedente /\ etat'.precedente = None
        /\ etat'.bascule = None /\ etat'.refused = etat.refused \cup {launch.version}
        /\ etat.precedente \in disk /\ etat.precedente # None
    <3>1. etat \in Etat /\ launch.version \in Versions /\ UpdatesTypeOK
      BY <1>3, <1>m, <1>t
    <3> DEFINE version == launch.version
               new == Reverted(etat, version)
    <3> HIDE DEF version, new
    <3>2. etat' = new
      BY <2>2 DEF new, version
    <3>3. version \in Versions /\ CanRevert(etat, version)
      BY <2>2, <3>1 DEF version
    <3>4. /\ new \in Etat /\ new.enService = etat.precedente /\ new.precedente = None
          /\ new.bascule = None /\ new.refused = etat.refused \cup {version}
          /\ etat.precedente \in disk /\ etat.precedente # None
      BY <3>1, <3>3, RevertedTyped DEF new
    <3> QED
      BY <3>2, <3>4 DEF version
  <2>4. launch.version = etat.enService
    BY <1>3, <2>1, <2>2, <2>3 DEF Launches
  <2>5. /\ Loading(launch.seen.precedente, etat').at = "loading"
        /\ Loading(launch.seen.precedente, etat').seen = etat'
    BY <2>1, <2>3, <1>f, LoadingTyped
  <2> QED
    BY <2>1, <2>3, <2>4, <2>5
<1>4. ASSUME ApiBreaks PROVE Untangled' /\ KeepsRefusals
  <2>1. /\ Breaks(api) /\ api' = Loading(api.seen.precedente, etat') /\ api.at = "loading"
        /\ UNCHANGED <<disk, latest, interface, check, confirm, doomed>>
    BY <1>4 DEF ApiBreaks, Breaks
  <2>2. api.version \in Versions
    BY <2>1 DEF WellFormed
  <2>3. check.at = "idle" /\ doomed = {} /\ confirm = "due"
    BY <2>1, <1>t DEF UpdatesTypeOK
  <2>4. /\ etat.precedente \in disk /\ etat.precedente # None
        /\ etat'.enService = etat.precedente /\ etat'.precedente = None
        /\ etat'.bascule = None /\ etat'.refused = etat.refused \cup {etat.enService}
        /\ api'.at = "loading" /\ api'.seen = etat'
    BY <1>3, <1>m, <1>u, <2>1, <2>2
  <2>5. etat.precedente < etat.enService /\ etat.enService \in Versions
    BY <2>4, <1>f, <1>u DEF Serving, WellFormed
  <2>6. Fresh' /\ Serving' /\ KeepsRefusals
    <3>1. etat.precedente \notin etat.refused \cup {etat.enService}
      BY <2>5, <1>n, <1>u DEF Serving
    <3>2. None \notin etat'.refused
      BY <2>4, <2>5, <1>m, <1>f
    <3> QED
      BY <2>1, <2>4, <3>1, <3>2 DEF Fresh, Serving
  <2>7. Cleaning'
    BY <2>1, <2>3, <2>4, <1>u DEF Cleaning
  <2> QED
    BY <2>1, <2>3, <2>4, <2>6, <2>7, <1>m, <1>f, <1>u DEF Untangled, Fresh, Serving, OnTrial,
       Searching, Cleaning, Confirms, Launches
<1>5. ASSUME InterfaceBreaks PROVE Untangled' /\ KeepsRefusals
  <2>1. /\ Breaks(interface) /\ interface' = Loading(interface.seen.precedente, etat')
        /\ interface.at = "loading" /\ UNCHANGED <<disk, latest, api, check, confirm, doomed>>
    BY <1>5 DEF InterfaceBreaks, Breaks
  <2>2. interface.version \in Versions
    BY <2>1 DEF WellFormed
  <2>3. /\ confirm # "waiting" /\ etat.precedente \in disk /\ etat.precedente # None
        /\ etat'.enService = etat.precedente /\ etat'.precedente = None
        /\ etat'.bascule = None /\ etat'.refused = etat.refused \cup {etat.enService}
        /\ interface'.at = "loading" /\ interface'.seen = etat'
    BY <1>3, <1>m, <1>u, <2>1, <2>2
  <2>4. etat.precedente < etat.enService /\ etat.enService \in Versions
    BY <2>3, <1>f, <1>u DEF Serving, WellFormed
  <2>5. Searching'
    <3>1. etat'.enService \in Nat /\ etat.enService \in Nat
      BY <2>3, <2>4, <1>f, <1>m
    <3>2. CASE check.at \in {"extracting", "rehearsing"}
      <4>1. /\ check.version \in Versions \ etat.refused /\ etat.enService < check.version
            /\ check.version \in Nat
        BY <3>2, <1>u, <1>m DEF Searching
      <4>2. etat'.enService < check.version /\ check.version # etat.enService
        BY <4>1, <3>1, <2>3, <2>4
      <4> QED
        BY <4>1, <4>2, <2>1, <2>3, <1>u DEF Searching
    <3>3. CASE check.at \notin {"extracting", "rehearsing"}
      BY <3>3, <2>1, <2>3 DEF Searching
    <3> QED
      BY <3>2, <3>3
  <2>6. Fresh' /\ Serving' /\ KeepsRefusals
    <3>1. etat.precedente \notin etat.refused \cup {etat.enService}
      BY <2>4, <1>n, <1>u DEF Serving
    <3>2. None \notin etat'.refused
      BY <2>3, <2>4, <1>m, <1>f
    <3> QED
      BY <2>1, <2>3, <3>1, <3>2 DEF Fresh, Serving
  <2>7. Cleaning'
    BY <2>1, <2>3, <1>m, <1>f, <1>u DEF Cleaning
  <2> QED
    BY <2>1, <2>3, <2>5, <2>6, <2>7, <1>u DEF Untangled, OnTrial, Confirms, Launches
<1>6. ASSUME StartInterface PROVE Untangled' /\ KeepsRefusals
  <2>1. /\ interface' = Loading(Chosen, etat)
        /\ UNCHANGED <<etat, disk, latest, api, check, confirm, doomed>>
    BY <1>6 DEF StartInterface
  <2>2. Chosen \in Versions
    BY <1>c, <1>f, <1>m
  <2>3. interface'.version = Chosen /\ interface'.seen = etat
    BY <2>1, <2>2, <1>m, LoadingTyped
  <2>4. Launches(interface)'
    BY <2>3, <1>c DEF Launches, WellFormed
  <2> QED
    BY <2>1, <2>4, <1>u DEF Untangled, Fresh, Serving, OnTrial, Searching, Cleaning, Confirms,
                            Launches
<1>7. ASSUME InterfaceSettles \/ Publish PROVE Untangled' /\ KeepsRefusals
  <2>1. /\ UNCHANGED <<etat, disk, api, check, confirm, doomed>>
        /\ latest' \in Nat /\ latest <= latest'
    BY <1>7, <1>n DEF InterfaceSettles, Publish
  <2>2. Launches(interface)'
    BY <1>7, <1>u, DownTyped DEF InterfaceSettles, Publish, Launches
  <2>3. /\ \A v \in doomed : v < latest => v < latest'
        /\ \A v \in disk : v <= latest => v <= latest'
        /\ check.version \in Versions /\ check.version <= latest => check.version <= latest'
    <3>1. \A v \in Nat : (v < latest => v < latest') /\ (v <= latest => v <= latest')
      BY <2>1, <1>n
    <3> QED
      BY <3>1, <1>m, <1>n
  <2>4. Searching' /\ Cleaning'
    BY <2>1, <2>3, <1>u DEF Searching, Cleaning
  <2> QED
    BY <2>1, <2>2, <2>4, <1>u DEF Untangled, Fresh, Serving, OnTrial, Confirms, Launches
<1>8. ASSUME ApiStops PROVE Untangled' /\ KeepsRefusals
  <2>1. /\ api' = Down(NoEtat) /\ check' = [at |-> "idle", version |-> None]
        /\ confirm' = "due" /\ doomed' = {} /\ UNCHANGED <<etat, disk, latest, interface>>
    BY <1>8 DEF ApiStops
  <2>2. check'.at = "idle" /\ api'.at = "down"
    BY <2>1, DownTyped
  <2> QED
    BY <2>1, <2>2, <1>u DEF Untangled, Fresh, Serving, OnTrial,
       Searching, Cleaning, Confirms, Launches
<1>9. ASSUME CheckOnce PROVE Untangled' /\ KeepsRefusals
  <2>1. /\ etat.bascule = None /\ check'.at = "fetching" /\ check.at = "idle"
        /\ UNCHANGED <<etat, disk, latest, api, interface, confirm, doomed>>
    BY <1>9, ChecksTyped DEF CheckOnce
  <2> QED
    BY <2>1, <1>u DEF Untangled, Fresh, Serving, OnTrial,
       Searching, Cleaning, Confirms, Launches
<1>10. ASSUME Fetch PROVE Untangled' /\ KeepsRefusals
  <2>1. check.at = "fetching" /\ UNCHANGED <<etat, disk, latest, api, interface, confirm, doomed>>
    BY <1>10 DEF Fetch
  <2>2. \/ check'.at = "idle"
        \/ /\ check'.at = "extracting" /\ check'.version = latest
           /\ latest > etat.enService /\ latest \notin etat.refused
    BY <1>10, <1>f, ChecksTyped DEF Fetch
  <2>3. Searching'
    BY <2>1, <2>2, <1>f, <1>n, <1>u DEF Searching, Cleaning
  <2> QED
    BY <2>1, <2>2, <2>3, <1>u DEF Untangled, Fresh, Serving, OnTrial, Cleaning, Confirms, Launches
<1>11. ASSUME Extract PROVE Untangled' /\ KeepsRefusals
  <2>1. /\ check.at = "extracting"
        /\ UNCHANGED <<etat, latest, api, interface, confirm, doomed>>
    BY <1>11 DEF Extract
  <2>2. /\ check.version \in Versions \ etat.refused /\ check.version \in Nat
        /\ etat.enService < check.version /\ check.version <= latest
        /\ \A v \in disk : v <= check.version
        /\ \A v \in doomed : v < check.version
        /\ etat.bascule = None /\ etat.enService # None
    <3>1. api.at = "up"
      BY <2>1, <1>t DEF UpdatesTypeOK
    <3> QED
      BY <2>1, <3>1, <1>m, <1>u DEF Searching, Fresh
  <2>3. \/ /\ disk' = disk \cup {check.version}
           /\ check'.at = "rehearsing" /\ check'.version = check.version
        \/ disk' \in {disk, disk \ {check.version}} /\ check'.at = "idle"
    BY <1>11, <2>2, ChecksTyped DEF Extract
  <2>4. etat.enService \in disk => etat.enService \in disk'
    BY <2>2, <2>3, <1>n
  <2>5. \A v \in disk' : v <= check.version /\ v <= latest
    BY <2>2, <2>3, <1>u DEF Cleaning
  <2> QED
    BY <2>1, <2>2, <2>3, <2>4, <2>5, <1>u DEF Untangled, Fresh, Serving, OnTrial,
       Searching, Cleaning, Confirms, Launches
<1>12. ASSUME RehearseFails PROVE Untangled' /\ KeepsRefusals
  <2>1. /\ check.at = "rehearsing" /\ check'.at = "cleaning"
        /\ doomed' = doomed \cup (disk \ {etat.enService, etat.precedente})
        /\ UNCHANGED <<disk, latest, api, interface, confirm>>
    BY <1>12, ChecksTyped DEF RehearseFails, Kept
  <2>2. /\ etat'.bascule = etat.bascule /\ etat'.starts = etat.starts
        /\ etat'.precedente = etat.precedente /\ etat'.enService = etat.enService
        /\ etat'.refused = etat.refused \cup {check.version}
    BY <1>12, <1>m DEF RehearseFails, Etat
  <2>3. /\ check.version \in Versions /\ check.version \in Nat
        /\ etat.enService < check.version /\ etat.bascule = None /\ etat.enService # None
    <3>1. api.at = "up"
      BY <2>1, <1>t DEF UpdatesTypeOK
    <3> QED
      BY <2>1, <3>1, <1>m, <1>u DEF Searching, Fresh
  <2>4. check.version # etat.enService /\ check.version # etat.precedente
    BY <2>3, <1>n, <1>m, <1>u DEF Serving
  <2> QED
    BY <2>1, <2>2, <2>3, <2>4, <1>u DEF Untangled, Fresh, Serving, OnTrial,
       Searching, Cleaning, Confirms, Launches
<1>13. ASSUME RehearsePasses PROVE Untangled' /\ KeepsRefusals
  <2>1. /\ check.at = "rehearsing" /\ check'.at = "idle"
        /\ UNCHANGED <<disk, latest, api, interface, confirm, doomed>>
    BY <1>13, ChecksTyped DEF RehearsePasses
  <2>2. check.version \in Versions
    BY <2>1 DEF WellFormed
  <2>3. /\ etat'.bascule = check.version /\ etat'.starts = 0
        /\ etat'.precedente = etat.enService /\ etat'.enService = check.version
        /\ etat'.refused = etat.refused
    BY <1>13, <1>m, <1>f, <2>2 DEF RehearsePasses, Etat
  <2>4. /\ check.version \in disk \ etat.refused /\ check.version \in Nat
        /\ etat.enService < check.version /\ check.version <= latest
        /\ \A v \in disk : v <= check.version
        /\ \A v \in doomed : v < check.version
        /\ etat.bascule = None /\ etat.enService # None /\ api.at = "up"
    <3>1. api.at = "up"
      BY <2>1, <1>t DEF UpdatesTypeOK
    <3> QED
      BY <2>1, <3>1, <1>m, <1>u DEF Searching, Fresh
  <2>5. confirm # "waiting"
    BY <2>4, <1>u DEF Confirms
  <2>6. \A v \in doomed : v # check.version
    BY <2>4
  <2> QED
    BY <2>1, <2>3, <2>4, <2>5, <2>6, <1>m, <1>u DEF Untangled, Fresh, Serving, OnTrial,
       Searching, Cleaning, Confirms, Launches
<1>14. ASSUME NEW v \in Versions, Erase(v) PROVE Untangled' /\ KeepsRefusals
  <2>1. /\ v \in doomed /\ disk' = disk \ {v} /\ doomed' = doomed \ {v}
        /\ UNCHANGED <<etat, latest, api, interface, check, confirm>>
    BY <1>14 DEF Erase
  <2>2. v # etat.enService /\ v # etat.precedente
    BY <2>1, <1>u DEF Cleaning
  <2>3. check.at \in {"extracting", "rehearsing"} => v # check.version
    BY <2>1, <1>m, <1>u DEF Searching
  <2>4. api.at = "up" /\ etat.enService # None
    BY <2>1, <1>t, <1>u DEF UpdatesTypeOK, Fresh
  <2> QED
    BY <2>1, <2>2, <2>3, <2>4, <1>u DEF Untangled, Fresh, Serving, OnTrial,
       Searching, Cleaning, Confirms, Launches
<1>15. ASSUME Cleaned PROVE Untangled' /\ KeepsRefusals
  <2>1. /\ doomed = {} /\ UNCHANGED <<etat, disk, latest, api, interface, doomed>>
        /\ check' = check \/ check'.at = "idle"
        /\ confirm' = confirm \/ confirm' = "over"
    BY <1>15 DEF Cleaned
  <2> QED
    BY <2>1, <1>u DEF Untangled, Fresh, Serving, OnTrial,
       Searching, Cleaning, Confirms, Launches
<1>16. ASSUME ConfirmIfPending PROVE Untangled' /\ KeepsRefusals
  BY <1>16, <1>u DEF ConfirmIfPending, Confirmable, Untangled, Fresh, Serving, OnTrial,
     Searching, Cleaning, Confirms, Launches
<1>17. ASSUME Answers \/ NoAnswer
       PROVE  /\ api.at = "up" /\ check.at = "idle" /\ api.version = etat.enService
              /\ etat.bascule = etat.enService /\ etat.bascule # None
              /\ etat.precedente \in disk /\ etat.precedente # None
              /\ etat.precedente < etat.enService
              /\ \A v \in disk : v <= etat.enService
  <2>1. confirm = "waiting"
    BY <1>17 DEF Answers, NoAnswer
  <2>2. api.at = "up" /\ etat.bascule # None /\ etat.bascule = api.version
    BY <2>1, <1>t, <1>u DEF UpdatesTypeOK, Confirms
  <2> QED
    BY <2>2, <1>m, <1>f, <1>u DEF OnTrial, Searching, Serving
<1>18. ASSUME Answers PROVE Untangled' /\ KeepsRefusals
  <2>1. /\ doomed' = doomed \cup (disk \ {etat.enService, etat.precedente})
        /\ confirm' = "cleaning" /\ UNCHANGED <<disk, latest, api, interface, check>>
    BY <1>18 DEF Answers, Kept
  <2>2. /\ etat'.bascule = None /\ etat'.precedente = etat.precedente
        /\ etat'.enService = etat.enService /\ etat'.refused = etat.refused
    BY <1>18, <1>m DEF Answers, Etat
  <2>3. \A v \in doomed' : v < latest
    <3>1. etat.enService <= latest
      BY <1>17, <1>18, <1>u DEF Cleaning, Serving
    <3>2. \A v \in disk \ {etat.enService, etat.precedente} : v < etat.enService
      BY <1>17, <1>18, <1>n
    <3>3. \A v \in doomed : v < latest
      BY <1>17, <1>18, <1>u DEF Cleaning
    <3>4. \A v \in Nat : v < etat.enService => v < latest
      BY <3>1, <1>n
    <3> QED
      BY <2>1, <3>2, <3>3, <3>4, <1>n
  <2> QED
    BY <2>1, <2>2, <2>3, <1>17, <1>18, <1>u DEF Untangled, Fresh, Serving, OnTrial,
       Searching, Cleaning, Confirms, Launches
<1>19. ASSUME NoAnswer PROVE Untangled' /\ KeepsRefusals
  <2>1. confirm' = "over" /\ UNCHANGED <<disk, latest, api, interface, check, doomed>>
    BY <1>19 DEF NoAnswer
  <2> DEFINE refusing ==
               [etat EXCEPT !.refused = @ \cup {api.version}, !.bascule = None, !.starts = 0]
  <2>2. /\ refusing \in Etat /\ refusing.bascule = None
        /\ refusing.refused = etat.refused \cup {etat.enService}
    <3>1. api.version \in Versions
      BY <1>17, <1>19 DEF WellFormed
    <3> QED
      BY <3>1, <1>17, <1>19, <1>m DEF Etat
  <2>3. etat' = [refusing EXCEPT !.enService = etat.precedente, !.precedente = None]
    BY <1>17, <1>19 DEF NoAnswer
  <2> HIDE DEF refusing
  <2>4. /\ etat'.bascule = None /\ etat'.precedente = None /\ etat'.enService = etat.precedente
        /\ etat'.refused = etat.refused \cup {etat.enService}
    BY <1>f, <2>2, <2>3 DEF Etat
  <2>5. /\ etat.precedente \notin etat'.refused /\ None \notin etat'.refused
    BY <2>4, <1>17, <1>19, <1>n, <1>m, <1>f, <1>u DEF Serving
  <2> QED
    BY <2>1, <2>4, <2>5, <1>17, <1>19, <1>m, <1>f, <1>u DEF Untangled, Fresh, Serving, OnTrial,
       Searching, Cleaning, Confirms, Launches
<1>20. ASSUME RollbackVersion PROVE Untangled' /\ KeepsRefusals
  <2>1. /\ api.at = "up" /\ check.at = "idle" /\ etat.precedente # None /\ etat.precedente \in disk
        /\ confirm # "waiting" /\ UNCHANGED <<disk, latest, api, interface, check, confirm, doomed>>
    BY <1>20 DEF RollbackVersion, Crossing
  <2>2. /\ etat'.bascule = None /\ etat'.precedente = None /\ etat'.enService = etat.precedente
        /\ etat'.refused = etat.refused \cup {etat.enService}
    BY <1>20, <1>m DEF RollbackVersion, Etat
  <2>3. etat.enService # None /\ etat.precedente < etat.enService
    BY <2>1, <1>u DEF Serving, WellFormed
  <2>4. /\ etat.precedente \notin etat'.refused /\ None \notin etat'.refused
    BY <2>2, <2>3, <1>n, <1>m, <1>f, <1>u DEF Serving
  <2> QED
    BY <2>1, <2>2, <2>3, <2>4, <1>m, <1>f, <1>u DEF Untangled, Fresh, Serving, OnTrial,
       Searching, Cleaning, Confirms, Launches
<1>21. ASSUME UNCHANGED updatesVars PROVE Untangled' /\ KeepsRefusals
  BY <1>21, <1>u DEF updatesVars, Untangled, Fresh, Serving, OnTrial, Searching, Cleaning,
     Confirms, Launches
<1> QED
  BY <1>1, <1>2, <1>4, <1>5, <1>6, <1>7, <1>8, <1>9, <1>10, <1>11, <1>12, <1>13, <1>14,
     <1>15, <1>16, <1>18, <1>19, <1>20, <1>21 DEF UpdatesNext, Confirming

\* What has crossed stays so.
LEMMA TanglesStay ==
  ASSUME WellFormed, [UpdatesNext]_updatesVars
  PROVE  tangles \subseteq tangles'
  BY DEF UpdatesNext, updatesVars, StartApi, ApiLoads, ApiBreaks, Breaks, ApiStops, StartInterface,
     InterfaceBreaks, InterfaceSettles, Publish, CheckOnce, Fetch, Extract, RehearseFails,
     RehearsePasses, Erase, Cleaned, Confirming, ConfirmIfPending, Answers, NoAnswer,
     RollbackVersion

LEMMA UpdatesInitially == UpdatesInit => UpdatesIInv
  BY TypesInitially, UntangledInitially DEF UpdatesIInv

LEMMA UpdatesPreserved ==
  UpdatesIInv /\ [UpdatesNext]_updatesVars =>
    UpdatesIInv' /\ (tangles' = {} => KeepsRefusals)
<1> SUFFICES ASSUME UpdatesIInv, [UpdatesNext]_updatesVars
             PROVE  UpdatesIInv' /\ (tangles' = {} => KeepsRefusals)
  OBVIOUS
<1>1. WellFormed' /\ tangles \subseteq tangles'
  BY TypesKept, TanglesStay DEF UpdatesIInv
<1>2. CASE tangles' = {}
  <2>1. tangles = {} /\ WellFormed /\ Untangled
    BY <1>1, <1>2 DEF UpdatesIInv
  <2> QED
    BY <1>1, <1>2, <2>1, UntangledKept DEF UpdatesIInv
<1>3. CASE tangles' # {}
  BY <1>1, <1>3 DEF UpdatesIInv
<1> QED
  BY <1>2, <1>3

LEMMA UpdatesInductive == UpdatesSpec => []UpdatesIInv
  BY UpdatesInitially, UpdatesPreserved, PTL DEF UpdatesSpec

-----------------------------------------------------------------------------

\* The file, the launchers and the search keep their types, whatever crosses: a
\* launcher always has something to start.
THEOREM UpdatesTypeCorrect == UpdatesSpec => []UpdatesTypeOK
<1>1. UpdatesIInv => UpdatesTypeOK
  BY DEF UpdatesIInv, WellFormed
<1> QED
  BY <1>1, UpdatesInductive, PTL

\* The version in service is on disk, for any number of versions.
THEOREM VersionInService == UpdatesSpec => []InService
<1>1. UpdatesIInv => InService
  BY DEF UpdatesIInv, InService, Untangled, Serving
<1> QED
  BY <1>1, UpdatesInductive, PTL

\* A trial keeps an older version on disk, never refused, to go back to.
THEOREM WayBackStaysOpen == UpdatesSpec => []WayBack
<1>1. UpdatesIInv => WayBack
  <2> SUFFICES ASSUME UpdatesIInv, tangles = {}, etat.bascule # None
               PROVE  /\ etat.bascule = etat.enService
                      /\ etat.precedente \in disk \ etat.refused
                      /\ etat.precedente < etat.enService
                      /\ etat.starts <= StartsAllowed
    BY DEF WayBack
  <2>1. UpdatesTypeOK /\ Serving /\ OnTrial
    BY DEF UpdatesIInv, WellFormed, Untangled
  <2>2. etat.precedente # None
    BY <2>1, UpdatesTyped DEF OnTrial, UpdatesTypeOK
  <2> QED
    BY <2>1, <2>2 DEF Serving, OnTrial
<1> QED
  BY <1>1, UpdatesInductive, PTL

\* A refusal is never taken back, by an installation, a revert or a way back.
THEOREM RefusalsLast == UpdatesSpec => RefusedForGood
<1>1. UpdatesIInv /\ [UpdatesNext]_updatesVars =>
        [tangles' = {} =>
          /\ etat.refused \subseteq etat'.refused
          /\ etat'.enService # etat.enService => etat'.enService \notin etat'.refused]_updatesVars
  BY UpdatesPreserved DEF KeepsRefusals
<1> QED
  BY <1>1, UpdatesInductive, PTL DEF UpdatesSpec, RefusedForGood

-----------------------------------------------------------------------------
(* The rotation (module SnapshotRotation). *)

\* A result that the panel should spare is spared by its last answer, or is recent: the
\* panel had not recorded it when the agent asked.
SparedOrRecent ==
  \A s \in results \cap snaps : Age(s) < Requested => s \in gardes \/ s >= synced - Grouping

\* What the panel has not recorded came after its last report, but for the age it may
\* have had when it was given for a new snapshot.
UnrecordedIsRecent == \A s \in results \ known : s >= reported - Grouping

\* The safety snapshot is there while the copy lasts, and no report was made since.
SafetyIsThere ==
  round.at = "copying" /\ round.safety # NoSnapshot =>
    round.safety \in snaps /\ round.safety >= reported

RotationIInv ==
  /\ RotationTypeOK /\ FirstOfSlotKept /\ KeptAsPromised
  /\ SparedOrRecent /\ UnrecordedIsRecent /\ SafetyIsThere

-----------------------------------------------------------------------------

\* A sacrifice takes nothing new.
LEMMA SacrificeIsPart == \A S, enCours : Sacrificed(S, enCours) \subseteq S
  BY DEF Sacrificed

\* The rotation takes nothing new.
LEMMA RotationIsPart == \A S : AConserver(S) \subseteq S
  BY DEF AConserver, KeptByLevel, InRetention

\* It keeps the first snapshot of each slot during the retention of its level.
LEMMA RotationKeepsFirst ==
  ASSUME NEW S \in SUBSET (0..now), now \in Nat, NEW level \in Levels, NEW s \in S,
         Age(s) <= level.retention,
         \A t \in S : t < s => Slot(t, level) # Slot(s, level)
  PROVE  s \in AConserver(S)
<1>1. s \in KeptByLevel(S, level)
  BY DEF KeptByLevel, InRetention
<1>2. Age(s) <= MaxAge
  <2>1. level.interval \in Nat /\ level.retention \in level.interval..MaxAge /\ MaxAge \in Nat
    BY LevelsAssumption, DelaysAssumption
  <2>2. Age(s) \in Int
    BY DEF Age
  <2> QED
    BY <2>1, <2>2
<1> QED
  BY <1>1, <1>2 DEF AConserver

\* A snapshot recent enough, or spared by the panel, is not what the rotation destroys.
LEMMA RotationSpares ==
  ASSUME NEW S, NEW s \in S, s \in gardes \/ Age(s) < Grace, Age(s) <= MaxAge
  PROVE  s \in AConserver(S)
  BY DEF AConserver

\* The instants and the delays are numbers.
LEMMA RotationNumbers ==
  ASSUME RotationTypeOK
  PROVE  /\ now \in Nat /\ Horizon \in Nat /\ now <= Horizon
         /\ reported \in 0..now /\ synced \in 0..reported
         /\ taken \subseteq 0..now /\ snaps \subseteq 0..now /\ results \subseteq 0..now
         /\ MaxAge \in Nat /\ Grace \in Nat /\ Requested \in Nat /\ MaxEvents \in Nat
         /\ Grouping \in 0..(Grace - 1) /\ Grouping \in Nat
<1>1. /\ MaxAge \in Nat /\ Grace \in Nat /\ Requested \in Nat /\ MaxEvents \in Nat
      /\ Horizon \in Nat /\ Grouping \in 0..(Grace - 1)
  BY DelaysAssumption
<1>2. /\ now \in 0..Horizon /\ reported \in 0..now /\ synced \in 0..now /\ synced <= reported
  BY DEF RotationTypeOK, Instants
<1>3. taken \subseteq 0..now /\ snaps \subseteq 0..now /\ results \subseteq 0..now
  BY DEF RotationTypeOK
<1>4. now \in Nat /\ now <= Horizon /\ synced \in 0..reported /\ Grouping \in Nat
  BY <1>1, <1>2
<1> QED
  BY <1>1, <1>2, <1>3, <1>4

\* The counter of orders, failed calls and shortages keeps its type.
LEMMA EventsTyped ==
  ASSUME RotationTypeOK, NEW n \in Nat, Events(n)
  PROVE  events' \in 0..MaxEvents
  BY DelaysAssumption DEF Events, RotationTypeOK

\* The snapshot given for a new one is one of those recent enough for that.
LEMMA LatestIsReusable ==
  ASSUME RotationTypeOK, Reusable # {}
  PROVE  Max(Reusable) \in Reusable
<1>1. now \in Nat /\ Reusable \subseteq 0..now
  BY RotationNumbers DEF Reusable
<1>2. \E s \in Reusable : \A t \in Reusable : t <= s
  BY <1>1, Greatest
<1>3. \E s \in Reusable : \A t \in Reusable : s >= t
  BY <1>1, <1>2
<1> QED
  BY <1>3 DEF Max

\* A step at one instant keeps what it has to, if all it takes away and does not write
\* off is what the rotation leaves out.
LEMMA StepKeepsFirst ==
  ASSUME RotationTypeOK, FirstOfSlotKept, UNCHANGED now, taken \subseteq taken',
         spent \subseteq spent', taken' \subseteq 0..now,
         NEW between \in SUBSET taken',
         (taken' \ taken) \subseteq between,
         snaps \subseteq between \cup spent',
         AConserver(between) \subseteq snaps' \cup spent' \/ between \subseteq snaps' \cup spent'
  PROVE  FirstOfSlotKept'
<1> SUFFICES ASSUME NEW level \in Levels, NEW s \in taken' \ spent',
                    Age(s) <= level.retention,
                    \A t \in taken' : t < s => Slot(t, level) # Slot(s, level)
             PROVE  s \in snaps'
  BY DEF FirstOfSlotKept, Age, Slot
<1>1. s \in between
  <2>1. CASE s \notin taken
    BY <2>1
  <2>2. CASE s \in taken
    <3>1. s \in snaps
      BY <2>2 DEF FirstOfSlotKept
    <3> QED
      BY <3>1
  <2> QED
    BY <2>1, <2>2
<1>2. now \in Nat
  BY RotationNumbers
<1>3. s \in AConserver(between)
  BY <1>1, <1>2, RotationKeepsFirst
<1> QED
  BY <1>1, <1>3

\* What is spared stays so in a step at one instant between two reports, if the results
\* it adds are recent and the snapshots that go are written off.
LEMMA StepKeepsSpared ==
  ASSUME RotationIInv, UNCHANGED <<now, gardes, known, reported, synced, late>>,
         results \subseteq results', spent \subseteq spent',
         snaps \subseteq snaps' \cup spent',
         snaps' \cap results \subseteq snaps,
         \A s \in results' \ results : s \in snaps' \cap (0..now) /\ s >= reported - Grouping
  PROVE  KeptAsPromised' /\ SparedOrRecent' /\ UnrecordedIsRecent'
<1>1. /\ now \in Nat /\ reported \in 0..now /\ synced \in 0..reported
      /\ results \subseteq 0..now /\ snaps \subseteq 0..now /\ Grouping \in Nat
  BY RotationNumbers DEF RotationIInv
<1>2. KeptAsPromised'
  <2> SUFFICES ASSUME ~late, NEW s \in results' \ spent', Age(s) < Requested, Age(s) <= MaxAge
               PROVE  s \in snaps'
    BY DEF KeptAsPromised, Age
  <2>1. CASE s \in results
    BY <2>1 DEF RotationIInv, KeptAsPromised
  <2>2. CASE s \notin results
    BY <2>2
  <2> QED
    BY <2>1, <2>2
<1>3. SparedOrRecent'
  <2> SUFFICES ASSUME NEW s \in results' \cap snaps', Age(s) < Requested, s \notin gardes
               PROVE  s >= synced - Grouping
    BY DEF SparedOrRecent, Age
  <2>1. CASE s \in results
    BY <2>1 DEF RotationIInv, SparedOrRecent
  <2>2. CASE s \notin results
    <3>1. s >= reported - Grouping /\ s \in 0..now
      BY <2>2
    <3> QED
      BY <1>1, <3>1
  <2> QED
    BY <2>1, <2>2
<1>4. UnrecordedIsRecent'
  BY DEF RotationIInv, UnrecordedIsRecent
<1> QED
  BY <1>2, <1>3, <1>4

-----------------------------------------------------------------------------

LEMMA RotationInitially == RotationInit => RotationIInv
<1> SUFFICES ASSUME RotationInit PROVE RotationIInv
  OBVIOUS
<1>1. /\ now = 0 /\ snaps = {} /\ gardes = {} /\ results = {} /\ known = {} /\ taken = {}
      /\ spent = {} /\ reported = 0 /\ synced = 0 /\ late = FALSE /\ events = 0
      /\ round = [at |-> "idle", heard |-> FALSE, safety |-> NoSnapshot]
  BY DEF RotationInit
<1>2. RotationTypeOK
  <2>1. /\ now \in Instants /\ events \in 0..MaxEvents /\ reported \in 0..now
        /\ synced \in 0..now /\ synced <= reported
    BY <1>1, DelaysAssumption DEF Instants
  <2> QED
    BY <1>1, <2>1 DEF RotationTypeOK
<1> QED
  BY <1>1, <1>2 DEF RotationIInv, FirstOfSlotKept, KeptAsPromised, SparedOrRecent,
                    UnrecordedIsRecent, SafetyIsThere

\* The panel answers with what it has recorded, or does not answer.
LEMMA StartRoundKeeps ==
  ASSUME RotationIInv, NEW heard \in BOOLEAN, StartRound(heard)
  PROVE  RotationIInv'
<1>1. /\ UNCHANGED <<now, snaps, results, known, reported, taken, spent, late>>
      /\ gardes' = (IF heard THEN {s \in known \cap snaps : Age(s) < Requested} ELSE gardes)
      /\ synced' = (IF heard THEN reported ELSE synced)
      /\ round' = [at |-> "orders", heard |-> heard, safety |-> NoSnapshot]
  BY DEF StartRound
<1>2. /\ now \in Nat /\ reported \in 0..now /\ synced \in 0..reported
      /\ results \subseteq 0..now /\ snaps \subseteq 0..now /\ Grouping \in Nat
  BY RotationNumbers DEF RotationIInv
<1>3. RotationTypeOK'
  <2>1. events' \in 0..MaxEvents
    BY EventsTyped DEF StartRound, RotationIInv
  <2>2. gardes' \subseteq known'
    BY <1>1 DEF RotationIInv, RotationTypeOK
  <2> QED
    BY <1>1, <1>2, <2>1, <2>2 DEF RotationIInv, RotationTypeOK, Instants
<1>4. FirstOfSlotKept' /\ KeptAsPromised' /\ UnrecordedIsRecent' /\ SafetyIsThere'
  BY <1>1 DEF RotationIInv, FirstOfSlotKept, KeptAsPromised, UnrecordedIsRecent, SafetyIsThere,
              Age, Slot
<1>5. SparedOrRecent'
  <2> SUFFICES ASSUME NEW s \in results \cap snaps, Age(s) < Requested, s \notin gardes'
               PROVE  s >= synced' - Grouping
    BY <1>1 DEF SparedOrRecent, Age
  <2>1. CASE heard
    <3>1. s \notin known
      BY <1>1, <2>1
    <3> QED
      BY <1>1, <2>1, <3>1 DEF RotationIInv, UnrecordedIsRecent
  <2>2. CASE ~heard
    BY <1>1, <2>2 DEF RotationIInv, SparedOrRecent
  <2> QED
    BY <2>1, <2>2
<1> QED
  BY <1>3, <1>4, <1>5 DEF RotationIInv

\* A snapshot taken, or given up for want of space.
LEMMA PrendreEffect ==
  ASSUME RotationIInv, NEW low \in BOOLEAN, NEW enCours, Prendre(low, enCours), UNCHANGED now
  PROVE  /\ taken \subseteq taken' /\ taken' \subseteq 0..now' /\ spent \subseteq spent'
         /\ snaps' \cup spent' \subseteq taken' /\ snaps' \cap spent' = {}
         /\ snaps \subseteq snaps' \cup spent' /\ snaps' \cap results \subseteq snaps
         /\ ~low => now \in snaps'
         /\ FirstOfSlotKept'
<1>1. /\ snaps' = IF low THEN Sacrificed(snaps, enCours) ELSE snaps \cup {now}
      /\ spent' = spent \cup (snaps \ snaps') /\ taken' = taken \cup snaps'
      /\ low \/ now \notin taken
  BY DEF Prendre
<1>2. /\ now \in Nat /\ now \in 0..now /\ taken \subseteq 0..now
      /\ snaps \subseteq taken /\ spent \subseteq taken /\ results \subseteq taken
      /\ snaps \cap spent = {}
  BY RotationNumbers DEF RotationIInv, RotationTypeOK
<1>3. snaps' \subseteq snaps \cup {now} /\ (low => snaps' \subseteq snaps)
  BY <1>1, SacrificeIsPart
<1> DEFINE between == snaps \cup snaps'
<1>4. /\ between \in SUBSET taken' /\ (taken' \ taken) \subseteq between
      /\ snaps \subseteq between \cup spent' /\ between \subseteq snaps' \cup spent'
  BY <1>1, <1>2
<1>5. /\ taken \subseteq taken' /\ spent \subseteq spent' /\ snaps' \subseteq taken'
      /\ taken' \subseteq 0..now /\ spent' \subseteq taken' /\ snaps \subseteq snaps' \cup spent'
  BY <1>1, <1>2, <1>3
<1>6. snaps' \cap spent' = {} /\ snaps' \cap results \subseteq snaps
  BY <1>1, <1>2, <1>3
<1> HIDE DEF between
<1>7. FirstOfSlotKept'
  BY <1>4, <1>5, StepKeepsFirst DEF RotationIInv
<1> QED
  BY <1>1, <1>5, <1>6, <1>7

\* A snapshot given for an order: a recent one, a new one, or none.
LEMMA RegroupeEffect ==
  ASSUME RotationIInv, NEW low \in BOOLEAN, PrendreRegroupe(low), UNCHANGED now
  PROVE  /\ taken \subseteq taken' /\ taken' \subseteq 0..now' /\ spent \subseteq spent'
         /\ snaps' \cup spent' \subseteq taken' /\ snaps' \cap spent' = {}
         /\ snaps \subseteq snaps' \cup spent' /\ snaps' \cap results \subseteq snaps
         /\ FirstOfSlotKept'
         /\ Given(low) \subseteq snaps' \cap (0..now)
         /\ \A s \in Given(low) : s >= reported - Grouping
<1>1. /\ now \in Nat /\ reported \in 0..now /\ Grouping \in Nat
      /\ taken \subseteq 0..now /\ results \subseteq 0..now /\ snaps \subseteq 0..now
  BY RotationNumbers DEF RotationIInv
<1>2. CASE Reusable # {}
  <2>1. Given(low) = {Max(Reusable)} /\ UNCHANGED <<snaps, spent, taken>>
    BY <1>2 DEF PrendreRegroupe, Given
  <2>2. Max(Reusable) \in snaps /\ Age(Max(Reusable)) <= Grouping
    <3>1. Max(Reusable) \in Reusable
      BY <1>2, LatestIsReusable DEF RotationIInv
    <3> QED
      BY <3>1 DEF Reusable
  <2>3. Max(Reusable) \in 0..now /\ Max(Reusable) >= reported - Grouping
    <3>1. \A s \in 0..now : Age(s) <= Grouping => s >= reported - Grouping
      BY <1>1 DEF Age
    <3> QED
      BY <1>1, <2>2, <3>1
  <2>4. FirstOfSlotKept'
    BY <2>1 DEF RotationIInv, FirstOfSlotKept, Age, Slot
  <2>5. snaps \cup spent \cup results \subseteq taken /\ snaps \cap spent = {}
    BY DEF RotationIInv, RotationTypeOK
  <2> QED
    BY <1>1, <2>1, <2>2, <2>3, <2>4, <2>5
<1>3. CASE Reusable = {}
  <2>1. Prendre(low, {}) /\ Given(low) = (IF low THEN {} ELSE {now})
    BY <1>3 DEF PrendreRegroupe, Given
  <2>2. now \in 0..now /\ now >= reported - Grouping
    BY <1>1
  <2> QED
    BY <2>1, <2>2, PrendreEffect
<1> QED
  BY <1>2, <1>3

\* An order to take a snapshot: the one given is a result.
LEMMA OrdrePrendreKeeps ==
  ASSUME RotationIInv, NEW low \in BOOLEAN, OrdrePrendre(low)
  PROVE  RotationIInv'
<1>1. /\ UNCHANGED <<now, gardes, round, known, reported, synced, late>>
      /\ round.at = "orders" /\ Events(1) /\ PrendreRegroupe(low)
      /\ results' = results \cup Given(low)
  BY DEF OrdrePrendre, Ordered
<1>2. /\ taken \subseteq taken' /\ taken' \subseteq 0..now' /\ spent \subseteq spent'
      /\ snaps' \cup spent' \subseteq taken' /\ snaps' \cap spent' = {}
      /\ snaps \subseteq snaps' \cup spent' /\ snaps' \cap results \subseteq snaps
      /\ FirstOfSlotKept'
      /\ Given(low) \subseteq snaps' \cap (0..now)
      /\ \A s \in Given(low) : s >= reported - Grouping
  BY <1>1, RegroupeEffect
<1>3. results \subseteq taken
  BY DEF RotationIInv, RotationTypeOK
<1>4. /\ results \subseteq results' /\ results' \subseteq taken'
      /\ \A s \in results' \ results : s \in snaps' \cap (0..now) /\ s >= reported - Grouping
  BY <1>1, <1>2, <1>3
<1>5. RotationTypeOK'
  <2>1. events' \in 0..MaxEvents
    BY <1>1, EventsTyped DEF RotationIInv
  <2> QED
    BY <1>1, <1>2, <1>4, <2>1 DEF RotationIInv, RotationTypeOK
<1>6. KeptAsPromised' /\ SparedOrRecent' /\ UnrecordedIsRecent'
  BY <1>1, <1>2, <1>4, StepKeepsSpared
<1>7. SafetyIsThere'
  <2> SUFFICES ASSUME round.at = "copying" PROVE FALSE
    BY <1>1 DEF SafetyIsThere
  <2> QED
    BY <1>1
<1> QED
  BY <1>2, <1>5, <1>6, <1>7 DEF RotationIInv

\* An order to archive: the copy begins without a snapshot to remember.
LEMMA ArchiverKeeps ==
  ASSUME RotationIInv, NEW low \in BOOLEAN, Archiver(low)
  PROVE  RotationIInv'
<1>1. /\ UNCHANGED <<now, gardes, results, known, reported, synced, late>>
      /\ round.at = "orders" /\ Events(1) /\ PrendreRegroupe(low)
      /\ round' = IF Given(low) = {} THEN round
                  ELSE [round EXCEPT !.at = "copying", !.safety = NoSnapshot]
  BY DEF Archiver, Ordered
<1>2. /\ taken \subseteq taken' /\ taken' \subseteq 0..now' /\ spent \subseteq spent'
      /\ snaps' \cup spent' \subseteq taken' /\ snaps' \cap spent' = {}
      /\ snaps \subseteq snaps' \cup spent' /\ snaps' \cap results \subseteq snaps
      /\ FirstOfSlotKept'
  BY <1>1, RegroupeEffect
<1>3. round \in [at: {"idle", "orders", "copying"}, heard: BOOLEAN,
                 safety: Instants \cup {NoSnapshot}]
  BY DEF RotationIInv, RotationTypeOK
<1>4. RotationTypeOK'
  <2>1. events' \in 0..MaxEvents
    BY <1>1, EventsTyped DEF RotationIInv
  <2>2. round' \in [at: {"idle", "orders", "copying"}, heard: BOOLEAN,
                    safety: Instants \cup {NoSnapshot}]
    BY <1>1, <1>3
  <2> QED
    BY <1>1, <1>2, <2>1, <2>2 DEF RotationIInv, RotationTypeOK
<1>5. KeptAsPromised' /\ SparedOrRecent' /\ UnrecordedIsRecent'
  BY <1>1, <1>2, StepKeepsSpared
<1>6. SafetyIsThere'
  <2>1. round'.at = "orders" \/ round'.safety = NoSnapshot
    BY <1>1, <1>3
  <2> QED
    BY <2>1 DEF SafetyIsThere
<1> QED
  BY <1>2, <1>4, <1>5, <1>6 DEF RotationIInv

\* An order to restore: its safety snapshot is there when the copy begins.
LEMMA RestaurerKeeps ==
  ASSUME RotationIInv, NEW source \in snaps, NEW low \in BOOLEAN, Restaurer(source, low)
  PROVE  RotationIInv'
<1>1. /\ UNCHANGED <<now, gardes, results, known, reported, synced, late>>
      /\ round.at = "orders" /\ Events(1) /\ Prendre(low, {source})
      /\ round' = (IF low THEN round ELSE [round EXCEPT !.at = "copying", !.safety = now])
  BY DEF Restaurer, Ordered
<1>2. /\ now \in Nat /\ Horizon \in Nat /\ now <= Horizon
      /\ reported \in 0..now /\ synced \in 0..reported
  BY RotationNumbers DEF RotationIInv
<1>3. /\ taken \subseteq taken' /\ taken' \subseteq 0..now' /\ spent \subseteq spent'
      /\ snaps' \cup spent' \subseteq taken' /\ snaps' \cap spent' = {}
      /\ snaps \subseteq snaps' \cup spent' /\ snaps' \cap results \subseteq snaps
      /\ ~low => now \in snaps'
      /\ FirstOfSlotKept'
  BY <1>1, PrendreEffect
<1>4. round \in [at: {"idle", "orders", "copying"}, heard: BOOLEAN,
                 safety: Instants \cup {NoSnapshot}]
  BY DEF RotationIInv, RotationTypeOK
<1>5. RotationTypeOK'
  <2>1. events' \in 0..MaxEvents
    BY <1>1, EventsTyped DEF RotationIInv
  <2>2. round' \in [at: {"idle", "orders", "copying"}, heard: BOOLEAN,
                    safety: Instants \cup {NoSnapshot}]
    <3>1. now \in Instants
      BY <1>2 DEF Instants
    <3> QED
      BY <1>1, <1>4, <3>1
  <2> QED
    BY <1>1, <1>3, <2>1, <2>2 DEF RotationIInv, RotationTypeOK
<1>6. KeptAsPromised' /\ SparedOrRecent' /\ UnrecordedIsRecent'
  BY <1>1, <1>3, StepKeepsSpared
<1>7. SafetyIsThere'
  <2>1. CASE low
    BY <1>1, <2>1 DEF SafetyIsThere
  <2>2. CASE ~low
    <3>1. round'.safety = now
      BY <1>1, <1>4, <2>2
    <3> QED
      BY <1>1, <1>2, <1>3, <2>2, <3>1 DEF SafetyIsThere
  <2> QED
    BY <2>1, <2>2
<1> QED
  BY <1>3, <1>5, <1>6, <1>7 DEF RotationIInv

\* The copy ends, well or not, and its safety snapshot, if any, is a result.
LEMMA RestoredKeeps ==
  ASSUME RotationIInv, Restored
  PROVE  RotationIInv'
<1>1. /\ UNCHANGED <<now, snaps, gardes, known, reported, synced, taken, spent, late, events>>
      /\ round.at = "copying" /\ round' = [round EXCEPT !.at = "orders"]
      /\ results' = results \cup ({round.safety} \ {NoSnapshot})
  BY DEF Restored
<1>2. /\ now \in Nat /\ reported \in 0..now /\ Grouping \in Nat /\ snaps \subseteq 0..now
  BY RotationNumbers DEF RotationIInv
<1>3. \A s \in {round.safety} \ {NoSnapshot} : s \in snaps /\ s >= reported - Grouping
  BY <1>1, <1>2 DEF RotationIInv, SafetyIsThere
<1>4. RotationTypeOK'
  BY <1>1, <1>3 DEF RotationIInv, RotationTypeOK
<1>5. KeptAsPromised' /\ SparedOrRecent' /\ UnrecordedIsRecent'
  BY <1>1, <1>2, <1>3, StepKeepsSpared
<1>6. FirstOfSlotKept' /\ SafetyIsThere'
  <2>1. round'.at = "orders"
    BY <1>1 DEF RotationIInv, RotationTypeOK
  <2> QED
    BY <1>1, <2>1 DEF RotationIInv, FirstOfSlotKept, SafetyIsThere, Age, Slot
<1> QED
  BY <1>4, <1>5, <1>6 DEF RotationIInv

\* An order closed as failed: its snapshot is promised no more, and was not recorded.
LEMMA OrderExpiresKeeps ==
  ASSUME RotationIInv, NEW s \in results, OrderExpires(s)
  PROVE  RotationIInv'
<1>1. /\ UNCHANGED <<now, snaps, gardes, round, known, reported, synced, taken, spent, late, events>>
      /\ s \notin known /\ results' = results \ {s}
  BY DEF OrderExpires
<1>2. RotationTypeOK'
  BY <1>1 DEF RotationIInv, RotationTypeOK
<1>3. KeptAsPromised' /\ SparedOrRecent' /\ UnrecordedIsRecent'
  BY <1>1 DEF RotationIInv, KeptAsPromised, SparedOrRecent, UnrecordedIsRecent, Age
<1>4. FirstOfSlotKept' /\ SafetyIsThere'
  BY <1>1 DEF RotationIInv, FirstOfSlotKept, SafetyIsThere, Age, Slot
<1> QED
  BY <1>2, <1>3, <1>4 DEF RotationIInv

\* The agent stops: nothing was recorded of the order.
LEMMA AgentStopsKeeps ==
  ASSUME RotationIInv, AgentStops
  PROVE  RotationIInv'
<1>1. /\ UNCHANGED <<now, snaps, gardes, results, known, reported, synced, taken, spent, late,
                     events>>
      /\ round' = [round EXCEPT !.at = "idle", !.safety = NoSnapshot]
  BY DEF AgentStops
<1>2. RotationTypeOK' /\ round'.at = "idle"
  BY <1>1 DEF RotationIInv, RotationTypeOK
<1> QED
  BY <1>1, <1>2 DEF RotationIInv, FirstOfSlotKept, KeptAsPromised, SparedOrRecent,
                    UnrecordedIsRecent, SafetyIsThere, Age, Slot

\* What an order destroys is written off.
LEMMA DetruireKeeps ==
  ASSUME RotationIInv, NEW s \in snaps, Detruire(s)
  PROVE  RotationIInv'
<1>1. /\ UNCHANGED <<now, gardes, round, results, known, reported, synced, taken, late>>
      /\ round.at = "orders" /\ Events(1)
      /\ snaps' = snaps \ {s} /\ spent' = spent \cup {s}
  BY DEF Detruire, Ordered
<1>2. RotationTypeOK'
  <2>1. events' \in 0..MaxEvents
    BY <1>1, EventsTyped DEF RotationIInv
  <2>2. snaps \cup spent \cup results \subseteq taken /\ snaps \cap spent = {}
    BY DEF RotationIInv, RotationTypeOK
  <2>3. snaps' \cup spent' \cup results' \subseteq taken' /\ snaps' \cap spent' = {}
    BY <1>1, <2>2
  <2> QED
    BY <1>1, <2>1, <2>3 DEF RotationIInv, RotationTypeOK
<1>3. KeptAsPromised' /\ SparedOrRecent' /\ UnrecordedIsRecent'
  BY <1>1, StepKeepsSpared
<1>4. FirstOfSlotKept' /\ SafetyIsThere'
  BY <1>1 DEF RotationIInv, FirstOfSlotKept, SafetyIsThere, Age, Slot
<1> QED
  BY <1>2, <1>3, <1>4 DEF RotationIInv

\* The automatic snapshot, the rotation, the sacrifice for want of space, the report.
\* Unless the agent is late, what is spared without the panel is under the grace.
LEMMA EndRoundKeeps ==
  ASSUME RotationIInv, NEW troubles \in SUBSET Troubles, EndRound(troubles)
  PROVE  RotationIInv'
<1> DEFINE takes == APrendreAuto /\ "shortBefore" \notin troubles
           before == IF ~APrendreAuto THEN snaps
                     ELSE IF takes THEN snaps \cup {now} ELSE Sacrificed(snaps, {})
           kept == AConserver(before)
           told == "undelivered" \notin troubles /\ round.heard
<1>1. /\ snaps' = IF "shortAfter" \in troubles THEN Sacrificed(kept, {}) ELSE kept
      /\ taken' = taken \cup before
      /\ spent' = spent \cup (snaps \ before) \cup (kept \ snaps')
      /\ takes => now \notin taken
  BY DEF EndRound
<1>2. /\ late' = (late \/ now - synced >= Grace - Grouping)
      /\ known' = (IF told THEN results ELSE known)
      /\ reported' = (IF told THEN now ELSE reported)
      /\ round' = [round EXCEPT !.at = "idle", !.safety = NoSnapshot]
      /\ UNCHANGED <<now, gardes, results, synced>>
  BY DEF EndRound
<1>3. /\ now \in Nat /\ now \in 0..now /\ taken \subseteq 0..now
      /\ snaps \subseteq taken /\ spent \subseteq taken /\ results \subseteq taken
      /\ snaps \cap spent = {} /\ gardes \subseteq known /\ known \subseteq results
      /\ late \in BOOLEAN
  BY RotationNumbers DEF RotationIInv, RotationTypeOK
<1>4. /\ reported \in 0..now /\ synced \in 0..reported
      /\ Grace \in Nat /\ Grouping \in Nat /\ results \subseteq 0..now /\ snaps \subseteq 0..now
  BY RotationNumbers DEF RotationIInv
<1>5. before \subseteq snaps \cup {now} /\ before \cap taken \subseteq snaps
  BY <1>1, SacrificeIsPart
<1>6. kept \subseteq before
  BY RotationIsPart
<1> HIDE DEF takes, before, kept
<1>7. snaps' \subseteq kept /\ kept \subseteq snaps' \cup spent'
  BY <1>1, SacrificeIsPart
<1>8. /\ before \in SUBSET taken' /\ (taken' \ taken) \subseteq before
      /\ snaps \subseteq before \cup spent' /\ AConserver(before) \subseteq snaps' \cup spent'
  BY <1>1, <1>3, <1>7 DEF kept
<1>9. /\ taken \subseteq taken' /\ spent \subseteq spent' /\ snaps' \subseteq taken'
      /\ taken' \subseteq 0..now /\ spent' \subseteq taken' /\ snaps' \cap spent' = {}
      /\ snaps' \cap results \subseteq snaps
  BY <1>1, <1>3, <1>5, <1>6, <1>7
<1>10. RotationTypeOK'
  <2>1. events' \in 0..MaxEvents
    <3>1. IsFiniteSet(troubles) /\ Cardinality(troubles) \in Nat
      <4>1. IsFiniteSet({"shortBefore", "shortAfter", "undelivered"})
        <5>1. IsFiniteSet({"shortBefore"})
          BY FS_Singleton
        <5>2. IsFiniteSet({"shortBefore"} \cup {"shortAfter"})
          BY <5>1, FS_AddElement
        <5>3. IsFiniteSet(({"shortBefore"} \cup {"shortAfter"}) \cup {"undelivered"})
          BY <5>2, FS_AddElement
        <5>4. Troubles = ({"shortBefore"} \cup {"shortAfter"}) \cup {"undelivered"}
          BY DEF Troubles
        <5> QED
          BY <5>3, <5>4 DEF Troubles
      <4>2. IsFiniteSet(troubles)
        BY <4>1, FS_Subset DEF Troubles
      <4> QED
        BY <4>2, FS_CardinalityType
    <3> QED
      BY <3>1, EventsTyped DEF EndRound, RotationIInv
  <2>2. /\ reported' \in 0..now /\ synced' <= reported'
        /\ gardes' \subseteq known' /\ known' \subseteq results' /\ late' \in BOOLEAN
    BY <1>2, <1>3, <1>4
  <2>3. round' \in [at: {"idle", "orders", "copying"}, heard: BOOLEAN,
                    safety: Instants \cup {NoSnapshot}]
    BY <1>2 DEF RotationIInv, RotationTypeOK
  <2> QED
    BY <1>2, <1>3, <1>4, <1>9, <2>1, <2>2, <2>3 DEF RotationIInv, RotationTypeOK
<1>11. FirstOfSlotKept'
  BY <1>2, <1>8, <1>9, StepKeepsFirst DEF RotationIInv
<1>12. KeptAsPromised'
  <2> SUFFICES ASSUME ~late', NEW s \in results \ spent', Age(s) < Requested, Age(s) <= MaxAge
               PROVE  s \in snaps'
    BY <1>2 DEF KeptAsPromised, Age
  <2>1. s \in snaps
    BY <1>2, <1>9 DEF RotationIInv, KeptAsPromised
  <2>2. s \in gardes \/ s >= synced - Grouping
    BY <2>1 DEF RotationIInv, SparedOrRecent
  <2>3. s \in gardes \/ Age(s) < Grace
    <3>1. ~(now - synced >= Grace - Grouping)
      BY <1>2
    <3>2. now \in Nat /\ synced \in Nat
      BY <1>3, <1>4
    <3>3. \A t \in 0..now : t >= synced - Grouping => now - t < Grace
      BY <1>4, <3>1, <3>2
    <3> QED
      BY <1>4, <2>1, <2>2, <3>3 DEF Age
  <2>4. s \in AConserver(before)
    BY <1>8, <2>1, <2>3, RotationSpares
  <2> QED
    BY <1>8, <2>4
<1>13. SparedOrRecent'
  <2> SUFFICES ASSUME NEW s \in results \cap snaps', Age(s) < Requested
               PROVE  s \in gardes \/ s >= synced - Grouping
    BY <1>2 DEF SparedOrRecent, Age
  <2>1. s \in snaps
    BY <1>9
  <2> QED
    BY <2>1 DEF RotationIInv, SparedOrRecent
<1>14. UnrecordedIsRecent'
  BY <1>2 DEF RotationIInv, UnrecordedIsRecent
<1>15. SafetyIsThere'
  BY <1>2 DEF RotationIInv, RotationTypeOK, SafetyIsThere
<1> QED
  BY <1>10, <1>11, <1>12, <1>13, <1>14, <1>15 DEF RotationIInv

\* Time passes, between rounds and while files are copied.
LEMMA PassesKeeps ==
  ASSUME RotationIInv, Passes
  PROVE  RotationIInv'
<1>1. /\ now' = now + 1 /\ now < Horizon
      /\ UNCHANGED <<snaps, gardes, round, results, known, reported, synced, taken, spent, late,
                     events>>
  BY DEF Passes
<1>2. /\ now \in Nat /\ Horizon \in Nat /\ reported \in 0..now /\ synced \in 0..reported
      /\ taken \subseteq 0..now /\ snaps \subseteq 0..now /\ results \subseteq 0..now
      /\ MaxAge \in Nat /\ Requested \in Nat
  BY RotationNumbers DEF RotationIInv
<1>3. RotationTypeOK'
  <2>1. /\ now' \in 0..Horizon /\ {reported, synced} \subseteq 0..now' /\ taken \subseteq 0..now'
    BY <1>1, <1>2
  <2> QED
    BY <1>1, <2>1 DEF RotationIInv, RotationTypeOK, Instants
<1>4. FirstOfSlotKept'
  <2> SUFFICES ASSUME NEW level \in Levels, NEW s \in taken \ spent,
                      Age(s)' <= level.retention,
                      \A t \in taken : t < s => Slot(t, level) # Slot(s, level)
               PROVE  s \in snaps
    BY <1>1 DEF FirstOfSlotKept, Slot
  <2>1. level.interval \in Nat /\ level.retention \in level.interval..MaxAge
    BY LevelsAssumption
  <2>2. Age(s) <= level.retention
    BY <1>1, <1>2, <2>1 DEF Age
  <2> QED
    BY <2>2 DEF RotationIInv, FirstOfSlotKept
<1>5. KeptAsPromised'
  <2> SUFFICES ASSUME ~late, NEW s \in results \ spent, Age(s)' < Requested, Age(s)' <= MaxAge
               PROVE  s \in snaps
    BY <1>1 DEF KeptAsPromised
  <2>1. Age(s) < Requested /\ Age(s) <= MaxAge
    BY <1>1, <1>2 DEF Age
  <2> QED
    BY <2>1 DEF RotationIInv, KeptAsPromised
<1>6. SparedOrRecent'
  <2> SUFFICES ASSUME NEW s \in results \cap snaps, Age(s)' < Requested
               PROVE  s \in gardes \/ s >= synced - Grouping
    BY <1>1 DEF SparedOrRecent
  <2>1. Age(s) < Requested
    BY <1>1, <1>2 DEF Age
  <2> QED
    BY <2>1 DEF RotationIInv, SparedOrRecent
<1>7. UnrecordedIsRecent' /\ SafetyIsThere'
  BY <1>1 DEF RotationIInv, UnrecordedIsRecent, SafetyIsThere
<1> QED
  BY <1>3, <1>4, <1>5, <1>6, <1>7 DEF RotationIInv

LEMMA RotationPreserved == RotationIInv /\ [RotationNext]_rotationVars => RotationIInv'
<1> SUFFICES ASSUME RotationIInv, [RotationNext]_rotationVars PROVE RotationIInv'
  OBVIOUS
<1>1. ASSUME NEW heard \in BOOLEAN, StartRound(heard) PROVE RotationIInv'
  BY <1>1, StartRoundKeeps
<1>2. ASSUME NEW low \in BOOLEAN, OrdrePrendre(low) PROVE RotationIInv'
  BY <1>2, OrdrePrendreKeeps
<1>a. ASSUME NEW low \in BOOLEAN, Archiver(low) PROVE RotationIInv'
  BY <1>a, ArchiverKeeps
<1>e. ASSUME NEW s \in results, OrderExpires(s) PROVE RotationIInv'
  BY <1>e, OrderExpiresKeeps
<1>3. ASSUME NEW source \in snaps, NEW low \in BOOLEAN, Restaurer(source, low)
      PROVE  RotationIInv'
  BY <1>3, RestaurerKeeps
<1>4. CASE Restored
  BY <1>4, RestoredKeeps
<1>5. CASE AgentStops
  BY <1>5, AgentStopsKeeps
<1>6. ASSUME NEW s \in snaps, Detruire(s) PROVE RotationIInv'
  BY <1>6, DetruireKeeps
<1>7. ASSUME NEW troubles \in SUBSET Troubles, EndRound(troubles) PROVE RotationIInv'
  BY <1>7, EndRoundKeeps
<1>8. CASE Passes
  BY <1>8, PassesKeeps
<1>9. CASE UNCHANGED rotationVars
  BY <1>9 DEF rotationVars, RotationIInv, RotationTypeOK, FirstOfSlotKept, KeptAsPromised,
              SparedOrRecent, UnrecordedIsRecent, SafetyIsThere, Age, Slot
<1> QED
  BY <1>1, <1>2, <1>a, <1>e, <1>3, <1>4, <1>5, <1>6, <1>7, <1>8, <1>9 DEF RotationNext

LEMMA RotationInductive == RotationSpec => []RotationIInv
  BY RotationInitially, RotationPreserved, PTL DEF RotationSpec

-----------------------------------------------------------------------------

\* The instants of the reports never run ahead of the clock, the panel never records
\* what is no result, and no snapshot is both there and written off.
THEOREM RotationTypeCorrect == RotationSpec => []RotationTypeOK
<1>1. RotationIInv => RotationTypeOK
  BY DEF RotationIInv
<1> QED
  BY <1>1, RotationInductive, PTL

\* The first snapshot of each slot outlives every round of the rotation, whatever was
\* taken, asked for or destroyed meanwhile, for as long as its level retains it.
THEOREM RotationKeepsItsLevels == RotationSpec => []FirstOfSlotKept
<1>1. RotationIInv => FirstOfSlotKept
  BY DEF RotationIInv
<1> QED
  BY <1>1, RotationInductive, PTL

\* What was asked for, or taken for safety, outlives the rotation for as long as the
\* panel means to spare it, as long as no hour goes by without a report and an answer,
\* and unless the panel closed the order as failed before it was told.
THEOREM RotationSparesAsPromised == RotationSpec => []KeptAsPromised
<1>1. RotationIInv => KeptAsPromised
  BY DEF RotationIInv
<1> QED
  BY <1>1, RotationInductive, PTL

-----------------------------------------------------------------------------
(* The policy by itself. *)

\* In each slot of a level that has a snapshot within the retention, the level keeps one
\* snapshot and no other: the oldest of those.
THEOREM OneSnapshotPerSlot ==
  ASSUME now \in Nat, NEW S \in SUBSET (0..now), NEW level \in Levels,
         NEW s \in InRetention(S, level)
  PROVE  \E k \in KeptByLevel(S, level) :
           /\ Slot(k, level) = Slot(s, level) /\ k <= s
           /\ \A t \in KeptByLevel(S, level) : Slot(t, level) = Slot(s, level) => t = k
<1> DEFINE T == {t \in InRetention(S, level) : Slot(t, level) = Slot(s, level)}
<1>1. InRetention(S, level) \subseteq 0..now
  BY DEF InRetention
<1>2. T \subseteq Nat /\ s \in T
  BY <1>1
<1>3. PICK k \in T : \A t \in T : k <= t
  BY <1>2, Least
<1>4. k \in KeptByLevel(S, level)
  <2> SUFFICES ASSUME NEW t \in InRetention(S, level), t < k
               PROVE  Slot(t, level) # Slot(k, level)
    BY <1>3 DEF KeptByLevel
  <2>1. t \in Nat /\ k \in Nat
    BY <1>1, <1>2
  <2> QED
    BY <1>3, <2>1
<1>5. ASSUME NEW t \in KeptByLevel(S, level), Slot(t, level) = Slot(s, level)
      PROVE  t = k
  <2>1. t \in T
    BY <1>5 DEF KeptByLevel
  <2>2. ~(k < t)
    BY <1>3, <1>5 DEF KeptByLevel
  <2> QED
    BY <1>2, <1>3, <2>1, <2>2
<1> QED
  BY <1>2, <1>3, <1>4, <1>5

\* A second rotation at the same instant, with the same snapshots to spare, destroys
\* nothing more: a round that is run again is harmless.
THEOREM RotationIsStable ==
  ASSUME NEW S
  PROVE  AConserver(AConserver(S)) = AConserver(S)
<1> DEFINE K == AConserver(S)
<1>1. K \subseteq S
  BY RotationIsPart
<1>2. ASSUME NEW s \in K PROVE s \in AConserver(K)
  <2>1. Age(s) <= MaxAge
    BY DEF AConserver
  <2>2. CASE s \in gardes \/ Age(s) < Grace
    BY <2>1, <2>2, RotationSpares
  <2>3. CASE ~(s \in gardes \/ Age(s) < Grace)
    <3>1. PICK level \in Levels : s \in KeptByLevel(S, level)
      BY <2>3 DEF AConserver
    <3>2. s \in KeptByLevel(K, level)
      BY <1>1, <3>1 DEF KeptByLevel, InRetention
    <3> QED
      BY <2>1, <3>2 DEF AConserver
  <2> QED
    BY <2>2, <2>3
<1> QED
  BY <1>2, RotationIsPart
=============================================================================
