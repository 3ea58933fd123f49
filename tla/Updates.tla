------------------------------- MODULE Updates -------------------------------
(***************************************************************************)
(* The panel that updates itself where it is hosted without tools: the     *)
(* file etat.json, the versions on disk, the API that looks for a release, *)
(* rehearses it and puts it in service, then confirms itself once it has   *)
(* been restarted; and the launcher, which starts what the file names and  *)
(* goes back to the previous version by itself.                            *)
(*                                                                         *)
(* Sources: updates/update.service.ts, updates/update-state.ts,            *)
(* updates/update-installer.ts (extractRelease, cleanupVersions) and       *)
(* infra/cpanel/lanceur.cjs, of which Passenger runs one instance for the  *)
(* API and one for the interface.                                          *)
(*                                                                         *)
(* updateState() reads and writes the file in one turn of the event loop   *)
(* and is one step; the launcher may write what it read before it loaded a *)
(* version.  Passenger stops a process at any moment: idle, crashed, or    *)
(* because a restart was requested.                                        *)
(***************************************************************************)
EXTENDS Naturals

CONSTANTS
  Newest,      \* bound: the last version ever released
  StartsAllowed  \* starts without confirmation (three)

ASSUME UpdatesAssumption == Newest \in Nat \ {0} /\ StartsAllowed \in Nat

VARIABLES
  etat,        \* etat.json
  disk,        \* the versions installed, that can be started
  latest,      \* the last release published
  api,         \* the process of the API: loading, or up; what its launcher read
  interface,   \* what the launcher of the interface read, while it loads
  check,       \* the search for a release in progress in the API (enCours)
  confirm,     \* the confirmation of the version running, once per process
  doomed,      \* versions a cleaning is about to erase
  tangles      \* history: what crossed, after which no promise is kept

updatesVars == <<etat, disk, latest, api, interface, check, confirm, doomed, tangles>>

None == 0
Versions == 1..Newest

Etat == [enService: {None} \cup Versions, precedente: {None} \cup Versions,
         bascule: {None} \cup Versions, starts: Nat, refused: SUBSET Versions]

\* The trial is ended under the confirmation that waits for an answer.
Crossing == IF confirm = "waiting" THEN {"crossed"} ELSE {}

\* What a launcher keeps of the file while it loads a version.
Launch == [at: {"down", "loading", "up"}, version: {None} \cup Versions, seen: Etat]

Down(seen) == [at |-> "down", version |-> None, seen |-> seen]

NoEtat == [enService |-> None, precedente |-> None, bascule |-> None,
           starts |-> 0, refused |-> {}]

UpdatesTypeOK ==
  /\ etat \in Etat
  /\ disk \subseteq Versions /\ latest \in Versions
  /\ api \in Launch /\ interface \in Launch
  /\ check \in [at: {"idle", "fetching", "extracting", "rehearsing", "cleaning"},
                version: {None} \cup Versions]
  /\ confirm \in {"due", "waiting", "cleaning", "over"}
  /\ doomed \subseteq Versions
  /\ tangles \subseteq {"crossed", "stale"}
  \* Only a process that is up has work in progress.
  /\ api.at # "up" => check.at = "idle" /\ confirm = "due" /\ doomed = {}
  /\ etat.bascule = None => etat.starts = 0

UpdatesInit ==
  /\ etat = NoEtat
  /\ disk = {1} /\ latest = 1
  /\ api = Down(NoEtat) /\ interface = Down(NoEtat)
  /\ check = [at |-> "idle", version |-> None]
  /\ confirm = "due" /\ doomed = {} /\ tangles = {}

-----------------------------------------------------------------------------
(* The launcher. *)

\* The version in service, or the highest installed.
Chosen ==
  IF etat.enService \in disk THEN etat.enService
  ELSE CHOOSE v \in disk : \A w \in disk : w <= v

CanRevert(seen, faulty) ==
  seen.precedente # None /\ seen.precedente # faulty /\ seen.precedente \in disk

\* revenir(): the file as it was read, with the previous version in service.
Reverted(seen, faulty) ==
  [seen EXCEPT !.enService = seen.precedente, !.precedente = None,
               !.bascule = None, !.starts = 0, !.refused = @ \cup {faulty}]

Loading(version, seen) == [at |-> "loading", version |-> version, seen |-> seen]

\* A fault: the launcher reverts what cannot be loaded, and counts nothing.
StartApi_Uncounted ==
  /\ api.at = "down" /\ disk # {}
  /\ api' = Loading(Chosen, etat)
  /\ UNCHANGED <<etat, disk, latest, interface, check, confirm, doomed, tangles>>

\* A start of the version on trial is counted, up to one too many (the model counts
\* no further), on which the launcher goes back.
StartApi ==
  /\ api.at = "down" /\ disk # {}
  /\ LET version == Chosen
         counted == [etat EXCEPT !.starts = IF @ > StartsAllowed THEN @ ELSE @ + 1]
         tried == etat.bascule = version
         back == tried /\ counted.starts > StartsAllowed /\ CanRevert(counted, version)
     IN /\ etat' = IF back THEN Reverted(counted, version)
                   ELSE IF tried THEN counted ELSE etat
        /\ api' = Loading(IF back THEN etat.precedente ELSE version, etat')
  /\ UNCHANGED <<disk, latest, interface, check, confirm, doomed, tangles>>

\* At bootstrap a first installation names the version that starts.
ApiLoads ==
  /\ api.at = "loading"
  /\ api' = [at |-> "up", version |-> api.version, seen |-> NoEtat]
  /\ etat' = IF etat.enService = None THEN [etat EXCEPT !.enService = api.version] ELSE etat
  /\ UNCHANGED <<disk, latest, interface, check, confirm, doomed, tangles>>

\* A version that cannot be loaded: the file as it was read is written over what it
\* has become, and the previous version loaded in its place.
Breaks(launch) ==
  /\ launch.at = "loading"
  /\ CanRevert(launch.seen, launch.version)
  /\ etat' = Reverted(launch.seen, launch.version)
  /\ tangles' = tangles \cup Crossing \cup (IF etat = launch.seen THEN {} ELSE {"stale"})

ApiBreaks ==
  /\ Breaks(api)
  /\ api' = Loading(api.seen.precedente, etat')
  /\ UNCHANGED <<disk, latest, interface, check, confirm, doomed>>

StartInterface ==
  /\ interface.at = "down" /\ disk # {}
  /\ interface' = Loading(Chosen, etat)
  /\ UNCHANGED <<etat, disk, latest, api, check, confirm, doomed, tangles>>

InterfaceBreaks ==
  /\ Breaks(interface)
  /\ interface' = Loading(interface.seen.precedente, etat')
  /\ UNCHANGED <<disk, latest, api, check, confirm, doomed>>

\* Loaded for good, or it failed: nothing else of the interface touches the file.
InterfaceSettles ==
  /\ interface.at = "loading"
  /\ interface' = Down(NoEtat)
  /\ UNCHANGED <<etat, disk, latest, api, check, confirm, doomed, tangles>>

\* Idle, crashed, not loaded, or restarted as it was asked to.
ApiStops ==
  /\ api.at # "down"
  /\ api' = Down(NoEtat)
  /\ check' = [at |-> "idle", version |-> None]
  /\ confirm' = "due" /\ doomed' = {}
  /\ UNCHANGED <<etat, disk, latest, interface, tangles>>

-----------------------------------------------------------------------------
(* The search for a release: one at a time, in the API. *)

Publish ==
  /\ latest < Newest
  /\ latest' = latest + 1
  /\ UNCHANGED <<etat, disk, api, interface, check, confirm, doomed, tangles>>

Checks(at, version) == check' = [at |-> at, version |-> version]

\* Nothing is looked for while a version waits for its confirmation.
CheckOnce ==
  /\ api.at = "up" /\ check.at = "idle"
  /\ etat.bascule = None
  /\ Checks("fetching", None)
  /\ UNCHANGED <<etat, disk, latest, api, interface, confirm, doomed, tangles>>

\* A fault: what was refused is looked at again.
Fetch_Refused ==
  /\ check.at = "fetching"
  /\ \/ Checks("idle", None)
     \/ latest > etat.enService /\ Checks("extracting", latest)
  /\ UNCHANGED <<etat, disk, latest, api, interface, confirm, doomed, tangles>>

\* GitHub answers, or not; a version already in service or refused is left alone.
Fetch ==
  /\ check.at = "fetching"
  /\ \/ Checks("idle", None)
     \/ latest > etat.enService /\ latest \notin etat.refused /\ Checks("extracting", latest)
  /\ UNCHANGED <<etat, disk, latest, api, interface, confirm, doomed, tangles>>

\* Downloaded and extracted, under its name only once it is whole; a failure says
\* nothing of the version and the next check tries again.
Extract ==
  /\ check.at = "extracting"
  /\ \/ disk' = disk \cup {check.version} /\ Checks("rehearsing", check.version)
     \/ disk' \in {disk, disk \ {check.version}} /\ Checks("idle", None)
  /\ UNCHANGED <<etat, latest, api, interface, confirm, doomed, tangles>>

\* A fault: the version on its way in is not counted among those to keep.
Kept_Previous(e) == {e.precedente}

Kept(e) == {e.enService, e.precedente}

RehearseFails ==
  /\ check.at = "rehearsing"
  /\ etat' = [etat EXCEPT !.refused = @ \cup {check.version}]
  /\ doomed' = doomed \cup (disk \ Kept(etat))
  /\ Checks("cleaning", None)
  /\ UNCHANGED <<disk, latest, api, interface, confirm, tangles>>

\* A fault: the version that steps down is not remembered.
RehearsePasses_Forgets ==
  /\ check.at = "rehearsing"
  /\ etat' = [etat EXCEPT !.enService = check.version, !.bascule = check.version, !.starts = 0]
  /\ Checks("idle", None)
  /\ UNCHANGED <<disk, latest, api, interface, confirm, doomed, tangles>>

\* The switch: the version in service becomes the previous one.
RehearsePasses ==
  /\ check.at = "rehearsing"
  /\ etat' = [etat EXCEPT !.precedente = etat.enService, !.enService = check.version,
                          !.bascule = check.version, !.starts = 0]
  /\ Checks("idle", None)
  /\ UNCHANGED <<disk, latest, api, interface, confirm, doomed, tangles>>

\* One directory after the other.
Erase(v) ==
  /\ v \in doomed
  /\ disk' = disk \ {v}
  /\ doomed' = doomed \ {v}
  /\ UNCHANGED <<etat, latest, api, interface, check, confirm, tangles>>

Cleaned ==
  /\ doomed = {} /\ "cleaning" \in {check.at, confirm}
  /\ check' = IF check.at = "cleaning" THEN [at |-> "idle", version |-> None] ELSE check
  /\ confirm' = IF confirm = "cleaning" THEN "over" ELSE confirm
  /\ UNCHANGED <<etat, disk, latest, api, interface, doomed, tangles>>

-----------------------------------------------------------------------------
(* The confirmation, and the way back asked for by the administration. *)

Confirmable == etat.bascule # None /\ etat.bascule = api.version

ConfirmIfPending ==
  /\ api.at = "up" /\ confirm = "due"
  /\ confirm' = IF Confirmable THEN "waiting" ELSE "over"
  /\ UNCHANGED <<etat, disk, latest, api, interface, check, doomed, tangles>>

\* The public address answers: whatever is on trial by then is confirmed, and the
\* versions of no use are erased.
Answers ==
  /\ confirm = "waiting"
  /\ etat' = [etat EXCEPT !.bascule = None, !.starts = 0]
  /\ doomed' = doomed \cup (disk \ Kept(etat))
  /\ confirm' = "cleaning"
  /\ UNCHANGED <<disk, latest, api, interface, check, tangles>>

\* It does not: the version refuses itself.
NoAnswer ==
  /\ confirm = "waiting"
  /\ LET refusing == [etat EXCEPT !.refused = @ \cup {api.version}, !.bascule = None, !.starts = 0]
     IN etat' = IF etat.precedente = None THEN refusing
                ELSE [refusing EXCEPT !.enService = etat.precedente, !.precedente = None]
  /\ confirm' = "over"
  /\ UNCHANGED <<disk, latest, api, interface, check, doomed, tangles>>

\* Refused while a search is in progress, and only then.
RollbackVersion ==
  /\ api.at = "up" /\ check.at = "idle"
  /\ etat.precedente # None /\ etat.precedente \in disk
  /\ etat' = [etat EXCEPT !.enService = etat.precedente, !.precedente = None,
                          !.bascule = None, !.starts = 0, !.refused = @ \cup {etat.enService}]
  /\ tangles' = tangles \cup Crossing
  /\ UNCHANGED <<disk, latest, api, interface, check, confirm, doomed>>

-----------------------------------------------------------------------------

Confirming == ConfirmIfPending \/ Answers \/ NoAnswer

UpdatesNext ==
  \/ StartApi \/ ApiLoads \/ ApiBreaks \/ ApiStops
  \/ StartInterface \/ InterfaceBreaks \/ InterfaceSettles
  \/ Publish
  \/ CheckOnce \/ Fetch \/ Extract \/ RehearseFails \/ RehearsePasses
  \/ \E v \in Versions : Erase(v)
  \/ Cleaned
  \/ Confirming
  \/ RollbackVersion

UpdatesSpec == UpdatesInit /\ [][UpdatesNext]_updatesVars

-----------------------------------------------------------------------------

\* The version in service can be started: no cleaning erases it, whatever switch,
\* way back or revert comes in between.
InService == tangles = {} /\ etat.enService # None => etat.enService \in disk

\* A version on trial is the one in service, and the way back is open: the previous
\* one is on disk, older, and was not refused.
WayBack ==
  tangles = {} /\ etat.bascule # None =>
    /\ etat.bascule = etat.enService
    /\ etat.precedente \in disk \ etat.refused
    /\ etat.precedente < etat.enService
    /\ etat.starts <= StartsAllowed

\* A version once refused is never put in service again.
RefusedForGood ==
  [][tangles' = {} =>
       /\ etat.refused \subseteq etat'.refused
       /\ etat'.enService # etat.enService => etat'.enService \notin etat'.refused]_updatesVars

\* A trial ends, by a confirmation, a refusal or the launcher's revert, even when
\* the new version never stays up long enough to answer for itself.
TrialEnds == etat.bascule # None ~> (etat.bascule = None \/ tangles # {})
=============================================================================
