----------------------------- MODULE AppDevice -----------------------------
(***************************************************************************)
(* A phone linked to the panel.  It renews its access by presenting its    *)
(* secret, which the panel replaces; the secret of before, presented       *)
(* again, withdraws the device.                                            *)
(*                                                                         *)
(* Sources: auth/app-device.repository.ts (refresh, activeDevice,          *)
(* revokeById), apps/mobile/src/noyau/session.ts (renouveler,              *)
(* renouvelerVraiment, perdre) and transport.ts.                           *)
(*                                                                         *)
(* Secrets are numbered in the order the panel grants them; an access      *)
(* token may run out at any moment, so a renewal may always be wanted.     *)
(* Nobody but this phone holds its secret.                                 *)
(***************************************************************************)
EXTENDS Naturals

CONSTANTS
  Renewals,    \* renewals that may be on their way at once
  MaxSecrets   \* bound: secrets granted

ASSUME AppDeviceAssumption == MaxSecrets \in Nat \ {0}

VARIABLES
  device,   \* its row
  phone,    \* what the phone keeps
  renewal,  \* the renewals on their way
  slipped   \* history: the phone gave up waiting for a renewal

deviceVars == <<device, phone, renewal, slipped>>

Secrets == 0..MaxSecrets
NoRenewal == [at |-> "free", secret |-> 0, grant |-> 0, awaited |-> FALSE]

AppDeviceTypeOK ==
  /\ device \in [revoked: {"no", "withdrawn", "replay"}, current: Secrets, previous: Secrets]
  /\ phone \in [at: {"linked", "waiting", "lost"}, secret: Secrets]
  /\ renewal \in [Renewals -> [at: {"free", "sent", "granting", "replaying", "answered"},
                               secret: Secrets, grant: Secrets, awaited: BOOLEAN]]
  /\ slipped \in BOOLEAN
  \* The phone waits for one renewal at most.
  /\ \A r \in Renewals : renewal[r].awaited => phone.at = "waiting" /\ renewal[r].at # "free"
  /\ \A r, s \in Renewals : renewal[r].awaited /\ renewal[s].awaited => r = s

AppDeviceInit ==
  /\ device = [revoked |-> "no", current |-> 1, previous |-> 0]
  /\ phone = [at |-> "linked", secret |-> 1]
  /\ renewal = [r \in Renewals |-> NoRenewal]
  /\ slipped = FALSE

-----------------------------------------------------------------------------

RenewalBecomes(r, new) == renewal' = [renewal EXCEPT ![r] = new]

Refused(r) == [renewal[r] EXCEPT !.at = "answered"]

\* A fault: two screens renew at the same time.
Renew_Twice(r) ==
  /\ phone.at \in {"linked", "waiting"} /\ renewal[r].at = "free"
  /\ phone' = [phone EXCEPT !.at = "waiting"]
  /\ RenewalBecomes(r, [at |-> "sent", secret |-> phone.secret, grant |-> 0, awaited |-> TRUE])
  /\ UNCHANGED <<device, slipped>>

\* The phone asks for one renewal at a time (enCours).
Renew(r) ==
  /\ phone.at = "linked" /\ renewal[r].at = "free"
  /\ phone' = [phone EXCEPT !.at = "waiting"]
  /\ RenewalBecomes(r, [at |-> "sent", secret |-> phone.secret, grant |-> 0, awaited |-> TRUE])
  /\ UNCHANGED <<device, slipped>>

\* refresh() reads the device, and compares.
RefreshRead(r) ==
  /\ renewal[r].at = "sent"
  /\ LET secret == renewal[r].secret
         refused == device.revoked # "no" \/ secret \notin {device.current, device.previous}
     IN RenewalBecomes(r,
          IF refused THEN Refused(r)
          ELSE [renewal[r] EXCEPT !.at = IF secret = device.previous THEN "replaying"
                                                                     ELSE "granting"])
  /\ UNCHANGED <<device, phone, slipped>>

Revoke(why) == device' = [device EXCEPT !.revoked = IF @ = "no" THEN why ELSE @]

\* The secret of before is taken for a copy, signed or not.
RefreshReplay(r) ==
  /\ renewal[r].at = "replaying"
  /\ Revoke("replay")
  /\ RenewalBecomes(r, Refused(r))
  /\ UNCHANGED <<phone, slipped>>

\* A fault: the secret read is not a condition of the writing.
RefreshWrite_Unconditional(r) ==
  /\ renewal[r].at = "granting"
  /\ device.current < MaxSecrets
  /\ device' = [device EXCEPT !.current = @ + 1, !.previous = renewal[r].secret]
  /\ RenewalBecomes(r, [Refused(r) EXCEPT !.grant = device.current + 1])
  /\ UNCHANGED <<phone, slipped>>

\* Of two renewals with one secret, one writes.
RefreshWrite(r) ==
  /\ renewal[r].at = "granting"
  /\ IF device.current = renewal[r].secret
     THEN /\ device.current < MaxSecrets
          /\ device' = [device EXCEPT !.current = @ + 1, !.previous = renewal[r].secret]
          /\ RenewalBecomes(r, [Refused(r) EXCEPT !.grant = device.current + 1])
     ELSE UNCHANGED device /\ RenewalBecomes(r, Refused(r))
  /\ UNCHANGED <<phone, slipped>>

\* The new secret is kept at once; a refusal ends the link (perdre).
Receive(r) ==
  /\ renewal[r].at = "answered" /\ renewal[r].awaited
  /\ phone' = IF renewal[r].grant # 0 THEN [at |-> "linked", secret |-> renewal[r].grant]
              ELSE [phone EXCEPT !.at = "lost"]
  /\ RenewalBecomes(r, NoRenewal)
  /\ UNCHANGED <<device, slipped>>

\* Lost before the panel wrote anything: the phone only knows that nobody answered.
RenewalFails(r) ==
  /\ renewal[r].at \in {"sent", "granting", "replaying"}
  /\ phone' = IF renewal[r].awaited THEN [phone EXCEPT !.at = "linked"] ELSE phone
  /\ RenewalBecomes(r, NoRenewal)
  /\ UNCHANGED <<device, slipped>>

\* Fifteen seconds pass, or the application is killed: the phone keeps the secret it
\* has, and will present it again.
GiveUp(r) ==
  /\ renewal[r].awaited
  /\ phone' = [phone EXCEPT !.at = "linked"]
  /\ RenewalBecomes(r, [renewal[r] EXCEPT !.awaited = FALSE])
  /\ slipped' = TRUE
  /\ UNCHANGED device

\* An answer nobody waits for.
AnswerLost(r) ==
  /\ renewal[r].at = "answered" /\ ~renewal[r].awaited
  /\ RenewalBecomes(r, NoRenewal)
  /\ UNCHANGED <<device, phone, slipped>>

\* Withdrawn by its owner or by itself, with the sessions of the account, or too old.
RevokeById ==
  /\ device.revoked = "no"
  /\ Revoke("withdrawn")
  /\ UNCHANGED <<phone, renewal, slipped>>

-----------------------------------------------------------------------------

Refresh(r) ==
  \/ Renew(r) \/ RefreshRead(r) \/ RefreshReplay(r) \/ RefreshWrite(r) \/ Receive(r)
  \/ RenewalFails(r) \/ GiveUp(r) \/ AnswerLost(r)

AppDeviceNext == (\E r \in Renewals : Refresh(r)) \/ RevokeById

AppDeviceSpec == AppDeviceInit /\ [][AppDeviceNext]_deviceVars

-----------------------------------------------------------------------------

\* As long as the phone hears the answers to its renewals, it holds the secret the
\* panel expects and is never taken for a thief, even by renewals of its own that
\* failed on their way.
SecretsAgree ==
  ~slipped =>
    /\ device.revoked # "replay"
    /\ phone.at = "linked" => phone.secret = device.current

\* A secret is exchanged once: of two renewals that present it together, before or
\* after the phone gave up on the first, one at most is granted.
GrantedOnce ==
  \A r, s \in Renewals :
    r # s /\ renewal[r].grant # 0 /\ renewal[s].grant # 0 =>
      renewal[r].secret # renewal[s].secret

\* What refresh() takes for granted: the secret of before can only come from a copy
\* of the phone's.
ReplayIsTheft == device.revoked # "replay"
=============================================================================
