---------------------------- MODULE PhoneProofs ----------------------------
(***************************************************************************)
(* A phone linked to the panel, for any number of renewals, of secrets and *)
(* of senders.  Its renewals: each secret is exchanged once, and as long   *)
(* as the phone hears its answers it holds the secret the panel expects.   *)
(* What is pushed to it: a phone withdrawn keeps no handle, the last       *)
(* handle it left is the one pushes go to, and while no sender stops and   *)
(* no two of them read the same row, no push is tried too often.           *)
(***************************************************************************)
EXTENDS AppDevice, PushOutbox, TLAPS

-----------------------------------------------------------------------------
(* The renewals (module AppDevice). *)

Renewal == [at: {"free", "sent", "granting", "replaying", "answered"},
            secret: Secrets, grant: Secrets, awaited: BOOLEAN]

\* The secret of before is older than the present one, what is being renewed is not
\* younger, and a secret that was exchanged is older.
Younger ==
  /\ 1 <= device.current /\ device.previous < device.current
  /\ \A r \in Renewals :
       /\ renewal[r].secret <= device.current /\ renewal[r].grant <= device.current
       /\ renewal[r].grant # 0 => renewal[r].secret < device.current
  /\ phone.secret <= device.current

\* As long as the phone hears its answers, every renewal on its way is the one it
\* waits for, and presents the secret the panel expects.
InStep ==
  ~slipped =>
    /\ device.revoked # "replay"
    /\ phone.at = "linked" => phone.secret = device.current
    /\ \A r \in Renewals : renewal[r].at # "free" =>
         /\ renewal[r].awaited
         /\ renewal[r].at \in {"sent", "granting"} =>
              renewal[r].secret = device.current /\ phone.secret = device.current
         /\ renewal[r].at # "replaying"
         /\ renewal[r].at = "answered" /\ renewal[r].grant # 0 =>
              renewal[r].grant = device.current

\* A refusal of the panel, answered, carries no secret; nothing else does yet.
Ungranted == \A r \in Renewals : renewal[r].at # "answered" => renewal[r].grant = 0

DeviceIInv == AppDeviceTypeOK /\ Younger /\ Ungranted /\ InStep /\ GrantedOnce

-----------------------------------------------------------------------------

LEMMA RenewalStep ==
  ASSUME AppDeviceTypeOK, NEW r \in Renewals, NEW new \in Renewal, RenewalBecomes(r, new)
  PROVE  /\ renewal' \in [Renewals -> Renewal]
         /\ renewal'[r] = new
         /\ \A s \in Renewals : s # r => renewal'[s] = renewal[s]
  BY DEF AppDeviceTypeOK, RenewalBecomes, Renewal

LEMMA DeviceTyped ==
  ASSUME AppDeviceTypeOK
  PROVE  /\ renewal \in [Renewals -> Renewal]
         /\ device \in [revoked: {"no", "withdrawn", "replay"}, current: Secrets, previous: Secrets]
         /\ phone \in [at: {"linked", "waiting", "lost"}, secret: Secrets]
         /\ slipped \in BOOLEAN
         /\ MaxSecrets \in Nat \ {0} /\ Secrets = 0..MaxSecrets
  BY AppDeviceAssumption DEF AppDeviceTypeOK, Renewal, Secrets

LEMMA DeviceInitially == AppDeviceInit => DeviceIInv
<1> SUFFICES ASSUME AppDeviceInit PROVE DeviceIInv
  OBVIOUS
<1>1. MaxSecrets \in Nat \ {0} /\ 0 \in Secrets /\ 1 \in Secrets
  BY AppDeviceAssumption DEF Secrets
<1>2. \A r \in Renewals :
        /\ renewal[r].at = "free" /\ renewal[r].secret = 0 /\ renewal[r].grant = 0
        /\ renewal[r].awaited = FALSE
  BY DEF AppDeviceInit, NoRenewal
<1>3. AppDeviceTypeOK
  BY <1>1, <1>2 DEF AppDeviceInit, AppDeviceTypeOK, NoRenewal
<1>4. Younger /\ Ungranted /\ GrantedOnce
  BY <1>2 DEF AppDeviceInit, Younger, Ungranted, GrantedOnce
<1>5. InStep
  BY <1>2 DEF AppDeviceInit, InStep
<1> QED
  BY <1>3, <1>4, <1>5 DEF DeviceIInv

LEMMA DevicePreserved == DeviceIInv /\ [AppDeviceNext]_deviceVars => DeviceIInv'
<1> SUFFICES ASSUME DeviceIInv, [AppDeviceNext]_deviceVars PROVE DeviceIInv'
  OBVIOUS
<1> USE DEF Secrets
<1>t. AppDeviceTypeOK /\ Younger /\ Ungranted /\ InStep /\ GrantedOnce
  BY DEF DeviceIInv
<1>m. /\ renewal \in [Renewals -> Renewal]
      /\ device \in [revoked: {"no", "withdrawn", "replay"}, current: Secrets, previous: Secrets]
      /\ phone \in [at: {"linked", "waiting", "lost"}, secret: Secrets]
      /\ slipped \in BOOLEAN /\ MaxSecrets \in Nat \ {0}
  BY <1>t, DeviceTyped
<1>1. ASSUME NEW r \in Renewals, Renew(r) PROVE DeviceIInv'
  <2> DEFINE new == [at |-> "sent", secret |-> phone.secret, grant |-> 0, awaited |-> TRUE]
  <2>1. new \in Renewal
    BY <1>m, AppDeviceAssumption DEF Renewal
  <2>2. RenewalBecomes(r, new) /\ UNCHANGED <<device, slipped>> /\ phone' = [phone EXCEPT !.at = "waiting"]
        /\ phone.at = "linked" /\ renewal[r].at = "free"
    BY <1>1 DEF Renew
  <2>3. /\ renewal' \in [Renewals -> Renewal] /\ renewal'[r] = new
        /\ \A s \in Renewals : s # r => renewal'[s] = renewal[s]
    BY <1>t, <2>1, <2>2, RenewalStep
  <2>4. \A s \in Renewals : ~renewal[s].awaited
    BY <1>t, <2>2 DEF AppDeviceTypeOK
  <2> HIDE DEF new
  <2>5. new.at = "sent" /\ new.secret = phone.secret /\ new.grant = 0 /\ new.awaited
    BY DEF new
  <2>6. AppDeviceTypeOK'
    BY <1>t, <1>m, <2>2, <2>3, <2>4, <2>5 DEF AppDeviceTypeOK, Renewal
  <2>7. Younger'
    BY <1>t, <1>m, <2>2, <2>3, <2>5 DEF Younger, Renewal
  <2>8. Ungranted' /\ GrantedOnce'
    BY <1>t, <1>m, <2>2, <2>3, <2>5 DEF Ungranted, GrantedOnce, Renewal
  <2>9. InStep'
    BY <1>t, <1>m, <2>2, <2>3, <2>4, <2>5 DEF InStep, Renewal
  <2> QED
    BY <2>6, <2>7, <2>8, <2>9 DEF DeviceIInv
<1>2. ASSUME NEW r \in Renewals, RefreshRead(r) PROVE DeviceIInv'
  <2>1. PICK new \in Renewal :
          /\ RenewalBecomes(r, new) /\ new.secret = renewal[r].secret
          /\ new.awaited = renewal[r].awaited /\ new.grant = renewal[r].grant
          /\ new.at \in {"answered", "replaying", "granting"}
          /\ new.at = "replaying" => renewal[r].secret = device.previous
    <3> DEFINE refused == device.revoked # "no" \/ renewal[r].secret \notin {device.current, device.previous}
               at == IF refused THEN "answered"
                     ELSE IF renewal[r].secret = device.previous THEN "replaying" ELSE "granting"
               new == [renewal[r] EXCEPT !.at = at]
    <3>1. RenewalBecomes(r, new)
      BY <1>2 DEF RefreshRead, Refused
    <3>2. renewal[r] \in Renewal
      BY <1>m
    <3>3. new \in Renewal /\ new.secret = renewal[r].secret /\ new.awaited = renewal[r].awaited
          /\ new.grant = renewal[r].grant /\ new.at = at
      BY <3>2 DEF Renewal
    <3>4. /\ at \in {"answered", "replaying", "granting"}
          /\ at = "replaying" => renewal[r].secret = device.previous
      OBVIOUS
    <3> HIDE DEF new, at
    <3> QED
      BY <3>1, <3>3, <3>4
  <2>2. renewal[r].at = "sent" /\ UNCHANGED <<device, phone, slipped>>
    BY <1>2 DEF RefreshRead
  <2>3. /\ renewal' \in [Renewals -> Renewal] /\ renewal'[r] = new
        /\ \A s \in Renewals : s # r => renewal'[s] = renewal[s]
    BY <1>t, <2>1, RenewalStep
  <2>4. new.grant = 0
    BY <1>t, <2>1, <2>2 DEF Ungranted
  <2>6. AppDeviceTypeOK'
    BY <1>t, <1>m, <2>1, <2>2, <2>3 DEF AppDeviceTypeOK, Renewal
  <2>7. Younger'
    BY <1>t, <1>m, <2>1, <2>2, <2>3, <2>4 DEF Younger, Renewal
  <2>8. Ungranted' /\ GrantedOnce'
    BY <1>t, <1>m, <2>2, <2>3, <2>4 DEF Ungranted, GrantedOnce, Renewal
  <2>9. InStep'
    <3>1. device.previous # device.current
      BY <1>t, <1>m DEF Younger
    <3>2. ~slipped => renewal[r].awaited /\ renewal[r].secret = device.current
                      /\ phone.secret = device.current
      BY <1>t, <2>2 DEF InStep
    <3> QED
      BY <1>t, <2>1, <2>2, <2>3, <2>4, <3>1, <3>2 DEF InStep
  <2> QED
    BY <2>6, <2>7, <2>8, <2>9 DEF DeviceIInv
<1>3. ASSUME NEW r \in Renewals, RefreshReplay(r) PROVE DeviceIInv'
  <2> DEFINE new == Refused(r)
  <2>1. new \in Renewal /\ new.secret = renewal[r].secret /\ new.awaited = renewal[r].awaited
        /\ new.grant = renewal[r].grant /\ new.at = "answered"
    <3>1. renewal[r] \in Renewal
      BY <1>m
    <3> QED
      BY <3>1 DEF Renewal, Refused
  <2>2. /\ renewal[r].at = "replaying" /\ UNCHANGED <<phone, slipped>> /\ RenewalBecomes(r, new)
        /\ device' = [device EXCEPT !.revoked = IF @ = "no" THEN "replay" ELSE @]
    BY <1>3 DEF RefreshReplay, Revoke
  <2> HIDE DEF new
  <2>3. /\ renewal' \in [Renewals -> Renewal] /\ renewal'[r] = new
        /\ \A s \in Renewals : s # r => renewal'[s] = renewal[s]
    BY <1>t, <2>1, <2>2, RenewalStep
  <2>4. new.grant = 0 /\ slipped
    BY <1>t, <1>m, <2>1, <2>2 DEF Ungranted, InStep
  <2>5. device'.current = device.current /\ device'.previous = device.previous
        /\ device' \in [revoked: {"no", "withdrawn", "replay"}, current: Secrets, previous: Secrets]
    BY <1>m, <2>2
  <2>6. AppDeviceTypeOK'
    BY <1>t, <1>m, <2>1, <2>2, <2>3, <2>5 DEF AppDeviceTypeOK, Renewal
  <2>7. Younger'
    BY <1>t, <1>m, <2>1, <2>2, <2>3, <2>4, <2>5 DEF Younger, Renewal
  <2>8. Ungranted' /\ GrantedOnce'
    BY <1>t, <1>m, <2>1, <2>2, <2>3, <2>4 DEF Ungranted, GrantedOnce, Renewal
  <2>9. InStep'
    BY <2>2, <2>4 DEF InStep
  <2> QED
    BY <2>6, <2>7, <2>8, <2>9 DEF DeviceIInv
<1>4. ASSUME NEW r \in Renewals, RefreshWrite(r) PROVE DeviceIInv'
  <2>0. renewal[r] \in Renewal /\ renewal[r].at = "granting" /\ UNCHANGED <<phone, slipped>>
        /\ renewal[r].grant = 0
    BY <1>4, <1>m, <1>t DEF RefreshWrite, Ungranted
  <2>1. CASE device.current = renewal[r].secret
    <3> DEFINE new == [Refused(r) EXCEPT !.grant = device.current + 1]
    <3>1. /\ device.current < MaxSecrets /\ RenewalBecomes(r, new)
          /\ device' = [device EXCEPT !.current = @ + 1, !.previous = renewal[r].secret]
      BY <1>4, <2>1 DEF RefreshWrite
    <3>2. device.current \in Secrets /\ device.current + 1 \in Secrets
      BY <1>m, <3>1
    <3>3. new \in Renewal /\ new.secret = renewal[r].secret /\ new.awaited = renewal[r].awaited
          /\ new.grant = device.current + 1 /\ new.at = "answered"
      BY <2>0, <3>2 DEF Renewal, Refused
    <3>4. device'.current = device.current + 1 /\ device'.previous = device.current
          /\ device'.revoked = device.revoked
          /\ device' \in [revoked: {"no", "withdrawn", "replay"}, current: Secrets, previous: Secrets]
      BY <1>m, <2>0, <2>1, <3>1, <3>2 DEF Renewal
    <3> HIDE DEF new
    <3>5. /\ renewal' \in [Renewals -> Renewal] /\ renewal'[r] = new
          /\ \A s \in Renewals : s # r => renewal'[s] = renewal[s]
      BY <1>t, <3>1, <3>3, RenewalStep
    <3>6. AppDeviceTypeOK'
      BY <1>t, <1>m, <2>0, <3>3, <3>4, <3>5 DEF AppDeviceTypeOK, Renewal
    <3>7. Younger'
      BY <1>t, <1>m, <2>0, <2>1, <3>3, <3>4, <3>5 DEF Younger, Renewal
    <3>8. Ungranted'
      BY <1>t, <3>3, <3>5 DEF Ungranted
    <3>9. GrantedOnce'
      <4> SUFFICES ASSUME NEW a \in Renewals, NEW b \in Renewals, a # b,
                          renewal'[a].grant # 0, renewal'[b].grant # 0
                   PROVE  renewal'[a].secret # renewal'[b].secret
        BY DEF GrantedOnce
      <4>1. \A s \in Renewals : s # r /\ renewal'[s].grant # 0 => renewal'[s].secret < device.current
        BY <1>t, <3>5 DEF Younger
      <4>2. new.secret = device.current /\ device.current \in Nat
        BY <2>1, <3>2, <3>3
      <4>3. \A s \in Renewals : renewal'[s].secret \in Nat
        BY <3>5 DEF Renewal
      <4>4. CASE a = r \/ b = r
        BY <4>1, <4>2, <4>3, <4>4, <3>5
      <4>5. CASE a # r /\ b # r
        BY <4>5, <3>5, <1>t DEF GrantedOnce
      <4> QED
        BY <4>4, <4>5
    <3>10. InStep'
      <4> SUFFICES ASSUME ~slipped PROVE InStep'
        BY <2>0 DEF InStep
      <4>1. renewal[r].awaited /\ phone.at = "waiting" /\ device.revoked # "replay"
        BY <1>t, <2>0 DEF InStep, AppDeviceTypeOK
      <4>2. \A s \in Renewals : s # r => renewal[s].at = "free"
        BY <1>t, <2>0, <4>1 DEF InStep, AppDeviceTypeOK
      <4> QED
        BY <2>0, <3>3, <3>4, <3>5, <4>1, <4>2 DEF InStep
    <3> QED
      BY <3>6, <3>7, <3>8, <3>9, <3>10 DEF DeviceIInv
  <2>2. CASE device.current # renewal[r].secret
    <3> DEFINE new == Refused(r)
    <3>1. UNCHANGED device /\ RenewalBecomes(r, new)
      BY <1>4, <2>2 DEF RefreshWrite
    <3>2. new \in Renewal /\ new.secret = renewal[r].secret /\ new.awaited = renewal[r].awaited
          /\ new.grant = 0 /\ new.at = "answered"
      BY <2>0 DEF Renewal, Refused
    <3> HIDE DEF new
    <3>3. /\ renewal' \in [Renewals -> Renewal] /\ renewal'[r] = new
          /\ \A s \in Renewals : s # r => renewal'[s] = renewal[s]
      BY <1>t, <3>1, <3>2, RenewalStep
    <3>4. AppDeviceTypeOK'
      BY <1>t, <1>m, <2>0, <3>1, <3>2, <3>3 DEF AppDeviceTypeOK, Renewal
    <3>5. Younger'
      BY <1>t, <1>m, <2>0, <3>1, <3>2, <3>3 DEF Younger, Renewal
    <3>6. Ungranted' /\ GrantedOnce'
      BY <1>t, <3>2, <3>3 DEF Ungranted, GrantedOnce
    <3>7. InStep'
      BY <1>t, <2>0, <3>1, <3>2, <3>3 DEF InStep
    <3> QED
      BY <3>4, <3>5, <3>6, <3>7 DEF DeviceIInv
  <2> QED
    BY <2>1, <2>2
<1>5. ASSUME NEW r \in Renewals, Receive(r) PROVE DeviceIInv'
  <2>1. /\ renewal[r].at = "answered" /\ renewal[r].awaited /\ RenewalBecomes(r, NoRenewal)
        /\ UNCHANGED <<device, slipped>>
        /\ phone' = IF renewal[r].grant # 0 THEN [at |-> "linked", secret |-> renewal[r].grant]
                    ELSE [phone EXCEPT !.at = "lost"]
    BY <1>5 DEF Receive
  <2>2. NoRenewal \in Renewal /\ NoRenewal.at = "free" /\ NoRenewal.grant = 0
        /\ NoRenewal.secret = 0 /\ NoRenewal.awaited = FALSE
    BY AppDeviceAssumption DEF NoRenewal, Renewal
  <2>3. /\ renewal' \in [Renewals -> Renewal] /\ renewal'[r] = NoRenewal
        /\ \A s \in Renewals : s # r => renewal'[s] = renewal[s]
    BY <1>t, <2>1, <2>2, RenewalStep
  <2>4. renewal[r] \in Renewal
    BY <1>m
  <2>5. phone' \in [at: {"linked", "waiting", "lost"}, secret: Secrets]
    BY <1>m, <2>1, <2>4 DEF Renewal
  <2>6. \A s \in Renewals : s # r => ~renewal[s].awaited
    BY <1>t, <2>1 DEF AppDeviceTypeOK
  <2>7. AppDeviceTypeOK'
    BY <1>t, <1>m, <2>1, <2>2, <2>3, <2>5, <2>6 DEF AppDeviceTypeOK, Renewal
  <2>8. Younger'
    BY <1>t, <1>m, <2>1, <2>2, <2>3, <2>4 DEF Younger, Renewal
  <2>9. Ungranted' /\ GrantedOnce'
    BY <1>t, <2>2, <2>3 DEF Ungranted, GrantedOnce
  <2>10. InStep'
    <3> SUFFICES ASSUME ~slipped PROVE InStep'
      BY <2>1 DEF InStep
    <3>1. \A s \in Renewals : renewal'[s].at = "free"
      BY <1>t, <2>2, <2>3, <2>6 DEF InStep
    <3>2. phone'.at = "linked" => phone'.secret = renewal[r].grant /\ renewal[r].grant # 0
      BY <1>m, <2>1
    <3>3. renewal[r].grant # 0 => renewal[r].grant = device.current
      BY <1>t, <2>1 DEF InStep
    <3> QED
      BY <1>t, <2>1, <3>1, <3>2, <3>3 DEF InStep
  <2> QED
    BY <2>7, <2>8, <2>9, <2>10 DEF DeviceIInv
<1>6. ASSUME NEW r \in Renewals, RenewalFails(r) PROVE DeviceIInv'
  <2>1. /\ renewal[r].at \in {"sent", "granting", "replaying"} /\ RenewalBecomes(r, NoRenewal)
        /\ UNCHANGED <<device, slipped>>
        /\ phone' = IF renewal[r].awaited THEN [phone EXCEPT !.at = "linked"] ELSE phone
    BY <1>6 DEF RenewalFails
  <2>2. NoRenewal \in Renewal /\ NoRenewal.at = "free" /\ NoRenewal.grant = 0
        /\ NoRenewal.secret = 0 /\ NoRenewal.awaited = FALSE
    BY AppDeviceAssumption DEF NoRenewal, Renewal
  <2>3. /\ renewal' \in [Renewals -> Renewal] /\ renewal'[r] = NoRenewal
        /\ \A s \in Renewals : s # r => renewal'[s] = renewal[s]
    BY <1>t, <2>1, <2>2, RenewalStep
  <2>4. renewal[r] \in Renewal /\ phone'.secret = phone.secret
        /\ phone' \in [at: {"linked", "waiting", "lost"}, secret: Secrets]
    BY <1>m, <2>1
  <2>5. renewal[r].awaited => \A s \in Renewals : s # r => ~renewal[s].awaited
    BY <1>t DEF AppDeviceTypeOK
  <2>6. AppDeviceTypeOK'
    BY <1>t, <1>m, <2>1, <2>2, <2>3, <2>4, <2>5 DEF AppDeviceTypeOK, Renewal
  <2>7. Younger'
    BY <1>t, <1>m, <2>1, <2>2, <2>3, <2>4 DEF Younger, Renewal
  <2>8. Ungranted' /\ GrantedOnce'
    BY <1>t, <2>2, <2>3 DEF Ungranted, GrantedOnce
  <2>9. InStep'
    <3> SUFFICES ASSUME ~slipped PROVE InStep'
      BY <2>1 DEF InStep
    <3>1. renewal[r].awaited /\ phone.secret = device.current
      BY <1>t, <2>1 DEF InStep
    <3>2. \A s \in Renewals : renewal'[s].at = "free"
      BY <1>t, <2>2, <2>3, <2>5, <3>1 DEF InStep
    <3> QED
      BY <1>t, <2>1, <2>4, <3>1, <3>2 DEF InStep
  <2> QED
    BY <2>6, <2>7, <2>8, <2>9 DEF DeviceIInv
<1>7. ASSUME NEW r \in Renewals, GiveUp(r) PROVE DeviceIInv'
  <2> DEFINE new == [renewal[r] EXCEPT !.awaited = FALSE]
  <2>1. new \in Renewal /\ new.secret = renewal[r].secret /\ new.awaited = FALSE
        /\ new.grant = renewal[r].grant /\ new.at = renewal[r].at
    <3>1. renewal[r] \in Renewal
      BY <1>m
    <3> QED
      BY <3>1 DEF Renewal
  <2>2. /\ renewal[r].awaited /\ RenewalBecomes(r, new) /\ slipped' = TRUE /\ UNCHANGED device
        /\ phone' = [phone EXCEPT !.at = "linked"]
    BY <1>7 DEF GiveUp
  <2> HIDE DEF new
  <2>3. /\ renewal' \in [Renewals -> Renewal] /\ renewal'[r] = new
        /\ \A s \in Renewals : s # r => renewal'[s] = renewal[s]
    BY <1>t, <2>1, <2>2, RenewalStep
  <2>4. phone' \in [at: {"linked", "waiting", "lost"}, secret: Secrets] /\ phone'.secret = phone.secret
    BY <1>m, <2>2
  <2>5. \A s \in Renewals : ~renewal'[s].awaited
    BY <1>t, <2>1, <2>2, <2>3 DEF AppDeviceTypeOK
  <2>6. AppDeviceTypeOK'
    BY <1>m, <2>2, <2>3, <2>4, <2>5 DEF AppDeviceTypeOK, Renewal
  <2>7. Younger'
    BY <1>t, <1>m, <2>1, <2>2, <2>3, <2>4 DEF Younger
  <2>8. Ungranted' /\ GrantedOnce'
    BY <1>t, <2>1, <2>3 DEF Ungranted, GrantedOnce
  <2>9. InStep'
    BY <2>2 DEF InStep
  <2> QED
    BY <2>6, <2>7, <2>8, <2>9 DEF DeviceIInv
<1>8. ASSUME NEW r \in Renewals, AnswerLost(r) PROVE DeviceIInv'
  <2>1. /\ renewal[r].at = "answered" /\ ~renewal[r].awaited /\ RenewalBecomes(r, NoRenewal)
        /\ UNCHANGED <<device, phone, slipped>>
    BY <1>8 DEF AnswerLost
  <2>2. NoRenewal \in Renewal /\ NoRenewal.at = "free" /\ NoRenewal.grant = 0
        /\ NoRenewal.secret = 0 /\ NoRenewal.awaited = FALSE
    BY AppDeviceAssumption DEF NoRenewal, Renewal
  <2>3. /\ renewal' \in [Renewals -> Renewal] /\ renewal'[r] = NoRenewal
        /\ \A s \in Renewals : s # r => renewal'[s] = renewal[s]
    BY <1>t, <2>1, <2>2, RenewalStep
  <2>4. AppDeviceTypeOK'
    BY <1>t, <1>m, <2>1, <2>2, <2>3 DEF AppDeviceTypeOK, Renewal
  <2>5. Younger'
    BY <1>t, <1>m, <2>1, <2>2, <2>3 DEF Younger
  <2>6. Ungranted' /\ GrantedOnce'
    BY <1>t, <2>2, <2>3 DEF Ungranted, GrantedOnce
  <2>7. InStep'
    BY <1>t, <2>1, <2>2, <2>3 DEF InStep
  <2> QED
    BY <2>4, <2>5, <2>6, <2>7 DEF DeviceIInv
<1>9. ASSUME RevokeById PROVE DeviceIInv'
  <2>1. /\ device' = [device EXCEPT !.revoked = IF @ = "no" THEN "withdrawn" ELSE @]
        /\ device.revoked = "no" /\ UNCHANGED <<phone, renewal, slipped>>
    BY <1>9 DEF RevokeById, Revoke
  <2>2. /\ device'.current = device.current /\ device'.previous = device.previous
        /\ device'.revoked = "withdrawn"
        /\ device' \in [revoked: {"no", "withdrawn", "replay"}, current: Secrets, previous: Secrets]
    BY <1>m, <2>1
  <2> QED
    BY <1>t, <2>1, <2>2 DEF DeviceIInv, AppDeviceTypeOK, Younger, Ungranted, InStep, GrantedOnce
<1>10. ASSUME UNCHANGED deviceVars PROVE DeviceIInv'
  BY <1>t, <1>10 DEF deviceVars, DeviceIInv, AppDeviceTypeOK, Younger, Ungranted, InStep, GrantedOnce
<1> QED
  BY <1>1, <1>2, <1>3, <1>4, <1>5, <1>6, <1>7, <1>8, <1>9, <1>10 DEF AppDeviceNext, Refresh

LEMMA DeviceInductive == AppDeviceSpec => []DeviceIInv
<1> QED
  BY DeviceInitially, DevicePreserved, PTL DEF AppDeviceSpec

-----------------------------------------------------------------------------

\* Of two renewals that present one secret, one at most is granted: the condition of
\* the UPDATE in refresh(), whatever was read before it.
THEOREM SecretsExchangedOnce == AppDeviceSpec => []GrantedOnce
<1>1. DeviceIInv => GrantedOnce
  BY DEF DeviceIInv
<1> QED
  BY <1>1, DeviceInductive, PTL

\* As long as no answer to a renewal is lost, the phone holds the secret the panel
\* expects and is never withdrawn as replayed.
THEOREM SecretsDoAgree == AppDeviceSpec => []SecretsAgree
<1>1. DeviceIInv => SecretsAgree
  BY DEF DeviceIInv, InStep, SecretsAgree
<1> QED
  BY <1>1, DeviceInductive, PTL

\* The type of the row, of the phone and of the renewals on their way.
THEOREM DeviceTypeCorrect == AppDeviceSpec => []AppDeviceTypeOK
<1>1. DeviceIInv => AppDeviceTypeOK
  BY DEF DeviceIInv
<1> QED
  BY <1>1, DeviceInductive, PTL

-----------------------------------------------------------------------------
(* The notifications pushed (module PushOutbox). *)

Target == [revoked: BOOLEAN, handle: MaybeHandle]
Entry == [exists: BOOLEAN, id: 0..MaxNotices, tries: 0..(PushTries - 1), due: BOOLEAN]
Pusher == [at: {"idle", "sending", "answered", "settling"}, id: 0..MaxNotices,
           handle: MaybeHandle, tries: 0..(PushTries - 1),
           issue: {"none", "sent", "unknown", "again"}]

\* A report of an unsubscribed handle that is not yet written is never about the
\* handle that is expected.
ReportsAreOld ==
  \A s \in Senders :
    pusher[s].at = "answered" /\ pusher[s].issue = "unknown" => pusher[s].handle # expected

\* Who sends the present notification.
Sends(s) == pusher[s].at # "idle" /\ pusher[s].id = outbox.id

\* Undisturbed, one sender at most has a notification in its hands, and each push is
\* counted in the row or in those hands.
Counted ==
  /\ \A s \in Senders : pusher[s].id <= outbox.id
  /\ disturbed = {} =>
       /\ \A s, t \in Senders : pusher[s].at # "idle" /\ pusher[t].at # "idle" => s = t
       /\ pushes <= PushTries
       /\ \A s \in Senders : Sends(s) =>
            /\ pushes = pusher[s].tries + (IF pusher[s].at = "sending" THEN 0 ELSE 1)
            /\ outbox.exists => outbox.tries = pusher[s].tries
       /\ outbox.exists /\ (\A s \in Senders : ~Sends(s)) => pushes = outbox.tries

PushIInv == PushTypeOK /\ RevokedIsSilent /\ HandleKept /\ ReportsAreOld /\ Counted

-----------------------------------------------------------------------------

LEMMA PushTyped ==
  ASSUME PushTypeOK
  PROVE  /\ target \in Target /\ outbox \in Entry /\ pusher \in [Senders -> Pusher]
         /\ register \in MaybeHandle \cup {NoOne} /\ expected \in MaybeHandle \cup {NoOne}
         /\ pushes \in Nat /\ disturbed \subseteq {"stopped", "shared"}
         /\ registrations \in 0..MaxRegistrations
         /\ \A s \in Senders : pusher[s].at # "idle" => pusher[s].handle \in PushHandles
  BY DEF PushTypeOK, Target, Entry, Pusher

LEMMA PushConstants ==
  /\ PushTries \in Nat \ {0} /\ MaxNotices \in Nat /\ MaxRegistrations \in Nat
  /\ NoHandle \notin PushHandles /\ NoOne \notin PushHandles \cup {NoHandle}
  /\ FirstHandle \in PushHandles
  BY PushAssumption DEF FirstHandle

LEMMA PusherStep ==
  ASSUME pusher \in [Senders -> Pusher], NEW s \in Senders, NEW p \in Pusher, PusherBecomes(s, p)
  PROVE  /\ pusher' \in [Senders -> Pusher] /\ pusher'[s] = p
         /\ \A t \in Senders : t # s => pusher'[t] = pusher[t]
  BY DEF PusherBecomes

LEMMA Idles ==
  /\ NoPusher \in Pusher /\ NoPusher.at = "idle" /\ NoPusher.id = 0
<1>1. 0 \in 0..MaxNotices /\ 0 \in 0..(PushTries - 1)
  BY PushConstants
<1>2. NoHandle \in MaybeHandle
  BY DEF MaybeHandle
<1> QED
  BY <1>1, <1>2 DEF NoPusher, Pusher

LEMMA EntryErased ==
  ASSUME outbox \in Entry
  PROVE  /\ Erased \in Entry /\ Erased.id = outbox.id /\ Erased.exists = FALSE
<1>1. 0 \in 0..(PushTries - 1)
  BY PushConstants
<1> DEFINE a == [outbox EXCEPT !.exists = FALSE]
           b == [a EXCEPT !.tries = 0]
           c == [b EXCEPT !.due = FALSE]
<1>2. a \in Entry /\ a.exists = FALSE /\ a.id = outbox.id
  BY DEF Entry
<1> HIDE DEF a
<1>3. b \in Entry /\ b.exists = FALSE /\ b.id = outbox.id
  BY <1>1, <1>2 DEF Entry
<1> HIDE DEF b
<1>4. c \in Entry /\ c.exists = FALSE /\ c.id = outbox.id
  BY <1>3 DEF Entry
<1> HIDE DEF c
<1>5. Erased = c
  BY DEF Erased, a, b, c
<1> QED
  BY <1>4, <1>5

LEMMA PushInitially == PushInit => PushIInv
<1> SUFFICES ASSUME PushInit PROVE PushIInv
  OBVIOUS
<1>1. \A s \in Senders : pusher[s] = NoPusher
  BY DEF PushInit
<1>2. PushTypeOK
  <2>1. pusher \in [Senders -> Pusher]
    BY Idles DEF PushInit
  <2> QED
    BY <1>1, <2>1, Idles, PushConstants DEF PushInit, PushTypeOK, Pusher, MaybeHandle
<1>3. RevokedIsSilent /\ HandleKept
  BY DEF PushInit, RevokedIsSilent, HandleKept
<1>4. ReportsAreOld /\ Counted
  BY <1>1, Idles, PushConstants DEF PushInit, ReportsAreOld, Counted, Sends
<1> QED
  BY <1>2, <1>3, <1>4 DEF PushIInv

LEMMA PushPreserved == PushIInv /\ [PushNext]_pushVars => PushIInv'
<1> SUFFICES ASSUME PushIInv, [PushNext]_pushVars PROVE PushIInv'
  OBVIOUS
<1>i. PushTypeOK /\ RevokedIsSilent /\ HandleKept /\ ReportsAreOld /\ Counted
  BY DEF PushIInv
<1>t. /\ target \in Target /\ outbox \in Entry /\ pusher \in [Senders -> Pusher]
      /\ register \in MaybeHandle \cup {NoOne} /\ expected \in MaybeHandle \cup {NoOne}
      /\ pushes \in Nat /\ disturbed \subseteq {"stopped", "shared"}
      /\ registrations \in 0..MaxRegistrations
      /\ \A s \in Senders : pusher[s].at # "idle" => pusher[s].handle \in PushHandles
  BY <1>i, PushTyped
<1>1. ASSUME NEW handle \in MaybeHandle, RegisterRead(handle) PROVE PushIInv'
  <2>1. PushTypeOK'
    BY <1>i, <1>t, <1>1, PushConstants DEF RegisterRead, PushTypeOK
  <2> QED
    BY <1>i, <1>1, <2>1
       DEF RegisterRead, PushIInv, RevokedIsSilent, HandleKept, ReportsAreOld, Counted, Sends
<1>2. ASSUME SetPush PROVE PushIInv'
  <2>1. /\ register # NoOne /\ register \in MaybeHandle
        /\ target' = IF target.revoked THEN target ELSE [target EXCEPT !.handle = register]
        /\ expected' = IF \E s \in Senders : Reports(s, register) THEN NoOne ELSE register
        /\ register' = NoOne /\ UNCHANGED <<outbox, pusher, pushes, disturbed, registrations>>
    BY <1>2, <1>t DEF SetPush
  <2>2. /\ target' \in Target /\ target'.revoked = target.revoked
        /\ target'.handle = IF target.revoked THEN target.handle ELSE register
    BY <1>t, <2>1 DEF Target
  <2>3. PushTypeOK'
    BY <1>i, <2>1, <2>2 DEF PushTypeOK, Target
  <2>4. RevokedIsSilent' /\ HandleKept'
    BY <1>i, <2>1, <2>2 DEF RevokedIsSilent, HandleKept
  <2>5. ReportsAreOld'
    <3> SUFFICES ASSUME NEW s \in Senders, pusher[s].at = "answered", pusher[s].issue = "unknown"
                 PROVE  pusher[s].handle # expected'
      BY <2>1 DEF ReportsAreOld
    <3>1. pusher[s].handle \in PushHandles
      BY <1>t
    <3>2. pusher[s].handle = register => Reports(s, register)
      BY DEF Reports
    <3> QED
      BY <2>1, <3>1, <3>2, PushConstants
  <2>6. Counted'
    BY <1>i, <2>1 DEF Counted, Sends
  <2> QED
    BY <2>3, <2>4, <2>5, <2>6 DEF PushIInv
<1>o. ASSUME NEW handle \in PushHandles, TakenOver(handle) PROVE PushIInv'
  <2>1. /\ target' \in Target /\ target'.revoked = target.revoked
        /\ target'.handle = IF target.handle = handle THEN NoHandle ELSE target.handle
        /\ expected' = IF expected = handle THEN NoOne ELSE expected
        /\ registrations' \in 0..MaxRegistrations
        /\ UNCHANGED <<register, outbox, pusher, pushes, disturbed>>
    BY <1>t, <1>o, PushConstants DEF TakenOver, Target, MaybeHandle
  <2>2. PushTypeOK'
    BY <1>i, <2>1 DEF PushTypeOK, Target
  <2>3. RevokedIsSilent' /\ HandleKept'
    BY <1>i, <2>1 DEF RevokedIsSilent, HandleKept
  <2>4. ReportsAreOld'
    BY <1>i, <1>t, <2>1, PushConstants DEF ReportsAreOld
  <2>5. Counted'
    BY <1>i, <2>1 DEF Counted, Sends
  <2> QED
    BY <2>2, <2>3, <2>4, <2>5 DEF PushIInv
<1>3. ASSUME RevokeTarget PROVE PushIInv'
  <2>1. PushTypeOK' /\ RevokedIsSilent' /\ HandleKept'
    BY <1>i, <1>3 DEF RevokeTarget, PushTypeOK, RevokedIsSilent, HandleKept, MaybeHandle
  <2> QED
    BY <1>i, <1>3, <2>1 DEF RevokeTarget, PushIInv, ReportsAreOld, Counted, Sends
<1>4. ASSUME Enqueue PROVE PushIInv'
  <2>1. /\ outbox' \in Entry /\ outbox'.exists /\ outbox'.id = outbox.id + 1 /\ outbox'.tries = 0
        /\ pushes' = 0 /\ UNCHANGED <<target, register, pusher, expected, disturbed, registrations>>
    BY <1>4, <1>t, PushConstants DEF Enqueue, Entry
  <2>2. PushTypeOK'
    BY <1>i, <2>1 DEF PushTypeOK, Entry
  <2>3. \A s \in Senders : pusher[s].id \in Nat /\ outbox.id \in Nat
    BY <1>t, PushConstants DEF Pusher, Entry
  <2>4. \A s \in Senders : pusher[s].id < outbox'.id
    BY <1>i, <2>1, <2>3 DEF Counted
  <2>5. Counted'
    BY <1>i, <2>1, <2>3, <2>4, PushConstants DEF Counted, Sends
  <2> QED
    BY <1>i, <2>1, <2>2, <2>5 DEF PushIInv, RevokedIsSilent, HandleKept, ReportsAreOld
<1>5. ASSUME PushDelay PROVE PushIInv'
  <2>1. /\ outbox' \in Entry /\ outbox'.exists = outbox.exists /\ outbox'.id = outbox.id
        /\ outbox'.tries = outbox.tries
        /\ UNCHANGED <<target, register, pusher, expected, pushes, disturbed, registrations>>
    BY <1>5, <1>t DEF PushDelay, Entry
  <2> QED
    BY <1>i, <2>1
       DEF PushIInv, PushTypeOK, Entry, RevokedIsSilent, HandleKept, ReportsAreOld, Counted, Sends
\* The row is erased: nothing else is counted.
<1>e. ASSUME outbox' = Erased, UNCHANGED <<target, register, pusher, expected, pushes, disturbed, registrations>>
      PROVE  PushIInv'
  <2>1. outbox' \in Entry /\ outbox'.exists = FALSE /\ outbox'.id = outbox.id
    BY <1>e, <1>t, EntryErased
  <2> QED
    BY <1>i, <1>e, <2>1
       DEF PushIInv, PushTypeOK, Entry, RevokedIsSilent, HandleKept, ReportsAreOld, Counted, Sends
<1>6. ASSUME PushExpires PROVE PushIInv'
  BY <1>6, <1>e DEF PushExpires
<1>7. ASSUME NEW s \in Senders, PushRead(s) PROVE PushIInv'
  <2>1. CASE target.handle = NoHandle
    BY <1>7, <1>e, <2>1 DEF PushRead
  <2>2. CASE target.handle # NoHandle
    <3> DEFINE p == [at |-> "sending", id |-> outbox.id, handle |-> target.handle,
                     tries |-> outbox.tries, issue |-> "none"]
    <3>1. /\ pusher[s].at = "idle" /\ outbox.exists /\ PusherBecomes(s, p)
          /\ UNCHANGED <<target, register, outbox, expected, pushes, registrations>>
          /\ disturbed' = IF \E t \in Senders : pusher[t].at # "idle"
                          THEN disturbed \cup {"shared"} ELSE disturbed
      BY <1>7, <2>2 DEF PushRead
    <3>2. p \in Pusher /\ target.handle \in PushHandles
      BY <1>t, <2>2 DEF Pusher, Target, Entry, MaybeHandle
    <3>3. /\ p.at = "sending" /\ p.id = outbox.id /\ p.handle = target.handle
          /\ p.tries = outbox.tries /\ p.issue = "none"
      OBVIOUS
    <3> HIDE DEF p
    <3>4. /\ pusher' \in [Senders -> Pusher] /\ pusher'[s] = p
          /\ \A t \in Senders : t # s => pusher'[t] = pusher[t]
      BY <1>t, <3>1, <3>2, PusherStep
    <3>5. PushTypeOK'
      BY <1>i, <1>t, <3>1, <3>2, <3>3, <3>4 DEF PushTypeOK, Pusher
    <3>6. ReportsAreOld'
      BY <1>i, <3>1, <3>3, <3>4 DEF ReportsAreOld
    <3>7. Counted'
      <4>1. \A t \in Senders : pusher'[t].id <= outbox.id
        BY <1>i, <1>t, <3>3, <3>4, PushConstants DEF Counted, Entry
      <4>2. disturbed' = {} => disturbed = {} /\ \A t \in Senders : pusher[t].at = "idle"
        BY <3>1
      <4>3. outbox.tries \in Nat
        BY <1>t DEF Entry
      <4> QED
        BY <1>i, <3>1, <3>3, <3>4, <4>1, <4>2, <4>3 DEF Counted, Sends
    <3> QED
      BY <1>i, <3>1, <3>5, <3>6, <3>7 DEF PushIInv, RevokedIsSilent, HandleKept
  <2> QED
    BY <2>1, <2>2
<1>8. ASSUME NEW s \in Senders, PushSend(s) PROVE PushIInv'
  <2>1. PICK issue \in {"sent", "unknown", "again"} :
          /\ PusherBecomes(s, [pusher[s] EXCEPT !.at = "answered", !.issue = issue])
          /\ expected' = IF issue = "unknown" /\ pusher[s].handle = expected THEN NoOne ELSE expected
    BY <1>8 DEF PushSend
  <2> DEFINE p == [pusher[s] EXCEPT !.at = "answered", !.issue = issue]
  <2>2. /\ p \in Pusher /\ p.at = "answered" /\ p.issue = issue /\ p.id = pusher[s].id
        /\ p.handle = pusher[s].handle /\ p.tries = pusher[s].tries
    <3>1. pusher[s] \in Pusher
      BY <1>t
    <3> QED
      BY <3>1 DEF Pusher
  <2>3. PusherBecomes(s, p)
    BY <2>1
  <2> HIDE DEF p
  <2>4. /\ pusher' \in [Senders -> Pusher] /\ pusher'[s] = p
        /\ \A t \in Senders : t # s => pusher'[t] = pusher[t]
    BY <1>t, <2>2, <2>3, PusherStep
  <2>5. /\ pusher[s].at = "sending" /\ UNCHANGED <<target, register, outbox, disturbed, registrations>>
        /\ pushes' = IF pusher[s].id = outbox.id THEN pushes + 1 ELSE pushes
    BY <1>8 DEF PushSend
  <2>6. PushTypeOK'
    BY <1>i, <1>t, <2>1, <2>2, <2>4, <2>5 DEF PushTypeOK, Pusher
  <2>7. RevokedIsSilent' /\ HandleKept'
    BY <1>i, <2>1, <2>5 DEF RevokedIsSilent, HandleKept
  <2>8. ReportsAreOld'
    <3>1. pusher[s].handle \in PushHandles
      BY <1>t, <2>5
    <3>2. \A t \in Senders : pusher[t].at = "answered" => pusher[t].handle \in PushHandles
      BY <1>t
    <3> QED
      BY <1>i, <2>1, <2>2, <2>4, <3>1, <3>2, PushConstants DEF ReportsAreOld
  <2>9. Counted'
    <3>1. pusher[s].tries \in 0..(PushTries - 1)
      BY <1>t DEF Pusher
    <3>2. \A t \in Senders : pusher'[t].id <= outbox.id
      BY <1>i, <2>2, <2>4 DEF Counted
    <3> SUFFICES ASSUME disturbed = {} PROVE Counted'
      BY <2>5, <3>2 DEF Counted
    <3>3. \A t \in Senders : t # s => pusher[t].at = "idle"
      BY <1>i, <2>5 DEF Counted
    <3>4. CASE pusher[s].id = outbox.id
      <4>1. pushes' = pusher[s].tries + 1 /\ (outbox.exists => outbox.tries = pusher[s].tries)
        BY <1>i, <1>t, <2>5, <3>1, <3>4, PushConstants DEF Counted, Sends
      <4> QED
        BY <2>2, <2>4, <2>5, <3>1, <3>2, <3>3, <3>4, <4>1, PushConstants DEF Counted, Sends
    <3>5. CASE pusher[s].id # outbox.id
      <4>1. pushes' = pushes
        BY <2>5, <3>5
      <4> QED
        BY <1>i, <2>2, <2>4, <2>5, <3>2, <3>3, <3>5, <4>1 DEF Counted, Sends
    <3> QED
      BY <3>4, <3>5
  <2> QED
    BY <2>6, <2>7, <2>8, <2>9 DEF PushIInv
<1>9. ASSUME NEW s \in Senders, Forget(s) PROVE PushIInv'
  <2> DEFINE p == [pusher[s] EXCEPT !.at = "settling"]
  <2>1. /\ p \in Pusher /\ p.at = "settling" /\ p.id = pusher[s].id /\ p.handle = pusher[s].handle
        /\ p.tries = pusher[s].tries
    <3>1. pusher[s] \in Pusher
      BY <1>t
    <3> QED
      BY <3>1 DEF Pusher
  <2>2. /\ pusher[s].at = "answered" /\ PusherBecomes(s, p)
        /\ target' = IF Reports(s, target.handle) THEN [target EXCEPT !.handle = NoHandle] ELSE target
        /\ UNCHANGED <<register, outbox, expected, pushes, disturbed, registrations>>
    BY <1>9 DEF Forget
  <2> HIDE DEF p
  <2>3. /\ pusher' \in [Senders -> Pusher] /\ pusher'[s] = p
        /\ \A t \in Senders : t # s => pusher'[t] = pusher[t]
    BY <1>t, <2>1, <2>2, PusherStep
  <2>4. /\ target' \in Target /\ target'.revoked = target.revoked
        /\ target'.handle = IF Reports(s, target.handle) THEN NoHandle ELSE target.handle
    BY <1>t, <2>2 DEF Target, MaybeHandle
  <2>5. PushTypeOK'
    BY <1>i, <1>t, <2>1, <2>2, <2>3, <2>4 DEF PushTypeOK, Target, Pusher
  <2>6. RevokedIsSilent'
    BY <1>i, <2>4 DEF RevokedIsSilent
  <2>7. HandleKept'
    <3>1. Reports(s, target.handle) => target.handle # expected
      BY <1>i DEF ReportsAreOld, Reports
    <3> QED
      BY <1>i, <2>2, <2>4, <3>1 DEF HandleKept
  <2>8. ReportsAreOld'
    BY <1>i, <2>1, <2>2, <2>3 DEF ReportsAreOld
  <2>9. Counted'
    <3>1. \A t \in Senders : /\ pusher'[t].id = pusher[t].id /\ pusher'[t].tries = pusher[t].tries
                             /\ pusher'[t].at = "idle" <=> pusher[t].at = "idle"
                             /\ pusher'[t].at = "sending" <=> pusher[t].at = "sending"
      BY <2>1, <2>2, <2>3
    <3> QED
      BY <1>i, <2>2, <3>1 DEF Counted, Sends
  <2> QED
    BY <2>5, <2>6, <2>7, <2>8, <2>9 DEF PushIInv
<1>10. ASSUME NEW s \in Senders, Trancher(s) PROVE PushIInv'
  <2> DEFINE p == pusher[s]
             over == p.issue # "again" \/ p.tries + 1 >= PushTries
  <2>1. /\ pusher[s].at = "settling" /\ PusherBecomes(s, NoPusher)
        /\ outbox' = IF ~outbox.exists \/ outbox.id # p.id THEN outbox
                     ELSE IF over THEN Erased ELSE [outbox EXCEPT !.tries = p.tries + 1, !.due = FALSE]
        /\ UNCHANGED <<target, register, expected, pushes, disturbed, registrations>>
    BY <1>10 DEF Trancher
  <2>2. /\ pusher' \in [Senders -> Pusher] /\ pusher'[s] = NoPusher
        /\ \A t \in Senders : t # s => pusher'[t] = pusher[t]
    BY <1>t, <2>1, PusherStep, Idles
  <2>3. p \in Pusher /\ p.tries \in 0..(PushTries - 1)
    BY <1>t DEF Pusher
  <2>4. /\ outbox' \in Entry /\ outbox'.id = outbox.id
        /\ outbox'.exists => outbox.exists
        /\ outbox'.exists /\ outbox.id = p.id => outbox'.tries = p.tries + 1
        /\ outbox.id # p.id => outbox' = outbox
    <3>1. CASE ~outbox.exists \/ outbox.id # p.id
      BY <1>t, <2>1, <3>1
    <3>2. CASE outbox.exists /\ outbox.id = p.id /\ over
      BY <1>t, <2>1, <3>2, EntryErased
    <3>3. CASE outbox.exists /\ outbox.id = p.id /\ ~over
      <4>1. p.tries + 1 \in 0..(PushTries - 1)
        BY <2>3, <3>3, PushConstants
      <4> QED
        BY <1>t, <2>1, <3>3, <4>1 DEF Entry
    <3> QED
      BY <3>1, <3>2, <3>3
  <2> HIDE DEF p, over
  <2>5. PushTypeOK'
    BY <1>i, <1>t, <2>1, <2>2, <2>4, Idles DEF PushTypeOK, Entry, Pusher
  <2>6. RevokedIsSilent' /\ HandleKept'
    BY <1>i, <2>1 DEF RevokedIsSilent, HandleKept
  <2>7. ReportsAreOld'
    BY <1>i, <2>1, <2>2, Idles DEF ReportsAreOld
  <2>8. Counted'
    <3>1. \A t \in Senders : pusher'[t].id <= outbox'.id
      BY <1>i, <1>t, <2>2, <2>4, Idles, PushConstants DEF Counted, Entry
    <3> SUFFICES ASSUME disturbed = {} PROVE Counted'
      BY <2>1, <3>1 DEF Counted
    <3>2. \A t \in Senders : pusher'[t].at = "idle"
      BY <1>i, <2>1, <2>2, Idles DEF Counted
    <3>3. \A t \in Senders : t # s => pusher[t].at = "idle"
      BY <1>i, <2>1 DEF Counted
    <3>4. outbox'.exists => pushes = outbox'.tries
      <4>1. CASE outbox.id = p.id
        <5>1. pushes = p.tries + 1
          BY <1>i, <2>1, <4>1 DEF Counted, Sends, p
        <5> QED
          BY <2>4, <4>1, <5>1
      <4>2. CASE outbox.id # p.id
        <5>1. \A t \in Senders : ~Sends(t)
          BY <3>3, <4>2 DEF Sends, p
        <5> QED
          BY <1>i, <2>4, <4>2, <5>1 DEF Counted
      <4> QED
        BY <4>1, <4>2
    <3> QED
      BY <1>i, <2>1, <3>1, <3>2, <3>4 DEF Counted, Sends
  <2> QED
    BY <2>5, <2>6, <2>7, <2>8 DEF PushIInv
<1>11. ASSUME NEW s \in Senders, SenderStops(s) PROVE PushIInv'
  <2>1. /\ PusherBecomes(s, NoPusher) /\ disturbed' = disturbed \cup {"stopped"}
        /\ UNCHANGED <<target, register, outbox, expected, pushes, registrations>>
    BY <1>11 DEF SenderStops
  <2>2. /\ pusher' \in [Senders -> Pusher] /\ pusher'[s] = NoPusher
        /\ \A t \in Senders : t # s => pusher'[t] = pusher[t]
    BY <1>t, <2>1, PusherStep, Idles
  <2>3. PushTypeOK'
    BY <1>i, <1>t, <2>1, <2>2, Idles DEF PushTypeOK, Pusher
  <2>4. RevokedIsSilent' /\ HandleKept' /\ ReportsAreOld'
    BY <1>i, <2>1, <2>2, Idles DEF RevokedIsSilent, HandleKept, ReportsAreOld
  <2>5. \A t \in Senders : pusher'[t].id <= outbox.id
    BY <1>i, <1>t, <2>2, Idles, PushConstants DEF Counted, Entry
  <2>6. Counted'
    BY <2>1, <2>5 DEF Counted
  <2> QED
    BY <2>3, <2>4, <2>6 DEF PushIInv
<1>12. ASSUME UNCHANGED pushVars PROVE PushIInv'
  BY <1>i, <1>12
     DEF pushVars, PushIInv, PushTypeOK, RevokedIsSilent, HandleKept, ReportsAreOld, Counted, Sends
<1> QED
  BY <1>1, <1>2, <1>3, <1>4, <1>5, <1>6, <1>7, <1>8, <1>9, <1>10, <1>11, <1>12, <1>o
     DEF PushNext, Push

LEMMA PushInductive == PushSpec => []PushIInv
<1> QED
  BY PushInitially, PushPreserved, PTL DEF PushSpec

-----------------------------------------------------------------------------

\* The type of the row of the device, of the outbox and of what the senders hold.
THEOREM PushTypeCorrect == PushSpec => []PushTypeOK
<1>1. PushIInv => PushTypeOK
  BY DEF PushIInv
<1> QED
  BY <1>1, PushInductive, PTL

\* A device withdrawn keeps no handle, whatever registration was let in before.
THEOREM WithdrawnIsSilent == PushSpec => []RevokedIsSilent
<1>1. PushIInv => RevokedIsSilent
  BY DEF PushIInv
<1> QED
  BY <1>1, PushInductive, PTL

\* The handle the phone left last is the one pushes go to, until it is itself
\* reported: the condition of the UPDATE in trancher().
THEOREM LastHandleKept == PushSpec => []HandleKept
<1>1. PushIInv => HandleKept
  BY DEF PushIInv
<1> QED
  BY <1>1, PushInductive, PTL

\* As long as no sender stops and no two of them read the same row, a notification is
\* pushed at most as often as trancher() allows.
THEOREM PushesAreBounded == PushSpec => []PushesBounded
<1>1. PushIInv => PushesBounded
  BY DEF PushIInv, Counted, PushesBounded
<1> QED
  BY <1>1, PushInductive, PTL
=============================================================================
