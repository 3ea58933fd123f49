------------------------ MODULE IndependentPartsProofs ------------------------
(***************************************************************************)
(* The parts put side by side: each behaves as it does alone, so that what *)
(* is proved of it alone holds of it here.                                 *)
(***************************************************************************)
EXTENDS IndependentParts, DueRowsProofs, PhoneProofs, RetentionProofs, SubdomainsProofs

\* A part moves as its module says, or is left alone while another moves.
LEMMA PartMoves ==
  ASSUME [Next]_partsVars
  PROVE  /\ [SchedulesNext]_schedulesVars /\ [WebhookNext]_webhookVars /\ [PushNext]_pushVars
         /\ [UpdatesNext]_updatesVars /\ [AppDeviceNext]_deviceVars
         /\ [RotationNext]_rotationVars /\ [SubdomainsNext]_subdomainVars
         /\ part' = part
  BY DEF Next, Moves, partsVars

\* The modules share nothing: what each allows is all its part does here, whatever the
\* others hold.
THEOREM PartsBehaveAlone ==
  Spec => /\ SchedulesSpec /\ WebhookSpec /\ PushSpec /\ UpdatesSpec
          /\ AppDeviceSpec /\ RotationSpec /\ SubdomainsSpec
<1>1. Init => /\ SchedulesInit /\ WebhookInit /\ PushInit /\ UpdatesInit
              /\ AppDeviceInit /\ RotationInit /\ SubdomainsInit
  BY DEF Init
<1>2. [Next]_partsVars =>
        /\ [SchedulesNext]_schedulesVars /\ [WebhookNext]_webhookVars /\ [PushNext]_pushVars
        /\ [UpdatesNext]_updatesVars /\ [AppDeviceNext]_deviceVars
        /\ [RotationNext]_rotationVars /\ [SubdomainsNext]_subdomainVars
  BY PartMoves
<1> QED
  BY <1>1, <1>2, PTL DEF Spec, SchedulesSpec, WebhookSpec, PushSpec, UpdatesSpec,
                         AppDeviceSpec, RotationSpec, SubdomainsSpec

\* Every part keeps its types, and the part that moves is chosen once.
THEOREM PartsTypeCorrect == Spec => []TypeOK
<1> DEFINE Parts == {"schedules", "webhooks", "push", "updates", "devices", "rotation",
                     "subdomains"}
<1>1. Init => part \in Parts
  BY DEF Init
<1>2. part \in Parts /\ [Next]_partsVars => (part \in Parts)'
  BY PartMoves
<1>3. Spec => [](part \in Parts)
  BY <1>1, <1>2, PTL DEF Spec
<1>4. /\ part \in Parts /\ SchedulesTypeOK /\ WebhookTypeOK /\ PushTypeOK
      /\ UpdatesTypeOK /\ AppDeviceTypeOK /\ RotationTypeOK /\ SubdomainsTypeOK
      => TypeOK
  BY DEF TypeOK
<1> QED
  BY <1>3, <1>4, PartsBehaveAlone, SchedulesTypeCorrect, WebhookTypeCorrect, PushTypeCorrect,
     UpdatesTypeCorrect, DeviceTypeCorrect, RotationTypeCorrect, SubdomainsTypeCorrect, PTL

\* All that is proved of the parts one by one holds of them side by side.
THEOREM PartsKeepTheirWord ==
  Spec => /\ [](OncePerPanel /\ OneExecution /\ ToldOnce)
          /\ [](OnePostPerAttempt /\ Queued) /\ ClosedForGood
          /\ [](RevokedIsSilent /\ HandleKept /\ PushesBounded)
          /\ [](InService /\ WayBack) /\ RefusedForGood
          /\ [](SecretsAgree /\ GrantedOnce)
          /\ [](FirstOfSlotKept /\ KeptAsPromised)
          /\ []ZoneAsListed
<1> QED
  BY PartsBehaveAlone, NeverTwiceInAPanel, LeaseIsExclusive, BreakdownToldOnce, PostsCounted,
     NeverForgotten, StaysClosed, WithdrawnIsSilent, LastHandleKept, PushesAreBounded,
     VersionInService, WayBackStaysOpen, RefusalsLast, SecretsDoAgree, SecretsExchangedOnce,
     RotationKeepsItsLevels, RotationSparesAsPromised, ZoneIsAsListed, PTL
===============================================================================
