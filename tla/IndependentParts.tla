--------------------------- MODULE IndependentParts ---------------------------
(***************************************************************************)
(* Seven parts of the system that share no row and no file: the schedules  *)
(* of a server, the deliveries of a webhook, the notifications pushed to a *)
(* phone, the updates of the panel, the renewals of a phone's access, the  *)
(* rotation of the snapshots of a node and the names of a server in a DNS  *)
(* zone.  A behaviour follows one of them, chosen at the start, while the  *)
(* others stay as they began: any interleaving of the seven, seen from one *)
(* of them, is one of these.                                               *)
(***************************************************************************)
EXTENDS Schedules, WebhookQueue, PushOutbox, Updates, AppDevice, SnapshotRotation,
        Subdomains

VARIABLE part  \* the part that moves

partsVars == <<part, schedulesVars, webhookVars, pushVars, updatesVars, deviceVars, rotationVars,
               subdomainVars>>

TypeOK ==
  /\ part \in {"schedules", "webhooks", "push", "updates", "devices", "rotation",
              "subdomains"}
  /\ SchedulesTypeOK /\ WebhookTypeOK /\ PushTypeOK
  /\ UpdatesTypeOK /\ AppDeviceTypeOK /\ RotationTypeOK /\ SubdomainsTypeOK

Init ==
  /\ part \in {"schedules", "webhooks", "push", "updates", "devices", "rotation",
              "subdomains"}
  /\ SchedulesInit /\ WebhookInit /\ PushInit
  /\ UpdatesInit /\ AppDeviceInit /\ RotationInit /\ SubdomainsInit
  /\ part # "subdomains" => wish = CHOOSE w \in Wishes : TRUE

Moves(name, step) == part = name /\ step /\ UNCHANGED part

Next ==
  \/ /\ Moves("schedules", SchedulesNext)
     /\ UNCHANGED <<webhookVars, pushVars, updatesVars, deviceVars, rotationVars, subdomainVars>>
  \/ /\ Moves("webhooks", WebhookNext)
     /\ UNCHANGED <<schedulesVars, pushVars, updatesVars, deviceVars, rotationVars, subdomainVars>>
  \/ /\ Moves("push", PushNext)
     /\ UNCHANGED <<schedulesVars, webhookVars, updatesVars, deviceVars, rotationVars, subdomainVars>>
  \/ /\ Moves("updates", UpdatesNext)
     /\ UNCHANGED <<schedulesVars, webhookVars, pushVars, deviceVars, rotationVars, subdomainVars>>
  \/ /\ Moves("devices", AppDeviceNext)
     /\ UNCHANGED <<schedulesVars, webhookVars, pushVars, updatesVars, rotationVars, subdomainVars>>
  \/ /\ Moves("rotation", RotationNext)
     /\ UNCHANGED <<schedulesVars, webhookVars, pushVars, updatesVars, deviceVars, subdomainVars>>
  \/ /\ Moves("subdomains", SubdomainsNext)
     /\ UNCHANGED <<schedulesVars, webhookVars, pushVars, updatesVars, deviceVars, rotationVars>>

\* The timers of the panels fire, what they execute ends, and time passes.
SchedulesFairness ==
  /\ WF_schedulesVars(part = "schedules" /\ Tick)
  /\ \A p \in Panels : WF_schedulesVars(part = "schedules" /\ ClaimDue(p))
  /\ \A r \in Runs : WF_schedulesVars(part = "schedules" /\ Execute(r))

\* The dispatchers go round, post with a timeout, and write what came of it.
WebhookFairness ==
  /\ WF_webhookVars(part = "webhooks" /\ DelayPasses)
  /\ \A d \in Dispatchers :
       WF_webhookVars(part = "webhooks" /\
                        (ClaimRead(d) \/ ClaimTake(d) \/ Deliver(d) \/ Settle(d) \/ Retry(d)))

\* Passenger starts the API when somebody visits it, and applies the restarts asked
\* of it; a version loads or does not; the confirmation has a timeout.
UpdatesFairness ==
  /\ WF_updatesVars(part = "updates" /\ StartApi)
  /\ WF_updatesVars(part = "updates" /\ (ApiLoads \/ ApiBreaks))
  /\ WF_updatesVars(part = "updates" /\ Confirming)
  /\ WF_updatesVars(/\ part = "updates"
                    /\ etat.bascule # None /\ api.version # etat.bascule
                    /\ ApiStops)

Spec == Init /\ [][Next]_partsVars /\ SchedulesFairness /\ WebhookFairness /\ UpdatesFairness

-----------------------------------------------------------------------------

\* A schedule with a date is run, even if the panel that claimed it stopped.
DueScheduleRuns == part = "schedules" => DueIsRun

\* A delivery is delivered or abandoned, unless a dispatcher failed with it in its
\* hands or the webhook was switched off.
DeliveryFinishes == part = "webhooks" => DeliveryEnds

\* The trial of a new version ends, even when it never stays up long enough to
\* answer for itself.
TrialFinishes == part = "updates" => TrialEnds
===============================================================================
