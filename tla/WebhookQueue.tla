---------------------------- MODULE WebhookQueue ----------------------------
(***************************************************************************)
(* One delivery of an outgoing webhook, and the panels whose dispatchers   *)
(* look for deliveries that are due.  The column of the next attempt is    *)
(* the queue: a dispatcher reads the deliveries that have a date in the    *)
(* past, takes them off by erasing the date, posts, and writes a date      *)
(* again or closes the delivery.  Both queues, of the platform and of a    *)
(* client, do the same.                                                    *)
(*                                                                         *)
(* Sources: webhooks/webhook-queue.ts, webhooks/webhook-dispatcher         *)
(* .service.ts (tick, deliver) and contracts/src/webhooks.ts (delays).     *)
(***************************************************************************)
EXTENDS Naturals

CONSTANTS
  Dispatchers,  \* instances of the API: within one, rounds never overlap
  Retries,      \* number of delays between attempts (six)
  MaxMishaps     \* bound: times the webhook is switched off or on, or a sender fails

ASSUME WebhookAssumption == Retries \in Nat /\ MaxMishaps \in Nat

VARIABLES
  delivery,  \* its row: attempts, date of the next one, outcome
  isActive,  \* the webhook is switched on
  sender,    \* what each dispatcher holds of the delivery
  posts,     \* history: requests the receiver got
  mishaps,
  shared,    \* history: two dispatchers have held the delivery at once
  lost       \* history: a dispatcher stopped, or failed, with it in its hands

webhookVars == <<delivery, isActive, sender, posts, mishaps, shared, lost>>

NoSender == [at |-> "idle", attempts |-> 0, answer |-> "none"]

WebhookTypeOK ==
  /\ delivery \in [attempts: 0..(Retries + 1), next: {"none", "later", "due"},
                   outcome: {"open", "delivered", "abandoned"}]
  /\ isActive \in BOOLEAN
  /\ sender \in [Dispatchers ->
                   [at: {"idle", "read", "taken", "posted"}, attempts: 0..Retries,
                    answer: {"none", "accepted", "unavailable", "rejected"}]]
  /\ posts \in Nat /\ mishaps \in 0..MaxMishaps
  /\ shared \in BOOLEAN /\ lost \in BOOLEAN
  /\ \A d \in Dispatchers : sender[d].at = "posted" <=> sender[d].answer # "none"

\* The emitter inserts it as due at once.
WebhookInit ==
  /\ delivery = [attempts |-> 0, next |-> "due", outcome |-> "open"]
  /\ isActive = TRUE
  /\ sender = [d \in Dispatchers |-> NoSender]
  /\ posts = 0 /\ mishaps = 0 /\ shared = FALSE /\ lost = FALSE

-----------------------------------------------------------------------------

SenderBecomes(d, s) == sender' = [sender EXCEPT ![d] = s]
Holds(d) == sender[d].at # "idle"

\* claimDue(), its SELECT.
ClaimRead(d) ==
  /\ ~Holds(d)
  /\ delivery.next = "due" /\ isActive
  /\ SenderBecomes(d, [at |-> "read", attempts |-> delivery.attempts, answer |-> "none"])
  /\ shared' = (shared \/ \E e \in Dispatchers : Holds(e))
  /\ UNCHANGED <<delivery, isActive, posts, mishaps, lost>>

\* A fault: the delivery keeps its date while it is posted.
ClaimTake_KeepsDate(d) ==
  /\ sender[d].at = "read"
  /\ SenderBecomes(d, [sender[d] EXCEPT !.at = "taken"])
  /\ UNCHANGED <<delivery, isActive, posts, mishaps, shared, lost>>

\* claimDue(), its UPDATE: whatever the row has become.
ClaimTake(d) ==
  /\ sender[d].at = "read"
  /\ delivery' = [delivery EXCEPT !.next = "none"]
  /\ SenderBecomes(d, [sender[d] EXCEPT !.at = "taken"])
  /\ UNCHANGED <<isActive, posts, mishaps, shared, lost>>

\* A 2xx; no answer, a 5xx, a 408 or a 429; any other.  The model counts up to one
\* request more than the schedule of delays allows.
Deliver(d) ==
  /\ sender[d].at = "taken"
  /\ posts' = IF posts > Retries + 1 THEN posts ELSE posts + 1
  /\ \E answer \in {"accepted", "unavailable", "rejected"} :
       SenderBecomes(d, [at |-> "posted", attempts |-> sender[d].attempts, answer |-> answer])
  /\ UNCHANGED <<delivery, isActive, mishaps, shared, lost>>

Attempts(d) == sender[d].attempts + 1

\* A fault: a delivery that is closed is given another date.
Settle_Requeues(d) ==
  /\ sender[d].at = "posted"
  /\ \/ sender[d].answer \in {"accepted", "rejected"}
     \/ Attempts(d) > Retries
  /\ delivery' = [attempts |-> Attempts(d),
                  next |-> IF sender[d].answer = "accepted" THEN "none" ELSE "later",
                  outcome |-> IF sender[d].answer = "accepted" THEN "delivered" ELSE "abandoned"]
  /\ SenderBecomes(d, NoSender)
  /\ UNCHANGED <<isActive, posts, mishaps, shared, lost>>

\* Closing writes the outcome and leaves the queue, whatever the row has become.
Settle(d) ==
  /\ sender[d].at = "posted"
  /\ \/ sender[d].answer \in {"accepted", "rejected"}
     \/ Attempts(d) > Retries
  /\ delivery' = [attempts |-> Attempts(d), next |-> "none",
                  outcome |-> IF sender[d].answer = "accepted" THEN "delivered" ELSE "abandoned"]
  /\ SenderBecomes(d, NoSender)
  /\ UNCHANGED <<isActive, posts, mishaps, shared, lost>>

\* A fault: no date is written, and the delivery waits for nothing.
Retry_NoDate(d) ==
  /\ sender[d].at = "posted"
  /\ sender[d].answer = "unavailable" /\ Attempts(d) <= Retries
  /\ delivery' = [delivery EXCEPT !.attempts = Attempts(d)]
  /\ SenderBecomes(d, NoSender)
  /\ UNCHANGED <<isActive, posts, mishaps, shared, lost>>

\* A fault: the attempt is not counted.
Retry_Uncounted(d) ==
  /\ sender[d].at = "posted"
  /\ sender[d].answer = "unavailable" /\ Attempts(d) <= Retries
  /\ delivery' = [delivery EXCEPT !.next = "later"]
  /\ SenderBecomes(d, NoSender)
  /\ UNCHANGED <<isActive, posts, mishaps, shared, lost>>

Retry(d) ==
  /\ sender[d].at = "posted"
  /\ sender[d].answer = "unavailable" /\ Attempts(d) <= Retries
  /\ delivery' = [delivery EXCEPT !.attempts = Attempts(d), !.next = "later"]
  /\ SenderBecomes(d, NoSender)
  /\ UNCHANGED <<isActive, posts, mishaps, shared, lost>>

\* The process stops, the secret cannot be read, the outcome cannot be written:
\* a delivery taken off the queue has no date any more.
SenderFails(d) ==
  /\ Holds(d)
  /\ mishaps < MaxMishaps
  /\ mishaps' = mishaps + 1
  /\ SenderBecomes(d, NoSender)
  /\ lost' = (lost \/ sender[d].at # "read")
  /\ UNCHANGED <<delivery, isActive, posts, shared>>

DelayPasses ==
  /\ delivery.next = "later"
  /\ delivery' = [delivery EXCEPT !.next = "due"]
  /\ UNCHANGED <<isActive, sender, posts, mishaps, shared, lost>>

SwitchWebhook ==
  /\ mishaps < MaxMishaps
  /\ mishaps' = mishaps + 1
  /\ isActive' = ~isActive
  /\ UNCHANGED <<delivery, sender, posts, shared, lost>>

-----------------------------------------------------------------------------

Dispatch(d) ==
  ClaimRead(d) \/ ClaimTake(d) \/ Deliver(d) \/ Settle(d) \/ Retry(d) \/ SenderFails(d)

WebhookNext ==
  \/ \E d \in Dispatchers : Dispatch(d)
  \/ DelayPasses
  \/ SwitchWebhook

WebhookSpec == WebhookInit /\ [][WebhookNext]_webhookVars

-----------------------------------------------------------------------------

\* The receiver gets one request per attempt the row counts, and one more at most
\* for the attempt nobody wrote; never more than the schedule of delays allows.
OnePostPerAttempt ==
  ~shared => posts <= delivery.attempts + 1 /\ posts <= Retries + 1

\* A delivery that is closed stays closed as it is, and out of the queue.
ClosedForGood ==
  [][~shared' /\ delivery.outcome # "open" => delivery' = delivery]_webhookVars

\* An open delivery is in the queue or in somebody's hands, unless those who held it
\* failed: the price the code accepts for not sending twice.
Queued ==
  delivery.outcome = "open" /\ ~lost =>
    delivery.next # "none" \/ \E d \in Dispatchers : Holds(d)

\* It is delivered or abandoned in the end, if nobody fails and the webhook stays on.
DeliveryEnds ==
  delivery.outcome = "open" ~> (delivery.outcome # "open" \/ lost \/ ~isActive)
=============================================================================
