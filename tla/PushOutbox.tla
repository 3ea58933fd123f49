---------------------------- MODULE PushOutbox ----------------------------
(***************************************************************************)
(* The notifications pushed to a phone: the handle the phone leaves in its *)
(* device's row, the outbox, and the senders of the panels, which read a   *)
(* row without claiming it, push, and write what came of it.               *)
(*                                                                         *)
(* Sources: push/push-outbox.service.ts, push/push-sender.service.ts and   *)
(* auth/app-device.repository.ts (setPush, revokeById).  The renewal of    *)
(* the phone's access is module AppDevice.                                 *)
(*                                                                         *)
(* One device is followed.  The other devices of the panel have no row     *)
(* here: what one of them does to this row, by leaving the handle it has,  *)
(* is the action TakenOver.                                                *)
(***************************************************************************)
EXTENDS Naturals

CONSTANTS
  Senders,     \* instances of the API: within one, rounds never overlap
  PushHandles, \* handles the phone may leave
  NoHandle,
  NoOne,       \* no registration in progress
  PushTries,   \* attempts at a push (three)
  MaxNotices,  \* bound: notifications queued
  MaxRegistrations  \* bound: handles left or taken back, by this device or another

ASSUME PushAssumption ==
  /\ PushTries \in Nat \ {0} /\ MaxNotices \in Nat /\ MaxRegistrations \in Nat
  /\ PushHandles # {} /\ NoHandle \notin PushHandles /\ NoOne \notin PushHandles \cup {NoHandle}

VARIABLES
  target,      \* the row of the device: withdrawn, and its handle
  register,    \* a handle whose registration was let in and is not yet written
  outbox,      \* the row of push_outbox
  pusher,      \* what each sender has read, and been answered
  expected,    \* history: the handle the row should have; NoOne once it was
               \* reported as unsubscribed, or left by another device
  pushes,      \* history: pushes of the present notification
  disturbed,   \* history: a sender stopped, or sent what another was sending
  registrations

pushVars == <<target, register, outbox, pusher, expected, pushes, disturbed, registrations>>

MaybeHandle == PushHandles \cup {NoHandle}

NoPusher == [at |-> "idle", id |-> 0, handle |-> NoHandle, tries |-> 0, issue |-> "none"]

PushTypeOK ==
  /\ target \in [revoked: BOOLEAN, handle: MaybeHandle]
  /\ register \in MaybeHandle \cup {NoOne} /\ expected \in MaybeHandle \cup {NoOne}
  /\ outbox \in [exists: BOOLEAN, id: 0..MaxNotices, tries: 0..(PushTries - 1), due: BOOLEAN]
  /\ pusher \in [Senders -> [at: {"idle", "sending", "answered", "settling"}, id: 0..MaxNotices,
                             handle: MaybeHandle, tries: 0..(PushTries - 1),
                             issue: {"none", "sent", "unknown", "again"}]]
  /\ pushes \in Nat /\ disturbed \subseteq {"stopped", "shared"}
  /\ registrations \in 0..MaxRegistrations
  /\ \A s \in Senders : pusher[s].at # "idle" => pusher[s].handle \in PushHandles

\* The phone has left a handle.
FirstHandle == CHOOSE handle \in PushHandles : TRUE

PushInit ==
  /\ target = [revoked |-> FALSE, handle |-> FirstHandle]
  /\ register = NoOne /\ expected = FirstHandle
  /\ outbox = [exists |-> FALSE, id |-> 0, tries |-> 0, due |-> FALSE]
  /\ pusher = [s \in Senders |-> NoPusher]
  /\ pushes = 0 /\ disturbed = {} /\ registrations = 0

-----------------------------------------------------------------------------
(* The device. *)

\* A request of the phone is let in, to leave a handle or to take it back.
RegisterRead(handle) ==
  /\ register = NoOne /\ ~target.revoked
  /\ registrations < MaxRegistrations
  /\ registrations' = registrations + 1
  /\ register' = handle
  /\ UNCHANGED <<target, outbox, pusher, expected, pushes, disturbed>>

\* What a sender is about to forget.
Reports(s, handle) ==
  pusher[s].at = "answered" /\ pusher[s].issue = "unknown" /\ pusher[s].handle = handle

\* A fault: the handle is written by the identifier of the device alone.
SetPush_Anyone ==
  /\ register # NoOne
  /\ target' = [target EXCEPT !.handle = register]
  /\ expected' = register
  /\ register' = NoOne
  /\ UNCHANGED <<outbox, pusher, pushes, disturbed, registrations>>

\* setPush(): only a device that is still linked keeps a handle.  The handle is taken
\* from any other device in the same transaction, and no other is followed here.
SetPush ==
  /\ register # NoOne
  /\ target' = IF target.revoked THEN target ELSE [target EXCEPT !.handle = register]
  /\ expected' = IF \E s \in Senders : Reports(s, register) THEN NoOne ELSE register
  /\ register' = NoOne
  /\ UNCHANGED <<outbox, pusher, pushes, disturbed, registrations>>

\* setPush() of another device of the panel, which leaves this very handle: a phone
\* unlinked and linked again is not told everything twice.
TakenOver(handle) ==
  /\ registrations < MaxRegistrations
  /\ registrations' = registrations + 1
  /\ target' = IF target.handle = handle THEN [target EXCEPT !.handle = NoHandle] ELSE target
  /\ expected' = IF expected = handle THEN NoOne ELSE expected
  /\ UNCHANGED <<register, outbox, pusher, pushes, disturbed>>

\* A device withdrawn, whoever asks, loses its handle in the same statement.
RevokeTarget ==
  /\ ~target.revoked
  /\ target' = [revoked |-> TRUE, handle |-> NoHandle]
  /\ UNCHANGED <<register, outbox, pusher, expected, pushes, disturbed, registrations>>

-----------------------------------------------------------------------------
(* The outbox. *)

Enqueue ==
  /\ ~target.revoked /\ target.handle # NoHandle
  /\ ~outbox.exists /\ outbox.id < MaxNotices
  /\ outbox' = [exists |-> TRUE, id |-> outbox.id + 1, tries |-> 0, due |-> TRUE]
  /\ pushes' = 0
  /\ UNCHANGED <<target, register, pusher, expected, disturbed, registrations>>

Erased == [outbox EXCEPT !.exists = FALSE, !.tries = 0, !.due = FALSE]

PusherBecomes(s, p) == pusher' = [pusher EXCEPT ![s] = p]

\* A row whose device has no handle any more is erased; another is not marked as
\* taken.
PushRead(s) ==
  /\ pusher[s].at = "idle"
  /\ outbox.exists /\ outbox.due
  /\ IF target.handle = NoHandle
     THEN outbox' = Erased /\ UNCHANGED <<pusher, disturbed>>
     ELSE /\ PusherBecomes(s, [at |-> "sending", id |-> outbox.id, handle |-> target.handle,
                               tries |-> outbox.tries, issue |-> "none"])
          /\ disturbed' = IF \E t \in Senders : pusher[t].at # "idle"
                       THEN disturbed \cup {"shared"} ELSE disturbed
          /\ UNCHANGED outbox
  /\ UNCHANGED <<target, register, expected, pushes, registrations>>

\* Expo, or the relay, answers: sent, or refused for good; unsubscribed; try again.
PushSend(s) ==
  /\ pusher[s].at = "sending"
  /\ pushes' = IF pusher[s].id = outbox.id THEN pushes + 1 ELSE pushes
  /\ \E issue \in {"sent", "unknown", "again"} :
       /\ PusherBecomes(s, [pusher[s] EXCEPT !.at = "answered", !.issue = issue])
       /\ expected' = IF issue = "unknown" /\ pusher[s].handle = expected THEN NoOne
                      ELSE expected
  /\ UNCHANGED <<target, register, outbox, disturbed, registrations>>

\* A fault: the device's handle is forgotten, whichever it is by now.
Forget_Any(s) ==
  /\ pusher[s].at = "answered"
  /\ target' = IF pusher[s].issue = "unknown" THEN [target EXCEPT !.handle = NoHandle] ELSE target
  /\ PusherBecomes(s, [pusher[s] EXCEPT !.at = "settling"])
  /\ UNCHANGED <<register, outbox, expected, pushes, disturbed, registrations>>

\* A handle reported unknown is forgotten, unless the phone has left another one.
Forget(s) ==
  /\ pusher[s].at = "answered"
  /\ target' = IF Reports(s, target.handle) THEN [target EXCEPT !.handle = NoHandle] ELSE target
  /\ PusherBecomes(s, [pusher[s] EXCEPT !.at = "settling"])
  /\ UNCHANGED <<register, outbox, expected, pushes, disturbed, registrations>>

\* A fault: one attempt too many.
Trancher_OneMore(s) ==
  /\ pusher[s].at = "settling"
  /\ LET p == pusher[s]
         over == p.issue # "again" \/ p.tries + 1 > PushTries
     IN outbox' = IF ~outbox.exists \/ outbox.id # p.id THEN outbox
                  ELSE IF over THEN Erased
                  ELSE [outbox EXCEPT !.tries = p.tries + 1, !.due = FALSE]
  /\ PusherBecomes(s, NoPusher)
  /\ UNCHANGED <<target, register, expected, pushes, disturbed, registrations>>

\* The row is erased, or put back with one more attempt; by then it may be gone.
Trancher(s) ==
  /\ pusher[s].at = "settling"
  /\ LET p == pusher[s]
         over == p.issue # "again" \/ p.tries + 1 >= PushTries
     IN outbox' = IF ~outbox.exists \/ outbox.id # p.id THEN outbox
                  ELSE IF over THEN Erased
                  ELSE [outbox EXCEPT !.tries = p.tries + 1, !.due = FALSE]
  /\ PusherBecomes(s, NoPusher)
  /\ UNCHANGED <<target, register, expected, pushes, disturbed, registrations>>

\* The delay before the next attempt passes.
PushDelay ==
  /\ outbox.exists /\ ~outbox.due
  /\ outbox' = [outbox EXCEPT !.due = TRUE]
  /\ UNCHANGED <<target, register, pusher, expected, pushes, disturbed, registrations>>

\* A row an hour old is erased by the next round, of whichever panel.
PushExpires ==
  /\ outbox.exists
  /\ outbox' = Erased
  /\ UNCHANGED <<target, register, pusher, expected, pushes, disturbed, registrations>>

\* The process stops: bound to once, and remembered.
SenderStops(s) ==
  /\ pusher[s].at # "idle" /\ "stopped" \notin disturbed
  /\ PusherBecomes(s, NoPusher)
  /\ disturbed' = disturbed \cup {"stopped"}
  /\ UNCHANGED <<target, register, outbox, expected, pushes, registrations>>

-----------------------------------------------------------------------------

Push(s) == PushRead(s) \/ PushSend(s) \/ Forget(s) \/ Trancher(s)

PushNext ==
  \/ \E handle \in MaybeHandle : RegisterRead(handle)
  \/ \E handle \in PushHandles : TakenOver(handle)
  \/ SetPush \/ RevokeTarget
  \/ Enqueue \/ PushDelay \/ PushExpires
  \/ \E s \in Senders : Push(s) \/ SenderStops(s)

PushSpec == PushInit /\ [][PushNext]_pushVars

-----------------------------------------------------------------------------

\* A device withdrawn keeps no handle, even one that was being registered.
RevokedIsSilent == target.revoked => target.handle = NoHandle

\* The last handle the phone left is the one pushes go to, until it is itself
\* reported as unsubscribed or another device leaves the same one: a report on an
\* older one does not touch it.
HandleKept ==
  ~target.revoked /\ expected # NoOne => target.handle = expected

\* A notification is pushed three times at most, unless a sender stopped between the
\* push and its outcome, or two of them sent it at once.
PushesBounded == disturbed = {} => pushes <= PushTries
=============================================================================
