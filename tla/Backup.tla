------------------------------- MODULE Backup -------------------------------
(***************************************************************************)
(* The life of one backup: its row in the panel, the order that makes the  *)
(* agent draw it from a snapshot, the daemon that makes it otherwise, the  *)
(* multipart upload to the bucket, and the requests about it that the API  *)
(* serves at the same time.                                                *)
(*                                                                         *)
(* Sources: client/backups.service.ts (create, remove),                    *)
(* remote/remote-backup.service.ts (openUpload, complete),                 *)
(* storage/s3.service.ts, snapshots/snapshots.service.ts (archiveBackup,   *)
(* requireArchiveOrder, applyReport, expireOrders, abandonArchives,        *)
(* settleArchive) and the agent's archiver (instantanes/service.go).       *)
(*                                                                         *)
(* Backups meet only in the quota of their server, so one is enough.  Each *)
(* statement on the database, and each call to the bucket or the daemon,   *)
(* is one step; the six hours after which an order expires may pass at any *)
(* moment.  The server may be moved to another node meanwhile, where every *)
(* read that asks for "a server of this node" then refuses what is left of *)
(* the work on the old one; a return to a node it has left is left out.    *)
(***************************************************************************)
EXTENDS Naturals

CONSTANTS
  Handlers,    \* requests and timers of the API that may be in progress
  MaxUploads,  \* bound: multipart uploads opened
  MaxFaults    \* bound: restarts, calls to the bucket that fail, moves, settlements skipped

ASSUME BoundsAssumption == MaxUploads \in Nat /\ MaxFaults \in Nat

VARIABLES
  row,      \* the row of backups
  order,    \* state of the row of snapshot_orders of kind archiver
  wings,    \* what the daemon makes of the backup
  agent,    \* what the agent makes of the order
  object,   \* the archive is in the bucket, or on the disk of the node
  uploads,  \* the multipart uploads, as the bucket knows them
  call,     \* what each request in progress has reached
  faults,   \* faults so far
  marks,    \* history: why the backup may not be tidy any more
  removed,  \* history: a removal has asked for the archive to go
  asked,    \* history: how often the daemon was asked for the archive
  left      \* who works on the backup on a node that the server has left

vars == <<row, order, wings, agent, object, uploads, call, faults, marks, removed, asked, left>>

Uploads == 1..MaxUploads
NoUpload == 0

Row == [state: {"none", "running", "succeeded", "failed", "gone"},
        disk: {"s3", "local"}, source: {"wings", "snapshot"}, upload: 0..MaxUploads]

\* links: has its addresses; done, broken: the archive was made and sent, or not.
Job == [at: {"idle", "asked", "links", "done", "broken"}, upload: 0..MaxUploads]

\* The agent also waits for the answer to its report of the upload, then keeps
\* the result of the order.
AgentJob == [at: {"idle", "asked", "links", "done", "broken", "posting",
                  "archived", "undeposited", "unarchived"}, upload: 0..MaxUploads]

\* by: who waits for the answer; upload: what was read of the row; parts: the
\* upload the reported parts belong to; ok: the outcome reported, or decided.
Call == [at: {"idle", "created", "creating", "opening", "opened", "reported", "read", "decided",
              "settling", "handing", "asking", "removing", "discarded"},
         by: {"panel", "wings", "agent"}, ok: BOOLEAN,
         upload: 0..MaxUploads, parts: 0..MaxUploads]

Request(at, by) == [at |-> at, by |-> by, ok |-> FALSE, upload |-> NoUpload, parts |-> NoUpload]
Idle == Request("idle", "panel")
\* A job without addresses, or that needs them no more.
Now(at) == [at |-> at, upload |-> NoUpload]
Nothing == Now("idle")

TypeOK ==
  /\ row \in Row
  /\ order \in {"none", "pending", "done", "failed"}
  /\ wings \in Job /\ agent \in AgentJob
  /\ object \in BOOLEAN
  /\ uploads \in [Uploads -> {"unused", "open", "closed"}]
  /\ call \in [Handlers -> Call]
  /\ faults \in 0..MaxFaults
  /\ marks \in SUBSET {"overlap", "restart", "halt", "store", "skipped"}
  /\ left \in SUBSET {"wings", "agent"}
  /\ removed \in BOOLEAN
  /\ asked \in Nat
  \* An upload is recorded only for the bucket, in a row that is open.
  /\ row.upload # NoUpload => row.disk = "s3" /\ row.state = "running"

Init ==
  /\ \E disk \in {"s3", "local"} :
       row = [state |-> "none", disk |-> disk, source |-> "wings", upload |-> NoUpload]
  /\ order = "none"
  /\ wings = Nothing /\ agent = Nothing
  /\ object = FALSE
  /\ uploads = [u \in Uploads |-> "unused"]
  /\ call = [h \in Handlers |-> Idle]
  /\ faults = 0 /\ marks = {} /\ removed = FALSE /\ asked = 0 /\ left = {}

-----------------------------------------------------------------------------

Becomes(h, c) == call' = [call EXCEPT ![h] = c]
Moves(h, at) == Becomes(h, [call[h] EXCEPT !.at = at])

\* A request about the backup begins; it may find another one in progress.
Enters(h, c) ==
  /\ call[h] = Idle
  /\ Becomes(h, c)
  /\ marks' = IF \E g \in Handlers : call[g] # Idle THEN marks \cup {"overlap"} ELSE marks

\* A fault: counted, and remembered.
Fault(mark) ==
  /\ faults < MaxFaults
  /\ faults' = faults + 1
  /\ marks' = marks \cup {mark}
NoFault == UNCHANGED <<faults, marks>>

\* The condition of a read on the node of the server: who reports, or, when the
\* panel settles an order, whose order it was.
Refused(by) == (IF by = "wings" THEN "wings" ELSE "agent") \in left

\* A local archive does not follow the server.
Stranded == row.disk = "local" /\ "wings" \in left

\* The row of a backup that is deleted, with what it named.
Gone == [row EXCEPT !.state = "gone", !.source = "wings", !.upload = NoUpload]

Finished(r) == r.state \in {"succeeded", "failed"}
Running == row.state = "running"

\* What the bucket makes of an abort: only an open upload is dropped.
WithoutUpload(u) ==
  [v \in Uploads |-> IF v = u /\ uploads[v] = "open" THEN "closed" ELSE uploads[v]]

\* abortUpload: an error of the bucket is logged and swallowed.
Abort(u) ==
  \/ uploads' = WithoutUpload(u) /\ NoFault
  \/ u # NoUpload /\ uploads' = uploads /\ Fault("store")

-----------------------------------------------------------------------------
(* create() *)

Create(h) ==
  /\ row.state = "none"
  /\ row' = [row EXCEPT !.state = "running"]
  /\ Enters(h, Request("created", "panel"))
  /\ UNCHANGED <<order, wings, agent, object, uploads, faults, removed, asked, left>>

\* The agent is offered, enabled, and can: the order is inserted with the source.
ArchiveBackup(h) ==
  /\ call[h].at = "created"
  /\ row.disk = "s3" /\ Running
  /\ row' = [row EXCEPT !.source = "snapshot"]
  /\ order' = "pending"
  /\ Becomes(h, Idle)
  /\ UNCHANGED <<wings, agent, object, uploads, faults, marks, removed, asked, left>>

\* wings.createBackup reaches the daemon, on the node that the server has,
\* whatever becomes of the answer.
AskWings ==
  /\ wings' = Now("asked")
  /\ asked' = asked + 1
NotAsked == UNCHANGED <<wings, asked>>

\* The daemon refuses, or its answer is lost, or neither; ok: it answered well.
CreateAsk(h) ==
  /\ call[h].at = "created"
  /\ \/ AskWings /\ \E ok \in BOOLEAN : Becomes(h, [Request("creating", "panel") EXCEPT !.ok = ok])
     \/ NotAsked /\ Moves(h, "creating")
  /\ UNCHANGED <<row, order, agent, object, uploads, faults, marks, removed, left>>

CreateAnswered(h) ==
  /\ call[h].at = "creating" /\ call[h].ok
  /\ Becomes(h, Idle)
  /\ UNCHANGED <<row, order, wings, agent, object, uploads, faults, marks, removed, asked, left>>

\* The row is withdrawn, whatever the daemon has made of it meanwhile.
CreateRefused(h) ==
  /\ call[h].at = "creating" /\ ~call[h].ok
  /\ row' = Gone
  /\ Becomes(h, Idle)
  /\ UNCHANGED <<order, wings, agent, object, uploads, faults, marks, removed, asked, left>>

-----------------------------------------------------------------------------
(* openUpload(), for the daemon or, behind requireArchiveOrder, the agent. *)

IsOrdered == order = "pending" /\ row.source = "snapshot" /\ row.state # "gone"

Openable(by) == row.disk = "s3" /\ Running /\ ~Refused(by) /\ (by = "agent" => IsOrdered)

Worker(by) == IF by = "wings" THEN wings ELSE agent

SetWorker(by, job) ==
  IF by = "wings" THEN wings' = job /\ agent' = agent
                  ELSE agent' = job /\ wings' = wings

OpenRead(h, by) ==
  /\ Worker(by).at = "asked"
  /\ Openable(by)
  /\ Enters(h, [Request("opening", by) EXCEPT !.upload = row.upload])
  /\ UNCHANGED <<row, order, wings, agent, object, uploads, faults, removed, asked, left>>

\* A 404 is final for the daemon as for the agent.
OpenRefused(by) ==
  /\ Worker(by).at = "asked"
  /\ ~Openable(by)
  /\ \/ by = "wings" /\ row.disk = "s3" /\ SetWorker(by, Now("broken"))
     \/ by = "agent" /\ SetWorker(by, Now("unarchived"))
  /\ UNCHANGED <<row, order, object, uploads, call, faults, marks, removed, asked, left>>

\* The former upload is aborted, then another is opened: bound MaxUploads.
OpenTicket(h, u) ==
  /\ call[h].at = "opening"
  /\ uploads[u] = "unused" /\ \A v \in Uploads : v < u => uploads[v] # "unused"
  /\ \/ uploads' = [WithoutUpload(call[h].upload) EXCEPT ![u] = "open"] /\ NoFault
     \/ /\ call[h].upload # NoUpload
        /\ uploads' = [uploads EXCEPT ![u] = "open"]
        /\ Fault("store")
  /\ Becomes(h, [call[h] EXCEPT !.at = "opened", !.upload = u])
  /\ UNCHANGED <<row, order, wings, agent, object, removed, asked, left>>

\* The bucket opens it and its answer is lost: no row will ever name it.
OpenUnheard(h, u) ==
  /\ call[h].at = "opening"
  /\ uploads[u] = "unused" /\ \A v \in Uploads : v < u => uploads[v] # "unused"
  /\ uploads' \in {[WithoutUpload(call[h].upload) EXCEPT ![u] = "open"],
                  [uploads EXCEPT ![u] = "open"]}
  /\ Fault("store")
  /\ \/ UNCHANGED <<wings, agent>>
     \/ /\ Worker(call[h].by).at = "asked"
        /\ SetWorker(call[h].by, Now(IF call[h].by = "wings" THEN "broken" ELSE "unarchived"))
  /\ Becomes(h, Idle)
  /\ UNCHANGED <<row, order, object, removed, asked, left>>

\* The bucket does not open it, or is no longer configured.
OpenFails(h) ==
  /\ call[h].at = "opening"
  /\ Abort(call[h].upload)
  /\ \/ UNCHANGED <<wings, agent>>
     \/ /\ Worker(call[h].by).at = "asked"
        /\ SetWorker(call[h].by, Now(IF call[h].by = "wings" THEN "broken" ELSE "unarchived"))
  /\ Becomes(h, Idle)
  /\ UNCHANGED <<row, order, object, removed, asked, left>>

\* The ticket is recorded if the row is still open, and handed out in any case;
\* nobody may be waiting for it any more.
OpenRecord(h) ==
  /\ call[h].at = "opened"
  /\ row' = IF Running THEN [row EXCEPT !.upload = call[h].upload] ELSE row
  /\ \/ UNCHANGED <<wings, agent>>
     \/ /\ Worker(call[h].by).at = "asked"
        /\ SetWorker(call[h].by, [at |-> "links", upload |-> call[h].upload])
  /\ Becomes(h, Idle)
  /\ UNCHANGED <<order, object, uploads, faults, marks, removed, asked, left>>

-----------------------------------------------------------------------------
(* complete(), for the daemon, for the agent behind requireArchiveOrder, or   *)
(* for the panel itself.                                                      *)

Reported(by, job) ==
  [Request("reported", by) EXCEPT !.ok = (job.at = "done"), !.parts = job.upload]

\* The daemon repeats its report until it is answered, or gives up.
WingsReports(h) ==
  /\ wings.at \in {"done", "broken"}
  /\ Enters(h, Reported("wings", wings))
  /\ wings' \in {wings, Nothing}
  /\ UNCHANGED <<row, order, agent, object, uploads, faults, removed, asked, left>>

AgentReports(h) ==
  /\ agent.at \in {"done", "broken"}
  /\ IsOrdered
  /\ Enters(h, Reported("agent", agent))
  /\ agent' = Now(IF agent.at = "done" THEN "posting" ELSE "undeposited")
  /\ UNCHANGED <<row, order, wings, object, uploads, faults, removed, asked, left>>

\* A fault: the order is a success because the archive was sent.
AgentUnheard_Archived ==
  /\ \/ agent.at \in {"done", "broken"} /\ ~IsOrdered
     \/ agent.at = "posting"
  /\ agent' = Now(IF agent.at = "broken" THEN "undeposited" ELSE "archived")
  /\ UNCHANGED <<row, order, wings, object, uploads, call, faults, marks, removed, asked, left>>

\* Refused with a 404, or not answered in thirty seconds: the order has failed,
\* the upload having begun.
AgentUnheard ==
  /\ \/ agent.at \in {"done", "broken"} /\ ~IsOrdered
     \/ agent.at = "posting"
  /\ agent' = Now("undeposited")
  /\ UNCHANGED <<row, order, wings, object, uploads, call, faults, marks, removed, asked, left>>

\* What the agent learns from an answer, if it still waits for one.
Answer(h, status) ==
  agent' = IF call[h].by = "agent" /\ agent.at = "posting"
           THEN Now(status) ELSE agent

Found(by) == row.state # "gone" /\ ~Refused(by)

\* A row that is gone, or of a server that is elsewhere, is a 404, on which the
\* daemon erases the archive it keeps, and a settlement of the panel stops there;
\* a row already closed is left alone.
CompleteRead(h) ==
  /\ call[h].at = "reported"
  /\ IF Running /\ Found(call[h].by)
     THEN /\ Becomes(h, [call[h] EXCEPT !.at = "read", !.upload = row.upload])
          /\ UNCHANGED <<agent, object>>
     ELSE /\ Becomes(h, Idle)
          /\ Answer(h, IF Found(call[h].by) THEN "archived" ELSE "undeposited")
          /\ object' = (object /\ (Found(call[h].by) \/ call[h].by # "wings" \/ row.disk # "local"))
  /\ UNCHANGED <<row, order, wings, uploads, faults, marks, removed, asked, left>>

Decides(h, ok) == Becomes(h, [Request("decided", call[h].by) EXCEPT !.ok = ok])

\* completeUpload: the parts must be those of the upload the row names.
Join(h) ==
  /\ call[h].at = "read" /\ call[h].ok /\ call[h].upload # NoUpload
  /\ uploads[call[h].upload] = "open" /\ call[h].parts = call[h].upload
  /\ uploads' = [uploads EXCEPT ![call[h].upload] = "closed"]
  /\ object' = TRUE
  /\ \/ Decides(h, TRUE) /\ NoFault
     \/ Decides(h, FALSE) /\ Fault("store")
  /\ UNCHANGED <<row, order, wings, agent, removed, asked, left>>

\* Other parts, or an upload that is no longer open.
JoinFails(h) ==
  /\ call[h].at = "read" /\ call[h].ok /\ call[h].upload # NoUpload
  /\ uploads[call[h].upload] # "open" \/ call[h].parts # call[h].upload
  /\ Abort(call[h].upload)
  /\ Decides(h, FALSE)
  /\ UNCHANGED <<row, order, wings, agent, object, removed, asked, left>>

\* A fault: the parts of a failed upload are left in the bucket.
Decide_NoAbort(h) ==
  /\ call[h].at = "read" /\ (~call[h].ok \/ call[h].upload = NoUpload)
  /\ Decides(h, call[h].ok)
  /\ UNCHANGED <<row, order, wings, agent, object, uploads, faults, marks, removed, asked, left>>

\* A failure throws the parts away; without an upload the report stands as it is.
Decide(h) ==
  /\ call[h].at = "read" /\ (~call[h].ok \/ call[h].upload = NoUpload)
  /\ Abort(call[h].upload)
  /\ Decides(h, call[h].ok)
  /\ UNCHANGED <<row, order, wings, agent, object, removed, asked, left>>

Outcome(h) == IF call[h].ok THEN "succeeded" ELSE "failed"

\* A fault: the row is written by its identifier alone.
CompleteWrite_Anyway(h) ==
  /\ call[h].at = "decided"
  /\ row' = IF row.state = "gone" THEN row
            ELSE [row EXCEPT !.state = Outcome(h), !.upload = NoUpload]
  /\ Answer(h, "archived")
  /\ Becomes(h, Idle)
  /\ UNCHANGED <<order, wings, object, uploads, faults, marks, removed, asked, left>>

\* A fault: a row that is closed still names its upload.
CompleteWrite_KeepsUpload(h) ==
  /\ call[h].at = "decided"
  /\ row' = IF Running THEN [row EXCEPT !.state = Outcome(h)] ELSE row
  /\ Answer(h, "archived")
  /\ Becomes(h, Idle)
  /\ UNCHANGED <<order, wings, object, uploads, faults, marks, removed, asked, left>>

\* Only a row still open is written: the first to write decides.
CompleteWrite(h) ==
  /\ call[h].at = "decided"
  /\ row' = IF Running THEN [row EXCEPT !.state = Outcome(h), !.upload = NoUpload] ELSE row
  /\ Answer(h, "archived")
  /\ Becomes(h, Idle)
  /\ UNCHANGED <<order, wings, object, uploads, faults, marks, removed, asked, left>>

-----------------------------------------------------------------------------
(* The order: the agent, its report, the expiry, and what becomes of a backup *)
(* whose order failed.                                                        *)

AgentFetches ==
  /\ order = "pending" /\ agent.at = "idle"
  /\ agent' \in {Now("asked"), Now("unarchived")}
  /\ UNCHANGED <<row, order, wings, object, uploads, call, faults, marks, removed, asked, left>>

\* What is settled keeps in ok whether the agent had begun to send.
Settling(begun) == [Request("settling", "panel") EXCEPT !.ok = begun]

AgentResult(h) ==
  /\ order = "pending"
  /\ \/ /\ agent.at = "archived"
        /\ order' = "done"
        /\ UNCHANGED <<call, marks>>
     \/ /\ agent.at \in {"undeposited", "unarchived"}
        /\ order' = "failed"
        /\ Enters(h, Settling(agent.at = "undeposited"))
  /\ UNCHANGED <<row, wings, agent, object, uploads, faults, removed, asked, left>>

\* A fault: an order another timer has closed is closed again.
ExpireOrder_Again(h) ==
  /\ order \in {"pending", "failed"}
  /\ order' = "failed"
  /\ Enters(h, Settling(FALSE))
  /\ UNCHANGED <<row, wings, agent, object, uploads, faults, removed, asked, left>>

\* Six hours without a report, or the feature switched off on the node.
ExpireOrder(h) ==
  /\ order = "pending"
  /\ order' = "failed"
  /\ Enters(h, Settling(FALSE))
  /\ UNCHANGED <<row, wings, agent, object, uploads, faults, removed, asked, left>>

\* A fault: a backup the agent had begun to send is left to the agent.
SettleRead_LeavesBegun(h) ==
  /\ call[h].at = "settling"
  /\ Becomes(h, IF ~Running \/ call[h].ok \/ row.upload # NoUpload THEN Idle
                ELSE Request("handing", "panel"))
  /\ UNCHANGED <<row, order, wings, agent, object, uploads, faults, marks, removed, asked, left>>

SettleRead(h) ==
  /\ call[h].at = "settling"
  /\ Becomes(h, IF ~Running THEN Idle
                ELSE IF call[h].ok \/ row.upload # NoUpload THEN Request("reported", "panel")
                ELSE Request("handing", "panel"))
  /\ UNCHANGED <<row, order, wings, agent, object, uploads, faults, marks, removed, asked, left>>

\* The settlement of another order, earlier in the loop, met the 404 of a server
\* that was moved: this one is never made.
SettleDropped(h) ==
  /\ call[h].at = "settling"
  /\ Fault("skipped")
  /\ Becomes(h, Idle)
  /\ UNCHANGED <<row, order, wings, agent, object, uploads, removed, asked, left>>

HandOver(h) ==
  /\ call[h].at = "handing"
  /\ row' = [row EXCEPT !.source = "wings"]
  /\ Moves(h, "asking")
  /\ UNCHANGED <<order, wings, agent, object, uploads, faults, marks, removed, asked, left>>

\* A refusal, or an answer that is lost, closes the backup as failed.
SettleAsked(h) ==
  /\ call[h].at = "asking"
  /\ \/ /\ AskWings /\ left' = left \ {"wings"}
        /\ \E c \in {Idle, Request("reported", "panel")} : Becomes(h, c)
     \/ NotAsked /\ left' = left /\ Becomes(h, Request("reported", "panel"))
  /\ UNCHANGED <<row, order, agent, object, uploads, faults, marks, removed>>

-----------------------------------------------------------------------------
(* The daemon, the agent and their uploads. *)

\* A local archive needs no address.
WingsArchives ==
  /\ \/ wings.at = "asked" /\ row.disk = "local"
     \/ wings.at = "links"
  /\ object' = (object \/ row.disk = "local")
  /\ wings' = [wings EXCEPT !.at = "done"]
  /\ UNCHANGED <<row, order, agent, uploads, call, faults, marks, removed, asked, left>>

WingsBreaks ==
  /\ wings.at \in {"asked", "links"}
  /\ wings' = Now("broken")
  /\ UNCHANGED <<row, order, agent, object, uploads, call, faults, marks, removed, asked, left>>

AgentDeposits ==
  /\ agent.at = "links"
  /\ agent' \in {[agent EXCEPT !.at = "done"], Now("broken")}
  /\ UNCHANGED <<row, order, wings, object, uploads, call, faults, marks, removed, asked, left>>

-----------------------------------------------------------------------------
(* remove() *)

\* The row is read: it is not locked, nothing is being restored.
RemoveRead(h) ==
  /\ Running \/ Finished(row)
  /\ Enters(h, [Request("removing", "panel") EXCEPT !.upload = row.upload])
  /\ UNCHANGED <<row, order, wings, agent, object, uploads, faults, removed, asked, left>>

\* The upload that was read is aborted and the archive deleted; in the bucket,
\* an error is swallowed, and a node that never had the archive counts as done.
Discard(h) ==
  /\ call[h].at = "removing"
  /\ \/ /\ uploads' = WithoutUpload(call[h].upload) /\ object' = (object /\ Stranded)
        /\ NoFault
     \/ /\ row.disk = "s3"
        /\ uploads' \in {uploads, WithoutUpload(call[h].upload)} /\ object' \in {object, FALSE}
        /\ Fault("store")
  /\ removed' = TRUE
  /\ Becomes(h, Request("discarded", "panel"))
  /\ UNCHANGED <<row, order, wings, agent, asked, left>>

\* The daemon that keeps a local archive does not answer: nothing is removed.
DiscardRefused(h) ==
  /\ call[h].at = "removing" /\ row.disk = "local"
  /\ Becomes(h, Idle)
  /\ UNCHANGED <<row, order, wings, agent, object, uploads, faults, marks, removed, asked, left>>

\* The order goes with the row (foreign key, cascade).
Delete(h) ==
  /\ call[h].at = "discarded"
  /\ row' = Gone
  /\ order' = "none"
  /\ Becomes(h, Idle)
  /\ UNCHANGED <<wings, agent, object, uploads, faults, marks, removed, asked, left>>

-----------------------------------------------------------------------------
(* The server is moved, and restarts. *)

\* The switch of a transfer reads no backup.  As long as create() has asked nobody,
\* a move changes nothing: whoever is asked works where the server then is.
ServerMoves ==
  /\ row.state # "none" /\ \A h \in Handlers : call[h].at # "created"
  /\ left # {"wings", "agent"} /\ faults < MaxFaults
  /\ left' = {"wings", "agent"}
  /\ faults' = faults + 1
  /\ UNCHANGED <<row, order, wings, agent, object, uploads, call, marks, removed, asked>>

Crash ==
  /\ \E h \in Handlers : call[h] # Idle
  /\ Fault("restart")
  /\ call' = [h \in Handlers |-> Idle]
  /\ UNCHANGED <<row, order, wings, agent, object, uploads, removed, asked, left>>

\* The agent takes up again an order it had begun; a result already in its
\* journal is kept.
AgentHalts ==
  /\ agent.at \in {"asked", "links", "done", "broken", "posting"}
  /\ Fault("halt")
  /\ agent' = Nothing
  /\ UNCHANGED <<row, order, wings, object, uploads, call, removed, asked, left>>

\* The daemon forgets the backup, or begins it again.
WingsHalts ==
  /\ wings.at # "idle"
  /\ Fault("halt")
  /\ wings' \in {Nothing, Now("asked")}
  /\ UNCHANGED <<row, order, agent, object, uploads, call, removed, asked, left>>

-----------------------------------------------------------------------------

\* What a request does once it has begun.
Proceed(h) ==
  \/ ArchiveBackup(h) \/ CreateAsk(h) \/ CreateAnswered(h) \/ CreateRefused(h)
  \/ (\E u \in Uploads : OpenTicket(h, u) \/ OpenUnheard(h, u))
  \/ OpenFails(h) \/ OpenRecord(h)
  \/ CompleteRead(h) \/ Join(h) \/ JoinFails(h) \/ Decide(h) \/ CompleteWrite(h)
  \/ SettleRead(h) \/ SettleDropped(h) \/ HandOver(h) \/ SettleAsked(h)
  \/ Discard(h) \/ DiscardRefused(h) \/ Delete(h)

Begin(h) ==
  \/ Create(h) \/ RemoveRead(h)
  \/ \E by \in {"wings", "agent"} : OpenRead(h, by)
  \/ WingsReports(h) \/ AgentReports(h) \/ AgentResult(h) \/ ExpireOrder(h)

Outside ==
  \/ \E by \in {"wings", "agent"} : OpenRefused(by)
  \/ AgentFetches \/ AgentDeposits \/ AgentUnheard
  \/ WingsArchives \/ WingsBreaks
  \/ ServerMoves \/ Crash \/ AgentHalts \/ WingsHalts

Next ==
  \/ \E h \in Handlers : Proceed(h)
  \/ \E h \in Handlers : Begin(h)
  \/ Outside

\* A request goes on by itself, and the sweep of expired orders always comes back
\* on its timer, however busy the API is.  Nothing is asked of the agent nor of
\* the daemon.
Fairness ==
  /\ \A h \in Handlers : WF_vars(Proceed(h))
  /\ SF_vars(\E h \in Handlers : ExpireOrder(h))

Spec == Init /\ [][Next]_vars /\ Fairness

-----------------------------------------------------------------------------

\* What the panel says of the backup: nothing is promised before create() is answered,
\* nor once a removal has begun, nor of a local archive whose server was moved.
Word ==
  IF \E h \in Handlers : call[h].at \in {"created", "creating"} THEN "asked"
  ELSE IF row.state \in {"running", "succeeded", "failed"} /\ (removed \/ Stranded) THEN "leaving"
  ELSE row.state

\* The panel's word: the promise of module BackupPromise, kept whatever reports,
\* removals, expiries and restarts race for the row.
Promise == INSTANCE BackupPromise WITH record <- Word, archive <- object
PromiseKept == Promise!Spec

Quiet == \A h \in Handlers : call[h] = Idle

\* Nothing is left behind and paid for: an upload still open is the one a running
\* row names, an archive belongs to a success, to a daemon about to report it, or
\* to the disk of a node that the server has left.  It holds as long as no two
\* requests about the backup overlapped, none was cut short or skipped, and the
\* bucket answered each of them.
NothingLeft ==
  Quiet /\ marks = {} =>
    /\ \A u \in Uploads : uploads[u] = "open" => Running /\ row.upload = u
    /\ object => row.state = "succeeded" \/ (row.disk = "local" /\ wings.at = "done") \/ Stranded

\* The daemon is asked for an archive once: by create() when the agent has no
\* order, by the one that closes the order as failed otherwise.
AskedOnce == asked <= 1

\* The agent closes the backup before its order: an order that is done never
\* leaves a backup in progress.
DoneIsClosed == order = "done" => ~Running

\* A backup entrusted to the agent is closed, handed to the daemon or removed,
\* even if the agent is silent, unless the panel stops between the closing of
\* the order and its settlement, the settlement is skipped, or the server has
\* left the node of the order.
HandedOver ==
  (order = "pending" /\ Running) ~>
    (~Running \/ row.source = "wings" \/ {"restart", "skipped"} \cap marks # {}
       \/ "agent" \in left)
=============================================================================
