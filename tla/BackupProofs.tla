----------------------------- MODULE BackupProofs -----------------------------
(***************************************************************************)
(* The life of a backup keeps the promise made to the client, for any      *)
(* number of requests, uploads and faults: the refinement of BackupPromise *)
(* by Backup, and the invariant it needs.  Then who may ask the daemon for *)
(* the archive, and what is left in the bucket and on the nodes.           *)
(***************************************************************************)
EXTENDS Backup, TLAPS

Marks == SUBSET {"overlap", "restart", "halt", "store", "skipped"}
Bucket == [Uploads -> {"unused", "open", "closed"}]

\* The types of what the promise does not look at.
RestTyped ==
  /\ order \in {"none", "pending", "done", "failed"}
  /\ uploads \in Bucket /\ faults \in 0..MaxFaults /\ marks \in Marks /\ asked \in Nat
  /\ left \in SUBSET {"wings", "agent"}

Typed ==
  /\ row \in Row /\ wings \in Job /\ agent \in AgentJob /\ object \in BOOLEAN
  /\ call \in [Handlers -> Call] /\ removed \in BOOLEAN

UploadOf(r) == r.upload # NoUpload => r.disk = "s3" /\ r.state = "running"

\* Nothing is promised any more: a removal has begun, or the server left the archive.
Freed == removed \/ Stranded

\* What a request in progress knows, of a row r, of an end of the promise and of an
\* archive: an outcome it may write as a success is backed by an upload to join, or by
\* the archive.  Only an archive of the bucket is ordered, and settled.
CallSound(c, r, out, there) ==
  /\ c.at \in {"settling", "handing", "asking"} => r.disk = "s3"
  /\ c.at \in {"opening", "opened"} => r.disk = "s3"
  /\ c.at = "opened" => c.upload # NoUpload
  /\ c.at = "reported" /\ c.ok /\ r.state = "running" =>
       IF r.disk = "s3" THEN r.upload # NoUpload ELSE out \/ there
  /\ c.at = "read" /\ c.ok /\ c.upload = NoUpload /\ r.state = "running" =>
       r.disk # "s3" /\ (out \/ there)
  /\ c.at = "decided" /\ c.ok /\ r.state = "running" => out \/ there
  /\ c.at = "discarded" => out

\* What those who make the archive know, in the same way.
WingsSound(w, r, out, there) ==
  /\ w.at = "links" => r.disk = "s3"
  /\ w.at \in {"links", "done"} /\ r.state = "running" =>
       IF r.disk = "s3" THEN r.upload # NoUpload ELSE out \/ there

AgentSound(a, o, r) ==
  /\ a.at # "idle" \/ o = "pending" => r.disk = "s3"
  /\ a.at \in {"links", "done"} /\ r.state = "running" => r.upload # NoUpload

\* A backup nobody asked for has nothing in progress.
Fresh ==
  row.state = "none" =>
    /\ \A h \in Handlers : call[h] = Idle
    /\ wings = Nothing /\ agent = Nothing /\ order = "none" /\ ~removed /\ left = {}

Backed == row.state = "succeeded" => Freed \/ object

IInv ==
  /\ Typed /\ RestTyped /\ UploadOf(row) /\ Fresh /\ Backed
  /\ \A h \in Handlers : CallSound(call[h], row, Freed, object)
  /\ WingsSound(wings, row, Freed, object) /\ AgentSound(agent, order, row)

Asking == \E h \in Handlers : call[h].at \in {"created", "creating"}

\* A step the promise allows.
Allowed == Promise!Next \/ UNCHANGED <<Word, object>>

-----------------------------------------------------------------------------
(* Requests, jobs and the bucket. *)

LEMMA NoUploadTyped == NoUpload \in 0..MaxUploads
  BY BoundsAssumption DEF NoUpload

LEMMA GoneRow ==
  ASSUME row \in Row
  PROVE  Gone \in Row /\ Gone.state = "gone" /\ Gone.disk = row.disk /\ Gone.upload = NoUpload
  BY NoUploadTyped DEF Gone, Row

LEMMA Requests ==
  ASSUME NEW at \in {"idle", "created", "creating", "opening", "opened", "reported", "read",
                     "decided", "settling", "handing", "asking", "removing", "discarded"},
         NEW by \in {"panel", "wings", "agent"}
  PROVE  /\ Request(at, by) \in Call /\ Request(at, by).at = at /\ Request(at, by).ok = FALSE
         /\ Request(at, by).upload = NoUpload
  BY NoUploadTyped DEF Request, Call

\* A request that has read an upload, or that carries an outcome.
LEMMA Opening ==
  ASSUME NEW at \in {"opening", "removing"}, NEW by \in {"panel", "wings", "agent"},
         NEW u \in 0..MaxUploads
  PROVE  /\ [Request(at, by) EXCEPT !.upload = u] \in Call
         /\ [Request(at, by) EXCEPT !.upload = u].at = at
<1>1. Request(at, by) \in Call /\ Request(at, by).at = at
  BY NoUploadTyped DEF Request, Call
<1> QED
  BY <1>1 DEF Call

LEMMA Deciding ==
  ASSUME NEW at \in {"decided", "settling"}, NEW by \in {"panel", "wings", "agent"},
         NEW ok \in BOOLEAN
  PROVE  /\ [Request(at, by) EXCEPT !.ok = ok] \in Call
         /\ [Request(at, by) EXCEPT !.ok = ok].at = at
         /\ [Request(at, by) EXCEPT !.ok = ok].ok = ok
<1>1. Request(at, by) \in Call /\ Request(at, by).at = at
  BY NoUploadTyped DEF Request, Call
<1> QED
  BY <1>1 DEF Call

LEMMA Reporting ==
  ASSUME NEW by \in {"panel", "wings", "agent"}, NEW job, job.upload \in 0..MaxUploads
  PROVE  /\ Reported(by, job) \in Call /\ Reported(by, job).at = "reported"
         /\ Reported(by, job).ok = (job.at = "done")
<1>1. Request("reported", by) \in Call /\ Request("reported", by).at = "reported"
  BY NoUploadTyped DEF Request, Call
<1> DEFINE ok == job.at = "done"
           c == [Request("reported", by) EXCEPT !.ok = ok, !.parts = job.upload]
<1>2. ok \in BOOLEAN
  OBVIOUS
<1>3. Reported(by, job) = c
  BY DEF Reported
<1> HIDE DEF ok
<1>4. c \in Call /\ c.at = "reported" /\ c.ok = ok
  BY <1>1, <1>2 DEF Call
<1> QED
  BY <1>3, <1>4 DEF ok

LEMMA Jobs ==
  /\ \A at \in {"idle", "asked", "broken"} : Now(at) \in Job /\ Now(at).at = at
  /\ \A at \in {"idle", "asked", "broken", "posting", "archived", "undeposited", "unarchived"} :
       Now(at) \in AgentJob /\ Now(at).at = at
  /\ Nothing = Now("idle")
  BY NoUploadTyped DEF Now, Job, AgentJob, Nothing

\* A request of the panel that carries no success.
LEMMA Plain ==
  ASSUME NEW at \in {"idle", "reported", "handing"}
  PROVE  /\ Request(at, "panel") \in Call /\ Request(at, "panel").at = at
         /\ Request(at, "panel").ok = FALSE /\ Idle = Request("idle", "panel")
  BY NoUploadTyped DEF Request, Call, Idle

LEMMA IdleCall == Idle \in Call /\ Idle.at = "idle"
  BY Requests DEF Idle

\* A request that writes no success knows nothing that could become wrong.
LEMMA Harmless ==
  ASSUME NEW c, NEW r, NEW out, NEW there,
         \/ c.at \in {"idle", "created", "creating", "removing"}
         \/ c.at \in {"settling", "handing", "asking"} /\ r.disk = "s3"
         \/ c.at \in {"reported", "read", "decided"} /\ c.ok = FALSE
  PROVE  CallSound(c, r, out, there)
  BY DEF CallSound

LEMMA Entered ==
  ASSUME NEW h \in Handlers, NEW c, Enters(h, c), marks \in Marks
  PROVE  call[h] = Idle /\ Becomes(h, c) /\ marks' \in Marks
  BY DEF Enters, Marks

LEMMA Faulted ==
  ASSUME NEW mark \in {"restart", "halt", "store", "skipped"}, Fault(mark), marks \in Marks, faults \in 0..MaxFaults
  PROVE  marks' \in Marks /\ faults' \in 0..MaxFaults
  BY BoundsAssumption DEF Fault, Marks

LEMMA BucketStep ==
  ASSUME NEW u, uploads \in Bucket
  PROVE  WithoutUpload(u) \in Bucket
  BY DEF WithoutUpload, Bucket

LEMMA Aborted ==
  ASSUME NEW u, Abort(u), uploads \in Bucket, marks \in Marks, faults \in 0..MaxFaults
  PROVE  uploads' \in Bucket /\ marks' \in Marks /\ faults' \in 0..MaxFaults
  BY BucketStep, Faulted DEF Abort, NoFault

-----------------------------------------------------------------------------
(* What steps have in common. *)

\* What happens around a request never takes its ground away: a row does not run again,
\* a running one keeps its upload and its archive, or has nothing promised any more.
Onward ==
  /\ row' \in Row /\ removed' \in BOOLEAN /\ object' \in BOOLEAN
  /\ row'.disk = row.disk /\ row.state # "none" /\ row'.state # "none"
  /\ row'.state = "running" =>
       /\ row.state = "running" /\ (row.upload # NoUpload => row'.upload # NoUpload)
       /\ object => object' \/ Freed'
  /\ Freed => Freed'

LEMMA CallStays ==
  ASSUME Onward, NEW c, CallSound(c, row, Freed, object)
  PROVE  CallSound(c, row', Freed', object')
  BY DEF Onward, CallSound

LEMMA CallGoes ==
  ASSUME IInv, Onward, NEW h \in Handlers, NEW c \in Call, Becomes(h, c),
         CallSound(c, row', Freed', object')
  PROVE  /\ call' \in [Handlers -> Call] /\ call'[h] = c
         /\ \A g \in Handlers : g # h => call'[g] = call[g]
         /\ \A g \in Handlers : CallSound(call'[g], row', Freed', object')
<1>1. /\ call' \in [Handlers -> Call] /\ call'[h] = c
      /\ \A g \in Handlers : g # h => call'[g] = call[g]
  BY DEF IInv, Typed, Becomes
<1>2. ASSUME NEW g \in Handlers PROVE CallSound(call'[g], row', Freed', object')
  BY <1>1, CallStays DEF IInv
<1> QED
  BY <1>1, <1>2

LEMMA WorkersStay ==
  ASSUME IInv, Onward,
         wings' = wings \/ wings'.at \in {"idle", "asked", "broken"},
         \/ agent' = agent
         \/ /\ agent'.at \notin {"links", "done"}
            /\ agent'.at # "idle" => row.disk = "s3",
         order' = "pending" => row.disk = "s3"
  PROVE  WingsSound(wings', row', Freed', object') /\ AgentSound(agent', order', row')
  BY DEF IInv, Onward, WingsSound, AgentSound

\* A step that leaves the row, the archive and the removals alone.
LEMMA Bookkeeping ==
  ASSUME IInv, row.state # "none", UNCHANGED <<row, object, removed>>,
         left' = left \/ row.disk = "s3",
         call' \in [Handlers -> Call],
         \A g \in Handlers : CallSound(call'[g], row, Freed, object),
         Asking' <=> Asking, RestTyped', wings' \in Job, agent' \in AgentJob,
         WingsSound(wings', row, Freed, object), AgentSound(agent', order', row)
  PROVE  IInv' /\ Allowed
<1>1. Stranded' = Stranded /\ Freed' = Freed
  BY DEF Freed, Stranded
<1>2. IInv'
  BY <1>1 DEF IInv, Typed, Fresh, Backed, UploadOf
<1>3. Allowed
  BY <1>1 DEF Allowed, Word, Asking
<1> QED
  BY <1>2, <1>3

LEMMA AskingStays ==
  ASSUME NEW h \in Handlers, \A g \in Handlers : g # h => call'[g] = call[g],
         call'[h].at \in {"created", "creating"} <=> call[h].at \in {"created", "creating"}
  PROVE  Asking' <=> Asking
  BY DEF Asking

\* A request that goes on, and perhaps what the agent or the daemon does of it.
LEMMA Goes ==
  ASSUME IInv, NEW h \in Handlers, NEW c \in Call, Becomes(h, c),
         row.state # "none", UNCHANGED <<row, object, removed>>,
         left' = left \/ row.disk = "s3",
         CallSound(c, row, Freed, object),
         c.at \in {"created", "creating"} <=> call[h].at \in {"created", "creating"},
         RestTyped', wings' \in Job, agent' \in AgentJob,
         WingsSound(wings', row, Freed, object), AgentSound(agent', order', row)
  PROVE  IInv' /\ Allowed
<1>1. Onward /\ Freed' = Freed
  BY DEF Onward, IInv, Typed, Freed, Stranded
<1>2. /\ call' \in [Handlers -> Call] /\ call'[h] = c
      /\ \A g \in Handlers : g # h => call'[g] = call[g]
      /\ \A g \in Handlers : CallSound(call'[g], row', Freed', object')
  BY <1>1, CallGoes
<1>3. Asking' <=> Asking
  BY <1>2, AskingStays
<1> QED
  BY <1>1, <1>2, <1>3, Bookkeeping

\* A backup something is in progress for is not a fresh one.
LEMMA NotFresh ==
  ASSUME IInv,
         \/ \E h \in Handlers : call[h].at # "idle"
         \/ wings.at # "idle" \/ agent.at # "idle" \/ order = "pending"
  PROVE  row.state # "none"
  BY IdleCall, Jobs DEF IInv, Fresh

\* What the invariant says of the state a request starts from.
LEMMA Before ==
  ASSUME IInv
  PROVE  /\ row \in Row /\ wings \in Job /\ agent \in AgentJob /\ object \in BOOLEAN
         /\ call \in [Handlers -> Call] /\ removed \in BOOLEAN
         /\ uploads \in Bucket /\ marks \in Marks /\ faults \in 0..MaxFaults /\ asked \in Nat
         /\ left \in SUBSET {"wings", "agent"}
         /\ order \in {"none", "pending", "done", "failed"}
         /\ WingsSound(wings, row, Freed, object) /\ AgentSound(agent, order, row)
         /\ \A h \in Handlers : CallSound(call[h], row, Freed, object)
  BY DEF IInv, Typed, RestTyped

-----------------------------------------------------------------------------
(* create() *)

LEMMA CreateKeeps ==
  ASSUME IInv, NEW h \in Handlers, Create(h)
  PROVE  IInv' /\ Allowed
<1> USE Before
<1>1. /\ row.state = "none" /\ row' = [row EXCEPT !.state = "running"]
      /\ Enters(h, Request("created", "panel"))
      /\ UNCHANGED <<order, wings, agent, object, uploads, faults, removed, asked, left>>
  BY DEF Create
<1>2. /\ \A g \in Handlers : call[g] = Idle
      /\ wings = Nothing /\ agent = Nothing /\ order = "none" /\ ~removed /\ left = {}
  BY <1>1 DEF IInv, Fresh
<1>3. /\ row' \in Row /\ row'.state = "running" /\ row'.disk = row.disk
      /\ row'.upload = row.upload
  BY <1>1 DEF Row
<1>4. Request("created", "panel") \in Call /\ Request("created", "panel").at = "created"
  BY Requests
<1>5. Becomes(h, Request("created", "panel")) /\ marks' \in Marks
  BY <1>1, Entered
<1>6. /\ call' \in [Handlers -> Call] /\ call'[h].at = "created"
      /\ \A g \in Handlers : g # h => call'[g] = Idle
  BY <1>2, <1>4, <1>5 DEF Becomes
<1>7. \A g \in Handlers : CallSound(call'[g], row', Freed', object')
  BY <1>6, IdleCall, Harmless
<1>8. row.upload = NoUpload
  BY <1>1 DEF IInv, UploadOf
<1>9. WingsSound(wings', row', Freed', object') /\ AgentSound(agent', order', row')
  BY <1>1, <1>2, Jobs DEF WingsSound, AgentSound
<1>10. IInv'
  BY <1>1, <1>3, <1>5, <1>6, <1>7, <1>8, <1>9
     DEF IInv, Typed, RestTyped, UploadOf, Fresh, Backed, Freed, Stranded
<1>11. Word = "none" /\ Word' = "asked"
  BY <1>1, <1>2, <1>6, IdleCall DEF Word, Stranded
<1>12. Promise!Ask
  BY <1>1, <1>11 DEF Promise!Ask
<1> QED
  BY <1>10, <1>12 DEF Allowed, Promise!Next

\* create() is answered, well or not, or leaves the backup to the agent.
LEMMA AnswerKeeps ==
  ASSUME IInv, NEW h \in Handlers, ArchiveBackup(h) \/ CreateAnswered(h) \/ CreateRefused(h)
  PROVE  IInv' /\ Allowed
<1> USE Before
<1>1. call[h].at \in {"created", "creating"} /\ Becomes(h, Idle)
  BY DEF ArchiveBackup, CreateAnswered, CreateRefused
<1>2. UNCHANGED <<wings, agent, object, uploads, faults, marks, removed, asked, left>>
  BY DEF ArchiveBackup, CreateAnswered, CreateRefused
<1>3. row.state # "none"
  BY <1>1, NotFresh
<1>4. /\ row' \in Row /\ row'.disk = row.disk
      /\ \/ row'.state = row.state /\ row'.upload = row.upload
         \/ row'.state = "gone" /\ row'.upload = NoUpload
      /\ order' = order \/ (order' = "pending" /\ row.disk = "s3")
  BY GoneRow DEF ArchiveBackup, CreateAnswered, CreateRefused, Row
<1>5. Onward
  BY <1>2, <1>3, <1>4 DEF Onward, Freed, Stranded
<1>6. /\ call' \in [Handlers -> Call]
      /\ \A g \in Handlers : CallSound(call'[g], row', Freed', object')
  BY <1>1, <1>5, IdleCall, Harmless, CallGoes
<1>7. WingsSound(wings', row', Freed', object') /\ AgentSound(agent', order', row')
  <2>1. order' = "pending" => row.disk = "s3"
    BY <1>4 DEF AgentSound
  <2> QED
    BY <1>2, <1>5, <2>1, WorkersStay
<1>8. IInv'
  BY <1>2, <1>3, <1>4, <1>6, <1>7 DEF IInv, Typed, RestTyped, UploadOf, Fresh, Backed, Freed, Stranded
<1>9. Word = "asked"
  BY <1>1 DEF Word
<1>10. Word' = "asked" \/ Word' \in {"running", "failed", "leaving", "gone"}
       \/ (Word' = "succeeded" /\ object)
  <2>1. row'.state \in {"running", "succeeded", "failed", "gone"}
    BY <1>3, <1>4 DEF Row
  <2>2. row'.state = "succeeded" => Freed' \/ object
    BY <1>2, <1>8 DEF IInv, Backed
  <2> QED
    BY <2>1, <2>2 DEF Word, Freed
<1>11. CASE Word' = "asked"
  BY <1>2, <1>8, <1>9, <1>11 DEF Allowed
<1>12. CASE Word' # "asked"
  <2>1. Promise!Answer
    BY <1>2, <1>9, <1>10, <1>12 DEF Promise!Answer
  <2> QED
    BY <1>8, <2>1 DEF Allowed, Promise!Next
<1> QED
  BY <1>11, <1>12

LEMMA CreateAskKeeps ==
  ASSUME IInv, NEW h \in Handlers, CreateAsk(h)
  PROVE  IInv' /\ Allowed
<1> USE Before
<1>1. /\ call[h].at = "created" /\ (AskWings \/ NotAsked)
      /\ UNCHANGED <<row, order, agent, object, uploads, faults, marks, removed, left>>
  BY DEF CreateAsk
<1>2. PICK c \in Call : Becomes(h, c) /\ c.at = "creating"
  <2>1. CASE \E ok \in BOOLEAN : Becomes(h, [Request("creating", "panel") EXCEPT !.ok = ok])
    <3>1. PICK ok \in BOOLEAN : Becomes(h, [Request("creating", "panel") EXCEPT !.ok = ok])
      BY <2>1
    <3>2. Request("creating", "panel") \in Call /\ Request("creating", "panel").at = "creating"
      BY Requests
    <3>3. /\ [Request("creating", "panel") EXCEPT !.ok = ok] \in Call
          /\ [Request("creating", "panel") EXCEPT !.ok = ok].at = "creating"
      BY <3>2 DEF Call
    <3> QED
      BY <3>1, <3>3
  <2>2. CASE Becomes(h, [call[h] EXCEPT !.at = "creating"])
    <3>1. /\ [call[h] EXCEPT !.at = "creating"] \in Call
          /\ [call[h] EXCEPT !.at = "creating"].at = "creating"
      BY DEF Call
    <3> QED
      BY <2>2, <3>1
  <2> QED
    BY <2>1, <2>2 DEF CreateAsk, Moves
<1>3. row.state # "none"
  BY <1>1, NotFresh
<1>4. wings' \in Job /\ (wings' = wings \/ wings'.at = "asked") /\ asked' \in Nat
  BY <1>1, Jobs DEF AskWings, NotAsked
<1>5. WingsSound(wings', row, Freed, object) /\ AgentSound(agent', order', row)
  BY <1>1, <1>4 DEF WingsSound
<1>6. CallSound(c, row, Freed, object)
  BY <1>2, Harmless
<1> QED
  BY <1>1, <1>2, <1>3, <1>4, <1>5, <1>6, Goes DEF RestTyped

-----------------------------------------------------------------------------
(* openUpload() *)

LEMMA WorkerSet ==
  ASSUME NEW by \in {"wings", "agent"}, NEW job, SetWorker(by, job)
  PROVE  \/ by = "wings" /\ wings' = job /\ UNCHANGED agent
         \/ by = "agent" /\ agent' = job /\ UNCHANGED wings
  BY DEF SetWorker

LEMMA OpenReadKeeps ==
  ASSUME IInv, NEW h \in Handlers, NEW by \in {"wings", "agent"}, OpenRead(h, by)
  PROVE  IInv' /\ Allowed
<1> USE Before
<1>1. /\ Worker(by).at = "asked" /\ Openable(by)
      /\ Enters(h, [Request("opening", by) EXCEPT !.upload = row.upload])
      /\ UNCHANGED <<row, order, wings, agent, object, uploads, faults, removed, asked, left>>
  BY DEF OpenRead
<1>2. row.upload \in 0..MaxUploads /\ row.state = "running" /\ row.disk = "s3"
  BY <1>1 DEF Row, Openable, Running
<1> DEFINE c == [Request("opening", by) EXCEPT !.upload = row.upload]
<1>3. c \in Call /\ c.at = "opening"
  BY <1>2, Opening
<1>4. call[h] = Idle /\ Becomes(h, c) /\ marks' \in Marks
  BY <1>1, Entered
<1> HIDE DEF c
<1>5. CallSound(c, row, Freed, object)
  BY <1>2, <1>3 DEF CallSound
<1> QED
  BY <1>1, <1>2, <1>3, <1>4, <1>5, IdleCall, Goes DEF RestTyped

LEMMA OpenRefusedKeeps ==
  ASSUME IInv, NEW by \in {"wings", "agent"}, OpenRefused(by)
  PROVE  IInv' /\ Allowed
<1> USE Before
<1>1. UNCHANGED <<row, order, object, uploads, call, faults, marks, removed, asked, left>>
  BY DEF OpenRefused
<1>2. \/ wings.at = "asked" /\ wings' = Now("broken") /\ agent' = agent
      \/ agent.at = "asked" /\ agent' = Now("unarchived") /\ wings' = wings
  BY WorkerSet DEF OpenRefused, Worker
<1>3. row.state # "none"
  BY <1>2, NotFresh
<1>4. /\ wings' \in Job /\ agent' \in AgentJob
      /\ WingsSound(wings', row, Freed, object) /\ AgentSound(agent', order', row)
  BY <1>1, <1>2, Jobs DEF WingsSound, AgentSound
<1>5. Asking' <=> Asking
  BY <1>1 DEF Asking
<1> QED
  BY <1>1, <1>3, <1>4, <1>5, Bookkeeping DEF RestTyped

LEMMA OpenTicketKeeps ==
  ASSUME IInv, NEW h \in Handlers, NEW u \in Uploads, OpenTicket(h, u)
  PROVE  IInv' /\ Allowed
<1> USE Before
<1> DEFINE c == [call[h] EXCEPT !.at = "opened", !.upload = u]
<1>1. /\ call[h].at = "opening" /\ Becomes(h, c)
      /\ UNCHANGED <<row, order, wings, agent, object, removed, asked, left>>
  BY DEF OpenTicket
<1>2. u \in 0..MaxUploads /\ u # NoUpload
  BY BoundsAssumption DEF Uploads, NoUpload
<1>3. c \in Call /\ c.at = "opened" /\ c.upload = u
  BY <1>2 DEF Call
<1> HIDE DEF c
<1>4. row.disk = "s3"
  BY <1>1 DEF CallSound
<1>5. CallSound(c, row, Freed, object)
  BY <1>2, <1>3, <1>4 DEF CallSound
<1>6. uploads' \in Bucket /\ marks' \in Marks /\ faults' \in 0..MaxFaults
  <2>1. WithoutUpload(call[h].upload) \in Bucket
    BY BucketStep
  <2>2. uploads' \in Bucket
    BY <2>1 DEF OpenTicket, Bucket
  <2> QED
    BY <2>2, Faulted DEF OpenTicket, NoFault
<1>7. row.state # "none"
  BY <1>1, NotFresh
<1> QED
  BY <1>1, <1>3, <1>5, <1>6, <1>7, Goes DEF RestTyped

LEMMA OpenFailsKeeps ==
  ASSUME IInv, NEW h \in Handlers, OpenFails(h) \/ \E u \in Uploads : OpenUnheard(h, u)
  PROVE  IInv' /\ Allowed
<1> USE Before
<1>1. /\ call[h].at = "opening" /\ Becomes(h, Idle)
      /\ UNCHANGED <<row, order, object, removed, asked, left>>
  BY DEF OpenFails, OpenUnheard
<1>2. uploads' \in Bucket /\ marks' \in Marks /\ faults' \in 0..MaxFaults
  <2>1. CASE OpenFails(h)
    BY <2>1, Aborted DEF OpenFails
  <2>2. ASSUME NEW u \in Uploads, OpenUnheard(h, u)
        PROVE  uploads' \in Bucket /\ marks' \in Marks /\ faults' \in 0..MaxFaults
    <3>1. WithoutUpload(call[h].upload) \in Bucket
      BY BucketStep
    <3>2. uploads' \in Bucket
      BY <2>2, <3>1 DEF OpenUnheard, Bucket
    <3> QED
      BY <2>2, <3>2, Faulted DEF OpenUnheard
  <2> QED
    BY <2>1, <2>2
<1>3. \/ UNCHANGED <<wings, agent>>
      \/ wings' = Now("broken") /\ agent' = agent
      \/ agent.at = "asked" /\ agent' = Now("unarchived") /\ wings' = wings
      \/ agent.at = "asked" /\ agent' = Now("broken") /\ wings' = wings
  BY DEF OpenFails, OpenUnheard, SetWorker, Worker
<1>4. row.state # "none"
  BY <1>1, NotFresh
<1>5. /\ wings' \in Job /\ agent' \in AgentJob
      /\ WingsSound(wings', row, Freed, object) /\ AgentSound(agent', order', row)
  BY <1>1, <1>3, Jobs DEF WingsSound, AgentSound
<1>6. CallSound(Idle, row, Freed, object)
  BY IdleCall, Harmless
<1> QED
  BY <1>1, <1>2, <1>4, <1>5, <1>6, IdleCall, Goes DEF RestTyped

LEMMA OpenRecordKeeps ==
  ASSUME IInv, NEW h \in Handlers, OpenRecord(h)
  PROVE  IInv' /\ Allowed
<1> USE Before
<1>1. /\ call[h].at = "opened" /\ Becomes(h, Idle)
      /\ row' = IF Running THEN [row EXCEPT !.upload = call[h].upload] ELSE row
      /\ UNCHANGED <<order, object, uploads, faults, marks, removed, asked, left>>
  BY DEF OpenRecord
<1>2. row.disk = "s3" /\ call[h].upload # NoUpload /\ call[h].upload \in 0..MaxUploads
  BY <1>1 DEF CallSound, Call
<1>3. /\ row' \in Row /\ row'.disk = row.disk /\ row'.state = row.state
      /\ row.state = "running" => row'.upload = call[h].upload
      /\ row.state # "running" => row' = row
  BY <1>1, <1>2 DEF Row, Running
<1>4. row.state # "none"
  BY <1>1, NotFresh
<1>5. Onward
  BY <1>1, <1>2, <1>3, <1>4 DEF Onward, Freed, Stranded
<1>6. /\ call' \in [Handlers -> Call] /\ call'[h] = Idle
      /\ \A g \in Handlers : g # h => call'[g] = call[g]
      /\ \A g \in Handlers : CallSound(call'[g], row', Freed', object')
  BY <1>1, <1>5, IdleCall, Harmless, CallGoes
<1>7. \/ UNCHANGED <<wings, agent>>
      \/ wings' = [at |-> "links", upload |-> call[h].upload] /\ agent' = agent
      \/ agent' = [at |-> "links", upload |-> call[h].upload] /\ wings' = wings
  BY DEF OpenRecord, SetWorker
<1>8. wings' \in Job /\ agent' \in AgentJob
  BY <1>2, <1>7 DEF Job, AgentJob
<1>9. WingsSound(wings', row', Freed', object')
  BY <1>1, <1>2, <1>3, <1>7 DEF WingsSound
<1>10. AgentSound(agent', order', row')
  BY <1>1, <1>2, <1>3, <1>7 DEF AgentSound
<1>11. IInv'
  BY <1>1, <1>2, <1>3, <1>4, <1>6, <1>8, <1>9, <1>10
     DEF IInv, Typed, RestTyped, UploadOf, Fresh, Backed, Freed, Stranded
<1>12. Asking' <=> Asking
  BY <1>1, <1>6, IdleCall, AskingStays
<1>13. Allowed
  BY <1>1, <1>3, <1>12 DEF Allowed, Word, Asking, Stranded
<1> QED
  BY <1>11, <1>13

-----------------------------------------------------------------------------
(* complete() *)

LEMMA ReportKeeps ==
  ASSUME IInv, NEW h \in Handlers, WingsReports(h) \/ AgentReports(h)
  PROVE  IInv' /\ Allowed
<1> USE Before
<1>1. UNCHANGED <<row, order, object, uploads, faults, removed, asked, left>>
  BY DEF WingsReports, AgentReports
<1>2. PICK c \in Call : /\ call[h] = Idle /\ Becomes(h, c) /\ marks' \in Marks
                        /\ c.at = "reported" /\ CallSound(c, row, Freed, object)
  <2>1. CASE WingsReports(h)
    <3>1. wings.upload \in 0..MaxUploads /\ wings.at \in {"done", "broken"}
      BY <2>1 DEF WingsReports, Job
    <3>2. /\ Reported("wings", wings) \in Call /\ Reported("wings", wings).at = "reported"
          /\ Reported("wings", wings).ok = (wings.at = "done")
      BY <3>1, Reporting
    <3>3. CallSound(Reported("wings", wings), row, Freed, object)
      BY <3>2 DEF CallSound, WingsSound
    <3> QED
      BY <2>1, <3>2, <3>3, Entered DEF WingsReports
  <2>2. CASE AgentReports(h)
    <3>1. agent.upload \in 0..MaxUploads /\ agent.at \in {"done", "broken"}
      BY <2>2 DEF AgentReports, AgentJob
    <3>2. /\ Reported("agent", agent) \in Call /\ Reported("agent", agent).at = "reported"
          /\ Reported("agent", agent).ok = (agent.at = "done")
      BY <3>1, Reporting
    <3>3. CallSound(Reported("agent", agent), row, Freed, object)
      BY <3>1, <3>2 DEF CallSound, AgentSound
    <3> QED
      BY <2>2, <3>2, <3>3, Entered DEF AgentReports
  <2> QED
    BY <2>1, <2>2
<1>3. /\ wings' \in {wings, Nothing}
      /\ agent' = agent \/ (agent.at # "idle" /\ agent' \in {Now("posting"), Now("undeposited")})
  BY DEF WingsReports, AgentReports
<1>4. row.state # "none"
  <2>1. wings.at # "idle" \/ agent.at # "idle"
    BY DEF WingsReports, AgentReports
  <2> QED
    BY <2>1, NotFresh
<1>5. /\ wings' \in Job /\ agent' \in AgentJob
      /\ WingsSound(wings', row, Freed, object) /\ AgentSound(agent', order', row)
  BY <1>1, <1>3, Jobs DEF WingsSound, AgentSound
<1> QED
  BY <1>1, <1>2, <1>4, <1>5, IdleCall, Goes DEF RestTyped

LEMMA AgentUnheardKeeps ==
  ASSUME IInv, AgentUnheard
  PROVE  IInv' /\ Allowed
<1> USE Before
<1>1. /\ agent.at # "idle" /\ agent' = Now("undeposited")
      /\ UNCHANGED <<row, order, wings, object, uploads, call, faults, marks, removed, asked, left>>
  BY DEF AgentUnheard
<1>2. row.state # "none"
  BY <1>1, NotFresh
<1>3. agent' \in AgentJob /\ AgentSound(agent', order', row)
  BY <1>1, Jobs DEF AgentSound
<1>4. Asking' <=> Asking
  BY <1>1 DEF Asking
<1> QED
  BY <1>1, <1>2, <1>3, <1>4, Bookkeeping DEF RestTyped

\* An archive that comes, or that goes while nothing relies on it.
LEMMA ArchiveMoves ==
  ASSUME IInv, row'.state = row.state, row'.disk = row.disk, UNCHANGED <<removed, left>>,
         Asking' <=> Asking, object' \in BOOLEAN,
         row.state = "succeeded" /\ object => Freed \/ object'
  PROVE  Allowed
<1>1. Word' = Word
  BY DEF Word, Asking, Stranded
<1>2. CASE Word = "succeeded"
  <2>1. row.state = "succeeded" /\ ~Freed
    BY <1>2 DEF Word, IInv, Typed, Freed
  <2>2. object' = object
    BY <2>1 DEF IInv, Backed, Typed
  <2> QED
    BY <1>1, <2>2 DEF Allowed
<1>3. CASE Word # "succeeded"
  BY <1>1, <1>3 DEF Allowed, Promise!Next, Promise!Archive
<1> QED
  BY <1>2, <1>3

\* A request that goes on, and moves the archive.
LEMMA GoesWithArchive ==
  ASSUME IInv, NEW h \in Handlers, NEW c \in Call, Becomes(h, c),
         row.state # "none", UNCHANGED <<row, removed, left>>, object' \in BOOLEAN,
         row.state \in {"running", "succeeded"} /\ object => Freed \/ object',
         CallSound(c, row, Freed, object'),
         c.at \in {"created", "creating"} <=> call[h].at \in {"created", "creating"},
         RestTyped', wings' = wings, agent' \in AgentJob, order' = order,
         agent' = agent \/ (agent'.at \notin {"links", "done"} /\ row.disk = "s3")
  PROVE  IInv' /\ Allowed
<1> USE Before
<1>1. Onward /\ Freed' = Freed
  BY DEF Onward, Freed, Stranded
<1>2. /\ call' \in [Handlers -> Call] /\ call'[h] = c
      /\ \A g \in Handlers : g # h => call'[g] = call[g]
      /\ \A g \in Handlers : CallSound(call'[g], row', Freed', object')
  BY <1>1, CallGoes
<1>3. Asking' <=> Asking
  BY <1>2, AskingStays
<1>4. WingsSound(wings', row', Freed', object') /\ AgentSound(agent', order', row')
  <2>1. order' = "pending" => row.disk = "s3"
    BY DEF AgentSound
  <2> QED
    BY <1>1, <2>1, WorkersStay
<1>5. IInv'
  BY <1>2, <1>4 DEF IInv, Typed, Fresh, Backed, UploadOf, Freed, Stranded
<1>6. Allowed
  BY <1>3, ArchiveMoves
<1> QED
  BY <1>5, <1>6

\* What the agent is answered.
LEMMA Answered ==
  ASSUME IInv, NEW h \in Handlers, NEW status \in {"archived", "undeposited"}, Answer(h, status)
  PROVE  /\ agent' \in AgentJob
         /\ agent' = agent \/ (agent'.at \notin {"links", "done"} /\ row.disk = "s3")
<1> USE Before
<1>1. CASE agent.at = "posting"
  <2>1. agent' \in {agent, Now(status)} /\ row.disk = "s3"
    BY <1>1 DEF Answer, AgentSound
  <2> QED
    BY <2>1, Jobs
<1>2. CASE agent.at # "posting"
  BY <1>2 DEF Answer
<1> QED
  BY <1>1, <1>2

LEMMA CompleteReadKeeps ==
  ASSUME IInv, NEW h \in Handlers, CompleteRead(h)
  PROVE  IInv' /\ Allowed
<1> USE Before
<1>1. /\ call[h].at = "reported"
      /\ UNCHANGED <<row, order, wings, uploads, faults, marks, removed, asked, left>>
  BY DEF CompleteRead
<1>2. row.state # "none"
  BY <1>1, NotFresh
<1>3. RestTyped'
  BY <1>1 DEF RestTyped
<1>4. CASE Running /\ Found(call[h].by)
  <2> DEFINE c == [call[h] EXCEPT !.at = "read", !.upload = row.upload]
  <2>1. Becomes(h, c) /\ UNCHANGED <<agent, object>>
    BY <1>4 DEF CompleteRead
  <2>2. c \in Call /\ c.at = "read" /\ c.upload = row.upload /\ c.ok = call[h].ok
    BY DEF Call, Row
  <2> HIDE DEF c
  <2>3. CallSound(c, row, Freed, object)
    BY <1>1, <1>4, <2>2 DEF CallSound, Running
  <2> QED
    BY <1>1, <1>2, <1>3, <2>1, <2>2, <2>3, GoesWithArchive
<1>5. CASE ~(Running /\ Found(call[h].by))
  <2>1. /\ Becomes(h, Idle)
        /\ Answer(h, IF Found(call[h].by) THEN "archived" ELSE "undeposited")
        /\ object' = (object /\ (Found(call[h].by) \/ call[h].by # "wings" \/ row.disk # "local"))
    BY <1>5 DEF CompleteRead
  <2>2. /\ agent' \in AgentJob
        /\ agent' = agent \/ (agent'.at \notin {"links", "done"} /\ row.disk = "s3")
    <3>1. CASE Found(call[h].by)
      BY <2>1, <3>1, Answered
    <3>2. CASE ~Found(call[h].by)
      BY <2>1, <3>2, Answered
    <3> QED
      BY <3>1, <3>2
  <2>3. CallSound(Idle, row, Freed, object')
    BY IdleCall, Harmless
  <2>4. row.state \in {"running", "succeeded"} /\ object => Freed \/ object'
    BY <1>5, <2>1 DEF Found, Refused, Freed, Stranded
  <2>5. object' \in BOOLEAN
    BY <2>1
  <2> QED
    BY <1>1, <1>2, <1>3, <2>1, <2>2, <2>3, <2>4, <2>5, IdleCall, GoesWithArchive
<1> QED
  BY <1>4, <1>5

\* What becomes of the upload decides the outcome.
LEMMA Decided ==
  ASSUME IInv, NEW h \in Handlers, NEW ok \in BOOLEAN, Decides(h, ok), call[h].at = "read",
         UNCHANGED <<row, order, wings, agent, removed, asked, left>>, object' \in BOOLEAN,
         object => object', ok /\ row.state = "running" => Freed \/ object',
         uploads' \in Bucket, marks' \in Marks, faults' \in 0..MaxFaults
  PROVE  IInv' /\ Allowed
<1> USE Before
<1> DEFINE c == [Request("decided", call[h].by) EXCEPT !.ok = ok]
<1>1. Becomes(h, c)
  BY DEF Decides
<1>2. call[h].by \in {"panel", "wings", "agent"}
  BY DEF Call
<1>3. c \in Call /\ c.at = "decided" /\ c.ok = ok
  BY <1>2, Deciding
<1> HIDE DEF c
<1>4. row.state # "none"
  BY NotFresh
<1>5. CallSound(c, row, Freed, object')
  BY <1>3 DEF CallSound
<1>6. RestTyped'
  BY DEF RestTyped
<1> QED
  BY <1>1, <1>3, <1>4, <1>5, <1>6, GoesWithArchive

LEMMA JoinKeeps ==
  ASSUME IInv, NEW h \in Handlers, Join(h)
  PROVE  IInv' /\ Allowed
<1> USE Before
<1>1. /\ call[h].at = "read" /\ object' = TRUE
      /\ uploads' = [uploads EXCEPT ![call[h].upload] = "closed"]
      /\ UNCHANGED <<row, order, wings, agent, removed, asked, left>>
  BY DEF Join
<1>2. uploads' \in Bucket
  BY <1>1 DEF Bucket
<1>3. /\ Decides(h, TRUE) \/ Decides(h, FALSE)
      /\ marks' \in Marks /\ faults' \in 0..MaxFaults
  BY Faulted DEF Join, NoFault
<1> QED
  BY <1>1, <1>2, <1>3, Decided

LEMMA JoinFailsKeeps ==
  ASSUME IInv, NEW h \in Handlers, JoinFails(h)
  PROVE  IInv' /\ Allowed
<1> USE Before
<1>1. /\ call[h].at = "read" /\ Decides(h, FALSE)
      /\ UNCHANGED <<row, order, wings, agent, object, removed, asked, left>>
  BY DEF JoinFails
<1>2. uploads' \in Bucket /\ marks' \in Marks /\ faults' \in 0..MaxFaults
  BY Aborted DEF JoinFails
<1> QED
  BY <1>1, <1>2, Decided

LEMMA DecideKeeps ==
  ASSUME IInv, NEW h \in Handlers, Decide(h)
  PROVE  IInv' /\ Allowed
<1> USE Before
<1>1. /\ call[h].at = "read" /\ (~call[h].ok \/ call[h].upload = NoUpload)
      /\ Decides(h, call[h].ok)
      /\ UNCHANGED <<row, order, wings, agent, object, removed, asked, left>>
  BY DEF Decide
<1>2. uploads' \in Bucket /\ marks' \in Marks /\ faults' \in 0..MaxFaults
  BY Aborted DEF Decide
<1>3. call[h].ok \in BOOLEAN
  BY DEF Call
<1>4. call[h].ok /\ row.state = "running" => Freed \/ object
  BY <1>1 DEF CallSound
<1> QED
  BY <1>1, <1>2, <1>3, <1>4, Decided

LEMMA CompleteWriteKeeps ==
  ASSUME IInv, NEW h \in Handlers, CompleteWrite(h)
  PROVE  IInv' /\ Allowed
<1> USE Before
<1>1. /\ call[h].at = "decided" /\ Becomes(h, Idle) /\ Answer(h, "archived")
      /\ row' = IF Running THEN [row EXCEPT !.state = Outcome(h), !.upload = NoUpload] ELSE row
      /\ UNCHANGED <<order, wings, object, uploads, faults, marks, removed, asked, left>>
  BY DEF CompleteWrite
<1>2. /\ agent' \in AgentJob
      /\ agent' = agent \/ (agent'.at \notin {"links", "done"} /\ row.disk = "s3")
  BY <1>1, Answered
<1>3. Outcome(h) \in {"succeeded", "failed"} /\ (Outcome(h) = "succeeded" => call[h].ok)
  BY DEF Outcome
<1>4. /\ row' \in Row /\ row'.disk = row.disk
      /\ Running => row'.state = Outcome(h) /\ row'.upload = NoUpload
      /\ ~Running => row' = row
  BY <1>1, <1>3, NoUploadTyped DEF Row
<1>5. row.state # "none"
  BY <1>1, NotFresh
<1>6. Onward
  BY <1>1, <1>3, <1>4, <1>5 DEF Onward, Running, Freed, Stranded
<1>7. /\ call' \in [Handlers -> Call] /\ call'[h] = Idle
      /\ \A g \in Handlers : g # h => call'[g] = call[g]
      /\ \A g \in Handlers : CallSound(call'[g], row', Freed', object')
  BY <1>1, <1>6, IdleCall, Harmless, CallGoes
<1>8. WingsSound(wings', row', Freed', object') /\ AgentSound(agent', order', row')
  <2>1. order' = "pending" => row.disk = "s3"
    BY <1>1 DEF AgentSound
  <2> QED
    BY <1>1, <1>2, <1>6, <2>1, WorkersStay
<1>9. UploadOf(row')
  BY <1>4 DEF IInv, UploadOf
<1>10. Running /\ Outcome(h) = "succeeded" => Freed \/ object
  BY <1>1, <1>3 DEF CallSound, Running
<1>11. Backed'
  BY <1>1, <1>4, <1>10 DEF IInv, Backed, Freed, Stranded
<1>12. IInv'
  BY <1>1, <1>2, <1>4, <1>6, <1>7, <1>8, <1>9, <1>11 DEF IInv, Typed, RestTyped, Fresh, Onward
<1>13. Asking' <=> Asking
  BY <1>1, <1>7, IdleCall, AskingStays
<1>14. CASE ~Running \/ Asking \/ Freed
  <2>1. Word' = Word
    BY <1>1, <1>3, <1>4, <1>13, <1>14 DEF Word, Asking, Running, Freed, Stranded
  <2> QED
    BY <1>1, <1>12, <2>1 DEF Allowed
<1>15. CASE Running /\ ~Asking /\ ~Freed
  <2>1. Word = "running" /\ Word' = Outcome(h)
    BY <1>1, <1>4, <1>13, <1>15 DEF Word, Asking, Running, Freed, Stranded
  <2>2. Promise!Succeed \/ Promise!Fail
    BY <1>1, <1>3, <1>10, <1>15, <2>1 DEF Promise!Succeed, Promise!Fail
  <2> QED
    BY <1>12, <2>2 DEF Allowed, Promise!Next
<1> QED
  BY <1>12, <1>14, <1>15

-----------------------------------------------------------------------------
(* The order and its settlement. *)

LEMMA OrderKeeps ==
  ASSUME IInv, NEW h \in Handlers, AgentResult(h) \/ ExpireOrder(h)
  PROVE  IInv' /\ Allowed
<1> USE Before
<1>1. /\ order = "pending" /\ order' \in {"done", "failed"}
      /\ UNCHANGED <<row, wings, agent, object, uploads, faults, removed, asked, left>>
  BY DEF AgentResult, ExpireOrder
<1>2. row.state # "none"
  BY <1>1, NotFresh
<1>3. AgentSound(agent', order', row) /\ row.disk = "s3"
  BY <1>1 DEF AgentSound
<1>4. CASE UNCHANGED <<call, marks>>
  <2>1. RestTyped' /\ (Asking' <=> Asking)
    BY <1>1, <1>4 DEF RestTyped, Asking
  <2> QED
    BY <1>1, <1>2, <1>3, <1>4, <2>1, Bookkeeping
<1>5. ASSUME NEW begun \in BOOLEAN, Enters(h, Settling(begun)) PROVE IInv' /\ Allowed
  <2>1. Settling(begun) \in Call /\ Settling(begun).at = "settling"
    BY Deciding DEF Settling
  <2>2. call[h] = Idle /\ Becomes(h, Settling(begun)) /\ marks' \in Marks
    BY <1>5, Entered
  <2>3. CallSound(Settling(begun), row, Freed, object)
    BY <1>3, <2>1, Harmless
  <2>4. RestTyped'
    BY <1>1, <2>2 DEF RestTyped
  <2> QED
    BY <1>1, <1>2, <1>3, <2>1, <2>2, <2>3, <2>4, IdleCall, Goes
<1>6. \/ UNCHANGED <<call, marks>>
      \/ Enters(h, Settling(agent.at = "undeposited")) \/ Enters(h, Settling(FALSE))
  BY DEF AgentResult, ExpireOrder
<1> QED
  BY <1>4, <1>5, <1>6

LEMMA SettleReadKeeps ==
  ASSUME IInv, NEW h \in Handlers, SettleRead(h) \/ SettleDropped(h)
  PROVE  IInv' /\ Allowed
<1> USE Before
<1>1. /\ call[h].at = "settling"
      /\ \/ Becomes(h, Idle) \/ Becomes(h, Request("reported", "panel"))
         \/ Becomes(h, Request("handing", "panel"))
      /\ UNCHANGED <<row, order, wings, agent, object, uploads, removed, asked, left>>
      /\ marks' \in Marks /\ faults' \in 0..MaxFaults
  BY Faulted DEF SettleRead, SettleDropped
<1>2. PICK c \in Call : Becomes(h, c) /\ c.at \in {"idle", "reported", "handing"} /\ c.ok = FALSE
  BY <1>1, Plain
<1>3. row.state # "none"
  BY <1>1, NotFresh
<1>4. CallSound(c, row, Freed, object)
  BY <1>1, <1>2, Harmless DEF CallSound
<1>5. RestTyped'
  BY <1>1 DEF RestTyped
<1> QED
  BY <1>1, <1>2, <1>3, <1>4, <1>5, Goes

LEMMA HandOverKeeps ==
  ASSUME IInv, NEW h \in Handlers, HandOver(h)
  PROVE  IInv' /\ Allowed
<1> USE Before
<1> DEFINE c == [call[h] EXCEPT !.at = "asking"]
<1>1. /\ call[h].at = "handing" /\ Becomes(h, c) /\ row' = [row EXCEPT !.source = "wings"]
      /\ UNCHANGED <<order, wings, agent, object, uploads, faults, marks, removed, asked, left>>
  BY DEF HandOver, Moves
<1>2. c \in Call /\ c.at = "asking"
  BY DEF Call
<1> HIDE DEF c
<1>3. /\ row' \in Row /\ row'.disk = row.disk /\ row'.state = row.state
      /\ row'.upload = row.upload
  BY <1>1 DEF Row
<1>4. row.state # "none"
  BY <1>1, NotFresh
<1>5. Onward
  BY <1>1, <1>3, <1>4 DEF Onward, Freed, Stranded
<1>6. /\ call' \in [Handlers -> Call] /\ call'[h] = c
      /\ \A g \in Handlers : g # h => call'[g] = call[g]
      /\ \A g \in Handlers : CallSound(call'[g], row', Freed', object')
  <2>1. CallSound(c, row', Freed', object')
    BY <1>1, <1>2, <1>3, Harmless DEF CallSound
  <2> QED
    BY <1>1, <1>2, <1>5, <2>1, CallGoes
<1>7. WingsSound(wings', row', Freed', object') /\ AgentSound(agent', order', row')
  <2>1. order' = "pending" => row.disk = "s3"
    BY <1>1 DEF AgentSound
  <2> QED
    BY <1>1, <1>5, <2>1, WorkersStay
<1>8. IInv'
  BY <1>1, <1>3, <1>4, <1>6, <1>7 DEF IInv, Typed, RestTyped, UploadOf, Fresh, Backed, Freed, Stranded
<1>9. Asking' <=> Asking
  BY <1>1, <1>2, <1>6, AskingStays
<1>10. Allowed
  BY <1>1, <1>3, <1>9, ArchiveMoves
<1> QED
  BY <1>8, <1>10

LEMMA SettleAskedKeeps ==
  ASSUME IInv, NEW h \in Handlers, SettleAsked(h)
  PROVE  IInv' /\ Allowed
<1> USE Before
<1>1. /\ call[h].at = "asking" /\ (AskWings \/ NotAsked)
      /\ Becomes(h, Idle) \/ Becomes(h, Request("reported", "panel"))
      /\ UNCHANGED <<row, order, agent, object, uploads, faults, marks, removed>>
      /\ row.disk = "s3" /\ left' \in SUBSET {"wings", "agent"}
  BY DEF SettleAsked, CallSound
<1>2. PICK c \in Call : Becomes(h, c) /\ c.at \in {"idle", "reported"} /\ c.ok = FALSE
  BY <1>1, Plain
<1>3. row.state # "none"
  BY <1>1, NotFresh
<1>4. CallSound(c, row, Freed, object)
  BY <1>2, Harmless
<1>5. wings' \in Job /\ (wings' = wings \/ wings'.at = "asked") /\ asked' \in Nat
  BY <1>1, Jobs DEF AskWings, NotAsked
<1>6. WingsSound(wings', row, Freed, object) /\ AgentSound(agent', order', row)
  BY <1>1, <1>5 DEF WingsSound
<1>7. RestTyped'
  BY <1>1, <1>5 DEF RestTyped
<1> QED
  BY <1>1, <1>2, <1>3, <1>4, <1>5, <1>6, <1>7, Goes

-----------------------------------------------------------------------------
(* The daemon, the agent, the restarts. *)

LEMMA WorkerKeeps ==
  ASSUME IInv, AgentFetches \/ AgentDeposits \/ WingsBreaks \/ AgentHalts \/ WingsHalts
  PROVE  IInv' /\ Allowed
<1> USE Before
<1>1. UNCHANGED <<row, order, object, uploads, call, removed, asked, left>>
  BY DEF AgentFetches, AgentDeposits, WingsBreaks, AgentHalts, WingsHalts
<1>2. marks' \in Marks /\ faults' \in 0..MaxFaults
  BY Faulted DEF AgentFetches, AgentDeposits, WingsBreaks, AgentHalts, WingsHalts
<1>3. row.state # "none"
  <2>1. wings.at # "idle" \/ agent.at # "idle" \/ order = "pending"
    BY DEF AgentFetches, AgentDeposits, WingsBreaks, AgentHalts, WingsHalts
  <2> QED
    BY <2>1, NotFresh
<1>4. wings' = wings \/ wings' \in {Now("broken"), Now("idle"), Now("asked")}
  BY Jobs DEF AgentFetches, AgentDeposits, WingsBreaks, AgentHalts, WingsHalts
<1>5. \/ agent' = agent
      \/ agent' \in {Now("asked"), Now("unarchived"), Now("broken")}
         /\ (agent.at # "idle" \/ order = "pending")
      \/ agent' = Now("idle")
      \/ agent.at = "links" /\ agent' = [agent EXCEPT !.at = "done"]
  BY Jobs DEF AgentFetches, AgentDeposits, WingsBreaks, AgentHalts, WingsHalts
<1>6. wings' \in Job /\ WingsSound(wings', row, Freed, object)
  BY <1>4, Jobs DEF WingsSound
<1>7. agent' \in AgentJob /\ AgentSound(agent', order', row)
  <2>1. CASE agent.at = "links" /\ agent' = [agent EXCEPT !.at = "done"]
    <3>1. agent' \in AgentJob /\ agent'.at = "done"
      BY <2>1 DEF AgentJob
    <3> QED
      BY <1>1, <2>1, <3>1 DEF AgentSound
  <2>2. CASE agent' = agent
    BY <1>1, <2>2
  <2>3. CASE agent' = Now("idle")
    BY <1>1, <2>3, Jobs DEF AgentSound
  <2>4. CASE agent' \in {Now("asked"), Now("unarchived"), Now("broken")}
             /\ (agent.at # "idle" \/ order = "pending")
    BY <1>1, <2>4, Jobs DEF AgentSound
  <2> QED
    BY <1>5, <2>1, <2>2, <2>3, <2>4
<1>8. RestTyped' /\ (Asking' <=> Asking)
  BY <1>1, <1>2 DEF RestTyped, Asking
<1> QED
  BY <1>1, <1>3, <1>6, <1>7, <1>8, Bookkeeping

LEMMA WingsArchivesKeeps ==
  ASSUME IInv, WingsArchives
  PROVE  IInv' /\ Allowed
<1> USE Before
<1>1. /\ \/ wings.at = "asked" /\ row.disk = "local"
         \/ wings.at = "links"
      /\ object' = (object \/ row.disk = "local") /\ wings' = [wings EXCEPT !.at = "done"]
      /\ UNCHANGED <<row, order, agent, uploads, call, faults, marks, removed, asked, left>>
  BY DEF WingsArchives
<1>2. row.state # "none"
  BY <1>1, NotFresh
<1>3. wings' \in Job /\ wings'.at = "done" /\ object' \in BOOLEAN
  BY <1>1 DEF Job
<1>4. Onward
  BY <1>1, <1>2, <1>3 DEF Onward, Freed, Stranded
<1>5. \A g \in Handlers : CallSound(call'[g], row', Freed', object')
  BY <1>1, <1>4, CallStays
<1>6. WingsSound(wings', row', Freed', object')
  BY <1>1, <1>3 DEF WingsSound
<1>7. IInv'
  BY <1>1, <1>2, <1>3, <1>5, <1>6 DEF IInv, Typed, RestTyped, Fresh, Backed, Freed, Stranded
<1>8. Allowed
  BY <1>1, <1>3, ArchiveMoves DEF Asking
<1> QED
  BY <1>7, <1>8

LEMMA CrashKeeps ==
  ASSUME IInv, Crash
  PROVE  IInv' /\ Allowed
<1> USE Before
<1>1. /\ \E h \in Handlers : call[h] # Idle
      /\ call' = [h \in Handlers |-> Idle]
      /\ UNCHANGED <<row, order, wings, agent, object, uploads, removed, asked, left>>
      /\ marks' \in Marks /\ faults' \in 0..MaxFaults
  BY Faulted DEF Crash
<1>2. row.state # "none"
  BY <1>1 DEF IInv, Fresh
<1>3. /\ call' \in [Handlers -> Call] /\ ~Asking'
      /\ \A g \in Handlers : CallSound(call'[g], row', Freed', object')
  BY <1>1, IdleCall, Harmless DEF Asking
<1>4. IInv'
  BY <1>1, <1>2, <1>3 DEF IInv, Typed, RestTyped, Fresh, Backed, Freed, Stranded
<1>5. CASE ~Asking
  <2>1. Word' = Word
    BY <1>1, <1>3, <1>5 DEF Word, Asking, Stranded
  <2> QED
    BY <1>1, <1>4, <2>1 DEF Allowed
<1>6. CASE Asking
  <2>1. Word = "asked"
    BY <1>6 DEF Word, Asking, Stranded
  <2>2. Word' \in {"running", "failed", "leaving", "gone"} \/ (Word' = "succeeded" /\ object)
    <3>1. row.state \in {"running", "succeeded", "failed", "gone"}
      BY <1>2 DEF Row
    <3>2. row.state = "succeeded" => Freed \/ object
      BY DEF IInv, Backed
    <3> QED
      BY <1>1, <1>3, <3>1, <3>2 DEF Word, Asking, Freed, Stranded
  <2>3. Promise!Answer
    BY <1>1, <2>1, <2>2 DEF Promise!Answer
  <2> QED
    BY <1>4, <2>3 DEF Allowed, Promise!Next
<1> QED
  BY <1>5, <1>6

\* What a move takes from the promise, it takes at once.
LEMMA ServerMovesKeeps ==
  ASSUME IInv, ServerMoves
  PROVE  IInv' /\ Allowed
<1> USE Before
<1>1. /\ row.state # "none" /\ left' = {"wings", "agent"} /\ faults' \in 0..MaxFaults
      /\ UNCHANGED <<row, order, wings, agent, object, uploads, call, marks, removed, asked>>
  BY BoundsAssumption DEF ServerMoves, IInv, Typed, RestTyped
<1>2. Onward
  BY <1>1 DEF Onward, Freed, Stranded
<1>3. /\ \A g \in Handlers : CallSound(call'[g], row', Freed', object')
      /\ WingsSound(wings', row', Freed', object') /\ AgentSound(agent', order', row')
  <2>1. order' = "pending" => row.disk = "s3"
    BY <1>1 DEF AgentSound
  <2> QED
    BY <1>1, <1>2, <2>1, CallStays, WorkersStay
<1>4. IInv'
  BY <1>1, <1>2, <1>3 DEF IInv, Typed, RestTyped, UploadOf, Fresh, Backed, Onward
<1>5. CASE Asking \/ Freed \/ row.disk # "local" \/ row.state = "gone"
  <2>1. Word' = Word
    BY <1>1, <1>5 DEF Word, Asking, Freed, Stranded
  <2> QED
    BY <1>1, <1>4, <2>1 DEF Allowed
<1>6. CASE ~Asking /\ ~Freed /\ row.disk = "local" /\ row.state # "gone"
  <2>1. row.state \in {"running", "succeeded", "failed"}
    BY <1>1, <1>6 DEF Row
  <2>2. Word = row.state /\ Word' = "leaving"
    BY <1>1, <1>6, <2>1 DEF Word, Asking, Freed, Stranded
  <2>3. Promise!Remove
    BY <1>1, <2>1, <2>2 DEF Promise!Remove
  <2> QED
    BY <1>4, <2>3 DEF Allowed, Promise!Next
<1> QED
  BY <1>5, <1>6

-----------------------------------------------------------------------------
(* remove() *)

LEMMA RemoveReadKeeps ==
  ASSUME IInv, NEW h \in Handlers, RemoveRead(h)
  PROVE  IInv' /\ Allowed
<1> USE Before
<1> DEFINE c == [Request("removing", "panel") EXCEPT !.upload = row.upload]
<1>1. /\ row.state # "none" /\ Enters(h, c)
      /\ UNCHANGED <<row, order, wings, agent, object, uploads, faults, removed, asked, left>>
  BY DEF RemoveRead, Running, Finished
<1>2. row.upload \in 0..MaxUploads
  BY DEF Row
<1>3. c \in Call /\ c.at = "removing"
  BY <1>2, Opening
<1>4. call[h] = Idle /\ Becomes(h, c) /\ marks' \in Marks
  BY <1>1, Entered
<1> HIDE DEF c
<1>5. CallSound(c, row, Freed, object)
  BY <1>3, Harmless
<1>6. RestTyped'
  BY <1>1, <1>4 DEF RestTyped
<1> QED
  BY <1>1, <1>3, <1>4, <1>5, <1>6, IdleCall, Goes

LEMMA DiscardKeeps ==
  ASSUME IInv, NEW h \in Handlers, Discard(h)
  PROVE  IInv' /\ Allowed
<1> USE Before
<1> DEFINE c == Request("discarded", "panel")
<1>1. /\ call[h].at = "removing" /\ removed' = TRUE /\ Becomes(h, c)
      /\ UNCHANGED <<row, order, wings, agent, asked, left>>
  BY DEF Discard
<1>2. /\ object' \in BOOLEAN /\ uploads' \in Bucket
      /\ marks' \in Marks /\ faults' \in 0..MaxFaults
  BY BucketStep, Faulted DEF Discard, NoFault
<1>3. c \in Call /\ c.at = "discarded"
  BY Requests
<1> HIDE DEF c
<1>4. row.state # "none"
  BY <1>1, NotFresh
<1>5. Onward
  BY <1>1, <1>2, <1>4 DEF Onward, Freed, Stranded
<1>6. CallSound(c, row', Freed', object')
  BY <1>1, <1>3 DEF CallSound, Freed
<1>7. /\ call' \in [Handlers -> Call] /\ call'[h] = c
      /\ \A g \in Handlers : g # h => call'[g] = call[g]
      /\ \A g \in Handlers : CallSound(call'[g], row', Freed', object')
  BY <1>1, <1>3, <1>5, <1>6, CallGoes
<1>8. WingsSound(wings', row', Freed', object') /\ AgentSound(agent', order', row')
  <2>1. order' = "pending" => row.disk = "s3"
    BY <1>1 DEF AgentSound
  <2> QED
    BY <1>1, <1>5, <2>1, WorkersStay
<1>9. IInv'
  <2>1. Typed'
    BY <1>1, <1>2, <1>7 DEF Typed
  <2>2. RestTyped'
    BY <1>1, <1>2 DEF RestTyped
  <2>3. UploadOf(row)' /\ Fresh' /\ Backed'
    BY <1>1, <1>4 DEF IInv, UploadOf, Fresh, Backed, Freed
  <2> QED
    BY <1>7, <1>8, <2>1, <2>2, <2>3 DEF IInv
<1>10. Asking' <=> Asking
  BY <1>1, <1>3, <1>7, AskingStays
<1>11. row.state \in {"running", "succeeded", "failed", "gone"}
  BY <1>4 DEF Row
<1>12. CASE Asking \/ Freed \/ row.state = "gone"
  <2>1. Word' = Word /\ Word # "succeeded"
    BY <1>1, <1>10, <1>11, <1>12 DEF Word, Asking, Freed, Stranded
  <2>2. Promise!Archive
    BY <1>2, <2>1 DEF Promise!Archive
  <2> QED
    BY <1>9, <2>2 DEF Allowed, Promise!Next
<1>13. CASE ~Asking /\ ~Freed /\ row.state # "gone"
  <2>1. Word \in {"running", "succeeded", "failed"} /\ Word' = "leaving"
    BY <1>1, <1>10, <1>11, <1>13 DEF Word, Asking, Freed
  <2>2. Promise!Remove
    BY <1>2, <2>1 DEF Promise!Remove
  <2> QED
    BY <1>9, <2>2 DEF Allowed, Promise!Next
<1> QED
  BY <1>12, <1>13

LEMMA DiscardRefusedKeeps ==
  ASSUME IInv, NEW h \in Handlers, DiscardRefused(h)
  PROVE  IInv' /\ Allowed
<1> USE Before
<1>1. /\ call[h].at = "removing" /\ Becomes(h, Idle)
      /\ UNCHANGED <<row, order, wings, agent, object, uploads, faults, marks, removed, asked, left>>
  BY DEF DiscardRefused
<1>2. row.state # "none"
  BY <1>1, NotFresh
<1>3. CallSound(Idle, row, Freed, object) /\ RestTyped'
  BY <1>1, IdleCall, Harmless DEF RestTyped
<1> QED
  BY <1>1, <1>2, <1>3, IdleCall, Goes

LEMMA DeleteKeeps ==
  ASSUME IInv, NEW h \in Handlers, Delete(h)
  PROVE  IInv' /\ Allowed
<1> USE Before
<1>1. /\ call[h].at = "discarded" /\ Becomes(h, Idle)
      /\ row' = Gone /\ order' = "none"
      /\ UNCHANGED <<wings, agent, object, uploads, faults, marks, removed, asked, left>>
  BY DEF Delete
<1>2. /\ row' \in Row /\ row'.state = "gone" /\ row'.disk = row.disk
      /\ row'.upload = NoUpload
  BY <1>1, GoneRow
<1>3. row.state # "none"
  BY <1>1, NotFresh
<1>4. Freed
  BY <1>1 DEF CallSound
<1>5. Onward
  BY <1>1, <1>2, <1>3 DEF Onward, Freed, Stranded
<1>6. /\ call' \in [Handlers -> Call] /\ call'[h] = Idle
      /\ \A g \in Handlers : g # h => call'[g] = call[g]
      /\ \A g \in Handlers : CallSound(call'[g], row', Freed', object')
  BY <1>1, <1>5, IdleCall, Harmless, CallGoes
<1>7. WingsSound(wings', row', Freed', object') /\ AgentSound(agent', order', row')
  BY <1>1, <1>5, WorkersStay
<1>8. IInv'
  BY <1>1, <1>2, <1>6, <1>7 DEF IInv, Typed, RestTyped, UploadOf, Fresh, Backed, Freed, Stranded
<1>9. Asking' <=> Asking
  BY <1>1, <1>6, IdleCall, AskingStays
<1>10. row.state \in {"running", "succeeded", "failed", "gone"}
  BY <1>3 DEF Row
<1>11. CASE Asking \/ row.state = "gone"
  <2>1. Word' = Word
    BY <1>1, <1>2, <1>9, <1>11 DEF Word, Asking
  <2> QED
    BY <1>1, <1>8, <2>1 DEF Allowed
<1>12. CASE ~Asking /\ row.state # "gone"
  <2>1. Word = "leaving" /\ Word' = "gone"
    BY <1>1, <1>2, <1>4, <1>9, <1>10, <1>12 DEF Word, Asking, Freed
  <2>2. Promise!Forget
    BY <1>1, <2>1 DEF Promise!Forget
  <2> QED
    BY <1>8, <2>2 DEF Allowed, Promise!Next
<1> QED
  BY <1>11, <1>12

-----------------------------------------------------------------------------

LEMMA Initially == Init => IInv /\ Promise!Init
<1> SUFFICES ASSUME Init PROVE IInv /\ Promise!Init
  OBVIOUS
<1>1. PICK disk \in {"s3", "local"} :
        row = [state |-> "none", disk |-> disk, source |-> "wings", upload |-> NoUpload]
  BY DEF Init
<1>2. /\ row \in Row /\ row.state = "none" /\ row.upload = NoUpload
  BY <1>1, NoUploadTyped DEF Row
<1>3. /\ \A h \in Handlers : call[h] = Idle
      /\ wings = Nothing /\ agent = Nothing /\ order = "none" /\ removed = FALSE
      /\ object = FALSE /\ faults = 0 /\ marks = {} /\ asked = 0 /\ left = {}
  BY DEF Init
<1>4. call \in [Handlers -> Call] /\ uploads \in Bucket
  BY IdleCall DEF Init, Bucket
<1>5. wings \in Job /\ agent \in AgentJob /\ wings.at = "idle" /\ agent.at = "idle"
  BY <1>3, Jobs
<1>6. 0 \in 0..MaxFaults /\ {} \in Marks
  BY BoundsAssumption DEF Marks
<1>7. \A h \in Handlers : CallSound(call[h], row, Freed, object)
  <2> SUFFICES ASSUME NEW h \in Handlers PROVE CallSound(call[h], row, Freed, object)
    OBVIOUS
  <2>1. call[h].at = "idle"
    BY <1>3, IdleCall
  <2> QED
    BY <2>1, Harmless
<1>8. WingsSound(wings, row, Freed, object) /\ AgentSound(agent, order, row)
  BY <1>3, <1>5 DEF WingsSound, AgentSound
<1>9. IInv
  BY <1>2, <1>3, <1>4, <1>5, <1>6, <1>7, <1>8
     DEF IInv, Typed, RestTyped, UploadOf, Fresh, Backed, Freed, Stranded
<1>10. Word = "none"
  BY <1>2, <1>3, IdleCall DEF Word
<1>11. Promise!Init
  BY <1>3, <1>10 DEF Promise!Init
<1> QED
  BY <1>9, <1>11

LEMMA Preserved == IInv /\ [Next]_vars => IInv' /\ [Promise!Next]_(Promise!vars)
<1> SUFFICES ASSUME IInv, [Next]_vars PROVE IInv' /\ [Promise!Next]_(Promise!vars)
  OBVIOUS
<1>1. Allowed => [Promise!Next]_(Promise!vars)
  BY DEF Allowed, Promise!vars
<1>2. ASSUME NEW h \in Handlers, Proceed(h) PROVE IInv' /\ Allowed
  BY <1>2, AnswerKeeps, CreateAskKeeps, OpenTicketKeeps, OpenFailsKeeps, OpenRecordKeeps,
     CompleteReadKeeps, JoinKeeps, JoinFailsKeeps, DecideKeeps, CompleteWriteKeeps,
     SettleReadKeeps, HandOverKeeps, SettleAskedKeeps, DiscardKeeps, DiscardRefusedKeeps,
     DeleteKeeps DEF Proceed
<1>3. ASSUME NEW h \in Handlers, Begin(h) PROVE IInv' /\ Allowed
  BY <1>3, CreateKeeps, RemoveReadKeeps, OpenReadKeeps, ReportKeeps, OrderKeeps DEF Begin
<1>4. CASE Outside
  BY <1>1, <1>4, OpenRefusedKeeps, WorkerKeeps, AgentUnheardKeeps, WingsArchivesKeeps, CrashKeeps,
     ServerMovesKeeps
     DEF Outside
<1>5. CASE UNCHANGED vars
  <2>1. IInv'
    BY <1>5 DEF vars, IInv, Typed, RestTyped, UploadOf, Fresh, Backed, Freed, Stranded
  <2>2. Allowed
    BY <1>5 DEF vars, Allowed, Word, Stranded
  <2> QED
    BY <1>1, <2>1, <2>2
<1> QED
  BY <1>1, <1>2, <1>3, <1>4, <1>5 DEF Next

LEMMA Inductive == Spec => []IInv
<1> QED
  BY Initially, Preserved, PTL DEF Spec

-----------------------------------------------------------------------------

\* The types of the row, of the jobs, of the uploads and of the requests; an upload is
\* only recorded for the bucket, in a row that is open or was removed.
THEOREM TypeCorrect == Spec => []TypeOK
<1>1. IInv => TypeOK
  BY DEF IInv, Typed, RestTyped, UploadOf, TypeOK, Bucket, Marks
<1> QED
  BY <1>1, Inductive, PTL

\* However reports, removals, expiries, restarts and faults of the bucket interleave, a
\* backup is closed once, as a success only with its archive, and a success keeps its
\* record and its archive until somebody asks for its removal, or moves the server away
\* from the disk that has the archive.
THEOREM PromiseIsKept == Spec => PromiseKept
<1> QED
  BY Initially, Preserved, Inductive, PTL DEF Spec, PromiseKept, Promise!Spec

-----------------------------------------------------------------------------
(* Who may ask the daemon, and what the agent was told. *)

\* Somebody who is about to ask the daemon for the archive, or may be.
Mandated(h) == call[h].at \in {"created", "settling", "handing", "asking"}

\* One mandate at a time, the pending order being one, and none once it was used.
OneMandate ==
  /\ \A h \in Handlers : Mandated(h) => order # "pending" /\ asked = 0
  /\ \A g, h \in Handlers : Mandated(g) /\ Mandated(h) => g = h
  /\ order = "pending" \/ row.state = "none" => asked = 0
  /\ asked <= 1

\* The agent is told of a closed backup only.
ToldOfClosed == order = "done" \/ agent.at = "archived" => row.state # "running"

\* A step that gives no mandate and uses none.
LEMMA NoMandate ==
  ASSUME OneMandate, \A g \in Handlers : Mandated(g)' => Mandated(g),
         order' = "pending" => order = "pending", row'.state = "none" => row.state = "none",
         UNCHANGED asked
  PROVE  OneMandate'
  BY DEF OneMandate

LEMMA CallBecomes ==
  ASSUME IInv, NEW h \in Handlers, NEW c, Becomes(h, c),
         c.at \in {"created", "settling", "handing", "asking"} => Mandated(h)
  PROVE  \A g \in Handlers : Mandated(g)' => Mandated(g)
<1>1. call'[h] = c /\ \A g \in Handlers : g # h => call'[g] = call[g]
  BY DEF IInv, Typed, Becomes
<1> QED
  BY <1>1 DEF Mandated

LEMMA MandateMoves ==
  ASSUME IInv, OneMandate, [Next]_vars
  PROVE  OneMandate'
<1> USE Before
<1>1. ASSUME NEW h \in Handlers, Create(h) PROVE OneMandate'
  <2>1. /\ row.state = "none" /\ row'.state = "running" /\ UNCHANGED <<order, asked>>
        /\ Becomes(h, Request("created", "panel"))
    BY <1>1, Entered DEF Create, Row
  <2>2. (\A g \in Handlers : ~Mandated(g)) /\ order = "none"
    BY <2>1, IdleCall DEF IInv, Fresh, Mandated
  <2>3. \A g \in Handlers : g # h => call'[g] = call[g]
    BY <2>1 DEF Becomes
  <2> QED
    BY <2>1, <2>2, <2>3 DEF OneMandate, Mandated
<1>2. ASSUME NEW h \in Handlers, ArchiveBackup(h) PROVE OneMandate'
  <2>1. /\ Mandated(h) /\ Becomes(h, Idle) /\ row'.state = row.state /\ row.state = "running"
        /\ UNCHANGED asked
    BY <1>2 DEF ArchiveBackup, Mandated, Row, Running
  <2>2. \A g \in Handlers : ~Mandated(g)'
    <3>1. call'[h] = Idle /\ \A g \in Handlers : g # h => call'[g] = call[g]
      BY <2>1, IdleCall DEF Becomes
    <3> QED
      BY <2>1, <3>1, IdleCall DEF OneMandate, Mandated
  <2> QED
    BY <2>1, <2>2 DEF OneMandate
<1>3. ASSUME NEW h \in Handlers, CreateAsk(h) \/ SettleAsked(h) PROVE OneMandate'
  <2>1. Mandated(h) /\ asked' \in {asked, asked + 1} /\ UNCHANGED <<row, order>>
    BY <1>3 DEF CreateAsk, SettleAsked, Mandated, AskWings, NotAsked
  <2>2. PICK c \in Call : Becomes(h, c) /\ c.at \in {"creating", "idle", "reported"}
    <3>1. CASE CreateAsk(h)
      <4>1. CASE \E ok \in BOOLEAN : Becomes(h, [Request("creating", "panel") EXCEPT !.ok = ok])
        <5>1. PICK ok \in BOOLEAN : Becomes(h, [Request("creating", "panel") EXCEPT !.ok = ok])
          BY <4>1
        <5>2. Request("creating", "panel") \in Call /\ Request("creating", "panel").at = "creating"
          BY Requests
        <5>3. /\ [Request("creating", "panel") EXCEPT !.ok = ok] \in Call
              /\ [Request("creating", "panel") EXCEPT !.ok = ok].at = "creating"
          BY <5>2 DEF Call
        <5> QED
          BY <5>1, <5>3
      <4>2. CASE Becomes(h, [call[h] EXCEPT !.at = "creating"])
        <5>1. /\ [call[h] EXCEPT !.at = "creating"] \in Call
              /\ [call[h] EXCEPT !.at = "creating"].at = "creating"
          BY DEF Call
        <5> QED
          BY <4>2, <5>1
      <4> QED
        BY <3>1, <4>1, <4>2 DEF CreateAsk, Moves
    <3>2. CASE SettleAsked(h)
      BY <3>2, Plain DEF SettleAsked
    <3> QED
      BY <1>3, <3>1, <3>2
  <2>3. \A g \in Handlers : ~Mandated(g)'
    <3>1. call'[h] = c /\ \A g \in Handlers : g # h => call'[g] = call[g]
      BY <2>2 DEF Becomes
    <3> QED
      BY <2>1, <2>2, <3>1 DEF OneMandate, Mandated
  <2>4. asked = 0 /\ order # "pending" /\ row.state # "none"
    <3>1. call[h].at # "idle"
      BY <2>1 DEF Mandated
    <3> QED
      BY <2>1, <3>1, NotFresh DEF OneMandate
  <2> QED
    BY <2>1, <2>3, <2>4 DEF OneMandate
<1>4. ASSUME NEW h \in Handlers, AgentResult(h) \/ ExpireOrder(h) PROVE OneMandate'
  <2>1. /\ order = "pending" /\ order' \in {"done", "failed"} /\ UNCHANGED <<row, asked>>
        /\ \A g \in Handlers : g # h => call'[g] = call[g]
    BY <1>4, Entered DEF AgentResult, ExpireOrder, Becomes, Enters
  <2>2. (\A g \in Handlers : ~Mandated(g)) /\ asked = 0
    BY <2>1 DEF OneMandate
  <2> QED
    BY <2>1, <2>2 DEF OneMandate, Mandated
<1>5. ASSUME NEW h \in Handlers, SettleRead(h) \/ HandOver(h) \/ SettleDropped(h)
      PROVE  OneMandate'
  <2>1. /\ Mandated(h) /\ UNCHANGED <<order, asked>> /\ row'.state = row.state
    BY <1>5 DEF SettleRead, HandOver, SettleDropped, Mandated, Row
  <2>2. \E c : Becomes(h, c)
    BY <1>5 DEF SettleRead, HandOver, SettleDropped, Moves
  <2>3. \A g \in Handlers : Mandated(g)' => Mandated(g)
    BY <2>1, <2>2, CallBecomes
  <2> QED
    BY <2>1, <2>3, NoMandate
<1>6. ASSUME NEW h \in Handlers,
             \/ CreateAnswered(h) \/ CreateRefused(h) \/ OpenFails(h) \/ OpenRecord(h)
             \/ CompleteWrite(h) \/ DiscardRefused(h) \/ Delete(h)
             \/ \E u \in Uploads : OpenUnheard(h, u)
      PROVE  OneMandate'
  <2>1. Becomes(h, Idle) /\ UNCHANGED asked /\ (order' = "pending" => order = "pending")
    BY <1>6 DEF CreateAnswered, CreateRefused, OpenFails, OpenRecord, CompleteWrite,
                DiscardRefused, Delete, OpenUnheard
  <2>2. row'.state = "none" => row.state = "none"
    BY <1>6 DEF CreateAnswered, CreateRefused, OpenFails, OpenRecord, CompleteWrite,
                DiscardRefused, Delete, OpenUnheard, Row, Running, Outcome, Gone
  <2> QED
    BY <2>1, <2>2, IdleCall, CallBecomes, NoMandate
<1>7. ASSUME NEW h \in Handlers,
             \/ \E u \in Uploads : OpenTicket(h, u)
             \/ CompleteRead(h) \/ Join(h) \/ JoinFails(h) \/ Decide(h) \/ Discard(h)
             \/ RemoveRead(h) \/ (\E by \in {"wings", "agent"} : OpenRead(h, by))
             \/ WingsReports(h) \/ AgentReports(h)
      PROVE  OneMandate'
  <2>1. UNCHANGED <<row, order, asked>>
    BY <1>7 DEF OpenTicket, CompleteRead, Join, JoinFails, Decide, Discard, RemoveRead, OpenRead,
                WingsReports, AgentReports
  <2>2. \A g \in Handlers : Mandated(g)' => Mandated(g)
    <3>1. CASE \E ok \in BOOLEAN : Decides(h, ok)
      <4>1. PICK ok \in BOOLEAN : Decides(h, ok)
        BY <3>1
      <4>2. PICK by \in {"panel", "wings", "agent"} : call[h].by = by
        BY DEF Call
      <4>3. [Request("decided", by) EXCEPT !.ok = ok].at = "decided"
        BY Deciding
      <4> QED
        BY <4>1, <4>2, <4>3, CallBecomes DEF Decides
    <3>2. CASE Join(h) \/ JoinFails(h) \/ Decide(h)
      <4>1. call[h].ok \in BOOLEAN
        BY DEF Call
      <4> QED
        BY <3>1, <3>2, <4>1 DEF Join, JoinFails, Decide
    <3>3. CASE RemoveRead(h) \/ \E by \in {"wings", "agent"} : OpenRead(h, by)
      <4>1. row.upload \in 0..MaxUploads
        BY DEF Row
      <4>2. CASE RemoveRead(h)
        <5>1. Becomes(h, [Request("removing", "panel") EXCEPT !.upload = row.upload])
          BY <4>2, Entered DEF RemoveRead
        <5>2. [Request("removing", "panel") EXCEPT !.upload = row.upload].at = "removing"
          BY <4>1, Opening
        <5> QED
          BY <5>1, <5>2, CallBecomes
      <4>3. ASSUME NEW by \in {"wings", "agent"}, OpenRead(h, by)
            PROVE  \A g \in Handlers : Mandated(g)' => Mandated(g)
        <5>1. Becomes(h, [Request("opening", by) EXCEPT !.upload = row.upload])
          BY <4>3, Entered DEF OpenRead
        <5>2. [Request("opening", by) EXCEPT !.upload = row.upload].at = "opening"
          BY <4>1, Opening
        <5> QED
          BY <5>1, <5>2, CallBecomes
      <4> QED
        BY <3>3, <4>2, <4>3
    <3>4. CASE WingsReports(h) \/ AgentReports(h)
      <4>1. wings.upload \in 0..MaxUploads /\ agent.upload \in 0..MaxUploads
        BY DEF Job, AgentJob
      <4>2. /\ Reported("wings", wings).at = "reported"
            /\ Reported("agent", agent).at = "reported"
        BY <4>1, Reporting
      <4>3. Becomes(h, Reported("wings", wings)) \/ Becomes(h, Reported("agent", agent))
        BY <3>4, Entered DEF WingsReports, AgentReports
      <4> QED
        BY <4>2, <4>3, CallBecomes
    <3>5. CASE Discard(h)
      <4>1. /\ Becomes(h, Request("discarded", "panel"))
            /\ Request("discarded", "panel").at = "discarded"
        BY <3>5, Requests DEF Discard
      <4> QED
        BY <4>1, CallBecomes
    <3>6. CASE CompleteRead(h)
      <4>1. Becomes(h, Idle) \/ Becomes(h, [call[h] EXCEPT !.at = "read", !.upload = row.upload])
        BY <3>6 DEF CompleteRead
      <4>2. [call[h] EXCEPT !.at = "read", !.upload = row.upload].at = "read"
        BY DEF Call
      <4> QED
        BY <4>1, <4>2, IdleCall, CallBecomes
    <3>7. ASSUME NEW u \in Uploads, OpenTicket(h, u)
          PROVE  \A g \in Handlers : Mandated(g)' => Mandated(g)
      <4>1. [call[h] EXCEPT !.at = "opened", !.upload = u].at = "opened"
        BY DEF Call
      <4> QED
        BY <3>7, <4>1, CallBecomes DEF OpenTicket
    <3> QED
      BY <1>7, <3>2, <3>3, <3>4, <3>5, <3>6, <3>7
  <2> QED
    BY <2>1, <2>2, NoMandate
<1>8. CASE Crash
  <2>1. UNCHANGED <<row, order, asked>> /\ \A g \in Handlers : ~Mandated(g)'
    BY <1>8, IdleCall DEF Crash, Mandated
  <2> QED
    BY <2>1, NoMandate
<1>9. CASE UNCHANGED <<row, order, call, asked>>
  BY <1>9, NoMandate DEF Mandated
<1>10. CASE Outside
  BY <1>8, <1>9, <1>10 DEF Outside, OpenRefused, AgentFetches, AgentDeposits, AgentUnheard,
                           WingsArchives, WingsBreaks, AgentHalts, WingsHalts, ServerMoves
<1> QED
  BY <1>1, <1>2, <1>3, <1>4, <1>5, <1>6, <1>7, <1>9, <1>10 DEF Next, Proceed, Begin, vars

LEMMA ClosedIsTold ==
  ASSUME IInv, ToldOfClosed, [Next]_vars
  PROVE  ToldOfClosed'
<1> USE Before
<1>1. ASSUME NEW h \in Handlers, Create(h) PROVE ToldOfClosed'
  <2>1. agent' = Nothing /\ order' = "none"
    BY <1>1 DEF Create, IInv, Fresh
  <2> QED
    BY <2>1, Jobs DEF ToldOfClosed
<1>2. ASSUME row'.state = "running" => row.state = "running",
             order' = "done" => order = "done" \/ agent.at = "archived",
             agent'.at = "archived" => agent.at = "archived" \/ row'.state # "running"
      PROVE  ToldOfClosed'
  BY <1>2 DEF ToldOfClosed
<1>3. CASE UNCHANGED <<row, order, agent>>
  BY <1>2, <1>3
<1>4. ASSUME NEW h \in Handlers,
             \/ ArchiveBackup(h) \/ CreateAnswered(h) \/ CreateRefused(h) \/ HandOver(h)
             \/ Delete(h)
      PROVE  ToldOfClosed'
  <2>1. /\ row'.state = "running" => row.state = "running"
        /\ order' \in {order, "pending", "none"} /\ agent' = agent
    BY <1>4 DEF ArchiveBackup, CreateAnswered, CreateRefused, HandOver, Delete, Row, Gone
  <2> QED
    BY <1>2, <2>1
<1>5. ASSUME NEW h \in Handlers,
             OpenFails(h) \/ OpenRecord(h) \/ \E u \in Uploads : OpenUnheard(h, u)
      PROVE  ToldOfClosed'
  <2>1. row'.state = row.state /\ order' = order
    BY <1>5 DEF OpenFails, OpenRecord, OpenUnheard, Row
  <2>2. agent' = agent \/ agent' \in {Now("broken"), Now("unarchived")} \/ agent'.at = "links"
    BY <1>5 DEF OpenFails, OpenRecord, OpenUnheard, SetWorker
  <2> QED
    BY <1>2, <2>1, <2>2, Jobs
<1>6. ASSUME NEW h \in Handlers, CompleteRead(h) PROVE ToldOfClosed'
  <2>1. /\ UNCHANGED <<row, order>>
        /\ row.state = "running" => agent' \in {agent, Now("undeposited")}
    BY <1>6 DEF CompleteRead, Running, Answer
  <2> QED
    BY <1>2, <2>1, Jobs
<1>7. ASSUME NEW h \in Handlers, CompleteWrite(h) PROVE ToldOfClosed'
  <2>1. row'.state # "running" /\ order' = order
    BY <1>7 DEF CompleteWrite, Running, Outcome, Row
  <2> QED
    BY <1>2, <2>1
<1>8. ASSUME \/ \E h \in Handlers : AgentReports(h)
             \/ AgentUnheard \/ AgentFetches \/ AgentDeposits \/ AgentHalts
             \/ \E by \in {"wings", "agent"} : OpenRefused(by)
      PROVE  ToldOfClosed'
  <2>1. UNCHANGED <<row, order>>
    BY <1>8 DEF AgentReports, AgentUnheard, AgentFetches, AgentDeposits, AgentHalts, OpenRefused
  <2>2. \/ agent' = agent \/ agent' = [agent EXCEPT !.at = "done"]
        \/ agent' \in {Now("idle"), Now("asked"), Now("unarchived"), Now("broken"),
                       Now("posting"), Now("undeposited")}
    BY <1>8, Jobs, WorkerSet
       DEF AgentReports, AgentUnheard, AgentFetches, AgentDeposits, AgentHalts, OpenRefused
  <2>3. agent' = agent \/ agent'.at # "archived"
    <3>1. [agent EXCEPT !.at = "done"].at = "done"
      BY DEF AgentJob
    <3> QED
      BY <2>2, <3>1, Jobs
  <2> QED
    BY <1>2, <2>1, <2>3
<1>9. ASSUME NEW h \in Handlers, AgentResult(h) \/ ExpireOrder(h) PROVE ToldOfClosed'
  <2>1. UNCHANGED <<row, agent>> /\ (order' = "done" => agent.at = "archived")
    BY <1>9 DEF AgentResult, ExpireOrder
  <2> QED
    BY <1>2, <2>1
<1>10. ASSUME NEW h \in Handlers, Proceed(h) PROVE ToldOfClosed'
  BY <1>3, <1>4, <1>5, <1>6, <1>7, <1>10
     DEF Proceed, CreateAsk, OpenTicket, Join, JoinFails, Decide, SettleRead, SettleDropped,
         SettleAsked, Discard, DiscardRefused
<1>11. ASSUME NEW h \in Handlers, Begin(h) PROVE ToldOfClosed'
  BY <1>1, <1>3, <1>8, <1>9, <1>11 DEF Begin, RemoveRead, OpenRead, WingsReports
<1>12. CASE Outside
  BY <1>3, <1>8, <1>12 DEF Outside, WingsArchives, WingsBreaks, Crash, WingsHalts, ServerMoves
<1> QED
  BY <1>3, <1>10, <1>11, <1>12 DEF Next, vars

LEMMA MandatesInductive == Spec => [](OneMandate /\ ToldOfClosed)
<1>1. Init => OneMandate /\ ToldOfClosed
  <2> SUFFICES ASSUME Init PROVE OneMandate /\ ToldOfClosed
    OBVIOUS
  <2>1. order = "none" /\ asked = 0 /\ agent = Nothing /\ \A h \in Handlers : call[h] = Idle
    BY DEF Init
  <2> QED
    BY <2>1, IdleCall, Jobs DEF OneMandate, ToldOfClosed, Mandated
<1>2. IInv /\ OneMandate /\ ToldOfClosed /\ [Next]_vars => (OneMandate /\ ToldOfClosed)'
  BY MandateMoves, ClosedIsTold
<1> QED
  BY <1>1, <1>2, Inductive, PTL DEF Spec

\* The daemon is asked for an archive once at most, however the end of create(), the
\* report of the agent and the sweeps of expired orders interleave.
THEOREM DaemonAskedOnce == Spec => []AskedOnce
<1>1. OneMandate => AskedOnce
  BY DEF OneMandate, AskedOnce
<1> QED
  BY <1>1, MandatesInductive, PTL

\* The agent tells of a success only once its backup is closed.
THEOREM DoneMeansClosed == Spec => []DoneIsClosed
<1>1. ToldOfClosed => DoneIsClosed
  BY DEF ToldOfClosed, DoneIsClosed, Running
<1> QED
  BY <1>1, MandatesInductive, PTL

-----------------------------------------------------------------------------
(* What is left when nothing overlapped and nothing was cut short. *)

\* What a request c in progress alone knows of a row r, of the daemon's job w and of
\* an archive.
RequestTidy(c, r, w, there) ==
  /\ c.at \in {"created", "creating", "opening", "opened", "read", "decided"} =>
       r.state = "running"
  /\ c.at \in {"opening", "read", "removing"} => c.upload = r.upload
  /\ c.at \in {"created", "creating"} => r.upload = NoUpload
  /\ c.at = "created" => ~there /\ w = Nothing
  /\ c.at \in {"settling", "handing", "asking"} => r.disk = "s3"

\* The only upload that may be open is the one a running row names, or the one a
\* request is about to record.
UploadsTidy(c, r, ups) ==
  \A u \in Uploads : ups[u] = "open" =>
    /\ c.at \notin {"decided", "discarded"}
    /\ IF c.at = "opened" THEN u = c.upload ELSE r.state = "running" /\ r.upload = u

\* The request is to close the row as a success.
Bears(c, r) ==
  /\ c.ok
  /\ \/ c.at = "decided"
     \/ r.disk = "local" /\ (c.at = "read" \/ (c.at = "reported" /\ c.by = "wings"))

\* An archive has a success, a request that bears one or the daemon that made it; what
\* was sent to the disk of the node and failed has none.
ArchiveTidy(c, r, w, there) ==
  /\ there => \/ c.at # "discarded" /\ (r.state = "succeeded" \/ Bears(c, r))
              \/ r.disk = "local" /\ w.at = "done"
  /\ r.disk = "local" /\ w.at \in {"asked", "links", "broken"} => ~there
  /\ /\ r.disk = "local"
     /\ r.state = "failed" \/ (c.at \in {"reported", "read", "decided"} /\ ~c.ok)
     => ~there /\ w.at \in {"idle", "broken"}

TidyWith(c, r, w, there, ups) ==
  RequestTidy(c, r, w, there) /\ UploadsTidy(c, r, ups) /\ ArchiveTidy(c, r, w, there)

\* c is the request in progress, if there is one.
Only(c) ==
  /\ c = Idle \/ \E h \in Handlers : call[h] = c
  /\ \A g, h \in Handlers : call[g] # Idle /\ call[h] # Idle => g = h
  /\ \A h \in Handlers : call[h] \in {Idle, c}

\* The archive, unless it is on the disk of a node that the server has left.
Kept == object /\ ~Stranded

Tidy == marks = {} => \E c \in Call : Only(c) /\ TidyWith(c, row, wings, Kept, uploads)

LEMMA IdleFails == Idle.ok = FALSE
  BY Requests DEF Idle

LEMMA ReportFields ==
  ASSUME NEW by \in {"wings", "agent"}, NEW job, job.upload \in 0..MaxUploads
  PROVE  /\ Reported(by, job) \in Call /\ Reported(by, job).at = "reported"
         /\ Reported(by, job).by = by /\ Reported(by, job).ok = (job.at = "done")
<1>1. Request("reported", by) \in Call /\ Request("reported", by).by = by
  BY NoUploadTyped DEF Request, Call
<1>2. Reported(by, job).by = by
  BY <1>1 DEF Reported, Call
<1> QED
  BY <1>2, Reporting

\* A request that is in progress alone, and what becomes of it.
LEMMA TheOne ==
  ASSUME NEW c, Only(c), NEW h \in Handlers, call[h] # Idle
  PROVE  c = call[h] /\ \A g \in Handlers : g # h => call[g] = Idle
  BY DEF Only

LEMMA NextOne ==
  ASSUME IInv, NEW h \in Handlers, NEW d, Becomes(h, d),
         \A g \in Handlers : g # h => call[g] = Idle
  PROVE  Only(d)'
<1>1. call'[h] = d /\ \A g \in Handlers : g # h => call'[g] = call[g]
  BY DEF IInv, Typed, Becomes
<1> QED
  BY <1>1 DEF Only

LEMMA WentOn ==
  ASSUME IInv, Tidy, NEW h \in Handlers, call[h].at # "idle", NEW d \in Call, Becomes(h, d),
         marks' = {} =>
           /\ marks = {}
           /\ TidyWith(call[h], row, wings, Kept, uploads) =>
                TidyWith(d, row', wings', Kept', uploads')
  PROVE  Tidy'
<1> SUFFICES ASSUME marks' = {}
             PROVE  \E c \in Call : Only(c)' /\ TidyWith(c, row', wings', Kept', uploads')
  BY DEF Tidy, TidyWith, RequestTidy, UploadsTidy, ArchiveTidy, Bears, Kept, Stranded
<1>1. PICK c \in Call : Only(c) /\ TidyWith(c, row, wings, Kept, uploads)
  BY DEF Tidy
<1>2. c = call[h] /\ \A g \in Handlers : g # h => call[g] = Idle
  BY <1>1, TheOne, IdleCall
<1>3. Only(d)'
  BY <1>2, NextOne
<1> QED
  BY <1>1, <1>2, <1>3

LEMMA CameIn ==
  ASSUME IInv, Tidy, NEW h \in Handlers, NEW d \in Call, Enters(h, d),
         TidyWith(Idle, row, wings, Kept, uploads) =>
           TidyWith(d, row', wings', Kept', uploads')
  PROVE  Tidy'
<1> SUFFICES ASSUME marks' = {}
             PROVE  \E c \in Call : Only(c)' /\ TidyWith(c, row', wings', Kept', uploads')
  BY DEF Tidy, TidyWith, RequestTidy, UploadsTidy, ArchiveTidy, Bears, Kept, Stranded
<1>1. marks = {} /\ Becomes(h, d) /\ \A g \in Handlers : call[g] = Idle
  BY DEF Enters
<1>2. PICK c \in Call : Only(c) /\ TidyWith(c, row, wings, Kept, uploads)
  BY <1>1 DEF Tidy
<1>3. c = Idle
  BY <1>1, <1>2 DEF Only
<1>4. Only(d)'
  BY <1>1, NextOne
<1> QED
  BY <1>2, <1>3, <1>4

LEMMA WentAround ==
  ASSUME Tidy, UNCHANGED call,
         marks' = {} =>
           /\ marks = {}
           /\ \A c \in Call : TidyWith(c, row, wings, Kept, uploads) =>
                                TidyWith(c, row', wings', Kept', uploads')
  PROVE  Tidy'
<1> SUFFICES ASSUME marks' = {}
             PROVE  \E c \in Call : Only(c)' /\ TidyWith(c, row', wings', Kept', uploads')
  BY DEF Tidy, TidyWith, RequestTidy, UploadsTidy, ArchiveTidy, Bears, Kept, Stranded
<1>1. PICK c \in Call : Only(c) /\ TidyWith(c, row, wings, Kept, uploads)
  BY DEF Tidy
<1>2. Only(c)'
  BY <1>1 DEF Only
<1> QED
  BY <1>1, <1>2

\* A fault is remembered; a request that enters first is not.
LEMMA FaultsMark ==
  /\ \A mark : Fault(mark) => marks' # {}
  /\ NoFault => UNCHANGED marks
  BY DEF Fault, NoFault

\* Without a fault, an abort of the upload of a tidy row leaves none open.
LEMMA AbortTidies ==
  ASSUME NEW u \in 0..MaxUploads, Abort(u), marks' = {}, uploads \in Bucket,
         \A v \in Uploads : uploads[v] = "open" => v = u
  PROVE  marks = {} /\ \A v \in Uploads : uploads'[v] # "open"
<1>1. uploads' = WithoutUpload(u) /\ UNCHANGED marks
  BY FaultsMark DEF Abort
<1> QED
  BY <1>1 DEF WithoutUpload

\* create() begins, is answered, or leaves the backup to the agent.
LEMMA CreateTidies ==
  ASSUME IInv, Tidy, NEW h \in Handlers,
         \/ Create(h) \/ ArchiveBackup(h) \/ CreateAsk(h) \/ CreateAnswered(h)
         \/ CreateRefused(h)
  PROVE  Tidy'
<1> USE Before, IdleCall DEF TidyWith, RequestTidy, UploadsTidy, ArchiveTidy, Bears, Kept, Stranded
<1>1. CASE Create(h)
  <2>1. /\ row.state = "none" /\ Enters(h, Request("created", "panel"))
        /\ row' = [row EXCEPT !.state = "running"] /\ UNCHANGED <<wings, object, uploads, left>>
    BY <1>1 DEF Create
  <2>2. row'.state = "running" /\ row'.disk = row.disk /\ row'.upload = row.upload
    BY <2>1 DEF Row
  <2>3. wings = Nothing /\ row.upload = NoUpload
    BY <2>1 DEF IInv, Fresh, UploadOf
  <2>4. Request("created", "panel") \in Call /\ Request("created", "panel").at = "created"
    BY Requests
  <2>5. TidyWith(Idle, row, wings, Kept, uploads) =>
          TidyWith(Request("created", "panel"), row', wings', Kept', uploads')
    BY <2>1, <2>2, <2>3, <2>4, IdleFails, Jobs
  <2> QED
    BY <2>1, <2>4, <2>5, CameIn
<1>2. CASE ArchiveBackup(h) \/ CreateAnswered(h) \/ CreateRefused(h)
  <2>1. /\ call[h].at \in {"created", "creating"} /\ Becomes(h, Idle)
        /\ UNCHANGED <<wings, object, uploads, marks, left>>
    BY <1>2 DEF ArchiveBackup, CreateAnswered, CreateRefused
  <2>2. /\ row'.disk = row.disk
        /\ \/ row'.state = row.state /\ row'.upload = row.upload
           \/ row'.state = "gone" /\ row'.upload = NoUpload
    BY <1>2, GoneRow DEF ArchiveBackup, CreateAnswered, CreateRefused, Row
  <2>3. TidyWith(call[h], row, wings, Kept, uploads) =>
          TidyWith(Idle, row', wings', Kept', uploads')
    BY <2>1, <2>2 DEF Uploads, NoUpload
  <2> QED
    BY <2>1, <2>3, WentOn
<1>3. CASE CreateAsk(h)
  <2>1. /\ call[h].at = "created" /\ UNCHANGED <<row, object, uploads, marks, left>>
        /\ wings' = Now("asked") \/ wings' = wings
    BY <1>3 DEF CreateAsk, AskWings, NotAsked
  <2>2. PICK d \in Call : Becomes(h, d) /\ d.at = "creating"
    <3>1. CASE \E ok \in BOOLEAN : Becomes(h, [Request("creating", "panel") EXCEPT !.ok = ok])
      <4>1. PICK ok \in BOOLEAN : Becomes(h, [Request("creating", "panel") EXCEPT !.ok = ok])
        BY <3>1
      <4>2. Request("creating", "panel") \in Call /\ Request("creating", "panel").at = "creating"
        BY Requests
      <4>3. /\ [Request("creating", "panel") EXCEPT !.ok = ok] \in Call
            /\ [Request("creating", "panel") EXCEPT !.ok = ok].at = "creating"
        BY <4>2 DEF Call
      <4> QED
        BY <4>1, <4>3
    <3>2. CASE Moves(h, "creating")
      <4>1. /\ [call[h] EXCEPT !.at = "creating"] \in Call
            /\ [call[h] EXCEPT !.at = "creating"].at = "creating"
        BY DEF Call
      <4> QED
        BY <3>2, <4>1 DEF Moves
    <3> QED
      BY <1>3, <3>1, <3>2 DEF CreateAsk
  <2>3. TidyWith(call[h], row, wings, Kept, uploads) =>
          TidyWith(d, row', wings', Kept', uploads')
    BY <2>1, <2>2, Jobs
  <2> QED
    BY <2>1, <2>2, <2>3, WentOn
<1> QED
  BY <1>1, <1>2, <1>3

\* A ticket is asked for, refused or not.
LEMMA OpenReadTidies ==
  ASSUME IInv, Tidy, NEW by \in {"wings", "agent"},
         (\E h \in Handlers : OpenRead(h, by)) \/ OpenRefused(by)
  PROVE  Tidy'
<1> USE Before, IdleCall DEF TidyWith, RequestTidy, UploadsTidy, ArchiveTidy, Bears, Kept, Stranded
<1>1. ASSUME NEW h \in Handlers, OpenRead(h, by) PROVE Tidy'
  <2> DEFINE d == [Request("opening", by) EXCEPT !.upload = row.upload]
  <2>1. /\ row.disk = "s3" /\ row.state = "running" /\ Enters(h, d)
        /\ UNCHANGED <<row, wings, object, uploads, left>>
    BY <1>1 DEF OpenRead, Openable, Running
  <2>2. d \in Call /\ d.at = "opening" /\ d.upload = row.upload
    <3>1. Request("opening", by) \in Call /\ row.upload \in 0..MaxUploads
      BY Requests DEF Row
    <3> QED
      BY <3>1, Opening DEF Call
  <2> HIDE DEF d
  <2>3. TidyWith(Idle, row, wings, Kept, uploads) => TidyWith(d, row', wings', Kept', uploads')
    BY <2>1, <2>2, IdleFails
  <2> QED
    BY <2>1, <2>2, <2>3, CameIn
<1>2. CASE OpenRefused(by)
  <2>1. UNCHANGED <<row, object, uploads, call, marks, left>>
    BY <1>2 DEF OpenRefused
  <2>2. wings' = wings \/ (row.disk = "s3" /\ wings.at = "asked" /\ wings'.at = "broken")
    BY <1>2, WorkerSet, Jobs DEF OpenRefused, Worker
  <2>3. ASSUME NEW c \in Call, TidyWith(c, row, wings, Kept, uploads)
        PROVE  TidyWith(c, row', wings', Kept', uploads')
    BY <2>1, <2>2, <2>3, Jobs
  <2> QED
    BY <2>1, <2>3, WentAround
<1> QED
  BY <1>1, <1>2

\* The former upload is aborted before another is opened.
LEMMA OpenTicketTidies ==
  ASSUME IInv, Tidy, NEW h \in Handlers, NEW u \in Uploads, OpenTicket(h, u)
  PROVE  Tidy'
<1> USE Before, IdleCall DEF TidyWith, RequestTidy, UploadsTidy, ArchiveTidy, Bears, Kept, Stranded
<1> DEFINE d == [call[h] EXCEPT !.at = "opened", !.upload = u]
<1>1. /\ call[h].at = "opening" /\ Becomes(h, d) /\ UNCHANGED <<row, wings, object, left>>
      /\ marks' = {} => /\ marks = {}
                        /\ uploads' = [WithoutUpload(call[h].upload) EXCEPT ![u] = "open"]
  BY FaultsMark DEF OpenTicket
<1>2. d \in Call /\ d.at = "opened" /\ d.upload = u
  <2>1. call[h] \in Call /\ u \in 0..MaxUploads
    BY DEF Uploads
  <2> QED
    BY <2>1 DEF Call
<1> HIDE DEF d
<1>3. ASSUME marks' = {}, TidyWith(call[h], row, wings, Kept, uploads)
      PROVE  TidyWith(d, row', wings', Kept', uploads')
  <2>1. \A v \in Uploads : uploads[v] = "open" => v = call[h].upload
    BY <1>1, <1>3
  <2>2. \A v \in Uploads : uploads'[v] = "open" => v = u
    BY <1>1, <1>3, <2>1 DEF WithoutUpload
  <2> QED
    BY <1>1, <1>2, <1>3, <2>2
<1> QED
  BY <1>1, <1>2, <1>3, WentOn

\* No upload is opened, or the one that is takes the place of the one recorded.
LEMMA OpenEndsTidies ==
  ASSUME IInv, Tidy, NEW h \in Handlers,
         OpenFails(h) \/ OpenRecord(h) \/ \E u \in Uploads : OpenUnheard(h, u)
  PROVE  Tidy'
<1> USE Before, IdleCall DEF TidyWith, RequestTidy, UploadsTidy, ArchiveTidy, Bears, Kept, Stranded
<1>1. /\ call[h].at \in {"opening", "opened"} /\ Becomes(h, Idle) /\ UNCHANGED <<object, left>>
      /\ call[h].by \in {"panel", "wings", "agent"} /\ call[h].upload \in 0..MaxUploads
      /\ row.disk = "s3"
  BY DEF OpenFails, OpenRecord, OpenUnheard, Call, CallSound
<1>2. Idle.ok = FALSE
  BY IdleFails
<1>3. CASE OpenFails(h)
  <2>1. call[h].at = "opening" /\ UNCHANGED row /\ Abort(call[h].upload)
    BY <1>3 DEF OpenFails
  <2>2. ASSUME marks' = {}, TidyWith(call[h], row, wings, Kept, uploads)
        PROVE  marks = {} /\ TidyWith(Idle, row', wings', Kept', uploads')
    <3>1. \A v \in Uploads : uploads[v] = "open" => v = call[h].upload
      BY <2>1, <2>2
    <3>2. marks = {} /\ \A v \in Uploads : uploads'[v] # "open"
      BY <1>1, <2>1, <2>2, <3>1, AbortTidies
    <3> QED
      BY <1>1, <1>2, <2>1, <2>2, <3>2
  <2>3. marks' = {} => marks = {}
    BY <2>1, FaultsMark DEF Abort
  <2> QED
    BY <1>1, <2>2, <2>3, WentOn
<1>4. CASE OpenRecord(h)
  <2>1. /\ call[h].at = "opened" /\ UNCHANGED <<uploads, marks>>
        /\ row' = IF Running THEN [row EXCEPT !.upload = call[h].upload] ELSE row
    BY <1>4 DEF OpenRecord
  <2>2. ASSUME TidyWith(call[h], row, wings, Kept, uploads)
        PROVE  TidyWith(Idle, row', wings', Kept', uploads')
    <3>1. row'.state = "running" /\ row'.upload = call[h].upload /\ row'.disk = row.disk
          /\ row.state = "running"
      BY <1>1, <2>1, <2>2 DEF Running, Row
    <3> QED
      BY <1>1, <1>2, <2>1, <2>2, <3>1
  <2> QED
    BY <1>1, <2>1, <2>2, WentOn
<1>5. ASSUME NEW u \in Uploads, OpenUnheard(h, u) PROVE Tidy'
  <2>1. marks' # {}
    BY <1>5, FaultsMark DEF OpenUnheard
  <2> QED
    BY <2>1 DEF Tidy
<1> QED
  BY <1>3, <1>4, <1>5

\* A report of the daemon bears the archive it made; one of the agent is about an
\* archive that is not in the bucket yet.
LEMMA ReportTidies ==
  ASSUME IInv, Tidy, NEW h \in Handlers, WingsReports(h) \/ AgentReports(h)
  PROVE  Tidy'
<1> USE Before, IdleCall DEF TidyWith, RequestTidy, UploadsTidy, ArchiveTidy, Bears, Kept, Stranded
<1>1. Idle.ok = FALSE /\ UNCHANGED <<row, object, uploads, left>>
  BY IdleFails DEF WingsReports, AgentReports
<1>2. CASE WingsReports(h)
  <2> DEFINE d == Reported("wings", wings)
  <2>1. /\ wings.at \in {"done", "broken"} /\ Enters(h, d)
        /\ wings' = wings \/ wings'.at = "idle"
    BY <1>2, Jobs DEF WingsReports
  <2>2. d \in Call /\ d.at = "reported" /\ d.by = "wings" /\ d.ok = (wings.at = "done")
    BY ReportFields DEF Job
  <2> HIDE DEF d
  <2>3. TidyWith(Idle, row, wings, Kept, uploads) => TidyWith(d, row', wings', Kept', uploads')
    BY <1>1, <2>1, <2>2
  <2> QED
    BY <2>1, <2>2, <2>3, CameIn
<1>3. CASE AgentReports(h)
  <2> DEFINE d == Reported("agent", agent)
  <2>1. agent.at \in {"done", "broken"} /\ Enters(h, d) /\ UNCHANGED wings
    BY <1>3 DEF AgentReports
  <2>2. d \in Call /\ d.at = "reported" /\ row.disk = "s3"
    BY <2>1, ReportFields DEF AgentJob, AgentSound
  <2> HIDE DEF d
  <2>3. TidyWith(Idle, row, wings, Kept, uploads) => TidyWith(d, row', wings', Kept', uploads')
    BY <1>1, <2>1, <2>2
  <2> QED
    BY <2>1, <2>2, <2>3, CameIn
<1> QED
  BY <1>2, <1>3

\* A report on a row that is gone has the daemon erase the archive it keeps.
LEMMA CompleteReadTidies ==
  ASSUME IInv, Tidy, NEW h \in Handlers, CompleteRead(h)
  PROVE  Tidy'
<1> USE Before, IdleCall DEF TidyWith, RequestTidy, UploadsTidy, ArchiveTidy, Bears, Kept, Stranded
<1>1. call[h].at = "reported" /\ UNCHANGED <<row, wings, uploads, marks, left>>
  BY DEF CompleteRead
<1>2. CASE Running /\ Found(call[h].by)
  <2> DEFINE d == [call[h] EXCEPT !.at = "read", !.upload = row.upload]
  <2>1. Becomes(h, d) /\ UNCHANGED object
    BY <1>2 DEF CompleteRead
  <2>2. /\ d \in Call /\ d.at = "read" /\ d.upload = row.upload /\ d.by = call[h].by
        /\ d.ok = call[h].ok
    BY DEF Call, Row
  <2> HIDE DEF d
  <2>3. TidyWith(call[h], row, wings, Kept, uploads) =>
          TidyWith(d, row', wings', Kept', uploads')
    BY <1>1, <1>2, <2>1, <2>2 DEF Running
  <2> QED
    BY <1>1, <2>1, <2>2, <2>3, WentOn
<1>3. CASE ~(Running /\ Found(call[h].by))
  <2>1. /\ Becomes(h, Idle)
        /\ object' = (object /\ (Found(call[h].by) \/ call[h].by # "wings" \/ row.disk # "local"))
    BY <1>3 DEF CompleteRead
  <2>2. row.state \in {"running", "succeeded", "failed", "gone"} /\ Idle.ok = FALSE
    BY <1>1, NotFresh, IdleFails DEF Row
  <2>3. ASSUME TidyWith(call[h], row, wings, Kept, uploads)
        PROVE  TidyWith(Idle, row', wings', Kept', uploads')
    <3>1. CASE call[h].by = "wings" /\ row.disk = "local" /\ ~Found(call[h].by)
      <4>1. Kept' = FALSE
        BY <2>1, <3>1
      <4> QED
        BY <1>1, <2>2, <2>3, <3>1, <4>1
    <3>2. CASE ~(call[h].by = "wings" /\ row.disk = "local" /\ ~Found(call[h].by))
      <4>1. Kept' = Kept
        BY <1>1, <2>1, <3>2
      <4>2. Found(call[h].by) => row.state \in {"succeeded", "failed"}
        BY <1>3, <2>2 DEF Found, Running
      <4> QED
        BY <1>1, <2>2, <2>3, <3>2, <4>1, <4>2
    <3> QED
      BY <3>1, <3>2
  <2> QED
    BY <1>1, <2>1, <2>3, WentOn
<1> QED
  BY <1>2, <1>3

\* Joined or aborted, the upload is not open any more when the outcome is decided.
LEMMA DecidesTidies ==
  ASSUME IInv, Tidy, NEW h \in Handlers, Join(h) \/ JoinFails(h) \/ Decide(h)
  PROVE  Tidy'
<1> USE Before, IdleCall DEF TidyWith, RequestTidy, UploadsTidy, ArchiveTidy, Bears, Kept, Stranded
<1>1. /\ call[h].at = "read" /\ UNCHANGED <<row, wings, left>>
      /\ call[h].upload \in 0..MaxUploads /\ call[h].ok \in BOOLEAN
      /\ call[h].by \in {"panel", "wings", "agent"}
  BY DEF Join, JoinFails, Decide, Call
<1> DEFINE d(ok) == [Request("decided", call[h].by) EXCEPT !.ok = ok]
<1>2. \A ok \in BOOLEAN : d(ok) \in Call /\ d(ok).at = "decided" /\ d(ok).ok = ok
  BY <1>1, Deciding
<1>3. \A ok : Decides(h, ok) <=> Becomes(h, d(ok))
  BY DEF Decides
<1> HIDE DEF d
<1>4. ASSUME TidyWith(call[h], row, wings, Kept, uploads)
      PROVE  /\ call[h].upload = row.upload /\ row.state = "running"
             /\ \A v \in Uploads : uploads[v] = "open" => v = call[h].upload
             /\ call[h].upload # NoUpload => row.disk = "s3"
  BY <1>1, <1>4 DEF IInv, UploadOf
<1>5. CASE Join(h)
  <2>1. /\ call[h].upload # NoUpload /\ object' = TRUE
        /\ uploads' = [uploads EXCEPT ![call[h].upload] = "closed"]
        /\ \/ Becomes(h, d(TRUE)) /\ UNCHANGED marks
           \/ Becomes(h, d(FALSE)) /\ marks' # {}
    BY <1>3, <1>5, FaultsMark DEF Join
  <2>2. ASSUME TidyWith(call[h], row, wings, Kept, uploads)
        PROVE  TidyWith(d(TRUE), row', wings', Kept', uploads')
    <3>1. \A v \in Uploads : uploads'[v] # "open"
      BY <1>4, <2>1, <2>2 DEF Bucket
    <3> QED
      BY <1>1, <1>2, <1>4, <2>1, <2>2, <3>1
  <2>3. CASE Becomes(h, d(TRUE)) /\ UNCHANGED marks
    BY <1>1, <1>2, <2>2, <2>3, WentOn
  <2>4. CASE Becomes(h, d(FALSE)) /\ marks' # {}
    BY <1>1, <1>2, <2>4, WentOn
  <2> QED
    BY <2>1, <2>3, <2>4
<1>6. CASE JoinFails(h) \/ Decide(h)
  <2>1. PICK ok \in BOOLEAN :
          /\ Becomes(h, d(ok)) /\ Abort(call[h].upload) /\ UNCHANGED object
          /\ \/ ~ok /\ call[h].upload # NoUpload
             \/ ok = call[h].ok /\ (ok => call[h].upload = NoUpload)
    BY <1>1, <1>3, <1>6 DEF JoinFails, Decide
  <2>2. marks' = {} => marks = {}
    BY <2>1, FaultsMark DEF Abort
  <2>3. ASSUME marks' = {}, TidyWith(call[h], row, wings, Kept, uploads)
        PROVE  TidyWith(d(ok), row', wings', Kept', uploads')
    <3>1. \A v \in Uploads : uploads'[v] # "open"
      BY <1>1, <1>4, <2>1, <2>3, AbortTidies
    <3>2. Kept => row.disk = "local"
      BY <1>1, <1>4, <2>3
    <3>3. call[h].upload # NoUpload => row.disk = "s3"
      BY <1>4, <2>3
    <3> QED
      BY <1>1, <1>2, <1>4, <2>1, <2>3, <3>1, <3>2, <3>3
  <2> QED
    BY <1>1, <1>2, <2>1, <2>2, <2>3, WentOn
<1> QED
  BY <1>5, <1>6

\* The outcome that was decided is written.
LEMMA CompleteWriteTidies ==
  ASSUME IInv, Tidy, NEW h \in Handlers, CompleteWrite(h)
  PROVE  Tidy'
<1> USE Before, IdleCall DEF TidyWith, RequestTidy, UploadsTidy, ArchiveTidy, Bears, Kept, Stranded
<1>1. /\ call[h].at = "decided" /\ Becomes(h, Idle) /\ UNCHANGED <<wings, object, uploads, marks, left>>
      /\ row' = IF Running THEN [row EXCEPT !.state = Outcome(h), !.upload = NoUpload] ELSE row
  BY DEF CompleteWrite
<1>2. ASSUME TidyWith(call[h], row, wings, Kept, uploads)
      PROVE  TidyWith(Idle, row', wings', Kept', uploads')
  <2>1. row.state = "running"
    BY <1>1, <1>2
  <2>2. /\ row'.state = Outcome(h) /\ row'.disk = row.disk
    BY <1>1, <2>1 DEF Running, Row
  <2> QED
    BY <1>1, <1>2, <2>1, <2>2 DEF Outcome
<1> QED
  BY <1>1, <1>2, WentOn

\* An order is closed, and what becomes of its backup; only the bucket has orders.
LEMMA OrderTidies ==
  ASSUME IInv, Tidy, NEW h \in Handlers, AgentResult(h) \/ ExpireOrder(h)
  PROVE  Tidy'
<1> USE Before, IdleCall DEF TidyWith, RequestTidy, UploadsTidy, ArchiveTidy, Bears, Kept, Stranded
<1>1. /\ order = "pending" /\ UNCHANGED <<row, wings, object, uploads, left>>
      /\ UNCHANGED <<call, marks>> \/ \E begun \in BOOLEAN : Enters(h, Settling(begun))
  BY DEF AgentResult, ExpireOrder
<1>2. row.disk = "s3" /\ Idle.ok = FALSE
  BY <1>1, IdleFails DEF AgentSound
<1>3. CASE UNCHANGED <<call, marks>>
  BY <1>1, <1>3, WentAround
<1>4. ASSUME NEW begun \in BOOLEAN, Enters(h, Settling(begun)) PROVE Tidy'
  <2>1. Settling(begun) \in Call /\ Settling(begun).at = "settling"
    BY Deciding DEF Settling
  <2>2. TidyWith(Idle, row, wings, Kept, uploads) =>
          TidyWith(Settling(begun), row', wings', Kept', uploads')
    BY <1>1, <1>2, <2>1
  <2> QED
    BY <1>4, <2>1, <2>2, CameIn
<1> QED
  BY <1>1, <1>3, <1>4

LEMMA SettleTidies ==
  ASSUME IInv, Tidy, NEW h \in Handlers,
         SettleRead(h) \/ HandOver(h) \/ SettleAsked(h) \/ SettleDropped(h)
  PROVE  Tidy'
<1> USE Before, IdleCall DEF TidyWith, RequestTidy, UploadsTidy, ArchiveTidy, Bears, Kept, Stranded
<1>1. ASSUME SettleDropped(h) PROVE Tidy'
  <2>1. marks' # {}
    BY <1>1, FaultsMark DEF SettleDropped
  <2> QED
    BY <2>1 DEF Tidy
<1>2. ASSUME SettleRead(h) \/ HandOver(h) \/ SettleAsked(h) PROVE Tidy'
  <2>1. /\ call[h].at \in {"settling", "handing", "asking"} /\ UNCHANGED <<object, uploads, marks>>
        /\ row.disk = "s3"
    BY <1>2 DEF SettleRead, HandOver, SettleAsked, CallSound
  <2>2. row'.state = row.state /\ row'.disk = row.disk /\ row'.upload = row.upload
    BY <1>2 DEF SettleRead, HandOver, SettleAsked, Row
  <2>3. PICK d \in Call : /\ Becomes(h, d)
                          /\ d.at \in {"idle", "reported", "handing", "asking"}
    <3>1. CASE SettleRead(h) \/ SettleAsked(h)
      BY <3>1, Plain DEF SettleRead, SettleAsked
    <3>2. CASE HandOver(h)
      <4>1. /\ [call[h] EXCEPT !.at = "asking"] \in Call
            /\ [call[h] EXCEPT !.at = "asking"].at = "asking"
        BY DEF Call
      <4> QED
        BY <3>2, <4>1 DEF HandOver, Moves
    <3> QED
      BY <1>2, <3>1, <3>2
  <2>4. TidyWith(call[h], row, wings, Kept, uploads) =>
          TidyWith(d, row', wings', Kept', uploads')
    BY <2>1, <2>2, <2>3
  <2> QED
    BY <2>1, <2>3, <2>4, WentOn
<1> QED
  BY <1>1, <1>2

\* The daemon makes the archive, or fails.
LEMMA WingsTidies ==
  ASSUME IInv, Tidy, WingsArchives \/ WingsBreaks
  PROVE  Tidy'
<1> USE Before, IdleCall DEF TidyWith, RequestTidy, UploadsTidy, ArchiveTidy, Bears, Kept, Stranded
<1>1. /\ wings.at \in {"asked", "links"} /\ UNCHANGED <<row, uploads, call, marks, left>>
      /\ wings # Nothing
  BY Jobs DEF WingsArchives, WingsBreaks
<1>2. wings.at = "links" => row.disk = "s3"
  BY DEF WingsSound
<1>3. \/ wings'.at = "done" /\ object' = (object \/ row.disk = "local")
      \/ wings'.at = "broken" /\ UNCHANGED object
  BY Jobs DEF WingsArchives, WingsBreaks, Job
<1>4. ASSUME NEW c \in Call, TidyWith(c, row, wings, Kept, uploads)
      PROVE  TidyWith(c, row', wings', Kept', uploads')
  <2>1. row.disk \in {"s3", "local"}
    BY DEF Row
  <2> QED
    BY <1>1, <1>2, <1>3, <1>4, <2>1
<1> QED
  BY <1>1, <1>4, WentAround

\* A removal takes with it the upload that was read, and the archive.
LEMMA RemoveTidies ==
  ASSUME IInv, Tidy, NEW h \in Handlers,
         RemoveRead(h) \/ Discard(h) \/ DiscardRefused(h) \/ Delete(h)
  PROVE  Tidy'
<1> USE Before, IdleCall DEF TidyWith, RequestTidy, UploadsTidy, ArchiveTidy, Bears, Kept, Stranded
<1>1. Idle.ok = FALSE
  BY IdleFails
<1>2. CASE RemoveRead(h)
  <2> DEFINE d == [Request("removing", "panel") EXCEPT !.upload = row.upload]
  <2>1. Enters(h, d) /\ UNCHANGED <<row, wings, object, uploads, left>>
    BY <1>2 DEF RemoveRead
  <2>2. d \in Call /\ d.at = "removing" /\ d.upload = row.upload
    <3>1. Request("removing", "panel") \in Call /\ row.upload \in 0..MaxUploads
      BY Requests DEF Row
    <3> QED
      BY <3>1, Opening DEF Call
  <2> HIDE DEF d
  <2>3. TidyWith(Idle, row, wings, Kept, uploads) => TidyWith(d, row', wings', Kept', uploads')
    BY <1>1, <2>1, <2>2
  <2> QED
    BY <2>1, <2>2, <2>3, CameIn
<1>3. CASE Discard(h)
  <2> DEFINE d == Request("discarded", "panel")
  <2>1. /\ call[h].at = "removing" /\ Becomes(h, d) /\ UNCHANGED <<row, wings, left>>
        /\ marks' = {} => /\ uploads' = WithoutUpload(call[h].upload) /\ marks = {}
                          /\ object' = (object /\ Stranded)
    BY <1>3, FaultsMark DEF Discard
  <2>2. d \in Call /\ d.at = "discarded" /\ d.ok = FALSE
    BY Requests
  <2> HIDE DEF d
  <2>3. ASSUME marks' = {}, TidyWith(call[h], row, wings, Kept, uploads)
        PROVE  TidyWith(d, row', wings', Kept', uploads')
    <3>1. \A v \in Uploads : uploads'[v] # "open"
      BY <2>1, <2>3 DEF WithoutUpload
    <3> QED
      BY <2>1, <2>2, <2>3, <3>1
  <2> QED
    BY <2>1, <2>2, <2>3, WentOn
<1>4. CASE DiscardRefused(h) \/ Delete(h)
  <2>1. /\ call[h].at \in {"removing", "discarded"} /\ Becomes(h, Idle)
        /\ UNCHANGED <<wings, object, uploads, marks, left>>
        /\ UNCHANGED row \/ (call[h].at = "discarded" /\ row' = Gone)
    BY <1>4 DEF DiscardRefused, Delete
  <2>2. /\ row'.disk = row.disk
        /\ \/ row' = row
           \/ call[h].at = "discarded" /\ row'.state = "gone" /\ row'.upload = NoUpload
        /\ call[h].at = "removing" => row' = row
    BY <1>4, GoneRow DEF DiscardRefused, Delete
  <2>3. TidyWith(call[h], row, wings, Kept, uploads) =>
          TidyWith(Idle, row', wings', Kept', uploads')
    BY <1>1, <2>1, <2>2
  <2> QED
    BY <2>1, <2>3, WentOn
<1> QED
  BY <1>2, <1>3, <1>4

\* What the agent does by itself, a move of the server, after which nothing that is
\* kept is on the disk of a node, and restarts, which are remembered.
LEMMA AroundTidies ==
  ASSUME IInv, Tidy,
         \/ AgentFetches \/ AgentDeposits \/ AgentUnheard
         \/ ServerMoves \/ Crash \/ AgentHalts \/ WingsHalts
  PROVE  Tidy'
<1>1. CASE AgentFetches \/ AgentDeposits \/ AgentUnheard
  <2>1. UNCHANGED <<row, wings, object, uploads, call, marks, left>>
    BY <1>1 DEF AgentFetches, AgentDeposits, AgentUnheard
  <2> QED
    BY <2>1, WentAround DEF Kept, Stranded
<1>2. CASE Crash \/ AgentHalts \/ WingsHalts
  <2>1. marks' # {}
    BY <1>2, FaultsMark DEF Crash, AgentHalts, WingsHalts
  <2> QED
    BY <2>1 DEF Tidy
<1>3. CASE ServerMoves
  <2>1. UNCHANGED <<row, wings, uploads, call, marks>> /\ (Kept' => Kept)
    BY <1>3 DEF ServerMoves, Kept, Stranded
  <2>2. ASSUME NEW c \in Call, TidyWith(c, row, wings, Kept, uploads)
        PROVE  TidyWith(c, row', wings', Kept', uploads')
    BY <2>1, <2>2 DEF TidyWith, RequestTidy, UploadsTidy, ArchiveTidy
  <2> QED
    BY <2>1, <2>2, WentAround
<1> QED
  BY <1>1, <1>2, <1>3

LEMMA TidyKept ==
  ASSUME IInv, Tidy, [Next]_vars
  PROVE  Tidy'
<1>1. ASSUME NEW h \in Handlers, Proceed(h) PROVE Tidy'
  BY <1>1, CreateTidies, OpenTicketTidies, OpenEndsTidies, CompleteReadTidies, DecidesTidies,
     CompleteWriteTidies, SettleTidies, RemoveTidies DEF Proceed
<1>2. ASSUME NEW h \in Handlers, Begin(h) PROVE Tidy'
  BY <1>2, CreateTidies, RemoveTidies, OpenReadTidies, ReportTidies, OrderTidies DEF Begin
<1>3. CASE Outside
  BY <1>3, OpenReadTidies, WingsTidies, AroundTidies DEF Outside
<1>4. CASE UNCHANGED vars
  <2>1. UNCHANGED <<row, wings, object, uploads, call, marks, left>>
    BY <1>4 DEF vars
  <2> QED
    BY <2>1, WentAround DEF Kept, Stranded
<1> QED
  BY <1>1, <1>2, <1>3, <1>4 DEF Next

LEMMA TidyFirst == Init => Tidy
<1> SUFFICES ASSUME Init PROVE Only(Idle) /\ TidyWith(Idle, row, wings, Kept, uploads)
  BY IdleCall DEF Tidy
<1>1. /\ row.state = "none" /\ wings = Nothing /\ object = FALSE
      /\ uploads = [u \in Uploads |-> "unused"] /\ \A h \in Handlers : call[h] = Idle
  BY DEF Init
<1>2. Only(Idle)
  BY <1>1 DEF Only
<1>3. TidyWith(Idle, row, wings, Kept, uploads)
  BY <1>1, IdleCall, Jobs DEF TidyWith, RequestTidy, UploadsTidy, ArchiveTidy, Kept
<1> QED
  BY <1>2, <1>3

\* As long as no two requests about the backup overlapped, none was cut short or skipped
\* and the bucket answered, an upload that is still open is the one a running row names,
\* and an archive belongs to a success, to a daemon about to report it or to the disk of
\* a node that the server has left, whenever no request is in progress.
THEOREM NothingIsLeft == Spec => []NothingLeft
<1>1. Tidy => NothingLeft
  <2> SUFFICES ASSUME Tidy, Quiet, marks = {}
               PROVE  /\ \A u \in Uploads : uploads[u] = "open" => Running /\ row.upload = u
                      /\ object => \/ row.state = "succeeded"
                                   \/ row.disk = "local" /\ wings.at = "done"
                                   \/ Stranded
    BY DEF NothingLeft
  <2>1. PICK c \in Call : Only(c) /\ TidyWith(c, row, wings, Kept, uploads)
    BY DEF Tidy
  <2>2. c = Idle
    BY <2>1 DEF Only, Quiet
  <2> QED
    BY <2>1, <2>2, IdleCall, IdleFails DEF TidyWith, UploadsTidy, ArchiveTidy, Bears, Running, Kept
<1>2. Spec => []Tidy
  BY TidyFirst, TidyKept, Inductive, PTL DEF Spec
<1> QED
  BY <1>1, <1>2, PTL
=============================================================================
