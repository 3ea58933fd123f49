# GameDashboard in TLA+

GameDashboard is a panel for hosting game servers: an API (TypeScript, NestJS,
PostgreSQL), web and mobile interfaces, and an agent (Go) that runs on each
machine and keeps snapshots of the servers' volumes. The machines ("nodes") also
run Wings, an upstream daemon that runs the games in containers.

This directory holds the specifications of the parts whose difficulty is the
*order of things*: what the panel believes of a server, what two machines do
with its files meanwhile, and what happens when a request, a daemon, the agent
or the panel stops in between.

Paths below are relative to `src/`; `modules/` is `apps/api/src/modules/`.

## 1. The system

### Parts, state, operations

| part | state it keeps | operations | modelled in |
|---|---|---|---|
| Server transfer (`modules/admin/server-transfer.service.ts`, its reaper, the report route of `remote/remote.controller.ts`) | `server_transfers`, `servers.node_id/allocation_id/state`, `allocations.server_id` | start, reserve, complete, fail, rollback, expireStale | `ServerTransfer` |
| Ports (`modules/client/allocations.service.ts`) | `allocations`, `servers.allocation_id` | claim, setPrimary, release | `ServerTransfer` |
| Suspension (`modules/admin/admin-actions.service.ts`) | `servers.state` | setServerSuspended | `ServerTransfer`, `SnapshotRestore` |
| Snapshot orders (`modules/snapshots/snapshots.service.ts` and its reaper) | `snapshot_orders`, `volume_snapshots`, pins, `servers.state` | restore, releaseWhenStopped, failWaiting, expireOrders, agentState, applyReport; take, destroy, pin; archiveBackup, settleArchive | orders `restaurer` in `SnapshotRestore`, `archiver` in `Backup`; `prendre` and `detruire`, from the agent's side, in `SnapshotRotation` |
| Agent (`agent/internal/instantanes`, `agent/internal/journal`) | its journal (SQLite), the snapshots, the volumes | Releve, executer, restaurer, prendre, prendreRegroupe, detruire, archiver; APrendreAuto, AConserver, ADetruire, OrdreDeSacrifice | the same three |
| Backups (`modules/client/backups.service.ts`, `modules/remote/remote-backup.service.ts`, `modules/storage`) | `backups`, multipart uploads, `servers.state` | create, remove, openUpload, complete; restore, restored, expireStaleRestores | `Backup`; restoration in `SnapshotRestore` |
| Server as the daemon tells it (`modules/remote/remote-server.service.ts`) | `servers.state` | resetTransientStates, markInstalled | `resetTransientStates` in `SnapshotRestore` |
| Power (`modules/client/server-runtime.controller.ts`) | - | power | the check and the call, in `SnapshotRestore` |
| Schedules (`modules/scheduler`, `modules/client/schedules.service.ts`) | `schedules.next_run_at`, the set `enVol` of each process | tick, claimDue, execute, reschedule, signalerEchec; setActive, runNow, update, remove | `Schedules` |
| Webhooks (`modules/webhooks`) | deliveries with `next_attempt_at` | claimDue, deliver, settle, retry | `WebhookQueue` |
| Pushes (`modules/push`, `modules/auth/app-device.repository.ts`) | `push_outbox`, the handle in the row of a device | enqueue, send, trancher, forget; setPush, revokeById | `PushOutbox` |
| Phones (`modules/auth/app-device.repository.ts`, `apps/mobile/src/noyau/session.ts`) | the row of a device, the secret the phone keeps | refresh, activeDevice, revokeById; renouveler, perdre | `AppDevice` |
| Updates (`modules/updates`, `infra/cpanel/lanceur.cjs`) | `etat.json`, the versions on disk | checkOnce, install, confirmIfPending, rollback, cleanupVersions; the launcher's start, count and revert | `Updates` |
| Subdomains (`modules/dns/subdomains.service.ts`) | `server_subdomains`, the records at the provider | claim, release, departing, syncRow, move, publish, removeRecords, removeLost | `Subdomains` |
| Marketplace, provisioning, authentication, resellers, billing, monitoring, mail, interfaces, SDK, plugins | their own rows | - | no (section 10) |

### How they interact

- One column, `servers.state`, serves as the lock of a server: `null` when it is
  free, `installing`, `restoring`, `transferring`, `suspended` otherwise. A
  restoration takes it with a compare-and-set; a transfer and a suspension write
  it without condition; five different places lift `restoring`.
- The panel calls Wings over HTTP, with a timeout: a call may be carried out and
  fail all the same. Wings reports back (transfer, backup, restoration, its own
  restart) on routes of `remote/`. A report names a server or a backup, never
  the operation that asked for it.
- The panel never calls the agent. The agent polls: it fetches the orders that
  are `pending`, executes them one after another, and posts one report.
- Timers of the panel sweep what nobody reported: transfers (five minutes),
  snapshot orders (one minute), locks `restoring` (five minutes, after six hours).

### What is hard, and what must hold

The list is in `PROJECT.json` under "hazards", each at its line with the
properties that would catch it. In short:

- *read, then write*: an API handler reads in one statement and writes in
  another, and everything else may happen in between (start of a transfer, the
  two port operations, a power signal, the registration of a push handle, the
  reading of a due delivery);
- *two ends of one operation*: the report of a daemon against the sweep that
  gave up on it, the agent's report against the expiry of its order, two reports
  of one backup, an opening of an upload against a removal. Exactly one must win,
  and it must leave things usable: a lock that somebody will lift, an address, its
  files, no port forgotten, no upload left open and paid for;
- *an answer that does not come*: the call to the daemon, to the bucket, to the
  DNS provider, to a webhook's receiver, to the panel from a phone may have been
  carried out all the same, and is then repeated, undone or forgotten;
- *a stop in the middle*: of the panel between two statements, of the daemon
  during a transfer, of the agent during a copy, of a version on trial before it
  has confirmed itself;
- *boundaries*: slots of time by integer division, a grace period, a retention, a
  number of attempts or of starts, compared with `<` here and `>` there;
- *in the end*: no lock, transfer, order, delivery or trial may stay open for ever.

## 2. The modules

| module | what it is |
|---|---|
| `ServerTransfer` | the transfer of servers between nodes, with the port operations and suspension |
| `SnapshotRestore` | the restoration of a server from a snapshot: panel, agent, backup restoration, starts |
| `BackupPromise` | what a backup promises its owner, without saying how |
| `Backup` | one backup: panel, bucket, daemon, agent; implements `BackupPromise` |
| `Schedules`, `WebhookQueue`, `PushOutbox` | the three queues kept in a column of a table |
| `Updates` | the panel that updates itself, and its launcher |
| `AppDevice` | the secret of a phone, exchanged at each renewal |
| `SnapshotRotation` | the rounds of the agent and the policy of what is kept |
| `Subdomains` | the names of a server at a DNS provider |
| `IndependentParts` | the seven modules above (from `Schedules` on) as one system |
| `MCServerTransfer`, `MCSnapshotRestore`, `MCBackup`, `MCAppDevice`, `MCIndependentParts` | instances for TLC |
| `ServerTransferProofs`, `SnapshotRestoreProofs`, `BackupProofs`, `DueRowsProofs` (on `Schedules` and `WebhookQueue`), `PhoneProofs` (on `PushOutbox` and `AppDevice`), `RetentionProofs` (on `Updates` and `SnapshotRotation`), `SubdomainsProofs`, `IndependentPartsProofs` | theorems, checked by TLAPS |

`ServerTransfer` and `SnapshotRestore` share the column `servers.state`, and each
keeps the values its own operations distinguish. A restoration and a transfer
cannot hold it together by the same test (`state` is null), except through the
windows the findings are about; their composition is in the plan.

`IndependentParts` puts together parts that share no row and no file. It is a
sum, not a product: a behaviour follows one `part`, chosen at the start, while the
others stay as they began. Any interleaving of the seven, seen from one of them,
is one of these behaviours; nothing is lost, and the state space is the sum of
the seven instead of their product.

Conventions. A single `UPDATE` is one step, and so is a transaction nobody can
come between (section 3 has the one that is not); the code between two of them
never is. A call to another program is three
outcomes: answered, refused, or carried out with the answer lost. Variables
called *history* in the modules are not in the program: they name the windows
through which a promise of the code does not hold, so that the property says
exactly when it does. The actions read them only to compute them or to end an
exploration.

## 3. `ServerTransfer`

State. `srv` is the row of each server (node, default port, state), `owner` the
ports, `transfers` the rows of `server_transfers` in order of creation (`late`
once two hours have passed). `call` holds what each handler in progress has read:
a NestJS request, the timer of the sweep, or the route that receives a report.
`jobs` are the transfers some daemon is carrying out, or will still report;
`copies` the nodes that hold the files of a server. `raced`, `strayed` and
`overlooked` are history: they remember that a reservation was made on a check
that no longer held, that the client's two port requests crossed or freed the
port a switch had chosen, and the ports claimed in the middle of a switch. The
properties that need them exclude exactly the windows which the violation runs
exhibit.

Steps. The transaction of `complete` is two. PostgreSQL runs it at READ COMMITTED:
its first `UPDATE` frees the ports it sees at the departure, its second takes the
row of the server. A `claim` that holds that row commits in between a port the
first did not see. `SwitchFrees` is the first half: the row of the transfer and
the freed ports are locked (`RowHeld`, `PortHeld` keep the others waiting), and
what it read is in `call`; `SwitchCommits` is the rest, up to the commit. The other
transactions are one step each, at their commit. `claim` locks the row of the
server first and writes only a port, which nobody sees before the commit. `reserve`
locks the port it takes and reads nothing else, so what it writes is the same whenever
it is written. `rollback` frees the ports of the arrival, where no claim takes one
while the server is at the departure.

| code | actions |
|---|---|
| `start` | `StartRead` (the checks), `StartReserve` / `StartNoPort` (the transaction of `reserve`), `StartOrdered` / `StartRefused` (the call to Wings) |
| `remote.controller.transferState` | `ReportSuccess` (with `isTransferTarget`), `ReportFailure` |
| `complete` | `Pending` (the lookup), `SwitchFrees`, `SwitchCommits` (the transaction), `Delete` (the old copy) |
| `fail`, `rollback` | `Pending`, `Rollback` |
| `expireStale` | `Sweep`, then as `fail` |
| `allocations.claim` / `setPrimary` / `release` | `Claim` / `PrimaryCheck`, `SetPrimary` / `ReleaseCheck`, `Release` |
| `setServerSuspended` | `SetSuspended` |
| Wings, the clock, a restart of the API | `JobLost`, `Age`, `Crash` |

Choices worth knowing:

- `StartOrdered` may end in a rollback: the order was taken and the request
  timed out.
- A daemon replays a report until it is acknowledged (`Reported`), and either end
  may report a failure while the other reports success.
- A report of success requires that the files were somewhere to be sent from:
  daemons do not invent a transfer.
- `reserve` takes the lowest free port and skips the locked ones, `complete` the
  lowest port at the arrival; ports have no order here, so any one is taken.
- The notifications, webhooks and the sync call after a transaction change
  nothing the model has.

Properties:

- `TypeOK`: the type invariant.
- `LockBacked`: `transferring` implies a running transfer, hence a report or a
  sweep that will conclude it.
- `PortsAccounted`: a port of a server is on its node or at the arrival of one of
  its running transfers, whoever concludes it. The exceptions are `raced` and the
  ports `overlooked`, claimed while a switch is between its two updates.
- `AddressKept`: the default port belongs to the server and is on its node. This
  is what the comment in `complete` fears ("un serveur sans adresse").
- `OneOutcome`: a transfer concluded one way is never concluded again.
- `TransferEnds`: every running transfer is concluded.
- `HasAddress`, `FilesAtHome` and `SuspensionHolds` are what the code says and does
  not keep (section 8).

## 4. `SnapshotRestore`

One server. `state` and `overdue` are the lock and its age (six hours),
`orders` the rows of `snapshot_orders` of kind `restaurer`, `call` the requests
and followers in progress, `running` what the daemon does, `backup` that the
daemon is restoring a backup, `echo` the report of the last one, until it is
answered (`first`, then `again`). On the agent's side: `folder` is what the folder
of the server holds (`whole`, or `half` of two states), `journal` the record of each order with the contents of the
safety snapshot, `agent` the round in progress. `faults` counts restarts, answers
lost by a report and writes of the row by others; `excused` and `orphan` are history.

| code | actions |
|---|---|
| `restore` | `RestoreClaim` (compare-and-set), `RestoreInsert` |
| `releaseWhenStopped` | `FollowOffline` (Wings says offline), `FollowSend` (compare-and-set to `pending`), `FollowGivesUp` (`failWaiting`) |
| `expireOrders`, `sweep` | `Age`, `Sweep` |
| `agentState` | `Fetch` (expires first, then lists) |
| `executer`, `restaurer`, `Restaurer` | `Known`, `Begin`, `BeginFails`, `CopyEnds` |
| `applyReport` | `Report`, or `ReportLost` |
| `BackupsService.restore`, `restored`, `expireStaleRestores` | `BackupClaim`, `BackupSend`, `BackupRefused`, `BackupEnds`, `BackupReported`, `BackupLost`, `LockAge`, `ExpireStaleRestores` |
| any other write of the server's row, `setPrimary` for one | `RowTouched` |
| `resetTransientStates`, `setServerSuspended` | `ResetTransientStates`, `SetServerSuspended` |
| `power` and schedules | `StartRead`, `StartSend`; `GameStops` |
| restarts | `Crash` (panel), `AgentHalts` |

Choices worth knowing:

- `age` is 0, 1 (past the five minutes of a waiting order) or 2 (past the six
  hours of an order given to the agent).
- `LockAge` fires only when no younger order or insertion depends on the lock:
  the lock is taken before the order is inserted.
- `BackupReported` may come long after the restoration has ended (`BackupEnds`), and
  again after that: the route finds the server of the backup and lifts `restoring`,
  whoever holds it by then.
- `RowTouched` starts the six hours of the lock again, since the sweep counts from
  `servers.updated_at`.
- `Fetch` does in one step the expiry and the reading that follows it. What comes
  in between in the code can as well come before the fetch.
- `Begin` brackets the record of the order, the safety snapshot and the emptying
  of the folder; `CopyEnds` the copy and the record of its end. A restart is seen
  in between, where it changes something.
- A game that its container restarts after a crash, and players' writes over an
  SFTP session already open, are outside the panel's code and the model.
- A failure of the agent's SQLite journal is not modelled; a failed insert in the
  panel is the same as `Crash` between the claim and the insertion.

Properties:

- `OneWriter`: while the agent copies, neither the game nor the daemon writes the
  folder. `excused` records the two reasons the code cannot exclude: a start that
  passed its check before the lock, and a lock that was lifted under its holder (an
  order or a lock older than six hours, a daemon that restarts, a suspension
  lifted, a backup restoration whose request failed though the daemon took it),
  or by the late or repeated report of a backup restoration.
- `LockAccounted`: whenever `restoring` is set, an open order, a request or the
  daemon will lift it; only a restart (`orphan`) leaves it to the six-hour sweep.
  This is the argument of the comment on `releaseRestore`.
- `ClosedOnce`: a closed order never changes: follower, report and sweep race.
- `ExecutedOnce`: an order the agent finished is never executed again.
- `OrderEnds`, `LockEnds`: every order is closed, every lock lifted, even if another
  write of the row starts the clock of the lock again.
- `Undoable` and `StoppedWhileCopied` are in section 8.

## 5. `Backup` and `BackupPromise`

One backup: backups of a server meet only in its quota. `row` is its row, `order`
the state of the order `archiver` given to the agent, `wings` and `agent` what
each of the two makers of the archive is doing, `object` that an archive is
where it will be looked for, `uploads` the multipart uploads as the bucket knows
them, `call` how far each request or timer in progress has come. `left` says who works
on a node that the server has left meanwhile.

| code | actions |
|---|---|
| `BackupsService.create`, `archiveBackup` | `Create`, `ArchiveBackup`, `CreateAsk`, `CreateAnswered` / `CreateRefused` |
| `openUpload` | `OpenRead` / `OpenRefused`, `OpenTicket` / `OpenFails` / `OpenUnheard`, `OpenRecord` |
| `complete` | `WingsReports` or `AgentReports`, `CompleteRead`, `Join` / `JoinFails`, `Decide`, `CompleteWrite` |
| `agentState`, `applyReport`, `expireOrders`, `settleArchive`, `abandonArchives` | `AgentFetches`, `AgentResult`, `ExpireOrder`, `SettleRead` / `SettleDropped`, `HandOver`, `SettleAsked` |
| `archiver` of the agent; the daemon | `AgentDeposits`, `AgentUnheard`; `WingsArchives`, `WingsBreaks` |
| `remove` | `RemoveRead`, `Discard` / `DiscardRefused`, `Delete` |
| restarts | `Crash` (panel), `AgentHalts`, `WingsHalts` |
| the switch of a transfer | `ServerMoves` |

*Moves.* The reads of `openUpload` and `complete` ask for a backup of a server of the
node that reports, and `settleArchive` reports for the node of the order. Once the
server has been moved (`ServerMoves`), they answer 404 to the daemon and to the agent
of its former node (`Refused`): the daemon then erases the archive it keeps, even when
it only repeats its report of a success, and a settlement stops, with those after it in
the loop (`SettleDropped` is this backup being one of those). The daemon asked after
the move is that of the new node. A local archive does not follow its server
(`docs/runbooks/migration-serveur.md` 54-60): it stays on the node that was left
(`Stranded`), and removing the backup leaves it there. The return of a server to a node
it has left is not modelled: what was refused would be let in again.

*The bucket.* Each call may be refused, or carried out without an answer
(`OpenUnheard`, the second halves of `Join` and `Discard`), which counts as a fault.

Choices worth knowing: the six hours of an order may pass at any moment;
`requireArchiveOrder` is part of the reads it guards; joining the parts of an
upload and aborting it are single calls to the bucket, which refuses an upload
it no longer knows. Quotas, `setLocked`, download links and `awaitCompletion`,
which reads only, are left out.

Properties:

- `PromiseKept`: `Backup` implements `BackupPromise` under the mapping `record <-
  Word, archive <- object`. A backup is closed once; it is called a success only
  with its archive; the archive of a success, and its row, stay until a removal
  is asked. `Word` is what the panel has *answered*: nothing is promised before
  the creation is answered, nor once a removal has begun, nor of a local archive whose
  server was moved.
- `AskedOnce`: the daemon is asked for the archive at most once, though the
  creation, the agent's failure, the expiry and the abandonment may all ask.
- `DoneIsClosed`: the agent's order is done only after the backup is closed.
- `NothingLeft`: once the requests are over, an open upload is the one a running
  row names, and an archive belongs to a success, or stays on the node that its
  server has left. It is promised where no two requests about the backup overlapped,
  none was cut short or skipped, and the bucket answered (`marks`); outside,
  the code does leave things behind: an upload opened while a removal runs, an
  archive on the node when a backup in progress is removed, an archive joined by a
  report while the expiry closes the backup as failed, an upload whose opening was
  never answered.
- `HandedOver`: a silent agent loses no backup, even if it or the daemon restarts. The
  exceptions leave the backup in progress for ever, since no other sweep takes it up: a
  stop of the panel between the closing of the order and its settlement, a settlement
  that is skipped, a move of the server away from the node of the order.

## 6. The independent parts

### `Schedules`

One schedule, several panels. Time goes by ticks of a minute; `next = 0` is a date
that has passed. `ClaimDue` writes the lease, `Postpone` / `Skip` are the
outcomes of a claim that cannot run, `Begin`, `Finish`, `Reschedule` /
`RescheduleInvalid` and `SignalerEchec` are `execute` in its order, `RunNow`,
`SetActive` and `RemoveSchedule` the client, `PanelStops` a restart, which forgets
`enVol`. `Run` has two places per panel so that the second shows when it is used.

- `OncePerPanel`: a process never runs a schedule twice at a time, whatever the lease.
- `OneExecution`: nor do two processes, unless an execution outlived its lease or the
  client moved the date under it (`excused`): the lease is two minutes, lengthened by
  the waits of the sequence, and counts neither the wait for one of the six workers nor
  what the steps themselves take.
- `ToldOnce`: the owner is told once of a breakdown.
- `DueIsRun` (`DueScheduleRuns` in the composition): a schedule with a date is run,
  even if the panel that claimed it stopped.

Left out: the steps of the sequence themselves, and the editing of the tasks.
The code also lets the end of an execution write over a date the client set while
it ran; nothing in the repository promises otherwise.

### `WebhookQueue`

One delivery of either queue. `ClaimRead` and `ClaimTake` are the two statements of
`claimDue`, `Deliver` the post, `Settle` and `Retry` what is written of it;
`SenderFails` is a stop or an exception with the delivery in hand, `SwitchWebhook`
its owner.

- `OnePostPerAttempt`: the receiver gets one request per attempt counted, and one
  more at most for the attempt nobody wrote.
- `ClosedForGood`: a closed delivery changes no more.
- `Queued`: an open delivery is in the queue or in somebody's hands, unless its
  holder failed (`lost`): the price the code accepts for not posting twice.
- `DeliveryEnds` (`DeliveryFinishes`).

The first two exclude `shared`: two panels that read the same line before either took
it both post. The comment of `claimDue` (`webhook-queue.ts` 55-68) says that erasing the
date prevents just that; but the reading and the erasing are two statements, and the
second does not test the date again.

### `PushOutbox`

One device is followed. `RegisterRead` and `SetPush` are its registration of a handle,
`TakenOver` that of another device, which takes the same handle from it (the first
`UPDATE` of `setPush`: "un téléphone délié puis relié ne reçoit pas tout en double"), `RevokeTarget` the
withdrawal of a device, `Enqueue` a notification, `PushRead`, `PushSend`, `Forget` and
`Trancher` a sender's round, `PushDelay` and `PushExpires` the clock.

- `RevokedIsSilent`: a withdrawn device keeps no handle, even one being registered.
- `HandleKept`: a report that an *older* handle is unsubscribed never erases the one
  left since; only a report on that one, or another device that leaves it, does.
- `PushesBounded`: a notification is pushed three times at most, unless a sender stopped
  before it wrote the outcome or two senders read the same row (`disturbed`).

### `Updates`

`etat` is the file, read and written in one turn of the event loop; `api` and
`interface` are the two processes Passenger starts through the launcher, which
remembers what it *read* before it loaded a version. `StartApi`, `ApiLoads`,
`ApiBreaks`, `ApiStops`, `StartInterface`, `InterfaceBreaks` and `InterfaceSettles`
are the launcher; `Publish` the outside; `CheckOnce`, `Fetch`, `Extract`,
`RehearsePasses` / `RehearseFails`, `Erase` and `Cleaned` the installation;
`ConfirmIfPending`, `Answers` / `NoAnswer` the confirmation; `RollbackVersion` the
operator.

- `InService`: the version in service is on disk, whatever cleaning, switch, way back or
  revert comes in between.
- `WayBack`: a version on trial is the one in service, and the previous one is on disk,
  older and not refused.
- `RefusedForGood`: a refused version is never put in service again.
- `TrialEnds` (`TrialFinishes`): a trial ends even when the new version never stays up
  long enough to answer for itself, thanks to the launcher's count.

They hold until one of two `tangles`: a launcher writes over the file what it had read
before it changed (`stale`), or a revert comes while an installation or another cleaning
is under way (`crossed`).

### `AppDevice`

`Renew`, `Receive`, `RenewalFails`, `GiveUp` and `AnswerLost` are the phone;
`RefreshRead`, `RefreshReplay`, `RefreshWrite` the panel, `RevokeById` a withdrawal.

- `GrantedOnce`: of the renewals that present one secret, at most one is granted.
- `SecretsAgree`: as long as the phone hears the answers, it holds the secret the panel
  expects, and is never taken for a thief.
- `ReplayIsTheft` is what a comment says, and is violated (section 8).

### `SnapshotRotation`

A snapshot is the instant it was taken at; a slot of a level is that instant divided
by the interval. `StartRound` asks the panel (and may not be heard), `OrdrePrendre`,
`Archiver` and `Restaurer` / `Restored` execute orders, `Detruire` a
destruction, `OrderExpires` is the panel that closes an order before it is told, `EndRound` takes what is due, destroys what is not kept, sacrifices one
snapshot when space is short and reports; `Passes` is the clock, `AgentStops` a restart.
`KeptByLevel`, `AConserver`, `Sacrificed` and `APrendreAuto` are the functions of
`politique.go`.

The panel spares what an order with a cause has taken: a snapshot asked for, or taken for
safety. An order to archive has none (`snapshots.service.ts` 282, 948), so its snapshot
is no result here. Nor does the panel write the result of an order it has closed:
thirty minutes for an order to take, six hours for a restoration. While a snapshot is
being restored, the room made for the safety snapshot spares it (`Sacrificed`).

- `FirstOfSlotKept`: the first snapshot of each slot of a level is there for the whole
  retention of that level. It ties *taking* (`APrendreAuto`) to *keeping* (`AConserver`)
  through the boundaries of slots, of the grace period and of retentions, over rounds:
  the reference is the history `taken`, not the functions themselves.
- `KeptAsPromised`: a snapshot that was asked for, or taken for safety, outlives the
  rotation for as long as the panel means to spare it. It promises nothing of a result
  whose order the panel has closed as failed before it was told. The exception (`late`) is
  an hour without a report and its consequences: a restoration whose copy lasts longer than
  the grace period loses its safety snapshot to the rotation of the very round that
  made it, though a comment (`politique.go` 56-59) counts on that hour.

### `Subdomains`

`names` are the rows, `sync` the synchronisation that holds the lock of each, `zone`
the records at the provider that carry the server's note. `ClaimLabel`, `ClaimInsert`,
`ClaimFails`, `Release` and `Departing` are the client's requests; `SyncRow`, `Move`,
`Update`, `RemoveBlocking`, `Create`, `RemoveRest` and `PublishEnds` a publication;
`Withdraw`, `RemoveLost` and `WithdrawEnds` a removal; `ProviderRefuses` and
`SyncStops` what goes wrong; `WishChanges` and `SettingChanges` the server's address
and the operator.

- `ZoneAsListed`: when no synchronisation is under way, an active name is published
  exactly as its row lists it, and a removed name leaves nothing in any zone, whatever
  answers were lost.

It names four windows (`lapses`), and TLC finds a counterexample without any one of them:

- `stopped`: the process stops in the middle of the synchronisation of an active row;
  its writes are rolled back, and what it created is never looked for again ("un nom
  actif n'a rien perdu", line 677);
- `moved`: the place is changed while something was lost in the old one; `removeLost`
  looks at the row's present place only;
- `turned`: an address that failed to be published is given up for another; a record
  created without an answer is then no longer among those looked for, or the list is
  trusted (`kept`, line 570) though an unanswered call has changed what it lists;
- `forbidden`: the provider refuses the old zone, which the code gives up, and says so.

Choices: a place is a zone and a domain together. A record is its place, name and
type, because the panel looks before it creates. Records an operator put there himself
are a reason for a refusal. A call carried out is carried out by the time the panel
gives up on it. A synchronisation may start at any time (refresh, sweep or claim). A
private address is the empty wish. Limits of frequency and the fifty rows a round takes
are left out. A behaviour is followed up to its first lapse.

## 7. The runs

| run | instance | result |
|---|---|---|
| `MCServerTransfer` | 1 server, 2 nodes, 3 ports, 2 handlers, 2 transfers | safety holds (2 million states) |
| `MCServerTransferEnds` | 1 transfer, 2 handlers, 1 restart of the API | `TransferEnds` holds (178,000 states) |
| `MCServerTransferAddress` | 4 ports | `HasAddress` violated, 6 states |
| `MCServerTransferFiles` | 3 nodes | `FilesAtHome` violated, 10 states |
| `MCServerTransferSuspension` | 1 transfer | `SuspensionHolds` violated, 4 states |
| `MCSnapshotRestore` | 2 handlers, 2 orders, 1 fault | safety holds (2.4 million states) |
| `MCSnapshotRestoreEnds` | 2 handlers, 1 order, 1 fault | `OrderEnds`, `LockEnds` hold (82,000 states) |
| `MCSnapshotRestoreUndo` | 1 order, 1 fault | `Undoable` violated, 12 states |
| `MCSnapshotRestoreStopped` | 1 order | `StoppedWhileCopied` violated, 9 states |
| `MCBackup` | 2 handlers, 2 uploads, 1 fault or move | safety, `PromiseKept` and `HandedOver` hold (582,000 states) |
| `MCIndependentParts` | see below | everything holds (357,000 states) |
| `MCAppDevice` | 2 renewals, 4 secrets | `ReplayIsTheft` violated, 8 states |

Every property of a passing run has a mutant: a plausible mistake in one
definition (the operator above it in the module, whose comment begins "A fault:"),
under which TLC finds the property violated.

Why these bounds.

- *Transfer.* Every race is between two handlers (a report and the sweep, two
  starts, a start and a client), over one server: servers do not interact except
  for free ports, and a port taken by another server is the case where none is
  free. Two rows of `server_transfers` let an old report meet a newer transfer. A
  third node matters only to the findings.
- *Restoration.* Two orders let a late report, a late follower or a second lock
  meet the next one; two handlers let the backup restoration or a start meet the
  follower. One fault can fall at any step: a restart of the panel, of the agent or of the
  daemon, the answer of a report that is lost, another write of the row.
- *Backup.* Two requests at a time give each pair of the races above; two uploads are
  one and the one that replaces it; one fault falls at any step, a move of the server
  counting for one.
- *Schedules, webhooks, pushes.* Two panels. A lease of two ticks, and sequences that
  wait none or two, are an execution whose lease is lengthened and one whose lease is not;
  either may outlive it. Two delays
  between attempts are a first, a middle and a last attempt; two tries of a push
  are one and the last. Two handles are the old one and the new one; two registrations are both
  of this device, or one of another that takes the handle.
- *Updates.* Three versions: the one before, the one on trial, the one published
  meanwhile; `StartsAllowed` is the code's own three.
- *Phone.* Two renewals at a time are the one given up and the one after it; four
  secrets let the chain of current and previous go twice round.
- *Rotation.* Intervals 2 and 3, retentions 3 and 4: neither interval divides the other,
  and one retention is not a multiple of its interval; a maximum age at one retention;
  a grace of three and a grouping of one; a horizon of five instants reaches past every
  retention and the maximum age.
- *Subdomains.* Two places; four wishes: none, an address, and an address or a name
  with an SRV record; two changes. One label, because the rows share nothing: two
  labels with one change (2.4 million states), and one label with three changes (540,000
  states), were explored apart and hold.

`MaxTransfers`, `MaxCrashes`, `MaxOrders`, `MaxFaults`, `PortLimit`, `MaxUploads`,
`MaxChanges`, `MaxMishaps`, `MaxNotices`, `MaxRegistrations`, `Newest`, `MaxSecrets`,
`Horizon`, `MaxEvents` and `MaxTurns` are the bounds; `Room` keeps requests from piling
up past the limits of transfers and orders. Handlers are symmetric, and
`MCServerTransfer` takes states that differ only in the age of a concluded transfer,
which nothing reads, for one (`VIEW`); `MCBackup` and the runs that check liveness use
no symmetry. `CHECK_DEADLOCK` is off because the systems may stop: once the bound on
requests is reached and everything is concluded, nothing is left to do.

Fairness is what the panel's own timers and its event loop give, and nothing else.

- *Transfer, restoration*: a handler's next statement is executed (`Continue`,
  `RestoreInsert`), time passes (`Age`, `LockAge`), and the sweeps run
  (`server-transfer-reaper.service.ts`, `snapshot-order-reaper.service.ts`,
  `restore-reaper.service.ts`: `setInterval`, restarted with the process). The sweep of
  the transfers has strong fairness because the model has only two handlers, which other
  requests may keep busy; the real sweep has a timer of its own.
- *Backup*: a request goes on (`Proceed`), and the expiry runs, with strong fairness for
  the same reason.
- *Schedules*: time passes (`Tick`), each panel's timer fires (`ClaimDue`), an execution
  goes on (`Execute`). *Webhooks*: the delay passes and the dispatchers go on; their post
  has a timeout.
- *Updates*: Passenger starts the API when somebody visits it (`StartApi`) and applies a
  restart it was asked for; a version loads or breaks; the confirmation has a timeout.

Nothing is asked of a daemon, of the agent, of a phone or of the followers: they may
never answer, which is why the sweeps exist.

## 8. What the code does otherwise than it says

Six runs end in a violation of what a comment or a document of the repository
states. `PROJECT.json` quotes each one.

1. `HasAddress`. `release` refuses the default port, but reads it in a statement
   of its own; `setPrimary` checks that it owns the port in the same way. The two
   together free the default port.
2. `FilesAtHome`. Two starts may both pass the check, and the report of one
   transfer then concludes the other, because `complete` looks the transfer up
   by server. The database names a node that received nothing.
3. `SuspensionHolds`. `reserve` writes `transferring` over a suspension decided
   after the check, and the end of the transfer then writes null.
4. `Undoable`. An order taken up again by a restarted agent takes its safety
   snapshot again, of the half-copied folder.
5. `StoppedWhileCopied`. A start whose check came before the lock may reach the
   daemon after the follower saw the server offline.
6. `ReplayIsTheft`. A phone that gives up on a renewal after fifteen seconds, or whose
   answer is lost, keeps its secret and presents it again, although the panel
   has granted the next one: it is withdrawn as copied, and nobody copied it.

One guard closes each of 1, 3 and the window of 2: the test repeated in the
statement that writes. The rest of `FilesAtHome` needs the transfer in the report.
The windows that sections 3 to 6 name (`raced`, `strayed`, `overlooked`, `excused`,
`orphan`, `marks`, `left`, `shared`, `disturbed`, `tangles`, `late`, `lapses`) have no run
of their own: the property beside each says what holds outside them. Those a maintainer
should know of, because nothing sweeps what they leave:

- a port claimed while `complete` is between its two updates stays with the server on the
  node it has left (`server-transfer.service.ts` 318-323);
- the sweep reads a transfer to give up and then looks it up again by server, so that it
  may give up a younger one; `OneOutcome` says that no transfer is concluded twice, not
  that the one concluded is the one meant;
- the report of a backup restoration, late or repeated, lifts the lock of the
  restoration of a snapshot that was asked for since (`remote-backup.service.ts` 135-155);
- an upload whose opening was carried out without an answer is named by no row and never
  aborted;
- the settlement of an expired order to archive answers 404 once the server has moved, and
  the backup stays in progress (`snapshots.service.ts` 302, 422-426);
- the snapshot of an order the panel has closed before it was told of it is not spared.

## 9. The proofs

Eight modules. Each theorem holds for all values of the
constants, under the assumptions of the module it is about (bounds are natural numbers;
a lease, an interval or a number of tries is not zero; special values are not members
of the sets they stand beside; each server starts on the node of its own default port; a
retention is at least one interval and a grouping shorter than the grace, as `Valider`
requires; an address asks for one record under each name, as `desiredRecords` computes it).
A theorem is `Spec => []Inv` or an action property; the argument is an inductive
invariant and one case per action.

| module | theorems | what the invariant adds |
|---|---|---|
| `ServerTransferProofs` | `TypeCorrect`, `Concluded` (`OneOutcome`), `LockIsBacked`, `PortsAreAccounted`, `AddressIsKept` | below |
| `SnapshotRestoreProofs` | `TypeCorrect`, `OrdersClosedOnce`, `OrdersExecutedOnce`, `LockIsAccounted`, `FolderHasOneWriter` | below |
| `BackupProofs` | `TypeCorrect`, `PromiseIsKept` (the refinement), `DaemonAskedOnce`, `DoneMeansClosed`, `NothingIsLeft` | below |
| `DueRowsProofs`, schedules | `SchedulesTypeCorrect`, `NeverTwiceInAPanel`, `LeaseIsExclusive`, `BreakdownToldOnce` | what a process runs, it has marked in flight (`Marked`); while nothing is excused, the date in the row is the end of the lease of the only execution (`Leased`), and a row that is gone has no date (`Dated`); a notice given and not cleared is written in the row (`Armed`) |
| `DueRowsProofs`, webhooks | `WebhookTypeCorrect`, `PostsCounted`, `StaysClosed`, `NeverForgotten` | unless shared, one holder, whose count of attempts is the row's and agrees with the posts (`Alone`, `InHand`); an open delivery out of the queue is with someone who took it (`TakenOff`); one in the queue has an attempt left (`AttemptLeft`) |
| `PhoneProofs`, pushes | `PushTypeCorrect`, `WithdrawnIsSilent`, `LastHandleKept`, `PushesAreBounded` | a report not yet written is never about the handle that is expected (`ReportsAreOld`); undisturbed, one sender has the notification, and each push is counted in the row or in those hands (`Counted`) |
| `PhoneProofs`, renewals | `DeviceTypeCorrect`, `SecretsExchangedOnce`, `SecretsDoAgree` | the secret of before is older than the present one, and one that was exchanged is older (`Younger`); only an answer carries a grant (`Ungranted`); while the phone hears its answers, each renewal on its way is the one it waits for (`InStep`) |
| `RetentionProofs`, updates | `UpdatesTypeCorrect`, `VersionInService`, `WayBackStaysOpen`, `RefusalsLast` | below |
| `RetentionProofs`, rotation | `RotationTypeCorrect`, `RotationKeepsItsLevels` (`FirstOfSlotKept`), `RotationSparesAsPromised` (`KeptAsPromised`); of the policy alone, `OneSnapshotPerSlot`, `RotationIsStable` | below |
| `SubdomainsProofs` | `SubdomainsTypeCorrect`, `ZoneIsAsListed` | below |
| `IndependentPartsProofs` | `PartsBehaveAlone`, `PartsTypeCorrect`, `PartsKeepTheirWord` | below |

*Transfer.* `OneOutcome` follows from the test made under the lock of the row
(`LockRunning`): the only transactions that write the state of a transfer are the switch
and `Rollback`, and both test it first, holding the row; everything else leaves
the rows alone, appends to them, or ages a running one. The three invariants are not
inductive: nothing in them says what a handler that has just read may do with what it
read. `IInv` adds that a reservation, and so a row, goes to a node other than the one it
leaves (`Elsewhere`), otherwise the switch would free the port it has just made the
default; and that, while no reservation was made on a stale check, a server has at most
one running transfer, which starts from the node the server is on (`OneRunning`),
otherwise a rollback could free a port another transfer counts on. A switch between
its two updates has an invariant of its own (`Midway`): its row is still running and no
other switch has it, the ports it frees still belong to the server at the departure, the
port it has chosen is at the arrival and, unless the client's requests crossed, the
server's; and it has missed no port of the departure but those `overlooked`. Most actions
touch none of this and share one lemma (`QuietStep`).

*Restoration.* `TypeOK`, with the references it contains from followers and rounds to
rows, and `LockAccounted` are inductive on their own. `OneWriter` is not: it needs that
there is one restoration at a time (`Alone`), that the server is not free meanwhile
(`Locked`), that a pending order, or one about to be, finds it stopped (`Halted`), and
that what the agent has left to do is still pending (`Handed`). This half is claimed only until the
first excuse, the late or repeated report of a backup restoration among them, after which
it is false of the code.

*Backup.* The refinement needs what each request in progress knows: an outcome it may write as a success is backed by an
upload to join or by the archive, as long as the row is open (`CallSound`); so are
the reports of the daemon and of the agent (`WingsSound`, `AgentSound`); a success has its archive (`Backed`); one mandate to ask the
daemon, the pending order being one (`OneMandate`). `DoneIsClosed` needs
that the agent is told of a closed backup only (`ToldOfClosed`). The step is then shown, action by action, to be a step of
`BackupPromise` or a stutter of its variables. `NothingIsLeft` is about the moments
when no request is in progress, and needs what holds in between: as long as requests came one
at a time and went to their end, there is one request (`Only`), what it has read is still so
(`RequestTidy`), an upload that is open is named by a running row or about to be
(`UploadsTidy`), and an archive has a success, or a request or a daemon that will make it one
(`ArchiveTidy`). An archive on the disk of a node that was left asks for nothing more
(`Kept`), and what is open without an answer carries the mark `store`. Once there is a
mark, none of this is true of the code, nor claimed.

*Updates.* The typing holds whatever crosses; it needs that the launcher's choice
exists, the highest version on disk, which the well-foundedness of the naturals gives
(`Greatest`). The rest is claimed until two writers of the file cross (`tangles`), and
says what each process knows of what the others may do next: what a search brings in is
younger than all that is installed and was not refused, and no trial begins while it
lasts (`Searching`); a cleaning spares what is in service and the way back, and that of
a confirmation erases nothing a later search could bring in (`Cleaning`); a trial is of
the youngest version installed (`OnTrial`); a launcher loads what it read to be in
service (`Launches`).

*Rotation.* The lemma that carries `FirstOfSlotKept`, `StepKeepsFirst`, keeps integer
division and the minimum of a set opaque: all it needs is that taking and keeping use the
same `Slot`. `KeptAsPromised` is the argument a comment of `politique.go` makes for its hour
of grace, and it takes three more facts. What the panel has not recorded came after its last
report, less the age it may have had when it was given for a new snapshot
(`UnrecordedIsRecent`); so a result to be spared that is not in the last answer is as recent
(`SparedOrRecent`), and younger than the grace unless a report was missed for an hour; and
the safety snapshot of a copy that lasts is there, and younger than the last report
(`SafetyIsThere`). The policy has two theorems of its own, for any set of snapshots:
`OneSnapshotPerSlot` (the existence of the oldest comes from the well-foundedness of the
naturals) and `RotationIsStable`.

*Subdomains.* All is claimed until the first lapse. Two relations tie a zone to a list. One
says where to look: whatever is in the zone and not in the list has the name of a record of
an address that was tried in vain, in the place of the row (`Spotted`). The other says what
may be trusted: what is listed is in the zone, unless such an address changed or removed it
(`Trusted`). A row at rest has both (`RowSound`); a publication has the first with the
address it is publishing added, and what it will keep of the list is published already
(`PublicationSound`), and if it is undone, the row it has read says where to look
(`Reversible`); a removal has the first until it ends. Each call to the provider, answered
or not, then keeps them, and the end of a synchronisation, whether it succeeds or gives up,
gives a row at rest. A record is found again by its place, name and type, so there is one of
each in the zone and in the list (`Distinct`); that it is so of what is about to be published is the
assumption on the wishes.

*Independent parts.* A step of the whole is a step of one part and a stutter of the six
others (`PartMoves`), so the whole implements the specification of each part
(`PartsBehaveAlone`), and every theorem about a part is one about the whole.

Only model-checked: liveness (`TransferEnds`, `OrderEnds`, `LockEnds`, `HandedOver`,
`DueScheduleRuns`, `DeliveryFinishes`, `TrialFinishes`), which is out of the prover's
reach. Every invariant and action property that a passing run checks is a theorem.

## 10. Plan, and what is not modelled

Next, in this order:

1. `servers.state` on its own: an abstract specification of who may take and lift this
   lock, implemented by `ServerTransfer` and `SnapshotRestore`, with `claimInstalling`
   of the marketplace and `markInstalled` as two more holders.
2. `take` and `destroy` in the panel, the pins and the table `volume_snapshots`, which
   `SnapshotRotation` sees through the set of snapshots to spare.
3. Theorems on what the abstract lock of item 1 promises, and that both modules implement it.

Not modelled, with the reason:

- *Provisioning, resize, settings*: a sequence of inserts and one call, undone on failure.
- *Marketplace and engines*: downloads and edits of files; its lock is item 1.
- *Authentication, sessions, API keys*: checks of one row at request time; their
  difficulty is cryptographic.
- *Administration, client, reseller and application API*: most of the code by length, and
  reads, projections and single updates of the rows above, with permissions; what it
  changes in steps (transfers, suspensions, ports, backups, schedules) is in the modules
  of those parts.
- *Monitoring, retention, mail, the activity log*: they follow the state and decide nothing.
- *Interfaces, SDK, plugins, contracts, database schema*: clients without state, types
  and declarations. The one state the mobile application keeps is in `AppDevice`.
- *File system drivers, S3 and Wings clients*: I/O, seen as calls and their outcomes.
