# TLA+ models of the acorn gateway, image pull and job status code

This directory holds TLA+ models of the concurrent and stateful parts of `src/` and the
TLC configurations that check them. `PROJECT.json` lists:
- the components;
- the runs;
- the mutants that show each property can fail;
- the map from every modelled definition to its source lines;
- the findings and the hazards.

## The system

`MultiClient` (`src/pkg/client/multi.go`) presents many project clients (one per
tenant, region or cluster) as one API. The clients come from a `ProjectClientFactory`:
`List` gives all of them in registry order, and `ForProject(name)` gives the client of
one project (`""` means the default project). The factory is implemented outside `src/`.

| Part | Code | What it does |
|---|---|---|
| Composite name resolver | `onOne`, `onOneList` (multi.go 74-125) | Splits a name at the **last** `/` into project and local name, resolves the client, calls it, and renames the result `project/name` unless the client is the default project's. |
| Single-target dispatcher | the `MultiClient` methods (127-533) | Each method is `onOne`, `onOneList`, `aggregate` or a call on the default project's client. |
| List aggregator | `aggregate`, `aggregateOptionalNaming` (44-68) | Calls every client in order, renames non-default items, and drops everything on the first error. |
| AppLog stream relay | `AppLog` (175-198) | `onOne` to the app's client, then a goroutine that renames each log message and forwards it on an unbuffered channel. |
| Event stream merger | `EventStream` (548-617) | Lists each backend's events and, in follow mode, starts its watch right away. It sorts the snapshot by `Observed`, sends it into a channel buffered to the snapshot's size, forwards every watch into that channel, and closes it when all forwarders are done. |

Four further parts are modelled.

**Image pull handler** (`src/pkg/server/registry/apigroups/acorn/images/pull.go`). It
upgrades a request to a websocket and starts a pull. Three goroutines share two
unbuffered channels:
- `remote.WriteIndex` sends progress on `progress` and closes it.
- A relay copies `progress` to `progress2`.
- A writer runs `WriteIndex`, then `recordImage`, sends a `recordImage` error on
  `progress2`, and closes `progress2` after `wg.Wait()`.

`typed.Every` turns `progress2` into the channel the handler ranges over and writes to
the socket.

**Job status** (`src/pkg/controller/appstatus/jobs.go`). `readJobs` recomputes each
job's status on every app reconcile. It starts from the previous status and reads the
Job, or else the CronJob, of that name. `isJobReady` answers the same question for a
job used as a dependency.

**CLI status** (`src/pkg/controller/appstatus/cli_status.go`). The `CLIStatus` handler
renders the UpToDate, Healthy, Message and Endpoints columns that the CLI prints. It
then marks a nested acorn `Completed` when those column strings say that nothing runs
and nothing is left to report, and its parent app still exists.

**Buildkit build driver** (`src/pkg/build/buildkit/build.go`). `Build` solves one
platform after another. For each one it starts a `progress` goroutine, which relays the
statuses of a one-slot channel to `messages`. It defers a wait for that goroutine's
`done` channel, and it calls buildkit's `Solve` with the channel. The deferred waits
run when `Build` returns, last platform first.

The other files of `src/` are listed under "Not modelled" below:
- service-account rendering;
- table formatting;
- a test helper.

## Modules

### `EventStream.tla` (instantiated by `MCEventStream.tla`)

This module models one `EventStream` call.

- **Calling goroutine.** `FactoryList` and `NextClient` are the aggregate loop.
  - `ListHistory` is the callback up to the watch: `GetClient`, `c.List` when no
    ResourceVersion is given, the cursor taken from the list, and the renamed items
    appended.
  - `Subscribe` is `client.EventStream`. A failure goes to the diagnostic sink
    (`diag`) and that backend is left out.
  - `Return` is the unstable `sort.Slice`: any time-ordered permutation. It also does
    `make(chan, len(initial))`.
- **Sender goroutine.**
  - `SendInitial` is one select of `channels.Send`.
  - `StartForwarders` fires once `Send` returned.
  - `CloseResult` is `wg.Wait` followed by the deferred `close`.
- **Forwarder goroutines.** `ForwardRecv(b)` and `ForwardSend(b)` are the two selects
  of `channels.Forward`.
- **Result channel.** `ChanSend` models Go's channel: a buffered send, or a hand-off
  when the capacity is 0.
- **Environment** (not code of this repository): `Emit(b)`, `WatchEnd(b)`, `Cancel`,
  `StopReading` and `Receive`.

### `MergedStream.tla` (the abstract specification of `EventStream`)

`MergedStream` states what one call promises, with no goroutines or buffers:
- A call that fails while listing hands out nothing.
- Otherwise the call takes one snapshot: each backend's first `c[b]` events, sorted by
  time. The caller receives a prefix of that snapshot.
- Then each backend's live events follow its cursor one after the other, with no gap
  and no repeat.
- Live events may precede the end of the snapshot only after a cancel.

`EventStream.tla` maps itself onto it with `MS == INSTANCE MergedStream WITH ...`:
- the snapshot is `sorted` once `Return` ran;
- the cursors count from then;
- what the caller read is `received`, with the names stripped.

`MergedStreamSafety == MS!Safety` is checked as a PROPERTY.

### `MultiClient.tla` (instantiated by `MCMultiClient.tla`)

This module models a caller issuing one `MultiClient` call after another, plus other
clients changing the backends.

- **Names.** A name is a sequence of segments: the string split at `/`.
  - `ParseName` is `LastIndex`.
  - `ForProject` looks up the client whose project name equals the scope.
  - `SetName` is the rename.
  - `SlashIndex` is `strings.LastIndex` as a character offset. It uses `SegLen`, the
    length of a segment, because ProjectList compares that offset with 1.
- **Actions.** There is one action per resource family, built from `OnOne`,
  `Aggregate` or `OnDefault` and a callback.
  - `call` records the family.
  - `out` records the result or where the error came from.
- **ProjectList.** It is only in `SpecWithProjectList`.

### `AppLog.tla` (instantiated by `MCAppLog.tla`)

This module models one `AppLog` call.
- `Call` is `onOne` up to the start of the relay.
- `RelayRecvClosed` and `RelaySend` are the relay's `range msgs` and `result <- msg`.
- The backend's `AppLog` lies outside `src/`. It streams messages (`BackendSend`) and
  ends its stream (`BackendEnd`).
- It is assumed to close its channel once the context is done (`BackendCancel`). This
  is the most favourable assumption for the relay.
- The caller cancels (`Cancel`) and may then stop reading (`StopReading`).

### `ImagePull.tla` (instantiated by `MCImagePull.tla`)

This module models one websocket pull.

- **Handler.** `ConnectOpen` is Upgrade and ReadJSON. `StartPull` is `i.ImagePull`'s
  setup, whose failures close the socket, and the start of the goroutines.
  `ConnWrite` is the range loop's write: success, or break on error. `ConnClose` is the
  normal close.
- **Relay.** `RelayRecvClosed` and `RelaySend`. A send on a closed `progress2` is
  `relay = "panic"`.
- **Writer.**
  - `WriterIndexDone` runs after `WriteIndex` returned.
  - `WriterRecord` is `recordImage` with Create, Get/Update and ImageTag, any of which
    can fail.
  - `WriterSendErr` is the error send.
  - `WriterClose` is the deferred `wg.Wait(); close(progress2)`.
- **Libraries outside the repository, stated as assumptions.**
  - `WISend`/`WIReturn`: `remote.WriteIndex` sends its updates, its error included,
    on `progress`, then closes it (the comments at pull.go 146 and 166).
  - `EveryTakes`, `EveryEmit`, `EveryClose`, `EveryOnCancel`: `typed.Every`.
    - `Coalesce` means it keeps only the latest value between ticks.
    - `EveryDrains` means it keeps reading its input after the context is done;
      otherwise it returns.

### `JobStatus.tla` (instantiated by `MCJobStatus.tla`)

This module models one job of an app.

- **State.** `status` is the stored `JobStatus`, abstracted to what the properties
  tell apart: CreateEventSucceeded, Skipped, Dependencies, ExpressionErrors, Ready,
  UpToDate and Defined. `obj` is the Job or CronJob. `gen` is the app's generation.
- **`ReadJobs`.** One action is the whole `readJobs` pass for the job. It composes
  `Carried` (lines 30-43), `SkippedStatus`, `FromObject` (Job, then CronJob),
  `WithLinkOverride`, `DependencyGate` and `AddExpressionErrors`.
- **Environment.** `BumpGeneration`, `ApplyJob` (a new Job, or a CronJob that keeps
  its last success), `RunJob`, `DeleteJob` (TTL or removal), `Relink`, and
  `WriteCarried` (other controllers writing Skipped, Dependencies and
  ExpressionErrors).
- **`IsJobReady`.** The `isJobReady` check (jobs.go 146-163) as an operator on the
  object.
- **Left out.** Messages, error counts and running counts feed only user-facing text.
- **Errors.** `readJobs` returns an error from `getReplicasSummary`, `Get` or
  `isServiceReady`. This is modelled as the stored status staying as it was (see
  "Not modelled").

### `CLIStatus.tla` (instantiated by `MCCLIStatus.tla`)

- **State.** `app` is the AppInstance the handler reads, abstracted to the fields the
  columns use: removal, stop and stopped, namespace, Ready, a pending upgrade, whether
  the public name is nested, each condition (ok, failing with a message, failing with
  an empty one), each container's four replica counts, and the published endpoints.
  `Init` ranges over every such app, and the app stays fixed in a behaviour. `parent`
  says whether the parent app exists. `status` holds the written columns and
  `Completed`; it starts as Go's zero value.
- **Columns.** `UpToDate`, `Healthy`, `Message` and `EndpointsColumn` follow
  `uptodate`, `healthy`, `message` and `endpoints`. A count column is `Count(n, d)`.
  This is `"n/d"` when the two differ and `"n"` otherwise, so `"0"` (`Zero`) means both
  sums are 0. Bracketed message parts are a set, and endpoints are one entry per target
  holding the `Public` rendering of each endpoint.
- **`CLIStatus`.** One action is the whole handler. `ParentChecked` is the parent
  lookup: NotFound clears Completed. A lookup or `ingressTLSHosts` error makes the
  handler return it, and the router does not apply a failed handler, so that outcome is
  a stuttering step.
- **Environment.** `ParentCreate` and `ParentDelete`.

### `BuildkitBuild.tla` (instantiated by `MCBuildkitBuild.tla`)

- **State.** `pc` is Build's position. `i` and `n` are the current platform and the
  platform count. `ch`, `chClosed`, `relay`, `sent` and `forwarded` are per-platform
  functions. `defers` counts the deferred waits still to run. `solveLeft` and
  `solveOk` are the running Solve's remaining statuses and its outcome.
- **Actions.**
  - `Start`: `buildkit.New`, `ListWorkers` and their early returns, which happen
    before any goroutine.
  - `StartPlatform`: lines 72-119. It starts the relay and registers the deferred
    wait.
  - `SolveSend` and `SolveReturn`: Solve.
  - `RelayRecv` and `RelayDone`: the `progress` goroutine.
  - `Unwind`: one deferred `<-progressDone`.
  - `Return`: the deferred `bkc.Close` and the return.
- **Assumption.** Solve is outside the repository. `SolveClosesOnError` states the
  assumption that it closes the status channel on an error return, as it does on
  success.

## Runs

| Run | Checks | Result |
|---|---|---|
| `eventstream_safety` | `TypeOK`, `SnapshotOrder`, `NoDuplicateDelivery`, `NoGap`, `MergedStreamSafety` | Pass, 1.05 M states, about 75 s. The snapshot comes first and in time order. No event arrives twice. Without cancellation, no live event skips an earlier one. EventStream refines MergedStream. |
| `eventstream_live` | `CancelEndsCall`, `StreamCloses` | Pass. A cancelled call ends even when the caller stops reading. The channel closes once all watches end. |
| `eventstream_orphan_watch` | `NoOrphanWatch` | Violation: a later list failure leaves earlier watches running. |
| `eventstream_after_cancel` | `NoDeliveryAfterCancel` | Violation: buffered events are still read after cancel. |
| `multiclient_addressable` | `TypeOK`, `Addressable` | Pass, about 36 k states. Every returned name leads back to its object. |
| `multiclient_projectlist` | `Addressable` under `SpecWithProjectList` | Violation: the project `s/q` gets a double prefix. `c/r` is left alone, because its server part is one character and `idx > 1` fails for it. |
| `imagepull` | `TypeOK`, `WriteErrorReported`, `Terminates` | Pass, 833 states, with `Coalesce` and `EveryDrains`. Every goroutine ends, whatever the socket does. A WriteIndex error is the last update a healthy client sees. |
| `imagepull_record_error` | `RecordErrorReported` | Violation: the relay's last WriteIndex update overtakes the `recordImage` error, which never reaches the client. |
| `applog_leak` | `RelayEndsOnCancel` | Violation: a caller that cancels and stops reading leaves the AppLog relay blocked on `result <- msg`, even when the backend honours the cancellation. |
| `jobstatus` | `CreateEventSticky`, `ReadyImpliesCreated`, `EventuallyReady`, `ReadyOnlyForCurrentSuccess` | Pass, 4.2 k states. These hold across generation bumps, deletions, Job/CronJob swaps, relinks and other controllers' writes: CreateEventSucceeded is never taken back; Ready is never written without it (or Skipped); a finally succeeded current job ends up ready; Ready is written only for a skipped or linked job, or one whose Job or CronJob succeeded for the current generation, and never carried over from an earlier status or from a Job of an older generation or since deleted. |
| `clistatus` | `CompletedOnlyWhenIdle` | Pass, 295 k states, about 35 s. Completed is read back from the rendered strings. It is set only for an app that is not being removed, stopped or stopping, publishes no endpoint, and has no container with a desired, running, ready or up-to-date replica. |
| `buildkit_build` | `AllStatusForwarded`, `Terminates` | Pass, 446 states, with `SolveClosesOnError`. Build returns on every path. When it returns, every status that Solve sent for any platform has been handed to `messages`. With `SolveClosesOnError = FALSE`, TLC finds `Terminates` violated: the deferred wait at build.go 118 blocks for good. |

Each property of a passing run has a mutant in `PROJECT.json`: a plausible bug in a
mapped definition under which TLC finds the property violated. Examples:
- a relay that reads a zero `Update` from the closed channel;
- forwarders started while the snapshot is still being sent;
- CreateEventSucceeded not carried over;
- `Succeeded > 1`.

### Observed in the code but not given a run

- **The image pull leak.** `MCImagePull.cfg` with `EveryDrains = FALSE` makes TLC find
  `Terminates` violated. After a websocket write error, the writer (pull.go 168) or the
  relay (156) blocks on `progress2` for good. This needs `typed.Every` to stop reading
  once the context is done, a behaviour of a library outside the repository. Its
  violation run gave its slot to `buildkit_build`. The `imagepull` run still checks
  `Terminates` under the other assumption.

Each of these shows up in a single call, so a unit test reaches it. Run slots go to the
interleavings instead.
- **`AppRun` with nil options.** It dereferences `opts` in its callback (multi.go 166)
  after treating nil as legal. `MultiClient` models the outcome as `out = "panic"`.
- **AppLog names.** AppLog prefixes default-project app names (multi.go 194), which
  every other method leaves bare.
- **Two notions of job readiness.** `isJobReady` (jobs.go 158) requires
  `Succeeded == 1`, while `readJobs` accepts `Succeeded > 0`. A Job with two
  completions is therefore Ready in the status but not ready as a dependency. The
  repository calls `isJobReady`, so the contradiction has no run; `IsJobReady` is kept
  in `JobStatus` as the translation of the check.
- **Live event names.** `EventStream` renames snapshot events of a non-default backend
  through `aggregate`, but `channels.Forward` passes live events on unchanged
  (multi.go 608). The same object therefore shows under two names. An earlier version
  of this project checked this as a violation run; its slot now goes to `clistatus`.
- **A failing condition with no message.** `message` skips a condition that failed but
  has an empty Message (cli_status.go 58). The column then reads `OK`, and a nested
  acorn can be marked Completed while one of its conditions is in error.
- **TempProject's AlreadyExists branch.** The project is created with `GenerateName`
  only. On AlreadyExists, `project.Name` is therefore still empty, and the `Get` at
  project.go 43 cannot find the existing project that the comment means to return.

## Bounds and why they suffice

### EventStream

- Two backends (`b1` is the default). Two is the smallest registry in which a later
  backend can fail after an earlier one started its watch, and in which both renamed
  and unrenamed events appear.
- Up to two events per backend: one before the list and one after it.
- Two timestamps (ties and inversions in the sort). The liveness run uses one.

### MultiClient

- Projects `p` (default) and `s/q`, plus `c/r` in the ProjectList run.
- Scopes `p`, `s/q` and `s`; `s` is a prefix no client carries.
- Two local names.
- Segment lengths are capped at 2, which is all `idx > 1` can tell apart.

### ImagePull

- Up to two progress updates and an optional WriteIndex error. This is enough for the
  relay to hold an update while the writer sends its error, and for `Every` to
  coalesce two values.

### AppLog

- Up to two messages. One is enough for the leak; two let the relay loop.

### JobStatus

- Two generations and a Succeeded counter up to 2. Together they allow:
  - a stale annotation;
  - a re-applied Job starting from zero;
  - a CronJob keeping its last success;
  - the `> 0` versus `== 1` distinction.

### BuildkitBuild

- Up to two platforms and up to two statuses per Solve. Two platforms let a relay still
  be running while the next Solve starts, and let the deferred waits unwind in reverse.
  Two statuses make Solve block on the full one-slot channel.

### CLIStatus

- Two condition types (Ready, which `message` skips, and one other) and one container
  with replica counts 0 or 1. Each count can then differ from the one it is compared
  with, and every column word and message kind occurs.
- Two endpoints on two targets: an http one with a TLS host, and a pending tcp one.
- The sums are unbounded naturals. The code's int32 sums would wrap only past 2^31
  replicas.

## Fairness

Go's scheduler eventually runs every runnable goroutine, so the goroutine actions are
weakly fair. That covers the calling, sender, forwarder, relay and writer goroutines,
and the library goroutines of `WriteIndex` and `typed.Every`.

A caller that still ranges over a channel eventually reads (`Receive`, `RelaySend`,
`ConnWrite`). Backends emitting, watches ending, cancellation and a caller leaving are
the environment's choice and are not forced.

In JobStatus only `ReadJobs` is fair. The app status controller reconciles after every
change of the app or its jobs. The cluster and other controllers are never forced.

In BuildkitBuild every step is weakly fair. These are Build's own goroutine and the
relays, and Solve, which buildkit is assumed to finish. Runs set `CHECK_DEADLOCK FALSE`
because a build really does end.

CLIStatus states no fairness and no liveness. The handler runs when the app changes,
but nothing in `src/` watches the parent app. After the parent is deleted, Completed
stays set until some other change or a resync runs the handler again (cli_status.go
35). The model shows this directly: `ParentDelete` leaves `status.completed` alone.

Runs set `CHECK_DEADLOCK FALSE` because a single call or pull really does end. The
JobStatus run keeps the deadlock check: a reconcile is always possible.

## Not modelled, and the plan

- **Info and the accessors.** `Info` returns no addressable objects. `GetNamespace`,
  `GetClient` and `KubeProxyAddress` are straight-line code that panics on a factory
  error.
- **`readJobs` errors.** `readJobs` resets the Jobs map before `getReplicasSummary` and
  returns on errors mid-loop (jobs.go 22-99). Whether that partial map is saved is
  decided by the renderer's caller, outside `src/`. The model assumes it is not.
- **CLIStatus errors.** When `ingressTLSHosts` fails, `endpoints` returns `""` with
  the error. Completed is still computed from that empty column, and the app is handed
  to `resp.Objects` before the error returns (cli_status.go 21-42). Whether the router
  applies it is baaah's decision; the model takes a failed handler as not applied.
- **Table functions (`funcs.go`).** These template helpers each format one value for
  a table cell. They have no state and no ordering, so each of their edge cases is a
  single call that a unit test reaches. An example: `Graph` prints nothing for a value
  below 4, because `int(v/100*30)` is 0. Modelling them would restate the formatting.
- **Service-account rendering (`serviceaccount.go`).** Straight-line object
  construction. Its one decision (which permission rules belong to the account) is a
  filter over the app's permissions, and the AWS annotations come from a package
  outside `src/`.
- **Integration helper (`project.go`).** A sequential test helper. Its one defect is
  the AlreadyExists branch above. Its waits depend on the project controller, which is
  outside `src/`.
- **The run budget is full (12 runs).** A new check goes into an existing run, or
  replaces a shallower one.
