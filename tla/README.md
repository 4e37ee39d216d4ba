# Verification of camera_path

TLA+ models of the camera_path monorepo (`src/`), checked with TLC and proved about with TLAPS.
Every definition is a translation of code; `PROJECT.json` maps it to the lines it stands for.

## 1. The system and its parts

camera_path edits camera paths through scenes of 3D Gaussian splats. The backend
(`backend/`, FastAPI over SQLite) keeps projects, a library of assets and jobs; a generation
worker (`generation/`) makes new assets from a text or an image; the frontend (`frontend/`,
Next.js) edits and plays; RabbitMQ (SQS in the cloud) carries messages; a directory (S3 in the
cloud) holds the objects.

| Part | State | Operations | Interacts with | What makes it hard | What makes it correct |
|---|---|---|---|---|---|
| Generation pipeline: `services/jobs.py`, `generation_integration.py`, `job_consumer.py`, `dev/message_queue.py`, `generation/` | job rows, request, result, completion, retry and failed queues, output directories | create, dispatch, generate, publish the result, register, fail, reject, retry | library (input image, registered assets), broker | at-least-once delivery, two consumers of different queues that end the same job, reads that are stale one await later, crashes between broker and database | a job ends once, its first outcome stays, no queued job is lost, every queued job ends |
| Result import: `services/job_completion.py`, storage | recovery markers, staged and linked objects, asset rows | begin, copy, renew, publish, clean, recover | storage, library rows, other processes | a file system and a database that cannot change together; recovery in one process against copying in another | rows appear whole and once, their objects exist, what is left behind is found and removed |
| SQS consumers (cloud): `services/job_consumer.py` over `aws/message_queue.py` | leased messages, the failure queue, a renewal task for each lease | receive, import, renew, delete, delay, reject, stop | result import, application lifespan | calls of the SDK run in threads that no cancellation stops; the renewal is a task of its own with errors of its own | no message is deleted before it is settled, none stays for ever, a stop ends the consumer |
| Library: `services/library.py`, `dev/library_storage.py`, `dev/library_routes.py` | asset rows (pending, ready), objects, thumbnails, trash directories | create, upload, complete, update defaults, delete many | projects (clouds that refer to assets), jobs | an upload that arrives after its asset was confirmed or deleted; a crash between rename and commit | a ready asset has its object, deletion is all or nothing |
| Accounts: `services/auth.py`, `repositories/auth.py` | the one editor, challenges, sessions, counters of attempts and mails | log in, resend, verify, log out, replace the editor | mail | a mail leaves between two transactions; resends, verifications and new credentials meet on one challenge | a challenge opens one session, its guesses are bounded, nothing of replaced credentials remains, mails stay within their budgets |
| Project revisions: `services/base.py`, `revisions.py`, `routers/dependencies.py` | revision per project, locks per process | every mutation of a project, with `If-Match` | all services of a project; library deletion | the lock is per process, library deletion does not take it | no lost update, a revision never repeats |
| Scene: `services/scene_objects.py`, `scene_points.py`, `anchors.py` | trees and orders of objects, points, anchors | add, move, reorder, remove, reset; deletion of library assets | library, timelines and trajectory | one deletion renumbers several projects, statement by statement, under a unique constraint; an add checks its asset before it holds the lock | what is committed is a forest, numbered without gaps, whose assets exist |
| Trajectory and timelines: `services/trajectory.py`, `timelines.py`, `repositories/sync.py` | segments, blocks | edit, replace | compiler | positions under unique constraints | order is total, rows equal what was sent |
| Compiler: `trajectory/` | none | compile, plan | - | floating point | out of reach, see section 8 |
| Agent and chat: `agent/`, `services/chat.py` | transcript | one turn | external model, all project services | a turn that races edits | a turn edits the revision it read |
| User settings in the browser: `packages/actions/src/user-settings`, `apps/host/.../user-settings-provider.tsx` | the local storage, the store, three versions, loads and saves under way | load, retry, change the grid or the renderer, sign in or out, reload | session, profile on the server | a load, an edit and the end of a session overlap; the answer of one may not undo a later one | what is drawn is what is stored, and the last choice is kept |
| Job events: `routers/jobs.py` | - | stream | - | missed changes | the final status is sent |
| Frontend, a project's cache: `packages/api`, `packages/actions` | one query per resource, the remembered revision, mutations under way | read, refetch, edit, invalidate | backend | answers of reads and edits in any order; responses of different revisions on one page | a page at rest shows one revision and every edit of its own; `If-Match` is never older than what is shown |
| Frontend, clouds in the viewport: `packages/scene-runtime`, `features/scene-models` | leases and entries of loaded clouds, passes of the renderer, the placement under way | mount, place, hand over, remove, leave | cache of the scene objects, GPU | release and new lease in one commit, disposal a microtask later, loads that end after that | what is drawn is alive, what is not mounted is given back, a placed model is not loaded twice |
| Frontend, SIFT lab: `features/sift` | the session, its media element, its worker, the viewport, the page | start, seek, step, play, configure, stop | browser media, SIFT detector | events, answers, frames and timers in any order; a stop during any wait | points belong to the picture, the detection of a still picture arrives, a stopped session owns nothing |
| Frontend, the rest: `apps/host`, other features, `packages/commands`, `slots`, `ui-kit` | panel stores | render, send an edit | the caches | - | section 8 |
| SIFT (`rust/sift`), infrastructure (`infra`), migrations | - | - | - | - | not modelled |

## 2. Modules

| Module | Models |
|---|---|
| `JobLifecycle` | what a client that polls `GET /jobs/{id}` may rely on: the abstract specification of a job |
| `GenerationJobs` | the pipeline, the plain completion queue and the deletion of a source image |
| `ImportAttempt` | the inside of one step of `GenerationJobs` (`Import`): marker, heartbeat, copies, publication, recovery |
| `SqsQueue` | the consumers of the import queue in the cloud: receipts, renewal, settlement, stop |
| `AssetLifecycle` | what the library promises about an asset, whatever holds its bytes: the abstract specification of both storages |
| `LibraryRows` | the table `library_assets` and the writer lock of SQLite; extended by the next two |
| `LocalLibrary` | upload, confirmation and deletion over a directory |
| `LibraryHistory` | `LocalLibrary` with history variables: which files were overwritten after they were inspected |
| `CloudLibrary` | the same over S3, where browsers write to signed URLs and each call is a step |
| `AtomicProject` | one register, changed by compare-and-set: the abstract specification of a project |
| `ProjectRevision` | the `If-Match` guard and its lock, loads, conditional commits, the agent's turn, library deletions |
| `SceneTree` | the trees of scene objects, their numbering and the deletions that reach into them |
| `AuthSession` | login, second factor, resend, verification, logout, replacement of the editor, budgets of mails |
| `ApiClient` | the operations of the generated client that the pages of a project call: method and resource of each |
| `ProjectCache` | the queries of a project's page, the revision remembered for `If-Match`, the hooks that edit |
| `SharedClouds` | what the viewport promises about the clouds that its surfaces share: the abstract specification of the cache with its surfaces |
| `SceneClouds` | placement, surfaces, the cache of Gaussian clouds and the two rendering backends |
| `SiftSession` | one session of the SIFT lab with a camera, an image or a video |
| `EditorSettings` | the settings of the editor in one tab, over documents and sign-ins |
| `ImportAttemptProofs`, `LocalLibraryProofs`, `CloudLibraryProofs`, `AuthSessionProofs`, `SceneCloudsProofs` | theorems about the module of that name |
| `QueueProofs` | theorems about `GenerationJobs` and `SqsQueue` |
| `ProjectProofs` | theorems about `ProjectRevision` and `SceneTree` |
| `FrontendProofs` | theorems about `ProjectCache`, `EditorSettings` and `SiftSession` |
| `MCGenerationLibrary`, `MCQueues`, `MCImportAttempt`, `MCCloudLibrary`, `MCProject`, `MCAuthSession`, `MCFrontend`, with their `.cfg` files | instances for TLC |

`LocalLibrary` and `CloudLibrary` extend `LibraryRows` and are shown to implement
`AssetLifecycle`; `GenerationJobs` implements `JobLifecycle`, `ProjectRevision` implements
`AtomicProject`, and `SceneClouds` implements `SharedClouds`. Four modules meet at a deletion from the library: `GenerationJobs!DeleteImage`
has which images may not be deleted, the library modules have the files and the row,
`SceneTree!RemoveAssets` has the objects that go with the assets, and
`ProjectRevision!DeleteAssets` has what it does to the revision of a project. Each takes the
effect of the others as a step that may happen at any time.

`ProjectCache` extends `ApiClient`; its server is what `ProjectRevision` shows a project to be, a
register with a revision that refuses a stale `If-Match`. `MCFrontend` is the sum of
`ProjectCache`, `SceneClouds`, `SiftSession` and `EditorSettings`, which share no state: the lab
is a page of its own, a change of the list of clouds reaches `SceneClouds` as a read that any
page may cause, and of the settings the scene sees which renderer it has.
`MCGenerationLibrary`, `MCQueues` and `MCProject` are sums of the same kind: several instances in
one run, each explored while the others rest.

Operators whose name ends in `_Something` are faulty variants of the operator before the
underscore. No action uses them: putting one in the place of the original must violate the
property named in `PROJECT.json` under "mutants", which shows that the property can fail.

A step is the code between two points where something else may run: one SQL transaction, one
confirm of the broker, one call of a storage. Where the code holds the writer lock of SQLite
over several such points, the lock is a variable.

### GenerationJobs and the code

* `jobs` - the job table. `pending` is `generation_dispatch_pending`, `completed` is
  `completed_at IS NOT NULL`, `registered` counts how often result assets were inserted. The
  code never writes `running` or `cancelled`, so the model has no such status.
* `imageReady` - the source image of the image jobs is a ready asset.
* `requests`, `inbox`, `failedQueue` - the queues as bags: retries wait in queues with different
  delays and redeliveries come back at the head, so no order can be relied on.
* `output` - the result directories that the worker has renamed into place.
* `dispatcher`, `consumer`, `worker` - the program counter and the local data of each loop.
  `held` says whether the broker still regards the delivery as this process's.

| Action | Code |
|---|---|
| `Create` | `JobService.create`, with the check of the image in the same transaction |
| `DeleteImage` | `LibraryService.delete_many` |
| `SelectJob`, `PrepareInput`, `FailDispatch`, `PublishRequest`, `ClearPending` | one turn of `GenerationIntegration._dispatch_next`, cut at its awaits |
| `TakeRequest`, `Generate`, `PublishResult`, `AckRequest` | `rabbitmq.consume.handle` around `GenerationService.process` |
| `Receive`, `ReadJob`, `FailJob`, `ResolveResult`, `Import`, `RefuseImport` | `JobCompletionConsumer.process` into `register` of the two services |
| `FailAttempt`, `OnRejection`, `ForwardRejected`, `ForwardRetry`, `Ack` | its error paths and `RabbitMQMessageQueue._forward`; `Validated` is the check of a message before its handler |
| `DispatchFault`, `WorkerFault`, `ConsumerFault` | a restart, an exception that leaves the handler, or a lost connection, at any point |
| `PublishCompletion` | the external producer described in `backend/docs/library-import.md` |

`FailRow` and `CompleteRow` are the only two ways in which a job ends. `FailRow` is one guarded
`UPDATE`; `CompleteRow` is the transaction that reads the row again under `BEGIN IMMEDIATE`.

A lost connection splits in two: the broker redelivers, and the old handler either is gone or
runs on with a delivery it can no longer settle (`held = FALSE`). The second case is the one
that makes two consumers apply the same result at once.

### ImportAttempt and the code

Time is counted in heartbeat periods (15 s). `marker[a]` is the number of periods the marker has
to live; `Tick` lowers it, `Beat` restores it, 0 is expired. A period passes only when every
live heartbeat has run in it: the event loop does run its timers, and a process that is
suspended for longer than a marker lives behaves like one whose heartbeat failed (`PulseFault`).
`lock` is SQLite's writer lock, held over the several file operations of one cleaning; single
transactions (`Beat`, `Publish`, `EndJob`) are atomic steps that need it free. Copying
(`Stage`, `Link`) is outside of every transaction, as in the code.

### SqsQueue and the code

A consumer is at one of its awaits (`at`), with a renewal task beside it while it holds a
descriptor. The SDK is synchronous: `run_io` waits for its thread even when it is cancelled, and
raises the cancellation afterwards, which is `cancelled` here; where a second cancellation leaves
a call running behind its task, the call is `stray`.

| Action | Code |
|---|---|
| `ReceiveMessage`, `ReceiveNothing`, `ReceiveFails` | `SQSMessageQueue.receive` in the loop of `JobCompletionConsumer.run` |
| `ImportCommits`, `ImportReturns`, `ImportIsRefused`, `ImportFails` | `process`: the import and its three ways out |
| `CopySent`, `SendFails` | `reject`, which sends a copy to the failure queue and then acknowledges |
| `Deleted`, `Delayed`, `SettlementFails` | `ack` and `retry` |
| `Renews`, `RenewalBreaks`, `RenewalStops`, `StrayCallEnds` | the renewal of `hold` and `_stop_renewal` |
| `Tell`, `StartAgain`, `Halt` | the end of the lifespan in `api.py`, a start, a stop at any point |
| `LeaseEnds`, `LeaseIsLost` | the visibility timeout of SQS |

### The library and the code

`row` is the status column, `writer` the deletion that holds the writer lock. A confirmation
reads its row without a lock (`with_for_update` means nothing to SQLite) and needs the lock only
for its last `UPDATE`.

| Action | Code |
|---|---|
| `CreateAsset` (local), `Create` (cloud) | `LibraryService.create` |
| `StartUpload`, `FinishUpload`, `AbortUpload` (local) | `upload_local_library_content` of `dev/library_routes.py` |
| `Put` (cloud) | a browser that uses a signed URL, outside of the backend |
| `StartConfirmation`, `Inspect`.., `DecodeImage`, `CheckThumbnail`, `Publish`, `FailConfirmation` | `LibraryService.complete` |
| `CopyUpload`, `DiscardUpload` (cloud) | `finalize_upload` of `aws/library_storage.py` |
| `StartDeletion`, `RefuseDeletion`, `Commit`, `InterruptCommit`, `RollbackDeletion` | `LibraryService.delete_many` |
| `StageFiles`, `FailStaging`, `RestoreFiles`, `EmptyTrash` (local); `BeginStaging`, `SkipMissing`, `CopyToBackup`, `RemoveSource`, `FailDeletion`, `RestoreObject`, `FailRestore`, `FinishRestore`, `FinishDeletion` (cloud) | `stage_delete` of the two storages |
| `Crash` | the process stops: the database rolls back, files and objects stay where they are |

In the local storage all renames of a deletion run between two awaits of one event loop and are
one step; in the cloud each call of the SDK is a step. `InterruptCommit` is the cancellation of
a request that awaits the commit: the database thread commits, the handler rolls back the files.

### ProjectRevision and the code

| Action | Code |
|---|---|
| `StartRead`, `ReadPart`, `Send` | a client reads the project, part by part, and sends its change |
| `Enter`, `RefuseEntry` | the guard of `routers/dependencies.py` and its lock |
| `LoadRevision`, `LoadPart` | `ProjectRepository.load` in several `SELECT`s |
| `Edit`, `Reset`, `ChangeScene`, `DeleteProject`, `Conflict`, `Fail` | the services, through `services/base.py` and the conditional `UPDATE` of the revision |
| `SaveMessage`, `FindMessage`, `SaveTurn` | a turn of the agent around its external model |
| `DeleteAssets` | the part of a library deletion that advances revisions |
| `Restart` | a process stops and its locks with it |

`content[p]` is the set of those whose change the rows of part `p` show: enough to tell a lost
update from a kept one.

### SceneTree and the code

A transaction holds SQLite's writer lock from its first statement, so there is one at a time
(`busy`), and its statements are steps on its view `rows` of the table: what others see changes
with `CommitScene` only. `target` are the `UPDATE`s of the renumbering that are still to come.

| Action | Code |
|---|---|
| `CheckAsset`, `RefuseAdd`, `Add` | `SceneObjectService.add`, which reads the asset before its first `UPDATE` |
| `MoveUnder`, `MoveTo` | `update` with a parent, and with a place in the list |
| `Remove` | `remove` of an object without children |
| `Clear` | `reset_project`, `delete_project` |
| `RemoveAssets`, `ClearProject` | `SceneObjectRepository.remove_library_assets` within `LibraryService.delete_many`, project after project |
| `Place` | the single `UPDATE`s of `_reorder`, after all orders were moved out of the way at once |
| `CommitScene`, `RollBackScene` | the end of the transaction, by `COMMIT` or by an error, a cancellation, a stop |

`OrdersDiffer`, `ParentsExist` and `AssetsExist` are the constraints of the table: the first is
checked at each statement, the key of a parent is deferred to the commit.

### AuthSession and the code

A tick is a minute. `open`, `challenge`, `sessions` and `version` are the tables; `token` holds
the claims of every token issued, valid or not; `request` is the program counter of a login or a
resend between its transactions. Passwords and codes are right or wrong by choice of the action
(`CheckPassword` or `RefuseLogin`, `Verify` or `FailVerify`). `Code` is small, so the same
digits are drawn twice.

| Action | Code |
|---|---|
| `CheckPassword`, `SignIn`, `Charge`, `StoreChallenge`, `RefuseLogin` | `AuthService.login` |
| `SendCode`, `FailToSend`, `Deliver`, `RefuseDelivery` | `deliver` |
| `ChargeResend`, `ReplaceCode`, `RefuseResend` | `resend` |
| `Verify`, `FailVerify` | `verify`, whose failed attempt is committed |
| `BeginLogout`, `RevokeSession`, `Authorised` | `logout`, `principal` |
| `ReplaceEditor` | `create_editor`, from the command line |
| `Restart` | a stop and a start, perhaps with another `auth_second_factor` |

### ProjectCache and the code

The content of a response is its revision, so `cache[k]` is the ETag of the data of query `k`
and `known` the revision that `orval-fetch.ts` remembers. `owed[k]` is what the page must come to
show of its own edits, `refused` what a 409 tells it.

| Action | Code |
|---|---|
| `ServerRead`, `AskAgain`, `Receive`, `Store` | `orvalFetch` for a GET: an answer older than `known` is asked for once more, the ETag is remembered before the body is read |
| `FetchFails` | the query's retry, then its error |
| `Effect` | the effect of `useProjectQuery`, which refetches what is older than the newest of ten resources |
| `Submit`, `ServerEdit`, `ServerRefuses`, `ReceiveEdit`, `EditFails`, `Settle` | a hook of `packages/actions`: the mutation, its answer, and what it invalidates, one entry of `Hooks` each |
| `MessageSaved`, `AskAgent` | `useSendChatMessage`, which saves, refetches the chat and then asks the agent |
| `RemoteEdit` | anybody else |

Two simplifications: the effect runs as one step, and an edit starts only on a page that has
loaded (the workspace shows nothing before).

### SceneClouds and the code

`scene` is what React renders from: the list read last (`url` grows when a read signs new
download URLs, as in the cloud deployment) and the state of `useCloudPlacementInteraction`.
`surfaces` are the mounted `GaussianCloud` surfaces by React key, each with its lease;
`resources` the entries of `GaussianCloudResourceCache`; `backend` the loads, clouds, passes and
registered layers of the renderer, `alive` what holds GPU memory. A cloud that comes has left no key
behind (`Fresh`): the server gives every object an id of its own, and reads do not go back.

| Action | Code |
|---|---|
| `Mount`, `Refetch`, `Leave` | the viewport with the first read, another read, leaving the project |
| `startCloudPlacement`, `updatePreview`, `cancel`, `onTap`, `onPlace`, `finishPlacement` | `use-cloud-placement-interaction.ts` and `scene.tsx` |
| `Commits` (part of each of these) | the effects of all surfaces run again: release, acquire, `createCloud` |
| `releaseMicrotasks` | the microtasks that dispose of what nobody leases |
| `Downloads`, `Loads`, `LoadFails` | `createCloud` after its awaits, on either backend |
| `Switch` | the depth output and the lidar, which build a pass anew |
| `disposeBackend` | the timer of `SceneSurfaceProvider` |

### SiftSession and the code

All of `create-sift-session.ts` runs on one thread, so each handler is one step; `sift` are its
variables, `events` the media events that the browser has queued. Time is counted in frames.

| Action | Code |
|---|---|
| `workerReady`, `getUserMedia`, `cameraPlays`, `enumerateDevices`, `createImageBitmap`, `loadVideoFrame`, `Abandoned` | `initialize`, cut at its awaits, each of which may find the session stopped |
| `loadVideoFrameIndex` | the times of the frames, read by a worker of its own |
| `AnimationFrame`, `workerFrame`, `settled`, `BurstPasses`, `MediaEvent` | `capture`, the answer of the detector, the timer of rapid steps, the listeners |
| `MediaAdvances`, `SeekIsDone` | the media element |
| `togglePlayback`, `stepFrame`, `seekTo`, `ChangeConfig`, `repeatDetection`, `Stop` | the controls of the page |
| `Failure` | any error that ends in `fail` |

### EditorSettings and the code

`stored` is the record in the local storage, `applied` what the store has, `versions` the three
counters by which `create-user-settings-actions.ts` tells whether an answer still counts.

| Action | Code |
|---|---|
| `SettingsInit`, `NewDocument` | the provider's first effect, run twice by React's strict mode in development; a reload or a closed tab |
| `FinishLoad`, `FailLoad`, `RetryLoad` | `load` after the profile has arrived, or the defaults in its place |
| `SaveGrid`, `SaveRenderer`, `FailSave` | `save` up to its request: an editor's renderer is published before it is stored |
| `SaveAnswered` | `save` after its request, whatever came back |
| `SetCanEdit` | `setCanEdit`, when the session is found, ends or is replaced |

## 3. Runs

| Run | Instance | Shows |
|---|---|---|
| `generation_library` | part "pipeline": 1 image job, 1 dispatcher, 2 result consumers, 1 plain consumer, 1 external completion, 1 fault; part "library": 2 assets (an image, which may be uploaded a second time at any moment, and a cloud with a thumbnail), 1 confirmation, 2 deletions, 1 crash | `NoLostJob`, `FirstOutcomeWins`, `ActiveJobsKeepImage`; `PublishedBytesAreValid`, `DeletedFilesStayAway`, `LocalLifecycle` |
| `queues` | scenario "pipeline": 1 text job and 1 image job, 1 process of each kind, 1 fault; scenario "sqs": 2 consumers, a malformed, a refused and an importable message, 2 receives before an import is given up, 2 mishaps | `EveryQueuedJobEnds`, `ImplementsLifecycle`; `SettledInOrder`, `QueueDrains` |
| `sqs_stop` | 1 consumer, 2 messages, 1 mishap | finding 5 |
| `import` | scenario "twice": 2 attempts at 1 job, 2 files each and 1 adopted object, 1 failed heartbeat, 1 crash; scenario "jobs": 2 jobs that adopt the same object, 1 failed cleaning, 1 crash | `PublicationsAreWhole`, `BeatingAttemptsKeepMarkers`, `LeftoversAreRemoved` |
| `cloud_library` | scenario "race": 1 image, any number of PUTs, 2 confirmations, 2 deletions; scenario "serial": 1 asset with thumbnail, 2 contents, 1 confirmation at a time, 1 deletion, 1 crash | `PublishedObjectsAreSigned`, `ImplementsLifecycle`, `SerialObjectsAreFinal` |
| `cloud_overwrite` | 2 confirmations of one asset | finding 1 |
| `project` | scenario "shared": 2 requests of any kind, 2 library deletions, 2 processes, restarts; scenario "locked": 3 requests of every kind but `reset`, which is an `edit` to the guard and the lock, 1 process, no library deletion; scenario "trees": 2 projects, 3 objects of which 1 at most in the second project, 2 assets, 1 add at a time | `EtagPromisesContent`, `ImplementsRegister`, `LockIsExact`, `EveryoneIsAnswered`; `ScenesAreWhole`, `StatementsSucceed`, `OthersKeepTheirOrder` |
| `project_stale` | 1 edit, 1 library deletion | finding 2 |
| `auth` | 2 logins, 2 resends, 2 sessions, 2 codes, 2 replacements of the editor, restarts, 3 minutes, 2 mails a minute and 3 an "hour" of 2 minutes | `SecondFactorHolds`, `ChallengesOpenOnce`, `GuessesAreBounded`, `RowsAreOfTheEditor`, `MailsAreBudgeted` |
| `frontend` | part "project": 16 pages (each compared resource with the compiled trajectory and four more), 2 edits by any hook, revisions up to 2 by others, 1 failed request (2 on pages without the compiled trajectory, and for one edit on that of the chat); part "scene": 2 clouds, 1 at the start, 2 spots, 1 placement at one of them, clouds of others at both, which move between them, both backends, 1 turn with URLs signed anew or 2 with stable ones; part "sift": all sources, a video of 2 frames, 2 settings, 3 clicks, 1 failure; part "settings": any stored and published settings, 2 documents with 4 versions of the edits and 4 sign-ins or sign-outs each, 1 refused write | `QuietPageConverged`, `OwnEditsAreShown`, `EditsNameTheNewestShown`, `ComesToRest`; `PassDrawsLiveClouds`, `HandOverKeepsTheModel`, `SharesClouds`, `SceneSettles`; `ScreenAgrees`, `StoppedSessionsRest`, `SiftSettles`; `SettingsAreKept` |
| `project_unseen` | a page with one compared resource and the compiled trajectory, no edit of its own | finding 3 |
| `removed_model` | 1 cloud, 1 placement | finding 4 |

A scenario or part is a variable that stays as it began, so that one run explores several
instances. What a scenario leaves out are first steps of clients and faults, which nothing
requires to happen, so that the liveness properties mean the same in it.

Why the bounds are enough. Jobs do not interact except through the order of dispatch and the
image, so one job with consumers doubled shows the races and two jobs show the order.
`MaxAttempts = 2` has both a retry and a last attempt, and so has `MaxReceives = 2`. Two mishaps
of SQS are a lost lease or a call that breaks, and then a stop in the middle of what follows. Two consumers suffice for a stale read:
one acts between the read and the write of the other. An import with two files has a first file
that recovery cleans and a second that is copied afterwards; a lifetime of two periods separates
a marker that is young, one that is due and one that has expired. Deletions of the library
exclude each other by the lock, so two of them show what one leaves to the next; two assets show
a selection that is deleted as a whole. Three requests show one that holds the lock of a project
and two that wait; two processes show what the locks do not cover. Three objects are the fewest
of which one moves between two others, and under which a cycle is longer than a swap; a second
project with one object is one more that a deletion has to visit. Objects are interchangeable,
and the instance takes the lowest that is free. A second login is one whose
challenge the first one's resend or the pruning may touch; three minutes cover a code that
expires, a resend that is due and both windows of the counters.

The code of a page treats its resources alike but for three differences: which hook invalidates
them, whether the effect compares them, and whether a message follows in two requests. A page of
two resources has every pair that differs in these; `FrontendProofs` proves two of the
properties for any page. Two edits overlap; the second failed request ends a query that has
retried. A turn of the scene is a read, a refusal, a failed load or a switch: one of them between
the steps of a placement is what each hazard needs, and two show a removal after a read. Two
frames have a first, a last and a step in both directions; three clicks are a step, a second step
in the same burst and one more action that meets the timer, the seek or the request. Four versions of the
edits and four of the session leave room for a change, its late answer and a change by another
session in between, in each of two documents: the second shows what the first has left behind.

Deadlock checking is off where every request is made once: the system rests when all are over.
It is on in `auth`, where a restart is always possible.

## 4. Properties

Pipeline, queues and import:

* `FirstOutcomeWins` (action property) - the row of an ended job never changes.
* `NoLostJob` - a queued job whose dispatch is not pending has a request or a result in a queue
  or in a live process.
* `ActiveJobsKeepImage` - the source image of a queued job is a ready asset.
* `EveryQueuedJobEnds` - liveness, faults bounded.
* `ImplementsLifecycle` (of `GenerationJobs`) - a client that polls sees the abstract job, with
  its liveness.
* `SettledInOrder` - a message is deleted only when it is imported or in the failure queue, and
  nothing renews a lease that its consumer is giving back.
* `QueueDrains` - liveness: once nothing fails any more, every message comes to be deleted.
* `PublicationsAreWhole` - however many deliveries race, the rows of a job are those of one
  attempt, no object belongs to two jobs, and every object of a row exists.
* `BeatingAttemptsKeepMarkers`, `LeftoversAreRemoved` - recovery spares who beats, and finds and
  removes what others leave; the second unless a heartbeat has failed.

Library:

* `LocalLifecycle`, `ImplementsLifecycle` (of `CloudLibrary`) - among other things, a ready asset
  has all its bytes at their keys or where a deletion keeps them, a deleted row never returns, and
  a selection goes as a whole.
* `PublishedBytesAreValid`, `PublishedObjectsAreSigned` - what is listed has passed the checks,
  whatever uploads race with the confirmation. The first excepts the assets of which a file was
  overwritten between its inspection and now; without the exception it is false (section 7).
* `DeletedFilesStayAway` - files of a deleted asset return only through an upload under way or
  the deletion whose commit was interrupted.
* `SerialObjectsAreFinal` - a confirmed object is not replaced, with one confirmation at a time.

Projects and scenes:

* `EtagPromisesContent` - whoever holds the present revision has seen the present content,
  although it was read in several statements.
* `ImplementsRegister` - no update is lost, by whichever route a change comes.
* `LockIsExact` - within the guard nobody conflicts, and a stale `If-Match` is refused, as long as
  no library deletion passes by the guard.
* `EveryoneIsAnswered` - liveness: the queue for the lock moves.
* `ScenesAreWhole` - what is committed is a forest of objects of one project, numbered without
  gaps, whose assets are in the library. The database checks neither cycles nor gaps.
* `StatementsSucceed` - no statement on the way there breaks a constraint, and whatever changes a
  scene advances the revision of its project.
* `OthersKeepTheirOrder` (action property) - a commit moves at most one object past others.

Accounts: `SecondFactorHolds`, `ChallengesOpenOnce`, `GuessesAreBounded`, `RowsAreOfTheEditor`
and `MailsAreBudgeted`, as stated in the module.

Frontend:

* `QuietPageConverged`, `ComesToRest` - whatever overtakes whatever, refetching ends, and a page
  at rest shows its compared resources in one revision.
* `OwnEditsAreShown` - what an edit of this tab has changed is read again, also when its answer
  is lost after the commit; after a 409 the page comes to show what it was refused for.
* `EditsNameTheNewestShown` (action property) - `If-Match` is never older than what is shown and
  never ahead of the server.
* `PassDrawsLiveClouds` - nothing disposed of is drawn; there is one pass exactly while there are
  clouds, with the right layers.
* `HandOverKeepsTheModel` (action property) - from preview to saved cloud the model stays, and a
  saved cloud that comes where one was placed takes the surface of the preview over at once,
  while other pages add, remove and move clouds.
* `SharesClouds` (refinement of `SharedClouds`) - however often effects run again, each cloud that
  is wanted is loaded once, a failed load is tried anew by whoever asks next, every surface that
  holds a loaded cloud draws it, and the microtasks leave what is held and nothing else.
* `SceneSettles` - liveness: the GPU gets everything back, and every surface ends with its cloud
  or an error.
* `ScreenAgrees` - the points on the screen are those of the picture on the screen, and a held
  picture gives way to its successor.
* `StoppedSessionsRest` (action property) - a stop at any await gives everything back and reports
  nothing more.
* `SiftSettles` - liveness: no order of seeks, steps, timers and answers leaves a picture without
  its detection.
* `SettingsAreKept` - what is drawn is what the next document will be drawn with, and the user's
  last choice outlives late answers, sign-ins, sign-outs and reloads.

Each module has one type invariant. `TypeOK` of the pipeline, of the projects and of the cache,
`LocalTypeOK`, `AuthTypeOK`, `TreeTypeOK`, `SqsTypeOK` and `ImportTypeOK` are proved, and so are
`PipelineInvariant`, `OutcomeConsistent` and `DraftsAreCurrent`; no run repeats them.

## 5. Fairness

`GenerationJobs!FairSpec` assumes weak fairness of each loop (`dispatch`, `run`, the worker's
`consume`), which the lifespan of `api.py` starts and which catch every exception and go on.
Clients, deletions, external producers and faults are not fair: they may never happen. Faults
are bounded by `MaxFaults`, so the liveness says that jobs end once faults stop.

`ImportAttempt!FairImportSpec` assumes weak fairness of a running attempt, of its heartbeat, of
each recovery loop (`run` calls `recover` every 60 s), of a cleaning under way and of time. The
writer lock is taken by recovery only for expired markers, hence finitely often, so weak fairness
of the steps that need it is enough.

`SqsQueue!SqsFairness` assumes weak fairness of each consumer, whose process is started again
when it has ended, and that a lease which nobody renews runs out. Renewals, failing calls, stops
and the end of the application are not fair; what fails is bounded by `MaxMishaps`.

`ProjectRevision!FairSpec` assumes weak fairness of the steps of each handler: the event loop
runs it, and a call to the model of the agent ends or times out. `asyncio.Lock` wakes its waiters
in order; as each request is made once, the lock is taken finitely often and weak fairness of
`Enter` gives the same.

The library, the scene trees, the accounts and the settings have safety properties only, and no
fairness.

`ProjectCache!Fairness` assumes that a request that is out is answered or fails (the browser's
fetch ends) and that React runs a due effect. Edits, other people's edits and failures are not
fair.

`SceneClouds!SceneFairness` assumes that microtasks and the timer run, that every load ends one
way or the other, that an add is answered and that the effect which reports bounds runs. That
microtasks run before anything else is not fairness but a guard (`Task`), as the event loop has
it.

`SiftSession!SiftFairness` assumes a visible page (a browser gives a hidden one no animation
frames), a worker that answers, a seek and a playing video that get on, timers that fire, events
that are delivered and loads that end. The camera's prompt is the user's and not fair.

`MCFrontend` conjoins the three, as `MCQueues` and `MCProject` conjoin those of their parts: in a
part that rests none of these steps is enabled.

## 6. Proofs

All theorems hold for every value of the constants that satisfies the named assumption of the
module; nothing else is assumed.

`QueueProofs`. About `GenerationJobs`, from `ConstantsAssumption`:

* `TypeCorrect`: `Spec => []TypeOK`.
* `OutcomeAlwaysConsistent` and `OutcomeIsFinal`, from the lemma `RowSteps`: a step creates a
  row, clears a flag, runs `FailRow` or runs `CompleteRow`, and nothing else touches the table.
* `ImagesOutliveJobs`: only `DeleteImage` touches the image, only `Create` adds a reference.
* `PipelineInvariantHolds`: the inductive invariant. `NoLostJob` alone is not inductive: when a
  dispatcher clears the flag, the job must already be carried or ended (`ClearingIsSafe`); a
  carrier hands its job on or ends it (`StaysEndedOrCarried`), which needs that requests and
  results concern only jobs that were queued (`OnlyQueuedJobsAreHandled`), since failing a draft
  does nothing; a consumer forwards a rejected result only after `FailRow` (`RejectionFailsFirst`).
* `NoJobIsLost`, `RejectedResultsHaveEnded`: the parts of it that a reader wants. The second, that a
  generation result is in the failed queue only after its job has ended, is one that no run repeats.
* `PipelineImplementsLifecycle`: the safety part of the refinement, with
  `KnownJobsAreResolved` to exclude an import into a job that does not exist.

And about `SqsQueue`, from `SqsAssumption`:

* `SqsInvariantHolds`: types, what is deleted is imported or copied to the failure queue, and
  every consumer is `Orderly`: it renews only while it imports, sends a copy or stops the renewal,
  it deletes or is about to delete only a message that is settled, and a call runs on without its
  task only in a consumer that was told to stop.
* `MessagesAreSettledInOrder` follows.

`ImportAttemptProofs`, from `ImportAssumption`:

* `ImportInvariantHolds`: types; a heart that beats has renewed its marker in this period or the
  one before (`MarkersFit`); nobody cleans an attempt that beats or will (`CleanersFit`); who has
  rows has ended, with the rows of one attempt (`RowsFit`).
* `BeatingAttemptsAreSpared`, for any faults: a marker that a heartbeat renews does not expire.
* `PublishedResultsAreWhole`, for `MaxPulseFaults = 0`: while no heartbeat has failed, what an
  attempt has copied stays (`CopiesStay`) and so do published and adopted objects (`ObjectsStay`).
  With a failed heartbeat it is false in general, see section 7.

`LocalLibraryProofs`, from `LocalAssumption` and `RowsAssumption`:

* `LocalTypeCorrect`, and `LibraryInvariantHolds` with these parts: `LockHeld` (a deletion in its
  transaction holds the lock), hence `SelectionHolds` (its rows stay); `TrashBelongs` (a
  directory is empty before the renames and then holds only files of its deletion's assets);
  `ChecksHold` (what a confirmation has checked is still stored, or its row is gone). From these
  `ReadyIsStored` is inductive.
* `LocalImplementsLifecycle`: every step is a step or a stutter of `AssetLifecycle`.
* `DeletedFilesNeverReturn`: what a restoring deletion has in its directory is of its own assets
  (`TrashBelongs`), and before its commit their rows are there (`SelectionHolds`).
* `PublishedBytesStayValid`, for any number of uploads to an asset, whatever they bring and
  whenever they end. `LibraryHistory` adds two history variables, which no step of `LocalLibrary`
  reads: a confirmation is `outdated` when a file it has inspected is written again, by an upload
  or by a deletion that restores, and an asset is `replaced` when that happens to it after it was
  confirmed or when an outdated confirmation publishes it. What a confirmation that is not
  outdated has checked is still what is stored, at its key or in the one directory to which a
  deletion has moved it (`Intact`; `DeletionKeepsIntact` from `TrashBelongs` and
  `SelectionHolds`), so that publication finds valid bytes (`PassedChecks`, `ReadyByPublish`).

`CloudLibraryProofs`, from `CloudAssumption` and `RowsAssumption`, for any number of assets, requests
and crashes and whatever browsers PUT:

* `CloudInvariantHolds`, with the parts of `LibraryInvariantHolds` and two that S3 needs because
  its copies and removals are steps of their own: `BackupsBelong` (until a deletion ends its
  backups are of its assets) and `StagingFits` (what is being removed has its backup, and of what
  a failed deletion has backed up everything is still to be restored or back at its key; no
  other deletion can take it away again, since the first one has the lock).
* `CloudImplementsLifecycle`: the refinement of `AssetLifecycle`. Backups are deleted in two places
  only: when their objects are back, and when their rows are gone (`BackupsStay`).
* `ConfirmedObjectsAreSigned`: what is or was at a final key, the backups included, has been
  inspected (`FinalsAreSigned`), because the copy names the ETag that was (`CallsFit`).
* `SerialConfirmationsKeepObjects`, for `SerialSpec`, in which the confirmations of an asset come one
  after the other (otherwise the property is false, see section 7). Nobody confirms what is already
  published (`ConfirmedIsPending`), so that no copy to a final key comes from a confirmation; and
  what a deletion has among its backups is what is at the key, where both exist (`BackupsAgree`),
  so that no copy back changes anything.

`ProjectProofs`, from `ProjectAssumption`:

* `ProjectTypeCorrect`; `EtagsPromiseContent` and `DraftsStayCurrent` from an invariant
  (`ProjectInv`) which says of every view that its revision is not newer than the project's and,
  if it is the same, that its parts are the present ones. The revision is read first, which is
  what makes reading the parts later safe.
* `NoUpdateIsLost`: the refinement of `AtomicProject`, with the same invariant: a commit that
  finds the revision of its draft writes on the content it replaces.
* `GuardIsExact` (`LockIsExact`): with one process and no library deletion (`Undisturbed`) a stale
  `If-Match` is refused and nobody conflicts, because only the holder of the lock changes the
  project.

and from `TreeAssumption`, for any number of projects, objects and assets:

* `StatementsAlwaysSucceed` and `ScenesStayWhole`, from the invariant `TreeInv`. In the middle of a
  renumbering the orders are neither dense nor those of a list; what holds then is that the
  orders set, with those still to be set (`Coming`), are the indices, and that the negative ones
  are those of the rows still to be placed (`Settled`), so that no `UPDATE` meets another order.
  That there is no cycle is said by sets (`Acyclic`), so that a new parent is safe because its own
  chain ends at a root; a deletion keeps parents because the survivors were asked first.
* `OrderIsKept`: what is to be set agrees with the committed order of all but one object.

`AuthSessionProofs`, from `AuthAssumption`; the invariant `AuthInv` is needed because each
property depends on the one before it in the life of a challenge:

* `CodesFit`: a request says "sent" only of what it has mailed, and an enabled challenge has the
  code that was mailed; `TokensFit` follows for sessions, and with `Authorised`
  `SecondFactorIsKept`.
* `CountsMatch`: the attempts in a row are the codes compared, which gives `GuessesStayBounded`.
* `SourcesFit`: no session has come from a challenge that has a row or is still to get one,
  which gives `ChallengesOpenOneSession`.
* `RowsBelongToTheEditor` and `AuthTypeCorrect`.
* `MailsStayBudgeted`, from an invariant of its own (`MailsArePaid`): the mails that were sent,
  with those that a request has still paid for, are no more than what the windows of the minute
  and of the hour have granted. What is counted is the number of entries of a set, and a window
  that has passed is a division of the clock (`NextHour`).

`FrontendProofs`, from `CacheAssumption`, `SettingsAssumption` and `SiftAssumption`. For any page, any number of
edits and any revision:

* `CacheTypeCorrect`: `Spec => []TypeOK`.
* `EditsNameTheNewest`, from the invariant `Bounds`: nothing cached is newer than what is
  remembered (`QueryBounds`; the ETag is remembered before the body is stored) and nothing
  remembered is newer than the server.
* `QuietPagesConverge`. The property speaks of a page at rest only; the inductive invariant
  `Converging` says how it gets there: unless the effect is due, a response older than another
  one is being fetched by a request whose answer cannot be older than that other one
  (`Catching`), or its last fetch has failed. A stored answer makes the effect due, which is why
  the first disjunct is needed; and the effect starts over every older fetch, which needs that
  what is cached is bounded by the server.
* `OwnEditsStayShown`, from the invariant `Promises`: for all that an edit of the tab has altered
  something among the resources that are compared with it (`Kin`) is as new as the edit, is being
  fetched by a request whose answer will be, has failed, or will be read again by an edit that the
  server has answered (`Redeems`). The others follow by `QuietPagesConverge`. What a hook changes it
  reads again, too (`HooksComplete`); for a page that lists the scene objects this needs, with
  `CacheAssumption`, that the project is mounted as well, as `ProjectWorkspace` does.

And for any number of changes, sign-ins, documents and refused writes:

* `SettingsStayKept`, from `SettingsInv`: the load that counts is the only one of its number, finds
  nothing ready and no edit since it began (`ReadsFit`); a published change that still counts has
  the grid of the page (`SavesFit`); the last choice is stored, also while the next document has
  not loaded it (`ChoiceIsStored`).

And for a video of any length, any settings and any number of clicks and failures:

* `ScreenStaysInAgreement`. `ScreenAgrees` speaks of a still picture whose events are delivered;
  the invariant `SiftInv` says what holds before. What is on the screen, and an answer that still
  counts, are of the present picture unless a "pause" or "seeking" event is queued, the video runs
  or a seek is under way (`PointsMatch`): a playing video that comes to its end changes the picture,
  but queues the "pause" that takes the points away. A seek replaces the picture only when it is
  done, and by then no points are left but those held and no request counts (`SeeksClear`). Before a
  session runs nothing is asked for, drawn or sought (`SourceFits`), and only a video is ever sought.
* `StoppedSessionsStayAtRest`, from the part of the invariant about stopped sessions
  (`StoppedFits`): no frame is requested, no timer set, no event or request open, so that only what
  the session awaits can still come, and that goes no further.

`SceneCloudsProofs`, from `SceneAssumption`, for any number of clouds, placements, reads, failed loads
and switches, on both backends:

* `LiveCloudsAreDrawn` and `ModelsAreHandedOver`. Neither property is inductive: what a surface
  draws is alive because it is what the surface leases (`Held`), because nothing leased is disposed
  of, and because what is rendered or ready and not disposed of is on the GPU (`AliveFits`). The first
  of these needs that the cache never has two live entries of one resource (`EntriesFit`; else a
  surface might draw one and lease the other), and this needs in turn that a key belongs to one cloud
  or to the one placement, whatever is placed, refused, cancelled or read in between
  (`KeysFit`). `Rendered` (what is mounted is what the scene asks for) and `PageFits` (a page that was
  left has nothing but its timer) connect the surfaces with the scene. All of it is `SceneInv`,
  proved as `SceneInvHolds`, with the types (`SceneTypeCorrect`).
* Every commit of React has one shape (`Committed`): old entries stay, each new one is of a surface
  for which none was found, and each surface leases what was found or made for it. The invariant is
  proved once for that shape (`CommitKeeps`), and then each action needs only that its scene keeps
  the keys apart.
* `BackendFits` is a fact about the operators of the pass (`RecreatedPass`, `DisposedPass`,
  `SyncedLidar`, `SwitchedDepth`, `CreatedClouds`, `WithoutClouds`): each leaves at most one
  pass with its layers, and a pass exactly while there are loads or clouds.
* For the hand-over, `LeaseIsKept` says that the next lease of a surface which draws is the entry that
  it draws, and `FinishKeepsSurfaces` that no surface goes when the key becomes the cloud's.
* `CloudsAreShared`: the refinement of `SharedClouds`, in which entries, leases and releases are gone
  and only what is held, being loaded, ready and drawn is left. It needs, besides `SceneInv`, that
  a surface leases the one live entry of its resource and was told when it is loaded, and that a
  live entry has not failed and is leased or about to be released (`LeasesFit`). Then what is
  drawn is what is held and ready (`DrawnIsHeld`), a commit asks for all anew (`CommitAsks`), the
  end of a load concerns its resource, or nobody if it was given up (`StagedShares`), and the
  microtasks give up what is not held (`ReleaseShares`).

Only model-checked are liveness properties, which are beyond the prover: `EveryQueuedJobEnds`,
`QueueDrains`, `LeftoversAreRemoved`, `EveryoneIsAnswered`, `ComesToRest`, `SceneSettles`,
`SiftSettles` and the fairness in the refinement of `JobLifecycle`.

## 7. Findings

1. `cloud_overwrite`. Two confirmations of one asset overlap; the first confirms it, the browser
   PUTs again to the URL that is still valid, and the second copies the new object over the
   confirmed one. `backend/README.md` says that an old upload URL cannot overwrite the confirmed
   file. With one confirmation at a time it holds (`SerialObjectsAreFinal` in `cloud_library`, and
   `SerialConfirmationsKeepObjects`).
2. `project_stale`. A library deletion advances the revision of a project without its guard.
   Between the guard and the load of a mutation it makes the `If-Match` stale unnoticed. No
   update is lost (`ImplementsRegister` in `project`): the mutation works on what it loads.
3. `project_unseen`. The client remembers the ETag of every read of a project, but the effect of
   `useProjectQuery` compares ten resources with one another: after somebody else's edit the
   compiled trajectory may be refetched alone and raise the remembered revision, while the others
   stay old, and the next edit names a revision newer than what it was made on.
   `backend/README.md:233` says to refetch what is older than the highest observed revision.
4. `removed_model`. A cloud removed between its placement and the end of its load comes back as a
   preview under the same key, and its download goes on. `frontend/README.md:36` says that
   removing a pending model aborts its download.
5. `sqs_stop`. `_stop_renewal` cancels the renewal and suppresses the `CancelledError` of awaiting
   it. When the application ends at that await, the cancellation it suppresses is that of the
   consumer: the task goes on consuming, while the lifespan of `api.py` waits for its end, and
   `JobCompletionConsumer.run` re-raises a cancellation exactly so that it does end.

Observations that the models show and that contradict no sentence of the repository:

* `ImportAttempt` with a failed heartbeat and a copy that lasts longer than the marker's two
  minutes: what the attempt copies after recovery has removed its marker has none, and nothing
  finds it (`LeftoversAreRemoved` promises nothing then).
* The same with a recovery that fails half way: publication asks whether the marker exists, not
  whether it has expired, and may publish an object that recovery has removed
  (`PublicationsAreWhole` does not hold with one failed heartbeat and one failed cleaning).
* `SqsQueue`: in `run_io` (`aws/clients.py:42`) an error of the SDK that arrives while a cancelled
  call is awaited takes the place of the cancellation, and the consumer goes on (`ReceiveFails`,
  `SendFails`, `SettlementFails`). A renewal that fails while its cancelled consumer stops it
  leaves the task group as an `ExceptionGroup`, which the loop catches like any error (`EndTurn`,
  third disjunct; releases of Python before 3.13).
* `SceneTree`: an add reads its asset before its first `UPDATE`. When the asset is deleted in
  between, the `INSERT` breaks the foreign key and the answer is a 500; when it is deleted after
  the commit, the object has gone with it and the answer is a 404.
* `LocalLibrary`: a second, slower upload to an asset replaces its bytes after it was confirmed, or
  between the inspection and the publication (`PublishedBytesAreFinal` does not hold with two
  uploads of one asset; `PublishedBytesAreValid` excepts it).
* `CloudLibrary`: a deletion that fails restores the object it has backed up over a newer
  one, which confirmations have inspected since (`PublishedImagesDecode` does not hold).

These definitions stay in their modules; no run checks them where they do not hold. In the
frontend:

* `create-sift-session.ts:393`: `play()` rejects when a pause or a step comes while it is still
  opening, and the rejection goes to `fail`, which stops the session (`MediaEvent` with
  "interrupted").
* A step during a slow seek keeps the earlier picture under the new `heldTime`; the page shows the
  number of a frame other than the picture until the detection arrives.
* A placed cloud that another page moves before this one has handed the model over is no longer
  recognised (`use-cloud-placement-interaction.ts:50`): it is loaded again, and the preview stays
  beside it.
* In the cloud deployment every read of the scene objects signs new URLs
  (`aws/library_storage.py:184`), so that any refetch loads clouds without a placement key again.
* A second tap while an add is out is refused without a word, and the first add loses its hand
  over (`scene.tsx:42`).
* `use-delete-project.ts` has no `onError`, where `frontend/README.md:85` describes the refresh
  after a conflict for every edit.
* After `window.location.reload()` the page stays interactive for a moment: a guest's click on the
  grid then stores the renderer of before (`SaveGrid` while `reloading`).
* A read of the session that began before a logout may answer after it and shows the editor again
  until the next one, a minute later; the server refuses what it tries.
* A save of settings that is refused with a 401 sets an error which `setCanEdit(false)` clears at
  once, where `frontend/README.md:52` describes a warning for a failed save.
* Two tabs of one browser: each save writes the whole record and takes the other's choice with it.

## 8. Not modelled, and why

* Formats of messages and manifests, verification of bytes, names, tags and wording: data that
  no property tells apart. The compiler, the SIFT kernels and rendering: floating point.
  Infrastructure and migrations: no run-time behaviour; the transactions are the steps of the
  other modules. Job events, the API proxy, undo and redo: no state of their own.
* Pipeline: listing and renaming of jobs, the declaration of queues. A job whose image raises an
  `OSError` other than a missing file is selected again and again
  (`generation_integration.py:79`) and blocks the younger ones for as long as that lasts; for the
  model it is a fault, and `EveryQueuedJobEnds` speaks of what happens when faults stop.
* Import: the S3 storage, which implements the same interface with calls of the SDK.
* SQS: the clock of a lease (one that is renewed runs out by `LeaseIsLost` only), closing the
  client, a second cancellation of a call other than the renewal's, the mail.
* Library: the defaults of a transform, downloads, thumbnails that others write.
* Projects: creation, listing and metadata; the aggregate commit of `ProjectRepository`, which
  no service calls; the tools and the transcript of the agent; that a streamed answer keeps the
  lock until its last byte.
* Scenes: transforms, visibility, the choice of a file, the value of the revision
  (`ProjectRevision` has it). Points, anchors, segments and timelines: rows of one project that one
  transaction replaces behind the guard of `ProjectRevision`, without a step of another actor in
  between; what is left is data under unique constraints.
* Accounts: the budgets of logins and verifications, and the budgets per source, which have the
  limits of the account and never bind before it; hashing and the text of mails. `throttle`
  reads the clock just before its transaction; the model takes both as one step.
* Caches: pages of more than two queries at a time (`FrontendProofs` has any page for two of the
  properties), edits of a page that has not loaded, headers of resources outside of the project,
  the caches of the library, the jobs and the account, hooks that go around `useProjectQuery`.
* Viewport: a second run of effects in strict mode, highlights, progress, picking. A loaded entry
  reaches the surface at the commit that follows it, not a microtask after. A camera mode other
  than orbit cancels a placement (`create-editor-actions.ts:28`), so that it hides no preview; a
  session that ends under a placement hides the preview, which is `cancel` here, and shows it
  again after the next sign-in, which is `startCloudPlacement`.
* SIFT lab: frame rates, texts of errors, a file on disk that becomes unreadable half way.
* Settings: the row on the server, one partial `UPDATE` a request, of which the last wins; other
  tabs of the same browser; texts of errors.
* The other features and the host application render what the caches have and call the hooks of
  `ProjectCache`.

What remains worth doing: the import over S3 as a second implementation of what `ImportAttempt`
promises.
