---------------------------- MODULE GenerationJobs ----------------------------
(***************************************************************************)
(* The generation pipeline: the job table (services/jobs.py), the          *)
(* dispatcher and the result handler of the backend                        *)
(* (services/generation_integration.py), the queue consumers               *)
(* (services/job_consumer.py) over RabbitMQ (dev/message_queue.py), and    *)
(* the generation worker (generation/.../service.py, rabbitmq.py).         *)
(*                                                                         *)
(* A step is the code between two points where another task, process or    *)
(* the broker can intervene: one SQL transaction, one broker confirm, one  *)
(* acknowledgement.  Queues are bags: retries go through TTL queues and    *)
(* redeliveries jump the line, so no order is kept.  The copy of the       *)
(* result files inside one import is a single step here; ImportAttempt.tla *)
(* opens it.                                                               *)
(***************************************************************************)
EXTENDS Naturals, FiniteSets

CONSTANTS
  MaxJobs,              \* bound on the jobs ever created; ids follow creation order
  ImageJobs,            \* the jobs whose input is the library image
  Dispatcher,           \* dispatch loops, one per backend process
  GenerationConsumer,   \* consumers of the generation result queue
  CompletionConsumer,   \* consumers of the plain job-completion queue
  Worker,               \* generation workers
  MaxAttempts,          \* message_queue_max_attempts
  MaxCompletions,       \* bound on messages published by external producers
  MaxFaults             \* bound on lost connections, restarts and failed confirms

ASSUME ConstantsAssumption ==
  /\ MaxJobs \in Nat
  /\ ImageJobs \subseteq 1..MaxJobs
  /\ GenerationConsumer \cap CompletionConsumer = {}
  /\ MaxAttempts \in Nat \ {0}
  /\ MaxCompletions \in Nat
  /\ MaxFaults \in Nat

VARIABLES
  jobs,         \* the job table
  imageReady,   \* the source image is a ready library asset
  requests,     \* requests[j]: ready request messages for job j
  inbox,        \* inbox[m]: ready messages m in the result and completion queues
  failedQueue,  \* messages forwarded to the .failed queues
  output,       \* jobs whose result directory the worker has published
  dispatcher, consumer, worker,
  completions,  \* messages published so far by external producers
  faults        \* faults so far

vars == <<jobs, imageReady, requests, inbox, failedQueue, output,
          dispatcher, consumer, worker, completions, faults>>

-----------------------------------------------------------------------------
(* Types *)

Job == 1..MaxJobs
JobId == 0..MaxJobs             \* 0: an id no job has; also the idle processes' job
Consumer == GenerationConsumer \cup CompletionConsumer

Terminal == {"succeeded", "failed"}
Status == {"absent", "draft", "queued"} \cup Terminal
JobRow == [status : Status, pending : BOOLEAN, completed : BOOLEAN, registered : Nat]

ResultKind == {"succeeded", "failed"}
Message == [kind : ResultKind \cup {"completion"}, job : JobId, attempt : 1..MaxAttempts]

DispatcherState == [phase : {"idle", "preparing", "failing", "publishing", "clearing"},
                    job : JobId]
ConsumerState == [phase : {"idle", "received", "failing", "resolving", "importing",
                           "rejecting", "forwarding", "retrying", "settling"},
                  msg : Message, held : BOOLEAN]
WorkerState == [phase : {"idle", "generating", "publishing", "settling"},
                job : JobId, kind : ResultKind, held : BOOLEAN]

NoMessage == [kind |-> "completion", job |-> 0, attempt |-> 1]
IdleDispatcher == [phase |-> "idle", job |-> 0]
IdleConsumer == [phase |-> "idle", msg |-> NoMessage, held |-> FALSE]
IdleWorker == [phase |-> "idle", job |-> 0, kind |-> "failed", held |-> FALSE]

TypeOK ==
  /\ jobs \in [JobId -> JobRow]
  /\ imageReady \in BOOLEAN
  /\ requests \in [JobId -> Nat]
  /\ inbox \in [Message -> Nat]
  /\ failedQueue \subseteq Message
  /\ output \subseteq JobId
  /\ dispatcher \in [Dispatcher -> DispatcherState]
  /\ consumer \in [Consumer -> ConsumerState]
  /\ worker \in [Worker -> WorkerState]
  /\ completions \in 0..MaxCompletions
  /\ faults \in 0..MaxFaults

Init ==
  /\ jobs = [j \in JobId |-> [status |-> "absent", pending |-> FALSE,
                              completed |-> FALSE, registered |-> 0]]
  /\ imageReady = TRUE
  /\ requests = [j \in JobId |-> 0]
  /\ inbox = [m \in Message |-> 0]
  /\ failedQueue = {}
  /\ output = {}
  /\ dispatcher = [d \in Dispatcher |-> IdleDispatcher]
  /\ consumer = [c \in Consumer |-> IdleConsumer]
  /\ worker = [w \in Worker |-> IdleWorker]
  /\ completions = 0
  /\ faults = 0

-----------------------------------------------------------------------------
(* The job table and the library image *)

\* JobService.create: the image is checked in the transaction that adds the row.
Create(j, start) ==
  /\ jobs[j].status = "absent"
  /\ \A i \in 1..(j - 1) : jobs[i].status # "absent"
  /\ j \in ImageJobs => imageReady
  /\ jobs' = [jobs EXCEPT ![j].status = IF start THEN "queued" ELSE "draft",
                          ![j].pending = start]
  /\ UNCHANGED <<imageReady, requests, inbox, failedQueue, output,
                 dispatcher, consumer, worker, completions, faults>>

\* Faulty variant: deletion without looking for active jobs.
DeleteImage_Unchecked ==
  /\ imageReady
  /\ imageReady' = FALSE
  /\ UNCHANGED <<jobs, requests, inbox, failedQueue, output,
                 dispatcher, consumer, worker, completions, faults>>

\* LibraryService.delete_many refuses an image that an active job refers to.
DeleteImage ==
  /\ imageReady
  /\ \A j \in ImageJobs : jobs[j].status # "queued"
  /\ imageReady' = FALSE
  /\ UNCHANGED <<jobs, requests, inbox, failedQueue, output,
                 dispatcher, consumer, worker, completions, faults>>

\* Faulty variant: an UPDATE without the status in its WHERE clause.
FailRow_Unguarded(j) ==
  jobs' = [jobs EXCEPT ![j].status = "failed", ![j].pending = FALSE, ![j].completed = TRUE]

\* GenerationIntegration._fail: one guarded UPDATE, a no-op on an inactive job.
FailRow(j) ==
  jobs' = IF jobs[j].status = "queued"
          THEN [jobs EXCEPT ![j].status = "failed", ![j].pending = FALSE,
                            ![j].completed = TRUE]
          ELSE jobs

\* Faulty variant: only a success stops a completion.
CompleteRow_OverridesFailure(j) ==
  jobs' = IF jobs[j].status = "succeeded"
          THEN jobs
          ELSE [jobs EXCEPT ![j].status = "succeeded", ![j].pending = FALSE,
                            ![j].completed = TRUE, ![j].registered = @ + 1]

\* The transaction of JobCompletionService._complete_pending: the row is read
\* again under the writer lock, and a job that ended meanwhile keeps its outcome.
CompleteRow(j) ==
  jobs' = IF jobs[j].completed
          THEN jobs
          ELSE [jobs EXCEPT ![j].status = "succeeded", ![j].pending = FALSE,
                            ![j].completed = TRUE, ![j].registered = @ + 1]

-----------------------------------------------------------------------------
(* The dispatch loop: GenerationIntegration._dispatch_next *)

Pending(j) == jobs[j].status = "queued" /\ jobs[j].pending

\* Faulty variant: the flag is cleared when the job is taken, not after the confirm.
SelectJob_ClearsFirst(d) ==
  /\ dispatcher[d].phase = "idle"
  /\ \E j \in Job :
       /\ Pending(j)
       /\ dispatcher' = [dispatcher EXCEPT ![d] = [phase |-> "preparing", job |-> j]]
       /\ jobs' = [jobs EXCEPT ![j].pending = FALSE]
  /\ UNCHANGED <<imageReady, requests, inbox, failedQueue, output,
                 consumer, worker, completions, faults>>

SelectJob(d) ==
  /\ dispatcher[d].phase = "idle"
  /\ \E j \in Job :
       /\ Pending(j)
       /\ \A i \in 1..(j - 1) : ~Pending(i)
       /\ dispatcher' = [dispatcher EXCEPT ![d] = [phase |-> "preparing", job |-> j]]
  /\ UNCHANGED <<jobs, imageReady, requests, inbox, failedQueue, output,
                 consumer, worker, completions, faults>>

\* _worker_input(stage=True): a text prompt needs nothing; the image must still
\* be a ready asset, and its bytes may be missing or unreadable all the same.
PrepareInput(d) ==
  /\ dispatcher[d].phase = "preparing"
  /\ \/ /\ dispatcher[d].job \in ImageJobs => imageReady
        /\ dispatcher' = [dispatcher EXCEPT ![d].phase = "publishing"]
     \/ /\ dispatcher[d].job \in ImageJobs
        /\ dispatcher' = [dispatcher EXCEPT ![d].phase = "failing"]
  /\ UNCHANGED <<jobs, imageReady, requests, inbox, failedQueue, output,
                 consumer, worker, completions, faults>>

FailDispatch(d) ==
  /\ dispatcher[d].phase = "failing"
  /\ FailRow(dispatcher[d].job)
  /\ dispatcher' = [dispatcher EXCEPT ![d] = IdleDispatcher]
  /\ UNCHANGED <<imageReady, requests, inbox, failedQueue, output,
                 consumer, worker, completions, faults>>

PublishRequest(d) ==
  /\ dispatcher[d].phase = "publishing"
  /\ requests' = [requests EXCEPT ![dispatcher[d].job] = @ + 1]
  /\ dispatcher' = [dispatcher EXCEPT ![d].phase = "clearing"]
  /\ UNCHANGED <<jobs, imageReady, inbox, failedQueue, output,
                 consumer, worker, completions, faults>>

ClearPending(d) ==
  /\ dispatcher[d].phase = "clearing"
  /\ jobs' = [jobs EXCEPT ![dispatcher[d].job].pending = FALSE]
  /\ dispatcher' = [dispatcher EXCEPT ![d] = IdleDispatcher]
  /\ UNCHANGED <<imageReady, requests, inbox, failedQueue, output,
                 consumer, worker, completions, faults>>

\* Any other exception, or a restart of the process: the loop starts over from
\* the table.  The publish may have reached the broker or not.
DispatchFault(d) ==
  /\ dispatcher[d].phase # "idle"
  /\ faults < MaxFaults
  /\ faults' = faults + 1
  /\ dispatcher' = [dispatcher EXCEPT ![d] = IdleDispatcher]
  /\ UNCHANGED <<jobs, imageReady, requests, inbox, failedQueue, output,
                 consumer, worker, completions>>

-----------------------------------------------------------------------------
(* The generation worker *)

TakeRequest(w) ==
  /\ worker[w].phase = "idle"
  /\ \E j \in JobId :
       /\ requests[j] > 0
       /\ requests' = [requests EXCEPT ![j] = @ - 1]
       /\ worker' = [worker EXCEPT ![w] = [phase |-> "generating", job |-> j,
                                           kind |-> "failed", held |-> TRUE]]
  /\ UNCHANGED <<jobs, imageReady, inbox, failedQueue, output,
                 dispatcher, consumer, completions, faults>>

\* GenerationService.process: a published directory is reused; otherwise the
\* generator runs, and its output appears by one rename or not at all.
Generate(w) ==
  /\ worker[w].phase = "generating"
  /\ \/ /\ output' = output \cup {worker[w].job}
        /\ worker' = [worker EXCEPT ![w].phase = "publishing", ![w].kind = "succeeded"]
     \/ /\ worker[w].job \notin output
        /\ worker' = [worker EXCEPT ![w].phase = "publishing", ![w].kind = "failed"]
        /\ UNCHANGED output
  /\ UNCHANGED <<jobs, imageReady, requests, inbox, failedQueue,
                 dispatcher, consumer, completions, faults>>

Result(w) == [kind |-> worker[w].kind, job |-> worker[w].job, attempt |-> 1]

PublishResult(w) ==
  /\ worker[w].phase = "publishing"
  /\ inbox' = [inbox EXCEPT ![Result(w)] = @ + 1]
  /\ worker' = [worker EXCEPT ![w].phase = "settling"]
  /\ UNCHANGED <<jobs, imageReady, requests, failedQueue, output,
                 dispatcher, consumer, completions, faults>>

AckRequest(w) ==
  /\ worker[w].phase = "settling"
  /\ worker' = [worker EXCEPT ![w] = IdleWorker]
  /\ UNCHANGED <<jobs, imageReady, requests, inbox, failedQueue, output,
                 dispatcher, consumer, completions, faults>>

\* The broker takes an unacknowledged request back.  After a crash or a failed
\* confirm the worker drops it; after a lost connection the handler runs on.
WorkerFault(w) ==
  /\ worker[w].phase # "idle"
  /\ faults < MaxFaults
  /\ faults' = faults + 1
  /\ requests' = IF worker[w].held
                 THEN [requests EXCEPT ![worker[w].job] = @ + 1] ELSE requests
  /\ \/ worker' = [worker EXCEPT ![w] = IdleWorker]
     \/ worker[w].held /\ worker' = [worker EXCEPT ![w].held = FALSE]
  /\ UNCHANGED <<jobs, imageReady, inbox, failedQueue, output,
                 dispatcher, consumer, completions>>

-----------------------------------------------------------------------------
(* The queue consumers: JobCompletionConsumer.process *)

Reads(c) == IF c \in GenerationConsumer THEN ResultKind ELSE {"completion"}

\* An external producer publishes a completion for any job id, known or not.
PublishCompletion(j) ==
  /\ completions < MaxCompletions
  /\ completions' = completions + 1
  /\ inbox' = [inbox EXCEPT ![[kind |-> "completion", job |-> j, attempt |-> 1]] = @ + 1]
  /\ UNCHANGED <<jobs, imageReady, requests, failedQueue, output,
                 dispatcher, consumer, worker, faults>>

\* What receive makes of a message.  One from outside that names no job may be no
\* completion at all (too large, or not of the model): receive itself forwards it to
\* the failed queue, with no on_rejection.  The worker's own results are valid.
Validated(m) ==
  IF m.kind = "completion" /\ m.job = 0 THEN {"received", "forwarding"} ELSE {"received"}

Receive(c) ==
  /\ consumer[c].phase = "idle"
  /\ \E m \in Message :
       /\ m.kind \in Reads(c)
       /\ inbox[m] > 0
       /\ inbox' = [inbox EXCEPT ![m] = @ - 1]
       /\ \E phase \in Validated(m) :
            consumer' = [consumer EXCEPT ![c] = [phase |-> phase, msg |-> m, held |-> TRUE]]
  /\ UNCHANGED <<jobs, imageReady, requests, failedQueue, output,
                 dispatcher, worker, completions, faults>>

\* The first read of the row, in GenerationIntegration.register or in
\* JobCompletionService.register.  What it saw may be stale in the next step.
Route(c) ==
  LET m == consumer[c].msg
      row == jobs[m.job]
  IN IF m.kind = "completion"
     THEN CASE row.status = "absent" -> "rejecting"
            [] row.completed -> "settling"
            [] OTHER -> "importing"
     ELSE CASE row.status \in {"absent", "draft"} -> "rejecting"
            [] row.status \in Terminal -> "settling"
            [] OTHER -> IF m.kind = "failed" THEN "failing" ELSE "resolving"

ReadJob(c) ==
  /\ consumer[c].phase = "received"
  /\ consumer' = [consumer EXCEPT ![c].phase = Route(c)]
  /\ UNCHANGED <<jobs, imageReady, requests, inbox, failedQueue, output,
                 dispatcher, worker, completions, faults>>

FailJob(c) ==
  /\ consumer[c].phase = "failing"
  /\ FailRow(consumer[c].msg.job)
  /\ consumer' = [consumer EXCEPT ![c].phase = "settling"]
  /\ UNCHANGED <<imageReady, requests, inbox, failedQueue, output,
                 dispatcher, worker, completions, faults>>

\* _worker_input(stage=False) and _completion: the manifest is compared with the
\* job's input, so the image is needed again.  A mismatch, an unusable manifest or
\* a missing image is a LibraryError, with no second look at the row.
ResolveResult(c) ==
  /\ consumer[c].phase = "resolving"
  /\ \/ /\ consumer[c].msg.job \in ImageJobs => imageReady
        /\ consumer' = [consumer EXCEPT ![c].phase = "importing"]
     \/ consumer' = [consumer EXCEPT ![c].phase = "rejecting"]
  /\ UNCHANGED <<jobs, imageReady, requests, inbox, failedQueue, output,
                 dispatcher, worker, completions, faults>>

Import(c) ==
  /\ consumer[c].phase = "importing"
  /\ CompleteRow(consumer[c].msg.job)
  /\ consumer' = [consumer EXCEPT ![c].phase = "settling"]
  /\ UNCHANGED <<imageReady, requests, inbox, failedQueue, output,
                 dispatcher, worker, completions, faults>>

\* A LibraryError of the import.  JobCompletionService.register looks at the
\* row once more: after a concurrent winner the failure is a replay.
RefuseImport(c) ==
  /\ consumer[c].phase = "importing"
  /\ consumer' = [consumer EXCEPT ![c].phase =
                    IF jobs[consumer[c].msg.job].completed THEN "settling" ELSE "rejecting"]
  /\ UNCHANGED <<jobs, imageReady, requests, inbox, failedQueue, output,
                 dispatcher, worker, completions, faults>>

\* Faulty variant: there is no last attempt.
FailAttempt_Forever(c) ==
  /\ consumer[c].phase \in {"received", "failing", "resolving", "importing"}
  /\ consumer' = [consumer EXCEPT ![c].phase = "retrying"]
  /\ UNCHANGED <<jobs, imageReady, requests, inbox, failedQueue, output,
                 dispatcher, worker, completions, faults>>

\* Any other exception of register, the database's included: retry, and give up
\* at the last attempt.
FailAttempt(c) ==
  /\ consumer[c].phase \in {"received", "failing", "resolving", "importing"}
  /\ consumer' = [consumer EXCEPT ![c].phase =
                    IF consumer[c].msg.attempt >= MaxAttempts THEN "rejecting" ELSE "retrying"]
  /\ UNCHANGED <<jobs, imageReady, requests, inbox, failedQueue, output,
                 dispatcher, worker, completions, faults>>

\* on_rejection: the generation consumer fails the job, the plain one does nothing.
OnRejection(c) ==
  /\ consumer[c].phase = "rejecting"
  /\ IF c \in GenerationConsumer THEN FailRow(consumer[c].msg.job) ELSE UNCHANGED jobs
  /\ consumer' = [consumer EXCEPT ![c].phase = "forwarding"]
  /\ UNCHANGED <<imageReady, requests, inbox, failedQueue, output,
                 dispatcher, worker, completions, faults>>

\* RabbitMQMessageQueue._forward publishes the copy before it settles the original.
ForwardRejected(c) ==
  /\ consumer[c].phase = "forwarding"
  /\ failedQueue' = failedQueue \cup {consumer[c].msg}
  /\ consumer' = [consumer EXCEPT ![c].phase = "settling"]
  /\ UNCHANGED <<jobs, imageReady, requests, inbox, output,
                 dispatcher, worker, completions, faults>>

NextAttempt(m) == [m EXCEPT !.attempt = IF @ < MaxAttempts THEN @ + 1 ELSE @]

ForwardRetry(c) ==
  /\ consumer[c].phase = "retrying"
  /\ inbox' = [inbox EXCEPT ![NextAttempt(consumer[c].msg)] = @ + 1]
  /\ consumer' = [consumer EXCEPT ![c].phase = "settling"]
  /\ UNCHANGED <<jobs, imageReady, requests, failedQueue, output,
                 dispatcher, worker, completions, faults>>

Ack(c) ==
  /\ consumer[c].phase = "settling"
  /\ consumer' = [consumer EXCEPT ![c] = IdleConsumer]
  /\ UNCHANGED <<jobs, imageReady, requests, inbox, failedQueue, output,
                 dispatcher, worker, completions, faults>>

\* The broker takes the delivery back: the quorum completion queue counts the
\* redelivery as an attempt, the classic result queue does not.
Redelivered(m) == IF m.kind = "completion" THEN NextAttempt(m) ELSE m

\* After a restart, or an exception that leaves hold() by its finally clause,
\* the consumer drops the delivery; after a lost connection it runs on with it.
ConsumerFault(c) ==
  /\ consumer[c].phase # "idle"
  /\ faults < MaxFaults
  /\ faults' = faults + 1
  /\ inbox' = IF consumer[c].held
              THEN [inbox EXCEPT ![Redelivered(consumer[c].msg)] = @ + 1] ELSE inbox
  /\ \/ consumer' = [consumer EXCEPT ![c] = IdleConsumer]
     \/ consumer[c].held /\ consumer' = [consumer EXCEPT ![c].held = FALSE]
  /\ UNCHANGED <<jobs, imageReady, requests, failedQueue, output,
                 dispatcher, worker, completions>>

-----------------------------------------------------------------------------
(* The specification *)

Dispatch(d) ==
  \/ SelectJob(d) \/ PrepareInput(d) \/ FailDispatch(d)
  \/ PublishRequest(d) \/ ClearPending(d)

Work(w) == TakeRequest(w) \/ Generate(w) \/ PublishResult(w) \/ AckRequest(w)

Consume(c) ==
  \/ Receive(c) \/ ReadJob(c) \/ FailJob(c) \/ ResolveResult(c) \/ Import(c)
  \/ RefuseImport(c) \/ FailAttempt(c) \/ OnRejection(c) \/ ForwardRejected(c)
  \/ ForwardRetry(c) \/ Ack(c)

Environment ==
  \/ \E j \in Job, start \in BOOLEAN : Create(j, start)
  \/ DeleteImage
  \/ \E j \in JobId : PublishCompletion(j)
  \/ \E d \in Dispatcher : DispatchFault(d)
  \/ \E w \in Worker : WorkerFault(w)
  \/ \E c \in Consumer : ConsumerFault(c)

Next ==
  \/ \E d \in Dispatcher : Dispatch(d)
  \/ \E w \in Worker : Work(w)
  \/ \E c \in Consumer : Consume(c)
  \/ Environment

Spec == Init /\ [][Next]_vars

\* The loops of api.py's lifespan and of the worker run for ever; nothing obliges
\* a client to create a job, an image to be deleted or a fault to happen.
Fairness ==
  /\ \A d \in Dispatcher : WF_vars(Dispatch(d))
  /\ \A w \in Worker : WF_vars(Work(w))
  /\ \A c \in Consumer : WF_vars(Consume(c))

FairSpec == Spec /\ Fairness

-----------------------------------------------------------------------------
(* Properties *)

\* A job row tells one story: dispatch is pending only while the job is queued,
\* completed_at is set exactly on terminal jobs, and a job has registered result
\* assets, once, exactly when it succeeded, however many copies of its result
\* and of external completions were imported by racing consumers.
OutcomeConsistent ==
  \A j \in JobId :
    /\ jobs[j].pending => jobs[j].status = "queued"
    /\ jobs[j].completed <=> jobs[j].status \in Terminal
    /\ jobs[j].registered = IF jobs[j].status = "succeeded" THEN 1 ELSE 0

\* The first outcome wins: no late result, duplicate, rejection or dispatcher that
\* acts on a stale read ever changes a job that has ended.
FirstOutcomeWins == [][\A j \in JobId : jobs[j].completed => jobs'[j] = jobs[j]]_vars

\* Where a job that needs no further dispatch is being worked on: a request for
\* it is queued or held by a worker that has not yet published, or its result is
\* queued or held by a consumer that has neither applied nor returned it.
Unapplied == {"received", "failing", "resolving", "importing", "rejecting", "retrying"}

RequestQueued(j) == requests[j] > 0

WorkerHolds(j) ==
  \E w \in Worker : /\ worker[w].job = j /\ worker[w].held
                    /\ worker[w].phase \in {"generating", "publishing"}

ResultQueued(j) == \E m \in Message : m.kind \in ResultKind /\ m.job = j /\ inbox[m] > 0

ConsumerHolds(j) ==
  \E c \in GenerationConsumer : /\ consumer[c].msg.job = j /\ consumer[c].held
                                /\ consumer[c].phase \in Unapplied

Carried(j) == RequestQueued(j) \/ WorkerHolds(j) \/ ResultQueued(j) \/ ConsumerHolds(j)

\* No queued job is lost: whatever crashes, redeliveries and give-ups happen, it is
\* either still to be dispatched or a request or result for it is under way.
NoLostJob == \A j \in Job : jobs[j].status = "queued" => jobs[j].pending \/ Carried(j)

\* A generation result ends in the failed queue only after its job has ended:
\* rejection fails the job before the message leaves the result queue.
RejectedResultsAreTerminal ==
  \A m \in failedQueue : m.kind \in ResultKind => jobs[m.job].status \in Terminal

\* The source image of an active job cannot be deleted, so neither dispatch nor the
\* check of the result's manifest fails for want of the asset.
ActiveJobsKeepImage == \A j \in ImageJobs : jobs[j].status = "queued" => imageReady

\* The inductive invariant behind the ones above and the refinement below.  Requests, results and the
\* processes that handle them only concern jobs that were queued once; a consumer
\* of the result queue holds a result, and forwards a rejected one only when the
\* job has ended; a dispatcher about to clear the pending flag leaves a carrier or
\* an ended job behind.
WasQueued(j) == jobs[j].status = "queued" \/ jobs[j].status \in Terminal

OnlyQueuedJobsAreHandled ==
  /\ \A j \in JobId : requests[j] > 0 => WasQueued(j)
  /\ \A m \in Message : m.kind \in ResultKind /\ inbox[m] > 0 => WasQueued(m.job)
  /\ \A d \in Dispatcher : dispatcher[d].phase # "idle" =>
       dispatcher[d].job \in Job /\ WasQueued(dispatcher[d].job)
  /\ \A w \in Worker : worker[w].phase # "idle" => WasQueued(worker[w].job)
  /\ \A c \in GenerationConsumer : consumer[c].phase # "idle" =>
       consumer[c].msg.kind \in ResultKind /\ WasQueued(consumer[c].msg.job)
  /\ \A c \in CompletionConsumer : consumer[c].msg.kind = "completion"

RejectionFailsFirst ==
  \A c \in GenerationConsumer :
    consumer[c].phase = "forwarding" => jobs[consumer[c].msg.job].status \in Terminal

EndedOrCarried(j) == jobs[j].status \in Terminal \/ Carried(j)

ClearingIsSafe ==
  \A d \in Dispatcher :
    dispatcher[d].phase = "clearing" => EndedOrCarried(dispatcher[d].job)

\* A consumer imports results only into a job that exists.
KnownJobsAreResolved ==
  \A c \in Consumer :
    consumer[c].phase \in {"resolving", "importing"} =>
      jobs[consumer[c].msg.job].status # "absent"

PipelineInvariant ==
  /\ OutcomeConsistent
  /\ KnownJobsAreResolved
  /\ OnlyQueuedJobsAreHandled
  /\ RejectionFailsFirst
  /\ RejectedResultsAreTerminal
  /\ ClearingIsSafe
  /\ NoLostJob

\* Every queued job ends, whatever faults happen, as long as they stop.
EveryQueuedJobEnds ==
  \A j \in Job : jobs[j].status = "queued" ~> jobs[j].status \in Terminal

Lifecycle == INSTANCE JobLifecycle WITH
  status <- [j \in Job |-> jobs[j].status],
  registered <- [j \in Job |-> jobs[j].registered]

\* The pipeline implements the abstract job lifecycle, its liveness included.
ImplementsLifecycle == Lifecycle!Spec
===============================================================================
