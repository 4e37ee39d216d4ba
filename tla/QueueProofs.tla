------------------------------ MODULE QueueProofs -----------------------------
(***************************************************************************)
(* Theorems about the queues between the backend and its workers:          *)
(* GenerationJobs for every number of jobs, processes, attempts and        *)
(* faults, then SqsQueue for every number of consumers, messages,          *)
(* receives and mishaps.                                                   *)
(***************************************************************************)
EXTENDS GenerationJobs, SqsQueue, TLAPS

-----------------------------------------------------------------------------
(* Type correctness *)

LEMMA InitTyped == Init => TypeOK
<1>1. NoMessage \in Message
  BY ConstantsAssumption DEF NoMessage, Message, JobId
<1>2. QED
  BY <1>1, ConstantsAssumption
  DEF Init, TypeOK, JobId, JobRow, Status, DispatcherState, IdleDispatcher,
      ConsumerState, IdleConsumer, WorkerState, IdleWorker, ResultKind

\* The operators of the model stay in their types.
LEMMA RowsTyped ==
  ASSUME TypeOK, NEW j \in JobId, FailRow(j) \/ CompleteRow(j)
  PROVE  jobs' \in [JobId -> JobRow]
BY DEF TypeOK, FailRow, CompleteRow, JobRow, Status, Terminal

LEMMA NextAttemptTyped ==
  ASSUME NEW m \in Message
  PROVE  /\ NextAttempt(m) \in Message
         /\ Redelivered(m) \in Message
         /\ NextAttempt(m).job = m.job /\ NextAttempt(m).kind = m.kind
         /\ Redelivered(m).job = m.job /\ Redelivered(m).kind = m.kind
BY ConstantsAssumption DEF NextAttempt, Redelivered, Message

LEMMA DispatchTyped ==
  ASSUME TypeOK, NEW d \in Dispatcher, Dispatch(d)
  PROVE  TypeOK'
<1> USE DEF TypeOK
<1>1. dispatcher[d] \in DispatcherState /\ dispatcher[d].job \in JobId
  BY DEF DispatcherState
<1>2. IdleDispatcher \in DispatcherState
  BY ConstantsAssumption DEF IdleDispatcher, DispatcherState, JobId
<1>3. CASE SelectJob(d)
  BY <1>3 DEF SelectJob, DispatcherState, Job, JobId
<1>4. CASE PrepareInput(d)
  BY <1>1, <1>4 DEF PrepareInput, DispatcherState
<1>5. CASE FailDispatch(d)
  BY <1>1, <1>2, <1>5, RowsTyped DEF FailDispatch
<1>6. CASE PublishRequest(d)
  BY <1>1, <1>6 DEF PublishRequest, DispatcherState
<1>7. CASE ClearPending(d)
  BY <1>1, <1>2, <1>7 DEF ClearPending, JobRow
<1>8. QED
  BY <1>3, <1>4, <1>5, <1>6, <1>7 DEF Dispatch

LEMMA WorkTyped ==
  ASSUME TypeOK, NEW w \in Worker, Work(w)
  PROVE  TypeOK'
<1> USE DEF TypeOK
<1>1. worker[w] \in WorkerState /\ worker[w].job \in JobId /\ worker[w].kind \in ResultKind
  BY DEF WorkerState
<1>2. IdleWorker \in WorkerState
  BY ConstantsAssumption DEF IdleWorker, WorkerState, JobId, ResultKind
<1>3. CASE TakeRequest(w)
  BY <1>3 DEF TakeRequest, WorkerState, ResultKind
<1>4. CASE Generate(w)
  BY <1>1, <1>4 DEF Generate, WorkerState, ResultKind
<1>5. CASE PublishResult(w)
  <2>1. Result(w) \in Message
    BY <1>1, ConstantsAssumption DEF Result, Message
  <2>2. inbox' \in [Message -> Nat]
    BY <1>5, <2>1 DEF PublishResult
  <2>3. worker' \in [Worker -> WorkerState]
    BY <1>1, <1>5 DEF PublishResult, WorkerState
  <2>4. QED
    BY <1>5, <2>2, <2>3 DEF PublishResult
<1>6. CASE AckRequest(w)
  BY <1>2, <1>6 DEF AckRequest
<1>7. QED
  BY <1>3, <1>4, <1>5, <1>6 DEF Work

LEMMA ConsumeTyped ==
  ASSUME TypeOK, NEW c \in Consumer, Consume(c)
  PROVE  TypeOK'
<1> USE DEF TypeOK
<1>1. consumer[c] \in ConsumerState /\ consumer[c].msg \in Message
      /\ consumer[c].msg.job \in JobId
  BY DEF ConsumerState, Message
<1>2. IdleConsumer \in ConsumerState
  BY ConstantsAssumption DEF IdleConsumer, ConsumerState, NoMessage, Message, JobId
<1>3. CASE Receive(c)
  BY <1>3 DEF Receive, Validated, ConsumerState
<1>4. CASE ReadJob(c)
  <2>1. Route(c) \in {"rejecting", "settling", "importing", "failing", "resolving"}
    BY DEF Route
  <2>2. QED
    BY <1>1, <1>4, <2>1 DEF ReadJob, ConsumerState
<1>5. CASE FailJob(c)
  BY <1>1, <1>5, RowsTyped DEF FailJob, ConsumerState
<1>6. CASE ResolveResult(c)
  BY <1>1, <1>6 DEF ResolveResult, ConsumerState
<1>7. CASE Import(c)
  BY <1>1, <1>7, RowsTyped DEF Import, ConsumerState
<1>8. CASE RefuseImport(c)
  BY <1>1, <1>8 DEF RefuseImport, ConsumerState
<1>9. CASE FailAttempt(c)
  BY <1>1, <1>9 DEF FailAttempt, ConsumerState
<1>10. CASE OnRejection(c)
  BY <1>1, <1>10, RowsTyped DEF OnRejection, ConsumerState
<1>11. CASE ForwardRejected(c)
  BY <1>1, <1>11 DEF ForwardRejected, ConsumerState
<1>12. CASE ForwardRetry(c)
  BY <1>1, <1>12, NextAttemptTyped DEF ForwardRetry, ConsumerState
<1>13. CASE Ack(c)
  BY <1>2, <1>13 DEF Ack
<1>14. QED
  BY <1>3, <1>4, <1>5, <1>6, <1>7, <1>8, <1>9, <1>10, <1>11, <1>12, <1>13 DEF Consume

LEMMA EnvironmentTyped ==
  ASSUME TypeOK, Environment
  PROVE  TypeOK'
<1> USE DEF TypeOK
<1>1. ASSUME NEW j \in Job, NEW start \in BOOLEAN, Create(j, start)
      PROVE  TypeOK'
  BY <1>1 DEF Create, JobRow, Status
<1>2. CASE DeleteImage
  BY <1>2 DEF DeleteImage
<1>3. ASSUME NEW j \in JobId, PublishCompletion(j)
      PROVE  TypeOK'
  <2> DEFINE m == [kind |-> "completion", job |-> j, attempt |-> 1]
  <2>1. m \in Message
    BY ConstantsAssumption DEF Message
  <2>2. inbox' \in [Message -> Nat]
    BY <1>3, <2>1 DEF PublishCompletion
  <2>3. completions' \in 0..MaxCompletions
    BY <1>3, ConstantsAssumption DEF PublishCompletion
  <2>4. QED
    BY <1>3, <2>2, <2>3 DEF PublishCompletion
<1>4. ASSUME NEW d \in Dispatcher, DispatchFault(d)
      PROVE  TypeOK'
  BY <1>4, ConstantsAssumption DEF DispatchFault, IdleDispatcher, DispatcherState, JobId
<1>5. ASSUME NEW w \in Worker, WorkerFault(w)
      PROVE  TypeOK'
  <2>1. worker[w] \in WorkerState /\ worker[w].job \in JobId
    BY DEF WorkerState
  <2>2. IdleWorker \in WorkerState
    BY ConstantsAssumption DEF IdleWorker, WorkerState, JobId, ResultKind
  <2>3. requests' \in [JobId -> Nat] /\ faults' \in 0..MaxFaults
    <3>1. requests' \in [JobId -> Nat]
      BY <1>5, <2>1 DEF WorkerFault
    <3>2. faults' \in 0..MaxFaults
      BY <1>5, ConstantsAssumption DEF WorkerFault
    <3>3. QED
      BY <3>1, <3>2
  <2>4. worker' \in [Worker -> WorkerState]
    <3>1. CASE worker' = [worker EXCEPT ![w] = IdleWorker]
      BY <2>2, <3>1
    <3>2. CASE worker' = [worker EXCEPT ![w].held = FALSE]
      BY <2>1, <3>2 DEF WorkerState
    <3>3. QED
      BY <1>5, <3>1, <3>2 DEF WorkerFault
  <2>5. QED
    BY <1>5, <2>3, <2>4 DEF WorkerFault
<1>6. ASSUME NEW c \in Consumer, ConsumerFault(c)
      PROVE  TypeOK'
  <2>1. consumer[c] \in ConsumerState /\ Redelivered(consumer[c].msg) \in Message
    BY NextAttemptTyped DEF ConsumerState
  <2>2. IdleConsumer \in ConsumerState
    BY ConstantsAssumption DEF IdleConsumer, ConsumerState, NoMessage, Message, JobId
  <2>3. inbox' \in [Message -> Nat] /\ faults' \in 0..MaxFaults
    <3>1. inbox' \in [Message -> Nat]
      BY <1>6, <2>1 DEF ConsumerFault
    <3>2. faults' \in 0..MaxFaults
      BY <1>6, ConstantsAssumption DEF ConsumerFault
    <3>3. QED
      BY <3>1, <3>2
  <2>4. consumer' \in [Consumer -> ConsumerState]
    <3>1. CASE consumer' = [consumer EXCEPT ![c] = IdleConsumer]
      BY <2>2, <3>1
    <3>2. CASE consumer' = [consumer EXCEPT ![c].held = FALSE]
      BY <2>1, <3>2 DEF ConsumerState
    <3>3. QED
      BY <1>6, <3>1, <3>2 DEF ConsumerFault
  <2>5. QED
    BY <1>6, <2>3, <2>4 DEF ConsumerFault
<1>7. QED
  BY <1>1, <1>2, <1>3, <1>4, <1>5, <1>6 DEF Environment

LEMMA StutterTyped == TypeOK /\ UNCHANGED vars => TypeOK'
BY DEF TypeOK, vars

\* Every variable of the pipeline keeps its type: in particular no queue count
\* becomes negative and no message carries more than MaxAttempts attempts.
THEOREM TypeCorrect == Spec => []TypeOK
<1>1. TypeOK /\ [Next]_vars => TypeOK'
  BY DispatchTyped, WorkTyped, ConsumeTyped, EnvironmentTyped, StutterTyped DEF Next
<1>2. QED
  BY <1>1, InitTyped, PTL DEF Spec

-----------------------------------------------------------------------------
(* The job table *)

ClearRow(j) == jobs' = [jobs EXCEPT ![j].pending = FALSE]

\* The only four changes a step makes to the job table.
LEMMA RowSteps ==
  ASSUME TypeOK, [Next]_vars
  PROVE  \/ UNCHANGED jobs
         \/ \E j \in Job, start \in BOOLEAN : Create(j, start)
         \/ \E j \in JobId :
              \/ FailRow(j) \/ ClearRow(j)
              \/ CompleteRow(j) /\ \E c \in Consumer : Import(c) /\ consumer[c].msg.job = j
<1>1. CASE UNCHANGED vars
  BY <1>1 DEF vars
<1>2. ASSUME NEW d \in Dispatcher, Dispatch(d)
      PROVE  UNCHANGED jobs \/ \E j \in JobId : FailRow(j) \/ ClearRow(j)
  <2>1. dispatcher[d].job \in JobId
    BY DEF TypeOK, DispatcherState
  <2>2. QED
    BY <1>2, <2>1 DEF Dispatch, SelectJob, PrepareInput, FailDispatch, PublishRequest,
                      ClearPending, ClearRow
<1>3. ASSUME NEW w \in Worker, Work(w)
      PROVE  UNCHANGED jobs
  BY <1>3 DEF Work, TakeRequest, Generate, PublishResult, AckRequest
<1>4. ASSUME NEW c \in Consumer, Consume(c)
      PROVE  \/ UNCHANGED jobs
             \/ FailRow(consumer[c].msg.job)
             \/ CompleteRow(consumer[c].msg.job) /\ Import(c)
  BY <1>4 DEF Consume, Receive, Validated, ReadJob, FailJob, ResolveResult, Import, RefuseImport,
              FailAttempt, OnRejection, ForwardRejected, ForwardRetry, Ack
<1>5. CASE Environment
  BY <1>5 DEF Environment, DeleteImage, PublishCompletion, DispatchFault, WorkerFault,
              ConsumerFault
<1>6. \A c \in Consumer : consumer[c].msg.job \in JobId
  BY DEF TypeOK, ConsumerState, Message
<1>7. QED
  BY <1>1, <1>2, <1>3, <1>4, <1>5, <1>6 DEF Next

LEMMA OutcomeInductive ==
  ASSUME TypeOK, OutcomeConsistent, [Next]_vars
  PROVE  OutcomeConsistent'
<1> USE DEF OutcomeConsistent, TypeOK, Terminal
<1>1. CASE UNCHANGED jobs
  BY <1>1
<1>2. ASSUME NEW j \in Job, NEW start \in BOOLEAN, Create(j, start)
      PROVE  OutcomeConsistent'
  BY <1>2 DEF Create, JobRow, Job, JobId
<1>3. ASSUME NEW j \in JobId, FailRow(j)
      PROVE  OutcomeConsistent'
  BY <1>3 DEF FailRow, JobRow
<1>4. ASSUME NEW j \in JobId, CompleteRow(j)
      PROVE  OutcomeConsistent'
  BY <1>4 DEF CompleteRow, JobRow
<1>5. ASSUME NEW j \in JobId, ClearRow(j)
      PROVE  OutcomeConsistent'
  BY <1>5 DEF ClearRow, JobRow
<1>6. QED
  BY <1>1, <1>2, <1>3, <1>4, <1>5, RowSteps

\* However dispatchers, workers and consumers interleave, and whatever is
\* redelivered, every row is consistent: registered once iff succeeded, completed
\* iff terminal, pending only while queued.
THEOREM OutcomeAlwaysConsistent == Spec => []OutcomeConsistent
<1>1. Init => OutcomeConsistent
  BY DEF Init, OutcomeConsistent, Terminal
<1>2. TypeOK /\ OutcomeConsistent /\ [Next]_vars => OutcomeConsistent'
  BY OutcomeInductive
<1>3. QED
  BY <1>1, <1>2, TypeCorrect, PTL DEF Spec

LEMMA EndedRowsStay ==
  ASSUME TypeOK, OutcomeConsistent, [Next]_vars, NEW i \in JobId, jobs[i].completed
  PROVE  jobs'[i] = jobs[i]
<1> USE DEF OutcomeConsistent, TypeOK, Terminal
<1>1. ASSUME NEW j \in Job, NEW start \in BOOLEAN, Create(j, start)
      PROVE  jobs'[i] = jobs[i]
  BY <1>1 DEF Create, JobRow, Job, JobId
<1>2. ASSUME NEW j \in JobId, FailRow(j)
      PROVE  jobs'[i] = jobs[i]
  BY <1>2 DEF FailRow, JobRow
<1>3. ASSUME NEW j \in JobId, CompleteRow(j)
      PROVE  jobs'[i] = jobs[i]
  BY <1>3 DEF CompleteRow, JobRow
<1>4. ASSUME NEW j \in JobId, ClearRow(j)
      PROVE  jobs'[i] = jobs[i]
  <2>1. jobs[i].pending = FALSE
    BY DEF JobRow
  <2>2. [jobs[i] EXCEPT !.pending = FALSE] = jobs[i]
    BY <2>1 DEF JobRow
  <2>3. QED
    BY <1>4, <2>2 DEF ClearRow
<1>5. QED
  BY <1>1, <1>2, <1>3, <1>4, RowSteps

\* The outcome of a job is decided once, by whichever transaction comes first.
THEOREM OutcomeIsFinal == Spec => FirstOutcomeWins
<1>1. TypeOK /\ OutcomeConsistent /\ [Next]_vars
        => [\A j \in JobId : jobs[j].completed => jobs'[j] = jobs[j]]_vars
  BY EndedRowsStay
<1>2. QED
  BY <1>1, TypeCorrect, OutcomeAlwaysConsistent, PTL DEF Spec, FirstOutcomeWins

\* Only DeleteImage touches the image.
LEMMA ImageSteps ==
  ASSUME [Next]_vars
  PROVE  DeleteImage \/ UNCHANGED imageReady
<1>1. CASE UNCHANGED vars
  BY <1>1 DEF vars
<1>2. ASSUME NEW d \in Dispatcher, Dispatch(d)
      PROVE  UNCHANGED imageReady
  BY <1>2 DEF Dispatch, SelectJob, PrepareInput, FailDispatch, PublishRequest, ClearPending
<1>3. ASSUME NEW w \in Worker, Work(w)
      PROVE  UNCHANGED imageReady
  BY <1>3 DEF Work, TakeRequest, Generate, PublishResult, AckRequest
<1>4. ASSUME NEW c \in Consumer, Consume(c)
      PROVE  UNCHANGED imageReady
  BY <1>4 DEF Consume, Receive, Validated, ReadJob, FailJob, ResolveResult, Import, RefuseImport,
              FailAttempt, OnRejection, ForwardRejected, ForwardRetry, Ack
<1>5. CASE Environment
  BY <1>5 DEF Environment, Create, PublishCompletion, DispatchFault, WorkerFault,
              ConsumerFault
<1>6. QED
  BY <1>1, <1>2, <1>3, <1>4, <1>5 DEF Next

\* A source image outlives every active job that refers to it, because creation and
\* deletion each check the other's table inside their own transaction.
THEOREM ImagesOutliveJobs == Spec => []ActiveJobsKeepImage
<1>1. Init => ActiveJobsKeepImage
  BY DEF Init, ActiveJobsKeepImage
<1>2. TypeOK /\ ActiveJobsKeepImage /\ [Next]_vars => ActiveJobsKeepImage'
  <2> SUFFICES ASSUME TypeOK, ActiveJobsKeepImage, [Next]_vars
               PROVE  ActiveJobsKeepImage'
    OBVIOUS
  <2>1. CASE DeleteImage
    BY <2>1 DEF DeleteImage, ActiveJobsKeepImage
  <2>2. ASSUME NEW j \in Job, NEW start \in BOOLEAN, Create(j, start)
        PROVE  ActiveJobsKeepImage'
    BY <2>2, ConstantsAssumption DEF Create, ActiveJobsKeepImage, TypeOK, Job, JobId, JobRow
  <2>3. CASE /\ ~DeleteImage
             /\ ~\E j \in Job, start \in BOOLEAN : Create(j, start)
    <3>1. imageReady' = imageReady
      BY <2>3, ImageSteps
    <3>2. ASSUME NEW i \in JobId, jobs'[i].status = "queued"
          PROVE  jobs[i].status = "queued"
      <4> USE <3>2 DEF TypeOK, JobRow
      <4>1. ASSUME NEW j \in JobId, FailRow(j)
            PROVE  jobs[i].status = "queued"
        BY <4>1 DEF FailRow
      <4>2. ASSUME NEW j \in JobId, CompleteRow(j)
            PROVE  jobs[i].status = "queued"
        BY <4>2 DEF CompleteRow
      <4>3. ASSUME NEW j \in JobId, ClearRow(j)
            PROVE  jobs[i].status = "queued"
        BY <4>3 DEF ClearRow
      <4>4. QED
        BY <2>3, <4>1, <4>2, <4>3, RowSteps
    <3>3. ASSUME NEW i \in ImageJobs, jobs'[i].status = "queued"
          PROVE  imageReady
      <4>1. i \in JobId
        BY ConstantsAssumption DEF JobId
      <4>2. QED
        BY <3>2, <3>3, <4>1 DEF ActiveJobsKeepImage
    <3>4. QED
      BY <3>1, <3>3, Zenon DEF ActiveJobsKeepImage
  <2>4. QED
    BY <2>1, <2>2, <2>3
<1>3. QED
  BY <1>1, <1>2, TypeCorrect, PTL DEF Spec

-----------------------------------------------------------------------------
(* No queued job is lost *)

LEMMA DispatchCarries ==
  ASSUME TypeOK, NEW d \in Dispatcher, Dispatch(d), NEW j \in JobId, Carried(j)
  PROVE  Carried(j)'
<1>1. dispatcher[d].job \in JobId
  BY DEF TypeOK, DispatcherState
<1>2. UNCHANGED <<inbox, worker, consumer>> /\ requests'[j] >= requests[j]
  BY <1>1 DEF Dispatch, SelectJob, PrepareInput, FailDispatch, PublishRequest, ClearPending,
              TypeOK
<1>3. RequestQueued(j) => RequestQueued(j)'
  BY <1>1, <1>2 DEF RequestQueued, TypeOK, Dispatch, SelectJob, PrepareInput, FailDispatch,
                    PublishRequest, ClearPending
<1>4. QED
  BY <1>2, <1>3 DEF Carried, WorkerHolds, ResultQueued, ConsumerHolds

LEMMA WorkCarries ==
  ASSUME TypeOK, NEW w \in Worker, Work(w), NEW j \in JobId, Carried(j)
  PROVE  Carried(j)'
<1> USE DEF TypeOK
<1>1. CASE TakeRequest(w)
  <2>1. PICK i \in JobId : /\ requests[i] > 0
                           /\ requests' = [requests EXCEPT ![i] = @ - 1]
                           /\ worker' = [worker EXCEPT ![w] =
                                [phase |-> "generating", job |-> i, kind |-> "failed",
                                 held |-> TRUE]]
    BY <1>1 DEF TakeRequest
  <2>2. RequestQueued(j) => RequestQueued(j)' \/ WorkerHolds(j)'
    BY <2>1 DEF RequestQueued, WorkerHolds
  <2>3. WorkerHolds(j) => WorkerHolds(j)'
    BY <1>1, <2>1 DEF TakeRequest, WorkerHolds
  <2>4. QED
    BY <1>1, <2>2, <2>3 DEF TakeRequest, Carried, ResultQueued, ConsumerHolds
<1>2. CASE Generate(w)
  <2>1. WorkerHolds(j) => WorkerHolds(j)'
    BY <1>2 DEF Generate, WorkerHolds, WorkerState
  <2>2. QED
    BY <1>2, <2>1 DEF Generate, Carried, RequestQueued, ResultQueued, ConsumerHolds
<1>3. CASE PublishResult(w)
  <2>1. /\ Result(w) \in Message /\ Result(w).kind \in ResultKind
        /\ Result(w).job = worker[w].job
    BY ConstantsAssumption DEF Result, Message, WorkerState
  <2>2. inbox' = [inbox EXCEPT ![Result(w)] = @ + 1]
    BY <1>3 DEF PublishResult
  <2>3. ResultQueued(j) => ResultQueued(j)'
    BY <2>1, <2>2 DEF ResultQueued
  <2>4. worker[w].job = j => ResultQueued(j)'
    BY <2>1, <2>2 DEF ResultQueued
  <2>5. WorkerHolds(j) => WorkerHolds(j)' \/ ResultQueued(j)'
    BY <1>3, <2>4 DEF PublishResult, WorkerHolds
  <2>6. QED
    BY <1>3, <2>3, <2>5 DEF PublishResult, Carried, RequestQueued, ConsumerHolds
<1>4. CASE AckRequest(w)
  <2>1. WorkerHolds(j) => WorkerHolds(j)'
    BY <1>4 DEF AckRequest, WorkerHolds
  <2>2. QED
    BY <1>4, <2>1 DEF AckRequest, Carried, RequestQueued, ResultQueued, ConsumerHolds
<1>5. QED
  BY <1>1, <1>2, <1>3, <1>4 DEF Work

\* A consumer that is not c, or a step of c that keeps it among the holders of the
\* same message, leaves ConsumerHolds alone.
LEMMA HoldersStay ==
  ASSUME TypeOK, NEW c \in Consumer, NEW j \in JobId, NEW s \in ConsumerState,
         consumer' = [consumer EXCEPT ![c] = s],
         \/ c \notin GenerationConsumer
         \/ consumer[c].phase \notin Unapplied
         \/ s.phase \in Unapplied /\ s.msg = consumer[c].msg /\ s.held = consumer[c].held,
         ConsumerHolds(j)
  PROVE  ConsumerHolds(j)'
<1>1. PICK g \in GenerationConsumer : /\ consumer[g].msg.job = j /\ consumer[g].held
                                      /\ consumer[g].phase \in Unapplied
  BY DEF ConsumerHolds
<1>2. CASE g # c
  <2>1. consumer'[g] = consumer[g]
    BY <1>2 DEF TypeOK, Consumer
  <2>2. QED
    BY <1>1, <2>1 DEF ConsumerHolds
<1>3. CASE g = c
  <2>1. consumer'[c] = s
    BY DEF TypeOK
  <2>2. s.msg = consumer[c].msg /\ s.held = consumer[c].held /\ s.phase \in Unapplied
    BY <1>1, <1>3
  <2>3. consumer'[g].msg.job = j /\ consumer'[g].held /\ consumer'[g].phase \in Unapplied
    BY <1>1, <1>3, <2>1, <2>2
  <2>4. QED
    BY <2>3 DEF ConsumerHolds
<1>4. QED
  BY <1>2, <1>3

\* Putting a message into an inbox loses none of the results there.
LEMMA ResultsStay ==
  ASSUME TypeOK, NEW m \in Message, inbox' = [inbox EXCEPT ![m] = @ + 1]
  PROVE  \A j \in JobId : /\ ResultQueued(j) => ResultQueued(j)'
                          /\ m.kind \in ResultKind /\ m.job = j => ResultQueued(j)'
BY DEF TypeOK, ResultQueued

\* Taking the message c reads: a result taken is a result held.
LEMMA ReceiveCarries ==
  ASSUME TypeOK, NEW c \in Consumer, Receive(c), NEW j \in JobId,
         Carried(j)
  PROVE  Carried(j)'
<1> USE DEF TypeOK
<1>1. PICK m \in Message, phase \in {"received", "forwarding"} :
        /\ m.kind \in Reads(c) /\ inbox[m] > 0
        /\ m.kind \in ResultKind => phase = "received"
        /\ inbox' = [inbox EXCEPT ![m] = @ - 1]
        /\ consumer' = [consumer EXCEPT ![c] = [phase |-> phase, msg |-> m, held |-> TRUE]]
  BY DEF Receive, Validated, ResultKind
<1>2. consumer[c].phase = "idle" /\ UNCHANGED <<requests, worker>>
  BY DEF Receive
<1>3. ConsumerHolds(j) => ConsumerHolds(j)'
  <2>1. [phase |-> phase, msg |-> m, held |-> TRUE] \in ConsumerState
    BY DEF ConsumerState
  <2>2. QED
    BY <1>1, <1>2, <2>1, HoldersStay DEF Unapplied
<1>4. ResultQueued(j) => ResultQueued(j)' \/ ConsumerHolds(j)'
  <2>1. SUFFICES ASSUME NEW n \in Message, n.kind \in ResultKind, n.job = j, inbox[n] > 0
                 PROVE  ResultQueued(j)' \/ ConsumerHolds(j)'
    BY DEF ResultQueued
  <2>2. CASE n # m
    BY <1>1, <2>1, <2>2 DEF ResultQueued
  <2>3. CASE n = m
    <3>1. c \in GenerationConsumer
      BY <1>1, <2>1, <2>3 DEF Reads, ResultKind
    <3>2. consumer'[c] = [phase |-> "received", msg |-> m, held |-> TRUE]
      BY <1>1, <2>1, <2>3
    <3>3. consumer'[c].msg.job = j /\ consumer'[c].held /\ consumer'[c].phase \in Unapplied
      BY <2>1, <2>3, <3>2 DEF Unapplied
    <3>4. QED
      BY <3>1, <3>3 DEF ConsumerHolds
  <2>4. QED
    BY <2>2, <2>3
<1>5. QED
  BY <1>2, <1>3, <1>4 DEF Carried, RequestQueued, WorkerHolds

\* A change of phase loses at most the message of c itself, and only when c
\* reads results and leaves the phases that hold one.
LEMMA PhaseStep ==
  ASSUME TypeOK, NEW c \in Consumer, NEW j \in JobId, NEW p,
         [consumer[c] EXCEPT !.phase = p] \in ConsumerState,
         consumer' = [consumer EXCEPT ![c].phase = p],
         ConsumerHolds(j)
  PROVE  \/ ConsumerHolds(j)'
         \/ /\ c \in GenerationConsumer /\ consumer[c].msg.job = j
            /\ consumer[c].phase \in Unapplied /\ p \notin Unapplied
<1> DEFINE s == [consumer[c] EXCEPT !.phase = p]
<1>1. /\ consumer' = [consumer EXCEPT ![c] = s]
      /\ s \in ConsumerState
      /\ s.msg = consumer[c].msg /\ s.held = consumer[c].held /\ s.phase = p
  BY DEF TypeOK, ConsumerState
<1> HIDE DEF s
<1>2. CASE \/ c \notin GenerationConsumer
           \/ consumer[c].phase \notin Unapplied
           \/ p \in Unapplied
  BY <1>1, <1>2, HoldersStay
<1>3. CASE c \in GenerationConsumer /\ consumer[c].phase \in Unapplied /\ p \notin Unapplied
  <2>1. PICK g \in GenerationConsumer : /\ consumer[g].msg.job = j /\ consumer[g].held
                                        /\ consumer[g].phase \in Unapplied
    BY DEF ConsumerHolds
  <2>2. CASE g = c
    BY <1>3, <2>1, <2>2
  <2>3. CASE g # c
    <3>1. consumer'[g] = consumer[g]
      BY <1>1, <2>3 DEF TypeOK, Consumer
    <3>2. QED
      BY <2>1, <3>1 DEF ConsumerHolds
  <2>4. QED
    BY <2>2, <2>3
<1>4. QED
  BY <1>2, <1>3

\* The job of a result that a consumer applies or rejects has ended afterwards.
LEMMA FailEnds ==
  ASSUME TypeOK, NEW j \in JobId, WasQueued(j), FailRow(j)
  PROVE  jobs'[j].status \in Terminal
BY DEF TypeOK, JobRow, WasQueued, FailRow, Terminal

LEMMA CompleteEnds ==
  ASSUME TypeOK, OutcomeConsistent, NEW j \in JobId, CompleteRow(j)
  PROVE  jobs'[j].status \in Terminal
BY DEF TypeOK, JobRow, CompleteRow, OutcomeConsistent, Terminal

\* Whatever a consumer does, a carried job stays carried or has ended.
LEMMA ConsumeCarries ==
  ASSUME TypeOK, OutcomeConsistent, OnlyQueuedJobsAreHandled,
         NEW c \in Consumer, Consume(c), NEW j \in JobId, Carried(j)
  PROVE  EndedOrCarried(j)'
<1> DEFINE m == consumer[c].msg
<1>1. /\ consumer[c] \in ConsumerState /\ m \in Message /\ m.job \in JobId
  BY DEF TypeOK, ConsumerState, Message
<1>2. ASSUME c \in GenerationConsumer, consumer[c].phase # "idle"
      PROVE  m.kind \in ResultKind /\ WasQueued(m.job)
  BY <1>2 DEF OnlyQueuedJobsAreHandled
<1>3. ASSUME UNCHANGED <<requests, worker>>, ResultQueued(j) => ResultQueued(j)',
             ConsumerHolds(j) =>
               \/ ConsumerHolds(j)' \/ ResultQueued(j)' \/ jobs'[j].status \in Terminal
      PROVE  EndedOrCarried(j)'
  BY <1>3 DEF EndedOrCarried, Carried, RequestQueued, WorkerHolds
<1>4. ASSUME UNCHANGED inbox
      PROVE  ResultQueued(j) => ResultQueued(j)'
  BY <1>4 DEF ResultQueued
<1>5. CASE Receive(c)
  BY <1>5, ReceiveCarries DEF EndedOrCarried
<1>6. CASE ReadJob(c)
  <2>1. /\ Route(c) \in {"rejecting", "settling", "importing", "failing", "resolving"}
        /\ c \in GenerationConsumer /\ Route(c) = "settling"
             => jobs[m.job].status \in Terminal
    BY <1>1, <1>2, <1>6 DEF Route, ReadJob, ResultKind
  <2>2. [consumer[c] EXCEPT !.phase = Route(c)] \in ConsumerState
    BY <1>1, <2>1 DEF ConsumerState
  <2>3. Route(c) \notin Unapplied => Route(c) = "settling"
    BY <2>1 DEF Unapplied
  <2>4. ConsumerHolds(j) => ConsumerHolds(j)' \/ jobs[j].status \in Terminal
    BY <1>6, <2>1, <2>2, <2>3, PhaseStep DEF ReadJob
  <2>5. QED
    BY <1>3, <1>4, <1>6, <2>4 DEF ReadJob
<1>7. CASE FailJob(c)
  <2>1. [consumer[c] EXCEPT !.phase = "settling"] \in ConsumerState
    BY <1>1 DEF ConsumerState
  <2>2. c \in GenerationConsumer => jobs'[m.job].status \in Terminal
    BY <1>1, <1>2, <1>7, FailEnds DEF FailJob
  <2>3. ConsumerHolds(j) => ConsumerHolds(j)' \/ jobs'[j].status \in Terminal
    BY <1>7, <2>1, <2>2, PhaseStep DEF FailJob
  <2>4. QED
    BY <1>3, <1>4, <1>7, <2>3 DEF FailJob
<1>8. CASE ResolveResult(c)
  <2>1. PICK p \in {"importing", "rejecting"} : consumer' = [consumer EXCEPT ![c].phase = p]
    BY <1>8 DEF ResolveResult
  <2>2. [consumer[c] EXCEPT !.phase = p] \in ConsumerState /\ p \in Unapplied
    BY <1>1, <2>1 DEF ConsumerState, Unapplied
  <2>3. ConsumerHolds(j) => ConsumerHolds(j)'
    BY <2>1, <2>2, PhaseStep
  <2>4. QED
    BY <1>3, <1>4, <1>8, <2>3 DEF ResolveResult
<1>9. CASE Import(c)
  <2>1. [consumer[c] EXCEPT !.phase = "settling"] \in ConsumerState
    BY <1>1 DEF ConsumerState
  <2>2. jobs'[m.job].status \in Terminal
    BY <1>1, <1>9, CompleteEnds DEF Import
  <2>3. ConsumerHolds(j) => ConsumerHolds(j)' \/ jobs'[j].status \in Terminal
    BY <1>9, <2>1, <2>2, PhaseStep DEF Import
  <2>4. QED
    BY <1>3, <1>4, <1>9, <2>3 DEF Import
<1>10. CASE RefuseImport(c)
  <2>1. PICK p \in {"settling", "rejecting"} :
          /\ consumer' = [consumer EXCEPT ![c].phase = p]
          /\ p = "settling" => jobs[m.job].status \in Terminal
    BY <1>1, <1>10 DEF RefuseImport, OutcomeConsistent
  <2>2. [consumer[c] EXCEPT !.phase = p] \in ConsumerState /\ "rejecting" \in Unapplied
    BY <1>1, <2>1 DEF ConsumerState, Unapplied
  <2>3. ConsumerHolds(j) => ConsumerHolds(j)' \/ jobs[j].status \in Terminal
    BY <2>1, <2>2, PhaseStep
  <2>4. QED
    BY <1>3, <1>4, <1>10, <2>3 DEF RefuseImport
<1>11. CASE FailAttempt(c)
  <2>1. PICK p \in {"rejecting", "retrying"} : consumer' = [consumer EXCEPT ![c].phase = p]
    BY <1>11 DEF FailAttempt
  <2>2. [consumer[c] EXCEPT !.phase = p] \in ConsumerState /\ p \in Unapplied
    BY <1>1, <2>1 DEF ConsumerState, Unapplied
  <2>3. ConsumerHolds(j) => ConsumerHolds(j)'
    BY <2>1, <2>2, PhaseStep
  <2>4. QED
    BY <1>3, <1>4, <1>11, <2>3 DEF FailAttempt
<1>12. CASE OnRejection(c)
  <2>1. [consumer[c] EXCEPT !.phase = "forwarding"] \in ConsumerState
    BY <1>1 DEF ConsumerState
  <2>2. c \in GenerationConsumer => jobs'[m.job].status \in Terminal
    BY <1>1, <1>2, <1>12, FailEnds DEF OnRejection
  <2>3. ConsumerHolds(j) => ConsumerHolds(j)' \/ jobs'[j].status \in Terminal
    BY <1>12, <2>1, <2>2, PhaseStep DEF OnRejection
  <2>4. QED
    BY <1>3, <1>4, <1>12, <2>3 DEF OnRejection
<1>13. CASE ForwardRejected(c)
  <2>1. [consumer[c] EXCEPT !.phase = "settling"] \in ConsumerState
    BY <1>1 DEF ConsumerState
  <2>2. "forwarding" \notin Unapplied
    BY DEF Unapplied
  <2>3. ConsumerHolds(j) => ConsumerHolds(j)'
    BY <1>13, <2>1, <2>2, PhaseStep DEF ForwardRejected
  <2>4. QED
    BY <1>3, <1>4, <1>13, <2>3 DEF ForwardRejected
<1>14. CASE ForwardRetry(c)
  <2>1. [consumer[c] EXCEPT !.phase = "settling"] \in ConsumerState
    BY <1>1 DEF ConsumerState
  <2>2. /\ NextAttempt(m) \in Message /\ NextAttempt(m).kind = m.kind
        /\ NextAttempt(m).job = m.job
    BY <1>1, NextAttemptTyped
  <2>3. inbox' = [inbox EXCEPT ![NextAttempt(m)] = @ + 1]
    BY <1>14 DEF ForwardRetry
  <2>4. /\ ResultQueued(j) => ResultQueued(j)'
        /\ m.kind \in ResultKind /\ m.job = j => ResultQueued(j)'
    BY <2>2, <2>3, ResultsStay
  <2>5. ConsumerHolds(j) => ConsumerHolds(j)' \/ ResultQueued(j)'
    BY <1>2, <1>14, <2>1, <2>4, PhaseStep DEF ForwardRetry
  <2>6. QED
    BY <1>3, <1>14, <2>4, <2>5 DEF ForwardRetry
<1>15. CASE Ack(c)
  <2>1. IdleConsumer \in ConsumerState
    BY ConstantsAssumption DEF IdleConsumer, ConsumerState, NoMessage, Message, JobId
  <2>2. ConsumerHolds(j) => ConsumerHolds(j)'
    BY <1>15, <2>1, HoldersStay DEF Ack, Unapplied
  <2>3. QED
    BY <1>3, <1>4, <1>15, <2>2 DEF Ack
<1>16. QED
  BY <1>5, <1>6, <1>7, <1>8, <1>9, <1>10, <1>11, <1>12, <1>13, <1>14, <1>15 DEF Consume

\* A lost delivery returns to its queue before its holder stops counting.
LEMMA EnvironmentCarries ==
  ASSUME TypeOK, OnlyQueuedJobsAreHandled, Environment, NEW j \in JobId, Carried(j)
  PROVE  Carried(j)'
<1> USE DEF TypeOK
<1>1. ASSUME NEW i \in Job, NEW start \in BOOLEAN, Create(i, start)
      PROVE  Carried(j)'
  BY <1>1 DEF Create, Carried, RequestQueued, WorkerHolds, ResultQueued, ConsumerHolds
<1>2. CASE DeleteImage
  BY <1>2 DEF DeleteImage, Carried, RequestQueued, WorkerHolds, ResultQueued, ConsumerHolds
<1>3. ASSUME NEW i \in JobId, PublishCompletion(i)
      PROVE  Carried(j)'
  <2> DEFINE n == [kind |-> "completion", job |-> i, attempt |-> 1]
  <2>1. n \in Message /\ inbox' = [inbox EXCEPT ![n] = @ + 1]
    BY <1>3, ConstantsAssumption DEF PublishCompletion, Message
  <2>2. ResultQueued(j) => ResultQueued(j)'
    BY <2>1, ResultsStay
  <2>3. QED
    BY <1>3, <2>2 DEF PublishCompletion, Carried, RequestQueued, WorkerHolds, ConsumerHolds
<1>4. ASSUME NEW d \in Dispatcher, DispatchFault(d)
      PROVE  Carried(j)'
  BY <1>4 DEF DispatchFault, Carried, RequestQueued, WorkerHolds, ResultQueued, ConsumerHolds
<1>5. ASSUME NEW w \in Worker, WorkerFault(w)
      PROVE  Carried(j)'
  <2>1. worker[w].job \in JobId
    BY DEF WorkerState
  <2>2. RequestQueued(j) => RequestQueued(j)'
    BY <1>5, <2>1 DEF WorkerFault, RequestQueued
  <2>3. WorkerHolds(j) => WorkerHolds(j)' \/ RequestQueued(j)'
    <3>1. SUFFICES ASSUME NEW v \in Worker, worker[v].job = j, worker[v].held,
                          worker[v].phase \in {"generating", "publishing"}
                   PROVE  WorkerHolds(j)' \/ RequestQueued(j)'
      BY DEF WorkerHolds
    <3>2. CASE v # w
      BY <1>5, <3>1, <3>2 DEF WorkerFault, WorkerHolds
    <3>3. CASE v = w
      BY <1>5, <2>1, <3>1, <3>3 DEF WorkerFault, RequestQueued
    <3>4. QED
      BY <3>2, <3>3
  <2>4. QED
    BY <1>5, <2>2, <2>3 DEF WorkerFault, Carried, ResultQueued, ConsumerHolds
<1>6. ASSUME NEW c \in Consumer, ConsumerFault(c)
      PROVE  Carried(j)'
  <2> DEFINE n == Redelivered(consumer[c].msg)
  <2>1. /\ n \in Message /\ n.kind = consumer[c].msg.kind /\ n.job = consumer[c].msg.job
        /\ consumer[c] \in ConsumerState
    BY NextAttemptTyped DEF ConsumerState
  <2>2. ResultQueued(j) => ResultQueued(j)'
    <3>1. CASE inbox' = [inbox EXCEPT ![n] = @ + 1]
      BY <2>1, <3>1, ResultsStay
    <3>2. CASE inbox' = inbox
      BY <3>2 DEF ResultQueued
    <3>3. QED
      BY <1>6, <3>1, <3>2 DEF ConsumerFault
  <2>3. ConsumerHolds(j) => ConsumerHolds(j)' \/ ResultQueued(j)'
    <3>1. SUFFICES ASSUME NEW g \in GenerationConsumer, consumer[g].msg.job = j,
                          consumer[g].held, consumer[g].phase \in Unapplied
                   PROVE  ConsumerHolds(j)' \/ ResultQueued(j)'
      BY DEF ConsumerHolds
    <3>2. CASE g # c
      <4>1. consumer'[g] = consumer[g]
        BY <1>6, <3>2 DEF ConsumerFault, Consumer
      <4>2. QED
        BY <3>1, <4>1 DEF ConsumerHolds
    <3>3. CASE g = c
      <4>1. consumer[c].msg.kind \in ResultKind
        BY <3>1, <3>3 DEF OnlyQueuedJobsAreHandled, Unapplied
      <4>2. inbox' = [inbox EXCEPT ![n] = @ + 1]
        BY <1>6, <3>1, <3>3 DEF ConsumerFault
      <4>3. QED
        BY <2>1, <3>1, <3>3, <4>1, <4>2, ResultsStay
    <3>4. QED
      BY <3>2, <3>3
  <2>4. QED
    BY <1>6, <2>2, <2>3 DEF ConsumerFault, Carried, RequestQueued, WorkerHolds
<1>7. QED
  BY <1>1, <1>2, <1>3, <1>4, <1>5, <1>6 DEF Environment

\* The heart of NoLostJob: once a request of a job is on its way, the job is ended
\* or carried for ever after.
LEMMA StaysEndedOrCarried ==
  ASSUME TypeOK, OutcomeConsistent, OnlyQueuedJobsAreHandled, [Next]_vars,
         NEW j \in JobId, EndedOrCarried(j)
  PROVE  EndedOrCarried(j)'
<1>1. CASE jobs[j].status \in Terminal
  <2>1. jobs'[j] = jobs[j]
    BY <1>1, EndedRowsStay DEF OutcomeConsistent
  <2>2. QED
    BY <1>1, <2>1 DEF EndedOrCarried
<1>2. CASE Carried(j)
  <2>1. CASE UNCHANGED vars
    BY <1>2, <2>1 DEF vars, EndedOrCarried, Carried, RequestQueued, WorkerHolds,
                      ResultQueued, ConsumerHolds
  <2>2. CASE Next
    BY <1>2, <2>2, DispatchCarries, WorkCarries, ConsumeCarries, EnvironmentCarries
    DEF Next, EndedOrCarried
  <2>3. QED
    BY <2>1, <2>2
<1>3. QED
  BY <1>1, <1>2 DEF EndedOrCarried

-----------------------------------------------------------------------------
(* Requests and results only concern jobs that were queued *)

LEMMA QueuedStays ==
  ASSUME TypeOK, OutcomeConsistent, [Next]_vars, NEW i \in JobId, WasQueued(i)
  PROVE  WasQueued(i)'
<1> USE DEF WasQueued, TypeOK, Terminal
<1>1. ASSUME NEW j \in Job, NEW start \in BOOLEAN, Create(j, start)
      PROVE  WasQueued(i)'
  BY <1>1 DEF Create, JobRow, Job, JobId
<1>2. ASSUME NEW j \in JobId, FailRow(j)
      PROVE  WasQueued(i)'
  BY <1>2 DEF FailRow, JobRow
<1>3. ASSUME NEW j \in JobId, CompleteRow(j)
      PROVE  WasQueued(i)'
  BY <1>3 DEF CompleteRow, JobRow
<1>4. ASSUME NEW j \in JobId, ClearRow(j)
      PROVE  WasQueued(i)'
  BY <1>4 DEF ClearRow, JobRow
<1>5. QED
  BY <1>1, <1>2, <1>3, <1>4, RowSteps

LEMMA EndedStays ==
  ASSUME TypeOK, OutcomeConsistent, [Next]_vars, NEW i \in JobId, jobs[i].status \in Terminal
  PROVE  jobs'[i].status \in Terminal
BY EndedRowsStay DEF OutcomeConsistent

LEMMA DispatchHandles ==
  ASSUME TypeOK, OnlyQueuedJobsAreHandled, NEW d \in Dispatcher, Dispatch(d),
         \A i \in JobId : WasQueued(i) => WasQueued(i)'
  PROVE  OnlyQueuedJobsAreHandled'
<1> USE DEF OnlyQueuedJobsAreHandled
<1>1. UNCHANGED <<inbox, worker, consumer>>
  BY DEF Dispatch, SelectJob, PrepareInput, FailDispatch, PublishRequest, ClearPending
<1>2. /\ \A m \in Message : m.job \in JobId
      /\ \A w \in Worker : worker[w].job \in JobId
      /\ \A c \in Consumer : consumer[c].msg \in Message
      /\ \A e \in Dispatcher : dispatcher[e].job \in JobId
  BY DEF TypeOK, Message, WorkerState, ConsumerState, DispatcherState
<1>3. \A j \in JobId : requests'[j] > 0 => WasQueued(j)'
  <2>1. CASE requests' = requests
    BY <2>1
  <2>2. CASE PublishRequest(d)
    BY <1>2, <2>2 DEF PublishRequest, TypeOK
  <2>3. QED
    BY <2>1, <2>2 DEF Dispatch, SelectJob, PrepareInput, FailDispatch, ClearPending
<1>4. \A e \in Dispatcher : (dispatcher[e].phase # "idle" =>
        dispatcher[e].job \in Job /\ WasQueued(dispatcher[e].job))'
  <2>1. ASSUME NEW e \in Dispatcher, e # d
        PROVE  dispatcher'[e] = dispatcher[e]
    BY <2>1 DEF TypeOK, Dispatch, SelectJob, PrepareInput, FailDispatch, PublishRequest,
                ClearPending
  <2>2. \/ dispatcher'[d].phase = "idle"
        \/ dispatcher[d].phase # "idle" /\ dispatcher'[d].job = dispatcher[d].job
        \/ \E i \in Job : dispatcher'[d].job = i /\ Pending(i)
    BY DEF TypeOK, DispatcherState, Dispatch, SelectJob, PrepareInput, FailDispatch,
           PublishRequest, ClearPending, IdleDispatcher
  <2>3. ASSUME NEW i \in Job, Pending(i)
        PROVE  WasQueued(i)'
    BY <2>3 DEF Pending, WasQueued, Job, JobId
  <2>4. (dispatcher[d].phase # "idle" =>
          dispatcher[d].job \in Job /\ WasQueued(dispatcher[d].job))'
    <3>1. ASSUME NEW i \in JobId, dispatcher'[d].job = i, WasQueued(i)'
          PROVE  WasQueued(dispatcher[d].job)'
      BY <3>1 DEF WasQueued
    <3>2. QED
      BY <1>2, <2>2, <2>3, <3>1 DEF Job, JobId
  <2>5. ASSUME NEW e \in Dispatcher, e # d
        PROVE (dispatcher[e].phase # "idle" =>
                dispatcher[e].job \in Job /\ WasQueued(dispatcher[e].job))'
    <3>1. WasQueued(dispatcher[e].job) => WasQueued(dispatcher[e].job)'
      BY <1>2, <2>1, <2>5 DEF WasQueued
    <3>2. QED
      BY <2>1, <2>5, <3>1
  <2>6. QED
    BY <2>4, <2>5
<1>5. \A w \in Worker : WasQueued(worker[w].job) => WasQueued(worker[w].job)'
  BY <1>1, <1>2 DEF WasQueued
<1>6. \A c \in Consumer : WasQueued(consumer[c].msg.job) => WasQueued(consumer[c].msg.job)'
  BY <1>1, <1>2 DEF WasQueued
<1>7. QED
  BY <1>1, <1>2, <1>3, <1>4, <1>5, <1>6 DEF Consumer

LEMMA WorkHandles ==
  ASSUME TypeOK, OnlyQueuedJobsAreHandled, NEW w \in Worker, Work(w)
  PROVE  OnlyQueuedJobsAreHandled'
<1> USE DEF OnlyQueuedJobsAreHandled
<1>1. UNCHANGED <<jobs, dispatcher, consumer>>
  BY DEF Work, TakeRequest, Generate, PublishResult, AckRequest
<1>2. /\ worker[w] \in WorkerState /\ worker[w].job \in JobId
      /\ requests \in [JobId -> Nat] /\ inbox \in [Message -> Nat]
  BY DEF TypeOK, WorkerState
<1>3. \A j \in JobId : WasQueued(j)' = WasQueued(j)
  BY <1>1 DEF WasQueued
<1>4. \A j \in JobId : requests'[j] > 0 => WasQueued(j)'
  <2>1. \A j \in JobId : requests'[j] > 0 => requests[j] > 0
    BY <1>2 DEF Work, TakeRequest, Generate, PublishResult, AckRequest
  <2>2. QED
    BY <1>3, <2>1
<1>5. \A m \in Message : m.kind \in ResultKind /\ inbox'[m] > 0 => WasQueued(m.job)'
  <2>1. CASE UNCHANGED inbox
    BY <1>3, <2>1 DEF Message
  <2>2. CASE PublishResult(w)
    <3>1. /\ worker[w].phase # "idle"
          /\ Result(w) \in Message /\ Result(w).job = worker[w].job
      BY <1>2, <2>2, ConstantsAssumption
      DEF PublishResult, Result, Message, WorkerState, ResultKind
    <3>2. \A m \in Message : m # Result(w) => inbox'[m] = inbox[m]
      BY <1>2, <2>2, <3>1 DEF PublishResult
    <3>3. WasQueued(Result(w).job)
      BY <3>1 DEF WasQueued
    <3>4. QED
      BY <1>3, <3>1, <3>2, <3>3 DEF Message
  <2>3. QED
    BY <2>1, <2>2 DEF Work, TakeRequest, Generate, AckRequest
<1>6. \A v \in Worker : (worker[v].phase # "idle" => WasQueued(worker[v].job))'
  <2>1. ASSUME NEW v \in Worker, v # w
        PROVE  worker'[v] = worker[v]
    BY <2>1 DEF TypeOK, Work, TakeRequest, Generate, PublishResult, AckRequest
  <2>2. \/ worker'[w].phase = "idle"
        \/ worker[w].phase # "idle" /\ worker'[w].job = worker[w].job
        \/ \E j \in JobId : requests[j] > 0 /\ worker'[w].job = j
    BY <1>2 DEF TypeOK, WorkerState, Work, TakeRequest, Generate, PublishResult, AckRequest,
                IdleWorker
  <2>3. (worker[w].phase # "idle" => WasQueued(worker[w].job))'
    BY <1>1, <2>2 DEF WasQueued
  <2>4. ASSUME NEW v \in Worker, v # w
        PROVE  (worker[v].phase # "idle" => WasQueued(worker[v].job))'
    BY <1>1, <2>1, <2>4 DEF WasQueued
  <2>5. QED
    BY <2>3, <2>4
<1>7. \A d \in Dispatcher : (dispatcher[d].phase # "idle" =>
        dispatcher[d].job \in Job /\ WasQueued(dispatcher[d].job))'
  BY <1>1 DEF WasQueued
<1>8. \A c \in GenerationConsumer : (consumer[c].phase # "idle" =>
        consumer[c].msg.kind \in ResultKind /\ WasQueued(consumer[c].msg.job))'
  BY <1>1 DEF WasQueued
<1>9. QED
  BY <1>1, <1>4, <1>5, <1>6, <1>7, <1>8

LEMMA ConsumeHandles ==
  ASSUME TypeOK, OnlyQueuedJobsAreHandled, NEW c \in Consumer, Consume(c),
         \A i \in JobId : WasQueued(i) => WasQueued(i)'
  PROVE  OnlyQueuedJobsAreHandled'
<1> USE DEF OnlyQueuedJobsAreHandled
<1>1. UNCHANGED <<requests, dispatcher, worker>>
  BY DEF Consume, Receive, Validated, ReadJob, FailJob, ResolveResult, Import, RefuseImport,
         FailAttempt, OnRejection, ForwardRejected, ForwardRetry, Ack
<1>2. /\ consumer[c] \in ConsumerState /\ consumer[c].msg \in Message
      /\ consumer \in [Consumer -> ConsumerState] /\ inbox \in [Message -> Nat]
      /\ \A m \in Message : m.job \in JobId
      /\ \A w \in Worker : worker[w].job \in JobId
      /\ \A d \in Dispatcher : dispatcher[d].job \in JobId
      /\ \A g \in Consumer : consumer[g].msg \in Message
  BY DEF TypeOK, ConsumerState, Message, WorkerState, DispatcherState
<1>3. \A m \in Message : m.kind \in ResultKind /\ inbox'[m] > 0 => WasQueued(m.job)'
  <2>1. CASE ForwardRetry(c)
    <3> DEFINE n == NextAttempt(consumer[c].msg)
    <3>1. /\ n \in Message /\ n.kind = consumer[c].msg.kind /\ n.job = consumer[c].msg.job
      BY <1>2, NextAttemptTyped
    <3>2. inbox' = [inbox EXCEPT ![n] = @ + 1] /\ consumer[c].phase # "idle"
      BY <2>1 DEF ForwardRetry
    <3> HIDE DEF n
    <3>3. \A m \in Message : m # n => inbox'[m] = inbox[m]
      BY <1>2, <3>1, <3>2
    <3>4. n.kind \in ResultKind => WasQueued(n.job)
      <4>1. consumer[c].msg.kind \in ResultKind => c \in GenerationConsumer
        BY DEF Consumer, ResultKind
      <4>2. n.kind \in ResultKind => WasQueued(consumer[c].msg.job)
        BY <3>1, <3>2, <4>1
      <4>3. QED
        BY <3>1, <4>2 DEF WasQueued
    <3>5. QED
      BY <1>2, <3>1, <3>3, <3>4
  <2>2. CASE ~ForwardRetry(c)
    <3>1. \A m \in Message : inbox'[m] > 0 => inbox[m] > 0
      BY <1>2, <2>2 DEF Consume, Receive, Validated, ReadJob, FailJob, ResolveResult, Import,
                        RefuseImport, FailAttempt, OnRejection, ForwardRejected, Ack
    <3>2. QED
      BY <1>2, <3>1
  <2>3. QED
    BY <2>1, <2>2
<1>4. ASSUME NEW g \in Consumer, g # c
      PROVE  consumer'[g] = consumer[g]
  BY <1>2, <1>4 DEF Consume, Receive, Validated, ReadJob, FailJob, ResolveResult, Import, RefuseImport,
                    FailAttempt, OnRejection, ForwardRejected, ForwardRetry, Ack
<1>5. \/ consumer'[c] = IdleConsumer
      \/ consumer[c].phase # "idle" /\ consumer'[c].msg = consumer[c].msg
      \/ \E m \in Message : m.kind \in Reads(c) /\ inbox[m] > 0 /\ consumer'[c].msg = m
  BY <1>2 DEF Consume, Receive, Validated, ReadJob, FailJob, ResolveResult, Import, RefuseImport,
              FailAttempt, OnRejection, ForwardRejected, ForwardRetry, Ack, ConsumerState
<1>6. \A g \in GenerationConsumer : (consumer[g].phase # "idle" =>
        consumer[g].msg.kind \in ResultKind /\ WasQueued(consumer[g].msg.job))'
  <2>1. ASSUME NEW m \in Message, WasQueued(m.job), NEW g \in Consumer, consumer'[g].msg = m
        PROVE  WasQueued(consumer[g].msg.job)'
    <3>1. WasQueued(m.job)'
      BY <1>2, <2>1
    <3>2. QED
      BY <2>1, <3>1 DEF WasQueued
  <2>2. ASSUME c \in GenerationConsumer, consumer'[c].phase # "idle"
        PROVE  /\ consumer'[c].msg.kind \in ResultKind
               /\ \E m \in Message : WasQueued(m.job) /\ consumer'[c].msg = m
    BY <1>2, <1>5, <2>2 DEF IdleConsumer, Reads
  <2>3. ASSUME NEW g \in GenerationConsumer, g # c, consumer'[g].phase # "idle"
        PROVE  /\ consumer'[g].msg.kind \in ResultKind
               /\ \E m \in Message : WasQueued(m.job) /\ consumer'[g].msg = m
    BY <1>2, <1>4, <2>3 DEF Consumer
  <2>4. QED
    BY <2>1, <2>2, <2>3 DEF Consumer
<1>7. \A g \in CompletionConsumer : consumer'[g].msg.kind = "completion"
  <2>1. c \in CompletionConsumer => consumer'[c].msg.kind = "completion"
    BY <1>5, ConstantsAssumption DEF IdleConsumer, NoMessage, Reads
  <2>2. QED
    BY <1>4, <2>1 DEF Consumer
<1>8. /\ \A d \in Dispatcher : (dispatcher[d].phase # "idle" =>
            dispatcher[d].job \in Job /\ WasQueued(dispatcher[d].job))'
      /\ \A w \in Worker : (worker[w].phase # "idle" => WasQueued(worker[w].job))'
  <2>1. ASSUME NEW i \in JobId, WasQueued(i), NEW w \in Worker, worker[w].job = i
        PROVE  WasQueued(worker[w].job)'
    BY <1>1, <2>1 DEF WasQueued
  <2>2. ASSUME NEW i \in JobId, WasQueued(i), NEW d \in Dispatcher, dispatcher[d].job = i
        PROVE  WasQueued(dispatcher[d].job)'
    BY <1>1, <2>2 DEF WasQueued
  <2>3. QED
    BY <1>1, <1>2, <2>1, <2>2
<1>9. \A j \in JobId : (requests[j] > 0 => WasQueued(j))'
  BY <1>1
<1>10. QED
  BY <1>3, <1>6, <1>7, <1>8, <1>9

LEMMA EnvironmentHandles ==
  ASSUME TypeOK, OnlyQueuedJobsAreHandled, Environment,
         \A i \in JobId : WasQueued(i) => WasQueued(i)'
  PROVE  OnlyQueuedJobsAreHandled'
<1> USE DEF OnlyQueuedJobsAreHandled
<1>1. /\ \A m \in Message : m.job \in JobId
      /\ \A c \in Consumer : consumer[c].msg \in Message
      /\ \A w \in Worker : worker[w].job \in JobId
      /\ \A d \in Dispatcher : dispatcher[d].job \in JobId
      /\ worker \in [Worker -> WorkerState] /\ consumer \in [Consumer -> ConsumerState]
      /\ requests \in [JobId -> Nat] /\ inbox \in [Message -> Nat]
  BY DEF TypeOK, Message, ConsumerState, WorkerState, DispatcherState
<1>2. \A j \in JobId : (requests[j] > 0 => WasQueued(j))'
  <2>1. ASSUME NEW w \in Worker, WorkerFault(w), NEW j \in JobId, requests'[j] > 0
        PROVE  WasQueued(j)
    <3>1. \/ requests[j] > 0
          \/ worker[w].job = j /\ worker[w].phase # "idle"
      BY <1>1, <2>1 DEF WorkerFault
    <3>2. QED
      BY <3>1 DEF WasQueued
  <2>2. (\E w \in Worker : WorkerFault(w)) \/ requests' = requests
    BY DEF Environment, Create, DeleteImage, PublishCompletion, DispatchFault, ConsumerFault
  <2>3. QED
    BY <2>1, <2>2
<1>3. \A m \in Message : (m.kind \in ResultKind /\ inbox[m] > 0 => WasQueued(m.job))'
  <2>1. ASSUME NEW c \in Consumer, ConsumerFault(c),
               NEW m \in Message, m.kind \in ResultKind, inbox'[m] > 0
        PROVE  WasQueued(m.job)
    <3> DEFINE n == Redelivered(consumer[c].msg)
    <3>1. /\ n \in Message /\ n.kind = consumer[c].msg.kind /\ n.job = consumer[c].msg.job
      BY <1>1, NextAttemptTyped
    <3>2. inbox' = [inbox EXCEPT ![n] = @ + 1] \/ inbox' = inbox
      BY <2>1 DEF ConsumerFault
    <3> HIDE DEF n
    <3>3. inbox[m] > 0 \/ m = n
      BY <1>1, <2>1, <3>1, <3>2
    <3>4. CASE m = n
      <4>1. c \in GenerationConsumer /\ consumer[c].phase # "idle"
        BY <2>1, <3>1, <3>4 DEF Consumer, ResultKind, ConsumerFault
      <4>2. QED
        BY <3>1, <3>4, <4>1 DEF WasQueued
    <3>5. QED
      BY <2>1, <3>3, <3>4
  <2>2. ASSUME NEW i \in JobId, PublishCompletion(i),
               NEW m \in Message, m.kind \in ResultKind, inbox'[m] > 0
        PROVE  WasQueued(m.job)
    <3>1. m # [kind |-> "completion", job |-> i, attempt |-> 1]
      BY <2>2 DEF ResultKind
    <3>2. inbox'[m] = inbox[m]
      BY <1>1, <2>2, <3>1 DEF PublishCompletion
    <3>3. QED
      BY <2>2, <3>2
  <2>3. \/ \E c \in Consumer : ConsumerFault(c)
        \/ \E i \in JobId : PublishCompletion(i)
        \/ inbox' = inbox
    BY DEF Environment, Create, DeleteImage, DispatchFault, WorkerFault
  <2>4. QED
    BY <1>1, <2>1, <2>2, <2>3
<1>4. \A d \in Dispatcher : (dispatcher[d].phase # "idle" =>
        dispatcher[d].job \in Job /\ WasQueued(dispatcher[d].job))'
  <2>1. ASSUME NEW d \in Dispatcher
        PROVE  dispatcher'[d] = IdleDispatcher \/ dispatcher'[d] = dispatcher[d]
    BY DEF TypeOK, Environment, Create, DeleteImage, PublishCompletion, DispatchFault,
           WorkerFault, ConsumerFault
  <2>2. ASSUME NEW i \in JobId, WasQueued(i)', NEW d \in Dispatcher, dispatcher'[d].job = i
        PROVE  WasQueued(dispatcher[d].job)'
    BY <2>2 DEF WasQueued
  <2>3. QED
    BY <1>1, <2>1, <2>2 DEF IdleDispatcher
<1>5. \A w \in Worker : (worker[w].phase # "idle" => WasQueued(worker[w].job))'
  <2>1. ASSUME NEW w \in Worker
        PROVE  \/ worker'[w] = IdleWorker
               \/ worker'[w].job = worker[w].job /\ worker'[w].phase = worker[w].phase
    <3>1. ASSUME NEW v \in Worker, WorkerFault(v)
          PROVE  \/ worker' = [worker EXCEPT ![v] = IdleWorker]
                 \/ worker' = [worker EXCEPT ![v].held = FALSE]
      BY <3>1 DEF WorkerFault
    <3>2. ASSUME NEW v \in Worker, worker' = [worker EXCEPT ![v] = IdleWorker]
          PROVE  worker'[w] = IdleWorker \/ worker'[w] = worker[w]
      BY <1>1, <3>2
    <3>3. ASSUME NEW v \in Worker, worker' = [worker EXCEPT ![v].held = FALSE]
          PROVE  worker'[w].job = worker[w].job /\ worker'[w].phase = worker[w].phase
      BY <1>1, <3>3 DEF WorkerState
    <3>4. worker' = worker \/ \E v \in Worker : WorkerFault(v)
      BY DEF Environment, Create, DeleteImage, PublishCompletion, DispatchFault,
             ConsumerFault
    <3>5. QED
      BY <3>1, <3>2, <3>3, <3>4
  <2>2. ASSUME NEW i \in JobId, WasQueued(i)', NEW w \in Worker, worker'[w].job = i
        PROVE  WasQueued(worker[w].job)'
    BY <2>2 DEF WasQueued
  <2>3. QED
    BY <1>1, <2>1, <2>2 DEF IdleWorker
<1>6. ASSUME NEW c \in Consumer
      PROVE  \/ consumer'[c] = IdleConsumer
             \/ consumer'[c].msg = consumer[c].msg /\ consumer'[c].phase = consumer[c].phase
  <2>1. ASSUME NEW g \in Consumer, ConsumerFault(g)
        PROVE  \/ consumer' = [consumer EXCEPT ![g] = IdleConsumer]
               \/ consumer' = [consumer EXCEPT ![g].held = FALSE]
    BY <2>1 DEF ConsumerFault
  <2>2. ASSUME NEW g \in Consumer, consumer' = [consumer EXCEPT ![g] = IdleConsumer]
        PROVE  consumer'[c] = IdleConsumer \/ consumer'[c] = consumer[c]
    BY <1>1, <2>2
  <2>3. ASSUME NEW g \in Consumer, consumer' = [consumer EXCEPT ![g].held = FALSE]
        PROVE  consumer'[c].msg = consumer[c].msg /\ consumer'[c].phase = consumer[c].phase
    BY <1>1, <2>3 DEF ConsumerState
  <2>4. consumer' = consumer \/ \E g \in Consumer : ConsumerFault(g)
    BY DEF Environment, Create, DeleteImage, PublishCompletion, DispatchFault, WorkerFault
  <2>5. QED
    BY <2>1, <2>2, <2>3, <2>4
<1>7. \A c \in GenerationConsumer : (consumer[c].phase # "idle" =>
        consumer[c].msg.kind \in ResultKind /\ WasQueued(consumer[c].msg.job))'
  <2>1. ASSUME NEW m \in Message, WasQueued(m.job)', NEW c \in Consumer, consumer'[c].msg = m
        PROVE  WasQueued(consumer[c].msg.job)'
    BY <2>1 DEF WasQueued
  <2>2. QED
    BY <1>1, <1>6, <2>1 DEF IdleConsumer, Consumer
<1>8. \A c \in CompletionConsumer : consumer'[c].msg.kind = "completion"
  BY <1>6 DEF IdleConsumer, NoMessage, Consumer
<1>9. QED
  BY <1>2, <1>3, <1>4, <1>5, <1>7, <1>8

LEMMA HandledInductive ==
  ASSUME TypeOK, OutcomeConsistent, OnlyQueuedJobsAreHandled, [Next]_vars
  PROVE  OnlyQueuedJobsAreHandled'
<1>1. \A i \in JobId : WasQueued(i) => WasQueued(i)'
  BY QueuedStays
<1>2. CASE UNCHANGED vars
  BY <1>2 DEF vars, OnlyQueuedJobsAreHandled, WasQueued
<1>3. CASE Next
  BY <1>1, <1>3, DispatchHandles, WorkHandles, ConsumeHandles, EnvironmentHandles DEF Next
<1>4. QED
  BY <1>2, <1>3

-----------------------------------------------------------------------------
(* Rejection, clearing and the pipeline's invariant *)

\* A consumer enters the phase "forwarding" by OnRejection only.
LEMMA ForwardingSteps ==
  ASSUME TypeOK, [Next]_vars, NEW g \in GenerationConsumer, consumer'[g].phase = "forwarding"
  PROVE  \/ consumer[g].phase = "forwarding" /\ consumer'[g].msg = consumer[g].msg
         \/ OnRejection(g) /\ consumer'[g].msg = consumer[g].msg
<1>1. /\ g \in Consumer /\ consumer \in [Consumer -> ConsumerState]
      /\ \A c \in Consumer : consumer[c] \in ConsumerState
  BY DEF TypeOK, Consumer
<1>2. CASE UNCHANGED consumer
  BY <1>2
<1>3. ASSUME NEW c \in Consumer, Consume(c), c # g
      PROVE  consumer'[g] = consumer[g]
  BY <1>1, <1>3 DEF Consume, Receive, Validated, ReadJob, FailJob, ResolveResult, Import, RefuseImport,
                    FailAttempt, OnRejection, ForwardRejected, ForwardRetry, Ack
<1>4. ASSUME Consume(g)
      PROVE  OnRejection(g) /\ consumer'[g].msg = consumer[g].msg
  <2>1. CASE OnRejection(g)
    BY <1>1, <2>1 DEF OnRejection, ConsumerState
  <2>2. CASE ReadJob(g)
    <3>1. Route(g) # "forwarding"
      BY DEF Route
    <3>2. consumer'[g].phase = Route(g)
      BY <1>1, <2>2 DEF ReadJob, ConsumerState
    <3>3. QED
      BY <3>1, <3>2
  <2>3. CASE Receive(g)
    BY <1>1, <2>3 DEF Receive, Validated, Reads, ResultKind, ConsumerState
  <2>4. CASE ~OnRejection(g) /\ ~ReadJob(g) /\ ~Receive(g)
    BY <1>1, <1>4, <2>4
    DEF Consume, FailJob, ResolveResult, Import, RefuseImport, FailAttempt,
        ForwardRejected, ForwardRetry, Ack, ConsumerState, IdleConsumer
  <2>5. QED
    BY <2>1, <2>2, <2>3, <2>4
<1>5. ASSUME NEW c \in Consumer, ConsumerFault(c)
      PROVE  consumer[g].phase = "forwarding" /\ consumer'[g].msg = consumer[g].msg
  <2>1. CASE consumer' = [consumer EXCEPT ![c] = IdleConsumer]
    BY <1>1, <2>1 DEF IdleConsumer
  <2>2. CASE consumer' = [consumer EXCEPT ![c].held = FALSE]
    BY <1>1, <2>2 DEF ConsumerState
  <2>3. QED
    BY <1>5, <2>1, <2>2 DEF ConsumerFault
<1>6. \/ UNCHANGED consumer
      \/ \E c \in Consumer : Consume(c) \/ ConsumerFault(c)
  BY DEF vars, Next, Dispatch, SelectJob, PrepareInput, FailDispatch, PublishRequest,
         ClearPending, Work, TakeRequest, Generate, PublishResult, AckRequest, Environment,
         Create, DeleteImage, PublishCompletion, DispatchFault, WorkerFault
<1>7. QED
  BY <1>2, <1>3, <1>4, <1>5, <1>6

LEMMA RejectionInductive ==
  ASSUME TypeOK, OutcomeConsistent, OnlyQueuedJobsAreHandled, RejectionFailsFirst, [Next]_vars
  PROVE  RejectionFailsFirst'
<1> SUFFICES ASSUME NEW g \in GenerationConsumer, consumer'[g].phase = "forwarding"
             PROVE  jobs'[consumer'[g].msg.job].status \in Terminal
  BY DEF RejectionFailsFirst
<1> DEFINE j == consumer[g].msg.job
<1>1. j \in JobId
  BY DEF TypeOK, Consumer, ConsumerState, Message
<1>2. CASE consumer[g].phase = "forwarding" /\ consumer'[g].msg = consumer[g].msg
  BY <1>1, <1>2, EndedStays DEF RejectionFailsFirst
<1>3. CASE OnRejection(g) /\ consumer'[g].msg = consumer[g].msg
  <2>1. WasQueued(j) /\ FailRow(j)
    BY <1>3 DEF OnRejection, OnlyQueuedJobsAreHandled
  <2>2. QED
    BY <1>1, <1>3, <2>1, FailEnds
<1>4. QED
  BY <1>2, <1>3, ForwardingSteps

LEMMA FailedQueueSteps ==
  ASSUME [Next]_vars
  PROVE  UNCHANGED failedQueue \/ \E c \in Consumer : ForwardRejected(c)
BY DEF vars, Next, Dispatch, SelectJob, PrepareInput, FailDispatch, PublishRequest,
       ClearPending, Work, TakeRequest, Generate, PublishResult, AckRequest, Environment,
       Create, DeleteImage, PublishCompletion, DispatchFault, WorkerFault, ConsumerFault,
       Consume, Receive, Validated, ReadJob, FailJob, ResolveResult, Import, RefuseImport, FailAttempt,
       OnRejection, ForwardRetry, Ack

LEMMA RejectedInductive ==
  ASSUME TypeOK, OutcomeConsistent, OnlyQueuedJobsAreHandled, RejectionFailsFirst,
         RejectedResultsAreTerminal, [Next]_vars
  PROVE  RejectedResultsAreTerminal'
<1> SUFFICES ASSUME NEW m \in failedQueue', m.kind \in ResultKind
             PROVE  jobs'[m.job].status \in Terminal
  BY DEF RejectedResultsAreTerminal
<1>1. CASE m \in failedQueue
  <2>1. m.job \in JobId
    BY <1>1 DEF TypeOK, Message
  <2>2. QED
    BY <1>1, <2>1, EndedStays DEF RejectedResultsAreTerminal
<1>2. CASE m \notin failedQueue
  <2>1. PICK c \in Consumer : ForwardRejected(c)
    BY <1>2, FailedQueueSteps
  <2>2. m = consumer[c].msg /\ consumer[c].phase = "forwarding" /\ UNCHANGED jobs
    BY <1>2, <2>1 DEF ForwardRejected
  <2>3. c \in GenerationConsumer
    BY <2>2 DEF OnlyQueuedJobsAreHandled, Consumer, ResultKind
  <2>4. QED
    BY <2>2, <2>3 DEF RejectionFailsFirst
<1>3. QED
  BY <1>1, <1>2

\* A dispatcher enters the phase "clearing" by PublishRequest only.
LEMMA ClearingSteps ==
  ASSUME TypeOK, [Next]_vars, NEW d \in Dispatcher, dispatcher'[d].phase = "clearing"
  PROVE  /\ dispatcher'[d].job = dispatcher[d].job
         /\ dispatcher[d].phase = "clearing" \/ PublishRequest(d)
<1>1. \A e \in Dispatcher : dispatcher[e] \in DispatcherState
  BY DEF TypeOK
<1>2. ASSUME NEW e \in Dispatcher, Dispatch(e), e # d
      PROVE  dispatcher'[d] = dispatcher[d]
  BY <1>2 DEF TypeOK, Dispatch, SelectJob, PrepareInput, FailDispatch, PublishRequest,
              ClearPending
<1>3. ASSUME Dispatch(d)
      PROVE  PublishRequest(d) /\ dispatcher'[d].job = dispatcher[d].job
  BY <1>1, <1>3 DEF TypeOK, DispatcherState, Dispatch, SelectJob, PrepareInput, FailDispatch,
                    PublishRequest, ClearPending, IdleDispatcher
<1>4. ASSUME NEW e \in Dispatcher, DispatchFault(e)
      PROVE  dispatcher'[d] = dispatcher[d]
  BY <1>4 DEF TypeOK, DispatchFault, IdleDispatcher
<1>5. UNCHANGED dispatcher \/ \E e \in Dispatcher : Dispatch(e) \/ DispatchFault(e)
  BY DEF vars, Next, Work, TakeRequest, Generate, PublishResult, AckRequest, Environment,
         Create, DeleteImage, PublishCompletion, WorkerFault, ConsumerFault,
         Consume, Receive, Validated, ReadJob, FailJob, ResolveResult, Import, RefuseImport, FailAttempt,
         OnRejection, ForwardRejected, ForwardRetry, Ack
<1>6. QED
  BY <1>2, <1>3, <1>4, <1>5

LEMMA ClearingInductive ==
  ASSUME TypeOK, OutcomeConsistent, OnlyQueuedJobsAreHandled, ClearingIsSafe, [Next]_vars
  PROVE  ClearingIsSafe'
<1> SUFFICES ASSUME NEW d \in Dispatcher, dispatcher'[d].phase = "clearing"
             PROVE  EndedOrCarried(dispatcher[d].job)'
  BY DEF ClearingIsSafe
<1>1. PICK j \in JobId : dispatcher[d].job = j
  BY DEF TypeOK, DispatcherState
<1>2. /\ dispatcher'[d].job = j
      /\ dispatcher[d].phase = "clearing" \/ PublishRequest(d)
  BY <1>1, ClearingSteps
<1>3. EndedOrCarried(j)'
  <2>1. CASE dispatcher[d].phase = "clearing"
    <3>1. EndedOrCarried(j)
      BY <1>1, <2>1 DEF ClearingIsSafe
    <3>2. QED
      BY <3>1, StaysEndedOrCarried
  <2>2. CASE PublishRequest(d)
    <3>1. requests'[j] > 0
      BY <1>1, <2>2 DEF PublishRequest, TypeOK
    <3>2. QED
      BY <3>1 DEF EndedOrCarried, Carried, RequestQueued
  <2>3. QED
    BY <1>2, <2>1, <2>2
<1>4. QED
  BY <1>2, <1>3 DEF EndedOrCarried, Carried, RequestQueued, WorkerHolds, ResultQueued,
                    ConsumerHolds

\* A job that stays queued loses its pending flag to a clearing dispatcher only.
LEMMA PendingSteps ==
  ASSUME TypeOK, [Next]_vars, NEW j \in JobId,
         jobs[j].pending, jobs'[j].status = "queued", ~jobs'[j].pending
  PROVE  \E d \in Dispatcher : dispatcher[d].phase = "clearing" /\ dispatcher[d].job = j
<1> USE DEF TypeOK, JobRow
<1>1. ASSUME NEW i \in JobId, FailRow(i)
      PROVE  FALSE
  BY <1>1 DEF FailRow
<1>2. ASSUME NEW i \in JobId, CompleteRow(i)
      PROVE  FALSE
  BY <1>2 DEF CompleteRow
<1>3. jobs' # jobs
  OBVIOUS
<1>4. ASSUME NEW d \in Dispatcher, Dispatch(d)
      PROVE  dispatcher[d].phase = "clearing" /\ dispatcher[d].job = j
  <2>1. dispatcher[d].job \in JobId
    BY DEF DispatcherState
  <2>2. CASE ClearPending(d)
    BY <2>1, <2>2 DEF ClearPending
  <2>3. CASE FailDispatch(d)
    BY <1>1, <2>1, <2>3 DEF FailDispatch
  <2>4. QED
    BY <1>3, <1>4, <2>2, <2>3 DEF Dispatch, SelectJob, PrepareInput, PublishRequest
<1>5. ASSUME NEW w \in Worker, Work(w)
      PROVE  FALSE
  BY <1>3, <1>5 DEF Work, TakeRequest, Generate, PublishResult, AckRequest
<1>6. ASSUME NEW c \in Consumer, Consume(c)
      PROVE  FALSE
  <2>1. consumer[c].msg.job \in JobId
    BY DEF ConsumerState, Message
  <2>2. QED
    BY <1>1, <1>2, <1>3, <1>6, <2>1
    DEF Consume, Receive, Validated, ReadJob, FailJob, ResolveResult, Import, RefuseImport,
        FailAttempt, OnRejection, ForwardRejected, ForwardRetry, Ack
<1>7. CASE Environment
  <2>1. ASSUME NEW i \in Job, NEW start \in BOOLEAN, Create(i, start)
        PROVE  FALSE
    <3>1. i = j => start
      BY <2>1 DEF Create, Job, JobId
    <3>2. QED
      BY <2>1, <3>1 DEF Create, Job, JobId
  <2>2. QED
    BY <1>3, <1>7, <2>1 DEF Environment, DeleteImage, PublishCompletion, DispatchFault,
                            WorkerFault, ConsumerFault
<1>8. QED
  BY <1>3, <1>4, <1>5, <1>6, <1>7 DEF Next, vars

LEMMA NoLostInductive ==
  ASSUME TypeOK, PipelineInvariant, [Next]_vars
  PROVE  NoLostJob'
<1> SUFFICES ASSUME NEW j \in Job, jobs'[j].status = "queued"
             PROVE  jobs'[j].pending \/ Carried(j)'
  BY DEF NoLostJob
<1> USE DEF PipelineInvariant
<1>1. j \in JobId /\ jobs'[j].status \notin Terminal
  BY DEF Job, JobId, Terminal
<1>2. CASE EndedOrCarried(j)
  BY <1>1, <1>2, StaysEndedOrCarried DEF EndedOrCarried
<1>3. CASE ~EndedOrCarried(j) /\ jobs[j].status = "queued"
  <2>1. jobs[j].pending
    BY <1>3 DEF NoLostJob, EndedOrCarried
  <2>2. ~\E d \in Dispatcher : dispatcher[d].phase = "clearing" /\ dispatcher[d].job = j
    BY <1>3 DEF ClearingIsSafe
  <2>3. QED
    BY <1>1, <2>1, <2>2, PendingSteps
<1>4. CASE ~EndedOrCarried(j) /\ jobs[j].status # "queued"
  <2> USE DEF TypeOK, JobRow
  <2>1. ASSUME NEW i \in JobId, FailRow(i)
        PROVE  FALSE
    BY <1>1, <1>4, <2>1 DEF FailRow
  <2>2. ASSUME NEW i \in JobId, CompleteRow(i)
        PROVE  FALSE
    BY <1>1, <1>4, <2>2 DEF CompleteRow
  <2>3. ASSUME NEW i \in JobId, ClearRow(i)
        PROVE  FALSE
    BY <1>1, <1>4, <2>3 DEF ClearRow
  <2>4. PICK i \in Job, start \in BOOLEAN : Create(i, start)
    BY <1>4, <2>1, <2>2, <2>3, RowSteps
  <2>5. i = j /\ start
    BY <1>1, <1>4, <2>4 DEF Create, Job, JobId
  <2>6. QED
    BY <1>1, <2>4, <2>5 DEF Create
<1>5. QED
  BY <1>2, <1>3, <1>4

LEMMA KnownStays ==
  ASSUME TypeOK, [Next]_vars, NEW i \in JobId, jobs[i].status # "absent"
  PROVE  jobs'[i].status # "absent"
<1> USE DEF TypeOK, JobRow
<1>1. ASSUME NEW j \in Job, NEW start \in BOOLEAN, Create(j, start)
      PROVE  jobs'[i].status # "absent"
  BY <1>1 DEF Create, Job, JobId
<1>2. ASSUME NEW j \in JobId, FailRow(j)
      PROVE  jobs'[i].status # "absent"
  BY <1>2 DEF FailRow
<1>3. ASSUME NEW j \in JobId, CompleteRow(j)
      PROVE  jobs'[i].status # "absent"
  BY <1>3 DEF CompleteRow
<1>4. ASSUME NEW j \in JobId, ClearRow(j)
      PROVE  jobs'[i].status # "absent"
  BY <1>4 DEF ClearRow
<1>5. QED
  BY <1>1, <1>2, <1>3, <1>4, RowSteps

\* A consumer comes to resolve or import by reading the row of its job.
LEMMA ResolvingSteps ==
  ASSUME TypeOK, [Next]_vars, NEW g \in Consumer,
         consumer'[g].phase \in {"resolving", "importing"}
  PROVE  /\ consumer'[g].msg = consumer[g].msg
         /\ \/ consumer[g].phase \in {"resolving", "importing"}
            \/ Route(g) \in {"resolving", "importing"}
<1>1. /\ consumer \in [Consumer -> ConsumerState]
      /\ \A c \in Consumer : consumer[c] \in ConsumerState
  BY DEF TypeOK
<1>2. CASE UNCHANGED consumer
  BY <1>2
<1>3. ASSUME NEW c \in Consumer, Consume(c), c # g
      PROVE  consumer'[g] = consumer[g]
  BY <1>1, <1>3 DEF Consume, Receive, Validated, ReadJob, FailJob, ResolveResult, Import, RefuseImport,
                    FailAttempt, OnRejection, ForwardRejected, ForwardRetry, Ack
<1>4. ASSUME Consume(g)
      PROVE  /\ consumer'[g].msg = consumer[g].msg
             /\ \/ consumer[g].phase \in {"resolving", "importing"}
                \/ Route(g) \in {"resolving", "importing"}
  <2>1. CASE ResolveResult(g)
    BY <1>1, <2>1 DEF ResolveResult, ConsumerState
  <2>2. CASE ReadJob(g)
    BY <1>1, <2>2 DEF ReadJob, ConsumerState
  <2>3. CASE ~ResolveResult(g) /\ ~ReadJob(g)
    BY <1>1, <1>4, <2>3
    DEF Consume, Receive, Validated, FailJob, OnRejection, Import, RefuseImport, FailAttempt,
        ForwardRejected, ForwardRetry, Ack, ConsumerState, IdleConsumer
  <2>4. QED
    BY <2>1, <2>2, <2>3
<1>5. ASSUME NEW c \in Consumer, ConsumerFault(c)
      PROVE  /\ consumer[g].phase \in {"resolving", "importing"}
             /\ consumer'[g].msg = consumer[g].msg
  <2>1. CASE consumer' = [consumer EXCEPT ![c] = IdleConsumer]
    BY <1>1, <2>1 DEF IdleConsumer
  <2>2. CASE consumer' = [consumer EXCEPT ![c].held = FALSE]
    BY <1>1, <2>2 DEF ConsumerState
  <2>3. QED
    BY <1>5, <2>1, <2>2 DEF ConsumerFault
<1>6. \/ UNCHANGED consumer
      \/ \E c \in Consumer : Consume(c) \/ ConsumerFault(c)
  BY DEF vars, Next, Dispatch, SelectJob, PrepareInput, FailDispatch, PublishRequest,
         ClearPending, Work, TakeRequest, Generate, PublishResult, AckRequest, Environment,
         Create, DeleteImage, PublishCompletion, DispatchFault, WorkerFault
<1>7. QED
  BY <1>2, <1>3, <1>4, <1>5, <1>6

LEMMA KnownInductive ==
  ASSUME TypeOK, KnownJobsAreResolved, [Next]_vars
  PROVE  KnownJobsAreResolved'
<1> SUFFICES ASSUME NEW g \in Consumer, consumer'[g].phase \in {"resolving", "importing"}
             PROVE  jobs'[consumer'[g].msg.job].status # "absent"
  BY DEF KnownJobsAreResolved
<1>1. consumer[g].msg.job \in JobId
  BY DEF TypeOK, ConsumerState, Message
<1>2. Route(g) \in {"resolving", "importing"} => jobs[consumer[g].msg.job].status # "absent"
  BY DEF Route
<1>3. QED
  BY <1>1, <1>2, KnownStays, ResolvingSteps DEF KnownJobsAreResolved

\* The inductive invariant of the pipeline: outcomes are consistent, only jobs that
\* were queued are handled, a result is rejected only after its job has failed, and
\* whoever gives up responsibility for a job leaves a carrier or an ended job behind.
THEOREM PipelineInvariantHolds == Spec => []PipelineInvariant
<1>1. Init => PipelineInvariant
  BY DEF Init, PipelineInvariant, KnownJobsAreResolved, OutcomeConsistent, OnlyQueuedJobsAreHandled,
         RejectionFailsFirst, RejectedResultsAreTerminal, ClearingIsSafe, NoLostJob,
         IdleDispatcher, IdleConsumer, IdleWorker, NoMessage, Terminal, Job, JobId, Consumer
<1>2. TypeOK /\ PipelineInvariant /\ [Next]_vars => PipelineInvariant'
  BY OutcomeInductive, HandledInductive, RejectionInductive, RejectedInductive,
     ClearingInductive, NoLostInductive, KnownInductive
  DEF PipelineInvariant
<1>3. QED
  BY <1>1, <1>2, TypeCorrect, PTL DEF Spec

\* No crash, redelivery, give-up or race loses a queued job: it is still to be
\* dispatched, or a request or a result for it is in a queue or in a live process.
THEOREM NoJobIsLost == Spec => []NoLostJob
<1>1. PipelineInvariant => NoLostJob
  BY DEF PipelineInvariant
<1>2. QED
  BY <1>1, PipelineInvariantHolds, PTL

\* A generation result in the failed queue belongs to a job that has ended.
THEOREM RejectedResultsHaveEnded == Spec => []RejectedResultsAreTerminal
<1>1. PipelineInvariant => RejectedResultsAreTerminal
  BY DEF PipelineInvariant
<1>2. QED
  BY <1>1, PipelineInvariantHolds, PTL

-----------------------------------------------------------------------------
(* The safety part of the refinement *)

\* A row only ends from the state the abstract specification lets it end in.
LEMMA LifecycleSteps ==
  ASSUME TypeOK, PipelineInvariant, [Next]_vars
  PROVE  [Lifecycle!Next]_(Lifecycle!jobVars)
<1> DEFINE status == [j \in Job |-> jobs[j].status]
           registered == [j \in Job |-> jobs[j].registered]
<1>0. /\ Job \subseteq JobId
      /\ jobs \in [JobId -> JobRow]
  BY DEF Job, JobId, TypeOK
<1>1. CASE status' = status /\ registered' = registered
  BY <1>1 DEF Lifecycle!jobVars
<1>2. ASSUME NEW j \in Job, NEW start \in BOOLEAN, Create(j, start)
      PROVE  Lifecycle!Create(j)
  <2>1. PICK s \in {"draft", "queued"} :
          jobs' = [jobs EXCEPT ![j].status = s, ![j].pending = start]
    BY <1>2 DEF Create
  <2>2. /\ \A i \in Job : jobs'[i].status = IF i = j THEN s ELSE jobs[i].status
        /\ \A i \in Job : jobs'[i].registered = jobs[i].registered
    BY <1>0, <2>1 DEF JobRow
  <2>3. status' = [status EXCEPT ![j] = s] /\ registered' = registered
    BY <2>2
  <2>4. status[j] = "absent"
    BY <1>2 DEF Create
  <2>5. QED
    BY <2>3, <2>4 DEF Lifecycle!Create, Lifecycle!Active
<1>3. ASSUME NEW j \in JobId, FailRow(j)
      PROVE  UNCHANGED <<status, registered>> \/ (j \in Job /\ Lifecycle!Fail(j))
  <2>1. CASE j \in Job /\ jobs[j].status = "queued"
    <3>1. /\ \A i \in Job : jobs'[i].status = IF i = j THEN "failed" ELSE jobs[i].status
          /\ \A i \in Job : jobs'[i].registered = jobs[i].registered
      BY <1>0, <1>3, <2>1 DEF FailRow, JobRow
    <3>2. status' = [status EXCEPT ![j] = "failed"] /\ registered' = registered
      BY <3>1
    <3>3. QED
      BY <2>1, <3>2 DEF Lifecycle!Fail
  <2>2. CASE j \notin Job \/ jobs[j].status # "queued"
    <3>1. \A i \in Job : jobs'[i].status = jobs[i].status
                         /\ jobs'[i].registered = jobs[i].registered
      BY <1>0, <1>3, <2>2 DEF FailRow
    <3>2. QED
      BY <2>1, <3>1
  <2>3. QED
    BY <2>1, <2>2
<1>4. ASSUME NEW j \in JobId, CompleteRow(j), jobs[j].status # "absent"
      PROVE  UNCHANGED <<status, registered>> \/ (j \in Job /\ Lifecycle!Succeed(j))
  <2>1. CASE j \in Job /\ ~jobs[j].completed
    <3>1. jobs[j].status \in {"draft", "queued"} /\ jobs[j].registered = 0
      BY <1>0, <1>4, <2>1 DEF PipelineInvariant, OutcomeConsistent, JobRow, Status, Terminal
    <3>2. /\ \A i \in Job : jobs'[i].status = IF i = j THEN "succeeded" ELSE jobs[i].status
          /\ \A i \in Job : jobs'[i].registered = IF i = j THEN 1 ELSE jobs[i].registered
      BY <1>0, <1>4, <2>1, <3>1 DEF CompleteRow, JobRow
    <3>3. /\ status' = [status EXCEPT ![j] = "succeeded"]
          /\ registered' = [registered EXCEPT ![j] = 1]
      BY <3>2
    <3>4. QED
      BY <2>1, <3>1, <3>3 DEF Lifecycle!Succeed, Lifecycle!Active
  <2>2. CASE j \notin Job \/ jobs[j].completed
    <3>1. \A i \in Job : jobs'[i].status = jobs[i].status
                         /\ jobs'[i].registered = jobs[i].registered
      BY <1>0, <1>4, <2>2 DEF CompleteRow
    <3>2. status' = status /\ registered' = registered
      BY <3>1
    <3>3. QED
      BY <3>2
  <2>3. QED
    BY <2>1, <2>2
<1>5. ASSUME NEW j \in JobId, ClearRow(j)
      PROVE  UNCHANGED <<status, registered>>
  <2>1. \A i \in Job : jobs'[i].status = jobs[i].status
                       /\ jobs'[i].registered = jobs[i].registered
    BY <1>0, <1>5 DEF ClearRow, JobRow
  <2>2. QED
    BY <2>1
<1>6. ASSUME NEW c \in Consumer, Import(c)
      PROVE  jobs[consumer[c].msg.job].status # "absent"
  BY <1>6 DEF Import, PipelineInvariant, KnownJobsAreResolved
<1>7. ASSUME NEW j \in Job, Lifecycle!Create(j) \/ Lifecycle!Succeed(j) \/ Lifecycle!Fail(j)
      PROVE  Lifecycle!Next
  BY <1>7 DEF Lifecycle!Next, Lifecycle!End
<1>8. UNCHANGED jobs => UNCHANGED <<status, registered>>
  OBVIOUS
<1> HIDE DEF status, registered
<1>9. UNCHANGED <<status, registered>> \/ Lifecycle!Next
  <2>1. CASE \E j \in JobId : FailRow(j) \/ ClearRow(j)
    BY <1>3, <1>5, <1>7, <2>1
  <2>2. CASE \E j \in JobId :
               CompleteRow(j) /\ \E c \in Consumer : Import(c) /\ consumer[c].msg.job = j
    BY <1>4, <1>6, <1>7, <2>2
  <2>3. CASE \E j \in Job, start \in BOOLEAN : Create(j, start)
    BY <1>2, <1>7, <2>3
  <2>4. QED
    BY <1>8, <2>1, <2>2, <2>3, RowSteps
<1>10. QED
  BY <1>1, <1>9

\* The pipeline implements the abstract job lifecycle, its liveness apart: whatever
\* dispatchers, workers, consumers and faults do, a client that polls a job sees it
\* created once and ended at most once, with one registration iff it succeeded.
THEOREM PipelineImplementsLifecycle == Spec => Lifecycle!SafetySpec
<1>1. Init => Lifecycle!Init
  BY DEF Init, Lifecycle!Init, Job, JobId
<1>2. TypeOK /\ PipelineInvariant /\ [Next]_vars => [Lifecycle!Next]_(Lifecycle!jobVars)
  BY LifecycleSteps
<1>3. QED
  BY <1>1, <1>2, TypeCorrect, PipelineInvariantHolds, PTL DEF Spec, Lifecycle!SafetySpec

-----------------------------------------------------------------------------
(* The queue of the cloud deployment *)

\* A consumer's state when the messages in settled are imported or copied: only a
\* consumer with a message has a renewal to stop, which it has done before it deletes
\* or delays, and it is to delete settled messages only.
Orderly(s, settled) ==
  /\ s \in SqsState
  /\ s.renewal \in {"asleep", "calling"} => s.at \in {"importing", "sending", "stopping"}
  /\ s.at \notin {"receiving", "ended"} => s.message \in SqsMessage
  /\ s.at = "deleting" \/ (s.at = "stopping" /\ s.then = "deleting") =>
       s.message \in settled
  /\ s.stray => s.told

Settled == imported \cup failures

SqsInv ==
  /\ SqsTypeOK
  /\ gone \subseteq Settled
  /\ \A c \in SqsConsumer : Orderly(sqs[c], Settled)

-----------------------------------------------------------------------------
(* Where a consumer goes on: lemmas about the operators of the loop.       *)

LEMMA EndTurnIsOrderly ==
  ASSUME NEW c, NEW s \in SqsState, s.stray => s.told, NEW settled, EndTurn(c, s)
  PROVE  \E t : GoesOn(c, t) /\ Orderly(t, settled)
<1> DEFINE loop == [s EXCEPT !.at = "receiving", !.message = Idle, !.then = "leaving",
                             !.renewal = "none", !.cancelled = FALSE]
           end == [loop EXCEPT !.at = "ended"]
<1>1. Orderly(loop, settled)
  BY DEF Orderly, SqsState
<1>2. Orderly(end, settled)
  BY DEF Orderly, SqsState
<1>3. GoesOn(c, loop) \/ GoesOn(c, end)
  BY DEF EndTurn
<1> QED BY <1>1, <1>2, <1>3

LEMMA ProceedIsOrderly ==
  ASSUME NEW c, NEW s \in SqsState, s.stray => s.told, NEW settled,
         s.renewal \notin {"asleep", "calling"},
         NEW next \in {"deleting", "delaying", "leaving"},
         next # "leaving" => s.message \in SqsMessage,
         next = "deleting" => s.message \in settled,
         Proceed(c, s, next)
  PROVE  \E t : GoesOn(c, t) /\ Orderly(t, settled)
<1>1. CASE next = "leaving"
  BY <1>1, EndTurnIsOrderly DEF Proceed
<1>2. CASE next # "leaving"
  <2>1. Orderly([s EXCEPT !.at = next], settled)
    BY <1>2 DEF Orderly, SqsState
  <2> QED BY <1>2, <2>1 DEF Proceed
<1> QED BY <1>1, <1>2

LEMMA StopRenewalIsOrderly ==
  ASSUME NEW c, NEW s \in SqsState, s.stray => s.told, NEW settled,
         s.message \in SqsMessage,
         NEW next \in {"deleting", "delaying", "leaving"},
         next = "deleting" => s.message \in settled,
         StopRenewal(c, s, next)
  PROVE  \E t : GoesOn(c, t) /\ Orderly(t, settled)
<1>1. CASE s.renewal \in {"asleep", "calling"}
  <2>1. Orderly([s EXCEPT !.at = "stopping", !.then = next], settled)
    BY <1>1 DEF Orderly, SqsState
  <2> QED BY <1>1, <2>1 DEF StopRenewal
<1>2. CASE s.renewal \notin {"asleep", "calling"}
  BY <1>2, ProceedIsOrderly DEF StopRenewal
<1> QED BY <1>1, <1>2

-----------------------------------------------------------------------------
(* Every step of a consumer takes it to an orderly state.                  *)

LEMMA LoopSteps ==
  ASSUME SqsInv, NEW c \in SqsConsumer,
         \/ \E m \in SqsMessage : ReceiveMessage(c, m)
         \/ ReceiveNothing(c) \/ ReceiveFails(c) \/ Deleted(c) \/ Delayed(c)
         \/ SettlementFails(c)
  PROVE  \E t : GoesOn(c, t) /\ Orderly(t, Settled')
<1> DEFINE s == sqs[c]
<1>1. s \in SqsState /\ Orderly(s, Settled)
  BY DEF SqsInv, SqsTypeOK
<1>2. s.stray => s.told
  BY <1>1 DEF Orderly
<1>3. ASSUME NEW m \in SqsMessage, ReceiveMessage(c, m)
      PROVE  \E t : GoesOn(c, t) /\ Orderly(t, Settled')
  <2> DEFINE r == [s EXCEPT !.message = m]
  <2>1. r \in SqsState /\ (r.stray => r.told) /\ r.at = "receiving" /\ r.message = m
    BY <1>1, <1>2, <1>3 DEF SqsState, ReceiveMessage, At
  <2>2. CASE r.cancelled
    BY <1>3, <2>1, <2>2, EndTurnIsOrderly DEF ReceiveMessage
  <2>3. CASE ~r.cancelled
    <3>1. r.renewal = "none" \/ r.renewal = "broken"
      BY <1>1, <1>3 DEF Orderly, SqsState, ReceiveMessage, At
    <3>2. Orderly([r EXCEPT !.at = "sending"], Settled')
      BY <2>1, <3>1 DEF Orderly, SqsState
    <3>3. Orderly([r EXCEPT !.at = "importing", !.renewal = "asleep"], Settled')
      BY <2>1 DEF Orderly, SqsState
    <3> QED BY <1>3, <2>3, <3>2, <3>3 DEF ReceiveMessage
  <2> QED BY <2>2, <2>3
<1>4. CASE ReceiveNothing(c) \/ Deleted(c) \/ Delayed(c)
  BY <1>1, <1>2, <1>4, EndTurnIsOrderly DEF ReceiveNothing, Deleted, Delayed
<1>5. CASE ReceiveFails(c)
  <2>1. Orderly([s EXCEPT !.cancelled = FALSE], Settled')
    BY <1>1, <1>5 DEF Orderly, SqsState, ReceiveFails, At
  <2> QED BY <1>5, <2>1 DEF ReceiveFails
<1>6. CASE SettlementFails(c)
  <2>1. /\ [s EXCEPT !.cancelled = FALSE] \in SqsState
        /\ [s EXCEPT !.cancelled = FALSE].stray => [s EXCEPT !.cancelled = FALSE].told
    BY <1>1, <1>2 DEF SqsState
  <2> QED BY <1>6, <2>1, EndTurnIsOrderly DEF SettlementFails
<1> QED BY <1>3, <1>4, <1>5, <1>6

LEMMA ImportSteps ==
  ASSUME SqsInv, NEW c \in SqsConsumer,
         \/ ImportReturns(c) \/ ImportIsRefused(c) \/ ImportFails(c)
         \/ CopySent(c) \/ SendFails(c)
  PROVE  \E t : GoesOn(c, t) /\ Orderly(t, Settled')
<1> DEFINE s == sqs[c]
           calm == [s EXCEPT !.cancelled = FALSE]
<1>1. s \in SqsState /\ Orderly(s, Settled)
  BY DEF SqsInv, SqsTypeOK
<1>2. /\ s.stray => s.told
      /\ s.message \in SqsMessage
      /\ s.at \in {"importing", "sending"}
  BY <1>1 DEF Orderly, At, ImportReturns, ImportIsRefused, ImportFails, CopySent, SendFails
<1>3. Orderly([s EXCEPT !.at = "sending"], Settled')
  BY <1>1, <1>2 DEF Orderly, SqsState
<1>4. CASE ImportReturns(c)
  <2>1. s.message \in Settled' /\ StopRenewal(c, s, "deleting")
    BY <1>4 DEF ImportReturns, Settled
  <2> QED BY <1>1, <1>2, <2>1, StopRenewalIsOrderly
<1>5. CASE ImportIsRefused(c)
  BY <1>3, <1>5 DEF ImportIsRefused
<1>6. CASE ImportFails(c)
  <2>1. GoesOn(c, [s EXCEPT !.at = "sending"]) \/ StopRenewal(c, s, "delaying")
    BY <1>6 DEF ImportFails
  <2> QED BY <1>1, <1>2, <1>3, <2>1, StopRenewalIsOrderly
<1>7. CASE CopySent(c)
  <2>1. s.message \in Settled'
    BY <1>7 DEF CopySent, Settled
  <2>2. StopRenewal(c, s, "leaving") \/ StopRenewal(c, s, "deleting")
    BY <1>7 DEF CopySent
  <2> QED BY <1>1, <1>2, <2>1, <2>2, StopRenewalIsOrderly
<1>8. CASE SendFails(c)
  <2>1. calm \in SqsState /\ (calm.stray => calm.told) /\ calm.message \in SqsMessage
    BY <1>1, <1>2 DEF SqsState
  <2> QED BY <1>8, <2>1, StopRenewalIsOrderly DEF SendFails
<1> QED BY <1>4, <1>5, <1>6, <1>7, <1>8

LEMMA RenewalSteps ==
  ASSUME SqsInv, NEW c \in SqsConsumer, UNCHANGED Settled,
         Renews(c) \/ RenewalBreaks(c) \/ RenewalStops(c) \/ StrayCallEnds(c)
  PROVE  \E t : GoesOn(c, t) /\ Orderly(t, Settled')
<1> DEFINE s == sqs[c]
           broken == [s EXCEPT !.renewal = "broken"]
           none == [s EXCEPT !.renewal = "none"]
<1>1. s \in SqsState /\ Orderly(s, Settled')
  BY DEF SqsInv, SqsTypeOK
<1>2. s.stray => s.told
  BY <1>1 DEF Orderly
<1>3. CASE Renews(c)
  <2>1. CASE s.renewal = "asleep"
    <3>1. Orderly([s EXCEPT !.renewal = "calling"], Settled')
      BY <1>1, <2>1 DEF Orderly, SqsState
    <3> QED BY <1>3, <2>1, <3>1 DEF Renews, Renewal
  <2>2. CASE s.renewal = "calling"
    <3>1. Orderly([s EXCEPT !.renewal = "asleep"], Settled')
      BY <1>1, <2>2 DEF Orderly, SqsState
    <3> QED BY <1>3, <2>2, <3>1 DEF Renews, Renewal
  <2> QED BY <1>3, <2>1, <2>2 DEF Renews, Renewal
<1>4. CASE RenewalBreaks(c)
  <2>1. s.renewal = "calling" /\ s.at \in {"importing", "sending", "stopping"}
    BY <1>1, <1>4 DEF Orderly, RenewalBreaks, Renewal
  <2>2. broken \in SqsState /\ (broken.stray => broken.told)
    BY <1>1, <1>2 DEF SqsState
  <2>3. CASE s.at = "importing"
    <3>1. EndTurn(c, broken)
      BY <1>4, <2>3 DEF RenewalBreaks, At
    <3> QED BY <2>2, <3>1, EndTurnIsOrderly
  <2>4. CASE s.at = "sending"
    <3>1. GoesOn(c, broken)
      BY <1>4, <2>4 DEF RenewalBreaks, At
    <3>2. Orderly(broken, Settled')
      BY <1>1, <2>4 DEF Orderly, SqsState
    <3> QED BY <3>1, <3>2
  <2>5. CASE s.at = "stopping"
    <3>1. Proceed(c, broken, s.then)
      BY <1>1, <1>4, <2>5 DEF RenewalBreaks, At, SqsState
    <3>2. /\ broken.renewal \notin {"asleep", "calling"}
          /\ s.then \in {"deleting", "delaying", "leaving"}
          /\ broken.message \in SqsMessage
          /\ s.then = "deleting" => broken.message \in Settled'
      BY <1>1, <2>5 DEF Orderly, SqsState
    <3> QED BY <2>2, <3>1, <3>2, ProceedIsOrderly
  <2> QED BY <2>1, <2>3, <2>4, <2>5
<1>5. CASE RenewalStops(c)
  <2>1. /\ none \in SqsState /\ (none.stray => none.told)
        /\ none.renewal \notin {"asleep", "calling"}
        /\ s.then \in {"deleting", "delaying", "leaving"}
        /\ none.message \in SqsMessage
        /\ s.then = "deleting" => none.message \in Settled'
    BY <1>1, <1>5 DEF Orderly, SqsState, RenewalStops, At
  <2>2. Proceed(c, none, s.then)
    BY <1>5 DEF RenewalStops
  <2> QED BY <2>1, <2>2, ProceedIsOrderly
<1>6. CASE StrayCallEnds(c)
  <2>1. Orderly([s EXCEPT !.stray = FALSE], Settled')
    BY <1>1 DEF Orderly, SqsState
  <2> QED BY <1>6, <2>1 DEF StrayCallEnds
<1> QED BY <1>3, <1>4, <1>5, <1>6

LEMMA EndSteps ==
  ASSUME SqsInv, NEW c \in SqsConsumer, UNCHANGED Settled,
         Tell(c) \/ StartAgain(c) \/ Halt(c)
  PROVE  \E t : GoesOn(c, t) /\ Orderly(t, Settled')
<1> DEFINE s == sqs[c]
           told == [s EXCEPT !.told = TRUE]
           left == [told EXCEPT !.renewal = "none", !.stray = Renewal(c) = "calling"]
           asked == [told EXCEPT !.cancelled = TRUE]
<1>1. s \in SqsState /\ Orderly(s, Settled')
  BY DEF SqsInv, SqsTypeOK
<1>2. CASE StartAgain(c) \/ Halt(c)
  <2>1. Orderly(Listening, Settled')
    BY DEF Orderly, SqsState, Listening
  <2> QED BY <1>2, <2>1 DEF StartAgain, Halt, Start
<1>3. CASE Tell(c)
  <2>1. CASE s.at = "stopping"
    <3>1. /\ left \in SqsState /\ (left.stray => left.told)
          /\ left.renewal \notin {"asleep", "calling"}
          /\ s.then \in {"deleting", "delaying", "leaving"}
          /\ left.message \in SqsMessage
          /\ s.then = "deleting" => left.message \in Settled'
      BY <1>1, <2>1 DEF Orderly, SqsState
    <3>2. Proceed(c, left, told.then) /\ told.then = s.then
      BY <1>1, <1>3, <2>1 DEF Tell, At, SqsState
    <3> QED BY <3>1, <3>2, ProceedIsOrderly
  <2>2. asked \in SqsState /\ (asked.stray => asked.told)
    BY <1>1 DEF SqsState
  <2>3. CASE s.at = "importing"
    <3>1. StopRenewal(c, asked, "leaving")
      BY <1>3, <2>3 DEF Tell, At
    <3>2. asked.message \in SqsMessage
      BY <1>1, <2>3 DEF Orderly, SqsState
    <3> QED BY <2>2, <3>1, <3>2, StopRenewalIsOrderly
  <2>4. CASE s.at \notin {"stopping", "importing"}
    <3>1. GoesOn(c, asked)
      BY <1>3, <2>4 DEF Tell, At
    <3>2. Orderly(asked, Settled')
      BY <1>1, <2>4 DEF Orderly, SqsState
    <3> QED BY <3>1, <3>2
  <2> QED BY <2>1, <2>3, <2>4
<1> QED BY <1>2, <1>3

-----------------------------------------------------------------------------
(* The invariant.                                                          *)

LEMMA SqsInitIsOrderly == SqsInit => SqsInv
<1>1. Orderly(Listening, {})
  BY DEF Orderly, SqsState, Listening
<1> QED BY <1>1, SqsAssumption
  DEF SqsInit, SqsInv, SqsTypeOK, Settled, Orderly

\* What the steps do to the queues; only Deleted deletes, and what it deletes is
\* settled.
LEMMA QueuesAreKept ==
  ASSUME SqsInv, SqsNext
  PROVE  /\ holder' \in [SqsMessage -> SqsConsumer \cup {Idle}]
         /\ received' \in [SqsMessage -> 0 .. MaxReceives]
         /\ failures' \subseteq SqsMessage /\ failures \subseteq failures'
         /\ imported' \subseteq SqsMessage /\ imported \subseteq imported'
         /\ mishaps' \in 0 .. MaxMishaps
         /\ gone' \subseteq Settled
<1> USE SqsAssumption DEF SqsInv, SqsTypeOK, inQueue, Mishap
<1>1. ASSUME NEW c \in SqsConsumer, Works(c)
      PROVE  /\ holder' \in [SqsMessage -> SqsConsumer \cup {Idle}]
             /\ received' \in [SqsMessage -> 0 .. MaxReceives]
             /\ failures' \subseteq SqsMessage /\ failures \subseteq failures'
             /\ imported' \subseteq SqsMessage /\ imported \subseteq imported'
             /\ mishaps' \in 0 .. MaxMishaps
             /\ gone' \subseteq Settled
  <2>1. ASSUME NEW m \in SqsMessage, ReceiveMessage(c, m)
        PROVE  /\ holder' \in [SqsMessage -> SqsConsumer \cup {Idle}]
               /\ received' \in [SqsMessage -> 0 .. MaxReceives]
    BY <2>1 DEF ReceiveMessage
  <2>2. CASE CopySent(c)
    <3>1. sqs[c].message \in SqsMessage
      BY <2>2 DEF CopySent, At, Orderly
    <3> QED BY <2>2, <3>1 DEF CopySent
  <2>3. CASE Deleted(c)
    <3>1. sqs[c].message \in Settled
      BY <2>3 DEF Deleted, At, Orderly
    <3> QED BY <2>3, <3>1 DEF Deleted
  <2>4. CASE ImportCommits(c)
    BY <2>4 DEF ImportCommits
  <2>5. CASE \/ ReceiveNothing(c) \/ ImportReturns(c) \/ ImportIsRefused(c)
             \/ Delayed(c) \/ RenewalStops(c) \/ StartAgain(c)
    BY <2>5 DEF ReceiveNothing, ImportReturns, ImportIsRefused, Delayed, RenewalStops,
                StartAgain, Start
  <2>6. CASE \E m \in SqsMessage : ReceiveMessage(c, m)
    BY <2>1, <2>6 DEF ReceiveMessage
  <2> QED BY <1>1, <2>2, <2>3, <2>4, <2>5, <2>6 DEF Works
<1>2. ASSUME NEW c \in SqsConsumer, Renews(c) \/ StrayCallEnds(c) \/ Fails(c)
      PROVE  UNCHANGED <<inQueue, failures, imported>> /\ mishaps' \in 0 .. MaxMishaps
  <2>1. CASE Renews(c) \/ StrayCallEnds(c)
    BY <2>1 DEF Renews, StrayCallEnds
  <2>2. CASE ReceiveFails(c) \/ SettlementFails(c) \/ Halt(c)
    BY <2>2 DEF ReceiveFails, SettlementFails, Halt, Start
  <2>3. CASE ImportFails(c) \/ SendFails(c)
    BY <2>3 DEF ImportFails, SendFails
  <2>4. CASE RenewalBreaks(c) \/ Tell(c)
    <3>1. Mishap /\ UNCHANGED <<inQueue, failures, imported>>
      BY <2>4, Zenon DEF RenewalBreaks, Tell
    <3> QED BY <3>1
  <2> QED BY <1>2, <2>1, <2>2, <2>3, <2>4 DEF Fails
<1>3. ASSUME NEW m \in SqsMessage, LeaseEnds(m) \/ LeaseIsLost(m)
      PROVE  /\ holder' \in [SqsMessage -> SqsConsumer \cup {Idle}]
             /\ UNCHANGED <<received, gone, failures, imported>>
             /\ mishaps' \in 0 .. MaxMishaps
  BY <1>3 DEF LeaseEnds, LeaseIsLost, Expire
<1> QED BY <1>1, <1>2, <1>3 DEF SqsNext

LEMMA SqsInvStep == SqsInv /\ [SqsNext]_sqsVars => SqsInv'
<1> SUFFICES ASSUME SqsInv, [SqsNext]_sqsVars PROVE SqsInv'
  OBVIOUS
<1>1. CASE UNCHANGED sqsVars
  BY <1>1 DEF sqsVars, SqsInv, SqsTypeOK, Settled, Orderly
<1>2. CASE SqsNext
  <2>1. Settled \subseteq Settled'
    BY <1>2, QueuesAreKept DEF Settled
  <2>2. \A c \in SqsConsumer : Orderly(sqs[c], Settled')
    BY <2>1 DEF SqsInv, Orderly
  <2>3. \/ UNCHANGED sqs
        \/ \E c \in SqsConsumer : \E t : GoesOn(c, t) /\ Orderly(t, Settled')
    <3>1. ASSUME NEW c \in SqsConsumer, Works(c) \/ Renews(c) \/ StrayCallEnds(c) \/ Fails(c)
          PROVE  UNCHANGED sqs \/ \E t : GoesOn(c, t) /\ Orderly(t, Settled')
      <4>1. CASE \/ Renews(c) \/ RenewalBreaks(c) \/ RenewalStops(c) \/ StrayCallEnds(c)
                 \/ Tell(c) \/ StartAgain(c) \/ Halt(c)
        <5>1. UNCHANGED Settled
          BY <4>1 DEF Renews, RenewalBreaks, RenewalStops, StrayCallEnds, Tell, StartAgain,
                      Halt, Start, Settled
        <5> QED BY <4>1, <5>1, RenewalSteps, EndSteps
      <4>2. CASE ImportCommits(c)
        BY <4>2 DEF ImportCommits
      <4> QED BY <3>1, <4>1, <4>2, LoopSteps, ImportSteps DEF Works, Fails
    <3>2. ASSUME NEW m \in SqsMessage, LeaseEnds(m) \/ LeaseIsLost(m) PROVE UNCHANGED sqs
      BY <3>2 DEF LeaseEnds, LeaseIsLost, Expire
    <3> QED BY <1>2, <3>1, <3>2 DEF SqsNext
  <2>4. sqs' \in [SqsConsumer -> SqsState] /\ \A c \in SqsConsumer : Orderly(sqs'[c], Settled')
    <3>1. CASE UNCHANGED sqs
      BY <2>2, <3>1 DEF SqsInv, SqsTypeOK
    <3>2. ASSUME NEW c \in SqsConsumer, NEW t, GoesOn(c, t), Orderly(t, Settled')
          PROVE  /\ sqs' \in [SqsConsumer -> SqsState]
                 /\ \A d \in SqsConsumer : Orderly(sqs'[d], Settled')
      <4>1. t \in SqsState
        BY <3>2 DEF Orderly
      <4>2. sqs \in [SqsConsumer -> SqsState]
        BY DEF SqsInv, SqsTypeOK
      <4>3. \A d \in SqsConsumer : sqs'[d] = IF d = c THEN t ELSE sqs[d]
        BY <3>2, <4>2 DEF GoesOn
      <4> QED BY <2>2, <3>2, <4>1, <4>2, <4>3 DEF GoesOn
    <3> QED BY <2>3, <3>1, <3>2
  <2>5. gone' \subseteq Settled' /\ SqsTypeOK'
    <3>1. gone' \subseteq SqsMessage
      BY <1>2, QueuesAreKept DEF Settled, SqsInv, SqsTypeOK
    <3> QED BY <1>2, <2>1, <2>4, <3>1, QueuesAreKept DEF SqsTypeOK
  <2> QED BY <2>4, <2>5 DEF SqsInv
<1> QED BY <1>1, <1>2

(* Every variable keeps its type, a consumer that deletes or delays has    *)
(* stopped its renewal, and one that is to delete has a message that is    *)
(* imported or copied (JobCompletionConsumer over SQSMessageQueue).        *)
THEOREM SqsInvariantHolds == SqsSpec => []SqsInv
BY SqsInitIsOrderly, SqsInvStep, PTL DEF SqsSpec

(* No message is deleted from the queue before it is imported or in the    *)
(* failure queue, and no renewal races the settlement of its message,      *)
(* unless the consumer was told to stop (SQSMessageQueue.ack, reject).     *)
THEOREM MessagesAreSettledInOrder == SqsSpec => []SettledInOrder
<1>1. SqsInv => SettledInOrder
  BY DEF SqsInv, SettledInOrder, Settled, Orderly, At, Renewal
<1> QED BY <1>1, SqsInvariantHolds, PTL
===============================================================================
