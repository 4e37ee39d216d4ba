------------------------------- MODULE MCQueues -------------------------------
(***************************************************************************)
(* Instances of GenerationJobs and SqsQueue for TLC, explored in one run,  *)
(* each while the other rests: the pipeline over RabbitMQ with one process *)
(* of each kind, and two consumers of the import queue in the cloud.       *)
(***************************************************************************)
EXTENDS GenerationJobs, SqsQueue

VARIABLE scenario   \* "pipeline" or "sqs": constant in a behaviour

\* A queue without a message left; a pipeline without a job.
SqsRests ==
  /\ holder = [m \in SqsMessage |-> Idle] /\ received = [m \in SqsMessage |-> 0]
  /\ gone = SqsMessage /\ imported = SqsMessage /\ failures = {}
  /\ sqs = [c \in SqsConsumer |-> Listening]
  /\ mishaps = 0

MCInit == /\ Init
          /\ \/ scenario = "pipeline" /\ SqsRests
             \/ scenario = "sqs" /\ SqsInit
MCNext == /\ UNCHANGED scenario
          /\ \/ scenario = "pipeline" /\ Next /\ UNCHANGED sqsVars
             \/ scenario = "sqs" /\ SqsNext /\ UNCHANGED vars
MCSpec == /\ MCInit /\ [][MCNext]_<<vars, sqsVars, scenario>>
          /\ Fairness /\ SqsFairness
===============================================================================
