------------------------------ MODULE SqsQueue ------------------------------
(***************************************************************************)
(* The consumers of the import queue in the cloud: the loop of             *)
(* services/job_consumer.py over aws/message_queue.py.  A consumer leases  *)
(* a message from SQS, and while it imports it a task of its own renews    *)
(* the lease; it stops the renewal before it deletes the message, makes it *)
(* visible again or has sent it to the failure queue.  The calls of the    *)
(* SDK run in threads, which a cancellation does not stop (run_io).        *)
(*                                                                         *)
(* A cancellation reaches a consumer from the end of the application or    *)
(* from the task group that holds its renewal.  Leases have no clock here: *)
(* one that nobody renews runs out, one that is renewed runs out only by a *)
(* fault.  What an import does to the library is the matter of             *)
(* ImportAttempt.                                                          *)
(***************************************************************************)
EXTENDS Naturals

CONSTANTS
  SqsConsumer,   \* one in each process
  SqsMessage,
  Malformed,     \* messages that are no descriptor of an import
  Refused,       \* messages whose import is refused: a missing or a wrong file
  Idle,          \* what a consumer without a message handles
  MaxReceives,   \* receives after which an unavailable import is given up
  MaxMishaps     \* bound on failing calls and imports, lost leases and stops

ASSUME SqsAssumption == /\ Malformed \subseteq SqsMessage /\ Refused \subseteq SqsMessage
                        /\ Malformed \cap Refused = {}
                        /\ Idle \notin SqsMessage
                        /\ MaxReceives \in Nat \ {0} /\ MaxMishaps \in Nat

VARIABLES
  holder,      \* holder[m]: who received m last, while that lease runs
  received,    \* received[m]: its receives, counted to MaxReceives
  gone,        \* messages deleted from the queue
  failures,    \* messages with a copy in the failure queue
  imported,    \* messages whose import is committed
  sqs,
  mishaps

sqsVars == <<holder, received, gone, failures, imported, sqs, mishaps>>
inQueue == <<holder, received, gone>>

-----------------------------------------------------------------------------

\* at: the await at which the consumer is; then: where it goes when the renewal has
\* stopped.  A renewal sleeps, is in its call, or is broken: its call has failed.
SqsState == [
  at : {"receiving", "importing", "sending", "stopping", "deleting", "delaying", "ended"},
  message : SqsMessage \cup {Idle},
  then : {"deleting", "delaying", "leaving"},
  renewal : {"none", "asleep", "calling", "broken"},
  stray : BOOLEAN,       \* the call of a renewal goes on though its task is over
  cancelled : BOOLEAN,   \* a cancellation is under way to the top of the loop
  told : BOOLEAN]        \* the application ends: the consumer was told to stop

SqsTypeOK ==
  /\ holder \in [SqsMessage -> SqsConsumer \cup {Idle}]
  /\ received \in [SqsMessage -> 0 .. MaxReceives]
  /\ gone \subseteq SqsMessage /\ failures \subseteq SqsMessage /\ imported \subseteq SqsMessage
  /\ sqs \in [SqsConsumer -> SqsState]
  /\ mishaps \in 0 .. MaxMishaps

Listening == [at |-> "receiving", message |-> Idle, then |-> "leaving", renewal |-> "none",
              stray |-> FALSE, cancelled |-> FALSE, told |-> FALSE]

SqsInit ==
  /\ holder = [m \in SqsMessage |-> Idle] /\ received = [m \in SqsMessage |-> 0]
  /\ gone = {} /\ failures = {} /\ imported = {}
  /\ sqs = [c \in SqsConsumer |-> Listening]
  /\ mishaps = 0

At(c, step) == sqs[c].at = step
Renewal(c) == sqs[c].renewal
Holds(c, m) == sqs[c].message = m

Mishap == mishaps < MaxMishaps /\ mishaps' = mishaps + 1

\* Consumer c goes on in state s.
GoesOn(c, s) == sqs' = [sqs EXCEPT ![c] = s]

\* The top of the loop: a cancellation ends it, an error or a return does not.  An
\* error of the task group replaces the cancellation that it meets, in some releases
\* of Python for good (before 3.13) and in others until the next await.
EndTurn(c, s) ==
  LET loop == [s EXCEPT !.at = "receiving", !.message = Idle, !.then = "leaving",
                        !.renewal = "none", !.cancelled = FALSE]
  IN \/ ~s.cancelled /\ GoesOn(c, loop)
     \/ s.cancelled /\ GoesOn(c, [loop EXCEPT !.at = "ended"])
     \/ s.cancelled /\ s.renewal = "broken" /\ GoesOn(c, loop)

\* Where the consumer goes on when no renewal stands in its way.
Proceed(c, s, next) ==
  IF next = "leaving" THEN EndTurn(c, s) ELSE GoesOn(c, [s EXCEPT !.at = next])

\* Faulty variant: the renewal is cancelled, but not waited for.
StopRenewal_NoWait(c, s, next) ==
  Proceed(c, [s EXCEPT !.renewal = IF @ = "broken" THEN @ ELSE "none",
                       !.stray = @ \/ s.renewal = "calling"], next)

\* _stop_renewal: cancels the task and waits for it, as it waits for its call.
StopRenewal(c, s, next) ==
  IF s.renewal \in {"asleep", "calling"}
    THEN GoesOn(c, [s EXCEPT !.at = "stopping", !.then = next])
    ELSE Proceed(c, s, next)

-----------------------------------------------------------------------------
(* The loop.                                                               *)

\* A message that nobody has leased comes with its receipt.  What is no descriptor is
\* rejected before anything renews the lease; a consumer that was cancelled drops it.
ReceiveMessage(c, m) ==
  /\ At(c, "receiving")
  /\ m \notin gone /\ holder[m] = Idle
  /\ holder' = [holder EXCEPT ![m] = c]
  /\ received' = [received EXCEPT ![m] = IF @ < MaxReceives THEN @ + 1 ELSE @]
  /\ LET s == [sqs[c] EXCEPT !.message = m] IN
       IF s.cancelled THEN EndTurn(c, s)
       ELSE GoesOn(c, IF m \in Malformed THEN [s EXCEPT !.at = "sending"]
                      ELSE [s EXCEPT !.at = "importing", !.renewal = "asleep"])
  /\ UNCHANGED <<gone, failures, imported, mishaps>>

ReceiveNothing(c) ==
  /\ At(c, "receiving") /\ sqs[c].cancelled
  /\ EndTurn(c, sqs[c])
  /\ UNCHANGED <<inQueue, failures, imported, mishaps>>

\* The error of a call takes the place of the cancellation that waits for it.
ReceiveFails(c) ==
  /\ At(c, "receiving") /\ Mishap
  /\ GoesOn(c, [sqs[c] EXCEPT !.cancelled = FALSE])
  /\ UNCHANGED <<inQueue, failures, imported>>

\* The commit of the import, which is followed by more awaits.
ImportCommits(c) ==
  /\ At(c, "importing")
  /\ \E m \in SqsMessage \ (Refused \cup imported) :
       Holds(c, m) /\ imported' = imported \cup {m}
  /\ UNCHANGED <<inQueue, failures, sqs, mishaps>>

\* register returns for what is committed, by whomever.
ImportReturns(c) ==
  /\ At(c, "importing") /\ sqs[c].message \in imported
  /\ StopRenewal(c, sqs[c], "deleting")
  /\ UNCHANGED <<inQueue, failures, imported, mishaps>>

\* Faulty variant: a refusal is treated like any other error.
ImportIsRefused_Retries(c) ==
  /\ At(c, "importing") /\ sqs[c].message \in Refused
  /\ StopRenewal(c, sqs[c], "delaying")
  /\ UNCHANGED <<inQueue, failures, imported, mishaps>>

\* LibraryError: the body is sent to the failure queue, while the lease is renewed.
ImportIsRefused(c) ==
  /\ At(c, "importing") /\ sqs[c].message \in Refused
  /\ GoesOn(c, [sqs[c] EXCEPT !.at = "sending"])
  /\ UNCHANGED <<inQueue, failures, imported, mishaps>>

\* Any other error, of the library or of the database: again, after a delay, or no more.
ImportFails(c) ==
  /\ At(c, "importing") /\ Mishap
  /\ IF received[sqs[c].message] = MaxReceives
       THEN GoesOn(c, [sqs[c] EXCEPT !.at = "sending"])
       ELSE StopRenewal(c, sqs[c], "delaying")
  /\ UNCHANGED <<inQueue, failures, imported>>

\* reject: send_message, then ack, unless a cancellation is waiting.
CopySent(c) ==
  /\ At(c, "sending")
  /\ failures' = failures \cup {sqs[c].message}
  /\ StopRenewal(c, sqs[c],
       IF sqs[c].cancelled \/ Renewal(c) = "broken" THEN "leaving" ELSE "deleting")
  /\ UNCHANGED <<inQueue, imported, mishaps>>

SendFails(c) ==
  /\ At(c, "sending") /\ Mishap
  /\ StopRenewal(c, [sqs[c] EXCEPT !.cancelled = FALSE], "leaving")
  /\ UNCHANGED <<inQueue, failures, imported>>

\* delete_message: SQS may ignore a receipt that is not the last one.
Deleted(c) ==
  /\ At(c, "deleting")
  /\ LET m == sqs[c].message IN
       \/ gone' = gone \cup {m}
       \/ holder[m] # c /\ UNCHANGED gone
  /\ EndTurn(c, sqs[c])
  /\ UNCHANGED <<holder, received, failures, imported, mishaps>>

\* change_message_visibility: the message comes back when the delay is over.
Delayed(c) ==
  /\ At(c, "delaying")
  /\ EndTurn(c, sqs[c])
  /\ UNCHANGED <<inQueue, failures, imported, mishaps>>

SettlementFails(c) ==
  /\ At(c, "deleting") \/ At(c, "delaying")
  /\ Mishap
  /\ EndTurn(c, [sqs[c] EXCEPT !.cancelled = FALSE])
  /\ UNCHANGED <<inQueue, failures, imported>>

-----------------------------------------------------------------------------
(* The renewal: a task of the group that hold() opens.                     *)

Renews(c) ==
  /\ ~At(c, "stopping")
  /\ \/ Renewal(c) = "asleep" /\ GoesOn(c, [sqs[c] EXCEPT !.renewal = "calling"])
     \/ Renewal(c) = "calling" /\ GoesOn(c, [sqs[c] EXCEPT !.renewal = "asleep"])
  /\ UNCHANGED <<inQueue, failures, imported, mishaps>>

\* The group cancels the import; the call that sends a copy is waited for.
RenewalBreaks(c) ==
  /\ Renewal(c) = "calling" /\ Mishap
  /\ LET s == [sqs[c] EXCEPT !.renewal = "broken"] IN
       CASE At(c, "importing") -> EndTurn(c, s)
         [] At(c, "sending")   -> GoesOn(c, s)
         [] At(c, "stopping")  -> Proceed(c, s, s.then)
  /\ UNCHANGED <<inQueue, failures, imported>>

RenewalStops(c) ==
  /\ At(c, "stopping")
  /\ Proceed(c, [sqs[c] EXCEPT !.renewal = "none"], sqs[c].then)
  /\ UNCHANGED <<inQueue, failures, imported, mishaps>>

StrayCallEnds(c) ==
  /\ sqs[c].stray
  /\ GoesOn(c, [sqs[c] EXCEPT !.stray = FALSE])
  /\ UNCHANGED <<inQueue, failures, imported, mishaps>>

-----------------------------------------------------------------------------
(* The application and SQS.                                                *)

\* task.cancel(), once, at the end of the lifespan.  In _stop_renewal it cancels the
\* wait of the renewal for its call, and what comes back is suppressed as if it were
\* the cancellation of the renewal.
Tell(c) ==
  /\ ~sqs[c].told /\ Mishap
  /\ LET s == [sqs[c] EXCEPT !.told = TRUE] IN
       CASE At(c, "stopping") ->
              Proceed(c, [s EXCEPT !.renewal = "none",
                                   !.stray = Renewal(c) = "calling"], s.then)
         [] At(c, "importing") ->
              StopRenewal(c, [s EXCEPT !.cancelled = TRUE], "leaving")
         [] OTHER -> GoesOn(c, [s EXCEPT !.cancelled = TRUE])
  /\ UNCHANGED <<inQueue, failures, imported>>

\* The process starts again after it has ended, or stops at any point and starts.
Start(c) ==
  /\ GoesOn(c, Listening)
  /\ UNCHANGED <<inQueue, failures, imported>>

StartAgain(c) == At(c, "ended") /\ Start(c) /\ UNCHANGED mishaps

Halt(c) == ~At(c, "ended") /\ Mishap /\ Start(c)

\* A lease runs out.
Expire(m) ==
  /\ holder[m] # Idle
  /\ holder' = [holder EXCEPT ![m] = Idle]
  /\ UNCHANGED <<received, gone, failures, imported, sqs>>

LeaseEnds(m) ==
  /\ holder[m] # Idle => ~Holds(holder[m], m)
  /\ Expire(m) /\ UNCHANGED mishaps

LeaseIsLost(m) == Expire(m) /\ Mishap

Works(c) ==
  \/ \E m \in SqsMessage : ReceiveMessage(c, m)
  \/ ReceiveNothing(c) \/ ImportCommits(c) \/ ImportReturns(c) \/ ImportIsRefused(c)
  \/ CopySent(c) \/ Deleted(c) \/ Delayed(c) \/ RenewalStops(c) \/ StartAgain(c)

Fails(c) ==
  \/ ReceiveFails(c) \/ ImportFails(c) \/ SendFails(c) \/ SettlementFails(c)
  \/ RenewalBreaks(c) \/ Tell(c) \/ Halt(c)

SqsNext ==
  \/ \E c \in SqsConsumer : Works(c) \/ Renews(c) \/ StrayCallEnds(c) \/ Fails(c)
  \/ \E m \in SqsMessage : LeaseEnds(m) \/ LeaseIsLost(m)

SqsSpec == SqsInit /\ [][SqsNext]_sqsVars

\* A consumer runs, a process that has ended is started again, a lease runs out.
SqsFairness == /\ \A c \in SqsConsumer : WF_sqsVars(Works(c))
               /\ \A m \in SqsMessage : WF_sqsVars(LeaseEnds(m))

FairSqsSpec == SqsSpec /\ SqsFairness

-----------------------------------------------------------------------------
(* Properties.                                                             *)

(* "Deletes a delivery only after commit/replay", and forwards failures    *)
(* "before deleting the original": whatever is cancelled, fails or stops,  *)
(* a message is deleted only when it is imported or in the failure queue.  *)
(* And "renewal must already be stopped" when a consumer deletes or delays *)
(* its message, unless it was told to stop meanwhile                       *)
(* (JobCompletionConsumer.process, SQSMessageQueue).                       *)
SettledInOrder ==
  /\ gone \subseteq imported \cup failures
  /\ \A c \in SqsConsumer : At(c, "deleting") \/ At(c, "delaying") =>
       \/ sqs[c].told
       \/ Renewal(c) # "calling" /\ ~sqs[c].stray

(* Once nothing fails any more, every message comes to be deleted, by      *)
(* whatever consumer (JobCompletionConsumer.run).                          *)
QueueDrains == <>(gone = SqsMessage)

(* The end of the application, which waits for them, ends all consumers    *)
(* (the lifespan of api.py, JobCompletionConsumer.run).                    *)
ConsumersStop == \A c \in SqsConsumer :
  sqs[c].told ~> (At(c, "ended") \/ ~sqs[c].told)
=============================================================================
