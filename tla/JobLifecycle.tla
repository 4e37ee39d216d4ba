----------------------------- MODULE JobLifecycle -----------------------------
(***************************************************************************)
(* What the job table promises to a client that only reads jobs: a job is  *)
(* created once, as a draft or queued; it ends at most once, and the       *)
(* outcome, with the number of result assets it registered, never changes  *)
(* afterwards.  A queued job ends.  A draft may stay a draft for ever.     *)
(* GenerationJobs.tla is shown to implement this specification.            *)
(***************************************************************************)
EXTENDS Naturals

CONSTANT Job            \* the jobs a client may create

VARIABLES status,       \* status[j]: what GET /jobs/{id} answers for j
          registered    \* registered[j]: result assets registered for j

jobVars == <<status, registered>>

Active == {"draft", "queued"}
Terminal == {"succeeded", "failed"}

LifecycleTypeOK ==
  /\ status \in [Job -> {"absent"} \cup Active \cup Terminal]
  /\ registered \in [Job -> Nat]

Init ==
  /\ status = [j \in Job |-> "absent"]
  /\ registered = [j \in Job |-> 0]

Create(j) ==
  /\ status[j] = "absent"
  /\ \E s \in Active : status' = [status EXCEPT ![j] = s]
  /\ UNCHANGED registered

Succeed(j) ==
  /\ status[j] \in Active
  /\ status' = [status EXCEPT ![j] = "succeeded"]
  /\ registered' = [registered EXCEPT ![j] = 1]

Fail(j) ==
  /\ status[j] = "queued"
  /\ status' = [status EXCEPT ![j] = "failed"]
  /\ UNCHANGED registered

End(j) == Succeed(j) \/ Fail(j)

Next == \E j \in Job : Create(j) \/ End(j)

SafetySpec == Init /\ [][Next]_jobVars

Spec ==
  /\ SafetySpec
  /\ \A j \in Job : WF_jobVars(status[j] = "queued" /\ End(j))
===============================================================================
