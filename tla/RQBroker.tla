------------------------------ MODULE RQBroker ------------------------------
(***************************************************************************)
(* Redis and RQ as src/ uses them (external code): the list of job ids of  *)
(* the queue, the registry of jobs scheduled for a retry, and the retries   *)
(* left in the job.  A job id is the temp_id, so that enqueueing an item    *)
(* twice puts the same id twice in the list and resets its retries.  The    *)
(* order of the list is abstracted: a worker takes any job.                *)
(***************************************************************************)
EXTENDS Config

CONSTANTS WithScheduler,   \* TRUE: some worker runs RQ's scheduler
          CancelWorks      \* TRUE: Queue.cancel_job unlinks the job

ASSUME BrokerAssumption == WithScheduler \in BOOLEAN /\ CancelWorks \in BOOLEAN

VARIABLES jobs,         \* jobs[t]: times the id t is in the queue's list
          scheduled,    \* ids in the ScheduledJobRegistry
          retriesLeft   \* retriesLeft[t]: the job's retries_left

brokerVars == <<jobs, scheduled, retriesLeft>>

BrokerTypeOK ==
  /\ jobs \in [Items -> Nat]
  /\ scheduled \in SUBSET Items
  /\ retriesLeft \in [Items -> Nat]

BrokerInit ==
  /\ jobs = [t \in Items |-> 0]
  /\ scheduled = {}
  /\ retriesLeft = [t \in Items |-> 0]

-----------------------------------------------------------------------------
\* Retry(max = max(0, MAX_RETRIES - 1)): RQ refuses a maximum below 1.
RetryAccepted(n) == n >= 2

Push(t, n) ==
  /\ jobs' = [jobs EXCEPT ![t] = @ + 1]
  /\ retriesLeft' = [retriesLeft EXCEPT ![t] = n - 1]
  /\ UNCHANGED scheduled

Pop(t) ==
  /\ jobs[t] > 0
  /\ jobs' = [jobs EXCEPT ![t] = @ - 1]
  /\ UNCHANGED <<scheduled, retriesLeft>>

\* handle_job_failure: a job with retries left is scheduled after the interval
\* of Retry, any other goes to the failed registry.
Fail(t) ==
  /\ IF retriesLeft[t] > 0
     THEN /\ scheduled' = scheduled \cup {t}
          /\ retriesLeft' = [retriesLeft EXCEPT ![t] = @ - 1]
     ELSE UNCHANGED <<scheduled, retriesLeft>>
  /\ UNCHANGED jobs

\* The scheduler puts a due job back in the list.
Requeue(t) ==
  /\ WithScheduler
  /\ t \in scheduled
  /\ scheduled' = scheduled \ {t}
  /\ jobs' = [jobs EXCEPT ![t] = @ + 1]
  /\ UNCHANGED retriesLeft

\* Queue.cancel_job, when the installed RQ has it; _cancel_rq_job swallows the
\* exception when it does not.
CancelJob(t) ==
  IF CancelWorks
  THEN /\ jobs' = [jobs EXCEPT ![t] = IF @ > 0 THEN @ - 1 ELSE 0]
       /\ scheduled' = scheduled \ {t}
       /\ UNCHANGED retriesLeft
  ELSE UNCHANGED brokerVars
=============================================================================
