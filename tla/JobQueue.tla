------------------------------ MODULE JobQueue ------------------------------
(***************************************************************************)
(* The durable job queue (app/workers/scheduler.py): rows of jobs, the     *)
(* enqueue_job that every component calls, and any number of run_tick      *)
(* loops (Celery, the local loop, POST /automation/tick) that claim, run   *)
(* and close them under leases.                                            *)
(*                                                                         *)
(* A job is a key.  Its data is the revision of the input it was last      *)
(* asked to process.  A worker runs one job at a time, so its name stands  *)
(* for the lease_token of its current claim.  Due dates are not kept: a    *)
(* pending row may be claimed at any time.                                 *)
(***************************************************************************)
EXTENDS Naturals

CONSTANTS
  Jobs,
  Periodic,     \* jobs that schedule_due enqueues by itself
  Workers,
  NoJob, NoWorker,
  Limit,        \* claims after which a failing job is given up, 5 in the code
  MaxRevision,  \* bound: requests made of a job
  MaxCrashes    \* bound: workers lost

ASSUME NoJobAssumption == NoJob \notin Jobs
ASSUME NoWorkerAssumption == NoWorker \notin Workers
ASSUME PeriodicAssumption == Periodic \subseteq Jobs
ASSUME LimitsAssumption ==
  /\ Limit \in Nat \ {0} /\ MaxRevision \in Nat \ {0}
  /\ MaxCrashes \in Nat

VARIABLES
  job,       \* rows of jobs: state and the fields of data that matter
  asked,     \* revision of the last request made of each job
  finished,  \* revision of the last recorded success of each job
  worker,    \* the claim each run_tick is working on
  crashes

vars == <<job, asked, finished, worker, crashes>>

JobStates == {"absent", "pending", "running", "done", "failed"}
Rows == [state : JobStates, revision : 0..MaxRevision, rerun : 0..MaxRevision,
         attempts : 0..Limit, token : Workers \cup {NoWorker}]
Claims == [job : Jobs \cup {NoJob}, revision : 0..MaxRevision]

Idle == [job |-> NoJob, revision |-> 0]

\* A row whose data has just been replaced.
Fresh(revision) == [state |-> "pending", revision |-> revision, rerun |-> 0,
                    attempts |-> 0, token |-> NoWorker]

Init ==
  /\ job = [j \in Jobs |-> [Fresh(0) EXCEPT !.state = "absent"]]
  /\ asked = [j \in Jobs |-> 0]
  /\ finished = [j \in Jobs |-> 0]
  /\ worker = [w \in Workers |-> Idle]
  /\ crashes = 0

Holds(w, j) == worker[w].job = j /\ job[j].token = w

-----------------------------------------------------------------------------
\* Fault: a request made of a running job is taken to be served by the run.
EnqueueJobOnce(j, input) ==
  /\ asked' = [asked EXCEPT ![j] = input]
  /\ job' = [job EXCEPT ![j] = IF @.state = "running" THEN @ ELSE Fresh(input)]
  /\ UNCHANGED <<finished, worker, crashes>>

\* enqueue_job: a running job keeps its data and remembers the new input.
EnqueueJob(j, input) ==
  /\ asked' = [asked EXCEPT ![j] = input]
  /\ job' = [job EXCEPT ![j] = IF @.state = "running"
                               THEN [@ EXCEPT !.rerun = input]
                               ELSE Fresh(input)]
  /\ UNCHANGED <<finished, worker, crashes>>

\* schedule_due enqueues a periodic job that is missing, or done and due.  Its
\* input, the interval, is always the same.
SchedulePeriodic(j) ==
  /\ j \in Periodic
  /\ job[j].state \in {"absent", "done"}
  /\ EnqueueJob(j, 1)

\* Requests of assessment, preparation, verification and polls come at any
\* time, from the owner and from other handlers, each with newer input.
Request(j) ==
  /\ j \notin Periodic
  /\ asked[j] < MaxRevision
  /\ EnqueueJob(j, asked[j] + 1)

\* Fault: attempts are not counted.
ClaimUncounted(w, j) ==
  /\ worker[w] = Idle
  /\ job[j].state = "pending"
  /\ job' = [job EXCEPT ![j].state = "running", ![j].token = w]
  /\ worker' = [worker EXCEPT ![w] = [job |-> j, revision |-> job[j].revision]]
  /\ UNCHANGED <<asked, finished, crashes>>

\* claim_job.  Attempts are only compared with the limit, so they stop there.
Claim(w, j) ==
  /\ worker[w] = Idle
  /\ job[j].state = "pending"
  /\ job' = [job EXCEPT ![j].state = "running", ![j].token = w,
                        ![j].attempts = IF @ < Limit THEN @ + 1 ELSE @]
  /\ worker' = [worker EXCEPT ![w] = [job |-> j, revision |-> job[j].revision]]
  /\ UNCHANGED <<asked, finished, crashes>>

\* Fault: the lease is not compared when the handler returns.
SucceedUnchecked(w) ==
  LET j == worker[w].job
  IN  /\ j # NoJob
      /\ job' = [job EXCEPT ![j] =
           IF @.rerun = 0 THEN [@ EXCEPT !.state = "done", !.attempts = 0]
                          ELSE Fresh(@.rerun)]
      /\ finished' = [finished EXCEPT ![j] = worker[w].revision]
      /\ worker' = [worker EXCEPT ![w] = Idle]
      /\ UNCHANGED <<asked, crashes>>

\* Fault: the result closes the row without looking for a rerun.
SucceedWithoutRerun(w) ==
  LET j == worker[w].job
  IN  /\ j # NoJob
      /\ IF Holds(w, j)
         THEN /\ job' = [job EXCEPT ![j].state = "done", ![j].attempts = 0]
              /\ finished' = [finished EXCEPT ![j] = worker[w].revision]
         ELSE UNCHANGED <<job, finished>>
      /\ worker' = [worker EXCEPT ![w] = Idle]
      /\ UNCHANGED <<asked, crashes>>

\* The handler returned.  The row is closed, or made pending again with the
\* remembered input, if the token is still this claim's, whatever its state.
Succeed(w) ==
  LET j == worker[w].job
  IN  /\ j # NoJob
      /\ IF Holds(w, j)
         THEN /\ job' = [job EXCEPT ![j] =
                   IF @.rerun = 0
                   THEN [@ EXCEPT !.state = "done", !.attempts = 0]
                   ELSE Fresh(@.rerun)]
              /\ finished' = [finished EXCEPT ![j] = worker[w].revision]
         ELSE UNCHANGED <<job, finished>>
      /\ worker' = [worker EXCEPT ![w] = Idle]
      /\ UNCHANGED <<asked, crashes>>

\* The handler raised.
Fail(w) ==
  LET j == worker[w].job
  IN  /\ j # NoJob
      /\ job' = IF Holds(w, j)
                THEN [job EXCEPT ![j].state =
                        IF job[j].attempts < Limit THEN "pending" ELSE "failed"]
                ELSE job
      /\ worker' = [worker EXCEPT ![w] = Idle]
      /\ UNCHANGED <<asked, finished, crashes>>

Crash(w) ==
  /\ worker[w] # Idle
  /\ crashes < MaxCrashes
  /\ crashes' = crashes + 1
  /\ worker' = [worker EXCEPT ![w] = Idle]
  /\ UNCHANGED <<job, asked, finished>>

\* schedule_due returns a row whose lease is over to the queue, its handler
\* lost or slower than 5 minutes.  The token stays: a claim that is merely late
\* may still close it.
ExpireLease(j) ==
  /\ job[j].state = "running"
  /\ job' = [job EXCEPT ![j].state = "pending"]
  /\ UNCHANGED <<asked, finished, worker, crashes>>

\* POST /jobs/{id}/retry
RetryJob(j) ==
  /\ job[j].state = "failed"
  /\ job' = [job EXCEPT ![j].state = "pending", ![j].attempts = 0]
  /\ UNCHANGED <<asked, finished, worker, crashes>>

Next ==
  \/ \E j \in Jobs : \/ SchedulePeriodic(j) \/ Request(j)
                     \/ ExpireLease(j) \/ RetryJob(j)
                     \/ \E w \in Workers : Claim(w, j)
  \/ \E w \in Workers : Succeed(w) \/ Fail(w) \/ Crash(w)

Spec == Init /\ [][Next]_vars

Lost(j) == \A w \in Workers : ~Holds(w, j)

\* Ticks keep coming, handlers return, every tick looks at the leases, and
\* claim_job takes the row that has been due for longest.  A handler may be
\* slower than its lease any number of times, but not for ever.
Fairness ==
  /\ \A w \in Workers : WF_vars(Succeed(w) \/ Fail(w))
  /\ \A j \in Jobs : /\ WF_vars(Lost(j) /\ ExpireLease(j))
                     /\ SF_vars(\E w \in Workers : Claim(w, j))
                     /\ <>[][ExpireLease(j) => Lost(j)]_vars

LiveSpec == Spec /\ Fairness

-----------------------------------------------------------------------------
(* Properties *)

TypeOK ==
  /\ job \in [Jobs -> Rows]
  /\ asked \in [Jobs -> 0..MaxRevision]
  /\ finished \in [Jobs -> 0..MaxRevision]
  /\ worker \in [Workers -> Claims]
  /\ crashes \in 0..MaxCrashes

\* The newest input of a job is never lost: it is the data of the row or what
\* the row remembers to run next, whatever its state.
NewestInputKept ==
  \A j \in Jobs : asked[j] \in {job[j].revision, job[j].rerun}

\* A job is shown as done only when a run that started with its newest input
\* succeeded: no request made during a run, a lost lease or a retry is dropped.
DoneIsCurrent ==
  \A j \in Jobs : job[j].state = "done" => finished[j] = asked[j]

\* The late answer of a claim whose lease was given to another claim, or whose
\* row was enqueued anew, changes nothing.
LateAnswerIsIgnored ==
  [][\A w \in Workers :
       LET j == worker[w].job
       IN  j # NoJob /\ worker'[w] = Idle /\ job[j].token # w
           => job'[j] = job[j]]_vars

\* A job does not stay in the queue for ever: failures, lost workers and
\* requests made during a run end in a success or in "failed", which is shown.
JobsSettle ==
  \A j \in Jobs : job[j].state \in {"pending", "running"}
                  ~> job[j].state \in {"done", "failed"}
=============================================================================
