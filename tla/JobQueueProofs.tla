--------------------------- MODULE JobQueueProofs ---------------------------
(***************************************************************************)
(* Proofs about the job queue: no input is lost, a done job is current and *)
(* late answers are ignored, for any number of jobs, workers and requests. *)
(***************************************************************************)
EXTENDS JobQueue, TLAPS

\* What is asked of a job is what it remembers to rerun, or else its data.
InputInv ==
  \A j \in Jobs :
    /\ asked[j] = IF job[j].rerun = 0 THEN job[j].revision ELSE job[j].rerun
    /\ job[j].state = "done" =>
         job[j].rerun = 0 /\ finished[j] = job[j].revision

\* The holder of the lease works on the data of the row.
LeaseInv ==
  \A w \in Workers, j \in Jobs :
    Holds(w, j) => worker[w].revision = job[j].revision

Inv == TypeOK /\ InputInv /\ LeaseInv

LEMMA InitInv == Init => Inv
  BY NoJobAssumption, NoWorkerAssumption, LimitsAssumption
  DEF Init, Inv, TypeOK, InputInv, LeaseInv, Holds, Rows, Claims, JobStates,
      Fresh, Idle

LEMMA EnqueueKeepsInv ==
  ASSUME Inv, NEW j \in Jobs, NEW input \in 1..MaxRevision,
         EnqueueJob(j, input)
  PROVE  Inv'
<1>1. /\ job \in [Jobs -> Rows] /\ asked \in [Jobs -> 0..MaxRevision]
      /\ finished \in [Jobs -> 0..MaxRevision]
      /\ worker \in [Workers -> Claims] /\ crashes \in 0..MaxCrashes
  BY DEF Inv, TypeOK
<1>2. /\ finished' = finished /\ worker' = worker /\ crashes' = crashes
      /\ asked' = [asked EXCEPT ![j] = input]
      /\ job' = [job EXCEPT ![j] = IF @.state = "running"
                                   THEN [@ EXCEPT !.rerun = input]
                                   ELSE Fresh(input)]
  BY DEF EnqueueJob
<1>3. input \in 0..MaxRevision /\ input # 0
  BY LimitsAssumption
<1>4. job'[j] \in Rows
  BY <1>1, <1>2, <1>3, NoWorkerAssumption, LimitsAssumption
  DEF Rows, Fresh, JobStates
<1>5. job' \in [Jobs -> Rows] /\ asked' \in [Jobs -> 0..MaxRevision]
  BY <1>1, <1>2, <1>3, <1>4
<1>6. TypeOK'
  BY <1>1, <1>2, <1>5 DEF TypeOK
<1>7. InputInv'
  BY <1>1, <1>2, <1>3 DEF Inv, InputInv, Fresh, Rows
<1>8. LeaseInv'
  BY <1>1, <1>2, NoWorkerAssumption DEF Inv, LeaseInv, Holds, Fresh, Rows
<1> QED
  BY <1>6, <1>7, <1>8 DEF Inv

\* A step that only returns a row to the queue, or gives it up.
LEMMA StateKeepsInv ==
  ASSUME Inv, NEW j \in Jobs, NEW row \in Rows,
         job' = [job EXCEPT ![j] = row],
         row.revision = job[j].revision, row.rerun = job[j].rerun,
         row.token = job[j].token, row.state # "done",
         asked' = asked, finished' = finished,
         worker' \in [Workers -> Claims],
         \A w \in Workers : worker'[w] \in {worker[w], Idle},
         crashes' \in 0..MaxCrashes
  PROVE  Inv'
<1>1. TypeOK'
  BY DEF Inv, TypeOK
<1>2. InputInv'
  BY DEF Inv, TypeOK, InputInv
<1>3. LeaseInv'
  BY NoJobAssumption DEF Inv, TypeOK, LeaseInv, Holds, Idle
<1> QED
  BY <1>1, <1>2, <1>3 DEF Inv

LEMMA ClaimKeepsInv ==
  ASSUME Inv, NEW w \in Workers, NEW j \in Jobs, Claim(w, j)
  PROVE  Inv'
<1> DEFINE n == IF job[j].attempts < Limit THEN job[j].attempts + 1
                                           ELSE job[j].attempts
           row == [job[j] EXCEPT !.state = "running", !.token = w,
                                 !.attempts = n]
<1>1. job[j] \in Rows /\ n \in 0..Limit
  BY LimitsAssumption DEF Inv, TypeOK, Rows
<1>2. row \in Rows
  BY <1>1 DEF Rows, JobStates
<1>3. job' = [job EXCEPT ![j] = row]
  BY DEF Claim, Inv, TypeOK
<1>4. worker'[w] \in Claims /\ worker' \in [Workers -> Claims]
  BY <1>1 DEF Claim, Inv, TypeOK, Rows, Claims
<1>5. /\ job[j] \in Rows /\ job'[j] \in Rows /\ worker'[w] \in Claims
      /\ job' \in [Jobs -> Rows] /\ worker' \in [Workers -> Claims]
  BY <1>1, <1>2, <1>3, <1>4 DEF Inv, TypeOK
<1>6. TypeOK'
  BY <1>5 DEF Claim, Inv, TypeOK
<1>7. InputInv'
  BY <1>5 DEF Claim, Inv, TypeOK, InputInv, Rows
<1>8. LeaseInv'
  BY <1>5, NoJobAssumption DEF Claim, Inv, TypeOK, LeaseInv, Holds, Rows, Idle
<1> QED
  BY <1>6, <1>7, <1>8 DEF Inv

LEMMA SucceedKeepsInv ==
  ASSUME Inv, NEW w \in Workers, Succeed(w)
  PROVE  Inv'
<1> DEFINE j == worker[w].job
<1>1. j \in Jobs /\ worker[w] \in Claims /\ job[j] \in Rows
  BY DEF Succeed, Inv, TypeOK, Claims
<1>2. /\ worker' = [worker EXCEPT ![w] = Idle] /\ worker' \in [Workers -> Claims]
      /\ asked' = asked /\ crashes' = crashes
  BY LimitsAssumption DEF Succeed, Inv, TypeOK, Claims, Idle
<1>3. CASE Holds(w, j)
  <2>1. /\ finished' = [finished EXCEPT ![j] = worker[w].revision]
        /\ job' = [job EXCEPT ![j] =
             IF @.rerun = 0 THEN [@ EXCEPT !.state = "done", !.attempts = 0]
                            ELSE Fresh(@.rerun)]
    BY <1>3 DEF Succeed
  <2>2. job'[j] \in Rows
    <3>1. 0 \in 0..Limit /\ 0 \in 0..MaxRevision
      BY LimitsAssumption
    <3>2. job'[j] = IF job[j].rerun = 0
                    THEN [job[j] EXCEPT !.state = "done", !.attempts = 0]
                    ELSE Fresh(job[j].rerun)
      BY <1>1, <2>1 DEF Inv, TypeOK
    <3>3. [job[j] EXCEPT !.state = "done", !.attempts = 0] \in Rows
      BY <1>1, <3>1 DEF Rows, JobStates
    <3>4. Fresh(job[j].rerun) \in Rows
      BY <1>1, <3>1 DEF Rows, JobStates, Fresh
    <3> QED
      BY <3>2, <3>3, <3>4
  <2>3. job' \in [Jobs -> Rows] /\ finished' \in [Jobs -> 0..MaxRevision]
    BY <1>1, <2>1, <2>2 DEF Inv, TypeOK, Claims
  <2>4. TypeOK'
    BY <1>2, <2>3 DEF Inv, TypeOK
  <2>5. worker[w].revision = job[j].revision
    BY <1>1, <1>3 DEF Inv, LeaseInv
  <2>6. InputInv'
    BY <1>1, <1>2, <2>1, <2>5 DEF Inv, TypeOK, InputInv, Fresh, Rows
  <2>7. LeaseInv'
    BY <1>1, <1>2, <2>1, NoJobAssumption, NoWorkerAssumption
    DEF Inv, TypeOK, LeaseInv, Holds, Fresh, Rows, Idle
  <2> QED
    BY <2>4, <2>6, <2>7 DEF Inv
<1>4. CASE ~Holds(w, j)
  <2>1. job' = job /\ finished' = finished
    BY <1>4 DEF Succeed
  <2>2. TypeOK' /\ InputInv'
    BY <1>2, <2>1 DEF Inv, TypeOK, InputInv
  <2>3. LeaseInv'
    BY <1>2, <2>1, NoJobAssumption DEF Inv, TypeOK, LeaseInv, Holds, Idle
  <2> QED
    BY <2>2, <2>3 DEF Inv
<1> QED
  BY <1>3, <1>4

LEMMA FailKeepsInv ==
  ASSUME Inv, NEW w \in Workers, Fail(w)
  PROVE  Inv'
<1> DEFINE j == worker[w].job
           state == IF job[j].attempts < Limit THEN "pending" ELSE "failed"
           row == IF Holds(w, j) THEN [job[j] EXCEPT !.state = state] ELSE job[j]
<1>1. j \in Jobs /\ job[j] \in Rows
  BY DEF Fail, Inv, TypeOK, Claims
<1>2. /\ worker' = [worker EXCEPT ![w] = Idle] /\ worker' \in [Workers -> Claims]
      /\ asked' = asked /\ finished' = finished /\ crashes' \in 0..MaxCrashes
  BY LimitsAssumption DEF Fail, Inv, TypeOK, Claims, Idle
<1>3. CASE Holds(w, j)
  <2>1. job' = [job EXCEPT ![j] = row]
    BY <1>1, <1>3 DEF Fail, Inv, TypeOK
  <2>2. /\ row \in Rows /\ row.revision = job[j].revision
        /\ row.rerun = job[j].rerun /\ row.token = job[j].token
        /\ row.state # "done"
    BY <1>1, <1>3 DEF Rows, JobStates
  <2> QED
    BY <1>1, <1>2, <2>1, <2>2, StateKeepsInv
<1>4. CASE ~Holds(w, j)
  <2>1. job' = job
    BY <1>4 DEF Fail
  <2>2. TypeOK' /\ InputInv'
    BY <1>2, <2>1 DEF Inv, TypeOK, InputInv
  <2>3. LeaseInv'
    BY <1>2, <2>1, NoJobAssumption DEF Inv, TypeOK, LeaseInv, Holds, Idle
  <2> QED
    BY <2>2, <2>3 DEF Inv
<1> QED
  BY <1>3, <1>4

LEMMA NextInv == Inv /\ [Next]_vars => Inv'
<1> SUFFICES ASSUME Inv, [Next]_vars PROVE Inv'
  OBVIOUS
<1>1. ASSUME NEW j \in Jobs, SchedulePeriodic(j) PROVE Inv'
  <2>1. 1 \in 1..MaxRevision
    BY LimitsAssumption
  <2> QED
    BY <1>1, <2>1, EnqueueKeepsInv DEF SchedulePeriodic
<1>2. ASSUME NEW j \in Jobs, Request(j) PROVE Inv'
  <2>1. asked[j] + 1 \in 1..MaxRevision
    BY <1>2, LimitsAssumption DEF Request, Inv, TypeOK
  <2> QED
    BY <1>2, <2>1, EnqueueKeepsInv DEF Request
<1>3. ASSUME NEW j \in Jobs, ExpireLease(j) PROVE Inv'
  <2>1. job[j] \in Rows
    BY DEF Inv, TypeOK
  <2>2. /\ job' = [job EXCEPT ![j] = [job[j] EXCEPT !.state = "pending"]]
        /\ asked' = asked /\ finished' = finished /\ worker' = worker
        /\ crashes' \in 0..MaxCrashes /\ worker' \in [Workers -> Claims]
    BY <1>3 DEF ExpireLease, Inv, TypeOK
  <2>3. [job[j] EXCEPT !.state = "pending"] \in Rows
    BY <2>1 DEF Rows, JobStates
  <2> QED
    BY <2>1, <2>2, <2>3, StateKeepsInv DEF Rows
<1>4. ASSUME NEW j \in Jobs, RetryJob(j) PROVE Inv'
  <2>1. job[j] \in Rows
    BY DEF Inv, TypeOK
  <2>2. /\ job' = [job EXCEPT ![j] = [job[j] EXCEPT !.state = "pending",
                                                    !.attempts = 0]]
        /\ asked' = asked /\ finished' = finished /\ worker' = worker
        /\ crashes' \in 0..MaxCrashes /\ worker' \in [Workers -> Claims]
    BY <1>4 DEF RetryJob, Inv, TypeOK
  <2>3. [job[j] EXCEPT !.state = "pending", !.attempts = 0] \in Rows
    <3>1. 0 \in 0..Limit
      BY LimitsAssumption
    <3> QED
      BY <2>1, <3>1 DEF Rows, JobStates
  <2> QED
    BY <2>1, <2>2, <2>3, StateKeepsInv DEF Rows
<1>5. ASSUME NEW j \in Jobs, NEW w \in Workers, Claim(w, j) PROVE Inv'
  BY <1>5, ClaimKeepsInv
<1>6. ASSUME NEW w \in Workers, Succeed(w) PROVE Inv'
  BY <1>6, SucceedKeepsInv
<1>7. ASSUME NEW w \in Workers, Fail(w) PROVE Inv'
  BY <1>7, FailKeepsInv
<1>8. ASSUME NEW w \in Workers, Crash(w) PROVE Inv'
  <2>1. TypeOK'
    BY <1>8, LimitsAssumption DEF Crash, Inv, TypeOK, Claims, Idle
  <2>2. InputInv'
    BY <1>8 DEF Crash, Inv, InputInv
  <2>3. LeaseInv'
    BY <1>8, NoJobAssumption DEF Crash, Inv, TypeOK, LeaseInv, Holds, Idle
  <2> QED
    BY <2>1, <2>2, <2>3 DEF Inv
<1>9. CASE UNCHANGED vars
  BY <1>9 DEF vars, Inv, TypeOK, InputInv, LeaseInv, Holds
<1> QED
  BY <1>1, <1>2, <1>3, <1>4, <1>5, <1>6, <1>7, <1>8, <1>9 DEF Next

LEMMA InvHolds == Spec => []Inv
  BY InitInv, NextInv, PTL DEF Spec

\* Rows, claims and counters keep their shape.
THEOREM QueueTypeCorrect == Spec => []TypeOK
<1>1. Inv => TypeOK
  BY DEF Inv
<1> QED
  BY <1>1, InvHolds, PTL

\* No request made of a job is lost, whatever runs, fails or expires meanwhile
\* (enqueue_job and the result transactions of run_tick).
THEOREM NewestInputKeptHolds == Spec => []NewestInputKept
<1>1. Inv => NewestInputKept
  BY DEF Inv, TypeOK, InputInv, NewestInputKept
<1> QED
  BY <1>1, InvHolds, PTL

\* A job is shown as done only when its newest input was processed.
THEOREM DoneIsCurrentHolds == Spec => []DoneIsCurrent
<1>1. Inv => DoneIsCurrent
  BY DEF Inv, TypeOK, InputInv, DoneIsCurrent
<1> QED
  BY <1>1, InvHolds, PTL

\* The answer of a claim that lost its lease changes nothing.
THEOREM LateAnswerIsIgnoredHolds == Spec => LateAnswerIsIgnored
<1> DEFINE Ignored ==
      \A w \in Workers :
        worker[w].job # NoJob /\ worker'[w] = Idle
        /\ job[worker[w].job].token # w
        => job'[worker[w].job] = job[worker[w].job]
<1>1. ASSUME Inv, [Next]_vars PROVE Ignored
  <2> SUFFICES ASSUME NEW w \in Workers,
                      worker[w].job # NoJob, worker'[w] = Idle,
                      job[worker[w].job].token # w
               PROVE  job'[worker[w].job] = job[worker[w].job]
    OBVIOUS
  <2>1. worker'[w] # worker[w]
    BY DEF Idle
  <2>2. ASSUME NEW x \in Workers, Succeed(x) \/ Fail(x) \/ Crash(x)
        PROVE  job'[worker[w].job] = job[worker[w].job]
    <3>1. worker' = [worker EXCEPT ![x] = Idle]
      BY <2>2 DEF Succeed, Fail, Crash
    <3>2. x = w
      BY <1>1, <2>1, <3>1 DEF Inv, TypeOK
    <3> QED
      BY <2>2, <3>2 DEF Succeed, Fail, Crash, Holds
  <2>3. ASSUME NEW x \in Workers, NEW j \in Jobs, Claim(x, j)
        PROVE  job'[worker[w].job] = job[worker[w].job]
    <3>1. x = w
      BY <1>1, <2>1, <2>3 DEF Claim, Inv, TypeOK
    <3> QED
      BY <2>3, <3>1 DEF Claim, Idle
  <2>4. ASSUME NEW j \in Jobs, \/ SchedulePeriodic(j) \/ Request(j)
                               \/ ExpireLease(j) \/ RetryJob(j)
        PROVE  FALSE
    BY <2>1, <2>4 DEF SchedulePeriodic, Request, ExpireLease, RetryJob,
                      EnqueueJob
  <2>5. ~UNCHANGED vars
    BY <2>1 DEF vars
  <2> QED
    BY <1>1, <2>2, <2>3, <2>4, <2>5 DEF Next
<1>2. ASSUME Inv, [Next]_vars PROVE [Ignored]_vars
  BY <1>1, <1>2
<1>3. Spec => [][Ignored]_vars
  BY <1>2, InvHolds, PTL DEF Spec
<1> QED
  BY <1>3 DEF LateAnswerIsIgnored
=============================================================================
