--------------------------- MODULE DispatchProofs ---------------------------
(***************************************************************************)
(* Proofs about Dispatch, for any number of applications, attempts,        *)
(* dispatchers and reconcilers and for any bounds.                         *)
(***************************************************************************)
EXTENDS Dispatch, FiniteSetTheorems, TLAPS

\* A dispatch in flight works on an attempt of its application whose result is
\* not recorded yet, and what it is about to report is the truth about the
\* provider.
WorkerInv(w) ==
  /\ worker[w].pc \in {"idle", "chosen"} => worker[w].attempt = NoAttempt
  /\ worker[w].pc # "idle" => worker[w].app \in Apps
  /\ worker[w].pc \notin {"idle", "chosen"} =>
       /\ worker[w].attempt \in Attempts
       /\ attempt[worker[w].attempt].app = worker[w].app
       /\ attempt[worker[w].attempt].outcome = "none"
  /\ worker[w].attempt \in sent =>
       worker[w].pc = "returned" /\ worker[w].outcome # "not_accepted"
  /\ worker[w].pc = "returned" =>
       /\ worker[w].outcome # "none"
       /\ worker[w].outcome = "accepted" => worker[w].attempt \in sent

\* No two dispatches share an attempt.
OneOwner ==
  \A v, w \in Workers :
    worker[v].attempt = worker[w].attempt
    => v = w \/ worker[v].attempt = NoAttempt

\* The provider has only seen attempts that were begun and that no record
\* calls "not accepted".
SentInv ==
  \A a \in sent : attempt[a].app # NoApp /\ attempt[a].outcome # "not_accepted"

\* An attempt that has not begun carries no result, no proof and no waiver.
FreshInv ==
  \A a \in Attempts : attempt[a].app = NoApp =>
    attempt[a].outcome = "none" /\ ~attempt[a].reconciled /\ ~attempt[a].waived

\* What a reconciler found was sent for the application it looks at.
LookupInv ==
  \A r \in Reconcilers :
    /\ lookup[r].pc = "searched" => lookup[r].app \in Apps
    /\ lookup[r].found # NoAttempt =>
         /\ lookup[r].found \in sent
         /\ attempt[lookup[r].found].app = lookup[r].app

InFlightInv ==
  (\A w \in Workers : WorkerInv(w)) /\ OneOwner /\ SentInv /\ FreshInv

\* The inductive invariant.
Inv == TypeOK /\ InFlightInv /\ LookupInv

-----------------------------------------------------------------------------
(* Types *)

LEMMA InitType == Init => TypeOK
  BY BoundsAssumption
  DEF Init, TypeOK, ApplicationRows, OutboxRows, AttemptRows, WorkerStates,
      LookupStates, Idle, NotLooking, AppStates, Drafts, OutboxStates, Outcomes

LEMMA DispatcherType ==
  ASSUME TypeOK, InFlightInv, NEW w \in Workers, Dispatcher(w) \/ Crash(w)
  PROVE  TypeOK'
<1>1. ASSUME NEW p \in Apps, ChoosePending(w, p) PROVE TypeOK'
  <2>1. \A v \in Workers : worker'[v] \in WorkerStates
    BY <1>1 DEF ChoosePending, TypeOK, WorkerStates, Idle, Outcomes
  <2> QED
    BY <1>1, <2>1 DEF ChoosePending, TypeOK
<1>2. CASE RefuseDispatch(w)
  <2>1. \A q \in Apps : outbox'[q] \in OutboxRows
    BY <1>2 DEF RefuseDispatch, TypeOK, OutboxRows, OutboxStates
  <2>2. \A v \in Workers : worker'[v] \in WorkerStates
    BY <1>2 DEF RefuseDispatch, TypeOK, WorkerStates, Idle, Outcomes
  <2> QED
    BY <1>2, <2>1, <2>2 DEF RefuseDispatch, TypeOK
<1>3. ASSUME NEW a \in Attempts, NEW route \in Routes,
             StartDispatch(w, a, route)
      PROVE  TypeOK'
  <2>1. \A q \in Apps : application'[q] \in ApplicationRows
    BY <1>3 DEF StartDispatch, TypeOK, ApplicationRows, AppStates, Preserved
  <2>2. \A q \in Apps : outbox'[q] \in OutboxRows
    BY <1>3 DEF StartDispatch, TypeOK, OutboxRows, OutboxStates
  <2>3. \A b \in Attempts : attempt'[b] \in AttemptRows
    <3>1. application[worker[w].app].packet \in 0..MaxPackets
      BY <1>3 DEF StartDispatch, InFlightInv, WorkerInv, TypeOK, ApplicationRows
    <3> QED
      BY <1>3, <3>1, RoutesAssumption
      DEF StartDispatch, TypeOK, AttemptRows, Outcomes, InFlightInv, WorkerInv
  <2>4. \A v \in Workers : worker'[v] \in WorkerStates
    BY <1>3 DEF StartDispatch, TypeOK, WorkerStates, Outcomes
  <2> QED
    BY <1>3, <2>1, <2>2, <2>3, <2>4 DEF StartDispatch, TypeOK
<1>4. CASE PassGate(w)
  <2>1. \A v \in Workers : worker'[v] \in WorkerStates
    BY <1>4 DEF PassGate, TypeOK, WorkerStates
  <2> QED
    BY <1>4, <2>1 DEF PassGate, TypeOK
<1>5. ASSUME NEW o \in Outcomes, StopBeforeRequest(w, o) PROVE TypeOK'
  <2>1. \A v \in Workers : worker'[v] \in WorkerStates
    BY <1>5 DEF StopBeforeRequest, TypeOK, WorkerStates
  <2> QED
    BY <1>5, <2>1 DEF StopBeforeRequest, TypeOK
<1>6. ASSUME NEW accepted \in BOOLEAN, NEW o \in Outcomes,
             Request(w, accepted, o)
      PROVE  TypeOK'
  <2>1. worker' \in [Workers -> WorkerStates]
    BY <1>6 DEF Request, TypeOK, WorkerStates
  <2>2. sent' \in SUBSET Attempts
    BY <1>6 DEF Request, TypeOK, InFlightInv, WorkerInv
  <2> QED
    BY <1>6, <2>1, <2>2 DEF Request, TypeOK
<1>7. CASE RecordResult(w)
  <2>1. \A q \in Apps : application'[q] \in ApplicationRows
    <3>1. \A reason \in SubmissionReasons :
            WithSubmissionTask(application[worker[w].app].tasks, reason)
              \in SUBSET TaskReasons
      BY <1>7 DEF RecordResult, InFlightInv, WorkerInv, TypeOK, ApplicationRows,
                  WithSubmissionTask, TaskReasons, SubmissionReasons
    <3>2. CASE worker[w].outcome = "accepted"
      BY <1>7, <3>1, <3>2
      DEF RecordResult, TypeOK, ApplicationRows, AppStates, Preserved, Drafts,
          SubmissionReasons
    <3>3. CASE worker[w].outcome = "uncertain"
      BY <1>7, <3>1, <3>3
      DEF RecordResult, TypeOK, ApplicationRows, AppStates, Preserved, Drafts,
          SubmissionReasons
    <3>4. CASE worker[w].outcome = "not_accepted"
      BY <1>7, <3>1, <3>4
      DEF RecordResult, TypeOK, ApplicationRows, AppStates, Preserved, Drafts,
          SubmissionReasons
    <3> QED
      BY <1>7, <3>2, <3>3, <3>4
      DEF RecordResult, InFlightInv, WorkerInv, TypeOK, WorkerStates, Outcomes
  <2>2. \A q \in Apps : outbox'[q] \in OutboxRows
    BY <1>7 DEF RecordResult, TypeOK, OutboxRows, OutboxStates
  <2>3. \A b \in Attempts : attempt'[b] \in AttemptRows
    BY <1>7 DEF RecordResult, TypeOK, AttemptRows, WorkerStates
  <2>4. \A v \in Workers : worker'[v] \in WorkerStates
    BY <1>7 DEF RecordResult, TypeOK, WorkerStates, Idle, Outcomes
  <2> QED
    BY <1>7, <2>1, <2>2, <2>3, <2>4 DEF RecordResult, TypeOK
<1>8. CASE Crash(w)
  <2>1. \A v \in Workers : worker'[v] \in WorkerStates
    BY <1>8 DEF Crash, TypeOK, WorkerStates, Idle, Outcomes
  <2> QED
    BY <1>8, <2>1, BoundsAssumption DEF Crash, TypeOK
<1> QED
  BY <1>1, <1>2, <1>3, <1>4, <1>5, <1>6, <1>7, <1>8 DEF Dispatcher

LEMMA ReconcilerType ==
  ASSUME TypeOK, NEW r \in Reconcilers, Reconciler(r)
  PROVE  TypeOK'
<1>1. ASSUME NEW p \in Apps, NEW found \in Attempts \cup {NoAttempt},
             LookupSent(r, p, found)
      PROVE  TypeOK'
  <2>1. \A s \in Reconcilers : lookup'[s] \in LookupStates
    BY <1>1 DEF LookupSent, TypeOK, LookupStates
  <2> QED
    BY <1>1, <2>1 DEF LookupSent, TypeOK
<1>2. CASE ReconcileFound(r)
  <2>1. \A q \in Apps : application'[q] \in ApplicationRows
    BY <1>2 DEF ReconcileFound, TypeOK, ApplicationRows, AppStates, Preserved
  <2>2. \A q \in Apps : outbox'[q] \in OutboxRows
    BY <1>2 DEF ReconcileFound, TypeOK, OutboxRows, OutboxStates
  <2>3. \A b \in Attempts : attempt'[b] \in AttemptRows
    BY <1>2 DEF ReconcileFound, TypeOK, AttemptRows
  <2>4. \A s \in Reconcilers : lookup'[s] \in LookupStates
    BY <1>2 DEF ReconcileFound, TypeOK, LookupStates, NotLooking
  <2> QED
    BY <1>2, <2>1, <2>2, <2>3, <2>4 DEF ReconcileFound, TypeOK
<1>3. CASE ReconcileMissing(r)
  <2>1. \A q \in Apps : application'[q] \in ApplicationRows
    BY <1>3
    DEF ReconcileMissing, TypeOK, ApplicationRows, AppStates, Preserved,
        WithSubmissionTask, TaskReasons, SubmissionReasons
  <2>2. \A s \in Reconcilers : lookup'[s] \in LookupStates
    BY <1>3 DEF ReconcileMissing, TypeOK, LookupStates, NotLooking
  <2> QED
    BY <1>3, <2>1, <2>2 DEF ReconcileMissing, TypeOK
<1> QED
  BY <1>1, <1>2, <1>3 DEF Reconciler

LEMMA ApplicationType ==
  ASSUME TypeOK, NEW p \in Apps,
         \/ RecoverInflight(p) \/ Owner(p) \/ Preparation(p)
         \/ \E kind \in ReplyKinds : ApplyMessage(p, kind)
  PROVE  TypeOK'
<1>1. CASE RecoverInflight(p)
  <2>1. \A q \in Apps : application'[q] \in ApplicationRows
    <3>1. WithSubmissionTask(application[p].tasks, "submission_uncertain")
            \in SUBSET TaskReasons
      BY DEF TypeOK, ApplicationRows, WithSubmissionTask, TaskReasons,
             SubmissionReasons
    <3> QED
      BY <1>1, <3>1
      DEF RecoverInflight, TypeOK, ApplicationRows, AppStates, Preserved
  <2>2. \A q \in Apps : outbox'[q] \in OutboxRows
    BY <1>1 DEF RecoverInflight, TypeOK, OutboxRows, OutboxStates
  <2> QED
    BY <1>1, <2>1, <2>2 DEF RecoverInflight, TypeOK
<1>2. CASE ConfirmReceipt(p)
  <2>1. \A q \in Apps : application'[q] \in ApplicationRows
    BY <1>2 DEF ConfirmReceipt, TypeOK, ApplicationRows, AppStates, Preserved
  <2>2. \A q \in Apps : outbox'[q] \in OutboxRows
    BY <1>2 DEF ConfirmReceipt, TypeOK, OutboxRows, OutboxStates
  <2> QED
    BY <1>2, <2>1, <2>2 DEF ConfirmReceipt, TypeOK
<1>3. CASE AuthorizeRetry(p)
  <2>1. \A q \in Apps : application'[q] \in ApplicationRows
    BY <1>3 DEF AuthorizeRetry, TypeOK, ApplicationRows, AppStates, Drafts
  <2>2. \A q \in Apps : outbox'[q] \in OutboxRows
    BY <1>3 DEF AuthorizeRetry, TypeOK, OutboxRows, OutboxStates
  <2>3. \A b \in Attempts : attempt'[b] \in AttemptRows
    BY <1>3 DEF AuthorizeRetry, TypeOK, AttemptRows
  <2> QED
    BY <1>3, <2>1, <2>2, <2>3 DEF AuthorizeRetry, TypeOK
<1>4. CASE ManualSubmission(p)
  <2>1. \A q \in Apps : application'[q] \in ApplicationRows
    BY <1>4
    DEF ManualSubmission, TypeOK, ApplicationRows, AppStates, Preserved
  <2>2. \A q \in Apps : outbox'[q] \in OutboxRows
    BY <1>4 DEF ManualSubmission, TypeOK, OutboxRows, OutboxStates
  <2> QED
    BY <1>4, <2>1, <2>2 DEF ManualSubmission, TypeOK
<1>5. ASSUME NEW s \in Handled, ApplicationState(p, s) PROVE TypeOK'
  <2>1. \A q \in Apps : application'[q] \in ApplicationRows
    BY <1>5 DEF ApplicationState, TypeOK, ApplicationRows, AppStates
  <2> QED
    BY <1>5, <2>1 DEF ApplicationState, TypeOK
<1>6. ASSUME NEW reason \in TaskReasons, ResolveTask(p, reason)
      PROVE  TypeOK'
  <2>1. \A q \in Apps : application'[q] \in ApplicationRows
    BY <1>6 DEF ResolveTask, TypeOK, ApplicationRows, AppStates, Drafts
  <2> QED
    BY <1>6, <2>1 DEF ResolveTask, TypeOK
<1>7. CASE UploadDocument(p)
  <2>1. \A q \in Apps : application'[q] \in ApplicationRows
    BY <1>7 DEF UploadDocument, TypeOK, ApplicationRows, AppStates, Drafts
  <2> QED
    BY <1>7, <2>1 DEF UploadDocument, TypeOK
<1>8. CASE QueueApplication(p)
  <2>1. \A q \in Apps : application'[q] \in ApplicationRows
    BY <1>8 DEF QueueApplication, TypeOK, ApplicationRows, AppStates, Drafts
  <2>2. \A q \in Apps : outbox'[q] \in OutboxRows
    BY <1>8 DEF QueueApplication, TypeOK, OutboxRows, OutboxStates
  <2> QED
    BY <1>8, <2>1, <2>2 DEF QueueApplication, TypeOK
<1>9. ASSUME NEW s \in {"skipped", "needs_human", "drafting"}, Assess(p, s)
      PROVE  TypeOK'
  <2>1. \A q \in Apps : application'[q] \in ApplicationRows
    BY <1>9 DEF Assess, TypeOK, ApplicationRows, AppStates, Drafts, Handled
  <2> QED
    BY <1>9, <2>1 DEF Assess, TypeOK
<1>10. ASSUME NEW valid \in BOOLEAN, NEW stale \in BOOLEAN,
              PreparePacket(p, valid, stale)
       PROVE  TypeOK'
  <2>1. \A q \in Apps : application'[q] \in ApplicationRows
    <3>1. application[p].packet + 1 \in 0..MaxPackets
      BY <1>10, BoundsAssumption DEF PreparePacket, TypeOK, ApplicationRows
    <3> QED
      BY <1>10, <3>1, BoundsAssumption
      DEF PreparePacket, TypeOK, ApplicationRows, AppStates, Drafts
  <2> QED
    BY <1>10, <2>1 DEF PreparePacket, TypeOK
<1>11. CASE Invalidate({p})
  <2>1. \A q \in Apps : application'[q] \in ApplicationRows
    BY <1>11 DEF Invalidate, TypeOK, ApplicationRows, AppStates, Drafts
  <2>2. \A q \in Apps : outbox'[q] \in OutboxRows
    BY <1>11 DEF Invalidate, TypeOK, OutboxRows, OutboxStates
  <2> QED
    BY <1>11, <2>1, <2>2 DEF Invalidate, TypeOK
<1>12. ASSUME NEW kind \in ReplyKinds, ApplyMessage(p, kind)
       PROVE  TypeOK'
  <2>1. \A q \in Apps : application'[q] \in ApplicationRows
    BY <1>12
    DEF ApplyMessage, TypeOK, ApplicationRows, AppStates, Preserved,
        ReplyKinds, TaskReasons
  <2> QED
    BY <1>12, <2>1 DEF ApplyMessage, TypeOK
<1> QED
  BY <1>1, <1>2, <1>3, <1>4, <1>5, <1>6, <1>7, <1>8, <1>9, <1>10, <1>11,
     <1>12 DEF Owner, Preparation

LEMMA NextType == TypeOK /\ InFlightInv /\ [Next]_vars => TypeOK'
<1> SUFFICES ASSUME TypeOK, InFlightInv, [Next]_vars PROVE TypeOK'
  OBVIOUS
<1>1. CASE Invalidate(Apps)
  <2>1. \A q \in Apps : application'[q] \in ApplicationRows
    BY <1>1 DEF Invalidate, TypeOK, ApplicationRows, AppStates, Drafts
  <2>2. \A q \in Apps : outbox'[q] \in OutboxRows
    BY <1>1 DEF Invalidate, TypeOK, OutboxRows, OutboxStates
  <2> QED
    BY <1>1, <2>1, <2>2 DEF Invalidate, TypeOK
<1>2. CASE Midnight
  BY <1>2, BoundsAssumption DEF Midnight, TypeOK
<1>3. CASE UNCHANGED vars
  BY <1>3 DEF vars, TypeOK
<1> QED
  BY <1>1, <1>2, <1>3, DispatcherType, ReconcilerType, ApplicationType
  DEF Next
-----------------------------------------------------------------------------
(* Dispatches in flight *)

LEMMA InitInFlight == Init => InFlightInv /\ LookupInv
  BY DEF Init, InFlightInv, WorkerInv, OneOwner, SentInv, FreshInv,
         LookupInv, Idle, NotLooking

LEMMA DispatcherInFlight ==
  ASSUME TypeOK, InFlightInv, NEW w \in Workers, Dispatcher(w) \/ Crash(w)
  PROVE  InFlightInv'
<1> USE NoAppAssumption, NoAttemptAssumption
    DEF TypeOK, InFlightInv, WorkerInv, OneOwner, SentInv, FreshInv
<1>1. ASSUME NEW p \in Apps, ChoosePending(w, p) PROVE InFlightInv'
  BY <1>1 DEF ChoosePending, WorkerStates, Idle
<1>2. CASE RefuseDispatch(w)
  BY <1>2 DEF RefuseDispatch, WorkerStates, Idle
<1>3. ASSUME NEW a \in Attempts, NEW route \in Routes,
             StartDispatch(w, a, route)
      PROVE  InFlightInv'
  BY <1>3 DEF StartDispatch, WorkerStates, AttemptRows
<1>4. CASE PassGate(w)
  BY <1>4 DEF PassGate, WorkerStates
<1>5. ASSUME NEW o \in Outcomes, StopBeforeRequest(w, o) PROVE InFlightInv'
  BY <1>5 DEF StopBeforeRequest, WorkerStates
<1>6. ASSUME NEW accepted \in BOOLEAN, NEW o \in Outcomes,
             Request(w, accepted, o)
      PROVE  InFlightInv'
  BY <1>6 DEF Request, WorkerStates
<1>7. CASE RecordResult(w)
  BY <1>7 DEF RecordResult, WorkerStates, Idle, AttemptRows
<1>8. CASE Crash(w)
  BY <1>8 DEF Crash, WorkerStates, Idle
<1> QED
  BY <1>1, <1>2, <1>3, <1>4, <1>5, <1>6, <1>7, <1>8 DEF Dispatcher

\* Every other step leaves what the invariant speaks of alone.
LEMMA FrameInFlight ==
  ASSUME TypeOK, InFlightInv, UNCHANGED <<worker, sent>>,
         \A a \in Attempts :
           /\ attempt'[a].app = attempt[a].app
           /\ attempt'[a].outcome = attempt[a].outcome
           /\ attempt[a].app = NoApp =>
                /\ attempt'[a].waived <=> attempt[a].waived
                /\ attempt'[a].reconciled <=> attempt[a].reconciled
  PROVE  InFlightInv'
  BY DEF TypeOK, InFlightInv, WorkerInv, OneOwner, SentInv, FreshInv

\* What a step outside the dispatcher may do to the attempts: nothing, mark
\* one as found in Sent Mail, or waive those of one application.
OnlyMarked ==
  \A a \in Attempts :
    /\ attempt'[a].app = attempt[a].app
    /\ attempt'[a].outcome = attempt[a].outcome
    /\ attempt'[a].packet = attempt[a].packet
    /\ attempt'[a].route = attempt[a].route
    /\ attempt'[a].day = attempt[a].day
    /\ attempt[a].reconciled => attempt'[a].reconciled
    /\ attempt'[a].reconciled => attempt[a].reconciled \/ a \in sent

NoneWaived == \A a \in Attempts : attempt'[a].waived <=> attempt[a].waived

AllWaived(p) ==
  \A a \in Attempts :
    attempt'[a].waived <=> attempt[a].waived \/ attempt[a].app = p

LEMMA OtherAttempts ==
  ASSUME TypeOK, LookupInv, [Next]_vars, ~ \E w \in Workers : Dispatcher(w) \/ Crash(w)
  PROVE  /\ UNCHANGED <<worker, sent>>
         /\ OnlyMarked
         /\ NoneWaived \/ \E p \in Apps : AuthorizeRetry(p) /\ AllWaived(p)
<1> USE DEF TypeOK, AttemptRows
<1>1. ASSUME NEW r \in Reconcilers, ReconcileFound(r)
      PROVE  UNCHANGED <<worker, sent>> /\ OnlyMarked /\ NoneWaived
  BY <1>1 DEF ReconcileFound, LookupInv, OnlyMarked, NoneWaived
<1>2. ASSUME NEW p \in Apps, AuthorizeRetry(p)
      PROVE  UNCHANGED <<worker, sent>> /\ OnlyMarked /\ AllWaived(p)
  BY <1>2 DEF AuthorizeRetry, AttemptsOf, OnlyMarked, AllWaived
<1>3. CASE UNCHANGED <<worker, sent, attempt>>
  BY <1>3 DEF OnlyMarked, NoneWaived
<1>4. \/ \E r \in Reconcilers : ReconcileFound(r)
      \/ \E p \in Apps : AuthorizeRetry(p)
      \/ UNCHANGED <<worker, sent, attempt>>
  <2>1. ASSUME NEW r \in Reconcilers, Reconciler(r)
        PROVE  ReconcileFound(r) \/ UNCHANGED <<worker, sent, attempt>>
    BY <2>1 DEF Reconciler, LookupSent, ReconcileMissing
  <2>2. ASSUME NEW p \in Apps, Owner(p)
        PROVE  AuthorizeRetry(p) \/ UNCHANGED <<worker, sent, attempt>>
    BY <2>2 DEF Owner, ConfirmReceipt, ManualSubmission, ApplicationState,
                ResolveTask, UploadDocument
  <2>3. ASSUME NEW p \in Apps,
               \/ RecoverInflight(p) \/ Preparation(p)
               \/ \E kind \in ReplyKinds : ApplyMessage(p, kind)
        PROVE  UNCHANGED <<worker, sent, attempt>>
    BY <2>3 DEF RecoverInflight, Preparation, QueueApplication, Assess,
                PreparePacket, Invalidate, ApplyMessage
  <2> QED
    BY <2>1, <2>2, <2>3 DEF Next, Invalidate, Midnight, vars
<1> QED
  BY <1>1, <1>2, <1>3, <1>4

LEMMA NextInFlight ==
  ASSUME TypeOK, InFlightInv, LookupInv, [Next]_vars
  PROVE  InFlightInv'
<1>1. CASE \E w \in Workers : Dispatcher(w) \/ Crash(w)
  BY <1>1, DispatcherInFlight
<1>2. CASE ~ \E w \in Workers : Dispatcher(w) \/ Crash(w)
  <2>1. /\ UNCHANGED <<worker, sent>> /\ OnlyMarked
        /\ NoneWaived \/ \E p \in Apps : AllWaived(p)
    BY <1>2, OtherAttempts
  <2>2. \A a \in Attempts : attempt[a].app = NoApp =>
          /\ attempt'[a].waived <=> attempt[a].waived
          /\ attempt'[a].reconciled <=> attempt[a].reconciled
    BY <2>1, NoAppAssumption
    DEF NoneWaived, AllWaived, OnlyMarked, InFlightInv, SentInv
  <2> QED
    BY <2>1, <2>2, FrameInFlight DEF OnlyMarked
<1> QED
  BY <1>1, <1>2

\* What was sent stays sent, for the application it was sent for.
LEMMA SentGrows ==
  ASSUME TypeOK, InFlightInv, LookupInv, [Next]_vars
  PROVE  \A a \in sent : /\ a \in sent'
                         /\ attempt'[a].app = attempt[a].app
                         /\ attempt'[a].route = attempt[a].route
<1>1. ASSUME NEW w \in Workers, Dispatcher(w) \/ Crash(w)
      PROVE  \A a \in sent : /\ a \in sent'
                             /\ attempt'[a].app = attempt[a].app
                             /\ attempt'[a].route = attempt[a].route
  <2>1. ASSUME NEW a \in Attempts, NEW route \in Routes,
               StartDispatch(w, a, route)
        PROVE  /\ a \notin sent /\ sent' = sent
               /\ \A b \in Attempts \ {a} : attempt'[b] = attempt[b]
    BY <2>1 DEF StartDispatch, InFlightInv, SentInv, TypeOK
  <2>2. CASE RecordResult(w)
    BY <2>2 DEF RecordResult, TypeOK, AttemptRows
  <2>3. ASSUME NEW accepted \in BOOLEAN, NEW o \in Outcomes,
               Request(w, accepted, o)
        PROVE  sent \subseteq sent' /\ attempt' = attempt
    BY <2>3 DEF Request
  <2> QED
    BY <1>1, <2>1, <2>2, <2>3
    DEF Dispatcher, ChoosePending, RefuseDispatch, PassGate,
        StopBeforeRequest, Crash, TypeOK
<1>2. CASE ~ \E w \in Workers : Dispatcher(w) \/ Crash(w)
  BY <1>2, OtherAttempts DEF OnlyMarked, TypeOK
<1> QED
  BY <1>1, <1>2

LEMMA NextLookup ==
  ASSUME TypeOK, InFlightInv, LookupInv, [Next]_vars
  PROVE  LookupInv'
<1>1. ASSUME NEW r \in Reconcilers, Reconciler(r) PROVE LookupInv'
  <2>1. ASSUME NEW p \in Apps, NEW found \in Attempts \cup {NoAttempt},
               LookupSent(r, p, found)
        PROVE  LookupInv'
    BY <2>1 DEF LookupSent, LookupInv, TypeOK, LookupStates, AttemptsOf
  <2>2. CASE lookup' = [lookup EXCEPT ![r] = NotLooking]
    BY <2>2, SentGrows DEF LookupInv, TypeOK, LookupStates, NotLooking
  <2> QED
    BY <1>1, <2>1, <2>2 DEF Reconciler, ReconcileFound, ReconcileMissing
<1>2. CASE lookup' = lookup
  BY <1>2, SentGrows DEF LookupInv
<1>3. lookup' = lookup \/ \E r \in Reconcilers : Reconciler(r)
  <2>1. ASSUME NEW w \in Workers, Dispatcher(w) \/ Crash(w)
        PROVE  lookup' = lookup
    BY <2>1 DEF Dispatcher, ChoosePending, RefuseDispatch, StartDispatch,
                PassGate, StopBeforeRequest, Request, RecordResult, Crash
  <2>2. ASSUME NEW p \in Apps, Owner(p) PROVE lookup' = lookup
    BY <2>2 DEF Owner, ConfirmReceipt, AuthorizeRetry, ManualSubmission,
                ApplicationState, ResolveTask, UploadDocument
  <2>3. ASSUME NEW p \in Apps,
               \/ RecoverInflight(p) \/ Preparation(p)
               \/ \E kind \in ReplyKinds : ApplyMessage(p, kind)
        PROVE  lookup' = lookup
    BY <2>3 DEF RecoverInflight, Preparation, QueueApplication, Assess,
                PreparePacket, Invalidate, ApplyMessage
  <2> QED
    BY <2>1, <2>2, <2>3 DEF Next, Invalidate, Midnight, vars
<1> QED
  BY <1>1, <1>2, <1>3

LEMMA InvHolds == Spec => []Inv
<1>1. Init => Inv
  BY InitType, InitInFlight DEF Inv
<1>2. Inv /\ [Next]_vars => Inv'
  BY NextType, NextInFlight, NextLookup DEF Inv
<1> QED
  BY <1>1, <1>2, PTL DEF Spec

\* Whatever the constants, every variable keeps the shape of its table.
THEOREM TypeCorrect == Spec => []TypeOK
  BY InvHolds, PTL DEF Inv

\* A "not accepted" on record is true of the provider, however late, repeated
\* or interrupted the steps of a dispatch are.
THEOREM NotAcceptedIsUnsentHolds == Spec => []NotAcceptedIsUnsent
<1>1. Inv => NotAcceptedIsUnsent
  BY DEF Inv, InFlightInv, SentInv, NotAcceptedIsUnsent
<1> QED
  BY <1>1, InvHolds, PTL

-----------------------------------------------------------------------------
(* The dispatcher implements SubmissionEffect *)

\* READY means that no earlier attempt still counts.
LEMMA ReadyIsFresh ==
  ASSUME TypeOK, NEW p \in Apps, "ready" \in Dispositions(p, NoAttempt)
  PROVE  Unresolved(p) = {}
<1>1. History(p, NoAttempt) \notin {"sent", "confirmed", "uncertain"}
  BY DEF Dispositions
<1>2. \A a \in Counted(p, NoAttempt) : attempt[a].outcome = "not_accepted"
  BY <1>1 DEF History
<1> QED
  BY <1>2, NoAttemptAssumption DEF Unresolved, Counted, AttemptsOf

LEMMA InitEffects == Init => Effects!Init
  BY DEF Init, Effects!Init

LEMMA DispatcherEffects ==
  ASSUME TypeOK, InFlightInv, NEW w \in Workers, Dispatcher(w) \/ Crash(w)
  PROVE  [Effects!Next]_(Effects!evars)
<1> USE DEF TypeOK, InFlightInv, WorkerInv, SentInv
<1>1. ASSUME NEW a \in Attempts, NEW route \in Routes,
             StartDispatch(w, a, route)
      PROVE  Effects!Begin(worker[w].app, a)
  <2>1. worker[w].app \in Apps /\ Unresolved(worker[w].app) = {}
    BY <1>1, ReadyIsFresh DEF StartDispatch
  <2>2. \A b \in Attempts : attempt[b].app = worker[w].app =>
          attempt[b].waived \/ attempt[b].outcome = "not_accepted"
    BY <2>1 DEF Unresolved, AttemptsOf
  <2>3. /\ attempt[a].app = NoApp
        /\ attempt'[a].app = worker[w].app
        /\ attempt'[a].outcome = "none" /\ ~attempt'[a].waived
        /\ \A b \in Attempts \ {a} : attempt'[b] = attempt[b]
        /\ sent' = sent
    BY <1>1 DEF StartDispatch
  <2>4. attempt[a].outcome = "none" /\ ~attempt[a].waived
    BY <2>3 DEF FreshInv
  <2>5. [b \in Attempts |-> attempt[b].app]'
          = [[b \in Attempts |-> attempt[b].app] EXCEPT ![a] = worker[w].app]
    BY <2>3
  <2>6. UNCHANGED <<sent, {b \in Attempts : attempt[b].outcome = "not_accepted"},
                    {b \in Attempts : attempt[b].waived}>>
    BY <2>3, <2>4
  <2> QED
    BY <2>2, <2>3, <2>5, <2>6 DEF Effects!Begin, Effects!Of
<1>2. ASSUME NEW accepted \in BOOLEAN, NEW o \in Outcomes,
             Request(w, accepted, o)
      PROVE  [Effects!Next]_(Effects!evars)
  <2>1. /\ worker[w].attempt \in Attempts
        /\ attempt[worker[w].attempt].app # NoApp
        /\ attempt[worker[w].attempt].outcome # "not_accepted"
        /\ worker[w].attempt \notin sent
    BY <1>2, NoAppAssumption DEF Request
  <2>2. Effects!Accept(worker[w].attempt) \/ UNCHANGED Effects!evars
    BY <1>2, <2>1 DEF Request, Effects!Accept, Effects!evars
  <2> QED
    BY <2>1, <2>2 DEF Effects!Next
<1>3. CASE RecordResult(w)
  <2>1. PICK a \in Attempts :
          /\ worker[w].attempt = a /\ attempt[a].app # NoApp
          /\ worker[w].outcome = "not_accepted" => a \notin sent
    BY <1>3, NoAppAssumption DEF RecordResult
  <2>2. /\ sent' = sent
        /\ \A b \in Attempts :
             /\ attempt'[b].app = attempt[b].app
             /\ attempt'[b].waived <=> attempt[b].waived
             /\ attempt'[b].outcome
                  = IF b = a THEN worker[w].outcome ELSE attempt[b].outcome
    BY <1>3, <2>1 DEF RecordResult, AttemptRows
  <2>3. CASE worker[w].outcome = "not_accepted"
    <3>1. Effects!Refuse(a)
      BY <2>1, <2>2, <2>3 DEF Effects!Refuse
    <3> QED
      BY <3>1 DEF Effects!Next
  <2>4. CASE worker[w].outcome # "not_accepted"
    <3>1. attempt[a].outcome # "not_accepted"
      BY <1>3, <2>1 DEF RecordResult
    <3> QED
      BY <2>2, <2>4, <3>1 DEF Effects!evars
  <2> QED
    BY <2>3, <2>4
<1>4. CASE UNCHANGED <<attempt, sent>>
  BY <1>4 DEF Effects!evars
<1> QED
  BY <1>1, <1>2, <1>3, <1>4
  DEF Dispatcher, ChoosePending, RefuseDispatch, PassGate, StopBeforeRequest,
      Crash, Effects!Next, StartDispatch

LEMMA OtherEffects ==
  ASSUME Inv, [Next]_vars, ~ \E w \in Workers : Dispatcher(w) \/ Crash(w)
  PROVE  [Effects!Next]_(Effects!evars)
<1>1. /\ UNCHANGED <<worker, sent>> /\ OnlyMarked
      /\ NoneWaived \/ \E p \in Apps : AllWaived(p)
  BY OtherAttempts DEF Inv
<1>2. CASE NoneWaived
  BY <1>1, <1>2 DEF OnlyMarked, NoneWaived, Effects!evars
<1>3. ASSUME NEW p \in Apps, AllWaived(p) PROVE Effects!Waive(p)
  BY <1>1, <1>3 DEF OnlyMarked, AllWaived, Effects!Waive, Effects!Of
<1> QED
  BY <1>1, <1>2, <1>3 DEF Effects!Next

\* Every behaviour of the dispatcher, seen as what has been begun, sent,
\* refused and waived, is a behaviour of SubmissionEffect.
THEOREM Implementation == Spec => ImplementsEffects
<1>1. Inv /\ [Next]_vars => [Effects!Next]_(Effects!evars)
  BY DispatcherEffects, OtherEffects DEF Inv
<1> QED
  BY <1>1, InitEffects, InvHolds, PTL
  DEF Spec, ImplementsEffects, Effects!Spec

-----------------------------------------------------------------------------
(* The promise of SubmissionEffect is kept by its own steps *)

OwnerOf == [a \in Attempts |-> attempt[a].app]
Refusals == {a \in Attempts : attempt[a].outcome = "not_accepted"}
Waivers == {a \in Attempts : attempt[a].waived}

\* The strengthening: the attempts of an application that are neither refused
\* nor waived are at most one, and no accepted attempt is refused.
EffectInv ==
  /\ sent \subseteq Attempts \ Refusals
  /\ \A p \in Apps : \A a, b \in Effects!Of(p) \ (Refusals \cup Waivers) : a = b

LEMMA EffectInvStep ==
  ASSUME EffectInv, [Effects!Next]_(Effects!evars)
  PROVE  EffectInv'
<1> USE DEF EffectInv
<1>1. \A p : Effects!Of(p) = {a \in Attempts : OwnerOf[a] = p}
  BY DEF Effects!Of, OwnerOf
<1>2. \A p : Effects!Of(p)' = {a \in Attempts : OwnerOf'[a] = p}
  BY DEF Effects!Of, OwnerOf
<1>3. ASSUME NEW p \in Apps, NEW a \in Attempts, Effects!Begin(p, a)
      PROVE  EffectInv'
  <2>1. /\ OwnerOf[a] = NoApp /\ OwnerOf' = [OwnerOf EXCEPT ![a] = p]
        /\ Effects!Of(p) \subseteq Refusals \cup Waivers
        /\ UNCHANGED <<sent, Refusals, Waivers>>
    BY <1>3 DEF Effects!Begin, OwnerOf, Refusals, Waivers
  <2>2. DOMAIN OwnerOf = Attempts
    BY DEF OwnerOf
  <2> HIDE DEF OwnerOf, Refusals, Waivers
  <2>3. Effects!Of(p)' = Effects!Of(p) \cup {a}
        /\ \A q \in Apps \ {p} : Effects!Of(q)' \subseteq Effects!Of(q)
    BY <1>1, <1>2, <2>1, <2>2
  <2> QED
    BY <2>1, <2>3
<1>4. ASSUME NEW a \in Attempts, Effects!Accept(a) \/ Effects!Refuse(a)
      PROVE  EffectInv'
  <2>1. /\ OwnerOf' = OwnerOf /\ Waivers' = Waivers /\ Refusals \subseteq Refusals'
        /\ sent' \subseteq Attempts \ Refusals'
    BY <1>4 DEF Effects!Accept, Effects!Refuse, OwnerOf, Refusals, Waivers
  <2> HIDE DEF OwnerOf, Refusals, Waivers
  <2> QED
    BY <1>1, <1>2, <2>1
<1>5. ASSUME NEW p \in Apps, Effects!Waive(p)
      PROVE  EffectInv'
  <2>1. /\ OwnerOf' = OwnerOf /\ Waivers \subseteq Waivers'
        /\ UNCHANGED <<sent, Refusals>>
    BY <1>5 DEF Effects!Waive, OwnerOf, Refusals, Waivers
  <2> HIDE DEF OwnerOf, Refusals, Waivers
  <2> QED
    BY <1>1, <1>2, <2>1
<1>6. CASE UNCHANGED Effects!evars
  <2>1. UNCHANGED <<OwnerOf, sent, Refusals, Waivers>>
    BY <1>6 DEF Effects!evars, OwnerOf, Refusals, Waivers
  <2> HIDE DEF OwnerOf, Refusals, Waivers
  <2> QED
    BY <1>1, <1>2, <2>1
<1> QED
  BY <1>3, <1>4, <1>5, <1>6 DEF Effects!Next

\* Whatever steps SubmissionEffect takes, at most one accepted attempt of an
\* application lacks the owner's approval of a retry.
THEOREM AtMostOneUnapprovedHolds ==
  Effects!Spec => []Effects!AtMostOneUnapproved
<1>1. Effects!Init => EffectInv
  <2> SUFFICES ASSUME Effects!Init PROVE EffectInv
    OBVIOUS
  <2>1. \A p \in Apps : Effects!Of(p) = {}
    BY NoAppAssumption DEF Effects!Init, Effects!Of
  <2> QED
    BY <2>1 DEF Effects!Init, EffectInv
<1>2. EffectInv => Effects!AtMostOneUnapproved
  <2> SUFFICES ASSUME EffectInv, NEW p \in Apps,
                      NEW a \in sent \cap Effects!Of(p), NEW b \in sent \cap Effects!Of(p)
               PROVE  a = b \/ a \in Waivers \/ b \in Waivers
    BY DEF Effects!AtMostOneUnapproved, Waivers
  <2>1. a \notin Refusals /\ b \notin Refusals
    BY DEF EffectInv
  <2> QED
    BY <2>1 DEF EffectInv
<1> QED
  BY <1>1, <1>2, EffectInvStep, PTL DEF Effects!Spec

\* Two accepted requests of one application are possible only when the owner
\* approved a retry of one of them.
THEOREM NoUnapprovedDuplicateHolds == Spec => []NoUnapprovedDuplicate
<1>1. Effects!AtMostOneUnapproved => NoUnapprovedDuplicate
  BY DEF Effects!AtMostOneUnapproved, Effects!Of, NoUnapprovedDuplicate, AttemptsOf
<1> QED
  BY <1>1, AtMostOneUnapprovedHolds, Implementation, PTL DEF ImplementsEffects

-----------------------------------------------------------------------------
(* The record of an attempt, the queue and the packets *)

\* A dispatcher step starts an attempt, records the result of one that has
\* none, or leaves the attempts alone.
LEMMA DispatcherAttempts ==
  ASSUME TypeOK, InFlightInv, NEW w \in Workers, Dispatcher(w) \/ Crash(w)
  PROVE  \/ \E a \in Attempts, route \in Routes : StartDispatch(w, a, route)
         \/ RecordResult(w) /\ \E a \in Attempts :
              /\ a = worker[w].attempt
              /\ attempt[a].app = worker[w].app /\ attempt[a].outcome = "none"
              /\ attempt' = [attempt EXCEPT ![a].outcome = worker[w].outcome]
         \/ UNCHANGED attempt
<1>1. ASSUME RecordResult(w)
      PROVE  /\ worker[w].attempt \in Attempts
             /\ attempt[worker[w].attempt].app = worker[w].app
             /\ attempt[worker[w].attempt].outcome = "none"
             /\ attempt' = [attempt EXCEPT ![worker[w].attempt].outcome =
                              worker[w].outcome]
  BY <1>1 DEF RecordResult, InFlightInv, WorkerInv
<1> QED
  BY <1>1 DEF Dispatcher, ChoosePending, RefuseDispatch, PassGate,
              StopBeforeRequest, Request, Crash

\* The record of an attempt is never rewritten: neither its result, nor the
\* proof found in Sent Mail, nor the application it belongs to.
THEOREM EvidenceIsKeptHolds == Spec => EvidenceIsKept
<1> DEFINE Kept == \A a \in Attempts :
             /\ attempt[a].outcome # "none"
                  => attempt'[a].outcome = attempt[a].outcome
             /\ attempt[a].reconciled => attempt'[a].reconciled
             /\ attempt[a].app # NoApp => attempt'[a].app = attempt[a].app
<1>1. ASSUME Inv, [Next]_vars PROVE [Kept]_vars
  <2>1. ASSUME NEW w \in Workers, Dispatcher(w) \/ Crash(w) PROVE Kept
    <3>1. ASSUME NEW a \in Attempts, NEW route \in Routes,
                 StartDispatch(w, a, route)
          PROVE  Kept
      <4>1. attempt[a].app = NoApp /\ attempt[a].outcome = "none"
            /\ ~attempt[a].reconciled
        BY <1>1, <3>1 DEF StartDispatch, Inv, InFlightInv, FreshInv
      <4>2. \A b \in Attempts \ {a} : attempt'[b] = attempt[b]
        BY <1>1, <3>1 DEF StartDispatch, Inv, TypeOK
      <4> QED
        BY <4>1, <4>2
    <3> QED
      BY <1>1, <2>1, <3>1, DispatcherAttempts DEF Inv, TypeOK, AttemptRows
  <2>2. CASE ~ \E w \in Workers : Dispatcher(w) \/ Crash(w)
    BY <1>1, <2>2, OtherAttempts DEF Inv, OnlyMarked
  <2> QED
    BY <2>1, <2>2
<1> QED
  BY <1>1, InvHolds, PTL DEF Spec, EvidenceIsKept

-----------------------------------------------------------------------------
(* The queue *)

\* Only queue_application makes an event pending.
LEMMA OnlyQueueApplication ==
  ASSUME TypeOK, [Next]_vars, NEW p \in Apps, outbox'[p].state = "pending",
         ~QueueApplication(p)
  PROVE  outbox[p].state = "pending"
<1> USE DEF TypeOK, OutboxRows
<1>1. ASSUME NEW w \in Workers, RefuseDispatch(w)
      PROVE  outbox[p].state = "pending"
  BY <1>1 DEF RefuseDispatch
<1>2. ASSUME NEW w \in Workers, NEW a \in Attempts, NEW route \in Routes,
             StartDispatch(w, a, route)
      PROVE  outbox[p].state = "pending"
  BY <1>2 DEF StartDispatch
<1>3. ASSUME NEW w \in Workers, RecordResult(w)
      PROVE  outbox[p].state = "pending"
  BY <1>3 DEF RecordResult
<1>4. ASSUME NEW r \in Reconcilers, ReconcileFound(r)
      PROVE  outbox[p].state = "pending"
  BY <1>4 DEF ReconcileFound
<1>5. ASSUME NEW q \in Apps, RecoverInflight(q)
      PROVE  outbox[p].state = "pending"
  BY <1>5 DEF RecoverInflight
<1>6. ASSUME NEW q \in Apps, ConfirmReceipt(q)
      PROVE  outbox[p].state = "pending"
  BY <1>6 DEF ConfirmReceipt
<1>7. ASSUME NEW q \in Apps, AuthorizeRetry(q)
      PROVE  outbox[p].state = "pending"
  BY <1>7 DEF AuthorizeRetry
<1>8. ASSUME NEW q \in Apps, ManualSubmission(q)
      PROVE  outbox[p].state = "pending"
  BY <1>8 DEF ManualSubmission
<1>9. ASSUME NEW q \in Apps, QueueApplication(q)
      PROVE  outbox[p].state = "pending"
  BY <1>9 DEF QueueApplication
<1>10. ASSUME NEW ps, Invalidate(ps)
       PROVE  outbox[p].state = "pending"
  BY <1>10 DEF Invalidate
<1>11. CASE outbox' = outbox
  BY <1>11
<1>12. ASSUME NEW w \in Workers, Dispatcher(w) \/ Crash(w)
       PROVE  outbox[p].state = "pending"
  BY <1>12, <1>1, <1>2, <1>3, <1>11
  DEF Dispatcher, ChoosePending, PassGate, StopBeforeRequest, Request, Crash
<1>13. ASSUME NEW r \in Reconcilers, Reconciler(r)
       PROVE  outbox[p].state = "pending"
  BY <1>13, <1>4, <1>11 DEF Reconciler, LookupSent, ReconcileMissing
<1>14. ASSUME NEW q \in Apps, Owner(q)
       PROVE  outbox[p].state = "pending"
  BY <1>14, <1>6, <1>7, <1>8, <1>11
  DEF Owner, ApplicationState, ResolveTask, UploadDocument
<1>15. ASSUME NEW q \in Apps, Preparation(q)
       PROVE  outbox[p].state = "pending"
  BY <1>15, <1>9, <1>10, <1>11 DEF Preparation, Assess, PreparePacket
<1> QED
  BY <1>5, <1>10, <1>11, <1>12, <1>13, <1>14, <1>15
  DEF Next, ApplyMessage, Midnight, vars

LEMMA NextQueued ==
  ASSUME Inv, QueuedIsUnattempted, [Next]_vars
  PROVE  QueuedIsUnattempted'
<1> USE DEF Inv
<1>1. ASSUME NEW p \in Apps, outbox'[p].state = "pending"
      PROVE  outbox[p].state = "pending" \/ Unresolved(p) = {}
  BY <1>1, OnlyQueueApplication, ReadyIsFresh DEF QueueApplication
<1>2. ASSUME NEW p \in Apps, outbox'[p].state = "pending"
      PROVE  Unresolved(p)' \subseteq Unresolved(p)
  <2>1. ASSUME NEW w \in Workers, Dispatcher(w) \/ Crash(w)
        PROVE  Unresolved(p)' \subseteq Unresolved(p)
    <3>1. ASSUME NEW a \in Attempts, NEW route \in Routes,
                 StartDispatch(w, a, route)
          PROVE  Unresolved(p)' \subseteq Unresolved(p)
      <4>1. worker[w].app # p
        BY <1>2, <3>1 DEF StartDispatch, TypeOK, OutboxRows
      <4> QED
        BY <3>1, <4>1 DEF StartDispatch, Unresolved, AttemptsOf, TypeOK
    <3>2. ASSUME NEW a \in Attempts, attempt[a].outcome = "none",
                 attempt' = [attempt EXCEPT ![a].outcome = worker[w].outcome]
          PROVE  Unresolved(p)' \subseteq Unresolved(p)
      <4>1. \A b \in Attempts :
              /\ attempt'[b].app = attempt[b].app
              /\ attempt'[b].waived = attempt[b].waived
              /\ b # a => attempt'[b].outcome = attempt[b].outcome
        BY <3>2 DEF TypeOK, AttemptRows
      <4> QED
        BY <3>2, <4>1 DEF Unresolved, AttemptsOf
    <3>3. CASE UNCHANGED attempt
      BY <3>3 DEF Unresolved, AttemptsOf
    <3> QED
      BY <2>1, <3>1, <3>2, <3>3, DispatcherAttempts
  <2>2. CASE ~ \E w \in Workers : Dispatcher(w) \/ Crash(w)
    BY <2>2, OtherAttempts
    DEF OnlyMarked, NoneWaived, AllWaived, Unresolved, AttemptsOf
  <2> QED
    BY <2>1, <2>2
<1> QED
  BY <1>1, <1>2 DEF QueuedIsUnattempted

\* An application is never queued while one of its attempts may have had an
\* effect the owner has not accepted the risk of repeating.
THEOREM QueuedIsUnattemptedHolds == Spec => []QueuedIsUnattempted
<1>1. Init => QueuedIsUnattempted
  BY DEF Init, QueuedIsUnattempted
<1>2. Inv /\ QueuedIsUnattempted /\ [Next]_vars => QueuedIsUnattempted'
  BY NextQueued
<1> QED
  BY <1>1, <1>2, InvHolds, PTL DEF Spec
-----------------------------------------------------------------------------
(* Packets and shown states *)

\* What most steps do to an application: its packet stays and does not become
\* usable, a receipt is kept, and no state that speaks of a submission is
\* entered without one.
Plain(p) ==
  /\ application'[p].packet = application[p].packet
  /\ application'[p].usable => application[p].usable
  /\ application[p].receipt => application'[p].receipt
  /\ application'[p].state = "sent_unconfirmed"
       => application[p].state = "sent_unconfirmed"
  /\ application'[p].state = "submitted_confirmed"
       => application[p].state = "submitted_confirmed" \/ application'[p].receipt

\* The three steps that do more.
Settled(p) ==
  /\ application'[p].packet = application[p].packet
  /\ application'[p].usable = application[p].usable
  /\ application'[p].receipt = application[p].receipt
  /\ \/ \E w \in Workers : RecordResult(w) /\ worker[w].app = p
     \/ \E r \in Reconcilers : /\ ReconcileFound(r) /\ lookup[r].app = p
                               /\ application'[p].state = "submitted_confirmed"
                                    => application[p].state = "submitted_confirmed"

Prepared(p) ==
  /\ application'[p].packet = application[p].packet + 1
  /\ application'[p].receipt = application[p].receipt
  /\ application'[p].state \notin {"sent_unconfirmed", "submitted_confirmed"}

LEMMA ApplicationStep ==
  ASSUME TypeOK, [Next]_vars, NEW p \in Apps
  PROVE  Plain(p) \/ Settled(p) \/ Prepared(p)
<1> USE DEF TypeOK, ApplicationRows, Plain
<1>1. ASSUME NEW w \in Workers, NEW a \in Attempts, NEW route \in Routes,
             StartDispatch(w, a, route)
      PROVE  Plain(p)
  BY <1>1 DEF StartDispatch
<1>2. ASSUME NEW q \in Apps, RecoverInflight(q) PROVE Plain(p)
  BY <1>2 DEF RecoverInflight
<1>3. ASSUME NEW r \in Reconcilers, ReconcileMissing(r) PROVE Plain(p)
  BY <1>3 DEF ReconcileMissing
<1>4. ASSUME NEW q \in Apps, ConfirmReceipt(q) PROVE Plain(p)
  BY <1>4 DEF ConfirmReceipt
<1>5. ASSUME NEW q \in Apps, AuthorizeRetry(q) PROVE Plain(p)
  BY <1>5 DEF AuthorizeRetry
<1>6. ASSUME NEW q \in Apps, ManualSubmission(q) PROVE Plain(p)
  BY <1>6 DEF ManualSubmission
<1>7. ASSUME NEW q \in Apps, NEW s \in Handled, ApplicationState(q, s)
      PROVE  Plain(p)
  BY <1>7 DEF ApplicationState, Handled
<1>8. ASSUME NEW q \in Apps, NEW reason \in TaskReasons, ResolveTask(q, reason)
      PROVE  Plain(p)
  BY <1>8 DEF ResolveTask
<1>9. ASSUME NEW q \in Apps, UploadDocument(q) PROVE Plain(p)
  BY <1>9 DEF UploadDocument
<1>10. ASSUME NEW q \in Apps, QueueApplication(q) PROVE Plain(p)
  BY <1>10 DEF QueueApplication
<1>11. ASSUME NEW q \in Apps, NEW s \in {"skipped", "needs_human", "drafting"},
             Assess(q, s)
      PROVE  Plain(p)
  BY <1>11 DEF Assess
<1>12. ASSUME NEW ps, Invalidate(ps) PROVE Plain(p)
  BY <1>12 DEF Invalidate
<1>13. ASSUME NEW q \in Apps, NEW kind \in ReplyKinds, ApplyMessage(q, kind)
      PROVE  Plain(p)
  BY <1>13 DEF ApplyMessage
<1>14. ASSUME NEW w \in Workers, RecordResult(w)
       PROVE  Plain(p) \/ Settled(p)
  <2>1. CASE worker[w].app # p
    BY <1>14, <2>1 DEF RecordResult
  <2>2. CASE worker[w].app = p
    <3>1. /\ application'[p].packet = application[p].packet
          /\ application'[p].usable = application[p].usable
          /\ application'[p].receipt = application[p].receipt
      BY <1>14, <2>2 DEF RecordResult
    <3> QED
      BY <1>14, <2>2, <3>1 DEF Settled
  <2> QED
    BY <2>1, <2>2
<1>15. ASSUME NEW r \in Reconcilers, ReconcileFound(r)
       PROVE  Plain(p) \/ Settled(p)
  BY <1>15 DEF ReconcileFound, Settled
<1>16. ASSUME NEW q \in Apps, NEW valid \in BOOLEAN, NEW stale \in BOOLEAN,
              PreparePacket(q, valid, stale)
       PROVE  Plain(p) \/ Prepared(p)
  BY <1>16 DEF PreparePacket, Prepared
<1>17. CASE application' = application
  BY <1>17
<1>18. ASSUME NEW w \in Workers, Dispatcher(w) \/ Crash(w)
       PROVE  Plain(p) \/ Settled(p)
  BY <1>18, <1>1, <1>14, <1>17
  DEF Dispatcher, ChoosePending, RefuseDispatch, PassGate, StopBeforeRequest,
      Request, Crash
<1>19. ASSUME NEW r \in Reconcilers, Reconciler(r)
       PROVE  Plain(p) \/ Settled(p)
  BY <1>19, <1>3, <1>15, <1>17 DEF Reconciler, LookupSent
<1>20. ASSUME NEW q \in Apps, Owner(q) PROVE Plain(p)
  BY <1>20, <1>4, <1>5, <1>6, <1>7, <1>8, <1>9 DEF Owner
<1>21. ASSUME NEW q \in Apps, Preparation(q) PROVE Plain(p) \/ Prepared(p)
  BY <1>21, <1>10, <1>11, <1>12, <1>16 DEF Preparation
<1> QED
  BY <1>2, <1>12, <1>13, <1>17, <1>18, <1>19, <1>20, <1>21
  DEF Next, Midnight, vars

\* Packets are numbered in order, so an attempt was built from the packet its
\* application points at or from an earlier one.
PacketInv ==
  \A p \in Apps : \A a \in AttemptsOf(p) :
    attempt[a].packet <= application[p].packet

\* An attempt keeps the packet it was built from and is waived only when the
\* application's packet becomes unusable; a new one takes the current packet.
BuiltFrom(a, p) ==
  \/ /\ attempt[a].app = p
     /\ attempt'[a].packet = attempt[a].packet
     /\ (attempt'[a].waived => attempt[a].waived) \/ ~application'[p].usable
  \/ /\ attempt'[a].packet = application'[p].packet
     /\ ~attempt'[a].waived

LEMMA PacketsAreNumbers ==
  ASSUME TypeOK
  PROVE  /\ \A p \in Apps : application[p].packet \in Nat
         /\ \A a \in Attempts : attempt[a].packet \in Nat
  BY BoundsAssumption DEF TypeOK, ApplicationRows, AttemptRows

LEMMA NextPacket ==
  ASSUME Inv, Inv', PacketInv, WaivedCannotPass, [Next]_vars
  PROVE  PacketInv' /\ WaivedCannotPass'
<1> USE DEF Inv
<1>1. ASSUME NEW p \in Apps
      PROVE  /\ application'[p].packet >= application[p].packet
             /\ \/ application'[p].packet > application[p].packet
                \/ /\ application'[p].packet = application[p].packet
                   /\ application'[p].usable => application[p].usable
  BY ApplicationStep, PacketsAreNumbers DEF Plain, Settled, Prepared
<1>2. ASSUME NEW a \in Attempts, NEW p \in Apps, attempt'[a].app = p
      PROVE  BuiltFrom(a, p)
  <2> USE DEF BuiltFrom
  <2>1. ASSUME NEW w \in Workers, NEW b \in Attempts, NEW route \in Routes,
               StartDispatch(w, b, route)
        PROVE  BuiltFrom(a, p)
    <3>1. CASE a = b
      BY <1>2, <2>1, <3>1
      DEF StartDispatch, TypeOK, ApplicationRows, AttemptRows
    <3>2. CASE a # b
      BY <1>2, <2>1, <3>2 DEF StartDispatch, TypeOK
    <3> QED
      BY <3>1, <3>2
  <2>2. ASSUME NEW w \in Workers, NEW b \in Attempts,
               attempt' = [attempt EXCEPT ![b].outcome = worker[w].outcome]
        PROVE  BuiltFrom(a, p)
    BY <1>2, <2>2 DEF TypeOK, AttemptRows
  <2>3. CASE attempt' = attempt
    BY <1>2, <2>3
  <2>4. ASSUME NEW w \in Workers, Dispatcher(w) \/ Crash(w)
        PROVE  BuiltFrom(a, p)
    BY <2>1, <2>2, <2>3, <2>4, DispatcherAttempts
  <2>5. CASE ~ \E w \in Workers : Dispatcher(w) \/ Crash(w)
    <3>1. ASSUME AuthorizeRetry(p) PROVE ~application'[p].usable
      BY <3>1 DEF AuthorizeRetry, TypeOK, ApplicationRows
    <3>2. /\ OnlyMarked
          /\ NoneWaived \/ \E q \in Apps : AuthorizeRetry(q) /\ AllWaived(q)
      BY <2>5, OtherAttempts
    <3>3. attempt[a].app = p /\ attempt'[a].packet = attempt[a].packet
      BY <1>2, <3>2 DEF OnlyMarked
    <3>4. (attempt'[a].waived => attempt[a].waived) \/ AuthorizeRetry(p)
      BY <3>2, <3>3 DEF NoneWaived, AllWaived
    <3> QED
      BY <3>1, <3>3, <3>4
  <2> QED
    BY <2>4, <2>5
<1>3. \A p \in Apps : /\ application[p].packet \in Nat
                      /\ application'[p].packet \in Nat
  BY PacketsAreNumbers, BoundsAssumption DEF TypeOK, ApplicationRows
<1>4. \A a \in Attempts : attempt[a].packet \in Nat
  BY PacketsAreNumbers
<1>5. PacketInv'
  BY <1>1, <1>2, <1>3, <1>4 DEF BuiltFrom, PacketInv, AttemptsOf
<1>6. WaivedCannotPass'
  BY <1>1, <1>2, <1>3, <1>4
  DEF BuiltFrom, PacketInv, WaivedCannotPass, AttemptsOf
<1> QED
  BY <1>5, <1>6

\* Once the owner has approved a retry, the attempts it was approved for can
\* never pass the final gate, however late their dispatch reaches it.
THEOREM WaivedCannotPassHolds == Spec => []WaivedCannotPass
<1>1. Init => PacketInv /\ WaivedCannotPass
  BY NoAppAssumption DEF Init, PacketInv, WaivedCannotPass, AttemptsOf
<1>2. Inv /\ Inv' /\ PacketInv /\ WaivedCannotPass /\ [Next]_vars
        => PacketInv' /\ WaivedCannotPass'
  BY NextPacket
<1> QED
  BY <1>1, <1>2, InvHolds, PTL DEF Spec

\* An accepted attempt stays accepted, with its application and its route.
LEMMA AcceptedIsKept ==
  ASSUME Inv, [Next]_vars, NEW a \in Attempts, attempt[a].outcome = "accepted"
  PROVE  /\ attempt'[a].outcome = "accepted"
         /\ attempt'[a].app = attempt[a].app
         /\ attempt'[a].route = attempt[a].route
<1> USE DEF Inv
<1>1. ASSUME NEW w \in Workers, NEW b \in Attempts, NEW route \in Routes,
             StartDispatch(w, b, route)
      PROVE  attempt'[a] = attempt[a]
  BY <1>1 DEF StartDispatch, InFlightInv, FreshInv, TypeOK
<1>2. ASSUME NEW w \in Workers, NEW b \in Attempts,
             attempt[b].outcome = "none",
             attempt' = [attempt EXCEPT ![b].outcome = worker[w].outcome]
      PROVE  attempt'[a] = attempt[a]
  BY <1>2 DEF TypeOK
<1>3. ASSUME NEW w \in Workers, Dispatcher(w) \/ Crash(w)
      PROVE  attempt'[a] = attempt[a]
  BY <1>1, <1>2, <1>3, DispatcherAttempts
<1>4. CASE ~ \E w \in Workers : Dispatcher(w) \/ Crash(w)
  BY <1>4, OtherAttempts DEF OnlyMarked
<1> QED
  BY <1>3, <1>4

\* What ShownStatusIsBacked says of one application.
Backed(p) ==
  /\ application[p].state = "sent_unconfirmed" => AttemptsOf(p) \cap sent # {}
  /\ application[p].state = "submitted_confirmed" =>
       \/ application[p].receipt
       \/ \E a \in AttemptsOf(p) : attempt[a].route = "browser"
                                   /\ attempt[a].outcome = "accepted"

LEMMA RecordedIsBacked ==
  ASSUME Inv, NEW w \in Workers, RecordResult(w), NEW p, p = worker[w].app
  PROVE  Backed(p)'
<1> DEFINE a == worker[w].attempt
           o == worker[w].outcome
<1>1. /\ p \in Apps /\ a \in Attempts /\ attempt[a].app = p
      /\ o \in {"accepted", "not_accepted", "uncertain"}
      /\ o = "accepted" => a \in sent
  BY DEF RecordResult, Inv, TypeOK, InFlightInv, WorkerInv, WorkerStates,
         Outcomes
<1>2. /\ attempt'[a].app = p /\ attempt'[a].route = attempt[a].route
      /\ attempt'[a].outcome = o /\ sent' = sent
  BY <1>1 DEF RecordResult, Inv, TypeOK, AttemptRows
<1>3. application'[p].state =
        CASE o = "not_accepted" -> "needs_human"
          [] o = "uncertain" -> "submission_uncertain"
          [] o = "accepted" /\ attempt[a].route = "browser"
             -> "submitted_confirmed"
          [] OTHER -> "sent_unconfirmed"
  BY <1>1 DEF RecordResult, Inv, TypeOK, ApplicationRows
<1>4. CASE o = "accepted" /\ attempt[a].route = "browser"
  <2>1. application'[p].state = "submitted_confirmed"
    BY <1>3, <1>4
  <2>2. \E b \in Attempts : /\ attempt'[b].app = p
                            /\ attempt'[b].route = "browser"
                            /\ attempt'[b].outcome = "accepted"
    BY <1>1, <1>2, <1>4
  <2> QED
    BY <2>1, <2>2 DEF Backed, AttemptsOf
<1>5. CASE o = "accepted" /\ attempt[a].route # "browser"
  <2>1. application'[p].state = "sent_unconfirmed"
    BY <1>3, <1>5
  <2>2. \E b \in Attempts : attempt'[b].app = p /\ b \in sent'
    BY <1>1, <1>2, <1>5
  <2> QED
    BY <2>1, <2>2 DEF Backed, AttemptsOf
<1>6. CASE o # "accepted"
  BY <1>1, <1>3, <1>6 DEF Backed
<1> QED
  BY <1>4, <1>5, <1>6

LEMMA NextBacked ==
  ASSUME Inv, [Next]_vars, NEW p \in Apps, Backed(p)
  PROVE  Backed(p)'
<1> USE DEF Inv
<1>1. \A a \in Attempts : /\ a \in AttemptsOf(p) \cap sent =>
                               attempt'[a].app = p /\ a \in sent'
  BY SentGrows DEF AttemptsOf
<1>2. ASSUME NEW a \in AttemptsOf(p), attempt[a].outcome = "accepted"
      PROVE  /\ attempt'[a].app = p /\ attempt'[a].outcome = "accepted"
             /\ attempt'[a].route = attempt[a].route
  BY <1>2, AcceptedIsKept DEF AttemptsOf
<1>3. AttemptsOf(p) \cap sent # {} => (AttemptsOf(p) \cap sent)' # {}
  BY <1>1 DEF AttemptsOf
<1>4. ASSUME application'[p].state = "submitted_confirmed"
               => application[p].state = "submitted_confirmed"
                  \/ application'[p].receipt,
             application[p].receipt => application'[p].receipt,
             application'[p].state = "sent_unconfirmed"
               => (AttemptsOf(p) \cap sent)' # {}
      PROVE  Backed(p)'
  BY <1>2, <1>4 DEF Backed, AttemptsOf
<1>5. CASE Plain(p)
  BY <1>3, <1>4, <1>5 DEF Plain, Backed
<1>6. ASSUME NEW r \in Reconcilers, ReconcileFound(r), lookup[r].app = p
      PROVE  AttemptsOf(p) \cap sent # {}
  <2>1. /\ lookup[r].found \in sent /\ lookup[r].found \in Attempts
        /\ attempt[lookup[r].found].app = p
    BY <1>6 DEF ReconcileFound, LookupInv, TypeOK
  <2> QED
    BY <2>1 DEF AttemptsOf
<1>7. CASE Settled(p)
  BY <1>3, <1>4, <1>6, <1>7, RecordedIsBacked DEF Settled
<1>8. CASE Prepared(p)
  BY <1>8 DEF Prepared, Backed
<1> QED
  BY <1>5, <1>7, <1>8, ApplicationStep

\* No application is shown as sent without an accepted request, or as
\* confirmed without a receipt, a report or a browser confirmation.
THEOREM ShownStatusIsBackedHolds == Spec => []ShownStatusIsBacked
<1>1. ShownStatusIsBacked <=> \A p \in Apps : Backed(p)
  BY DEF ShownStatusIsBacked, Backed
<1>2. Init => \A p \in Apps : Backed(p)
  BY DEF Init, Backed
<1>3. Inv /\ [Next]_vars /\ (\A p \in Apps : Backed(p))
        => (\A p \in Apps : Backed(p))'
  BY NextBacked
<1> QED
  BY <1>1, <1>2, <1>3, InvHolds, PTL DEF Spec

-----------------------------------------------------------------------------
(* The daily cap *)

\* The attempts counted for a quota day.
Day(d) == {a \in Attempts : attempt[a].app # NoApp /\ attempt[a].day = d}

\* READY before an attempt exists means that today still has a slot.
LEMMA ReadyHasSlot ==
  ASSUME NEW p \in Apps, "ready" \in Dispositions(p, NoAttempt)
  PROVE  Cardinality(Day(today)) < DailyCap
  BY DEF Dispositions, SlotLeft, UsedToday, Day

LEMMA NextQuota ==
  ASSUME Inv, QuotaRespected, [Next]_vars
  PROVE  QuotaRespected'
<1> SUFFICES ASSUME NEW d \in 0..MaxDay
             PROVE  Cardinality(Day(d)') <= DailyCap
  BY DEF QuotaRespected, Day
<1>1. Cardinality(Day(d)) <= DailyCap
  BY DEF QuotaRespected, Day
<1>2. ASSUME NEW w \in Workers, NEW a \in Attempts, NEW route \in Routes,
             StartDispatch(w, a, route)
      PROVE  Cardinality(Day(d)') <= DailyCap
  <2>1. /\ attempt[a].app = NoApp /\ worker[w].app \in Apps
        /\ "ready" \in Dispositions(worker[w].app, NoAttempt)
        /\ attempt'[a].app = worker[w].app /\ attempt'[a].day = today
        /\ \A b \in Attempts \ {a} : attempt'[b] = attempt[b]
    BY <1>2 DEF StartDispatch, Inv, InFlightInv, WorkerInv, TypeOK
  <2>2. CASE d = today
    <3>1. Day(d)' = Day(d) \cup {a} /\ a \notin Day(d)
      BY <2>1, <2>2, NoAppAssumption DEF Day
    <3>2. IsFiniteSet(Day(d))
      BY AttemptsAssumption, FS_Subset DEF Day
    <3>3. Cardinality(Day(d)') = Cardinality(Day(d)) + 1
      BY <3>1, <3>2, FS_AddElement
    <3>4. Cardinality(Day(d)) < DailyCap
      BY <2>1, <2>2, ReadyHasSlot
    <3>5. Cardinality(Day(d)) \in Nat
      BY <3>2, FS_CardinalityType
    <3> QED
      BY <3>3, <3>4, <3>5, BoundsAssumption
  <2>3. CASE d # today
    <3>1. Day(d)' = Day(d)
      BY <2>1, <2>3 DEF Day
    <3> QED
      BY <1>1, <3>1
  <2> QED
    BY <2>2, <2>3
<1>3. ASSUME \A a \in Attempts : /\ attempt'[a].app = attempt[a].app
                                 /\ attempt'[a].day = attempt[a].day
      PROVE  Cardinality(Day(d)') <= DailyCap
  <2>1. Day(d)' = Day(d)
    BY <1>3 DEF Day
  <2> QED
    BY <1>1, <2>1
<1>4. ASSUME NEW w \in Workers, Dispatcher(w) \/ Crash(w)
      PROVE  Cardinality(Day(d)') <= DailyCap
  <2>1. ASSUME NEW b \in Attempts,
               attempt' = [attempt EXCEPT ![b].outcome = worker[w].outcome]
        PROVE  Cardinality(Day(d)') <= DailyCap
    BY <2>1, <1>3 DEF Inv, TypeOK, AttemptRows
  <2>2. CASE UNCHANGED attempt
    BY <2>2, <1>3
  <2> QED
    BY <1>2, <1>4, <2>1, <2>2, DispatcherAttempts DEF Inv
<1>5. CASE ~ \E w \in Workers : Dispatcher(w) \/ Crash(w)
  BY <1>3, <1>5, OtherAttempts DEF OnlyMarked, Inv
<1> QED
  BY <1>4, <1>5

\* However many applications, dispatchers and interruptions there are, no
\* quota day counts more attempts than the cap.
THEOREM QuotaRespectedHolds == Spec => []QuotaRespected
<1>1. Init => QuotaRespected
  <2>1. ASSUME Init, NEW d \in 0..MaxDay PROVE Day(d) = {}
    BY <2>1 DEF Init, Day
  <2> QED
    <3>1. ASSUME Init, NEW d \in 0..MaxDay
          PROVE  Cardinality(Day(d)) <= DailyCap
      BY <2>1, <3>1, FS_EmptySet, BoundsAssumption
    <3> QED
      BY <3>1 DEF QuotaRespected, Day
<1>2. Inv /\ QuotaRespected /\ [Next]_vars => QuotaRespected'
  BY NextQuota
<1> QED
  BY <1>1, <1>2, InvHolds, PTL DEF Spec
=============================================================================
