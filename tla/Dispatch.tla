------------------------------ MODULE Dispatch ------------------------------
(***************************************************************************)
(* The application-effect dispatcher of Opportunity Autopilot              *)
(* (app/applications/dispatch.py), together with every other writer of an  *)
(* application's state: reconciliation against Sent Mail, replies, the     *)
(* owner's decisions, reassessment, packet preparation and invalidation.   *)
(*                                                                         *)
(* Each `with db.write()` block of the code is one atomic action, because  *)
(* app/db.py serialises them (BEGIN IMMEDIATE or an advisory lock).        *)
(* Everything between two blocks interleaves.  Provider calls, reads that  *)
(* are used later and crashes are steps of their own.                      *)
(***************************************************************************)
EXTENDS Naturals, FiniteSets

CONSTANTS
  Apps,         \* applications
  Attempts,     \* identities of submission_attempts rows, each used once
  Workers,      \* threads that may run dispatch_next at the same time
  Reconcilers,  \* threads that may run reconcile_application
  Routes,       \* routes an opportunity may have when dispatch starts
  NoApp, NoAttempt,
  DailyCap,     \* min(control.daily_cap, policy.daily_cap)
  MaxPackets,   \* bound: packets an application ever points at
  MaxDay,       \* bound: midnights that pass
  MaxCrashes,   \* bound: worker processes lost
  Overrun       \* TRUE: a dispatch may outlive the 300 s recovery window

ASSUME NoAppAssumption == NoApp \notin Apps
ASSUME NoAttemptAssumption == NoAttempt \notin Attempts
ASSUME RoutesAssumption == Routes \subseteq {"email", "browser"}
ASSUME AttemptsAssumption == IsFiniteSet(Attempts)
ASSUME BoundsAssumption ==
  /\ DailyCap \in Nat /\ MaxPackets \in Nat /\ MaxDay \in Nat
  /\ MaxCrashes \in Nat /\ Overrun \in BOOLEAN

VARIABLES
  application,  \* rows of applications, with the facts the audit log keeps
  outbox,       \* the outbox event submit:{application} of each application
  attempt,      \* rows of submission_attempts, with their audit events
  sent,         \* attempts whose request the provider accepted
  worker,       \* local state of each dispatch_next call
  lookup,       \* local state of each reconcile_application call
  today,        \* the quota day, Africa/Casablanca
  crashes

vars == <<application, outbox, attempt, sent, worker, lookup, today, crashes>>

-----------------------------------------------------------------------------
\* The states a row can be in.

Preserved == {"submitting", "submission_uncertain", "sent_unconfirmed",
              "submitted_confirmed", "interview", "offer", "rejected",
              "withdrawn"}
Handled == {"interview", "offer", "rejected", "withdrawn", "skipped"}
Drafts == {"discovered", "assessing", "drafting", "needs_human", "ready"}
AppStates == Preserved \cup Handled \cup Drafts

OutboxStates == {"none", "pending", "dispatching", "uncertain", "done",
                 "failed_safe", "cancelled"}
Outcomes == {"none", "accepted", "not_accepted", "uncertain"}
SubmissionReasons == {"submission_uncertain", "provider_not_accepted"}
TaskReasons == SubmissionReasons \cup {"email_bounced"}
ReplyKinds == {"email_bounced", "interview_invitation", "rejection_received",
               "submission_confirmed"}

Idle == [pc |-> "idle", app |-> NoApp, attempt |-> NoAttempt,
         outcome |-> "none"]
NotLooking == [pc |-> "idle", app |-> NoApp, found |-> NoAttempt,
               tried |-> FALSE]

Init ==
  /\ application = [p \in Apps |->
       [state |-> "discovered", evidence |-> FALSE, receipt |-> FALSE,
        packet |-> 0, usable |-> FALSE, tasks |-> {}]]
  /\ outbox = [p \in Apps |-> [state |-> "none", attempt |-> NoAttempt]]
  /\ attempt = [a \in Attempts |->
       [app |-> NoApp, route |-> "email", packet |-> 0, day |-> 0,
        outcome |-> "none", reconciled |-> FALSE, waived |-> FALSE]]
  /\ sent = {}
  /\ worker = [w \in Workers |-> Idle]
  /\ lookup = [r \in Reconcilers |-> NotLooking]
  /\ today = 0
  /\ crashes = 0

-----------------------------------------------------------------------------
\* What a transaction reads: history, quota, the disposition of the gates.

AttemptsOf(p) == {a \in Attempts : attempt[a].app = p}

KnownAccepted(a) == attempt[a].outcome = "accepted" \/ attempt[a].reconciled

\* Attempts submission_history still counts, the attempt being gated aside.
Counted(p, ignored) ==
  {a \in AttemptsOf(p) : ~attempt[a].waived /\ a # ignored}

HistoryOfState(p, ignored) ==
  LET s == application[p].state
  IN  IF ignored # NoAttempt /\ s = "submitting" THEN "none"
      ELSE IF s = "sent_unconfirmed" THEN "sent"
      ELSE IF s = "submitted_confirmed" THEN "confirmed"
      ELSE IF s \in {"submitting", "submission_uncertain"} THEN "uncertain"
      ELSE "none"

History(p, ignored) ==
  IF application[p].evidence \/ application[p].receipt THEN "confirmed"
  ELSE IF \E a \in Counted(p, ignored) : KnownAccepted(a) THEN "sent"
  ELSE IF \E a \in Counted(p, ignored) : attempt[a].outcome # "not_accepted"
       THEN "uncertain"
  ELSE HistoryOfState(p, ignored)

UsedToday == Cardinality({a \in Attempts : attempt[a].app # NoApp
                                           /\ attempt[a].day = today})

\* Fault: off by one at the cap.
SlotLeftOffByOne(current) == UsedToday <= DailyCap

\* remaining = cap - attempts_today + int(current_attempt is not None)
SlotLeft(current) == IF current = NoAttempt THEN UsedToday < DailyCap
                                            ELSE UsedToday < DailyCap + 1

\* The dispositions evaluate_application can give p.  The gates that are not
\* modelled here (live switch, listing, deadline, eligibility, policy, pause,
\* budget, connection, freshness) read facts that change between any two
\* transactions, so once history is clear they may refuse at any time.
Dispositions(p, current) ==
  IF application[p].state \in Handled THEN {"skip"}
  ELSE LET h == History(p, current)
       IN  IF h \in {"sent", "confirmed"} THEN {"skip"}
           ELSE IF h = "uncertain" THEN {"needs_human"}
           ELSE {"skip", "hold", "needs_human"} \cup
                (IF /\ application[p].usable
                    /\ application[p].tasks = {}
                    /\ SlotLeft(current)
                 THEN {"ready"} ELSE {})

Keeps(p) == application[p].state \in Preserved \/ application[p].evidence

WithSubmissionTask(tasks, reason) == (tasks \ SubmissionReasons) \cup {reason}

-----------------------------------------------------------------------------
\* queue_application and dispatch_next.

\* POST /applications/{id}/queue and the queue_ready job.
QueueApplication(p) ==
  /\ "ready" \in Dispositions(p, NoAttempt)
  /\ outbox[p].state \in {"none", "cancelled", "failed_safe"}
  /\ outbox' = [outbox EXCEPT ![p] = [state |-> "pending",
                                      attempt |-> NoAttempt]]
  /\ application' = [application EXCEPT ![p].state = "ready"]
  /\ UNCHANGED <<attempt, sent, worker, lookup, today, crashes>>

\* The read transaction: a pending event is chosen, and may be stale when used.
ChoosePending(w, p) ==
  /\ worker[w].pc = "idle"
  /\ outbox[p].state = "pending"
  /\ worker' = [worker EXCEPT ![w] = [Idle EXCEPT !.pc = "chosen",
                                                  !.app = p]]
  /\ UNCHANGED <<application, outbox, attempt, sent, lookup, today, crashes>>

\* Fault: a decision of SKIP leaves the event pending.
RefuseDispatchKeepsSkipped(w) ==
  /\ worker[w].pc = "chosen"
  /\ \/ outbox[worker[w].app].state # "pending"
     \/ "ready" \notin Dispositions(worker[w].app, NoAttempt)
  /\ worker' = [worker EXCEPT ![w] = Idle]
  /\ UNCHANGED <<application, outbox, attempt, sent, lookup, today, crashes>>

\* The write transaction ends without an attempt: the event is no longer
\* pending, or the decision is not READY; SKIP cancels the event.
RefuseDispatch(w) ==
  LET p == worker[w].app
  IN  /\ worker[w].pc = "chosen"
      /\ \/ /\ outbox[p].state # "pending"
            /\ UNCHANGED outbox
         \/ /\ outbox[p].state = "pending"
            /\ "skip" \in Dispositions(p, NoAttempt)
            /\ outbox' = [outbox EXCEPT ![p].state = "cancelled"]
         \/ /\ outbox[p].state = "pending"
            /\ Dispositions(p, NoAttempt) \cap {"hold", "needs_human"} # {}
            /\ UNCHANGED outbox
      /\ worker' = [worker EXCEPT ![w] = Idle]
      /\ UNCHANGED <<application, attempt, sent, lookup, today, crashes>>

\* The write transaction persists the attempt before any provider contact.
StartDispatch(w, a, route) ==
  LET p == worker[w].app
  IN  /\ worker[w].pc = "chosen"
      /\ outbox[p].state = "pending"
      /\ "ready" \in Dispositions(p, NoAttempt)
      /\ attempt[a].app = NoApp
      /\ attempt' = [attempt EXCEPT ![a] =
           [app |-> p, route |-> route, packet |-> application[p].packet,
            day |-> today, outcome |-> "none", reconciled |-> FALSE,
            waived |-> FALSE]]
      /\ outbox' = [outbox EXCEPT ![p] = [state |-> "dispatching",
                                          attempt |-> a]]
      /\ application' = [application EXCEPT ![p].state = "submitting"]
      /\ worker' = [worker EXCEPT ![w] = [pc |-> "started", app |-> p,
                                          attempt |-> a, outcome |-> "none"]]
      /\ UNCHANGED <<sent, lookup, today, crashes>>

\* final_effect_gate
FinalGate(w) ==
  LET p == worker[w].app
      a == worker[w].attempt
  IN  /\ outbox[p] = [state |-> "dispatching", attempt |-> a]
      /\ "ready" \in Dispositions(p, a)
      /\ application[p].packet = attempt[a].packet

\* An email passes the gate before credentials are fetched and once more
\* right before the request; a browser form passes it at the POST only.
PassGate(w) ==
  /\ worker[w].pc \in {"started", "credentials"}
  /\ FinalGate(w)
  /\ worker' = [worker EXCEPT ![w].pc =
       IF @ = "started" /\ attempt[worker[w].attempt].route = "email"
       THEN "credentials" ELSE "cleared"]
  /\ UNCHANGED <<application, outbox, attempt, sent, lookup, today, crashes>>

\* DefinitiveRejection before the request: a gate refuses, credentials are
\* missing, the form changed.  Other exceptions before the request (no
\* provider, a soft time limit) are reported as uncertain.
StopBeforeRequest(w, outcome) ==
  /\ worker[w].pc \in {"started", "credentials"}
  /\ outcome \in {"not_accepted", "uncertain"}
  /\ worker' = [worker EXCEPT ![w].pc = "returned", ![w].outcome = outcome]
  /\ UNCHANGED <<application, outbox, attempt, sent, lookup, today, crashes>>

\* Fault: a lost answer is taken for a definitive rejection.
RequestLostIsRejected(w, accepted, outcome) ==
  LET a == worker[w].attempt
  IN  /\ worker[w].pc = "cleared"
      /\ IF accepted THEN outcome \in {"accepted", "not_accepted"}
                     ELSE outcome = "not_accepted"
      /\ sent' = IF accepted THEN sent \cup {a} ELSE sent
      /\ worker' = [worker EXCEPT ![w].pc = "returned",
                                  ![w].outcome = outcome]
      /\ UNCHANGED <<application, outbox, attempt, lookup, today, crashes>>

\* The external request and what the caller learns of it.
Request(w, accepted, outcome) ==
  LET a == worker[w].attempt
  IN  /\ worker[w].pc = "cleared"
      /\ \/ accepted /\ outcome \in {"accepted", "uncertain"}
         \/ ~accepted /\ outcome = "uncertain"
         \/ ~accepted /\ outcome = "not_accepted" /\ attempt[a].route = "email"
      /\ sent' = IF accepted THEN sent \cup {a} ELSE sent
      /\ worker' = [worker EXCEPT ![w].pc = "returned",
                                  ![w].outcome = outcome]
      /\ UNCHANGED <<application, outbox, attempt, lookup, today, crashes>>

\* Fault: a request without an answer is shown as sent.
RecordResultOptimistic(w) ==
  LET p == worker[w].app
      o == worker[w].outcome
  IN  /\ worker[w].pc = "returned"
      /\ application' = [application EXCEPT
           ![p].state = IF o = "not_accepted" THEN "needs_human"
                                              ELSE "sent_unconfirmed"]
      /\ outbox' = [outbox EXCEPT ![p].state =
           IF o = "not_accepted" THEN "failed_safe" ELSE "done"]
      /\ attempt' = [attempt EXCEPT ![worker[w].attempt].outcome = o]
      /\ worker' = [worker EXCEPT ![w] = Idle]
      /\ UNCHANGED <<sent, lookup, today, crashes>>

\* The last write transaction of dispatch_next, which reads nothing it wrote.
RecordResult(w) ==
  LET p == worker[w].app
      a == worker[w].attempt
      o == worker[w].outcome
      confirmed == o = "accepted" /\ attempt[a].route = "browser"
  IN  /\ worker[w].pc = "returned"
      /\ application' = [application EXCEPT
           ![p].state = CASE o = "not_accepted" -> "needs_human"
                          [] o = "uncertain" -> "submission_uncertain"
                          [] confirmed -> "submitted_confirmed"
                          [] OTHER -> "sent_unconfirmed",
           ![p].evidence = IF o = "accepted" THEN confirmed ELSE @,
           ![p].tasks = CASE o = "accepted" -> @
                          [] o = "uncertain" ->
                             WithSubmissionTask(@, "submission_uncertain")
                          [] OTHER ->
                             WithSubmissionTask(@, "provider_not_accepted")]
      /\ outbox' = [outbox EXCEPT ![p].state =
           CASE o = "not_accepted" -> "failed_safe"
             [] o = "uncertain" -> "uncertain"
             [] OTHER -> "done"]
      /\ attempt' = [attempt EXCEPT ![a].outcome = o]
      /\ worker' = [worker EXCEPT ![w] = Idle]
      /\ UNCHANGED <<sent, lookup, today, crashes>>

\* The process dies: only what it committed is left.
Crash(w) ==
  /\ worker[w].pc # "idle"
  /\ crashes < MaxCrashes
  /\ crashes' = crashes + 1
  /\ worker' = [worker EXCEPT ![w] = Idle]
  /\ UNCHANGED <<application, outbox, attempt, sent, lookup, today>>

InFlight(a) == \E w \in Workers : worker[w].attempt = a

\* Fault: only applications still shown as submitting are recovered.
RecoverInflightSubmitting(p) ==
  /\ outbox[p].state = "dispatching"
  /\ application[p].state = "submitting"
  /\ Overrun \/ ~InFlight(outbox[p].attempt)
  /\ outbox' = [outbox EXCEPT ![p].state = "uncertain"]
  /\ application' = [application EXCEPT
       ![p].state = "submission_uncertain",
       ![p].tasks = WithSubmissionTask(@, "submission_uncertain")]
  /\ UNCHANGED <<attempt, sent, worker, lookup, today, crashes>>

\* Fault: the event of an interrupted dispatch is given back to the queue.
RecoverInflightRequeues(p) ==
  /\ outbox[p].state = "dispatching"
  /\ Overrun \/ ~InFlight(outbox[p].attempt)
  /\ outbox' = [outbox EXCEPT ![p].state = "pending"]
  /\ application' = [application EXCEPT ![p].state = "ready"]
  /\ UNCHANGED <<attempt, sent, worker, lookup, today, crashes>>

\* recover_inflight, run by every tick, on an event 300 s old.
RecoverInflight(p) ==
  /\ outbox[p].state = "dispatching"
  /\ Overrun \/ ~InFlight(outbox[p].attempt)
  /\ outbox' = [outbox EXCEPT ![p].state = "uncertain"]
  /\ application' = [application EXCEPT
       ![p].state = "submission_uncertain",
       ![p].tasks = WithSubmissionTask(@, "submission_uncertain")]
  /\ UNCHANGED <<attempt, sent, worker, lookup, today, crashes>>

-----------------------------------------------------------------------------
\* Reconciliation with Sent Mail, and replies.

\* The attempts are read, then Sent Mail is searched.  The search may miss a
\* message that was sent; only email leaves one.
LookupSent(r, p, found) ==
  /\ lookup[r].pc = "idle"
  /\ found \in {NoAttempt} \cup
       {a \in AttemptsOf(p) \cap sent : attempt[a].route = "email"}
  /\ lookup' = [lookup EXCEPT ![r] =
       [pc |-> "searched", app |-> p, found |-> found,
        tried |-> AttemptsOf(p) # {}]]
  /\ UNCHANGED <<application, outbox, attempt, sent, worker, today, crashes>>

\* Fault: an uncertain application is not promoted when proof is found.
ReconcileFoundLeavesUncertain(r) ==
  LET p == lookup[r].app
  IN  /\ lookup[r].pc = "searched"
      /\ lookup[r].found # NoAttempt
      /\ application' = [application EXCEPT
           ![p].state = IF @ = "submitting" THEN "sent_unconfirmed" ELSE @,
           ![p].tasks = @ \ SubmissionReasons]
      /\ attempt' = [attempt EXCEPT ![lookup[r].found].reconciled = TRUE]
      /\ outbox' = [outbox EXCEPT ![p].state =
           IF @ \in {"uncertain", "dispatching"} THEN "done" ELSE @]
      /\ lookup' = [lookup EXCEPT ![r] = NotLooking]
      /\ UNCHANGED <<sent, worker, today, crashes>>

ReconcileFound(r) ==
  LET p == lookup[r].app
      a == lookup[r].found
  IN  /\ lookup[r].pc = "searched"
      /\ a # NoAttempt
      /\ application' = [application EXCEPT
           ![p].state = IF @ \in {"submitting", "submission_uncertain",
                                  "needs_human", "ready"}
                        THEN "sent_unconfirmed" ELSE @,
           ![p].tasks = @ \ SubmissionReasons]
      /\ attempt' = [attempt EXCEPT ![a].reconciled = TRUE]
      /\ outbox' = [outbox EXCEPT ![p].state =
           IF @ \in {"uncertain", "dispatching"} THEN "done" ELSE @]
      /\ lookup' = [lookup EXCEPT ![r] = NotLooking]
      /\ UNCHANGED <<sent, worker, today, crashes>>

ReconcileMissing(r) ==
  LET p == lookup[r].app
  IN  /\ lookup[r].pc = "searched"
      /\ lookup[r].found = NoAttempt
      /\ IF /\ lookup[r].tried
            /\ application[p].state \in {"submitting", "submission_uncertain"}
         THEN application' = [application EXCEPT
                ![p].state = "submission_uncertain",
                ![p].tasks = WithSubmissionTask(@, "submission_uncertain")]
         ELSE UNCHANGED application
      /\ lookup' = [lookup EXCEPT ![r] = NotLooking]
      /\ UNCHANGED <<outbox, attempt, sent, worker, today, crashes>>

\* apply_message: a reply correlated by poll_mailbox, or one the owner
\* associates with this application, which may be any message.
ApplyMessage(p, kind) ==
  /\ application' = [application EXCEPT
       ![p].state = CASE kind = "interview_invitation" -> "interview"
                      [] kind = "rejection_received" -> "rejected"
                      [] /\ kind = "submission_confirmed"
                         /\ @ \notin Handled \ {"skipped"}
                         -> "submitted_confirmed"
                      [] OTHER -> @,
       ![p].evidence = @ \/ kind = "submission_confirmed",
       ![p].receipt = @ \/ kind = "submission_confirmed",
       ![p].tasks = IF kind = "email_bounced" THEN @ \cup {kind} ELSE @]
  /\ UNCHANGED <<outbox, attempt, sent, worker, lookup, today, crashes>>

-----------------------------------------------------------------------------
\* The owner's decisions.

\* owner_reconciliation, decision "confirm_receipt"
ConfirmReceipt(p) ==
  /\ application[p].state \in {"submission_uncertain", "sent_unconfirmed"}
  /\ AttemptsOf(p) # {}
  /\ application' = [application EXCEPT
       ![p].state = "submitted_confirmed", ![p].evidence = TRUE,
       ![p].receipt = TRUE, ![p].tasks = @ \ SubmissionReasons]
  /\ outbox' = [outbox EXCEPT ![p].state =
       IF @ \in {"pending", "uncertain"} THEN "done" ELSE @]
  /\ UNCHANGED <<attempt, sent, worker, lookup, today, crashes>>

\* Fault: an approved retry keeps the packet of the waived attempts.
AuthorizeRetryKeepsPacket(p) ==
  /\ application[p].state \in {"submission_uncertain", "sent_unconfirmed"}
  /\ AttemptsOf(p) # {}
  /\ History(p, NoAttempt) \notin {"sent", "confirmed"}
  /\ attempt' = [a \in Attempts |->
       [attempt[a] EXCEPT !.waived = @ \/ a \in AttemptsOf(p)]]
  /\ application' = [application EXCEPT
       ![p].state = "assessing", ![p].tasks = @ \ SubmissionReasons]
  /\ outbox' = [outbox EXCEPT ![p].state =
       IF @ \in {"pending", "uncertain"} THEN "cancelled" ELSE @]
  /\ UNCHANGED <<sent, worker, lookup, today, crashes>>

\* Fault: an approved retry clears the results instead of waiving them.
AuthorizeRetryClears(p) ==
  /\ application[p].state \in {"submission_uncertain", "sent_unconfirmed"}
  /\ AttemptsOf(p) # {}
  /\ attempt' = [a \in Attempts |->
       IF a \in AttemptsOf(p) THEN [attempt[a] EXCEPT !.outcome = "none"]
                              ELSE attempt[a]]
  /\ application' = [application EXCEPT
       ![p].state = "assessing", ![p].usable = FALSE, ![p].tasks = {}]
  /\ outbox' = [outbox EXCEPT ![p].state =
       IF @ \in {"pending", "uncertain"} THEN "cancelled" ELSE @]
  /\ UNCHANGED <<sent, worker, lookup, today, crashes>>

\* owner_reconciliation, decision "authorize_retry", the risk accepted.  The
\* state is "assessing" before invalidate() runs, so it stays "assessing".
AuthorizeRetry(p) ==
  /\ application[p].state \in {"submission_uncertain", "sent_unconfirmed"}
  /\ AttemptsOf(p) # {}
  /\ History(p, NoAttempt) \notin {"sent", "confirmed"}
  /\ attempt' = [a \in Attempts |->
       [attempt[a] EXCEPT !.waived = @ \/ a \in AttemptsOf(p)]]
  /\ application' = [application EXCEPT
       ![p].state = "assessing", ![p].usable = FALSE,
       ![p].tasks = @ \ SubmissionReasons]
  /\ outbox' = [outbox EXCEPT ![p].state =
       IF @ \in {"pending", "uncertain"} THEN "cancelled" ELSE @]
  /\ UNCHANGED <<sent, worker, lookup, today, crashes>>

\* manual_submission
ManualSubmission(p) ==
  /\ application[p].state \notin {"submitting", "sent_unconfirmed",
                                  "submission_uncertain"}
  /\ outbox' = [outbox EXCEPT ![p].state =
       IF @ = "pending" THEN "cancelled" ELSE @]
  /\ application' = [application EXCEPT
       ![p].state = "submitted_confirmed", ![p].evidence = TRUE,
       ![p].receipt = TRUE, ![p].tasks = {}]
  /\ UNCHANGED <<attempt, sent, worker, lookup, today, crashes>>

\* POST /applications/{id}/state
ApplicationState(p, s) ==
  /\ s \in Handled
  /\ application[p].state \notin {"submitting", "submission_uncertain"}
  /\ s = "skipped" => ~Keeps(p)
  /\ application' = [application EXCEPT ![p].state = s]
  /\ UNCHANGED <<outbox, attempt, sent, worker, lookup, today, crashes>>

\* resolve_task refuses a note as an answer to uncertainty.
ResolveTask(p, reason) ==
  /\ reason \in application[p].tasks \ {"submission_uncertain"}
  /\ application' = [application EXCEPT
       ![p].tasks = @ \ {reason},
       ![p].state = IF @ \in Preserved THEN @ ELSE "assessing"]
  /\ UNCHANGED <<outbox, attempt, sent, worker, lookup, today, crashes>>

-----------------------------------------------------------------------------
\* Preparation: assessment, packets and their invalidation.

\* assess_opportunity
Assess(p, s) ==
  /\ s \in {"skipped", "needs_human", "drafting"}
  /\ ~Keeps(p)
  /\ application' = [application EXCEPT ![p].state = s]
  /\ UNCHANGED <<outbox, attempt, sent, worker, lookup, today, crashes>>

\* The last transaction of prepare_packet.  A packet that is prepared while
\* the state is preserved is stored, but the application never points at it.
PreparePacket(p, valid, stale) ==
  /\ ~Keeps(p)
  /\ application[p].packet < MaxPackets
  /\ application' = [application EXCEPT
       ![p].packet = @ + 1,
       ![p].usable = valid /\ ~stale,
       ![p].state = IF valid THEN "drafting" ELSE "needs_human"]
  /\ UNCHANGED <<outbox, attempt, sent, worker, lookup, today, crashes>>

\* An owner upload stores a draft packet and leaves the packet pointer alone.
UploadDocument(p) ==
  /\ application[p].state \notin Preserved
  /\ application' = [application EXCEPT ![p].state = "drafting"]
  /\ UNCHANGED <<outbox, attempt, sent, worker, lookup, today, crashes>>

\* invalidate: a policy or profile change (every application) or a change of
\* one opportunity (its application).
Invalidate(ps) ==
  /\ ps = Apps \/ \E p \in Apps : ps = {p}
  /\ application' = [p \in Apps |->
       IF p \in ps
       THEN [application[p] EXCEPT
               !.usable = FALSE,
               !.state = IF Keeps(p) THEN @ ELSE "assessing"]
       ELSE application[p]]
  /\ outbox' = [p \in Apps |->
       IF p \in ps /\ outbox[p].state = "pending"
       THEN [outbox[p] EXCEPT !.state = "cancelled"] ELSE outbox[p]]
  /\ UNCHANGED <<attempt, sent, worker, lookup, today, crashes>>

Midnight ==
  /\ today < MaxDay
  /\ today' = today + 1
  /\ UNCHANGED <<application, outbox, attempt, sent, worker, lookup, crashes>>

-----------------------------------------------------------------------------
Dispatcher(w) ==
  \/ \E p \in Apps : ChoosePending(w, p)
  \/ RefuseDispatch(w)
  \/ \E a \in Attempts, route \in Routes : StartDispatch(w, a, route)
  \/ PassGate(w)
  \/ \E o \in Outcomes : StopBeforeRequest(w, o)
  \/ \E accepted \in BOOLEAN, o \in Outcomes : Request(w, accepted, o)
  \/ RecordResult(w)

Reconciler(r) ==
  \/ \E p \in Apps, found \in Attempts \cup {NoAttempt} :
       LookupSent(r, p, found)
  \/ ReconcileFound(r)
  \/ ReconcileMissing(r)

Owner(p) ==
  \/ ConfirmReceipt(p)
  \/ AuthorizeRetry(p)
  \/ ManualSubmission(p)
  \/ \E s \in Handled : ApplicationState(p, s)
  \/ \E reason \in TaskReasons : ResolveTask(p, reason)
  \/ UploadDocument(p)

Preparation(p) ==
  \/ QueueApplication(p)
  \/ \E s \in {"skipped", "needs_human", "drafting"} : Assess(p, s)
  \/ \E valid \in BOOLEAN, stale \in BOOLEAN : PreparePacket(p, valid, stale)
  \/ Invalidate({p})

Next ==
  \/ \E w \in Workers : Dispatcher(w) \/ Crash(w)
  \/ \E r \in Reconcilers : Reconciler(r)
  \/ \E p \in Apps : \/ RecoverInflight(p)
                     \/ Owner(p)
                     \/ Preparation(p)
                     \/ \E kind \in ReplyKinds : ApplyMessage(p, kind)
  \/ Invalidate(Apps)
  \/ Midnight

Spec == Init /\ [][Next]_vars

\* What the deployment schedules: beat or run_loop starts dispatch_next again
\* and again, every tick runs recover_inflight, and mailbox_maintenance looks
\* up every application left in submission_uncertain.
FindSent(r, p) ==
  \E a \in Attempts :
    application[p].state = "submission_uncertain" /\ LookupSent(r, p, a)

DispatchReturns(w) ==
  \/ RefuseDispatch(w)
  \/ \E a \in Attempts, route \in Routes : StartDispatch(w, a, route)
  \/ PassGate(w)
  \/ \E o \in Outcomes : StopBeforeRequest(w, o)
  \/ \E accepted \in BOOLEAN, o \in Outcomes : Request(w, accepted, o)
  \/ RecordResult(w)

Fairness ==
  /\ \A w \in Workers : WF_vars(DispatchReturns(w))
  /\ \A w \in Workers, p \in Apps : WF_vars(ChoosePending(w, p))
  /\ \A p \in Apps : WF_vars(RecoverInflight(p))
  /\ \A r \in Reconcilers : WF_vars(ReconcileFound(r) \/ ReconcileMissing(r))
  /\ \A p \in Apps : \E r \in Reconcilers : SF_vars(FindSent(r, p))

LiveSpec == Spec /\ Fairness

-----------------------------------------------------------------------------
(* Properties *)

\* The shapes of the rows and of the local states.
ApplicationRows == [state : AppStates, evidence : BOOLEAN, receipt : BOOLEAN,
                    packet : 0..MaxPackets, usable : BOOLEAN,
                    tasks : SUBSET TaskReasons]
OutboxRows == [state : OutboxStates, attempt : Attempts \cup {NoAttempt}]
AttemptRows == [app : Apps \cup {NoApp}, route : {"email", "browser"},
                packet : 0..MaxPackets, day : 0..MaxDay, outcome : Outcomes,
                reconciled : BOOLEAN, waived : BOOLEAN]
WorkerStates == [pc : {"idle", "chosen", "started", "credentials", "cleared",
                       "returned"},
                 app : Apps \cup {NoApp}, attempt : Attempts \cup {NoAttempt},
                 outcome : Outcomes]
LookupStates == [pc : {"idle", "searched"}, app : Apps \cup {NoApp},
                 found : Attempts \cup {NoAttempt}, tried : BOOLEAN]

\* Every variable keeps the shape the tables and local variables give it.
TypeOK ==
  /\ application \in [Apps -> ApplicationRows]
  /\ outbox \in [Apps -> OutboxRows]
  /\ attempt \in [Attempts -> AttemptRows]
  /\ sent \in SUBSET Attempts
  /\ worker \in [Workers -> WorkerStates]
  /\ lookup \in [Reconcilers -> LookupStates]
  /\ today \in 0..MaxDay
  /\ crashes \in 0..MaxCrashes

\* Attempts that may have had an effect and that the owner has not waived.
Unresolved(p) ==
  {a \in AttemptsOf(p) : ~attempt[a].waived
                         /\ attempt[a].outcome # "not_accepted"}

\* Two requests for one application are both accepted only if the owner has
\* approved a retry of one of them: no crash, timeout, late answer, requeue or
\* concurrent dispatcher sends a second application on its own.
NoUnapprovedDuplicate ==
  \A p \in Apps : \A a, b \in sent \cap AttemptsOf(p) :
    a = b \/ attempt[a].waived \/ attempt[b].waived

\* While an attempt is unresolved its application cannot be queued for another
\* one: a pending event never coexists with an attempt that may have been sent.
QueuedIsUnattempted ==
  \A p \in Apps : outbox[p].state = "pending" => Unresolved(p) = {}

\* A recorded "not accepted" is the truth about the provider, so the retry it
\* allows without the owner repeats nothing.
NotAcceptedIsUnsent ==
  \A a \in sent : attempt[a].outcome # "not_accepted"

\* An attempt whose retry was approved can never pass the final gate later: the
\* packet it was built from is unusable from then on, or was replaced.
WaivedCannotPass ==
  \A p \in Apps : \A a \in AttemptsOf(p) :
    attempt[a].waived /\ application[p].usable
      => application[p].packet # attempt[a].packet

\* "Sent, unconfirmed" is shown only when a provider accepted a request, and
\* "Submitted, confirmed" only when a receipt, an acknowledgment or the
\* owner's report is on record.
ShownStatusIsBacked ==
  \A p \in Apps :
    /\ application[p].state = "sent_unconfirmed" => AttemptsOf(p) \cap sent # {}
    /\ application[p].state = "submitted_confirmed" =>
         \/ application[p].receipt
         \/ \E a \in AttemptsOf(p) : attempt[a].route = "browser"
                                     /\ attempt[a].outcome = "accepted"

\* No quota day counts more attempts than the cap, however many dispatchers
\* run and whatever happens to the attempts.
QuotaRespected ==
  \A d \in 0..MaxDay :
    Cardinality({a \in Attempts : attempt[a].app # NoApp
                                  /\ attempt[a].day = d}) <= DailyCap

\* Nothing but the owner's approval withdraws the record of an attempt: its
\* result, once written, and the proof found in Sent Mail are never rewritten.
EvidenceIsKept ==
  [][\A a \in Attempts :
       /\ attempt[a].outcome # "none" => attempt'[a].outcome = attempt[a].outcome
       /\ attempt[a].reconciled => attempt'[a].reconciled
       /\ attempt[a].app # NoApp => attempt'[a].app = attempt[a].app]_vars

\* An interrupted dispatch does not stay in flight: its event leaves
\* "dispatching", by its own result, by reconciliation or by recovery.
DispatchSettles ==
  \A p \in Apps : outbox[p].state = "dispatching"
                  ~> outbox[p].state # "dispatching"

\* An uncertain application whose email was in fact accepted does not stay
\* uncertain: periodic reconciliation finds it in Sent Mail.
UncertaintyResolves ==
  \A p \in Apps :
    (/\ application[p].state = "submission_uncertain"
     /\ \E a \in AttemptsOf(p) \cap sent : attempt[a].route = "email")
    ~> application[p].state # "submission_uncertain"

\* An event queued for an application the owner has since closed is removed
\* from the queue instead of being held for ever.
HandledLeavesQueue ==
  \A p \in Apps :
    (outbox[p].state = "pending" /\ application[p].state \in Handled)
    ~> (outbox[p].state # "pending" \/ application[p].state \notin Handled)

\* The dispatcher keeps the promise stated in SubmissionEffect: every step
\* begins, sends, refuses or waives an attempt as that module allows, or
\* leaves what it speaks of unchanged.
Effects == INSTANCE SubmissionEffect WITH
  owner <- [a \in Attempts |-> attempt[a].app],
  refused <- {a \in Attempts : attempt[a].outcome = "not_accepted"},
  waived <- {a \in Attempts : attempt[a].waived}

ImplementsEffects == Effects!Spec

\* Claim of app/applications/reconciliation.py: known provider acceptance
\* cannot be retried.  No attempt starts for an application that already has
\* an accepted one on record.
KnownAcceptanceIsFinal ==
  [][\A a \in Attempts :
       attempt[a].app = NoApp /\ attempt'[a].app # NoApp
       => \A b \in AttemptsOf(attempt'[a].app) : ~KnownAccepted(b)]_vars
=============================================================================
