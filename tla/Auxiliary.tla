----------------------------- MODULE Auxiliary -----------------------------
(***************************************************************************)
(* The other external effects: one follow-up per application               *)
(* (app/applications/followups.py) and one email to the owner per          *)
(* notification (app/applications/notifications.py), with the recovery of  *)
(* both in recover_inflight.                                               *)
(*                                                                         *)
(* An effect is named by its dedupe key, an application or a notification. *)
(* Both are started by a transaction that commits the outbox row, pass a   *)
(* gate again before the request, and record the answer in another         *)
(* transaction; neither is ever put back in the queue.                     *)
(*                                                                         *)
(* The gates that read other components refuse nondeterministically.       *)
(* What a follow-up asks of its own rows is kept: the replies recorded of  *)
(* its application and the outbox row.  The gate is passed twice, before   *)
(* credentials are fetched and right before the request; what it reads     *)
(* here never turns good again, so the last time stands for both.          *)
(***************************************************************************)
EXTENDS Naturals, Sequences

CONSTANTS
  Applications,  \* applications whose first submission was accepted
  Notices,       \* notifications, by key
  Bodiless,      \* those that mark_connection creates
  Workers,
  NoKey,
  MaxCrashes,    \* bound: workers lost
  Overrun        \* TRUE: a dispatch may outlive the 300 s recovery window

ASSUME KeysAssumption ==
  /\ Applications \cap Notices = {} /\ NoKey \notin Applications \cup Notices
  /\ Bodiless \subseteq Notices
ASSUME BoundsAssumption == MaxCrashes \in Nat /\ Overrun \in BOOLEAN

Keys == Applications \cup Notices

VARIABLES
  quiet,     \* applications of which no reply is recorded
  inbox,     \* notifications in the order of their creation
  urgent,    \* those that are urgent, or a digest
  event,     \* state of the outbox row of each key
  delivery,  \* external_delivery of each notification
  tasks,     \* applications with a task about an uncertain follow-up
  worker,    \* local state of each dispatch_followup or dispatch_notification
  requests,  \* requests the provider accepted, by key
  crashes

vars == <<quiet, inbox, urgent, event, delivery, tasks, worker, requests, crashes>>

EventStates == {"absent", "dispatching", "done", "uncertain", "not_accepted"}
Outcomes == {"accepted", "uncertain", "not_accepted"}
Idle == [pc |-> "idle", key |-> NoKey, outcome |-> "uncertain"]

Init ==
  /\ quiet = Applications
  /\ inbox = <<>>
  /\ urgent = {}
  /\ event = [k \in Keys |-> "absent"]
  /\ delivery = [n \in Notices |-> "unconfigured"]
  /\ tasks = {}
  /\ worker = [w \in Workers |-> Idle]
  /\ requests = [k \in Keys |-> 0]
  /\ crashes = 0

----------------------------------------------------------------------------
(***************************************************************************)
(* The environment                                                         *)
(***************************************************************************)

\* A reply is recorded.
Reply(p) ==
  /\ p \in quiet
  /\ quiet' = quiet \ {p}
  /\ UNCHANGED <<inbox, urgent, event, delivery, tasks, worker, requests, crashes>>

Created == {inbox[i] : i \in 1..Len(inbox)}

\* notify, build_digest and mark_connection: a notification is created.
Notify(n, wanted) ==
  /\ n \notin Created
  /\ n \in Bodiless => wanted
  /\ inbox' = Append(inbox, n)
  /\ urgent' = IF wanted THEN urgent \cup {n} ELSE urgent
  /\ UNCHANGED <<quiet, event, delivery, tasks, worker, requests, crashes>>

\* notify again, with the same key and another urgency.
NotifyAgain(n, wanted) ==
  /\ n \in Created \ Bodiless
  /\ urgent' = IF wanted THEN urgent \cup {n} ELSE urgent \ {n}
  /\ UNCHANGED <<quiet, inbox, event, delivery, tasks, worker, requests, crashes>>

----------------------------------------------------------------------------
(***************************************************************************)
(* Dispatch                                                                *)
(***************************************************************************)

StartEffect(w, k) ==
  /\ worker[w] = Idle
  /\ event' = [event EXCEPT ![k] = "dispatching"]
  /\ worker' = [worker EXCEPT ![w] = [Idle EXCEPT !.pc = "started", !.key = k]]
  /\ UNCHANGED <<quiet, inbox, urgent, delivery, tasks, requests, crashes>>

StartFollowup(w, p) ==
  /\ event[p] = "absent"
  /\ p \in quiet
  /\ StartEffect(w, p)

\* Fault: what was not delivered is sent again.
WaitingUndelivered(n) == n \in urgent /\ event[n] # "done"

\* Urgent notifications without an outbox row.
Waiting(n) == n \in urgent /\ event[n] = "absent"

\* The oldest is taken.  The letter quotes its body: where there is none
\* the transaction fails, and the next call finds the same notification.
StartNotice(w) ==
  \E i \in 1..Len(inbox) :
    /\ Waiting(inbox[i])
    /\ \A j \in 1..(i - 1) : ~ Waiting(inbox[j])
    /\ inbox[i] \notin Bodiless
    /\ StartEffect(w, inbox[i])

\* A gate has closed.
Refuse(w) ==
  /\ worker[w].pc = "started"
  /\ worker' = [worker EXCEPT ![w].pc = "answered", ![w].outcome = "not_accepted"]
  /\ UNCHANGED <<quiet, inbox, urgent, event, delivery, tasks, requests, crashes>>

\* The provider cannot be built: nothing was sent, but that is not known.
FailEarly(w) ==
  /\ worker[w].pc = "started"
  /\ worker' = [worker EXCEPT ![w].pc = "answered", ![w].outcome = "uncertain"]
  /\ UNCHANGED <<quiet, inbox, urgent, event, delivery, tasks, requests, crashes>>

\* The final gate, read in a transaction of its own.
PassGate(w) ==
  LET k == worker[w].key IN
  /\ worker[w].pc = "started"
  /\ k \in Applications => event[k] = "dispatching" /\ k \in quiet
  /\ worker' = [worker EXCEPT ![w].pc = "gated"]
  /\ UNCHANGED <<quiet, inbox, urgent, event, delivery, tasks, requests, crashes>>

\* The request is accepted or refused; the answer to an accepted one may be
\* lost.
Send(w) ==
  LET k == worker[w].key IN
  /\ worker[w].pc = "gated"
  /\ \E accepted \in BOOLEAN, known \in BOOLEAN :
       /\ requests' = [requests EXCEPT ![k] = IF accepted THEN @ + 1 ELSE @]
       /\ worker' = [worker EXCEPT ![w].pc = "answered", ![w].outcome =
            IF ~ known THEN "uncertain"
            ELSE IF accepted THEN "accepted" ELSE "not_accepted"]
  /\ UNCHANGED <<quiet, inbox, urgent, event, delivery, tasks, crashes>>

\* How a notification shows the outcome of its email.
Delivered(outcome) == IF outcome = "accepted" THEN "sent_unconfirmed" ELSE outcome

\* Fault: the task is left to recovery.
RecordWithoutTask(w) ==
  LET k == worker[w].key  outcome == worker[w].outcome IN
  /\ worker[w].pc = "answered"
  /\ event' = [event EXCEPT ![k] = IF outcome = "accepted" THEN "done" ELSE outcome]
  /\ delivery' = IF k \in Notices
                 THEN [delivery EXCEPT ![k] = Delivered(outcome)] ELSE delivery
  /\ worker' = [worker EXCEPT ![w] = Idle]
  /\ UNCHANGED <<quiet, inbox, urgent, tasks, requests, crashes>>

\* The last transaction of either dispatch.
Record(w) ==
  LET k == worker[w].key  outcome == worker[w].outcome IN
  /\ worker[w].pc = "answered"
  /\ event' = [event EXCEPT ![k] = IF outcome = "accepted" THEN "done" ELSE outcome]
  /\ delivery' = IF k \in Notices
                 THEN [delivery EXCEPT ![k] = Delivered(outcome)] ELSE delivery
  /\ tasks' = IF k \in Applications /\ outcome = "uncertain"
              THEN tasks \cup {k} ELSE tasks
  /\ worker' = [worker EXCEPT ![w] = Idle]
  /\ UNCHANGED <<quiet, inbox, urgent, requests, crashes>>

Crash(w) ==
  /\ worker[w] # Idle /\ crashes < MaxCrashes
  /\ worker' = [worker EXCEPT ![w] = Idle]
  /\ crashes' = crashes + 1
  /\ UNCHANGED <<quiet, inbox, urgent, event, delivery, tasks, requests>>

Overdue(k) ==
  event[k] = "dispatching" /\ (Overrun \/ \A w \in Workers : worker[w].key # k)

\* Fault: what was interrupted is put back.
RecoverByRetry(k) ==
  /\ Overdue(k)
  /\ event' = [event EXCEPT ![k] = "absent"]
  /\ UNCHANGED <<quiet, inbox, urgent, delivery, tasks, worker, requests, crashes>>

\* Fault: what was interrupted is taken to have failed.
RecoverAsFailed(k) ==
  /\ Overdue(k)
  /\ event' = [event EXCEPT ![k] = "not_accepted"]
  /\ UNCHANGED <<quiet, inbox, urgent, delivery, tasks, worker, requests, crashes>>

\* Fault: follow-ups are left to the owner.
RecoverNotices(k) ==
  /\ k \in Notices
  /\ Overdue(k)
  /\ event' = [event EXCEPT ![k] = "uncertain"]
  /\ delivery' = [delivery EXCEPT ![k] = "uncertain"]
  /\ UNCHANGED <<quiet, inbox, urgent, tasks, worker, requests, crashes>>

\* recover_inflight, for a row that is not a submission.
Recover(k) ==
  /\ Overdue(k)
  /\ event' = [event EXCEPT ![k] = "uncertain"]
  /\ delivery' = IF k \in Notices THEN [delivery EXCEPT ![k] = "uncertain"] ELSE delivery
  /\ tasks' = IF k \in Applications THEN tasks \cup {k} ELSE tasks
  /\ UNCHANGED <<quiet, inbox, urgent, worker, requests, crashes>>

\* The owner or Sent Mail confirms the submission of p: every uncertain or
\* interrupted row of the application is closed with it, its follow-up too.
CloseRows(p) ==
  /\ event[p] \in {"dispatching", "uncertain"}
  /\ event' = [event EXCEPT ![p] = "done"]
  /\ UNCHANGED <<quiet, inbox, urgent, delivery, tasks, worker, requests, crashes>>

----------------------------------------------------------------------------
DispatchStep(w) ==
  \/ \E p \in Applications : StartFollowup(w, p)
  \/ StartNotice(w) \/ Refuse(w) \/ FailEarly(w) \/ PassGate(w) \/ Send(w) \/ Record(w)

Next ==
  \/ \E p \in Applications : Reply(p) \/ CloseRows(p)
  \/ \E n \in Notices, wanted \in BOOLEAN : Notify(n, wanted) \/ NotifyAgain(n, wanted)
  \/ \E w \in Workers : DispatchStep(w) \/ Crash(w)
  \/ \E k \in Keys : Recover(k)

Spec == Init /\ [][Next]_vars

\* Some dispatch in flight goes on, every tick recovers, and the next waiting
\* notification is looked for again and again with Gmail connected.
Fairness ==
  /\ WF_vars(\E w \in Workers :
       Refuse(w) \/ FailEarly(w) \/ PassGate(w) \/ Send(w) \/ Record(w))
  /\ WF_vars(\E k \in Keys : Recover(k))
  /\ WF_vars(\E w \in Workers : StartNotice(w))

LiveSpec == Spec /\ Fairness

----------------------------------------------------------------------------
(***************************************************************************)
(* Properties                                                              *)
(***************************************************************************)

\* The rows and the local states have the shapes the code gives them.
TypeOK ==
  /\ quiet \subseteq Applications /\ urgent \subseteq Notices /\ tasks \subseteq Applications
  /\ inbox \in Seq(Notices)
  /\ event \in [Keys -> EventStates]
  /\ delivery \in [Notices -> {"unconfigured", "sent_unconfirmed", "uncertain", "not_accepted"}]
  /\ worker \in [Workers -> [pc : {"idle", "started", "gated", "answered"},
                             key : Keys \cup {NoKey}, outcome : Outcomes]]
  /\ requests \in [Keys -> Nat]
  /\ crashes \in 0..MaxCrashes

\* A follow-up and the email about a notification are accepted at most once,
\* whatever is interrupted and however late it goes on.
OneRequestPerKey == \A k \in Keys : requests[k] <= 1

\* What is recorded as refused was not accepted, and what a notification
\* shows as sent was, also after a recovery that met a slow dispatch.
RecordedResultIsTrue ==
  /\ \A k \in Keys : event[k] = "not_accepted" => requests[k] = 0
  /\ \A n \in Notices :
       /\ delivery[n] = "not_accepted" => requests[n] = 0
       /\ delivery[n] = "sent_unconfirmed" => requests[n] = 1

\* The owner is told of every follow-up that may or may not have been sent,
\* and no email about a notification shows another result than its row.
UncertainIsShown ==
  /\ \A p \in Applications : event[p] = "uncertain" => p \in tasks
  /\ \A n \in Notices : event[n] = "uncertain" <=> delivery[n] = "uncertain"

\* The rows of one key keep the promise of SubmissionEffect, each key being its
\* own only attempt: none begins twice, a recorded refusal is never accepted,
\* and no retry is ever approved.
Effects == INSTANCE SubmissionEffect WITH
  Apps     <- Keys,
  Attempts <- Keys,
  NoApp    <- NoKey,
  owner    <- [k \in Keys |-> IF event[k] = "absent" THEN NoKey ELSE k],
  sent     <- {k \in Keys : requests[k] > 0},
  refused  <- {k \in Keys : event[k] = "not_accepted"},
  waived   <- {}
ImplementsEffects == Effects!Spec

\* Nothing stays in flight for ever, crashes included: again and again there
\* is a moment with no row of any key being dispatched.
EffectSettles == []<>(\A k \in Keys : event[k] # "dispatching")

\* No notification of mark_connection is older than n.
NothingBlocks(n) ==
  \A i \in 1..Len(inbox) :
    inbox[i] \in Bodiless => \E j \in 1..(i - 1) : inbox[j] = n

\* Urgent notifications are sent in their turn, whatever becomes of the ones
\* before them, unless one without a body is among these.
NoticesAreSentInTurn ==
  \A n \in Notices \ Bodiless :
    (Waiting(n) /\ NothingBlocks(n)) ~> ~ Waiting(n)

\* The tests say that an urgent notification or a digest is sent when Gmail is
\* connected and email notifications are on.
OwnerIsTold ==
  \A n \in Notices \ Bodiless : Waiting(n) ~> ~ Waiting(n)
=============================================================================
