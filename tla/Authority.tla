------------------------------ MODULE Authority ------------------------------
(***************************************************************************)
(* What may be sent in the owner's name: the facts and answers the owner   *)
(* confirmed, the policy that approves them, the packet made from them,    *)
(* and the readiness gates (app/core/readiness.py, evaluate_application of *)
(* app/applications/dispatch.py) that compare the three when an            *)
(* application is queued, when its dispatch starts and just before its     *)
(* request.                                                                *)
(*                                                                         *)
(* One application on the email route, from the moment its owner has set   *)
(* the program up.  Revision identifiers are numbers.  The assessment      *)
(* finds that the posting fits; Listings has its content, Dispatch the     *)
(* history of attempts, and JobQueue the failures of jobs.  Packets may be *)
(* built at the same time: the owner asks for one while the job builds     *)
(* another, or a slow job loses its lease.                                 *)
(***************************************************************************)
EXTENDS Naturals

CONSTANTS
  Facts,      \* rows of profile_facts
  Values,     \* values a fact may have
  FirstValue, \* the one the owner confirmed at first
  Selections, \* sets of facts the documents may use
  Answers,    \* rows of answers
  Accounts,   \* Gmail accounts the owner may connect
  FirstAccount, NoAccount,
  Worker,     \* the holder of the lease of the job that builds a packet
  Others,     \* bound: builds besides its own, without a lease
  MaxEdits    \* bound: acts of the owner, the sources and the employer, lost leases

ASSUME AuthorityAssumption ==
  /\ Selections \subseteq SUBSET Facts
  /\ FirstValue \in Values /\ FirstAccount \in Accounts
  /\ NoAccount \notin Accounts
  /\ Worker \notin Others
  /\ MaxEdits \in Nat

VARIABLES
  fact,         \* status, revision and value of each fact
  answer,       \* revision of each answer, 0 when there is none
  profile,      \* candidate.revision
  policy,       \* the latest policy revision
  account,      \* email_address of the gmail connection
  paused,       \* controls
  listing,      \* availability of the posting
  fresh,        \* whether last_verified_at lies within the last 30 minutes
  posting,      \* its content_hash
  assessed,     \* profile and content of the newest assessment
  packet,       \* the packet the application points at
  overtaken,    \* history: that packet replaced one made from newer revisions
  tasks,        \* open tasks of the application
  application,  \* its state
  outbox,       \* its submit event, with the revisions it was queued for
  jobs,         \* queued jobs
  builder,      \* local state of each prepare_packet
  dispatcher,   \* local state of dispatch_next
  edits

Builders == Others \cup {Worker}

owner == <<fact, answer, profile, policy, account, paused>>
shown == <<listing, fresh, posting>>
built == <<assessed, packet, overtaken>>
rows  == <<built, tasks, application, outbox, jobs>>
vars  == <<owner, shown, rows, builder, dispatcher, edits>>

Preserved == {"submitting", "sent_unconfirmed"}

\* What a packet is made from: three revisions, and the facts and answers used.
Made(F, A) ==
  [profile |-> profile, policy |-> policy.revision, posting |-> posting,
   facts |-> [f \in F |-> fact[f]], answers |-> [a \in A |-> answer[a]]]

Revisions(p) == <<p.profile, p.policy, p.posting>>
Latest == <<profile, policy.revision, posting>>

Older(p, q) ==
  /\ p.profile <= q.profile /\ p.policy <= q.policy /\ p.posting <= q.posting
  /\ Revisions(p) # Revisions(q)

Resting == [pc |-> "idle"]

\* The first policy was approved on a packet of the draft policy, now stale.
Init ==
  /\ fact = [f \in Facts |-> [status |-> "confirmed", revision |-> 1, value |-> FirstValue]]
  /\ answer = [a \in Answers |-> 1]
  /\ profile = 1
  /\ account = FirstAccount
  /\ policy = [revision |-> 1, approved |-> TRUE, answers |-> answer, sender |-> account]
  /\ paused = FALSE
  /\ listing = "open"
  /\ fresh = TRUE
  /\ posting = 1
  /\ assessed = <<1, 1>>
  /\ overtaken = FALSE
  /\ packet = [made |-> [Made(Facts, {}) EXCEPT !.policy = 0], status |-> "stale"]
  /\ tasks = {}
  /\ application = "assessing"
  /\ outbox = [state |-> "none", for |-> <<0, 0, 0>>]
  /\ jobs = {"assess"}
  /\ builder = [b \in Builders |-> Resting]
  /\ dispatcher = Resting
  /\ edits = 0

Edit == edits < MaxEdits /\ edits' = edits + 1

(***************************************************************************)
(* invalidate: what every change of the profile, the policy or the content *)
(* does to the packet, the event and the application.                      *)
(***************************************************************************)
\* The event keeps what it was queued for.
Moved(state) == [state |-> state, for |-> outbox.for]

\* Fault: nothing asks for a new packet.
AskNothing == {}

Asked == IF application \in Preserved THEN {} ELSE {"assess"}

Reassess == application' = IF application \in Preserved THEN application ELSE "assessing"

\* Fault: the queued event is left to the gates.
InvalidateKeepsEvent ==
  /\ packet' = [made |-> packet.made, status |-> "stale"]
  /\ Reassess
  /\ UNCHANGED <<assessed, overtaken, outbox>>

Invalidate ==
  /\ packet' = [made |-> packet.made, status |-> "stale"]
  /\ outbox' = IF outbox.state = "pending" THEN Moved("cancelled") ELSE outbox
  /\ Reassess
  /\ UNCHANGED <<assessed, overtaken>>

\* snapshot_profile
Snapshot ==
  /\ profile' = profile + 1
  /\ Invalidate
  /\ jobs' = jobs \cup Asked
  /\ UNCHANGED tasks

(***************************************************************************)
(* The owner, and the sources the profile is imported from.                *)
(***************************************************************************)
ConfirmFact(f, v) ==
  /\ Edit
  /\ fact' = [fact EXCEPT ![f] = [status |-> "confirmed", revision |-> @.revision + 1, value |-> v]]
  /\ Snapshot
  /\ UNCHANGED <<answer, policy, account, paused, shown, builder, dispatcher>>

\* A source of the fact changed: its value stays, and its status does not.
ImportProfile(f) ==
  /\ Edit
  /\ fact' = [fact EXCEPT ![f].status = "conflicting", ![f].revision = @ + 1]
  /\ Snapshot
  /\ UNCHANGED <<answer, policy, account, paused, shown, builder, dispatcher>>

SaveAnswer(a) ==
  /\ Edit
  /\ answer' = [answer EXCEPT ![a] = @ + 1]
  /\ Snapshot
  /\ UNCHANGED <<fact, policy, account, paused, shown, builder, dispatcher>>

\* Approval needs a reviewed packet that is still valid, and covers the chosen
\* answers as they are now.
Approve(A) ==
  /\ \A f \in Facts : fact[f].status # "conflicting"
  /\ packet.status = "validated"
  /\ account # NoAccount
  /\ policy' = [revision |-> policy.revision + 1, approved |-> TRUE,
                answers |-> [a \in A |-> answer[a]], sender |-> account]

Draft ==
  policy' = [revision |-> policy.revision + 1, approved |-> FALSE,
             answers |-> [a \in {} |-> 0], sender |-> NoAccount]

SavePolicy ==
  /\ Edit
  /\ Draft \/ \E A \in SUBSET {a \in Answers : answer[a] > 0} : Approve(A)
  /\ Invalidate
  /\ jobs' = jobs \cup Asked
  /\ UNCHANGED <<fact, answer, profile, account, paused, shown, tasks, builder, dispatcher>>

\* A connection is made, replaced or removed.
Connect(b) ==
  /\ Edit
  /\ b # account
  /\ account' = b
  /\ UNCHANGED <<fact, answer, profile, policy, paused, shown, rows, builder, dispatcher>>

Pause ==
  /\ Edit
  /\ paused' = ~ paused
  /\ UNCHANGED <<fact, answer, profile, policy, account, shown, rows, builder, dispatcher>>

ResolveTask(t) ==
  /\ tasks' = tasks \ {t}
  /\ Reassess
  /\ jobs' = jobs \cup Asked
  /\ UNCHANGED <<owner, shown, built, outbox, builder, dispatcher, edits>>

(***************************************************************************)
(* The posting, of which Listings has the detail.                          *)
(***************************************************************************)
NewContent ==
  /\ posting' = posting + 1
  /\ Invalidate

\* A poll of the primary source always brings a new content.
Poll ==
  /\ Edit
  /\ NewContent
  /\ listing' \in {"open", "closed"}
  /\ fresh' = TRUE
  /\ jobs' = jobs \cup {"assess"}
  /\ UNCHANGED <<owner, tasks, builder, dispatcher>>

\* The official record is read, as it was or changed; or the check fails, and
\* becomes a task.
Verification ==
  \/ /\ tasks' = tasks \cup {"verify"}
     /\ UNCHANGED <<shown, built, application, outbox, jobs>>
  \/ /\ listing' \in {"open", "closed", "unverified"}
     /\ fresh' = TRUE
     /\ NewContent \/ UNCHANGED <<posting, built, application, outbox>>
     /\ tasks' = IF listing' = "open" THEN tasks \ {"verify"} ELSE tasks
     /\ jobs' = jobs \cup {"assess"}

\* Asked for by the owner, or by the job a lead of a feed queues.
Verify ==
  /\ Edit
  /\ Verification
  /\ UNCHANGED <<owner, builder, dispatcher>>

Review ==
  /\ Edit
  /\ NewContent
  /\ jobs' = jobs \cup Asked
  /\ UNCHANGED <<owner, listing, fresh, tasks, builder, dispatcher>>

\* The deadline passes.
Expire ==
  /\ Edit
  /\ listing = "open"
  /\ listing' = "closed"
  /\ UNCHANGED <<owner, fresh, posting, rows, builder, dispatcher>>

\* Half an hour passes without a reading of the official record.
GrowStale ==
  /\ fresh
  /\ fresh' = FALSE
  /\ UNCHANGED <<owner, listing, posting, rows, builder, dispatcher, edits>>

(***************************************************************************)
(* Assessment and packet.                                                  *)
(***************************************************************************)
\* assess_opportunity, with the jobs there are besides.
AssessOpportunity(others) ==
  /\ assessed' = <<profile, posting>>
  /\ jobs' = others \cup (IF application \in Preserved THEN {} ELSE {"prepare"})
  /\ application' = IF application \in Preserved THEN application ELSE "drafting"

Assess ==
  /\ "assess" \in jobs
  /\ AssessOpportunity(jobs \ {"assess"})
  /\ UNCHANGED <<owner, shown, packet, overtaken, tasks, outbox, builder, dispatcher, edits>>

\* Asked for by the owner.
RequestAssessment ==
  /\ Edit
  /\ AssessOpportunity(jobs)
  /\ UNCHANGED <<owner, shown, packet, overtaken, tasks, outbox, builder, dispatcher>>

Building(b) == builder[b].pc = "building"

\* prepare_packet assesses first if need be.  The documents use a selection of
\* the facts, and answers the owner gave.
Begin(b, others) ==
  /\ ~ Building(b)
  /\ \E F \in Selections, A \in SUBSET {a \in Answers : answer[a] > 0} :
       builder' = [builder EXCEPT ![b] = [pc |-> "building", made |-> Made(F, A)]]
  /\ IF assessed = <<profile, posting>>
       THEN jobs' = others /\ UNCHANGED <<assessed, application>>
       ELSE AssessOpportunity(others)
  /\ UNCHANGED <<owner, shown, packet, overtaken, tasks, outbox, dispatcher>>

\* The job is run by one worker at a time.
PrepareRead ==
  /\ "prepare" \in jobs
  /\ Begin(Worker, jobs \ {"prepare"})
  /\ UNCHANGED edits

\* The owner asks for a packet, whatever the job does.
RequestPacket(b) ==
  /\ Edit
  /\ Begin(b, jobs)

\* The job took longer than its lease: it is queued again, and goes on.
LoseLease(b) ==
  /\ Edit
  /\ Building(Worker) /\ ~ Building(b)
  /\ builder' = [builder EXCEPT ![b] = builder[Worker], ![Worker] = Resting]
  /\ jobs' = jobs \cup {"prepare"}
  /\ UNCHANGED <<owner, shown, built, tasks, application, outbox, dispatcher>>

Blocked(made) ==
  \/ DOMAIN made.facts = {}
  \/ \E f \in DOMAIN made.facts : made.facts[f].status # "confirmed"

\* Fault: the policy is not compared.
StatusIgnoresPolicy(made) ==
  IF made.profile # profile \/ made.posting # posting THEN "stale"
  ELSE IF Blocked(made) THEN "draft" ELSE "validated"

Status(made) ==
  IF Revisions(made) # Latest THEN "stale" ELSE IF Blocked(made) THEN "draft" ELSE "validated"

\* The last to write has the application point at its packet, unless the
\* application is preserved.
PrepareWrite(b) ==
  LET made == builder[b].made
      task == IF Blocked(made) THEN {"packet"} ELSE {}
  IN  /\ Building(b)
      /\ builder' = [builder EXCEPT ![b] = Resting]
      /\ tasks' = (tasks \ {"packet"}) \cup task
      /\ IF application \in Preserved THEN UNCHANGED <<packet, overtaken, application>>
         ELSE /\ packet' = [made |-> made, status |-> Status(made)]
              /\ overtaken' = Older(made, packet.made)
              /\ application' = IF task = {} THEN "drafting" ELSE "needs_human"
      /\ UNCHANGED <<owner, shown, assessed, outbox, jobs, dispatcher, edits>>

(***************************************************************************)
(* The gates.                                                              *)
(***************************************************************************)
FactsConfirmed(made) ==
  /\ DOMAIN made.facts # {}
  /\ \A f \in DOMAIN made.facts : fact[f].status = "confirmed" /\ fact[f] = made.facts[f]

\* Each answer of the policy is unchanged, and each of the packet is among them.
AnswersConfirmed(made) ==
  /\ \A a \in DOMAIN policy.answers : answer[a] = policy.answers[a]
  /\ \A a \in DOMAIN made.answers :
       /\ a \in DOMAIN policy.answers
       /\ made.answers[a] = policy.answers[a]

Authorized ==
  /\ listing = "open" /\ fresh
  /\ tasks = {}
  /\ packet.status = "validated"
  /\ Revisions(packet.made) = Latest
  /\ FactsConfirmed(packet.made)
  /\ AnswersConfirmed(packet.made)
  /\ policy.sender = account

\* evaluate_readiness: what refuses for good comes before what may pass.
Disposition ==
  IF application = "sent_unconfirmed" \/ listing = "closed" THEN "skip"
  ELSE IF ~ policy.approved \/ paused \/ account = NoAccount THEN "hold"
  ELSE IF Authorized THEN "ready" ELSE "needs_human"

\* A gate that is not ready leaves the application as it is, without a task.
QueueApplication ==
  /\ application \in {"drafting", "ready", "needs_human"}
  /\ Disposition = "ready"
  /\ outbox.state \in {"none", "cancelled", "failed_safe"}
  /\ outbox' = [state |-> "pending", for |-> Revisions(packet.made)]
  /\ application' = "ready"
  /\ UNCHANGED <<owner, shown, built, tasks, jobs, builder, dispatcher, edits>>

\* dispatch_next verifies a posting that was not verified lately, then looks at
\* the event and the gate in another transaction.
Refresh ==
  /\ outbox.state = "pending" /\ ~ fresh
  /\ dispatcher.pc = "idle"
  /\ Verification
  /\ IF posting' = posting THEN UNCHANGED edits ELSE Edit
  /\ dispatcher' = [pc |-> "verified"]
  /\ UNCHANGED <<owner, builder>>

Verified == dispatcher.pc = "verified" \/ (dispatcher.pc = "idle" /\ fresh)

\* Refused: only SKIP ends the event.
RefuseDispatch ==
  /\ Verified
  /\ outbox.state = "pending"
  /\ Disposition = "skip"
  /\ outbox' = Moved("cancelled")
  /\ dispatcher' = Resting
  /\ UNCHANGED <<owner, shown, built, tasks, application, jobs, builder, edits>>

\* Held until it is looked at again, or no longer pending.
HoldDispatch ==
  /\ dispatcher.pc = "verified"
  /\ outbox.state = "pending" => Disposition \notin {"ready", "skip"}
  /\ dispatcher' = Resting
  /\ UNCHANGED <<owner, shown, rows, builder, edits>>

\* The request is composed here, from what the packet and the answers hold.
StartDispatch ==
  /\ Verified
  /\ outbox.state = "pending"
  /\ Disposition = "ready"
  /\ outbox' = Moved("dispatching")
  /\ application' = "submitting"
  /\ dispatcher' = [pc |-> "started", made |-> packet.made]
  /\ UNCHANGED <<owner, shown, built, tasks, jobs, builder, edits>>

\* Fault: the gate of the queued packet is not evaluated again.
GateComparesManifest == packet.made = dispatcher.made

FinalGate == Disposition = "ready" /\ packet.made = dispatcher.made

PassGate ==
  /\ dispatcher.pc = "started"
  /\ FinalGate
  /\ dispatcher' = [pc |-> "cleared", made |-> dispatcher.made]
  /\ UNCHANGED <<owner, shown, rows, builder, edits>>

\* The gate refuses, or the provider does.
Reject ==
  /\ \/ dispatcher.pc = "started" /\ ~ FinalGate
     \/ dispatcher.pc = "cleared"
  /\ dispatcher' = Resting
  /\ outbox' = Moved("failed_safe")
  /\ application' = "needs_human"
  /\ tasks' = tasks \cup {"submission"}
  /\ UNCHANGED <<owner, shown, built, jobs, builder, edits>>

Accept ==
  /\ dispatcher.pc = "cleared"
  /\ dispatcher' = Resting
  /\ outbox' = Moved("done")
  /\ application' = "sent_unconfirmed"
  /\ UNCHANGED <<owner, shown, built, tasks, jobs, builder, edits>>

Dispatch ==
  \/ Refresh \/ RefuseDispatch \/ HoldDispatch
  \/ StartDispatch \/ PassGate \/ Reject \/ Accept

Prepare == PrepareRead \/ \E b \in Builders : PrepareWrite(b)

Next ==
  \/ \E f \in Facts : ImportProfile(f) \/ \E v \in Values : ConfirmFact(f, v)
  \/ \E a \in Answers : SaveAnswer(a)
  \/ SavePolicy
  \/ \E b \in Accounts \cup {NoAccount} : Connect(b)
  \/ Pause
  \/ \E t \in tasks : ResolveTask(t)
  \/ Poll \/ Verify \/ Review \/ Expire \/ GrowStale
  \/ RequestAssessment
  \/ \E b \in Others : RequestPacket(b) \/ LoseLease(b)
  \/ Assess \/ Prepare \/ QueueApplication
  \/ Dispatch

Spec == Init /\ [][Next]_vars

\* The tick runs due jobs and queues what is ready; the loop dispatches.
Fairness ==
  /\ WF_vars(Assess) /\ WF_vars(Prepare) /\ WF_vars(QueueApplication)
  /\ WF_vars(Dispatch)

LiveSpec == Spec /\ Fairness

(***************************************************************************)
(* Properties.                                                             *)
(***************************************************************************)
Records == [status : {"confirmed", "conflicting"}, revision : Nat, value : Values]
IsSelection(s, S, T) == DOMAIN s \subseteq S /\ s \in [DOMAIN s -> T]
IsMade(m) ==
  /\ m.profile \in Nat /\ m.policy \in Nat /\ m.posting \in Nat
  /\ IsSelection(m.facts, Facts, Records) /\ IsSelection(m.answers, Answers, Nat)

OwnerOK ==
  /\ fact \in [Facts -> Records]
  /\ answer \in [Answers -> Nat]
  /\ profile \in Nat
  /\ policy.revision \in Nat /\ policy.approved \in BOOLEAN
  /\ policy.sender \in Accounts \cup {NoAccount}
  /\ IsSelection(policy.answers, Answers, Nat)
  /\ account \in Accounts \cup {NoAccount}
  /\ paused \in BOOLEAN

ShownOK == listing \in {"open", "closed", "unverified"} /\ fresh \in BOOLEAN /\ posting \in Nat

RowsOK ==
  /\ IsMade(packet.made) /\ packet.status \in {"stale", "draft", "validated"}
  /\ overtaken \in BOOLEAN /\ assessed \in Nat \X Nat
  /\ tasks \subseteq {"packet", "submission", "verify"}
  /\ application \in Preserved \cup {"assessing", "drafting", "needs_human", "ready"}
  /\ outbox.state \in {"none", "pending", "dispatching", "cancelled", "failed_safe", "done"}
  /\ jobs \subseteq {"assess", "prepare"}

BuildersOK ==
  /\ builder = [b \in Builders |-> builder[b]]
  /\ \A b \in Builders : builder[b] = Resting \/ (Building(b) /\ IsMade(builder[b].made))

DispatcherOK ==
  /\ dispatcher.pc \in {"idle", "verified", "started", "cleared"}
  /\ dispatcher.pc \in {"started", "cleared"} => IsMade(dispatcher.made)

\* The rows and local states keep their shape.
TypeOK == OwnerOK /\ ShownOK /\ RowsOK /\ BuildersOK /\ DispatcherOK /\ edits \in Nat

\* A packet that counts as validated was made from the profile, the policy and
\* the content there are now, however they changed while it was made, and from
\* facts that are still confirmed with the values it states.
ValidatedIsCurrent ==
  packet.status = "validated" =>
    Revisions(packet.made) = Latest /\ FactsConfirmed(packet.made)

\* An event waits in the outbox only as long as nothing changed of what it was
\* queued for: no change of the owner, of a source or of the employer leaves it
\* pending, even if a newer packet has replaced the one it was queued with.
QueuedIsCurrent == outbox.state = "pending" => outbox.for = Latest

\* What passes the final gate states only facts the owner confirms at that time
\* and answers the approved policy covers as they are at that time, though the
\* request was composed when the dispatch started; and nothing stands against
\* it: no pause, no task, no other mailbox, no posting that is not open or was not
\* verified lately.
ClearedIsConfirmed ==
  [][dispatcher.pc = "started" /\ dispatcher'.pc = "cleared" =>
       /\ policy.approved /\ ~ paused /\ tasks = {} /\ listing = "open" /\ fresh
       /\ policy.sender = account
       /\ \A f \in DOMAIN dispatcher.made.facts :
            fact[f].status = "confirmed" /\ fact[f].value = dispatcher.made.facts[f].value
       /\ \A a \in DOMAIN dispatcher.made.answers :
            a \in DOMAIN policy.answers /\ dispatcher.made.answers[a] = answer[a]]_vars

\* The owner has approved everything an application may use, and the posting is
\* verified often enough: while the event waits, dispatch_next sees to that.
AllApproved ==
  /\ policy.approved /\ ~ paused
  /\ listing = "open"
  /\ fresh \/ (outbox.state = "pending" /\ dispatcher.pc = "idle")
  /\ account # NoAccount /\ policy.sender = account
  /\ \A a \in Answers : answer[a] > 0 => a \in DOMAIN policy.answers /\ policy.answers[a] = answer[a]

\* An application the owner has approved in full is sent, or waits for the owner
\* with an open task, again and again: whatever changed while it was assessed,
\* prepared, queued or dispatched, and whichever tasks the owner resolved, it never
\* waits for nobody.  The one exception is a packet that an older build, ending
\* last, put in the place of a newer one.
ApprovedIsDispatched ==
  <>[](AllApproved /\ ~ overtaken) => []<>(application = "sent_unconfirmed" \/ tasks # {})
=============================================================================
