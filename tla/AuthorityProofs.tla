-------------------------- MODULE AuthorityProofs --------------------------
(***************************************************************************)
(* Proofs about what may be sent in the owner's name, for any facts,       *)
(* values, answers and accounts, any number of builds at the same time,    *)
(* and any number of changes.                                              *)
(***************************************************************************)
EXTENDS Authority, TLAPS

\* Facts change only together with the revision of the profile, so documents in
\* the making with the latest revision state them as they are, in every build.
BuilderInv ==
  \A b \in Builders : Building(b) =>
    /\ builder[b].made.profile <= profile
    /\ builder[b].made.profile = profile =>
         \A f \in DOMAIN builder[b].made.facts : fact[f] = builder[b].made.facts[f]

Current == ValidatedIsCurrent /\ QueuedIsCurrent

Inv == TypeOK /\ Current /\ BuilderInv

LEMMA MadeIsMade ==
  ASSUME TypeOK, NEW F \in SUBSET Facts, NEW A \in SUBSET Answers
  PROVE  IsMade(Made(F, A))
BY DEF TypeOK, OwnerOK, ShownOK, IsMade, Made, IsSelection

LEMMA InitInv == Init => Inv
<1> SUFFICES ASSUME Init PROVE Inv
  OBVIOUS
<1>1. OwnerOK
  BY AuthorityAssumption DEF Init, OwnerOK, Records, IsSelection
<1>2. ShownOK /\ edits \in Nat
  BY DEF Init, ShownOK
<1>3. RowsOK
  <2>1. IsMade(packet.made)
    BY <1>1, <1>2 DEF Init, IsMade, Made, IsSelection, OwnerOK, ShownOK
  <2> QED
    BY <2>1 DEF Init, RowsOK
<1>4. BuildersOK /\ DispatcherOK
  BY DEF Init, BuildersOK, DispatcherOK, Resting
<1>5. Current /\ BuilderInv
  BY DEF Init, Current, ValidatedIsCurrent, QueuedIsCurrent, BuilderInv, Building, Resting
<1> QED
  BY <1>1, <1>2, <1>3, <1>4, <1>5 DEF Inv, TypeOK

(***************************************************************************)
(* What keeps the parts of the invariant.                                  *)
(***************************************************************************)
\* After invalidate no packet counts as validated and no event waits.
LEMMA InvalidateClears ==
  ASSUME RowsOK, Invalidate
  PROVE  Current'
BY DEF RowsOK, Invalidate, Moved, Current, ValidatedIsCurrent, QueuedIsCurrent

LEMMA InvalidateKeepsRows ==
  ASSUME RowsOK, Invalidate,
         tasks' \subseteq tasks, jobs' \subseteq jobs \cup {"assess"}
  PROVE  RowsOK'
<1>1. IsMade(packet.made)' /\ packet'.status = "stale"
  BY DEF RowsOK, Invalidate, IsMade
<1>2. /\ outbox'.state \in {"none", "pending", "dispatching", "cancelled", "failed_safe", "done"}
      /\ application' = application \/ application' = "assessing"
  BY DEF RowsOK, Invalidate, Moved, Reassess
<1> QED
  BY <1>1, <1>2 DEF RowsOK, Invalidate, Preserved

\* What is compared stays, or the event no longer waits.
LEMMA KeepsCurrent ==
  ASSUME Current, UNCHANGED <<fact, profile, policy, posting, packet>>,
         outbox' = outbox \/ outbox'.state # "pending"
  PROVE  Current'
BY DEF Current, ValidatedIsCurrent, QueuedIsCurrent, FactsConfirmed, Latest, Revisions

LEMMA KeepsBuilders ==
  ASSUME BuildersOK, BuilderInv, UNCHANGED builder,
         profile \in Nat,
         profile' = profile + 1 \/ UNCHANGED <<profile, fact>>
  PROVE  BuildersOK' /\ BuilderInv'
<1>1. BuildersOK'
  BY DEF BuildersOK, Building, IsMade
<1>2. ASSUME NEW b \in Builders, Building(b)'
      PROVE  /\ builder'[b].made.profile <= profile'
             /\ builder'[b].made.profile = profile' =>
                  \A f \in DOMAIN builder'[b].made.facts : fact'[f] = builder'[b].made.facts[f]
  <2>1. Building(b) /\ builder'[b] = builder[b]
    BY <1>2 DEF Building
  <2>2. builder[b].made.profile \in Nat
    BY <2>1 DEF BuildersOK, Building, Resting, IsMade
  <2>3. builder[b].made.profile <= profile
    BY <2>1 DEF BuilderInv
  <2>4. CASE profile' = profile + 1
    BY <2>1, <2>2, <2>3, <2>4
  <2>5. CASE UNCHANGED <<profile, fact>>
    BY <2>1, <2>5 DEF BuilderInv
  <2> QED
    BY <2>4, <2>5
<1> QED
  BY <1>1, <1>2 DEF BuilderInv

LEMMA KeepsDispatcher ==
  ASSUME DispatcherOK, UNCHANGED dispatcher
  PROVE  DispatcherOK'
BY DEF DispatcherOK, IsMade

LEMMA KeepsOwner ==
  ASSUME OwnerOK, UNCHANGED <<fact, answer, profile, policy>>,
         account' \in Accounts \cup {NoAccount}, paused' \in BOOLEAN
  PROVE  OwnerOK'
BY DEF OwnerOK, IsSelection

LEMMA KeepsShown ==
  ASSUME ShownOK, UNCHANGED shown
  PROVE  ShownOK'
BY DEF ShownOK, shown

\* The packet stays, and the other rows keep their type.
LEMMA KeepsRows ==
  ASSUME RowsOK, UNCHANGED <<packet, overtaken>>,
         assessed' = assessed \/ assessed' \in Nat \X Nat,
         tasks' \subseteq tasks \cup {"submission", "verify"},
         application' = application
           \/ application' \in Preserved \cup {"assessing", "drafting", "needs_human", "ready"},
         outbox' = outbox
           \/ outbox'.state \in {"none", "pending", "dispatching", "cancelled", "failed_safe", "done"},
         jobs' \subseteq jobs \cup {"assess", "prepare"}
  PROVE  RowsOK'
<1>1. IsMade(packet.made)' /\ packet'.status \in {"stale", "draft", "validated"}
  BY DEF RowsOK, IsMade
<1>2. /\ tasks' \subseteq {"packet", "submission", "verify"}
      /\ jobs' \subseteq {"assess", "prepare"}
      /\ overtaken' \in BOOLEAN /\ assessed' \in Nat \X Nat
  BY DEF RowsOK
<1>3. /\ application' \in Preserved \cup {"assessing", "drafting", "needs_human", "ready"}
      /\ outbox'.state \in {"none", "pending", "dispatching", "cancelled", "failed_safe", "done"}
  BY DEF RowsOK, Preserved
<1> QED
  BY <1>1, <1>2, <1>3 DEF RowsOK, Preserved

(***************************************************************************)
(* The owner and the sources.                                              *)
(***************************************************************************)
LEMMA ProfileChangesKeepInv ==
  ASSUME Inv,
         \/ \E f \in Facts : ImportProfile(f) \/ \E v \in Values : ConfirmFact(f, v)
         \/ \E a \in Answers : SaveAnswer(a)
  PROVE  Inv'
<1> USE DEF Inv, TypeOK
<1>1. /\ profile' = profile + 1 /\ Invalidate /\ edits' = edits + 1
      /\ jobs' = jobs \cup Asked /\ tasks' = tasks
      /\ UNCHANGED <<policy, account, paused, shown, builder, dispatcher>>
  BY DEF ImportProfile, ConfirmFact, SaveAnswer, Snapshot, Edit
<1>2. OwnerOK'
  <2>1. fact' \in [Facts -> Records]
    <3>1. ASSUME NEW f \in Facts, ImportProfile(f)
          PROVE  fact' \in [Facts -> Records]
      <4>1. fact' = [fact EXCEPT ![f] = [status |-> "conflicting",
                       revision |-> fact[f].revision + 1, value |-> fact[f].value]]
        BY <3>1 DEF ImportProfile, OwnerOK, Records
      <4> QED
        BY <4>1 DEF OwnerOK, Records
    <3>2. ASSUME NEW f \in Facts, NEW v \in Values, ConfirmFact(f, v)
          PROVE  fact' \in [Facts -> Records]
      BY <3>2 DEF ConfirmFact, OwnerOK, Records
    <3>3. ASSUME NEW a \in Answers, SaveAnswer(a)
          PROVE  fact' \in [Facts -> Records]
      BY <3>3 DEF SaveAnswer, OwnerOK
    <3> QED
      BY <3>1, <3>2, <3>3
  <2>2. answer' \in [Answers -> Nat]
    <3>1. ASSUME NEW a \in Answers, SaveAnswer(a)
          PROVE  answer' \in [Answers -> Nat]
      BY <3>1 DEF SaveAnswer, OwnerOK
    <3>2. CASE answer' = answer
      BY <3>2 DEF OwnerOK
    <3> QED
      BY <3>1, <3>2 DEF ImportProfile, ConfirmFact
  <2>3. /\ profile' \in Nat
        /\ policy'.revision \in Nat /\ policy'.approved \in BOOLEAN
        /\ policy'.sender \in Accounts \cup {NoAccount}
        /\ IsSelection(policy.answers, Answers, Nat)'
    BY <1>1 DEF OwnerOK, IsSelection
  <2>4. account' \in Accounts \cup {NoAccount} /\ paused' \in BOOLEAN
    BY <1>1 DEF OwnerOK
  <2> QED
    BY <2>1, <2>2, <2>3, <2>4 DEF OwnerOK
<1>3. RowsOK' /\ Current'
  BY <1>1, InvalidateKeepsRows, InvalidateClears DEF Asked
<1>4. ShownOK' /\ DispatcherOK' /\ edits' \in Nat
  BY <1>1, KeepsShown, KeepsDispatcher
<1>5. BuildersOK' /\ BuilderInv'
  BY <1>1, KeepsBuilders DEF OwnerOK
<1> QED
  BY <1>2, <1>3, <1>4, <1>5

LEMMA SavePolicyKeepsInv ==
  ASSUME Inv, SavePolicy
  PROVE  Inv'
<1> USE DEF Inv, TypeOK
<1>1. /\ Invalidate /\ edits' = edits + 1 /\ jobs' = jobs \cup Asked /\ tasks' = tasks
      /\ UNCHANGED <<fact, answer, profile, account, paused, shown, builder, dispatcher>>
  BY DEF SavePolicy, Edit
<1>2. OwnerOK'
  <2> DEFINE IsPolicy(p) == /\ p.revision \in Nat /\ p.approved \in BOOLEAN
                             /\ p.sender \in Accounts \cup {NoAccount}
                             /\ IsSelection(p.answers, Answers, Nat)
  <2>1. IsPolicy(policy')
    <3>1. CASE Draft
      BY <3>1 DEF OwnerOK, Draft, IsSelection
    <3>2. ASSUME NEW A \in SUBSET {a \in Answers : answer[a] > 0}, Approve(A)
          PROVE  IsPolicy(policy')
      BY <3>2 DEF OwnerOK, Approve, IsSelection
    <3> QED
      BY <3>1, <3>2 DEF SavePolicy
  <2> QED
    BY <1>1, <2>1 DEF OwnerOK
<1>3. RowsOK' /\ Current'
  BY <1>1, InvalidateKeepsRows, InvalidateClears DEF Asked
<1>4. ShownOK' /\ DispatcherOK' /\ BuildersOK' /\ BuilderInv' /\ edits' \in Nat
  BY <1>1, KeepsShown, KeepsDispatcher, KeepsBuilders DEF OwnerOK
<1> QED
  BY <1>2, <1>3, <1>4

\* What no packet and no event is made for changes neither.
LEMMA ControlsKeepInv ==
  ASSUME Inv,
         \/ \E b \in Accounts \cup {NoAccount} : Connect(b)
         \/ Pause
         \/ \E t \in tasks : ResolveTask(t)
         \/ UNCHANGED vars
  PROVE  Inv'
<1> USE DEF Inv, TypeOK
<1>1. /\ UNCHANGED <<fact, answer, profile, policy, shown, built, outbox, builder, dispatcher>>
      /\ edits' = edits \/ edits' = edits + 1
  BY DEF Connect, Pause, ResolveTask, Edit, owner, rows, vars
<1>2. OwnerOK'
  <2>1. account' \in Accounts \cup {NoAccount} /\ paused' \in BOOLEAN
    BY DEF OwnerOK, Connect, Pause, ResolveTask, owner, vars
  <2> QED
    BY <1>1, <2>1, KeepsOwner
<1>3. RowsOK' /\ Current'
  <2>1. /\ application' = application \/ application' = "assessing"
        /\ jobs' \subseteq jobs \cup {"assess"}
        /\ tasks' \subseteq tasks
    BY DEF Reassess, Asked, Connect, Pause, ResolveTask, rows, vars
  <2>2. UNCHANGED <<packet, overtaken, assessed, posting>>
    BY <1>1 DEF built, shown
  <2> QED
    BY <1>1, <2>1, <2>2, KeepsRows, KeepsCurrent
<1>4. ShownOK' /\ DispatcherOK' /\ BuildersOK' /\ BuilderInv' /\ edits' \in Nat
  BY <1>1, KeepsShown, KeepsDispatcher, KeepsBuilders DEF OwnerOK
<1> QED
  BY <1>2, <1>3, <1>4

(***************************************************************************)
(* The posting.                                                            *)
(***************************************************************************)
\* A new content leaves nothing validated and nothing waiting.
LEMMA NewContentKeeps ==
  ASSUME RowsOK, posting \in Nat, NewContent,
         tasks' \subseteq tasks, jobs' \subseteq jobs \cup {"assess"}
  PROVE  RowsOK' /\ Current' /\ posting' \in Nat
BY InvalidateKeepsRows, InvalidateClears DEF NewContent

\* The record read as it was, or not read, changes nothing that is compared.
LEMMA VerificationKeeps ==
  ASSUME Inv, Verification, UNCHANGED owner
  PROVE  RowsOK' /\ ShownOK' /\ Current'
<1> USE DEF Inv, TypeOK
<1>1. UNCHANGED <<fact, profile, policy>>
  BY DEF owner
<1>2. CASE UNCHANGED <<shown, built, application, outbox, jobs>>
  <2>1. tasks' \subseteq tasks \cup {"verify"}
    BY <1>2 DEF Verification
  <2>2. UNCHANGED <<packet, overtaken, assessed, posting>>
    BY <1>2 DEF built, shown
  <2> QED
    BY <1>1, <1>2, <2>1, <2>2, KeepsRows, KeepsShown, KeepsCurrent
<1>3. CASE /\ listing' \in {"open", "closed", "unverified"} /\ fresh' = TRUE
           /\ tasks' \subseteq tasks /\ jobs' = jobs \cup {"assess"}
           /\ NewContent \/ UNCHANGED <<posting, built, application, outbox>>
  <2>1. CASE NewContent
    BY <1>3, <2>1, NewContentKeeps DEF ShownOK
  <2>2. CASE UNCHANGED <<posting, built, application, outbox>>
    <3>1. UNCHANGED <<packet, overtaken, assessed, posting>>
      BY <2>2 DEF built
    <3> QED
      BY <1>1, <1>3, <2>2, <3>1, KeepsRows, KeepsCurrent DEF ShownOK
  <2> QED
    BY <1>3, <2>1, <2>2
<1> QED
  BY <1>2, <1>3 DEF Verification

LEMMA ListingKeepsInv ==
  ASSUME Inv, Poll \/ Verify \/ Review \/ Expire \/ GrowStale
  PROVE  Inv'
<1> USE DEF Inv, TypeOK
<1>1. /\ UNCHANGED <<owner, builder, dispatcher>>
      /\ edits' \in Nat
  BY DEF Poll, Verify, Review, Expire, GrowStale, Edit
<1>2. OwnerOK' /\ DispatcherOK' /\ BuildersOK' /\ BuilderInv'
  BY <1>1, KeepsOwner, KeepsDispatcher, KeepsBuilders DEF OwnerOK, owner
<1>3. CASE Poll \/ Review
  <2>1. /\ NewContent /\ tasks' = tasks /\ jobs' \subseteq jobs \cup {"assess"}
        /\ listing' \in {"open", "closed", "unverified"} /\ fresh' \in BOOLEAN
    BY <1>3 DEF Poll, Review, Asked, ShownOK
  <2> QED
    BY <1>1, <1>2, <2>1, NewContentKeeps DEF ShownOK
<1>4. CASE Verify
  BY <1>1, <1>2, <1>4, VerificationKeeps DEF Verify
<1>5. CASE Expire \/ GrowStale
  <2>1. ShownOK' /\ UNCHANGED <<posting, rows>>
    BY <1>5 DEF Expire, GrowStale, ShownOK
  <2>2. RowsOK' /\ Current'
    BY <1>1, <2>1, KeepsRows, KeepsCurrent DEF rows, built, owner
  <2> QED
    BY <1>1, <1>2, <2>1, <2>2
<1> QED
  BY <1>3, <1>4, <1>5

(***************************************************************************)
(* Assessment and packet.                                                  *)
(***************************************************************************)
LEMMA AssessKeepsInv ==
  ASSUME Inv, Assess \/ RequestAssessment
  PROVE  Inv'
<1> USE DEF Inv, TypeOK
<1>1. /\ UNCHANGED <<owner, shown, packet, overtaken, tasks, outbox, builder, dispatcher>>
      /\ edits' \in Nat
  BY DEF Assess, RequestAssessment, Edit
<1>2. OwnerOK' /\ ShownOK' /\ DispatcherOK' /\ BuildersOK' /\ BuilderInv'
  BY <1>1, KeepsOwner, KeepsShown, KeepsDispatcher, KeepsBuilders DEF OwnerOK, owner
<1>3. RowsOK'
  <2>1. /\ assessed' \in Nat \X Nat
        /\ application' = application \/ application' = "drafting"
        /\ jobs' \subseteq jobs \cup {"assess", "prepare"}
    BY DEF Assess, RequestAssessment, AssessOpportunity, OwnerOK, ShownOK
  <2> QED
    BY <1>1, <2>1, KeepsRows
<1>4. Current'
  BY <1>1, KeepsCurrent DEF owner, shown
<1> QED
  BY <1>1, <1>2, <1>3, <1>4

\* A build states the facts of the profile it begins with.
LEMMA BeginKeepsInv ==
  ASSUME Inv, NEW b \in Builders, NEW others \in SUBSET {"assess", "prepare"},
         Begin(b, others), edits' \in Nat
  PROVE  Inv'
<1> USE DEF Inv, TypeOK
<1>1. UNCHANGED <<owner, shown, packet, overtaken, tasks, outbox, dispatcher>>
  BY DEF Begin
<1>2. OwnerOK' /\ ShownOK' /\ DispatcherOK'
  BY <1>1, KeepsOwner, KeepsShown, KeepsDispatcher DEF OwnerOK, owner
<1>3. PICK F \in SUBSET Facts, A \in SUBSET Answers :
        builder' = [builder EXCEPT ![b] = [pc |-> "building", made |-> Made(F, A)]]
  BY AuthorityAssumption DEF Begin
<1>4. /\ builder'[b] = [pc |-> "building", made |-> Made(F, A)]
      /\ \A c \in Builders \ {b} : builder'[c] = builder[c]
      /\ builder' = [c \in Builders |-> builder'[c]]
  BY <1>3 DEF BuildersOK
<1>5. BuildersOK'
  <2>1. IsMade(Made(F, A))
    BY MadeIsMade
  <2>2. Building(b)' /\ IsMade(builder[b].made)'
    <3>1. builder'[b].made = Made(F, A) /\ builder'[b].pc = "building"
      BY <1>4
    <3> QED
      BY <2>1, <3>1 DEF Building, IsMade
  <2>3. ASSUME NEW c \in Builders \ {b}
        PROVE  (builder[c] = Resting \/ (Building(c) /\ IsMade(builder[c].made)))'
    BY <1>4, <2>3 DEF BuildersOK, Building, IsMade, Resting
  <2> QED
    BY <1>4, <2>2, <2>3 DEF BuildersOK
<1>6. BuilderInv'
  <2>1. builder'[b].made.profile = profile /\ profile' = profile /\ fact' = fact /\ profile \in Nat
    BY <1>1, <1>4 DEF Made, owner, OwnerOK
  <2>2. \A f \in DOMAIN builder'[b].made.facts : fact'[f] = builder'[b].made.facts[f]
    BY <1>1, <1>4 DEF Made, owner
  <2>3. \A c \in Builders \ {b} : Building(c)' => Building(c) /\ builder'[c] = builder[c]
    BY <1>4 DEF Building
  <2> QED
    BY <2>1, <2>2, <2>3 DEF BuilderInv
<1>7. RowsOK'
  <2>1. /\ assessed' = assessed \/ assessed' \in Nat \X Nat
        /\ application' = application \/ application' = "drafting"
        /\ jobs' \subseteq {"assess", "prepare"}
    <3>1. CASE assessed = <<profile, posting>>
      <4>1. jobs' = others /\ UNCHANGED <<assessed, application>>
        BY <3>1 DEF Begin
      <4> QED
        BY <4>1
    <3>2. CASE assessed # <<profile, posting>>
      <4>1. AssessOpportunity(others)
        BY <3>2 DEF Begin
      <4>2. jobs' \subseteq others \cup {"prepare"}
        BY <4>1 DEF AssessOpportunity
      <4>3. assessed' = <<profile, posting>> /\ profile \in Nat /\ posting \in Nat
        BY <4>1 DEF AssessOpportunity, OwnerOK, ShownOK
      <4>4. application' = application \/ application' = "drafting"
        BY <4>1 DEF AssessOpportunity
      <4> QED
        BY <4>2, <4>3, <4>4
    <3> QED
      BY <3>1, <3>2
  <2> QED
    BY <1>1, <2>1, KeepsRows
<1>8. Current'
  BY <1>1, KeepsCurrent DEF owner, shown, Begin, AssessOpportunity
<1> QED
  BY <1>2, <1>5, <1>6, <1>7, <1>8

LEMMA PrepareReadKeepsInv ==
  ASSUME Inv, PrepareRead
  PROVE  Inv'
<1>1. Worker \in Builders /\ edits' \in Nat /\ jobs \ {"prepare"} \in SUBSET {"assess", "prepare"}
  BY DEF Inv, TypeOK, RowsOK, PrepareRead, Builders
<1>2. Begin(Worker, jobs \ {"prepare"})
  BY DEF PrepareRead
<1> QED
  BY <1>1, <1>2, BeginKeepsInv

LEMMA RequestPacketKeepsInv ==
  ASSUME Inv, NEW b \in Others, RequestPacket(b)
  PROVE  Inv'
<1>1. b \in Builders /\ edits' \in Nat /\ jobs \in SUBSET {"assess", "prepare"}
  BY DEF Inv, TypeOK, RowsOK, RequestPacket, Edit, Builders
<1>2. Begin(b, jobs)
  BY DEF RequestPacket
<1> QED
  BY <1>1, <1>2, BeginKeepsInv

\* The build goes on as it began, without the lease.
LEMMA LoseLeaseKeepsInv ==
  ASSUME Inv, NEW b \in Others, LoseLease(b)
  PROVE  Inv'
<1> USE DEF Inv, TypeOK
<1>1. /\ UNCHANGED <<owner, shown, built, tasks, application, outbox, dispatcher>>
      /\ edits' \in Nat /\ jobs' = jobs \cup {"prepare"}
  BY DEF LoseLease, Edit
<1>2. OwnerOK' /\ ShownOK' /\ DispatcherOK'
  BY <1>1, KeepsOwner, KeepsShown, KeepsDispatcher DEF OwnerOK, owner
<1>3. RowsOK' /\ Current'
  <2>1. UNCHANGED <<packet, overtaken, assessed, posting>>
    BY <1>1 DEF built, shown
  <2> QED
    BY <1>1, <2>1, KeepsRows, KeepsCurrent DEF owner
<1>4. /\ b \in Builders /\ Worker \in Builders /\ b # Worker
      /\ builder' = [builder EXCEPT ![b] = builder[Worker], ![Worker] = Resting]
  BY AuthorityAssumption DEF LoseLease, Builders
<1>5. /\ builder'[b] = builder[Worker] /\ builder'[Worker] = Resting
      /\ \A c \in Builders \ {b, Worker} : builder'[c] = builder[c]
      /\ builder' = [c \in Builders |-> builder'[c]]
  BY <1>4 DEF BuildersOK
<1>6. \A c \in Builders : \E d \in Builders : builder'[c] = Resting \/ builder'[c] = builder[d]
  BY <1>4, <1>5
<1>7. BuildersOK'
  BY <1>5, <1>6 DEF BuildersOK, Building, Resting, IsMade
<1>8. BuilderInv'
  BY <1>1, <1>6 DEF BuilderInv, Building, Resting, owner
<1> QED
  BY <1>1, <1>2, <1>3, <1>7, <1>8

\* A packet becomes validated only when nothing it was made from has changed.
LEMMA PrepareWriteKeepsInv ==
  ASSUME Inv, NEW b \in Builders, PrepareWrite(b)
  PROVE  Inv'
<1> USE DEF Inv, TypeOK
<1> DEFINE made == builder[b].made
<1>1. UNCHANGED <<owner, shown, assessed, outbox, jobs, dispatcher, edits>>
  BY DEF PrepareWrite
<1>2. OwnerOK' /\ ShownOK' /\ DispatcherOK'
  BY <1>1, KeepsOwner, KeepsShown, KeepsDispatcher DEF OwnerOK, owner
<1>3. /\ builder'[b] = Resting
      /\ \A c \in Builders \ {b} : builder'[c] = builder[c]
      /\ builder' = [c \in Builders |-> builder'[c]]
  BY DEF PrepareWrite, BuildersOK
<1>4. BuildersOK'
  BY <1>3 DEF BuildersOK, Building, Resting, IsMade
<1>5. BuilderInv'
  BY <1>1, <1>3 DEF BuilderInv, Building, Resting, owner
<1>6. QueuedIsCurrent'
  BY <1>1 DEF Current, QueuedIsCurrent, Latest, owner, shown
<1>7. tasks' \subseteq tasks \cup {"packet"}
  BY DEF PrepareWrite
<1>8. CASE application \in Preserved
  <2>1. UNCHANGED <<packet, overtaken, application>>
    BY <1>8 DEF PrepareWrite
  <2>2. RowsOK'
    BY <1>1, <1>7, <2>1 DEF RowsOK, IsMade, Preserved
  <2>3. ValidatedIsCurrent'
    BY <1>1, <2>1 DEF Current, ValidatedIsCurrent, FactsConfirmed, Latest, owner, shown
  <2> QED
    BY <1>1, <1>2, <1>4, <1>5, <1>6, <2>2, <2>3 DEF Current
<1>9. CASE application \notin Preserved
  <2>1. /\ packet' = [made |-> made, status |-> Status(made)]
        /\ overtaken' \in BOOLEAN /\ application' \in {"drafting", "needs_human"}
        /\ Building(b)
    BY <1>9 DEF PrepareWrite, Older
  <2>2. packet'.made = made /\ packet'.status = Status(made)
    BY <2>1
  <2>3. IsMade(made)
    BY <2>1 DEF BuildersOK, Building, Resting
  <2>4. RowsOK'
    <3>1. IsMade(packet.made)'
      BY <2>2, <2>3 DEF IsMade
    <3>2. packet'.status \in {"stale", "draft", "validated"}
      BY <2>2 DEF Status
    <3> QED
      BY <1>1, <1>7, <2>1, <3>1, <3>2 DEF RowsOK, Preserved
  <2>5. ASSUME Status(made) = "validated"
        PROVE  Revisions(made) = Latest /\ ~ Blocked(made)
    BY <2>5 DEF Status
  <2>6. ASSUME Status(made) = "validated"
        PROVE  FactsConfirmed(made)
    <3>1. made.profile = profile
      BY <2>5, <2>6 DEF Revisions, Latest
    <3>2. \A f \in DOMAIN made.facts : fact[f] = made.facts[f]
      BY <2>1, <3>1 DEF BuilderInv
    <3> QED
      BY <2>5, <2>6, <3>2 DEF FactsConfirmed, Blocked
  <2>7. ValidatedIsCurrent'
    BY <1>1, <2>2, <2>5, <2>6
       DEF ValidatedIsCurrent, Latest, Revisions, FactsConfirmed, owner, shown
  <2> QED
    BY <1>1, <1>2, <1>4, <1>5, <1>6, <2>4, <2>7 DEF Current
<1> QED
  BY <1>8, <1>9

(***************************************************************************)
(* The gates.                                                              *)
(***************************************************************************)
\* Only a current packet is queued.
LEMMA QueueKeepsInv ==
  ASSUME Inv, QueueApplication
  PROVE  Inv'
<1> USE DEF Inv, TypeOK
<1>1. UNCHANGED <<owner, shown, built, tasks, jobs, builder, dispatcher, edits>>
  BY DEF QueueApplication
<1>2. OwnerOK' /\ ShownOK' /\ DispatcherOK' /\ BuildersOK' /\ BuilderInv'
  BY <1>1, KeepsOwner, KeepsShown, KeepsDispatcher, KeepsBuilders DEF OwnerOK, owner
<1>3. outbox'.state = "pending" /\ outbox'.for = Revisions(packet.made) /\ application' = "ready"
  BY DEF QueueApplication
<1>4. RowsOK'
  BY <1>1, <1>3, KeepsRows DEF built
<1>5. Revisions(packet.made) = Latest
  BY DEF QueueApplication, Disposition, Authorized
<1>6. Current'
  BY <1>1, <1>3, <1>5
     DEF Current, ValidatedIsCurrent, QueuedIsCurrent, FactsConfirmed, Latest, owner, shown, built
<1> QED
  BY <1>1, <1>2, <1>4, <1>6

LEMMA RefreshKeepsInv ==
  ASSUME Inv, Refresh
  PROVE  Inv'
<1> USE DEF Inv, TypeOK
<1>1. /\ Verification /\ UNCHANGED <<owner, builder>> /\ dispatcher' = [pc |-> "verified"]
      /\ edits' \in Nat
  BY DEF Refresh, Edit
<1>2. OwnerOK' /\ BuildersOK' /\ BuilderInv'
  BY <1>1, KeepsOwner, KeepsBuilders DEF OwnerOK, owner
<1>3. DispatcherOK'
  BY <1>1 DEF DispatcherOK
<1> QED
  BY <1>1, <1>2, <1>3, VerificationKeeps

LEMMA DispatchKeepsInv ==
  ASSUME Inv,
         RefuseDispatch \/ HoldDispatch \/ StartDispatch \/ PassGate \/ Reject \/ Accept
  PROVE  Inv'
<1> USE DEF Inv, TypeOK
<1>1. UNCHANGED <<owner, shown, built, jobs, builder, edits>>
  BY DEF StartDispatch, PassGate, Reject, Accept, RefuseDispatch, HoldDispatch, rows
<1>2. outbox' = outbox \/ outbox'.state \in {"dispatching", "cancelled", "failed_safe", "done"}
  BY DEF StartDispatch, PassGate, Reject, Accept, RefuseDispatch, HoldDispatch, Moved, rows
<1>3. DispatcherOK'
  <2>1. \/ dispatcher' = Resting
        \/ dispatcher'.pc = "started" /\ dispatcher'.made = packet.made
        \/ dispatcher.pc = "started" /\ dispatcher'.pc = "cleared" /\ dispatcher'.made = dispatcher.made
    BY DEF StartDispatch, PassGate, Reject, Accept, RefuseDispatch, HoldDispatch
  <2>2. IsMade(packet.made)
    BY DEF RowsOK
  <2> QED
    BY <2>1, <2>2 DEF DispatcherOK, Resting, IsMade
<1>4. /\ application' = application \/ application' \in Preserved \cup {"needs_human"}
      /\ tasks' \subseteq tasks \cup {"submission"}
  BY DEF StartDispatch, PassGate, Reject, Accept, RefuseDispatch, HoldDispatch, Preserved, rows
<1>5. RowsOK'
  BY <1>1, <1>2, <1>4, KeepsRows DEF built
<1>6. OwnerOK' /\ ShownOK' /\ BuildersOK' /\ BuilderInv'
  BY <1>1, KeepsOwner, KeepsShown, KeepsBuilders DEF OwnerOK, owner
<1>7. Current'
  BY <1>1, <1>2, KeepsCurrent DEF owner, shown, built
<1> QED
  BY <1>1, <1>3, <1>5, <1>6, <1>7

LEMMA NextInv == Inv /\ [Next]_vars => Inv'
BY ProfileChangesKeepInv, SavePolicyKeepsInv, ControlsKeepInv, ListingKeepsInv, AssessKeepsInv,
   PrepareReadKeepsInv, RequestPacketKeepsInv, LoseLeaseKeepsInv, PrepareWriteKeepsInv,
   QueueKeepsInv, RefreshKeepsInv, DispatchKeepsInv DEF Next, Prepare, Dispatch

LEMMA InvHolds == Spec => []Inv
BY InitInv, NextInv, PTL DEF Spec

\* Rows and local states keep their shape.
THEOREM AuthorityTypeCorrect == Spec => []TypeOK
<1>1. Inv => TypeOK
  BY DEF Inv
<1> QED
  BY InvHolds, <1>1, PTL

\* A validated packet was made from the latest profile, policy and content, and
\* states only facts that are confirmed as it states them, however many builds
\* overlap and whichever of them writes last.
THEOREM ValidatedIsCurrentHolds == Spec => []ValidatedIsCurrent
<1>1. Inv => ValidatedIsCurrent
  BY DEF Inv, Current
<1> QED
  BY InvHolds, <1>1, PTL

\* An event waits only while nothing changed of what it was queued for.
THEOREM QueuedIsCurrentHolds == Spec => []QueuedIsCurrent
<1>1. Inv => QueuedIsCurrent
  BY DEF Inv, Current
<1> QED
  BY InvHolds, <1>1, PTL

\* The final gate lets nothing pass that the owner does not confirm and approve
\* at that time, or whose posting was not verified lately.
THEOREM ClearedIsConfirmedHolds == Spec => ClearedIsConfirmed
<1> DEFINE Confirmed ==
      /\ policy.approved /\ ~ paused /\ tasks = {} /\ listing = "open" /\ fresh
      /\ policy.sender = account
      /\ \A f \in DOMAIN dispatcher.made.facts :
           fact[f].status = "confirmed" /\ fact[f].value = dispatcher.made.facts[f].value
      /\ \A a \in DOMAIN dispatcher.made.answers :
           a \in DOMAIN policy.answers /\ dispatcher.made.answers[a] = answer[a]
<1>1. ASSUME [Next]_vars, dispatcher.pc = "started", dispatcher'.pc = "cleared"
      PROVE  PassGate
  <2>1. dispatcher' # dispatcher
    BY <1>1
  <2>2. Dispatch
    BY <1>1, <2>1 DEF Next, vars, ImportProfile, ConfirmFact, SaveAnswer, SavePolicy, Connect,
       Pause, ResolveTask, Poll, Verify, Review, Expire, GrowStale, Assess, RequestAssessment,
       Begin, PrepareRead, RequestPacket, LoseLease, PrepareWrite, Prepare, QueueApplication
  <2> QED
    BY <1>1, <2>1, <2>2 DEF Dispatch, StartDispatch, Reject, Accept, RefuseDispatch, Resting,
       Refresh, HoldDispatch
<1>2. ASSUME Inv, PassGate
      PROVE  Confirmed
  <2>1. Disposition = "ready" /\ packet.made = dispatcher.made
    BY <1>2 DEF PassGate, FinalGate
  <2>2. Authorized
    BY <2>1 DEF Disposition, Authorized
  <2>3. policy.approved /\ ~ paused
    BY <1>2, <2>1 DEF Disposition, Authorized, Inv, TypeOK, OwnerOK
  <2> QED
    BY <2>1, <2>2, <2>3 DEF Authorized, FactsConfirmed, AnswersConfirmed
<1>3. Inv /\ [Next]_vars
        => [dispatcher.pc = "started" /\ dispatcher'.pc = "cleared" => Confirmed]_vars
  BY <1>1, <1>2
<1> QED
  BY <1>3, InvHolds, PTL DEF Spec, ClearedIsConfirmed
=============================================================================
