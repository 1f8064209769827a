----------------------- MODULE BrowserSubmissionProofs -----------------------
(***************************************************************************)
(* Proofs about submissions through a form, for any number of attempts and *)
(* of redirects: what is handed over had not been let through when that    *)
(* was decided, what is reported as accepted was received, and but for     *)
(* POSTs let through late the attempts implement SubmissionEffect.         *)
(***************************************************************************)
EXTENDS BrowserSubmission, TLAPS

\* What reached the employer, by the handler or by redirects, was let through
\* and noted before.
RequestInv(a) ==
  /\ received[a] > 0 => run[a].effect
  /\ run[a].wire \in {"none", "asked"} => ~ run[a].effect
  /\ run[a].wire = "posting" => run[a].effect /\ received[a] = 0
  /\ run[a].wire \in {"moved", "repeat"} => received[a] > 0
  /\ run[a].posts = 0 \/ run[a].effect

\* What the employer took it received, and a receipt is one for this attempt.
EmployerInv(a) ==
  /\ a \in applied => received[a] > 0
  /\ run[a].page = "receipt" => a \in applied
  /\ run[a].pc = "clicked" => run[a].reviewed

\* A decision rests on the notes there were, and what is reported on the decision.
VerdictInv(a) ==
  /\ run[a].pc \in {"idle", "opening", "read"} => run[a].wire = "none" /\ ~ run[a].effect
  /\ run[a].pc \notin {"ending", "returned", "dead"} => run[a].verdict = "none"
  /\ run[a].verdict = "not_accepted" /\ run[a].effect => run[a].late
  /\ run[a].verdict = "accepted" => a \in applied /\ run[a].reviewed
  /\ run[a].result # "none" => run[a].pc = "returned"
  /\ run[a].result \in {"accepted", "not_accepted"} => run[a].verdict = run[a].result

\* An attempt that began and was not refused is the only one of its kind.
Unrefused(a) == run[a].pc # "idle" /\ ~ Refused(a)
OneUnrefused == \A a, b \in Attempts : Unrefused(a) /\ Unrefused(b) => a = b

Inv ==
  /\ TypeOK /\ OneUnrefused
  /\ \A a \in Attempts : RequestInv(a) /\ EmployerInv(a) /\ VerdictInv(a)

LEMMA InitInv == Init => Inv
<1> SUFFICES ASSUME Init PROVE Inv
  OBVIOUS
<1> USE DEF Init, Unstarted, Refused
<1>1. TypeOK
  BY DEF TypeOK, Runs, Pages, Verdicts
<1>2. OneUnrefused
  BY DEF OneUnrefused, Unrefused
<1>3. \A a \in Attempts : EmployerInv(a) /\ VerdictInv(a)
  BY DEF EmployerInv, VerdictInv
<1>4. \A a \in Attempts : RequestInv(a)
  <2> SUFFICES ASSUME NEW a \in Attempts PROVE RequestInv(a)
    OBVIOUS
  <2>1. received[a] = 0 /\ run[a].wire = "none" /\ run[a].posts = 0 /\ ~ run[a].effect
    OBVIOUS
  <2> QED
    BY <2>1 DEF RequestInv
<1> QED
  BY <1>1, <1>2, <1>3, <1>4 DEF Inv

LEMMA SubmitKeepsInv ==
  ASSUME Inv, NEW a \in Attempts, Submit(a)
  PROVE  Inv'
<1> USE DEF Inv, Submit,
            TypeOK, Runs, Pages, Verdicts, Refused
<1>1. TypeOK'
  OBVIOUS
<1>2. OneUnrefused'
  BY DEF OneUnrefused, Unrefused, VerdictInv
<1>3. \A b \in Attempts : RequestInv(b)'
  BY DEF RequestInv, VerdictInv
<1>4. \A b \in Attempts : EmployerInv(b)'
  BY DEF EmployerInv, VerdictInv, RequestInv
<1>5. \A b \in Attempts : VerdictInv(b)'
  BY DEF VerdictInv, RequestInv, EmployerInv
<1> QED
  BY <1>1, <1>2, <1>3, <1>4, <1>5

LEMMA PageKeepsInv ==
  ASSUME Inv, NEW a \in Attempts, Read(a) \/ Fill(a)
  PROVE  Inv'
<1> USE DEF Inv, Read, Fill,
            TypeOK, Runs, Pages, Verdicts, Refused
<1>1. TypeOK'
  OBVIOUS
<1>2. OneUnrefused'
  BY DEF OneUnrefused, Unrefused, VerdictInv
<1>3. \A b \in Attempts : RequestInv(b)'
  BY DEF RequestInv, VerdictInv
<1>4. \A b \in Attempts : EmployerInv(b)'
  BY DEF EmployerInv, VerdictInv, RequestInv
<1>5. \A b \in Attempts : VerdictInv(b)'
  BY DEF VerdictInv, RequestInv, EmployerInv
<1> QED
  BY <1>1, <1>2, <1>3, <1>4, <1>5

\* A POST let through after a decision is noted as late.
LEMMA RoutePostKeepsInv ==
  ASSUME Inv, NEW a \in Attempts, RoutePost(a)
  PROVE  Inv'
<1> USE DEF Inv, RoutePost, Waiting, Pass, Abort,
            TypeOK, Runs, Pages, Verdicts, Refused
<1>1. TypeOK'
  OBVIOUS
<1>2. OneUnrefused'
  BY DEF OneUnrefused, Unrefused, VerdictInv
<1>3. \A b \in Attempts : RequestInv(b)'
  BY DEF RequestInv, VerdictInv
<1>4. \A b \in Attempts : EmployerInv(b)'
  BY DEF EmployerInv, VerdictInv, RequestInv
<1>5. \A b \in Attempts : VerdictInv(b)'
  BY DEF VerdictInv, RequestInv, EmployerInv
<1> QED
  BY <1>1, <1>2, <1>3, <1>4, <1>5

LEMMA TransportKeepsInv ==
  ASSUME Inv, NEW a \in Attempts, Transport(a)
  PROVE  Inv'
<1> USE DEF Inv, Transport, Waiting, Reached, ShownPage, Redirected, Abort,
            TypeOK, Runs, Pages, Verdicts, Refused
<1>1. TypeOK'
  OBVIOUS
<1>2. OneUnrefused'
  BY DEF OneUnrefused, Unrefused, VerdictInv
<1>3. \A b \in Attempts : RequestInv(b)'
  <2>1. run[a].effect /\ received'[a] = 1
    BY DEF RequestInv
  <2>2. /\ run'[a].effect = run[a].effect /\ run'[a].posts = run[a].posts
        /\ run'[a].wire \in {"over", "moved", "repeat"}
    OBVIOUS
  <2>3. RequestInv(a)'
    BY <2>1, <2>2 DEF RequestInv
  <2>4. \A b \in Attempts \ {a} : run'[b] = run[b] /\ received'[b] = received[b]
    OBVIOUS
  <2>5. \A b \in Attempts \ {a} : RequestInv(b)'
    BY <2>4 DEF RequestInv
  <2> QED
    BY <2>3, <2>5
<1>4. \A b \in Attempts : EmployerInv(b)'
  BY DEF EmployerInv, VerdictInv, RequestInv
<1>5. \A b \in Attempts : VerdictInv(b)'
  BY DEF VerdictInv, RequestInv, EmployerInv
<1> QED
  BY <1>1, <1>2, <1>3, <1>4, <1>5

LEMMA RepeatKeepsInv ==
  ASSUME Inv, NEW a \in Attempts, Repeat(a)
  PROVE  Inv'
<1> USE DEF Inv, Repeat, Running, Reached, ShownPage, Redirected,
            TypeOK, Runs, Pages, Verdicts, Refused
<1>1. TypeOK'
  OBVIOUS
<1>2. OneUnrefused'
  BY DEF OneUnrefused, Unrefused, VerdictInv
<1>3. \A b \in Attempts : RequestInv(b)'
  BY DEF RequestInv, VerdictInv
<1>4. \A b \in Attempts : EmployerInv(b)'
  BY DEF EmployerInv, VerdictInv, RequestInv
<1>5. \A b \in Attempts : VerdictInv(b)'
  BY DEF VerdictInv, RequestInv, EmployerInv
<1> QED
  BY <1>1, <1>2, <1>3, <1>4, <1>5

LEMMA AnswerKeepsInv ==
  ASSUME Inv, NEW a \in Attempts, TransportFails(a) \/ Follow(a) \/ Crash(a)
  PROVE  Inv'
<1> USE DEF Inv, TransportFails, Follow, Crash, Waiting, Running, Abort,
            TypeOK, Runs, Pages, Verdicts, Refused
<1>1. TypeOK'
  OBVIOUS
<1>2. OneUnrefused'
  BY DEF OneUnrefused, Unrefused, VerdictInv
<1>3. \A b \in Attempts : RequestInv(b)'
  BY DEF RequestInv, VerdictInv
<1>4. \A b \in Attempts : EmployerInv(b)'
  BY DEF EmployerInv, VerdictInv, RequestInv
<1>5. \A b \in Attempts : VerdictInv(b)'
  BY DEF VerdictInv, RequestInv, EmployerInv
<1> QED
  BY <1>1, <1>2, <1>3, <1>4, <1>5

LEMMA DecideKeepsInv ==
  ASSUME Inv, NEW a \in Attempts, Accept(a) \/ Raise(a)
  PROVE  Inv'
<1> USE DEF Inv, Accept, Raise, Decide, Verdict, ShowsReceipt, Running,
            TypeOK, Runs, Pages, Verdicts, Refused
<1>1. TypeOK'
  OBVIOUS
<1>2. OneUnrefused'
  BY DEF OneUnrefused, Unrefused, VerdictInv
<1>3. \A b \in Attempts : RequestInv(b)'
  BY DEF RequestInv, VerdictInv
<1>4. \A b \in Attempts : EmployerInv(b)'
  BY DEF EmployerInv, VerdictInv, RequestInv
<1>5. \A b \in Attempts : VerdictInv(b)'
  BY DEF VerdictInv, RequestInv, EmployerInv
<1> QED
  BY <1>1, <1>2, <1>3, <1>4, <1>5

LEMMA ReturnKeepsInv ==
  ASSUME Inv, NEW a \in Attempts, Close(a) \/ RaiseEarly(a)
  PROVE  Inv'
<1> USE DEF Inv, Close, RaiseEarly, Return,
            TypeOK, Runs, Pages, Verdicts, Refused
<1>1. TypeOK'
  OBVIOUS
<1>2. OneUnrefused'
  BY DEF OneUnrefused, Unrefused, VerdictInv
<1>3. \A b \in Attempts : RequestInv(b)'
  BY DEF RequestInv, VerdictInv
<1>4. \A b \in Attempts : EmployerInv(b)'
  BY DEF EmployerInv, VerdictInv, RequestInv
<1>5. \A b \in Attempts : VerdictInv(b)'
  BY DEF VerdictInv, RequestInv, EmployerInv
<1> QED
  BY <1>1, <1>2, <1>3, <1>4, <1>5

LEMMA OthersKeepInv ==
  ASSUME Inv, EmployerChangesForm \/ GateChanges \/ UNCHANGED vars
  PROVE  Inv'
<1> USE DEF Inv, EmployerChangesForm, GateChanges, vars, Refused
<1>1. UNCHANGED <<run, received, applied>> /\ form' \in {"reviewed", "changed"} /\ allowed' \in BOOLEAN
  BY DEF TypeOK
<1>2. TypeOK'
  BY <1>1 DEF TypeOK
<1>3. OneUnrefused'
  BY <1>1 DEF OneUnrefused, Unrefused
<1>4. \A a \in Attempts : (RequestInv(a) /\ EmployerInv(a) /\ VerdictInv(a))'
  BY <1>1 DEF RequestInv, EmployerInv, VerdictInv
<1> QED
  BY <1>2, <1>3, <1>4

LEMMA InvHolds == Spec => []Inv
<1>1. Inv /\ [Next]_vars => Inv'
  BY SubmitKeepsInv, PageKeepsInv, RoutePostKeepsInv, TransportKeepsInv, RepeatKeepsInv,
     AnswerKeepsInv, DecideKeepsInv, ReturnKeepsInv, OthersKeepInv DEF Next
<1> QED
  BY InitInv, <1>1, PTL DEF Spec

\* Local states keep their shape and the handler lets no second POST pass.
THEOREM BrowserTypeCorrect == Spec => []TypeOK
<1>1. Inv => TypeOK
  BY DEF Inv
<1> QED
  BY InvHolds, <1>1, PTL

\* What the owner is asked to do by hand, or a retry repeats, had not been let
\* through when that was decided.
THEOREM HandoffIsUnsentHolds == Spec => []HandoffIsUnsent
<1>1. Inv => HandoffIsUnsent
  BY DEF Inv, TypeOK, HandoffIsUnsent, Refused, RequestInv, VerdictInv
<1> QED
  BY InvHolds, <1>1, PTL

\* What is reported as accepted was received, as reviewed, and taken, whatever
\* redirects led to the receipt.
THEOREM AcceptedIsReceivedHolds == Spec => []AcceptedIsReceived
<1>1. Inv => AcceptedIsReceived
  BY DEF Inv, AcceptedIsReceived, EmployerInv, VerdictInv
<1> QED
  BY InvHolds, <1>1, PTL

LEMMA BrowserInitRefines == Init => Effects!Init
BY DEF Init, Unstarted, Refused, Sent, Effects!Init

LEMMA BrowserStepRefines == Inv /\ [Next]_vars => [Effects!Next]_Effects!evars
<1> SUFFICES ASSUME Inv, [Next]_vars PROVE [Effects!Next]_Effects!evars
  OBVIOUS
<1> DEFINE Owner == [a \in Attempts |-> IF run[a].pc = "idle" THEN NoApp ELSE App]
           Refusals == {a \in Attempts : Refused(a)}
<1> USE DEF Inv, TypeOK, Runs, Verdicts, Refused
<1>1. ASSUME NEW a \in Attempts, Submit(a)
      PROVE  Effects!Begin(App, a)
  <2>1. Effects!Of(App) \subseteq Refusals
    BY <1>1, BrowserAssumption DEF Submit, Effects!Of
  <2>2. Owner' = [Owner EXCEPT ![a] = App]
    BY <1>1 DEF Submit
  <2>3. Refusals' = Refusals /\ Sent' = Sent
    BY <1>1 DEF Submit, Sent
  <2> QED
    BY <1>1, <2>1, <2>2, <2>3 DEF Submit, Effects!Begin
<1>2. ASSUME NEW a \in Attempts, Transport(a)
      PROVE  Effects!Accept(a) \/ UNCHANGED Effects!evars
  <2> USE DEF Transport, Reached, Waiting, ShownPage, Redirected, Abort
  <2>1. Owner' = Owner /\ Refusals' = Refusals /\ Owner[a] # NoApp
    BY <1>2, BrowserAssumption
  <2>2. a \notin Sent \cup Refusals
    BY <1>2 DEF Sent, RequestInv, VerdictInv
  <2>3. Sent' = IF run[a].late THEN Sent ELSE Sent \cup {a}
    BY <1>2, <2>2 DEF Sent, RequestInv
  <2> QED
    BY <2>1, <2>2, <2>3 DEF Effects!Accept, Effects!evars
<1>3. ASSUME NEW a \in Attempts, Close(a)
      PROVE  Effects!Refuse(a) \/ UNCHANGED Effects!evars
  <2> USE DEF Close, Return
  <2>1. Owner' = Owner /\ Sent' = Sent /\ Owner[a] # NoApp
    BY <1>3, BrowserAssumption DEF Sent
  <2>2. CASE run'[a].result = "not_accepted"
    <3>1. Refusals' = Refusals \cup {a}
      BY <1>3, <2>2
    <3>2. a \notin Sent
      BY <1>3, <2>2 DEF Sent, RequestInv, VerdictInv
    <3> QED
      BY <2>1, <3>1, <3>2 DEF Effects!Refuse
  <2>3. CASE run'[a].result # "not_accepted"
    <3>1. Refusals' = Refusals
      BY <1>3, <2>3 DEF VerdictInv
    <3> QED
      BY <2>1, <3>1 DEF Effects!evars
  <2> QED
    BY <2>2, <2>3
<1>4. ASSUME NEW a \in Attempts, RoutePost(a) \/ Repeat(a)
      PROVE  UNCHANGED Effects!evars
  <2> USE DEF RoutePost, Repeat, Waiting, Running, Pass, Abort, Reached, ShownPage, Redirected
  <2>1. Owner' = Owner /\ Refusals' = Refusals
    BY <1>4
  <2>2. Sent' = Sent
    BY <1>4 DEF Sent, RequestInv
  <2> QED
    BY <2>1, <2>2 DEF Effects!evars
<1>5. ASSUME NEW a \in Attempts,
             \/ Read(a) \/ Fill(a) \/ TransportFails(a) \/ Follow(a)
             \/ Accept(a) \/ Raise(a) \/ RaiseEarly(a) \/ Crash(a)
      PROVE  UNCHANGED Effects!evars
  <2> USE DEF Read, Fill, TransportFails, Follow, Accept, Raise, Decide, RaiseEarly, Return,
              Crash, Waiting, Running, Abort
  <2>1. Owner' = Owner /\ Sent' = Sent
    BY <1>5 DEF Sent
  <2>2. Refusals' = Refusals
    BY <1>5 DEF VerdictInv
  <2> QED
    BY <2>1, <2>2 DEF Effects!evars
<1>6. CASE EmployerChangesForm \/ GateChanges \/ UNCHANGED vars
  BY <1>6 DEF EmployerChangesForm, GateChanges, vars, Sent, Effects!evars
<1> QED
  BY <1>1, <1>2, <1>3, <1>4, <1>5, <1>6 DEF Next, Effects!Next

\* Seen from the employer, and but for POSTs let through after a decision,
\* submissions through a form implement the abstract SubmissionEffect: each step
\* begins, sends or refuses an attempt as that module allows, or changes nothing.
THEOREM BrowserImplementation == Spec => ImplementsEffects
<1> QED
  BY InvHolds, BrowserInitRefines, BrowserStepRefines, PTL DEF Spec, ImplementsEffects, Effects!Spec
=============================================================================
