-------------------------- MODULE AuxiliaryProofs --------------------------
(***************************************************************************)
(* Proofs about follow-ups and owner emails: at most one request per key,  *)
(* true results and no silent uncertainty, for any numbers of keys,        *)
(* workers and crashes.                                                    *)
(***************************************************************************)
EXTENDS Auxiliary, TLAPS

\* A worker holds its key alone, and the row of that key is not closed as
\* refused, nor as sent where only the worker can know.
HeldInv ==
  /\ \A w \in Workers :
       /\ worker[w].pc = "idle" <=> worker[w].key = NoKey
       /\ worker[w].key # NoKey =>
            /\ event[worker[w].key] \in {"dispatching", "uncertain", "done"}
            /\ worker[w].key \in Notices => event[worker[w].key] # "done"
  /\ \A v, w \in Workers :
       worker[v].key = worker[w].key /\ worker[v].key # NoKey => v = w

\* What a worker knows of its request is true.
RequestInv ==
  \A w \in Workers :
    /\ worker[w].pc \in {"started", "gated"} => requests[worker[w].key] = 0
    /\ worker[w].pc = "answered" /\ worker[w].outcome = "not_accepted"
         => requests[worker[w].key] = 0
    /\ worker[w].pc = "answered" /\ worker[w].outcome = "accepted"
         => requests[worker[w].key] = 1

\* Nothing is requested before its row exists.
FreshInv == \A k \in Keys : event[k] = "absent" => requests[k] = 0

Shown(state) ==
  IF state \in {"absent", "dispatching"} THEN "unconfigured"
  ELSE IF state = "done" THEN "sent_unconfirmed" ELSE state

\* A notification shows the state of its row.
DeliveryInv ==
  \A n \in Notices :
    /\ delivery[n] = Shown(event[n])
    /\ event[n] = "done" => requests[n] = 1

Inv == /\ TypeOK /\ OneRequestPerKey /\ RecordedResultIsTrue /\ UncertainIsShown
       /\ HeldInv /\ RequestInv /\ FreshInv /\ DeliveryInv

LEMMA InitInv == Init => Inv
<1> SUFFICES ASSUME Init PROVE Inv
  OBVIOUS
<1>1. TypeOK
  BY BoundsAssumption DEF Init, TypeOK, Idle, Outcomes, EventStates
<1>2. OneRequestPerKey /\ RecordedResultIsTrue /\ UncertainIsShown
  BY DEF Init, OneRequestPerKey, RecordedResultIsTrue, UncertainIsShown, Keys
<1>3. HeldInv /\ RequestInv /\ FreshInv /\ DeliveryInv
  BY DEF Init, HeldInv, RequestInv, FreshInv, DeliveryInv, Shown, Idle, Keys
<1> QED
  BY <1>1, <1>2, <1>3 DEF Inv

-----------------------------------------------------------------------------
(* One lemma per group of actions that disturb the same rows *)

LocalStates == [pc : {"idle", "started", "gated", "answered"},
                key : Keys \cup {NoKey}, outcome : Outcomes]

\* A dispatch moves on with its key.
LEMMA StepOfWorker ==
  ASSUME TypeOK, NEW w \in Workers, NEW row,
         \/ \E pc \in {"gated", "answered"} : row = [worker[w] EXCEPT !.pc = pc]
         \/ \E pc \in {"gated", "answered"}, outcome \in Outcomes :
              row = [worker[w] EXCEPT !.pc = pc, !.outcome = outcome]
  PROVE  row \in LocalStates /\ row.key = worker[w].key
<1>1. worker[w] \in LocalStates
  BY DEF TypeOK, LocalStates
<1> QED
  BY <1>1 DEF LocalStates

\* Replies and new notifications touch no row of an effect.
LEMMA EnvironmentKeepsInv ==
  ASSUME Inv, UNCHANGED <<event, delivery, tasks, worker, requests, crashes>>,
         \/ \E p \in Applications : Reply(p)
         \/ \E n \in Notices, wanted \in BOOLEAN : Notify(n, wanted) \/ NotifyAgain(n, wanted)
  PROVE  Inv'
<1>1. TypeOK'
  <2>1. /\ quiet' \subseteq Applications
        /\ urgent' \subseteq Notices
    BY DEF Inv, TypeOK, Reply, Notify, NotifyAgain, Created
  <2>2. inbox' \in Seq(Notices)
    <3>1. inbox' = inbox \/ \E n \in Notices : inbox' = Append(inbox, n)
      BY DEF Reply, Notify, NotifyAgain
    <3>2. inbox \in Seq(Notices)
      BY DEF Inv, TypeOK
    <3> QED
      BY <3>1, <3>2
  <2> QED
    BY <2>1, <2>2 DEF Inv, TypeOK
<1>2. /\ OneRequestPerKey' /\ RecordedResultIsTrue' /\ UncertainIsShown'
      /\ HeldInv' /\ RequestInv' /\ FreshInv' /\ DeliveryInv'
  BY DEF Inv, OneRequestPerKey, RecordedResultIsTrue, UncertainIsShown,
         HeldInv, RequestInv, FreshInv, DeliveryInv
<1> QED
  BY <1>1, <1>2 DEF Inv

\* An effect starts: its key was fresh, so no worker holds it.
LEMMA StartEffectKeepsInv ==
  ASSUME Inv, NEW w \in Workers, NEW k \in Keys, event[k] = "absent", StartEffect(w, k)
  PROVE  Inv'
<1> USE DEF Inv, TypeOK, StartEffect, Idle
<1>1. TypeOK'
  BY DEF EventStates, Outcomes
<1>2. OneRequestPerKey' /\ RecordedResultIsTrue' /\ UncertainIsShown'
  BY KeysAssumption DEF OneRequestPerKey, RecordedResultIsTrue, UncertainIsShown,
                        DeliveryInv, Shown, Keys
<1>3. HeldInv'
  BY KeysAssumption DEF HeldInv, Keys
<1>4. RequestInv'
  BY DEF RequestInv, FreshInv
<1>5. FreshInv' /\ DeliveryInv'
  BY DEF FreshInv, DeliveryInv, Shown
<1> QED
  BY <1>1, <1>2, <1>3, <1>4, <1>5

\* A dispatch before its request changes only its own state.
LEMMA PrepareKeepsInv ==
  ASSUME Inv, NEW w \in Workers, Refuse(w) \/ FailEarly(w) \/ PassGate(w)
  PROVE  Inv'
<1> USE DEF Inv
<1>1. PICK row :
        /\ worker' = [worker EXCEPT ![w] = row]
        /\ row \in LocalStates /\ row.key = worker[w].key
        /\ \/ row.pc = "gated"
           \/ row.pc = "answered" /\ row.outcome # "accepted"
  <2>1. worker[w] \in LocalStates
    BY DEF TypeOK, LocalStates
  <2>2. CASE Refuse(w)
    <3> DEFINE row == [worker[w] EXCEPT !.pc = "answered", !.outcome = "not_accepted"]
    <3>1. worker' = [worker EXCEPT ![w] = row]
      BY <2>2 DEF Refuse, TypeOK
    <3>2. row \in LocalStates /\ row.key = worker[w].key
      BY StepOfWorker DEF Outcomes
    <3>3. row.pc = "answered" /\ row.outcome = "not_accepted"
      BY <2>1 DEF LocalStates
    <3> QED
      BY <3>1, <3>2, <3>3
  <2>3. CASE FailEarly(w)
    <3> DEFINE row == [worker[w] EXCEPT !.pc = "answered", !.outcome = "uncertain"]
    <3>1. worker' = [worker EXCEPT ![w] = row]
      BY <2>3 DEF FailEarly, TypeOK
    <3>2. row \in LocalStates /\ row.key = worker[w].key
      BY StepOfWorker DEF Outcomes
    <3>3. row.pc = "answered" /\ row.outcome = "uncertain"
      BY <2>1 DEF LocalStates
    <3> QED
      BY <3>1, <3>2, <3>3
  <2>4. CASE PassGate(w)
    <3> DEFINE row == [worker[w] EXCEPT !.pc = "gated"]
    <3>1. worker' = [worker EXCEPT ![w] = row]
      BY <2>4 DEF PassGate, TypeOK
    <3>2. row \in LocalStates /\ row.key = worker[w].key
      BY StepOfWorker
    <3>3. row.pc = "gated"
      BY <2>1 DEF LocalStates
    <3> QED
      BY <3>1, <3>2, <3>3
  <2> QED
    BY <2>2, <2>3, <2>4
<1>2. /\ worker[w].pc = "started"
      /\ UNCHANGED <<quiet, inbox, urgent, event, delivery, tasks, requests, crashes>>
  BY DEF Refuse, FailEarly, PassGate
<1>3. /\ worker'[w] = row
      /\ \A v \in Workers \ {w} : worker'[v] = worker[v]
  BY <1>1 DEF TypeOK
<1>4. TypeOK'
  BY <1>1, <1>2 DEF TypeOK, LocalStates
<1>5. OneRequestPerKey' /\ RecordedResultIsTrue' /\ UncertainIsShown'
  BY <1>2 DEF OneRequestPerKey, RecordedResultIsTrue, UncertainIsShown
<1>6. HeldInv'
  BY <1>1, <1>2, <1>3 DEF HeldInv
<1>7. RequestInv'
  BY <1>1, <1>2, <1>3 DEF RequestInv
<1>8. FreshInv' /\ DeliveryInv'
  BY <1>2 DEF FreshInv, DeliveryInv
<1> QED
  BY <1>4, <1>5, <1>6, <1>7, <1>8

\* The request: nothing was requested for this key, and its row says neither
\* refused nor, for a notification, sent.
LEMMA SendKeepsInv ==
  ASSUME Inv, NEW w \in Workers, Send(w)
  PROVE  Inv'
<1> DEFINE k == worker[w].key
<1> USE DEF Inv, TypeOK
<1>1. PICK accepted \in BOOLEAN, outcome \in Outcomes :
        /\ requests' = [requests EXCEPT ![k] = IF accepted THEN @ + 1 ELSE @]
        /\ worker' = [worker EXCEPT ![w].pc = "answered", ![w].outcome = outcome]
        /\ outcome = "accepted" => accepted
        /\ outcome = "not_accepted" => ~ accepted
  BY DEF Send, Outcomes
<1>2. /\ UNCHANGED <<quiet, inbox, urgent, event, delivery, tasks, crashes>>
      /\ k \in Keys /\ requests[k] = 0 /\ worker[w].pc = "gated"
      /\ event[k] \in {"dispatching", "uncertain", "done"}
      /\ k \in Notices => event[k] # "done"
  BY DEF Send, HeldInv, RequestInv
<1>3. /\ requests' \in [Keys -> Nat]
      /\ requests'[k] \in {0, 1} /\ (requests'[k] = 1 <=> accepted)
      /\ \A j \in Keys \ {k} : requests'[j] = requests[j]
  <2>1. requests \in [Keys -> Nat]
    OBVIOUS
  <2> QED
    BY ONLY <1>1, <1>2, <2>1
<1>4. /\ worker' \in [Workers -> LocalStates]
      /\ \A v \in Workers \ {w} : worker'[v] = worker[v]
      /\ worker'[w].pc = "answered" /\ worker'[w].outcome = outcome /\ worker'[w].key = k
  <2> DEFINE row == [worker[w] EXCEPT !.pc = "answered", !.outcome = outcome]
  <2>1. worker' = [worker EXCEPT ![w] = row] /\ worker \in [Workers -> LocalStates]
    BY <1>1 DEF LocalStates
  <2>2. row \in LocalStates /\ row.key = k
    BY StepOfWorker
  <2>3. row.pc = "answered" /\ row.outcome = outcome
    BY <2>1 DEF LocalStates
  <2> HIDE DEF row
  <2> QED
    BY <2>1, <2>2, <2>3
<1>5. TypeOK'
  <2>1. worker' \in [Workers -> [pc : {"idle", "started", "gated", "answered"},
                                 key : Keys \cup {NoKey}, outcome : Outcomes]]
    BY <1>4 DEF LocalStates
  <2> QED
    BY <1>2, <1>3, <2>1 DEF EventStates, Outcomes, Keys
<1>6. OneRequestPerKey'
  BY <1>3 DEF OneRequestPerKey
<1>7. RecordedResultIsTrue' /\ UncertainIsShown'
  <2>1. k \in Notices => delivery[k] \in {"unconfigured", "uncertain"}
    BY <1>2 DEF DeliveryInv, Shown
  <2> QED
    BY <1>2, <1>3, <2>1 DEF RecordedResultIsTrue, UncertainIsShown, Keys
<1>8. HeldInv'
  <2>1. k # NoKey
    BY <1>2, KeysAssumption DEF Keys
  <2>2. \A v \in Workers : /\ worker'[v].key = worker[v].key
                           /\ worker'[v].pc = "idle" <=> worker[v].pc = "idle"
    BY <1>2, <1>4, <2>1
  <2>3. HeldInv /\ event' = event
    BY <1>2
  <2> QED
    BY ONLY <2>2, <2>3 DEF HeldInv
<1>9. RequestInv'
  <2>1. \A v \in Workers \ {w} : worker'[v] = worker[v]
                                 /\ (worker[v].pc # "idle" => worker[v].key \in Keys \ {k})
    BY <1>2, <1>4 DEF HeldInv
  <2> QED
    BY <1>1, <1>3, <1>4, <2>1 DEF RequestInv
<1>10. FreshInv' /\ DeliveryInv'
  BY <1>2, <1>3 DEF FreshInv, DeliveryInv, Keys
<1> QED
  BY <1>5, <1>6, <1>7, <1>8, <1>9, <1>10

\* The result: what the worker records it alone knows.
LEMMA RecordKeepsInv ==
  ASSUME Inv, NEW w \in Workers, Record(w)
  PROVE  Inv'
<1> USE KeysAssumption DEF Inv, TypeOK, Record, Keys, Idle
<1>1. TypeOK'
  BY DEF HeldInv, EventStates, Outcomes, Delivered
<1>2. OneRequestPerKey' /\ FreshInv'
  BY DEF OneRequestPerKey, FreshInv, HeldInv, Outcomes
<1>3. RecordedResultIsTrue' /\ DeliveryInv'
  BY DEF RecordedResultIsTrue, DeliveryInv, Shown, Delivered, HeldInv, RequestInv, Outcomes
<1>4. UncertainIsShown'
  BY DEF UncertainIsShown, Delivered, Outcomes
<1>5. HeldInv' /\ RequestInv'
  BY DEF HeldInv, RequestInv
<1> QED
  BY <1>1, <1>2, <1>3, <1>4, <1>5

\* A worker is lost: its key stays in flight, and no worker holds it.
LEMMA CrashKeepsInv ==
  ASSUME Inv, NEW w \in Workers, Crash(w)
  PROVE  Inv'
<1> USE DEF Inv, TypeOK, Crash, Idle
<1>1. TypeOK'
  BY BoundsAssumption DEF Outcomes
<1>2. OneRequestPerKey' /\ RecordedResultIsTrue' /\ UncertainIsShown'
  BY DEF OneRequestPerKey, RecordedResultIsTrue, UncertainIsShown
<1>3. HeldInv' /\ RequestInv'
  BY DEF HeldInv, RequestInv
<1>4. FreshInv' /\ DeliveryInv'
  BY DEF FreshInv, DeliveryInv
<1> QED
  BY <1>1, <1>2, <1>3, <1>4

\* Recovery closes a row that a slow worker may still hold: as uncertain, which
\* claims nothing about its request.
LEMMA RecoverKeepsInv ==
  ASSUME Inv, NEW k \in Keys, Recover(k)
  PROVE  Inv'
<1> USE DEF Inv, TypeOK, Recover, Overdue
<1>1. TypeOK'
  BY DEF EventStates, Keys
<1>2. OneRequestPerKey' /\ FreshInv'
  BY DEF OneRequestPerKey, FreshInv
<1>3. RecordedResultIsTrue' /\ UncertainIsShown' /\ DeliveryInv'
  BY DEF RecordedResultIsTrue, UncertainIsShown, DeliveryInv, Shown, Keys
<1>4. HeldInv' /\ RequestInv'
  BY DEF HeldInv, RequestInv
<1> QED
  BY <1>1, <1>2, <1>3, <1>4

\* A submission confirmed elsewhere closes the row of a follow-up as done.
LEMMA CloseRowsKeepsInv ==
  ASSUME Inv, NEW p \in Applications, CloseRows(p)
  PROVE  Inv'
<1> USE KeysAssumption DEF Inv, TypeOK, CloseRows, Keys
<1>1. TypeOK'
  BY DEF EventStates
<1>2. OneRequestPerKey' /\ FreshInv'
  BY DEF OneRequestPerKey, FreshInv
<1>3. RecordedResultIsTrue' /\ UncertainIsShown' /\ DeliveryInv'
  BY DEF RecordedResultIsTrue, UncertainIsShown, DeliveryInv
<1>4. HeldInv' /\ RequestInv'
  BY DEF HeldInv, RequestInv
<1> QED
  BY <1>1, <1>2, <1>3, <1>4

LEMMA NextInv == Inv /\ [Next]_vars => Inv'
<1> SUFFICES ASSUME Inv, [Next]_vars PROVE Inv'
  OBVIOUS
<1>1. ASSUME NEW w \in Workers, DispatchStep(w) PROVE Inv'
  <2>1. ASSUME NEW k \in Keys, event[k] = "absent", StartEffect(w, k) PROVE Inv'
    BY <2>1, StartEffectKeepsInv
  <2>2. ASSUME NEW p \in Applications, StartFollowup(w, p) PROVE Inv'
    BY <2>1, <2>2 DEF StartFollowup, Keys
  <2>3. ASSUME StartNotice(w) PROVE Inv'
    <3>1. PICK i \in 1..Len(inbox) :
            Waiting(inbox[i]) /\ StartEffect(w, inbox[i])
      BY <2>3 DEF StartNotice
    <3>2. inbox[i] \in Keys
      BY DEF Inv, TypeOK, Keys
    <3> QED
      BY <2>1, <3>1, <3>2 DEF Waiting
  <2> QED
    BY <1>1, <2>2, <2>3, PrepareKeepsInv, SendKeepsInv, RecordKeepsInv DEF DispatchStep
<1>2. CASE UNCHANGED vars
  BY <1>2 DEF vars, Inv, TypeOK, OneRequestPerKey, RecordedResultIsTrue,
              UncertainIsShown, HeldInv, RequestInv, FreshInv, DeliveryInv
<1>3. ASSUME NEW p \in Applications, Reply(p) PROVE Inv'
  BY <1>3, EnvironmentKeepsInv DEF Reply
<1>4. ASSUME NEW n \in Notices, NEW wanted \in BOOLEAN,
             Notify(n, wanted) \/ NotifyAgain(n, wanted)
      PROVE  Inv'
  BY <1>4, EnvironmentKeepsInv DEF Notify, NotifyAgain
<1> QED
  BY <1>1, <1>2, <1>3, <1>4, CloseRowsKeepsInv, CrashKeepsInv, RecoverKeepsInv DEF Next

LEMMA InvHolds == Spec => []Inv
  BY InitInv, NextInv, PTL DEF Spec

\* Rows and local states keep their shape.
THEOREM AuxiliaryTypeCorrect == Spec => []TypeOK
<1>1. Inv => TypeOK
  BY DEF Inv
<1> QED
  BY <1>1, InvHolds, PTL

\* No follow-up and no email to the owner is accepted twice, with any number
\* of workers, crashes and recoveries of slow dispatches.
THEOREM OneRequestPerKeyHolds == Spec => []OneRequestPerKey
<1>1. Inv => OneRequestPerKey
  BY DEF Inv
<1> QED
  BY <1>1, InvHolds, PTL

\* A recorded refusal, and a delivery shown to the owner, are true.
THEOREM RecordedResultIsTrueHolds == Spec => []RecordedResultIsTrue
<1>1. Inv => RecordedResultIsTrue
  BY DEF Inv
<1> QED
  BY <1>1, InvHolds, PTL

\* An uncertain follow-up has its task, and a notification shows its row.
THEOREM UncertainIsShownHolds == Spec => []UncertainIsShown
<1>1. Inv => UncertainIsShown
  BY DEF Inv
<1> QED
  BY <1>1, InvHolds, PTL

-----------------------------------------------------------------------------
(* Every step is one of SubmissionEffect *)

OwnerOf == [k \in Keys |-> IF event[k] = "absent" THEN NoKey ELSE k]
Sent == {k \in Keys : requests[k] > 0}
Refusals == {k \in Keys : event[k] = "not_accepted"}

LEMMA AuxiliaryInitRefines == Init => Effects!Init
BY DEF Init, Effects!Init

\* The worker of a key has started it and has not recorded its result.
LEMMA HeldKeyIsOpen ==
  ASSUME Inv, NEW w \in Workers, worker[w].pc # "idle"
  PROVE  /\ worker[w].key \in Keys
         /\ event[worker[w].key] \in {"dispatching", "uncertain", "done"}
         /\ OwnerOf[worker[w].key] # NoKey
<1>1. /\ worker[w].key \in Keys
      /\ event[worker[w].key] \in {"dispatching", "uncertain", "done"}
  BY DEF Inv, TypeOK, HeldInv
<1> QED
  BY <1>1, KeysAssumption DEF OwnerOf, Keys

LEMMA StartRefines ==
  ASSUME Inv, NEW w \in Workers, NEW k \in Keys, event[k] = "absent", StartEffect(w, k)
  PROVE  Effects!Begin(k, k)
<1> USE DEF Inv, TypeOK, StartEffect
<1>1. OwnerOf[k] = NoKey
  BY DEF OwnerOf
<1>2. Effects!Of(k) = {}
  BY KeysAssumption DEF Effects!Of, Keys
<1>3. OwnerOf' = [OwnerOf EXCEPT ![k] = k]
  BY DEF OwnerOf
<1>4. Sent' = Sent /\ Refusals' = Refusals
  BY DEF Sent, Refusals
<1> QED
  BY <1>1, <1>2, <1>3, <1>4 DEF Effects!Begin, OwnerOf, Sent, Refusals

LEMMA SendRefines ==
  ASSUME Inv, NEW w \in Workers, NEW k \in Keys, k = worker[w].key, Send(w)
  PROVE  Effects!Accept(k) \/ UNCHANGED Effects!evars
<1>1. event[k] # "not_accepted" /\ OwnerOf[k] # NoKey
  BY HeldKeyIsOpen DEF Send
<1>2. OwnerOf' = OwnerOf /\ Refusals' = Refusals /\ k \notin Refusals
  BY <1>1 DEF Send, OwnerOf, Refusals
<1>3. PICK accepted \in BOOLEAN :
        requests' = [requests EXCEPT ![k] = IF accepted THEN @ + 1 ELSE @]
  BY DEF Send
<1>4. requests \in [Keys -> Nat] /\ requests[k] = 0
  BY DEF Inv, TypeOK, RequestInv, Send
<1>5. CASE accepted
  <2>1. Sent' = Sent \cup {k} /\ k \notin Sent
    BY <1>1, <1>3, <1>4, <1>5 DEF Sent
  <2> QED
    BY <1>1, <1>2, <2>1 DEF Effects!Accept, OwnerOf, Sent, Refusals
<1>6. CASE ~ accepted
  <2>1. Sent' = Sent
    BY <1>3, <1>4, <1>6 DEF Sent
  <2> QED
    BY <1>2, <2>1 DEF Effects!evars, OwnerOf, Sent, Refusals
<1> QED
  BY <1>5, <1>6

\* A refusal is recorded by the worker that knows that nothing was accepted.
LEMMA RecordRefines ==
  ASSUME Inv, NEW w \in Workers, NEW k \in Keys, k = worker[w].key, Record(w)
  PROVE  Effects!Refuse(k) \/ UNCHANGED Effects!evars
<1> DEFINE state == IF worker[w].outcome = "accepted" THEN "done" ELSE worker[w].outcome
<1>1. /\ OwnerOf[k] # NoKey
      /\ event[k] \in {"dispatching", "uncertain", "done"}
  BY HeldKeyIsOpen DEF Record
<1>2. event \in [Keys -> EventStates] /\ event' = [event EXCEPT ![k] = state]
  BY DEF Inv, TypeOK, Record
<1>3. state \in {"done", "uncertain", "not_accepted"}
  BY DEF Inv, TypeOK, Outcomes
<1>4. state = "not_accepted" => worker[w].outcome = "not_accepted"
  OBVIOUS
<1> HIDE DEF state
<1>5. OwnerOf' = OwnerOf
  BY <1>1, <1>2, <1>3 DEF OwnerOf
<1>6. Sent' = Sent
  BY DEF Sent, Record
<1>7. CASE state = "not_accepted"
  <2>1. requests[k] = 0
    BY <1>4, <1>7 DEF Inv, RequestInv, Record
  <2>2. k \notin Sent
    BY <2>1 DEF Sent
  <2>3. Refusals' = Refusals \cup {k}
    BY <1>1, <1>2, <1>7 DEF Refusals
  <2> QED
    BY <1>1, <1>5, <1>6, <2>2, <2>3 DEF Effects!Refuse, OwnerOf, Sent, Refusals
<1>8. CASE state # "not_accepted"
  <2>1. Refusals' = Refusals
    BY <1>1, <1>2, <1>8 DEF Refusals
  <2> QED
    BY <1>5, <1>6, <2>1 DEF Effects!evars, OwnerOf, Sent, Refusals
<1> QED
  BY <1>7, <1>8

\* Recovery and the owner close a row without refusing it.
LEMMA CloseRefines ==
  ASSUME Inv, NEW k \in Keys, event[k] \in {"dispatching", "uncertain"},
         NEW state \in {"uncertain", "done"},
         event' = [event EXCEPT ![k] = state], requests' = requests
  PROVE  UNCHANGED Effects!evars
<1>1. event \in [Keys -> EventStates]
  BY DEF Inv, TypeOK
<1>2. OwnerOf' = OwnerOf /\ Sent' = Sent /\ Refusals' = Refusals
  BY <1>1 DEF OwnerOf, Sent, Refusals
<1> QED
  BY <1>2 DEF Effects!evars, OwnerOf, Sent, Refusals

LEMMA AuxiliaryStepRefines == Inv /\ [Next]_vars => [Effects!Next]_Effects!evars
<1> SUFFICES ASSUME Inv, [Next]_vars PROVE [Effects!Next]_Effects!evars
  OBVIOUS
<1>1. ASSUME NEW w \in Workers, NEW k \in Keys, event[k] = "absent", StartEffect(w, k)
      PROVE  Effects!Next
  BY <1>1, StartRefines DEF Effects!Next
<1>2. ASSUME NEW w \in Workers, DispatchStep(w)
      PROVE  Effects!Next \/ UNCHANGED Effects!evars
  <2>1. ASSUME NEW p \in Applications, StartFollowup(w, p)
        PROVE  Effects!Next
    BY <1>1, <2>1 DEF StartFollowup, Keys
  <2>2. CASE StartNotice(w)
    <3>1. PICK i \in 1..Len(inbox) : Waiting(inbox[i]) /\ StartEffect(w, inbox[i])
      BY <2>2 DEF StartNotice
    <3>2. inbox[i] \in Keys
      BY DEF Inv, TypeOK, Keys
    <3> QED
      BY <1>1, <3>1, <3>2 DEF Waiting
  <2>3. CASE Refuse(w) \/ FailEarly(w) \/ PassGate(w)
    BY <2>3 DEF Refuse, FailEarly, PassGate, Effects!evars
  <2>4. CASE Send(w)
    <3>1. PICK k \in Keys : k = worker[w].key
      BY <2>4, HeldKeyIsOpen DEF Send
    <3>2. Effects!Accept(k) \/ UNCHANGED Effects!evars
      BY <2>4, <3>1, SendRefines
    <3> QED
      BY <3>2 DEF Effects!Next
  <2>5. CASE Record(w)
    <3>1. PICK k \in Keys : k = worker[w].key
      BY <2>5, HeldKeyIsOpen DEF Record
    <3>2. Effects!Refuse(k) \/ UNCHANGED Effects!evars
      BY <2>5, <3>1, RecordRefines
    <3> QED
      BY <3>2 DEF Effects!Next
  <2> QED
    BY <1>2, <2>1, <2>2, <2>3, <2>4, <2>5 DEF DispatchStep
<1>3. ASSUME NEW k \in Keys, Recover(k)
      PROVE  UNCHANGED Effects!evars
  BY <1>3, CloseRefines DEF Recover, Overdue
<1>4. ASSUME NEW p \in Applications, CloseRows(p)
      PROVE  UNCHANGED Effects!evars
  BY <1>4, CloseRefines DEF CloseRows, Keys
<1>5. ASSUME NEW p \in Applications, Reply(p)
      PROVE  UNCHANGED Effects!evars
  BY <1>5 DEF Reply, Effects!evars
<1>6. ASSUME NEW n \in Notices, NEW wanted \in BOOLEAN,
             Notify(n, wanted) \/ NotifyAgain(n, wanted)
      PROVE  UNCHANGED Effects!evars
  BY <1>6 DEF Notify, NotifyAgain, Effects!evars
<1>7. ASSUME NEW w \in Workers, Crash(w)
      PROVE  UNCHANGED Effects!evars
  BY <1>7 DEF Crash, Effects!evars
<1>8. CASE UNCHANGED vars
  BY <1>8 DEF vars, Effects!evars
<1> QED
  BY <1>2, <1>3, <1>4, <1>5, <1>6, <1>7, <1>8 DEF Next

\* Follow-ups and owner emails implement SubmissionEffect: each step begins,
\* accepts or refuses the one attempt of a key as that module allows, or
\* changes nothing of it, with any number of workers, crashes and recoveries.
THEOREM AuxiliaryImplementation == Spec => ImplementsEffects
BY InvHolds, AuxiliaryInitRefines, AuxiliaryStepRefines, PTL
   DEF Spec, ImplementsEffects, Effects!Spec
=============================================================================
