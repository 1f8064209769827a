-------------------------- MODULE SubmissionEffect --------------------------
(***************************************************************************)
(* What the dispatcher promises about external effects, without queues,    *)
(* workers, crashes or states: an application has at most one attempt      *)
(* whose fate the owner still has to accept.  Dispatch and Auxiliary       *)
(* implement it; BrowserSubmission does but for one race.                  *)
(***************************************************************************)
CONSTANTS Apps, Attempts, NoApp

VARIABLES
  owner,    \* the application an attempt belongs to, NoApp before it starts
  sent,     \* attempts the provider accepted
  refused,  \* attempts recorded as certainly not accepted
  waived    \* attempts whose retry the owner approved

evars == <<owner, sent, refused, waived>>

Of(p) == {a \in Attempts : owner[a] = p}

Init ==
  /\ owner = [a \in Attempts |-> NoApp]
  /\ sent = {} /\ refused = {} /\ waived = {}

\* A new attempt begins once every earlier one is refused or waived.
Begin(p, a) ==
  /\ owner[a] = NoApp
  /\ Of(p) \subseteq refused \cup waived
  /\ owner' = [owner EXCEPT ![a] = p]
  /\ UNCHANGED <<sent, refused, waived>>

\* The provider accepts an attempt, even one the owner has waived meanwhile.
Accept(a) ==
  /\ owner[a] # NoApp
  /\ a \notin sent \cup refused
  /\ sent' = sent \cup {a}
  /\ UNCHANGED <<owner, refused, waived>>

Refuse(a) ==
  /\ owner[a] # NoApp
  /\ a \notin sent
  /\ refused' = refused \cup {a}
  /\ UNCHANGED <<owner, sent, waived>>

\* The owner approves a retry, accepting the risk of a duplicate.
Waive(p) ==
  /\ waived' = waived \cup Of(p)
  /\ UNCHANGED <<owner, sent, refused>>

Next ==
  \/ \E p \in Apps : Waive(p) \/ \E a \in Attempts : Begin(p, a)
  \/ \E a \in Attempts : Accept(a) \/ Refuse(a)

Spec == Init /\ [][Next]_evars

\* At most one accepted attempt of an application lacks the owner's approval
\* of a retry: this is the duplicate-send protection of README.md.
AtMostOneUnapproved ==
  \A p \in Apps : \A a, b \in sent \cap Of(p) :
    a = b \/ a \in waived \/ b \in waived
=============================================================================
