-------------------------- MODULE BrowserSubmission --------------------------
(***************************************************************************)
(* A submission through a reviewed form (app/browser/adapters.py), request *)
(* by request: what Dispatch takes as one step with an outcome.  The page  *)
(* is read and checked, filled and submitted; the handler _run installs    *)
(* lets one POST of the page pass, under the gate of the dispatcher; and   *)
(* the page that follows, or an exception, decides what the dispatcher is  *)
(* told.                                                                   *)
(*                                                                         *)
(* Two things act at their own pace.  The handler is called whenever _run  *)
(* waits for the browser, also after _run has decided to give up.  And the *)
(* browser follows redirects by itself: Playwright calls no handler for a  *)
(* request that stems from a redirect, so neither the gate nor the counter *)
(* of POSTs sees it.                                                       *)
(*                                                                         *)
(* The attempts are those of one application.  As submission_history has   *)
(* it, a new one begins after every earlier one was refused; retries the   *)
(* owner approves are modelled in Dispatch.                                *)
(***************************************************************************)
EXTENDS Naturals

CONSTANTS
  Attempts, App, NoApp,
  MaxRequests  \* bound: requests of an attempt, the browser follows 20 redirects

ASSUME BrowserAssumption == App # NoApp /\ MaxRequests \in Nat

VARIABLES
  run,       \* local state of each submission
  form,      \* whether the employer's form is the reviewed one
  allowed,   \* what final_effect_gate would answer
  received,  \* how many POSTs of each attempt reached the employer
  applied    \* attempts the employer took as an application

vars == <<run, form, allowed, received, applied>>

\* How far _run is, where the POST is, the page shown, the notes of the handler,
\* and what was decided and reported.  "late" is history: the POST was let
\* through after the decision.
Unstarted ==
  [pc |-> "idle", wire |-> "none", page |-> "none", reviewed |-> FALSE, posts |-> 0,
   effect |-> FALSE, errors |-> FALSE, late |-> FALSE, verdict |-> "none", result |-> "none"]

Init ==
  /\ run = [a \in Attempts |-> Unstarted]
  /\ form = "reviewed"
  /\ allowed = TRUE
  /\ received = [a \in Attempts |-> 0]
  /\ applied = {}

Running(a) == run[a].pc \notin {"idle", "returned", "dead"}
Refused(a) == run[a].result = "not_accepted"

(***************************************************************************)
(* The employer, and the changes the gate looks at.                        *)
(***************************************************************************)
EmployerChangesForm ==
  /\ form' \in {"reviewed", "changed"} \ {form}
  /\ UNCHANGED <<run, allowed, received, applied>>

GateChanges ==
  /\ allowed' = ~ allowed
  /\ UNCHANGED <<run, form, received, applied>>

(***************************************************************************)
(* Before the request.                                                     *)
(***************************************************************************)
Submit(a) ==
  /\ run[a].pc = "idle"
  /\ \A b \in Attempts : run[b].pc = "idle" \/ Refused(b)
  /\ run' = [run EXCEPT ![a].pc = "opening"]
  /\ UNCHANGED <<form, allowed, received, applied>>

\* page.goto; the fields and the legal text of the form have the reviewed hashes.
Read(a) ==
  /\ run[a].pc = "opening"
  /\ run' = [run EXCEPT ![a].pc = "read", ![a].page = "form", ![a].reviewed = (form = "reviewed")]
  /\ UNCHANGED <<form, allowed, received, applied>>

\* Fields and files are set, and the button is clicked: the page asks for its POST.
Fill(a) ==
  /\ run[a].pc = "read"
  /\ run[a].reviewed
  /\ run' = [run EXCEPT ![a].pc = "clicked", ![a].wire = "asked"]
  /\ UNCHANGED <<form, allowed, received, applied>>

(***************************************************************************)
(* The request.  The handler is called while _run waits for the browser,   *)
(* for its click or, after the decision, to take the screenshot and close. *)
(***************************************************************************)
Waiting(a) == run[a].pc \in {"clicked", "ending"}

\* Fault: the effect is not noted before the request.
PassUnnoted(a) ==
  run' = [run EXCEPT ![a].wire = "posting", ![a].posts = @ + 1,
                     ![a].late = (run[a].pc = "ending")]

Pass(a) ==
  run' = [run EXCEPT ![a].wire = "posting", ![a].posts = @ + 1, ![a].effect = TRUE,
                     ![a].late = (run[a].pc = "ending")]

Abort(a) == run' = [run EXCEPT ![a].wire = "over", ![a].errors = TRUE]

\* The handler's decision on the POST of the page.
RoutePost(a) ==
  /\ Waiting(a)
  /\ run[a].wire = "asked"
  /\ IF run[a].posts = 0 /\ allowed THEN Pass(a) ELSE Abort(a)
  /\ UNCHANGED <<form, allowed, received, applied>>

\* The employer takes the application or not, and answers with a page or with a
\* redirect: "moved" asks for another page, "repeat" (status 307 or 308) for the
\* POST again.  A receipt is only shown for an application that was taken.
Reached(a) ==
  /\ received' = [received EXCEPT ![a] = @ + 1]
  /\ \E taken \in BOOLEAN : applied' = IF taken THEN applied \cup {a} ELSE applied
  /\ UNCHANGED <<form, allowed>>

ShownPage(a) ==
  \E page \in {"receipt", "other"} :
    /\ page = "receipt" => a \in applied'
    /\ run' = [run EXCEPT ![a].wire = "over", ![a].page = page]

Redirected(a) ==
  \E wire \in {"moved", "repeat"} :
    /\ wire = "repeat" => received'[a] < MaxRequests
    /\ run' = [run EXCEPT ![a].wire = wire]

\* _transport in the handler: the answer is passed on as it is, or it is lost.
Transport(a) ==
  /\ Waiting(a)
  /\ run[a].wire = "posting"
  /\ Reached(a)
  /\ ShownPage(a) \/ Redirected(a) \/ Abort(a)

TransportFails(a) ==
  /\ Waiting(a)
  /\ run[a].wire = "posting"
  /\ Abort(a)
  /\ UNCHANGED <<form, allowed, received, applied>>

\* The browser repeats the POST as it was told to; an answer it does not get
\* becomes a page of its own, and no error of the handler.
Repeat(a) ==
  /\ Running(a)
  /\ run[a].wire = "repeat"
  /\ Reached(a)
  /\ ShownPage(a) \/ Redirected(a)

\* The browser shows the page it was sent to, wherever that is, or none.
Follow(a) ==
  /\ Running(a)
  /\ run[a].wire \in {"moved", "repeat"}
  /\ \E page \in {"receipt", "other"} :
       /\ page = "receipt" => a \in applied /\ run[a].wire = "moved"
       /\ run' = [run EXCEPT ![a].wire = "over", ![a].page = page]
  /\ UNCHANGED <<form, allowed, received, applied>>

(***************************************************************************)
(* What the dispatcher is told.                                            *)
(***************************************************************************)
Decide(a, verdict) ==
  /\ run' = [run EXCEPT ![a].pc = "ending", ![a].verdict = verdict]
  /\ UNCHANGED <<form, allowed, received, applied>>

\* Fault: any page after the request is taken for a receipt.
ShowsAnyPage(a) == run[a].page # "none"

ShowsReceipt(a) == run[a].page = "receipt"

Accept(a) ==
  /\ run[a].pc = "clicked"
  /\ run[a].effect /\ ~ run[a].errors
  /\ ShowsReceipt(a)
  /\ Decide(a, "accepted")

\* Fault: a request whose transport failed is taken for one that was not sent.
VerdictOfErrors(a) == IF run[a].effect /\ ~ run[a].errors THEN "uncertain" ELSE "not_accepted"

Verdict(a) == IF run[a].effect THEN "uncertain" ELSE "not_accepted"

\* Every exception, a timeout too, ends here: BrowserHandoff unless the effect
\* began.  The notes of the handler are read once.
Raise(a) ==
  /\ Running(a)
  /\ run[a].pc # "ending"
  /\ Decide(a, Verdict(a))

Return(a, result) ==
  /\ run' = [run EXCEPT ![a].pc = "returned", ![a].result = result]
  /\ UNCHANGED <<form, allowed, received, applied>>

\* The screenshot is taken and the browser closed, which may fail in its turn.
Close(a) ==
  /\ run[a].pc = "ending"
  /\ Return(a, run[a].verdict) \/ Return(a, "uncertain")

\* The provider, the key or the browser itself is missing.
RaiseEarly(a) ==
  /\ run[a].pc = "opening"
  /\ Return(a, "uncertain")

\* recover_inflight makes the attempt uncertain, which Submit never repeats.
Crash(a) ==
  /\ Running(a)
  /\ run' = [run EXCEPT ![a].pc = "dead"]
  /\ UNCHANGED <<form, allowed, received, applied>>

Next ==
  \/ \E a \in Attempts :
       \/ Submit(a) \/ Read(a) \/ Fill(a) \/ RoutePost(a)
       \/ Transport(a) \/ TransportFails(a) \/ Repeat(a) \/ Follow(a)
       \/ Accept(a) \/ Raise(a) \/ Close(a) \/ RaiseEarly(a) \/ Crash(a)
  \/ EmployerChangesForm
  \/ GateChanges

Spec == Init /\ [][Next]_vars

(***************************************************************************)
(* Properties.                                                             *)
(***************************************************************************)
Pages == {"none", "form", "receipt", "other"}
Verdicts == {"none", "accepted", "uncertain", "not_accepted"}
Runs ==
  [pc : {"idle", "opening", "read", "clicked", "ending", "returned", "dead"},
   wire : {"none", "asked", "posting", "moved", "repeat", "over"},
   page : Pages, reviewed : BOOLEAN, posts : 0..1, effect : BOOLEAN, errors : BOOLEAN,
   late : BOOLEAN, verdict : Verdicts, result : Verdicts]

\* Local states keep their shape, and the handler lets no more than one POST pass.
TypeOK ==
  /\ run \in [Attempts -> Runs]
  /\ form \in {"reviewed", "changed"}
  /\ allowed \in BOOLEAN
  /\ received \in [Attempts -> Nat]
  /\ applied \subseteq Attempts

\* What is handed over to the owner, or may be tried again, had not been let
\* through when that was decided, whatever the page, a redirect, the network or a
\* timeout had done: if it reached the employer all the same, then by a POST the
\* handler let through after the decision.
HandoffIsUnsent ==
  \A a \in Attempts : Refused(a) => received[a] = 0 \/ run[a].late

\* Acceptance is reported for a form as it was reviewed, that the employer
\* received and took as an application.
AcceptedIsReceived ==
  \A a \in Attempts : run[a].result = "accepted" =>
    received[a] > 0 /\ a \in applied /\ run[a].reviewed

\* Attempts that reached the employer by a POST let through before the decision.
Sent == {a \in Attempts : received[a] > 0 /\ ~ run[a].late}

\* Seen from the employer, and but for POSTs let through late, the attempts of an
\* application keep the promise of SubmissionEffect: one that was received is never
\* reported as refused, and no other begins after one that may have been received.
Effects == INSTANCE SubmissionEffect WITH
  Apps    <- {App},
  owner   <- [a \in Attempts |-> IF run[a].pc = "idle" THEN NoApp ELSE App],
  sent    <- Sent,
  refused <- {a \in Attempts : Refused(a)},
  waived  <- {}
ImplementsEffects == Effects!Spec
=============================================================================
