----------------------- MODULE GmailConnectionProofs -----------------------
(***************************************************************************)
(* Proofs about the Gmail connection: which flow may store credentials,    *)
(* that the newest one stays awaited, that codes are used once and that    *)
(* the mailbox shown is the one of the stored tokens, for any numbers of   *)
(* flows, sessions, handlers and calls.                                    *)
(***************************************************************************)
EXTENDS GmailConnection, TLAPS

Current == Begun \ superseded

\* A row or a handler belongs to a flow that was begun, and to it alone.
FlowInv ==
  /\ open \subseteq Begun /\ superseded \subseteq Begun /\ exchanged \subseteq Begun
  /\ \A k \in Callbacks :
       /\ callback[k].pc # "idle" => callback[k].flow \in Begun
       /\ callback[k].pc = "idle" => callback[k].flow = NoFlow
       /\ callback[k].flow \notin open
  /\ \A k, l \in Callbacks :
       callback[k].flow = callback[l].flow /\ callback[k].flow # NoFlow => k = l

\* The connection waits for the newest flow or for none.
PendingInv ==
  /\ conn.pending # NoFlow => conn.pending \in Current
  /\ \A f, g \in Current : f = g

\* A flow whose code can still be sent has not sent it.
CodeInv ==
  /\ open \cap exchanged = {}
  /\ \A k \in Callbacks :
       callback[k].pc = "consumed" => callback[k].flow \notin exchanged

\* A call in progress holds some credentials.
CallInv ==
  \A c \in Callers : caller[c].pc # "idle" => caller[c].secret \in Secrets

Inv == /\ TypeOK /\ MailboxMatchesSecret /\ NewestFlowIsAwaited
       /\ FlowInv /\ PendingInv /\ CodeInv /\ CallInv

LEMMA InitInv == Init => Inv
<1> SUFFICES ASSUME Init PROVE Inv
  OBVIOUS
<1>1. Begun = {}
  BY DEF Init, Begun
<1>2. TypeOK
  BY DEF Init, TypeOK, NotConnected, IdleCallback, IdleCaller, Statuses
<1>3. MailboxMatchesSecret
  BY DEF Init, MailboxMatchesSecret, NotConnected
<1>4. NewestFlowIsAwaited /\ FlowInv /\ PendingInv /\ CodeInv /\ CallInv
  BY <1>1 DEF Init, NewestFlowIsAwaited, FlowInv, PendingInv, CodeInv, CallInv,
              Current, NotConnected, IdleCallback, IdleCaller
<1> QED
  BY <1>2, <1>3, <1>4 DEF Inv

LEMMA BeginKeepsInv ==
  ASSUME Inv, NEW s \in Sessions, NEW f \in Flows, Begin(s, f)
  PROVE  Inv'
<1> USE NoneAssumption DEF Inv, Begin
<1>1. TypeOK'
  BY DEF TypeOK, Statuses, Secrets, Begun
<1>2. MailboxMatchesSecret'
  BY DEF TypeOK, Secrets, MailboxMatchesSecret, CallInv
<1>3. NewestFlowIsAwaited'
  BY DEF TypeOK, NewestFlowIsAwaited, Begun, FlowInv, PendingInv, Current
<1>4. FlowInv'
  BY DEF TypeOK, FlowInv, Begun
<1>5. PendingInv'
  <2>1. Current' = {f} /\ conn'.pending = f
    BY DEF TypeOK, Current, FlowInv, Begun
  <2> QED
    BY <2>1 DEF PendingInv
<1>6. CodeInv'
  <2>1. f \notin exchanged
    BY DEF FlowInv, Begun
  <2> QED
    BY <2>1 DEF CodeInv
<1>7. CallInv'
  BY DEF TypeOK, CallInv, Secrets
<1> QED
  BY <1>1, <1>2, <1>3, <1>4, <1>5, <1>6, <1>7

LEMMA ExpireFlowKeepsInv ==
  ASSUME Inv, NEW f \in Flows, ExpireFlow(f)
  PROVE  Inv'
<1> USE NoneAssumption DEF Inv, ExpireFlow
<1>1. TypeOK'
  BY DEF TypeOK, Statuses, Secrets, Begun
<1>2. MailboxMatchesSecret'
  BY DEF TypeOK, Secrets, MailboxMatchesSecret, CallInv
<1>3. NewestFlowIsAwaited'
  BY DEF TypeOK, NewestFlowIsAwaited, Begun, FlowInv, PendingInv, Current
<1>4. FlowInv'
  BY DEF TypeOK, FlowInv, Begun
<1>5. PendingInv'
  BY DEF TypeOK, PendingInv, Current, Begun
<1>6. CodeInv'
  BY DEF TypeOK, CodeInv, FlowInv, Begun
<1>7. CallInv'
  BY DEF TypeOK, CallInv, Secrets
<1> QED
  BY <1>1, <1>2, <1>3, <1>4, <1>5, <1>6, <1>7

LEMMA EndSessionKeepsInv ==
  ASSUME Inv, NEW s \in Sessions, EndSession(s)
  PROVE  Inv'
<1> USE NoneAssumption DEF Inv, EndSession
<1>1. TypeOK'
  BY DEF TypeOK, Statuses, Secrets, Begun
<1>2. MailboxMatchesSecret'
  BY DEF TypeOK, Secrets, MailboxMatchesSecret, CallInv
<1>3. NewestFlowIsAwaited'
  BY DEF TypeOK, NewestFlowIsAwaited, Begun, FlowInv, PendingInv, Current
<1>4. FlowInv'
  BY DEF TypeOK, FlowInv, Begun
<1>5. PendingInv'
  BY DEF TypeOK, PendingInv, Current, Begun
<1>6. CodeInv'
  BY DEF TypeOK, CodeInv, FlowInv, Begun
<1>7. CallInv'
  BY DEF TypeOK, CallInv, Secrets
<1> QED
  BY <1>1, <1>2, <1>3, <1>4, <1>5, <1>6, <1>7

LEMMA ConsumeKeepsInv ==
  ASSUME Inv, NEW k \in Callbacks, NEW f \in Flows, Consume(k, f)
  PROVE  Inv'
<1> USE NoneAssumption DEF Inv, Consume, IdleCallback
<1>1. TypeOK'
  BY DEF TypeOK, Statuses, Secrets, Begun
<1>2. MailboxMatchesSecret'
  BY DEF TypeOK, Secrets, MailboxMatchesSecret, CallInv
<1>3. NewestFlowIsAwaited'
  BY DEF TypeOK, NewestFlowIsAwaited, Begun, FlowInv, PendingInv, Current
<1>4. FlowInv'
  BY DEF TypeOK, FlowInv, Begun
<1>5. PendingInv'
  BY DEF TypeOK, PendingInv, Current, Begun
<1>6. CodeInv'
  BY DEF TypeOK, CodeInv, FlowInv, Begun
<1>7. CallInv'
  BY DEF TypeOK, CallInv, Secrets
<1> QED
  BY <1>1, <1>2, <1>3, <1>4, <1>5, <1>6, <1>7

LEMMA DeclineKeepsInv ==
  ASSUME Inv, NEW k \in Callbacks, Decline(k)
  PROVE  Inv'
<1> USE NoneAssumption DEF Inv, Decline, IdleCallback
<1>1. TypeOK'
  BY DEF TypeOK, Statuses, Secrets, Begun
<1>2. MailboxMatchesSecret'
  BY DEF TypeOK, Secrets, MailboxMatchesSecret, CallInv
<1>3. NewestFlowIsAwaited'
  BY DEF TypeOK, NewestFlowIsAwaited, Begun, FlowInv, PendingInv, Current
<1>4. FlowInv'
  BY DEF TypeOK, FlowInv, Begun
<1>5. PendingInv'
  BY DEF TypeOK, PendingInv, Current, Begun
<1>6. CodeInv'
  BY DEF TypeOK, CodeInv, FlowInv, Begun
<1>7. CallInv'
  BY DEF TypeOK, CallInv, Secrets
<1> QED
  BY <1>1, <1>2, <1>3, <1>4, <1>5, <1>6, <1>7

LEMMA ExchangeKeepsInv ==
  ASSUME Inv, NEW k \in Callbacks, Exchange(k)
  PROVE  Inv'
<1> USE NoneAssumption DEF Inv, Exchange
<1>1. TypeOK'
  <2>1. callback' \in [Callbacks -> [pc : {"idle", "consumed", "exchanging"},
                                     flow : Flows \cup {NoFlow}]]
    BY DEF TypeOK
  <2>2. callback[k].flow \in Flows
    BY DEF FlowInv, Begun
  <2> QED
    BY <2>1, <2>2 DEF TypeOK
<1>2. MailboxMatchesSecret'
  BY DEF TypeOK, Secrets, MailboxMatchesSecret, CallInv
<1>3. NewestFlowIsAwaited'
  BY DEF TypeOK, NewestFlowIsAwaited, Begun, FlowInv, PendingInv, Current
<1>4. FlowInv'
  BY DEF TypeOK, FlowInv, Begun
<1>5. PendingInv'
  BY DEF TypeOK, PendingInv, Current, Begun
<1>6. CodeInv'
  BY DEF TypeOK, CodeInv, FlowInv, Begun
<1>7. CallInv'
  BY DEF TypeOK, CallInv, Secrets
<1> QED
  BY <1>1, <1>2, <1>3, <1>4, <1>5, <1>6, <1>7

LEMMA AbandonFlowKeepsInv ==
  ASSUME Inv, NEW k \in Callbacks, AbandonFlow(k)
  PROVE  Inv'
<1> USE NoneAssumption DEF Inv, AbandonFlow, IdleCallback
<1>1. TypeOK'
  BY DEF TypeOK, Statuses, Secrets, Begun
<1>2. MailboxMatchesSecret'
  BY DEF TypeOK, Secrets, MailboxMatchesSecret, CallInv
<1>3. NewestFlowIsAwaited'
  BY DEF TypeOK, NewestFlowIsAwaited, Begun, FlowInv, PendingInv, Current
<1>4. FlowInv'
  BY DEF TypeOK, FlowInv, Begun
<1>5. PendingInv'
  BY DEF TypeOK, PendingInv, Current, Begun
<1>6. CodeInv'
  BY DEF TypeOK, CodeInv, FlowInv, Begun
<1>7. CallInv'
  BY DEF TypeOK, CallInv, Secrets
<1> QED
  BY <1>1, <1>2, <1>3, <1>4, <1>5, <1>6, <1>7

LEMMA FinishKeepsInv ==
  ASSUME Inv, NEW k \in Callbacks, Finish(k)
  PROVE  Inv'
<1> USE NoneAssumption DEF Inv, Finish, IdleCallback
<1>0. PICK n \in Nonces :
        conn' = [status |-> "connected",
                 secret |-> [flow |-> callback[k].flow, nonce |-> n],
                 mailbox |-> callback[k].flow, pending |-> NoFlow]
  OBVIOUS
<1>f. callback[k].flow \in Flows
  BY DEF FlowInv, Begun
<1>1. TypeOK'
  <2>1. conn' \in [status : Statuses, secret : Secrets \cup {NoSecret},
                   mailbox : Flows \cup {NoFlow}, pending : Flows \cup {NoFlow}]
    BY <1>0, <1>f DEF Statuses, Secrets
  <2>2. callback' \in [Callbacks -> [pc : {"idle", "consumed", "exchanging"},
                                     flow : Flows \cup {NoFlow}]]
    BY DEF TypeOK
  <2> QED
    BY <2>1, <2>2 DEF TypeOK
<1>2. MailboxMatchesSecret'
  BY <1>0, <1>f DEF MailboxMatchesSecret, Secrets
<1>3. NewestFlowIsAwaited'
  BY DEF TypeOK, NewestFlowIsAwaited, Begun, FlowInv, PendingInv, Current
<1>4. FlowInv'
  BY DEF TypeOK, FlowInv, Begun
<1>5. PendingInv'
  BY DEF TypeOK, PendingInv, Current, Begun
<1>6. CodeInv'
  BY DEF TypeOK, CodeInv, FlowInv, Begun
<1>7. CallInv'
  BY DEF TypeOK, CallInv, Secrets
<1> QED
  BY <1>1, <1>2, <1>3, <1>4, <1>5, <1>6, <1>7

LEMMA DisconnectKeepsInv ==
  ASSUME Inv, Disconnect
  PROVE  Inv'
<1> USE NoneAssumption DEF Inv, Disconnect, NotConnected
<1>1. TypeOK'
  BY DEF TypeOK, Statuses, Secrets, Begun
<1>2. MailboxMatchesSecret'
  BY DEF TypeOK, Secrets, MailboxMatchesSecret, CallInv
<1>3. NewestFlowIsAwaited'
  BY DEF TypeOK, NewestFlowIsAwaited, Begun, FlowInv, PendingInv, Current
<1>4. FlowInv'
  BY DEF TypeOK, FlowInv, Begun
<1>5. PendingInv'
  BY DEF TypeOK, PendingInv, Current, Begun
<1>6. CodeInv'
  BY DEF TypeOK, CodeInv, FlowInv, Begun
<1>7. CallInv'
  BY DEF TypeOK, CallInv, Secrets
<1> QED
  BY <1>1, <1>2, <1>3, <1>4, <1>5, <1>6, <1>7

LEMMA HealthCheckKeepsInv ==
  ASSUME Inv, HealthCheck
  PROVE  Inv'
<1> USE NoneAssumption DEF Inv, HealthCheck
<1>1. TypeOK'
  BY DEF TypeOK, Statuses, Secrets, Begun
<1>2. MailboxMatchesSecret'
  BY DEF TypeOK, Secrets, MailboxMatchesSecret, CallInv
<1>3. NewestFlowIsAwaited'
  BY DEF TypeOK, NewestFlowIsAwaited, Begun, FlowInv, PendingInv, Current
<1>4. FlowInv'
  BY DEF TypeOK, FlowInv, Begun
<1>5. PendingInv'
  BY DEF TypeOK, PendingInv, Current, Begun
<1>6. CodeInv'
  BY DEF TypeOK, CodeInv, FlowInv, Begun
<1>7. CallInv'
  BY DEF TypeOK, CallInv, Secrets
<1> QED
  BY <1>1, <1>2, <1>3, <1>4, <1>5, <1>6, <1>7

LEMMA ReadKeepsInv ==
  ASSUME Inv, NEW c \in Callers, NEW finding \in {"using", "refreshing", "lapsed"}, Read(c, finding)
  PROVE  Inv'
<1> USE NoneAssumption DEF Inv, Read, IdleCaller, Usable
<1>1. TypeOK'
  BY DEF TypeOK, Statuses, Secrets, Begun
<1>2. MailboxMatchesSecret'
  BY DEF TypeOK, Secrets, MailboxMatchesSecret, CallInv
<1>3. NewestFlowIsAwaited'
  BY DEF TypeOK, NewestFlowIsAwaited, Begun, FlowInv, PendingInv, Current
<1>4. FlowInv'
  BY DEF TypeOK, FlowInv, Begun
<1>5. PendingInv'
  BY DEF TypeOK, PendingInv, Current, Begun
<1>6. CodeInv'
  BY DEF TypeOK, CodeInv, FlowInv, Begun
<1>7. CallInv'
  BY DEF TypeOK, CallInv, Secrets
<1> QED
  BY <1>1, <1>2, <1>3, <1>4, <1>5, <1>6, <1>7

LEMMA RefreshKeepsInv ==
  ASSUME Inv, NEW c \in Callers, Refresh(c)
  PROVE  Inv'
<1> USE NoneAssumption DEF Inv, Refresh
<1>0. PICK n \in Nonces :
        /\ conn' = [conn EXCEPT !.status = "connected",
                                !.secret = [caller[c].secret EXCEPT !.nonce = n]]
        /\ caller' = [caller EXCEPT ![c] =
             [pc |-> "using", secret |-> [caller[c].secret EXCEPT !.nonce = n]]]
  OBVIOUS
<1>s. /\ caller[c].secret \in Secrets
      /\ [caller[c].secret EXCEPT !.nonce = n] \in Secrets
  BY DEF CallInv, Secrets
<1>1. TypeOK'
  <2>1. conn' \in [status : Statuses, secret : Secrets \cup {NoSecret},
                   mailbox : Flows \cup {NoFlow}, pending : Flows \cup {NoFlow}]
    BY <1>0, <1>s DEF TypeOK, Statuses
  <2>2. caller' \in [Callers -> [pc : {"idle", "using", "refreshing", "lapsed"},
                                 secret : Secrets \cup {NoSecret}]]
    BY <1>0, <1>s DEF TypeOK
  <2> QED
    BY <2>1, <2>2 DEF TypeOK
<1>2. MailboxMatchesSecret'
  BY DEF TypeOK, Secrets, MailboxMatchesSecret, CallInv
<1>3. NewestFlowIsAwaited'
  BY DEF TypeOK, NewestFlowIsAwaited, Begun, FlowInv, PendingInv, Current
<1>4. FlowInv'
  BY DEF TypeOK, FlowInv, Begun
<1>5. PendingInv'
  BY DEF TypeOK, PendingInv, Current, Begun
<1>6. CodeInv'
  BY DEF TypeOK, CodeInv, FlowInv, Begun
<1>7. CallInv'
  BY DEF TypeOK, CallInv, Secrets
<1> QED
  BY <1>1, <1>2, <1>3, <1>4, <1>5, <1>6, <1>7

LEMMA RecordFailureKeepsInv ==
  ASSUME Inv, NEW c \in Callers, RecordFailure(c)
  PROVE  Inv'
<1> USE NoneAssumption DEF Inv, RecordFailure, IdleCaller, Verdicts
<1>0. PICK status \in {"expired", "error"} :
        conn' = [conn EXCEPT !.status = status]
  BY DEF TypeOK
<1>1. TypeOK'
  <2>1. conn' \in [status : Statuses, secret : Secrets \cup {NoSecret},
                   mailbox : Flows \cup {NoFlow}, pending : Flows \cup {NoFlow}]
    BY <1>0 DEF TypeOK, Statuses
  <2>2. caller' \in [Callers -> [pc : {"idle", "using", "refreshing", "lapsed"},
                                 secret : Secrets \cup {NoSecret}]]
    BY DEF TypeOK
  <2> QED
    BY <2>1, <2>2 DEF TypeOK
<1>2. MailboxMatchesSecret'
  BY <1>0 DEF TypeOK, MailboxMatchesSecret
<1>3. NewestFlowIsAwaited'
  BY DEF TypeOK, NewestFlowIsAwaited, Begun, FlowInv, PendingInv, Current
<1>4. FlowInv'
  BY DEF TypeOK, FlowInv, Begun
<1>5. PendingInv'
  BY DEF TypeOK, PendingInv, Current, Begun
<1>6. CodeInv'
  BY DEF TypeOK, CodeInv, FlowInv, Begun
<1>7. CallInv'
  BY DEF TypeOK, CallInv, Secrets
<1> QED
  BY <1>1, <1>2, <1>3, <1>4, <1>5, <1>6, <1>7

LEMMA EndCallKeepsInv ==
  ASSUME Inv, NEW c \in Callers, EndCall(c)
  PROVE  Inv'
<1> USE NoneAssumption DEF Inv, EndCall, IdleCaller
<1>1. TypeOK'
  BY DEF TypeOK, Statuses, Secrets, Begun
<1>2. MailboxMatchesSecret'
  BY DEF TypeOK, Secrets, MailboxMatchesSecret, CallInv
<1>3. NewestFlowIsAwaited'
  BY DEF TypeOK, NewestFlowIsAwaited, Begun, FlowInv, PendingInv, Current
<1>4. FlowInv'
  BY DEF TypeOK, FlowInv, Begun
<1>5. PendingInv'
  BY DEF TypeOK, PendingInv, Current, Begun
<1>6. CodeInv'
  BY DEF TypeOK, CodeInv, FlowInv, Begun
<1>7. CallInv'
  BY DEF TypeOK, CallInv, Secrets
<1> QED
  BY <1>1, <1>2, <1>3, <1>4, <1>5, <1>6, <1>7

LEMMA NextInv == Inv /\ [Next]_vars => Inv'
<1> SUFFICES ASSUME Inv, [Next]_vars PROVE Inv'
  OBVIOUS
<1>1. CASE FlowStep
  BY <1>1, BeginKeepsInv, ExpireFlowKeepsInv, EndSessionKeepsInv, ConsumeKeepsInv,
     DeclineKeepsInv, ExchangeKeepsInv, AbandonFlowKeepsInv, FinishKeepsInv
  DEF FlowStep
<1>2. CASE CallStep
  BY <1>2, ReadKeepsInv, RefreshKeepsInv, RecordFailureKeepsInv, EndCallKeepsInv
  DEF CallStep, UseToken, StartRefresh, FindLapsed
<1>3. CASE Disconnect \/ HealthCheck
  BY <1>3, DisconnectKeepsInv, HealthCheckKeepsInv
<1>4. CASE UNCHANGED vars
  BY <1>4 DEF vars, Inv, TypeOK, MailboxMatchesSecret, NewestFlowIsAwaited,
              FlowInv, PendingInv, CodeInv, CallInv, Current, Begun
<1> QED
  BY <1>1, <1>2, <1>3, <1>4 DEF Next

LEMMA InvHolds == Spec => []Inv
  BY InitInv, NextInv, PTL DEF Spec

\* Rows and local states keep their shape.
THEOREM ConnectionTypeCorrect == Spec => []TypeOK
<1>1. Inv => TypeOK
  BY DEF Inv
<1> QED
  BY <1>1, InvHolds, PTL

\* The mailbox shown is the one the stored tokens belong to, whatever
\* complete_oauth, access_credentials and disconnect do to each other.
THEOREM MailboxMatchesSecretHolds == Spec => []MailboxMatchesSecret
<1>1. Inv => MailboxMatchesSecret
  BY DEF Inv
<1> QED
  BY <1>1, InvHolds, PTL

\* A late callback, refresh or failure never cancels the newest flow
\* (oauth_pending_id in begin_oauth and complete_oauth).
THEOREM NewestFlowIsAwaitedHolds == Spec => []NewestFlowIsAwaited
<1>1. Inv => NewestFlowIsAwaited
  BY DEF Inv
<1> QED
  BY <1>1, InvHolds, PTL

\* Neither a superseded flow nor a late refresh stores credentials
\* (the last transactions of complete_oauth and access_credentials).
THEOREM NewCredentialsAreAuthorizedHolds == Spec => NewCredentialsAreAuthorized
<1> DEFINE new == conn'.secret
           Authorized ==
             new # NoSecret
               => \/ conn.secret # NoSecret /\ conn.secret.flow = new.flow
                  \/ new.flow \in Current /\ owner[new.flow] \in signedIn
<1>1. ASSUME Inv, [Next]_vars PROVE Authorized
  <2>1. CASE \E k \in Callbacks : Finish(k)
    <3>1. PICK k \in Callbacks : Finish(k)
      BY <2>1
    <3>2. new.flow = callback[k].flow /\ owner[callback[k].flow] \in signedIn
      BY <3>1 DEF Finish
    <3>3. callback[k].flow \in Current
      BY <1>1, <3>1, NoneAssumption DEF Inv, Finish, FlowInv, Begun, PendingInv
    <3> QED
      BY <3>2, <3>3
  <2>2. CASE \E c \in Callers : Refresh(c)
    <3>1. PICK c \in Callers : Refresh(c)
      BY <2>2
    <3>2. caller[c].secret \in Secrets /\ caller[c].secret = conn.secret
      BY <1>1, <3>1 DEF Inv, CallInv, Refresh
    <3>3. PICK n \in Nonces : conn' = [conn EXCEPT
            !.status = "connected", !.secret = [conn.secret EXCEPT !.nonce = n]]
      BY <3>1, <3>2 DEF Refresh
    <3>4. new = [conn.secret EXCEPT !.nonce = n]
      BY <1>1, <3>3 DEF Inv, TypeOK
    <3>5. new.flow = conn.secret.flow
      BY <3>2, <3>4 DEF Secrets
    <3> QED
      BY <3>2, <3>5, NoneAssumption DEF Secrets
  <2>3. CASE Disconnect
    BY <2>3 DEF Disconnect, NotConnected
  <2>4. CASE UNCHANGED conn.secret
    BY <2>4
  <2>5. UNCHANGED conn.secret \/ Disconnect \/ (\E k \in Callbacks : Finish(k))
          \/ (\E c \in Callers : Refresh(c))
    BY <1>1 DEF Inv, TypeOK, Next, FlowStep, CallStep, vars, Begin, ExpireFlow,
       EndSession, Consume, Decline, Exchange, AbandonFlow, UseToken,
       StartRefresh, FindLapsed, Read, RecordFailure, EndCall, HealthCheck
  <2> QED
    BY <2>1, <2>2, <2>3, <2>4, <2>5
<1>2. Inv /\ [Next]_vars => [Authorized]_vars
  BY <1>1
<1> QED
  BY <1>2, InvHolds, PTL DEF Spec, NewCredentialsAreAuthorized, Current

\* A code is exchanged once, however often the redirect is delivered (the row
\* of auth_sessions is deleted before the token endpoint is asked).
THEOREM CodeIsUsedOnceHolds == Spec => CodeIsUsedOnce
<1> DEFINE Once ==
      \A k \in Callbacks :
        callback[k].pc = "consumed" /\ callback'[k].pc = "exchanging"
          => callback[k].flow \notin exchanged
<1>1. Inv /\ [Next]_vars => [Once]_vars
  BY DEF Inv, CodeInv
<1> QED
  BY <1>1, InvHolds, PTL DEF Spec, CodeIsUsedOnce
=============================================================================
