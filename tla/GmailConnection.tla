-------------------------- MODULE GmailConnection --------------------------
(***************************************************************************)
(* The Gmail connection (app/integrations/gmail.py and the provider in     *)
(* email_provider.py): authorization flows, the credentials they store,    *)
(* and calls that read, refresh and report on those credentials while the  *)
(* owner reconnects or disconnects.                                        *)
(*                                                                         *)
(* The row of connections, the rows of auth_sessions and each transaction  *)
(* on them are kept.  Consent screens, token and profile requests happen   *)
(* between transactions.  A flow stands for the account it authorises.  A  *)
(* stored secret is a ciphertext: the flow whose tokens it holds and a     *)
(* nonce, because encrypting the same tokens twice never gives the same    *)
(* text.  Tokens may have become stale, or have lapsed, at any time.       *)
(***************************************************************************)
EXTENDS Naturals, FiniteSets

CONSTANTS
  Flows,      \* authorization flows the owner may begin
  Sessions,   \* signed-in browsers of the owner
  Callbacks,  \* handlers of the redirect back from the consent screen
  Callers,    \* calls to Gmail: polls, lookups and sends
  Nonces,     \* what tells two ciphertexts of one flow apart
  NoFlow, NoSession, NoSecret

ASSUME NoneAssumption ==
  /\ NoFlow \notin Flows
  /\ NoSession \notin Sessions
  /\ NoSecret \notin [flow : Flows, nonce : Nonces]

VARIABLES
  conn,        \* the row of connections named gmail
  open,        \* flows with an unexpired row in auth_sessions
  owner,       \* the session that began each flow
  signedIn,    \* sessions that are still valid
  callback,    \* local state of each complete_oauth
  caller,      \* local state of each call to Gmail
  superseded,  \* history: flows followed by another one or by a disconnect
  exchanged    \* history: flows whose code was sent to the token endpoint

vars == <<conn, open, owner, signedIn, callback, caller, superseded, exchanged>>

Secrets == [flow : Flows, nonce : Nonces]
Statuses == {"unconfigured", "connected", "error", "expired"}

NotConnected == [status |-> "unconfigured", secret |-> NoSecret,
                 mailbox |-> NoFlow, pending |-> NoFlow]
IdleCallback == [pc |-> "idle", flow |-> NoFlow]
IdleCaller == [pc |-> "idle", secret |-> NoSecret]

Init ==
  /\ conn = NotConnected
  /\ open = {}
  /\ owner = [f \in Flows |-> NoSession]
  /\ signedIn = Sessions
  /\ callback = [k \in Callbacks |-> IdleCallback]
  /\ caller = [c \in Callers |-> IdleCaller]
  /\ superseded = {}
  /\ exchanged = {}

Begun == {f \in Flows : owner[f] # NoSession}

----------------------------------------------------------------------------
(***************************************************************************)
(* Authorization flows                                                     *)
(***************************************************************************)

\* The owner starts a flow.  It replaces the flows of the same session and
\* becomes the one the connection waits for.
Begin(s, f) ==
  /\ s \in signedIn
  /\ f \notin Begun
  /\ owner' = [owner EXCEPT ![f] = s]
  /\ open' = {g \in open : owner[g] # s} \cup {f}
  /\ conn' = [conn EXCEPT !.pending = f]
  /\ superseded' = superseded \cup Begun
  /\ UNCHANGED <<signedIn, callback, caller, exchanged>>

\* A row expires after ten minutes and is removed by retention later.
ExpireFlow(f) ==
  /\ f \in open
  /\ open' = open \ {f}
  /\ UNCHANGED <<conn, owner, signedIn, callback, caller, superseded, exchanged>>

\* Logout, or eight hours without one.
EndSession(s) ==
  /\ s \in signedIn
  /\ signedIn' = signedIn \ {s}
  /\ UNCHANGED <<conn, open, owner, callback, caller, superseded, exchanged>>

\* The redirect arrives, perhaps more than once: the row is consumed before
\* anything is asked of the token endpoint.
Consume(k, f) ==
  /\ callback[k] = IdleCallback
  /\ f \in open /\ conn.pending = f /\ owner[f] \in signedIn
  /\ open' = open \ {f}
  /\ callback' = [callback EXCEPT ![k] = [pc |-> "consumed", flow |-> f]]
  /\ UNCHANGED <<conn, owner, signedIn, caller, superseded, exchanged>>

\* Fault: a refusal clears whatever flow is pending.
DeclineUnchecked(k) ==
  /\ callback[k].pc = "consumed"
  /\ conn' = [conn EXCEPT !.pending = NoFlow]
  /\ callback' = [callback EXCEPT ![k] = IdleCallback]
  /\ UNCHANGED <<open, owner, signedIn, caller, superseded, exchanged>>

\* The redirect said that the owner declined.
Decline(k) ==
  /\ callback[k].pc = "consumed"
  /\ conn' = IF conn.pending = callback[k].flow
             THEN [conn EXCEPT !.pending = NoFlow] ELSE conn
  /\ callback' = [callback EXCEPT ![k] = IdleCallback]
  /\ UNCHANGED <<open, owner, signedIn, caller, superseded, exchanged>>

\* The code is sent to the token endpoint.
Exchange(k) ==
  /\ callback[k].pc = "consumed"
  /\ callback' = [callback EXCEPT ![k].pc = "exchanging"]
  /\ exchanged' = exchanged \cup {callback[k].flow}
  /\ UNCHANGED <<conn, open, owner, signedIn, caller, superseded>>

\* No code, a failed or incomplete exchange, an unverified mailbox, a flow
\* or session that is no longer valid at the end, or a crash.
AbandonFlow(k) ==
  /\ callback[k].pc # "idle"
  /\ callback' = [callback EXCEPT ![k] = IdleCallback]
  /\ UNCHANGED <<conn, open, owner, signedIn, caller, superseded, exchanged>>

InUse == {conn.secret} \cup {caller[c].secret : c \in Callers}

\* Fault: the pending flow is not looked at again before the tokens are stored.
FinishUnchecked(k) ==
  LET f == callback[k].flow IN
  /\ callback[k].pc = "exchanging"
  /\ owner[f] \in signedIn
  /\ \E n \in Nonces :
       LET secret == [flow |-> f, nonce |-> n] IN
       /\ secret \notin InUse
       /\ conn' = [status |-> "connected", secret |-> secret,
                   mailbox |-> f, pending |-> NoFlow]
  /\ callback' = [callback EXCEPT ![k] = IdleCallback]
  /\ UNCHANGED <<open, owner, signedIn, caller, superseded, exchanged>>

\* Tokens and mailbox are known: session and flow are checked again in the
\* transaction that stores them.
Finish(k) ==
  LET f == callback[k].flow IN
  /\ callback[k].pc = "exchanging"
  /\ owner[f] \in signedIn
  /\ conn.pending = f
  /\ \E n \in Nonces :
       LET secret == [flow |-> f, nonce |-> n] IN
       /\ secret \notin InUse
       /\ conn' = [status |-> "connected", secret |-> secret,
                   mailbox |-> f, pending |-> NoFlow]
  /\ callback' = [callback EXCEPT ![k] = IdleCallback]
  /\ UNCHANGED <<open, owner, signedIn, caller, superseded, exchanged>>

\* The owner discards the credentials.
Disconnect ==
  /\ conn # NotConnected
  /\ conn' = NotConnected
  /\ superseded' = superseded \cup Begun
  /\ UNCHANGED <<open, owner, signedIn, callback, caller, exchanged>>

----------------------------------------------------------------------------
(***************************************************************************)
(* Calls to Gmail                                                          *)
(***************************************************************************)

\* Fault: a connection in error is never tried again.
UsableOnlyConnected ==
  conn.secret # NoSecret /\ conn.status = "connected"

\* What access_credentials refuses to start from.
Usable ==
  conn.secret # NoSecret /\ conn.status \notin {"unconfigured", "expired"}

\* A call reads the credentials and finds the access token good, finds it
\* near its end, or finds that the refresh token has lapsed.
Read(c, finding) ==
  /\ caller[c] = IdleCaller
  /\ Usable
  /\ caller' = [caller EXCEPT ![c] = [pc |-> finding, secret |-> conn.secret]]
  /\ UNCHANGED <<conn, open, owner, signedIn, callback, superseded, exchanged>>

UseToken(c) == Read(c, "using")
StartRefresh(c) == Read(c, "refreshing")
FindLapsed(c) == Read(c, "lapsed")

\* Fault: new tokens are stored whatever is there.
RefreshUnchecked(c) ==
  /\ caller[c].pc = "refreshing"
  /\ \E n \in Nonces :
       LET secret == [caller[c].secret EXCEPT !.nonce = n] IN
       /\ secret \notin InUse
       /\ conn' = [conn EXCEPT !.status = "connected", !.secret = secret]
       /\ caller' = [caller EXCEPT ![c] = [pc |-> "using", secret |-> secret]]
  /\ UNCHANGED <<open, owner, signedIn, callback, superseded, exchanged>>

\* New tokens are stored only over the ciphertext they were derived from.
Refresh(c) ==
  /\ caller[c].pc = "refreshing"
  /\ caller[c].secret = conn.secret
  /\ \E n \in Nonces :
       LET secret == [caller[c].secret EXCEPT !.nonce = n] IN
       /\ secret \notin InUse
       /\ conn' = [conn EXCEPT !.status = "connected", !.secret = secret]
       /\ caller' = [caller EXCEPT ![c] = [pc |-> "using", secret |-> secret]]
  /\ UNCHANGED <<open, owner, signedIn, callback, superseded, exchanged>>

\* What mark_connection is called with after each finding.
Verdicts == [lapsed |-> {"expired"}, refreshing |-> {"expired", "error"},
             using |-> {"expired", "error"}, idle |-> {}]

\* The token endpoint or the API refuses and mark_connection records it,
\* whatever the connection has become meanwhile.
RecordFailure(c) ==
  /\ \E status \in Verdicts[caller[c].pc] :
       conn' = [conn EXCEPT !.status = status]
  /\ caller' = [caller EXCEPT ![c] = IdleCaller]
  /\ UNCHANGED <<open, owner, signedIn, callback, superseded, exchanged>>

\* The call ends, well or badly, without a word about the connection: a
\* result, a network failure, new tokens that came too late, or a crash.
EndCall(c) ==
  /\ caller[c].pc # "idle"
  /\ caller' = [caller EXCEPT ![c] = IdleCaller]
  /\ UNCHANGED <<conn, open, owner, signedIn, callback, superseded, exchanged>>

\* health_check sees in the same transaction that the refresh token of the
\* stored credentials has lapsed.
HealthCheck ==
  /\ conn.secret # NoSecret
  /\ conn.status # "expired"
  /\ conn' = [conn EXCEPT !.status = "expired"]
  /\ UNCHANGED <<open, owner, signedIn, callback, caller, superseded, exchanged>>

----------------------------------------------------------------------------
FlowStep ==
  \/ \E s \in Sessions, f \in Flows : Begin(s, f)
  \/ \E f \in Flows : ExpireFlow(f)
  \/ \E s \in Sessions : EndSession(s)
  \/ \E k \in Callbacks, f \in Flows : Consume(k, f)
  \/ \E k \in Callbacks : Decline(k) \/ Exchange(k) \/ AbandonFlow(k) \/ Finish(k)

CallStep ==
  \E c \in Callers : \/ UseToken(c) \/ StartRefresh(c) \/ FindLapsed(c)
                     \/ Refresh(c) \/ RecordFailure(c) \/ EndCall(c)

Next == FlowStep \/ CallStep \/ Disconnect \/ HealthCheck

Spec == Init /\ [][Next]_vars

\* Every call ends; the mailbox job keeps calling, so that access tokens keep
\* running out under it; and the token endpoint answers some refreshes.
Fairness ==
  /\ \A c \in Callers : WF_vars(EndCall(c))
  /\ SF_vars(\E c \in Callers : StartRefresh(c))
  /\ SF_vars(\E c \in Callers : Refresh(c))

LiveSpec == Spec /\ Fairness

----------------------------------------------------------------------------
(***************************************************************************)
(* Properties                                                              *)
(***************************************************************************)

\* The rows and the local states have the shapes the code gives them.
TypeOK ==
  /\ conn \in [status : Statuses, secret : Secrets \cup {NoSecret},
               mailbox : Flows \cup {NoFlow}, pending : Flows \cup {NoFlow}]
  /\ open \subseteq Flows
  /\ owner \in [Flows -> Sessions \cup {NoSession}]
  /\ signedIn \subseteq Sessions
  /\ callback \in [Callbacks -> [pc : {"idle", "consumed", "exchanging"},
                                 flow : Flows \cup {NoFlow}]]
  /\ caller \in [Callers -> [pc : {"idle", "using", "refreshing", "lapsed"},
                             secret : Secrets \cup {NoSecret}]]
  /\ superseded \subseteq Flows
  /\ exchanged \subseteq Flows

\* What the connection shows agrees with what it holds: the mailbox is the
\* one the stored tokens belong to, a connection shown as connected can be
\* used, and one shown as unconfigured holds nothing.
MailboxMatchesSecret ==
  /\ conn.secret # NoSecret => conn.mailbox = conn.secret.flow
  /\ conn.status = "connected" => conn.secret # NoSecret
  /\ conn.status = "unconfigured" => conn.secret = NoSecret

\* The newest flow stays answerable until it is answered or expires: a late
\* callback of an older flow, a refresh or a failure never cancels it.
NewestFlowIsAwaited ==
  \A f \in Begun \ superseded :
    \/ f \in open
    \/ \E k \in Callbacks : callback[k].flow = f
    => conn.pending = f

\* Credentials of another account, or any credentials after a disconnect,
\* come only from the flow begun last, and only while the session that began
\* it is still signed in.
NewCredentialsAreAuthorized ==
  [][LET new == conn'.secret IN
     new # NoSecret
       => \/ conn.secret # NoSecret /\ conn.secret.flow = new.flow
          \/ new.flow \in Begun \ superseded /\ owner[new.flow] \in signedIn]_vars

\* An authorization code is sent to the token endpoint once, however often
\* its redirect is delivered or its exchange fails.
CodeIsUsedOnce ==
  [][\A k \in Callbacks :
       callback[k].pc = "consumed" /\ callback'[k].pc = "exchanging"
         => callback[k].flow \notin exchanged]_vars

\* A connection in error that still has its credentials leaves that state
\* without the owner: by a refresh, or by finding that they are lost.
ErrorHeals ==
  (conn.status = "error" /\ conn.secret # NoSecret)
    ~> ~ (conn.status = "error" /\ conn.secret # NoSecret)
=============================================================================
