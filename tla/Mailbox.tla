------------------------------ MODULE Mailbox ------------------------------
(***************************************************************************)
(* Incoming mail: the poll of Gmail that keeps its place in a cursor       *)
(* (app/applications/reconciliation.py, poll_messages of                   *)
(* app/integrations/email_provider.py), what becomes of each message, and  *)
(* the owner's association of the messages that match no application.      *)
(*                                                                         *)
(* A poll reads the cursor in one transaction, asks Gmail for a page of    *)
(* the window [after, until) without one, and records the page and the     *)
(* next cursor in a second one.  Several polls overlap when one outlives   *)
(* the lease of its job.  Messages are numbered in the order Gmail lists   *)
(* them in, newest first, and may arrive in the second of a poll but after *)
(* it, which is what the overlap of windows is for.  A page token stands   *)
(* for the messages not yet returned.  Cursors carry two fields of         *)
(* history, from and boxes: since when, and of which mailboxes, the        *)
(* messages before it were listed.                                         *)
(***************************************************************************)
EXTENDS Naturals, FiniteSets

CONSTANTS
  Messages,   \* numbers, the higher the newer
  Kind,       \* what each message is to the code
  Boxes,      \* Gmail accounts the owner may connect
  Home,       \* the account each message is sent to
  Pollers,    \* runs of the mailbox job that may overlap
  Lookback,   \* thirty days
  Overlap,    \* two minutes
  MaxTime, MaxFaults, MaxConnects,   \* bounds
  NoBox, NoCursor, NoPage, Never

Kinds == {"reply", "stray", "unreadable"}

ASSUME MailboxAssumption ==
  /\ Messages \subseteq Nat
  /\ Kind \in [Messages -> Kinds]
  /\ Home \in [Messages -> Boxes]
  /\ NoBox \notin Boxes
  /\ {Lookback, Overlap, MaxTime, MaxFaults, MaxConnects} \subseteq Nat
  /\ Overlap > 0
  /\ Never \notin Nat

VARIABLES
  now,       \* the clock of Gmail and of the program
  arrived,   \* when each message reached its mailbox
  box,       \* the connected account
  cursor,    \* data["cursor"] of the connection
  poller,    \* local state of each poll
  email,     \* what is known of each message
  applied,   \* history: how often apply_message ran for it
  count      \* faults, which are expired tokens and failures, and connections so far

vars == <<now, arrived, box, cursor, poller, email, applied, count>>

Cursors ==
  [after : 0..MaxTime, until : (0..MaxTime + 1) \cup {Never},
   page : {NoPage} \cup SUBSET Messages, from : 0..MaxTime, boxes : SUBSET Boxes]

Idle == [pc |-> "idle", cursor |-> NoCursor, batch |-> {}]

Init ==
  /\ now = 0
  /\ arrived = [m \in Messages |-> Never]
  /\ box = NoBox
  /\ cursor = NoCursor
  /\ poller = [p \in Pollers |-> Idle]
  /\ email = [m \in Messages |-> "absent"]
  /\ applied = [m \in Messages |-> 0]
  /\ count = [faults |-> 0, connects |-> 0]

Mail == <<now, arrived>>
Count(what, bound) ==
  /\ count[what] < bound
  /\ count' = [count EXCEPT ![what] = @ + 1]

(***************************************************************************)
(* Gmail.                                                                  *)
(***************************************************************************)
\* Messages are numbered by arrival.
Arrive(m) ==
  /\ arrived[m] = Never
  /\ \A n \in Messages : n < m => arrived[n] # Never
  /\ arrived' = [arrived EXCEPT ![m] = now]
  /\ UNCHANGED <<now, box, cursor, poller, email, applied, count>>

Tick ==
  /\ now < MaxTime
  /\ now' = now + 1
  /\ UNCHANGED <<arrived, box, cursor, poller, email, applied, count>>

(***************************************************************************)
(* The connection: both replace its data, and the cursor with it.          *)
(***************************************************************************)
Connect(b) ==
  /\ Count("connects", MaxConnects)
  /\ box' = b
  /\ cursor' = NoCursor
  /\ UNCHANGED <<Mail, poller, email, applied>>

Disconnect ==
  /\ box # NoBox
  /\ box' = NoBox
  /\ cursor' = NoCursor
  /\ UNCHANGED <<Mail, poller, email, applied, count>>

(***************************************************************************)
(* One poll.                                                               *)
(***************************************************************************)
\* mailbox_maintenance finds credentials and poll_mailbox reads the cursor.  A
\* disconnect between the two only makes the cursor the one of a first poll.
Begin(p) ==
  /\ poller[p].pc = "idle"
  /\ box # NoBox
  /\ poller' = [poller EXCEPT ![p] = [pc |-> "read", cursor |-> cursor, batch |-> {}]]
  /\ UNCHANGED <<Mail, box, cursor, email, applied, count>>

FirstCursor ==
  LET start == IF now > Lookback THEN now - Lookback ELSE 0
  IN  [after |-> start, until |-> Never, page |-> NoPage, from |-> start, boxes |-> {}]

Newest(S, n) == {m \in S : Cardinality({k \in S : k > m}) < n}

Window(after, until) ==
  {m \in Messages : arrived[m] # Never /\ Home[m] = box
                    /\ after <= arrived[m] /\ arrived[m] < until}

\* The next cursor: the rest of the window, or the next window from after on.
NextCursor(current, until, rest, after, reopen) ==
  [after |-> IF rest # {} THEN current.after ELSE after,
   until |-> IF rest # {} \/ ~ reopen THEN until ELSE Never,
   page  |-> IF rest # {} THEN rest ELSE NoPage,
   from  |-> current.from,
   boxes |-> current.boxes \cup {box}]

\* Faults: windows that do not overlap; a window that is never left.
AfterWithoutOverlap(current, until, rest) == NextCursor(current, until, rest, until, TRUE)
AfterSameWindow(current, until, rest) == NextCursor(current, until, rest, until, FALSE)

After(current, until, rest) ==
  NextCursor(current, until, rest, IF until > Overlap THEN until - Overlap ELSE 0, TRUE)

\* What the provider returns to poller p: the messages of one page and the next
\* cursor.  A page of one message stands for a page of a hundred.  The gets of
\* a page are one step with its list: messages do not change, and if the
\* account does, FailPoll is what follows.
Page(p, expired) ==
  LET current == IF poller[p].cursor = NoCursor THEN FirstCursor ELSE poller[p].cursor
      until   == IF current.until = Never THEN now + 1 ELSE current.until
      listed  == IF current.page = NoPage \/ expired
                   THEN Window(current.after, until) ELSE current.page
      batch   == Newest(listed, 1)
  IN  [batch |-> batch, cursor |-> After(current, until, listed \ batch)]

Readable(batch) == \A m \in batch : Kind[m] # "unreadable"

Fetch(p, expired) ==
  /\ poller[p].pc = "read"
  /\ box # NoBox
  /\ Readable(Page(p, expired).batch)
  /\ poller' = [poller EXCEPT ![p] =
       [pc |-> "listed", batch |-> Page(p, expired).batch, cursor |-> Page(p, expired).cursor]]
  /\ UNCHANGED <<Mail, box, cursor, email, applied>>

HasToken(p) == poller[p].cursor # NoCursor /\ poller[p].cursor.page # NoPage

\* A token of another account counts as expired.
OwnToken(p) == HasToken(p) /\ poller[p].cursor.boxes = {box}

List(p) ==
  /\ HasToken(p) => OwnToken(p)
  /\ Fetch(p, FALSE)
  /\ UNCHANGED count

\* Status 400: the same window is listed again from its first page.
ListAgain(p) ==
  /\ HasToken(p)
  /\ Fetch(p, TRUE)
  /\ IF OwnToken(p) THEN Count("faults", MaxFaults) ELSE UNCHANGED count

\* A message of the page that cannot be decoded fails the poll.
Choke(p) ==
  /\ poller[p].pc = "read"
  /\ box # NoBox
  /\ \/ (HasToken(p) => OwnToken(p)) /\ ~ Readable(Page(p, FALSE).batch)
     \/ HasToken(p) /\ ~ Readable(Page(p, TRUE).batch)
  /\ poller' = [poller EXCEPT ![p] = Idle]
  /\ UNCHANGED <<Mail, box, cursor, email, applied, count>>

\* record_message: what is known stays as it is.
Recorded(m) == IF Kind[m] = "reply" THEN "applied" ELSE "waiting"

\* One transaction; the cursor is written over whatever the connection holds.
Record(p) ==
  LET new == {m \in poller[p].batch : email[m] = "absent"}
  IN  /\ poller[p].pc = "listed"
      /\ email' = [m \in Messages |-> IF m \in new THEN Recorded(m) ELSE email[m]]
      /\ applied' = [m \in Messages |->
           applied[m] + IF m \in new /\ Kind[m] = "reply" THEN 1 ELSE 0]
      /\ cursor' = poller[p].cursor
      /\ poller' = [poller EXCEPT ![p] = Idle]
      /\ UNCHANGED <<Mail, box, count>>

\* An error of Gmail or of the network, the end of the worker, or credentials
\* that are gone: nothing is written.
FailPoll(p) ==
  /\ poller[p].pc # "idle"
  /\ IF box = NoBox THEN UNCHANGED count ELSE Count("faults", MaxFaults)
  /\ poller' = [poller EXCEPT ![p] = Idle]
  /\ UNCHANGED <<Mail, box, cursor, email, applied>>

(***************************************************************************)
(* The owner, on the task of a message that matched no application.        *)
(***************************************************************************)
\* Fault: the association is not checked for an earlier one.
AssociateUnchecked(m) ==
  /\ email[m] # "absent"
  /\ email' = [email EXCEPT ![m] = "applied"]
  /\ applied' = [applied EXCEPT ![m] = @ + 1]
  /\ UNCHANGED <<Mail, box, cursor, poller, count>>

\* associate_message refuses what has an application or an audit event.
Associate(m) ==
  /\ email[m] \in {"waiting", "dismissed"}
  /\ email' = [email EXCEPT ![m] = "applied"]
  /\ applied' = [applied EXCEPT ![m] = @ + 1]
  /\ UNCHANGED <<Mail, box, cursor, poller, count>>

\* resolve_task closes the task and leaves the message unassociated.
Dismiss(m) ==
  /\ email[m] = "waiting"
  /\ email' = [email EXCEPT ![m] = "dismissed"]
  /\ UNCHANGED <<Mail, box, cursor, poller, applied, count>>

Poll(p) ==
  \/ Begin(p) \/ List(p) \/ ListAgain(p) \/ Record(p)
  \/ Choke(p) \/ FailPoll(p)

Next ==
  \/ \E m \in Messages : Arrive(m) \/ Associate(m) \/ Dismiss(m)
  \/ \E b \in Boxes : Connect(b)
  \/ \E p \in Pollers : Poll(p)
  \/ Disconnect
  \/ Tick

Spec == Init /\ [][Next]_vars

\* schedule_due starts the mailbox job every five minutes; a call ends in an
\* answer or an error.
Fairness == \A p \in Pollers : WF_vars(Poll(p))

LiveSpec == Spec /\ Fairness

(***************************************************************************)
(* Properties.                                                             *)
(***************************************************************************)
\* The rows and local states keep their shape.
TypeOK ==
  /\ now \in 0..MaxTime
  /\ arrived \in [Messages -> (0..MaxTime) \cup {Never}]
  /\ box \in Boxes \cup {NoBox}
  /\ cursor \in Cursors \cup {NoCursor}
  /\ poller \in [Pollers -> [pc : {"idle", "read", "listed"},
                             cursor : Cursors \cup {NoCursor}, batch : SUBSET Messages]]
  /\ email \in [Messages -> {"absent", "waiting", "dismissed", "applied"}]
  /\ applied \in [Messages -> Nat]
  /\ count \in [{"faults", "connects"} -> Nat]

\* Where a cursor of one mailbox has passed: before its window, and in the
\* window what is not on the pages to come.
Passed(c, m) ==
  /\ c # NoCursor
  /\ c.boxes = {Home[m]}
  /\ arrived[m] # Never
  /\ c.from <= arrived[m]
  /\ \/ arrived[m] < c.after
     \/ c.page # NoPage /\ arrived[m] < c.until - Overlap /\ m \notin c.page

\* Every cursor, stored or about to be, has only passed messages that are
\* recorded, or that are in the page recorded together with it: whatever polls
\* overlap, fail, restart a window or go back to an older cursor, no message of
\* the mailbox the cursor belongs to is skipped.
PassedIsRecorded ==
  \A m \in Messages :
    /\ Passed(cursor, m) => email[m] # "absent"
    /\ \A p \in Pollers : Passed(poller[p].cursor, m)
                            => email[m] # "absent" \/ m \in poller[p].batch

\* A message changes its application once, when it is recorded or when the
\* owner associates it, and until then waits in an owner task or was set aside
\* by the owner: polls that return it again change nothing.
AppliedOnce ==
  \A m \in Messages : applied[m] = IF email[m] = "applied" THEN 1 ELSE 0

\* What a poll may still return: the mailbox is connected, no window that lies
\* ahead of the cursor holds a message that cannot be read, and the cursor is
\* the mailbox's own and starts before the message.
InReach(m) ==
  LET start == IF cursor = NoCursor THEN FirstCursor.from ELSE cursor.after
  IN  /\ arrived[m] # Never
      /\ box = Home[m]
      /\ cursor # NoCursor => cursor.boxes = {box} /\ cursor.from <= arrived[m]
      /\ cursor = NoCursor => start <= arrived[m]
      /\ \A u \in Messages :
           Kind[u] = "unreadable" /\ Home[u] = box /\ arrived[u] # Never => arrived[u] < start

\* A message that stays within reach is recorded in the end, through failed
\* polls, expired page tokens and overlapping polls.
ReachedIsRecorded ==
  \A m \in {k \in Messages : Kind[k] # "unreadable"} :
    <>[]InReach(m) => <>(email[m] # "absent")
=============================================================================
