---------------------------- MODULE MailboxProofs ----------------------------
(***************************************************************************)
(* Proofs about the poll of incoming mail: no cursor passes a message that *)
(* was not recorded and no message is applied twice, for any messages,     *)
(* accounts, overlapping polls, faults and lengths of the overlap.         *)
(***************************************************************************)
EXTENDS Mailbox, TLAPS

\* A cursor lies in the past: its next window has not begun in the future and,
\* once fixed, ends no later than the second of its poll, in which messages may
\* still arrive.  A listing has named the mailbox it read.
InPast(c) ==
  c # NoCursor =>
    /\ c \in Cursors /\ c.boxes # {}
    /\ c.after <= now
    /\ c.until # Never => c.until <= now + 1
    /\ c.page # NoPage => c.until # Never

\* A poll that has listed nothing has no batch, and one at rest no cursor.
PollerInv(p) ==
  /\ InPast(poller[p].cursor)
  /\ poller[p].pc # "listed" => poller[p].batch = {}
  /\ poller[p].pc = "idle" => poller[p] = Idle

Inv ==
  /\ TypeOK /\ PassedIsRecorded /\ AppliedOnce
  /\ InPast(cursor)
  /\ \A p \in Pollers : PollerInv(p)

\* No message has arrived in the future.
LEMMA ArrivedInPast ==
  ASSUME TypeOK, NEW m \in Messages, arrived[m] # Never
  PROVE  arrived[m] \in 0..MaxTime
BY DEF TypeOK

LEMMA InitInv == Init => Inv
<1> SUFFICES ASSUME Init PROVE Inv
  OBVIOUS
<1> USE MailboxAssumption DEF Init, Idle
<1>1. TypeOK
  BY DEF TypeOK
<1>2. PassedIsRecorded /\ AppliedOnce
  BY DEF PassedIsRecorded, Passed, AppliedOnce
<1>3. InPast(cursor) /\ \A p \in Pollers : PollerInv(p)
  BY DEF InPast, PollerInv
<1> QED
  BY <1>1, <1>2, <1>3 DEF Inv

-----------------------------------------------------------------------------
(* Gmail *)

\* A message arrives where no cursor has passed: at the end of the last second,
\* which every window leaves to the next one.
LEMMA NothingPassesNow ==
  ASSUME NEW c, InPast(c), NEW m \in Messages, now \in Nat, arrived'[m] = now, now' = now
  PROVE  ~ Passed(c, m)'
<1> SUFFICES ASSUME c # NoCursor PROVE ~ Passed(c, m)'
  BY DEF Passed
<1>1. /\ c.after \in Nat /\ c.after <= now
      /\ c.page # NoPage => c.until \in Nat /\ c.until <= now + 1
  BY MailboxAssumption DEF InPast, Cursors
<1>2. c.page # NoPage => ~ (now < c.until - Overlap)
  BY <1>1, MailboxAssumption
<1> QED
  BY <1>1, <1>2 DEF Passed

LEMMA ArriveKeepsInv ==
  ASSUME Inv, NEW m \in Messages, Arrive(m)
  PROVE  Inv'
<1> USE DEF Inv
<1>1. /\ now \in 0..MaxTime /\ now' = now /\ arrived' = [arrived EXCEPT ![m] = now]
      /\ arrived[m] = Never /\ UNCHANGED <<box, cursor, poller, email, applied, count>>
  BY DEF Arrive, TypeOK
<1>2. TypeOK'
  BY <1>1 DEF TypeOK
<1>3. AppliedOnce' /\ InPast(cursor)' /\ \A p \in Pollers : PollerInv(p)'
  BY <1>1 DEF AppliedOnce, InPast, PollerInv
<1>4. ASSUME NEW c, InPast(c), NEW n \in Messages, Passed(c, n)'
      PROVE  Passed(c, n)
  <2>1. n # m
    BY <1>1, <1>4, NothingPassesNow, MailboxAssumption DEF TypeOK
  <2>2. arrived'[n] = arrived[n]
    BY <1>1, <2>1 DEF TypeOK
  <2> QED
    BY <1>4, <2>2 DEF Passed
<1>5. PassedIsRecorded'
  BY <1>1, <1>4 DEF PassedIsRecorded, PollerInv
<1> QED
  BY <1>2, <1>3, <1>5

LEMMA TickKeepsInv ==
  ASSUME Inv, Tick
  PROVE  Inv'
<1> USE MailboxAssumption DEF Inv, Tick
<1>1. TypeOK'
  BY DEF TypeOK
<1>2. AppliedOnce' /\ PassedIsRecorded'
  BY DEF AppliedOnce, PassedIsRecorded, Passed
<1>3. InPast(cursor)' /\ \A p \in Pollers : PollerInv(p)'
  BY DEF InPast, PollerInv, TypeOK, Cursors
<1> QED
  BY <1>1, <1>2, <1>3

-----------------------------------------------------------------------------
(* The connection, and the owner *)

\* Both forget the cursor: the next poll is a first one.
LEMMA ConnectionKeepsInv ==
  ASSUME Inv, Disconnect \/ \E b \in Boxes : Connect(b)
  PROVE  Inv'
<1> USE DEF Inv
<1>1. /\ cursor' = NoCursor /\ box' \in Boxes \cup {NoBox}
      /\ UNCHANGED <<now, arrived, poller, email, applied>>
      /\ count' \in [{"faults", "connects"} -> Nat]
  BY DEF Disconnect, Connect, Count, Mail, TypeOK
<1>2. TypeOK'
  BY <1>1 DEF TypeOK
<1>3. AppliedOnce' /\ PassedIsRecorded'
  BY <1>1 DEF AppliedOnce, PassedIsRecorded, Passed
<1>4. InPast(cursor)' /\ \A p \in Pollers : PollerInv(p)'
  BY <1>1 DEF InPast, PollerInv
<1> QED
  BY <1>2, <1>3, <1>4

\* What the owner does with a message that is recorded.
LEMMA OwnerKeepsInv ==
  ASSUME Inv, NEW m \in Messages, Associate(m) \/ Dismiss(m)
  PROVE  Inv'
<1> USE DEF Inv
<1>1. /\ UNCHANGED <<now, arrived, box, cursor, poller, count>>
      /\ email[m] \in {"waiting", "dismissed"}
      /\ \/ /\ email' = [email EXCEPT ![m] = "applied"]
            /\ applied' = [applied EXCEPT ![m] = applied[m] + 1]
         \/ /\ email' = [email EXCEPT ![m] = "dismissed"]
            /\ applied' = applied
  BY DEF Associate, Dismiss, Mail
<1>2. TypeOK'
  BY <1>1 DEF TypeOK
<1>3. AppliedOnce'
  BY <1>1 DEF AppliedOnce, TypeOK
<1>4. \A n \in Messages : email[n] # "absent" => email'[n] # "absent"
  BY <1>1 DEF TypeOK
<1>5. PassedIsRecorded'
  BY <1>1, <1>4 DEF PassedIsRecorded, Passed
<1>6. InPast(cursor)' /\ \A p \in Pollers : PollerInv(p)'
  BY <1>1 DEF InPast, PollerInv
<1> QED
  BY <1>2, <1>3, <1>5, <1>6

-----------------------------------------------------------------------------
(* A poll *)

LEMMA RestKeepsInv ==
  ASSUME Inv, NEW p \in Pollers, Choke(p) \/ FailPoll(p)
  PROVE  Inv'
<1> USE DEF Inv
<1>1. /\ poller' = [poller EXCEPT ![p] = Idle]
      /\ UNCHANGED <<now, arrived, box, cursor, email, applied>>
      /\ count' = count \/ Count("faults", MaxFaults)
  BY DEF Choke, FailPoll, Mail
<1>2. TypeOK'
  <2>1. count' \in [{"faults", "connects"} -> Nat]
    BY <1>1 DEF Count, TypeOK
  <2> QED
    BY <1>1, <2>1 DEF TypeOK, Idle
<1>3. AppliedOnce' /\ PassedIsRecorded'
  BY <1>1 DEF AppliedOnce, PassedIsRecorded, Passed, Idle, TypeOK
<1>4. InPast(cursor)' /\ \A q \in Pollers : PollerInv(q)'
  BY <1>1 DEF InPast, PollerInv, Idle, TypeOK
<1> QED
  BY <1>2, <1>3, <1>4

LEMMA BeginKeepsInv ==
  ASSUME Inv, NEW p \in Pollers, Begin(p)
  PROVE  Inv'
<1> USE DEF Inv
<1>1. /\ poller' = [poller EXCEPT ![p] = [pc |-> "read", cursor |-> cursor, batch |-> {}]]
      /\ UNCHANGED <<now, arrived, box, cursor, email, applied, count>>
  BY DEF Begin, Mail
<1>2. /\ poller'[p] = [pc |-> "read", cursor |-> cursor, batch |-> {}]
      /\ \A q \in Pollers \ {p} : poller'[q] = poller[q]
  BY <1>1 DEF TypeOK
<1>3. TypeOK'
  <2>1. poller' \in [Pollers -> [pc : {"idle", "read", "listed"},
                                 cursor : Cursors \cup {NoCursor}, batch : SUBSET Messages]]
    BY <1>1 DEF TypeOK, Idle
  <2> QED
    BY <1>1, <2>1 DEF TypeOK
<1>4. AppliedOnce'
  BY <1>1 DEF AppliedOnce
<1>5. PassedIsRecorded'
  <2>1. \A c, m : Passed(c, m)' <=> Passed(c, m)
    BY <1>1 DEF Passed
  <2>2. \A m \in Messages : Passed(cursor', m) => email'[m] # "absent"
    BY <1>1 DEF PassedIsRecorded
  <2>3. \A q \in Pollers, m \in Messages :
          Passed(poller'[q].cursor, m) => email'[m] # "absent" \/ m \in poller'[q].batch
    BY <1>1, <1>2 DEF PassedIsRecorded
  <2> QED
    BY <1>1, <2>2, <2>3 DEF PassedIsRecorded, Passed
<1>6. InPast(cursor)' /\ \A q \in Pollers : PollerInv(q)'
  <2>1. InPast(cursor)'
    BY <1>1 DEF InPast
  <2>2. PollerInv(p)'
    BY <1>1, <1>2, <2>1 DEF PollerInv, InPast
  <2>3. \A q \in Pollers \ {p} : PollerInv(q)'
    BY <1>1, <1>2 DEF PollerInv, InPast
  <2> QED
    BY <2>1, <2>2, <2>3
<1> QED
  BY <1>3, <1>4, <1>5, <1>6

\* One transaction records the page and moves the stored cursor past it.
LEMMA RecordKeepsInv ==
  ASSUME Inv, NEW p \in Pollers, Record(p)
  PROVE  Inv'
<1> USE DEF Inv
<1> DEFINE new == {m \in poller[p].batch : email[m] = "absent"}
<1>1. /\ email' = [m \in Messages |-> IF m \in new THEN Recorded(m) ELSE email[m]]
      /\ applied' = [m \in Messages |->
           applied[m] + IF m \in new /\ Kind[m] = "reply" THEN 1 ELSE 0]
      /\ cursor' = poller[p].cursor /\ poller' = [poller EXCEPT ![p] = Idle]
      /\ UNCHANGED <<now, arrived, box, count>>
  BY DEF Record, Mail
<1>2. \A m \in Messages :
        /\ email[m] # "absent" => email'[m] = email[m]
        /\ m \in poller[p].batch => email'[m] # "absent"
  BY <1>1 DEF Recorded
<1>3. TypeOK'
  <2>1. \A m \in Messages : applied'[m] \in Nat /\ email'[m] \in {"absent", "waiting", "dismissed", "applied"}
    BY <1>1 DEF TypeOK, Recorded
  <2>2. poller' \in [Pollers -> [pc : {"idle", "read", "listed"},
                                 cursor : Cursors \cup {NoCursor}, batch : SUBSET Messages]]
    BY <1>1 DEF TypeOK, Idle
  <2> QED
    BY <1>1, <2>1, <2>2 DEF TypeOK
<1>4. AppliedOnce'
  BY <1>1 DEF AppliedOnce, TypeOK, Recorded
<1>5. PassedIsRecorded'
  <2>1. \A c, m : Passed(c, m)' <=> Passed(c, m)
    BY <1>1 DEF Passed
  <2>2. \A m \in Messages : Passed(cursor', m) => email'[m] # "absent"
    BY <1>1, <1>2 DEF PassedIsRecorded
  <2>3. \A q \in Pollers, m \in Messages :
          Passed(poller'[q].cursor, m) => email'[m] # "absent" \/ m \in poller'[q].batch
    BY <1>1, <1>2 DEF PassedIsRecorded, Idle, Passed, TypeOK
  <2> QED
    BY <1>1, <2>2, <2>3 DEF PassedIsRecorded, Passed
<1>6. InPast(cursor)' /\ \A q \in Pollers : PollerInv(q)'
  BY <1>1 DEF InPast, PollerInv, Idle, TypeOK
<1> QED
  BY <1>3, <1>4, <1>5, <1>6

-----------------------------------------------------------------------------
(* A page *)

\* What a poll goes on from: its cursor, or the window of a first poll.
Current(p) == IF poller[p].cursor = NoCursor THEN FirstCursor ELSE poller[p].cursor
Until(p) == IF Current(p).until = Never THEN now + 1 ELSE Current(p).until

LEMMA CurrentInPast ==
  ASSUME Inv, NEW p \in Pollers
  PROVE  /\ Current(p).after \in 0..MaxTime /\ Current(p).after <= now
         /\ Current(p).from \in 0..MaxTime /\ Current(p).boxes \subseteq Boxes
         /\ Until(p) \in 0..MaxTime + 1 /\ Until(p) <= now + 1
<1> USE MailboxAssumption
<1>1. now \in Nat /\ now <= MaxTime
  BY DEF Inv, TypeOK
<1>2. CASE poller[p].cursor = NoCursor
  <2>1. Current(p) = FirstCursor
    BY <1>2 DEF Current
  <2>2. /\ FirstCursor.after \in 0..MaxTime /\ FirstCursor.after <= now
        /\ FirstCursor.from \in 0..MaxTime /\ FirstCursor.boxes = {}
        /\ FirstCursor.until = Never
    BY <1>1 DEF FirstCursor
  <2> QED
    BY <1>1, <2>1, <2>2 DEF Until
<1>3. CASE poller[p].cursor # NoCursor
  <2>1. Current(p) = poller[p].cursor
    BY <1>3 DEF Current
  <2>2. InPast(poller[p].cursor)
    BY DEF Inv, PollerInv
  <2> QED
    BY <1>1, <1>3, <2>1, <2>2 DEF Until, InPast, Cursors
<1> QED
  BY <1>2, <1>3

\* What has been passed before a first poll lists anything is older than it.
LEMMA CurrentPasses ==
  ASSUME Inv, NEW p \in Pollers, NEW m \in Messages, arrived[m] # Never,
         Current(p).from <= arrived[m], Current(p).boxes \subseteq {Home[m]},
         \/ arrived[m] < Current(p).after
         \/ /\ poller[p].cursor # NoCursor /\ Current(p).page # NoPage
            /\ arrived[m] < Until(p) - Overlap /\ m \notin Current(p).page
  PROVE  Passed(poller[p].cursor, m)
<1>1. arrived[m] \in Nat
  BY ArrivedInPast DEF Inv
<1>2. CASE poller[p].cursor = NoCursor
  <2>1. Current(p).after = Current(p).from /\ Current(p).from \in Nat
    BY <1>2, CurrentInPast DEF Current, FirstCursor
  <2> QED
    BY <1>1, <1>2, <2>1
<1>3. CASE poller[p].cursor # NoCursor
  <2>1. Current(p) = poller[p].cursor
    BY <1>3 DEF Current
  <2>2. /\ Current(p).boxes # {}
        /\ Current(p).page # NoPage => Until(p) = Current(p).until
    BY <1>3, <2>1 DEF Inv, PollerInv, InPast, Until
  <2>3. Current(p).boxes = {Home[m]}
    BY <2>2
  <2> QED
    BY <1>3, <2>1, <2>2, <2>3 DEF Passed
<1> QED
  BY <1>2, <1>3

\* The list of a page holds whatever of the window was not passed before.
Listed(p, expired) ==
  IF Current(p).page = NoPage \/ expired
    THEN Window(Current(p).after, Until(p)) ELSE Current(p).page

LEMMA PageFields ==
  ASSUME Inv, NEW p \in Pollers, NEW expired \in BOOLEAN
  PROVE  /\ Page(p, expired).batch = Newest(Listed(p, expired), 1)
         /\ Page(p, expired).cursor
              = After(Current(p), Until(p), Listed(p, expired) \ Page(p, expired).batch)
         /\ Page(p, expired).batch \subseteq Listed(p, expired)
         /\ Listed(p, expired) \subseteq Messages
<1>1. Page(p, expired).batch = Newest(Listed(p, expired), 1)
  BY DEF Page, Current, Until, Listed
<1>2. Page(p, expired).cursor
        = After(Current(p), Until(p), Listed(p, expired) \ Page(p, expired).batch)
  BY DEF Page, Current, Until, Listed
<1>3. Listed(p, expired) \subseteq Messages
  <2>1. Current(p).page # NoPage => Current(p).page \subseteq Messages
    <3>1. CASE poller[p].cursor = NoCursor
      BY <3>1 DEF Current, FirstCursor
    <3>2. CASE poller[p].cursor # NoCursor
      BY <3>2 DEF Current, Inv, PollerInv, InPast, Cursors
    <3> QED
      BY <3>1, <3>2
  <2> QED
    BY <2>1 DEF Listed, Window
<1> QED
  BY <1>1, <1>2, <1>3 DEF Newest

\* The fields of the cursor after a page.
LEMMA AfterFields ==
  ASSUME NEW current, NEW until, NEW rest
  PROVE  LET next == After(current, until, rest)
         IN  /\ next.after = IF rest # {} THEN current.after
                             ELSE IF until > Overlap THEN until - Overlap ELSE 0
             /\ next.until = IF rest # {} THEN until ELSE Never
             /\ next.page = IF rest # {} THEN rest ELSE NoPage
             /\ next.from = current.from
             /\ next.boxes = current.boxes \cup {box}
BY DEF After, NextCursor

\* The cursor after a page lies in the past too.
LEMMA PageInPast ==
  ASSUME Inv, NEW p \in Pollers, NEW expired \in BOOLEAN, box \in Boxes
  PROVE  InPast(Page(p, expired).cursor)
<1> DEFINE rest == Listed(p, expired) \ Page(p, expired).batch
           next == After(Current(p), Until(p), rest)
<1>1. Page(p, expired).cursor = next /\ rest \subseteq Messages
  BY PageFields
<1>2. /\ next.after = IF rest # {} THEN Current(p).after
                      ELSE IF Until(p) > Overlap THEN Until(p) - Overlap ELSE 0
      /\ next.until = IF rest # {} THEN Until(p) ELSE Never
      /\ next.page = IF rest # {} THEN rest ELSE NoPage
      /\ next.from = Current(p).from /\ next.boxes = Current(p).boxes \cup {box}
  BY AfterFields
<1>3. next = [after |-> next.after, until |-> next.until, page |-> next.page,
              from |-> next.from, boxes |-> next.boxes]
  BY DEF After, NextCursor
<1> HIDE DEF next, rest
<1>4. now \in Nat /\ now <= MaxTime
  BY DEF Inv, TypeOK
<1>5. /\ next.after \in 0..MaxTime /\ next.after <= now
      /\ next.until # Never => next.until \in 0..MaxTime + 1 /\ next.until <= now + 1
      /\ next.page # NoPage => next.until # Never
  BY <1>2, <1>4, CurrentInPast, MailboxAssumption
<1>6. next \in Cursors
  BY <1>1, <1>2, <1>5, <1>3, CurrentInPast DEF Cursors
<1>7. next.boxes # {}
  BY <1>2
<1> QED
  BY <1>1, <1>5, <1>6, <1>7 DEF InPast

\* What a page moves the cursor past is in the page, or was passed before:
\* where a window ends the next one begins earlier, and where the rest of a
\* window is left out it is not passed.
LEMMA PagePasses ==
  ASSUME Inv, NEW p \in Pollers, NEW expired \in BOOLEAN, NEW m \in Messages,
         Passed(Page(p, expired).cursor, m), m \notin Page(p, expired).batch
  PROVE  Passed(poller[p].cursor, m)
<1> DEFINE listed == Listed(p, expired)
           rest == listed \ Page(p, expired).batch
           next == After(Current(p), Until(p), rest)
<1>1. Page(p, expired).cursor = next
  BY PageFields
<1>2. /\ next.after = IF rest # {} THEN Current(p).after
                      ELSE IF Until(p) > Overlap THEN Until(p) - Overlap ELSE 0
      /\ next.until = IF rest # {} THEN Until(p) ELSE Never
      /\ next.page = IF rest # {} THEN rest ELSE NoPage
      /\ next.from = Current(p).from /\ next.boxes = Current(p).boxes \cup {box}
  BY AfterFields
<1>3. rest = {} => m \notin listed
  OBVIOUS
<1>4. m \in listed => m \in rest
  OBVIOUS
<1> HIDE DEF next, rest, listed
<1>5. /\ arrived[m] # Never /\ Current(p).from <= arrived[m]
      /\ Home[m] = box /\ Current(p).boxes \subseteq {Home[m]}
      /\ \/ arrived[m] < next.after
         \/ next.page # NoPage /\ arrived[m] < next.until - Overlap /\ m \notin next.page
  BY <1>1, <1>2 DEF Passed
<1>6. arrived[m] \in Nat
  BY <1>5, ArrivedInPast DEF Inv
<1>7. arrived[m] < Current(p).after
      \/ (arrived[m] < Until(p) - Overlap /\ m \notin listed)
  BY <1>2, <1>3, <1>4, <1>5, <1>6, CurrentInPast, MailboxAssumption
<1>8. CASE arrived[m] < Current(p).after
  BY <1>5, <1>8, CurrentPasses
<1>9. CASE ~ (arrived[m] < Current(p).after)
  <2>1. arrived[m] < Until(p) - Overlap /\ m \notin listed
    BY <1>7, <1>9
  <2>2. Current(p).page # NoPage /\ listed = Current(p).page
    <3>1. m \notin Window(Current(p).after, Until(p)) => ~ (arrived[m] < Until(p))
      BY <1>5, <1>6, <1>9, CurrentInPast DEF Window
    <3>2. arrived[m] < Until(p)
      BY <1>6, <2>1, CurrentInPast, MailboxAssumption
    <3> QED
      BY <2>1, <3>1, <3>2 DEF listed, Listed
  <2>3. poller[p].cursor # NoCursor
    BY <2>2 DEF Current, FirstCursor
  <2> QED
    BY <1>5, <2>1, <2>2, <2>3, CurrentPasses
<1> QED
  BY <1>8, <1>9

LEMMA FetchKeepsInv ==
  ASSUME Inv, NEW p \in Pollers, NEW expired \in BOOLEAN, Fetch(p, expired),
         count' = count \/ Count("faults", MaxFaults)
  PROVE  Inv'
<1> USE DEF Inv
<1> DEFINE page == Page(p, expired)
<1>1. /\ poller' = [poller EXCEPT ![p] =
           [pc |-> "listed", batch |-> page.batch, cursor |-> page.cursor]]
      /\ poller[p].pc = "read" /\ box # NoBox
      /\ UNCHANGED <<now, arrived, box, cursor, email, applied>>
  BY DEF Fetch, Mail
<1>2. InPast(page.cursor) /\ page.batch \subseteq Messages
  BY <1>1, PageInPast, PageFields DEF TypeOK
<1>3. \A m \in Messages : Passed(page.cursor, m) => email[m] # "absent" \/ m \in page.batch
  BY <1>1, PagePasses DEF PassedIsRecorded, PollerInv
<1> HIDE DEF page
<1>4. /\ poller'[p] = [pc |-> "listed", batch |-> page.batch, cursor |-> page.cursor]
      /\ \A q \in Pollers \ {p} : poller'[q] = poller[q]
  BY <1>1 DEF TypeOK
<1>5. TypeOK'
  <2>1. count' \in [{"faults", "connects"} -> Nat]
    BY DEF Count, TypeOK
  <2>2. poller' \in [Pollers -> [pc : {"idle", "read", "listed"},
                                 cursor : Cursors \cup {NoCursor}, batch : SUBSET Messages]]
    BY <1>1, <1>2 DEF TypeOK, InPast
  <2> QED
    BY <1>1, <2>1, <2>2 DEF TypeOK
<1>6. AppliedOnce'
  BY <1>1 DEF AppliedOnce
<1>7. PassedIsRecorded'
  <2>1. \A m \in Messages : Passed(cursor', m) => email'[m] # "absent"
    BY <1>1 DEF PassedIsRecorded
  <2>2. \A q \in Pollers, m \in Messages :
          Passed(poller'[q].cursor, m) => email'[m] # "absent" \/ m \in poller'[q].batch
    BY <1>1, <1>3, <1>4 DEF PassedIsRecorded
  <2> QED
    BY <1>1, <2>1, <2>2 DEF PassedIsRecorded, Passed
<1>8. InPast(cursor)' /\ \A q \in Pollers : PollerInv(q)'
  <2>1. InPast(cursor)'
    BY <1>1 DEF InPast
  <2>2. PollerInv(p)'
    BY <1>1, <1>2, <1>4 DEF PollerInv, InPast
  <2>3. \A q \in Pollers \ {p} : PollerInv(q)'
    BY <1>1, <1>4 DEF PollerInv, InPast
  <2> QED
    BY <2>1, <2>2, <2>3
<1> QED
  BY <1>5, <1>6, <1>7, <1>8

LEMMA NextKeepsInv == Inv /\ [Next]_vars => Inv'
<1> SUFFICES ASSUME Inv, [Next]_vars PROVE Inv'
  OBVIOUS
<1>1. ASSUME NEW m \in Messages, Arrive(m) \/ Associate(m) \/ Dismiss(m)
      PROVE  Inv'
  BY <1>1, ArriveKeepsInv, OwnerKeepsInv
<1>2. ASSUME NEW p \in Pollers, Poll(p)
      PROVE  Inv'
  <2>1. CASE List(p)
    BY <2>1, FetchKeepsInv DEF List
  <2>2. CASE ListAgain(p)
    BY <2>2, FetchKeepsInv DEF ListAgain
  <2> QED
    BY <1>2, <2>1, <2>2, BeginKeepsInv, RecordKeepsInv, RestKeepsInv DEF Poll
<1>3. CASE UNCHANGED vars
  BY <1>3 DEF vars, Inv, TypeOK, PassedIsRecorded, Passed, AppliedOnce, InPast, PollerInv
<1> QED
  BY <1>1, <1>2, <1>3, TickKeepsInv, ConnectionKeepsInv DEF Next

LEMMA InvHolds == Spec => []Inv
BY InitInv, NextKeepsInv, PTL DEF Spec

-----------------------------------------------------------------------------
(* Theorems *)

\* Rows and local states keep their shape, for any messages, accounts and polls.
THEOREM MailboxTypeCorrect == Spec => []TypeOK
<1>1. Inv => TypeOK
  BY DEF Inv
<1> QED
  BY <1>1, InvHolds, PTL

\* No cursor, stored or about to be, has passed a message of its mailbox that
\* is neither recorded nor in the page recorded with it, for any number of
\* overlapping polls, expired tokens, failures and reconnects.
THEOREM PassedIsRecordedHolds == Spec => []PassedIsRecorded
<1>1. Inv => PassedIsRecorded
  BY DEF Inv
<1> QED
  BY <1>1, InvHolds, PTL

\* However often polls return a message, it changes its application once.
THEOREM AppliedOnceHolds == Spec => []AppliedOnce
<1>1. Inv => AppliedOnce
  BY DEF Inv
<1> QED
  BY <1>1, InvHolds, PTL
=============================================================================
