--------------------------- MODULE ListingsProofs ---------------------------
(***************************************************************************)
(* Proofs about a posting: packets of another content are never usable,    *)
(* every content is assessed, and what is shown as verified was read, for  *)
(* any editions, any number of polls and builds, and any bounds.           *)
(***************************************************************************)
EXTENDS Listings, SequenceTheorems, TLAPS

\* Before the posting is known nothing is queued or built for it.
KnownInv ==
  post = NoPost =>
    /\ packet = NoPacket /\ jobs = {} /\ checker = Resting
    /\ \A b \in Builders : builder[b] = Resting

Safe == PacketIsCurrent /\ ShownAsVerified /\ ContentIsAssessed /\ OwnerDestinationIsReviewed

Inv == TypeOK /\ KnownInv /\ Safe /\ RequestsWithinCap

USE DEF Resting

LEMMA EditionsExist == 1 \in Numbers /\ Numbers \subseteq Nat \ {0}
BY ListingsAssumption DEF Numbers

LEMMA EditionText ==
  ASSUME NEW e \in Numbers
  PROVE  Text(e) \in Nat \ {0}
<1>1. e \in 1..Len(Editions)
  BY ListingsAssumption DEF Numbers
<1>2. Editions[e] \in [text : Nat \ {0}, listed : BOOLEAN, open : BOOLEAN]
  BY <1>1, ListingsAssumption, ElementOfSeq
<1> QED
  BY <1>2 DEF Text

\* infer_email_route changes nothing but the destination, and only to a text.
LEMMA InferFields ==
  ASSUME NEW row \in Rows
  PROVE  /\ Infer(row) \in Rows
         /\ Infer(row).hash = row.hash /\ Infer(row).added = row.added
         /\ Infer(row).review = row.review
         /\ Infer(row).availability = row.availability /\ Infer(row).verified = row.verified
         /\ Infer(row).dest = row.dest \/ Infer(row).dest \in Nat
BY DEF Infer, Rows

LEMMA LeadFields == Lead \in Rows
BY DEF Lead, Rows

\* A new content drops the review and the destination with it.
LEMMA RewrittenFields ==
  ASSUME NEW row \in Rows, NEW text \in Nat
  PROVE  /\ Rewritten(row, text) \in Rows
         /\ Rewritten(row, text).dest = NoDestination
<1>1. Rewritten(row, text) = [row EXCEPT !.hash = row.hash + 1, !.text = text, !.review = FALSE,
                                         !.dest = NoDestination, !.added = FALSE]
  BY DEF Rewritten
<1>2. row.hash + 1 \in Nat
  BY DEF Rows
<1> QED
  BY <1>1, <1>2 DEF Rows

LEMMA AvailabilityIs ==
  ASSUME NEW e \in Numbers
  PROVE  /\ Availability(e) \in {"open", "closed"}
         /\ Availability(e) = "open" => Open(e)
         /\ Availability(e) = "closed" => ~ Open(e)
BY DEF Availability

LEMMA InitInv == Init => Inv
<1> SUFFICES ASSUME Init PROVE Inv
  OBVIOUS
<1>1. TypeOK
  BY EditionsExist DEF Init, TypeOK
<1>2. KnownInv /\ Safe /\ RequestsWithinCap
  BY ListingsAssumption DEF Init, KnownInv, Safe, PacketIsCurrent, ShownAsVerified,
     ContentIsAssessed, OwnerDestinationIsReviewed, RequestsWithinCap
<1> QED
  BY <1>1, <1>2 DEF Inv

\* A change of the content makes the packets stale and queues an assessment.
LEMMA NewContentIsSafe ==
  ASSUME TypeOK, packet' = Stale, "assess" \in jobs', post' \in Rows,
         post'.availability = "unverified" <=> post'.verified = 0,
         post'.availability = "open" => Open(post'.verified),
         post'.availability = "closed" => ~ Open(post'.verified),
         post'.dest = Owner => post'.review
  PROVE  Safe'
BY DEF TypeOK, Packets, Stale, Safe, PacketIsCurrent, ShownAsVerified, ContentIsAssessed,
       OwnerDestinationIsReviewed

\* What leaves the content, the packet and the assessment alone.
LEMMA SameContentIsSafe ==
  ASSUME Inv, post' = post, packet' = packet, assessed' = assessed,
         "assess" \in jobs => "assess" \in jobs'
  PROVE  Safe'
BY DEF Inv, Safe, PacketIsCurrent, ShownAsVerified, ContentIsAssessed,
       OwnerDestinationIsReviewed

LEMMA FetchKeepsInv ==
  ASSUME Inv,
         \/ \E p \in Pollers : PollFailed(p) \/ \E s \in Sources : PollRead(p, s)
         \/ Publish \/ Midnight
         \/ VerifyRead \/ VerifyRefused \/ VerifyUnclear \/ VerifyCrash
  PROVE  Inv'
<1> USE DEF PollFailed, PollRead, Publish, Midnight, VerifyRead, VerifyRefused,
            VerifyUnclear, VerifyCrash, Reserve, Affordable, Event
<1>1. /\ UNCHANGED <<post, packet, assessed, builder, built>>
      /\ jobs' \in {jobs, jobs \ {"verify"}, jobs \cup {"verify"}}
  OBVIOUS
<1>2. TypeOK'
  <2>1. edition' \in Numbers
    BY DEF Inv, TypeOK
  <2>2. poller' \in [Pollers -> {Resting} \cup [pc : {"read"}, source : Sources, edition : Numbers]]
    BY DEF Inv, TypeOK
  <2>3. checker' \in {Resting} \cup [pc : {"read"}, edition : Numbers, text : Nat]
    BY EditionText DEF Inv, TypeOK, Rows
  <2>4. spent' \in Nat /\ count' \in Nat
    BY DEF Inv, TypeOK
  <2> QED
    BY <1>1, <2>1, <2>2, <2>3, <2>4 DEF Inv, TypeOK
<1>3. KnownInv'
  BY DEF Inv, KnownInv
<1>4. Safe'
  BY <1>1, SameContentIsSafe
<1>5. RequestsWithinCap'
  BY ListingsAssumption DEF Inv, TypeOK, RequestsWithinCap
<1> QED
  BY <1>2, <1>3, <1>4, <1>5 DEF Inv

LEMMA IngestKeepsInv ==
  ASSUME Inv, NEW p \in Pollers, Ingest(p)
  PROVE  Inv'
<1> USE DEF Ingest
<1>1. poller[p].edition \in Numbers /\ poller[p].source \in Sources
  BY DEF Inv, TypeOK
<1>2. poller' \in [Pollers -> {Resting} \cup [pc : {"read"}, source : Sources, edition : Numbers]]
  BY DEF Inv, TypeOK
<1>3. CASE Nothing(p)
  <2>1. TypeOK' /\ KnownInv' /\ RequestsWithinCap'
    BY <1>2, <1>3 DEF Nothing, Inv, TypeOK, KnownInv, RequestsWithinCap
  <2> QED
    BY <1>3, <2>1, SameContentIsSafe DEF Nothing, Inv
<1>4. CASE IngestPrimary(p)
  <2> DEFINE old == IF post = NoPost THEN [Lead EXCEPT !.hash = 0] ELSE post
             row == [Rewritten(old, Text(poller[p].edition)) EXCEPT
                       !.availability = Availability(poller[p].edition),
                       !.verified = poller[p].edition,
                       !.primary = TRUE, !.board = TRUE]
  <2>1. old \in Rows
    BY LeadFields DEF Inv, TypeOK, Rows
  <2>2. /\ row \in Rows /\ row.dest = NoDestination
        /\ row.availability = Availability(poller[p].edition) /\ row.verified = poller[p].edition
    <3>1. Text(poller[p].edition) \in Nat
      BY <1>1, EditionText
    <3>2. /\ Rewritten(old, Text(poller[p].edition)) \in Rows
          /\ Rewritten(old, Text(poller[p].edition)).dest = NoDestination
      BY <2>1, <3>1, RewrittenFields
    <3> QED
      BY <1>1, <3>2, AvailabilityIs DEF Rows
  <2>3. post' = Infer(row) /\ packet' = Stale /\ jobs' = jobs \cup {"assess"}
    BY <1>4 DEF IngestPrimary
  <2> HIDE DEF row
  <2>4. /\ post' \in Rows /\ post'.availability = Availability(poller[p].edition)
        /\ post'.verified = poller[p].edition /\ post'.dest # Owner
    BY <2>2, <2>3, InferFields, ListingsAssumption
  <2>5. Safe'
    BY <1>1, <2>3, <2>4, EditionsExist, NewContentIsSafe, AvailabilityIs DEF Inv
  <2>6. TypeOK'
    BY <1>2, <2>3, <2>4 DEF Inv, TypeOK, Stale, Packets
  <2>7. KnownInv' /\ RequestsWithinCap'
    BY <2>4, NoneAssumption DEF Inv, KnownInv, RequestsWithinCap
  <2> QED
    BY <2>5, <2>6, <2>7 DEF Inv
<1>5. CASE IngestLead(p)
  <2>1. post' = [(IF post = NoPost THEN Lead ELSE post) EXCEPT !.fed = TRUE]
    BY <1>5 DEF IngestLead
  <2>2. post' \in Rows
    BY <2>1, LeadFields DEF Inv, TypeOK, Rows
  <2>3. packet' = packet /\ assessed' = assessed
        /\ jobs' = jobs \cup {"verify"} \cup (IF assessed = post'.hash THEN {} ELSE {"assess"})
    BY <1>5 DEF IngestLead
  <2>4. TypeOK' /\ KnownInv' /\ RequestsWithinCap'
    BY <1>2, <2>2, <2>3, NoneAssumption DEF Inv, TypeOK, KnownInv, RequestsWithinCap
  <2>5. Safe'
    <3>1. CASE post = NoPost
      BY <2>1, <2>2, <2>3, <3>1, ListingsAssumption DEF Inv, KnownInv, Lead, Safe, PacketIsCurrent,
         ShownAsVerified, ContentIsAssessed, OwnerDestinationIsReviewed
    <3>2. CASE post # NoPost
      <4>1. post \in Rows
        BY <3>2 DEF Inv, TypeOK
      <4>2. /\ post'.hash = post.hash /\ post'.verified = post.verified /\ post'.dest = post.dest
            /\ post'.availability = post.availability /\ post'.review = post.review
        BY <2>1, <3>2, <4>1 DEF Rows
      <4> QED
        BY <2>3, <3>2, <4>2 DEF Inv, Safe, PacketIsCurrent, ShownAsVerified, ContentIsAssessed,
           OwnerDestinationIsReviewed
    <3> QED
      BY <3>1, <3>2
  <2> QED
    BY <2>4, <2>5 DEF Inv
<1> QED
  BY <1>3, <1>4, <1>5

LEMMA VerifyApplyKeepsInv ==
  ASSUME Inv, VerifyApply
  PROVE  Inv'
<1> DEFINE shot == Snapshot(checker.edition)
           changed == post.snapshot # shot
           base == IF changed THEN Rewritten(post, checker.text)
                              ELSE [post EXCEPT !.text = checker.text]
           row == [Verified(base, checker.edition) EXCEPT !.snapshot = shot]
<1>1. /\ checker.pc = "read" /\ post' = Infer(row)
      /\ packet' = (IF changed THEN Stale ELSE packet) /\ jobs' = jobs \cup {"assess"}
      /\ checker' = Resting /\ UNCHANGED <<edition, assessed, poller, builder, built, spent, count>>
  BY DEF VerifyApply
<1>2. checker.edition \in Numbers /\ checker.text \in Nat
  BY <1>1 DEF Inv, TypeOK
<1>3. post \in Rows
  BY <1>1 DEF Inv, TypeOK, KnownInv
<1>4. base \in Rows
  BY <1>2, <1>3, RewrittenFields DEF Rows
<1>5. \/ base.dest = post.dest /\ base.review = post.review /\ base.hash = post.hash
      \/ changed /\ base.dest = NoDestination
  <2>1. CASE changed
    BY <1>2, <1>3, <2>1, RewrittenFields
  <2>2. CASE ~ changed
    <3>1. base = [post EXCEPT !.text = checker.text]
      BY <2>2
    <3>2. [post EXCEPT !.text = checker.text].dest = post.dest
          /\ [post EXCEPT !.text = checker.text].review = post.review
          /\ [post EXCEPT !.text = checker.text].hash = post.hash
      BY <1>3 DEF Rows
    <3> HIDE DEF base
    <3> QED
      BY <3>1, <3>2
  <2> QED
    BY <2>1, <2>2
<1> HIDE DEF base
<1>6. shot \in Nat
  BY <1>2, EditionText DEF Snapshot
<1> HIDE DEF shot
<1>7. /\ row \in Rows /\ row.verified = checker.edition
      /\ row.availability = Availability(checker.edition)
      /\ row.hash = base.hash /\ row.dest = base.dest /\ row.review = base.review
  BY <1>2, <1>4, <1>6, AvailabilityIs DEF Verified, Rows
<1> HIDE DEF row
<1>8. /\ post' \in Rows /\ post'.verified = checker.edition
      /\ post'.availability = Availability(checker.edition)
      /\ post'.hash = base.hash /\ post'.review = base.review
      /\ post'.dest = base.dest \/ post'.dest \in Nat
  BY <1>1, <1>7, InferFields
<1>9. post'.dest = Owner => post'.review
  BY <1>3, <1>5, <1>8, ListingsAssumption, NoneAssumption
     DEF Inv, Safe, OwnerDestinationIsReviewed
<1>10. Safe'
  <2>1. CASE changed
    BY <1>1, <1>2, <1>8, <1>9, <2>1, EditionsExist, NewContentIsSafe, AvailabilityIs DEF Inv
  <2>2. CASE ~ changed
    <3>1. post'.hash = post.hash
      BY <1>5, <1>8, <2>2
    <3> QED
      BY <1>1, <1>2, <1>3, <1>8, <1>9, <2>2, <3>1, EditionsExist, AvailabilityIs DEF Inv, Safe, PacketIsCurrent,
         ShownAsVerified, ContentIsAssessed, OwnerDestinationIsReviewed
  <2> QED
    BY <2>1, <2>2
<1>11. TypeOK' /\ KnownInv' /\ RequestsWithinCap'
  BY <1>1, <1>8, NoneAssumption DEF Inv, TypeOK, KnownInv, RequestsWithinCap, Stale, Packets
<1> QED
  BY <1>10, <1>11 DEF Inv

LEMMA OwnerKeepsInv ==
  ASSUME Inv, AddOpportunity \/ Review \/ Expire
  PROVE  Inv'
<1>1. CASE AddOpportunity
  <2>1. post' = [Lead EXCEPT !.added = TRUE] /\ post = NoPost
        /\ UNCHANGED <<edition, packet, assessed, jobs, poller, checker, builder, built, spent, count>>
    BY <1>1 DEF AddOpportunity
  <2>2. post' \in Rows /\ post'.added /\ post'.availability = "unverified" /\ post'.verified = 0
        /\ post'.dest = NoDestination
    BY <2>1, LeadFields DEF Lead, Rows
  <2>3. packet' = NoPacket
    BY <2>1 DEF Inv, KnownInv
  <2> QED
    BY <2>1, <2>2, <2>3, NoneAssumption, ListingsAssumption
       DEF Inv, TypeOK, KnownInv, RequestsWithinCap, Safe, PacketIsCurrent, ShownAsVerified,
           ContentIsAssessed, OwnerDestinationIsReviewed
<1>2. CASE Review
  <2>1. post \in Rows
    BY <1>2 DEF Review, Inv, TypeOK
  <2>2. PICK dest \in {Owner, post.dest} :
          post' = [post EXCEPT !.hash = @ + 1, !.review = TRUE, !.dest = dest, !.added = FALSE]
    BY <1>2 DEF Review
  <2>3. post' \in Rows /\ post'.review /\ post'.availability = post.availability
        /\ post'.verified = post.verified
    <3>1. post.hash + 1 \in Nat /\ dest \in Nat \cup {NoDestination, Owner}
      BY <2>1 DEF Rows
    <3>2. post' = [post EXCEPT !.hash = post.hash + 1, !.review = TRUE, !.dest = dest, !.added = FALSE]
      BY <2>2
    <3> QED
      BY <2>1, <3>1, <3>2 DEF Rows
  <2>4. packet' = Stale /\ jobs' = jobs \cup {"assess"} /\ count' \in Nat
        /\ UNCHANGED <<edition, assessed, poller, checker, builder, built, spent>>
    BY <1>2 DEF Review, Event, Inv, TypeOK
  <2>5. Safe'
    BY <1>2, <2>3, <2>4, NewContentIsSafe DEF Review, Inv, Safe, ShownAsVerified
  <2>6. TypeOK' /\ KnownInv' /\ RequestsWithinCap'
    BY <2>3, <2>4, NoneAssumption DEF Inv, TypeOK, KnownInv, RequestsWithinCap, Stale, Packets
  <2> QED
    BY <2>5, <2>6 DEF Inv
<1>3. CASE Expire
  <2>1. post \in Rows /\ post.availability = "open"
        /\ post' = [post EXCEPT !.availability = "expired"]
        /\ UNCHANGED <<edition, packet, assessed, jobs, poller, checker, builder, built, spent, count>>
    BY <1>3 DEF Expire, Inv, TypeOK
  <2>2. /\ post' \in Rows /\ post'.availability = "expired" /\ post'.verified = post.verified
        /\ post'.hash = post.hash /\ post'.review = post.review /\ post'.dest = post.dest
        /\ post'.added = post.added
    BY <2>1 DEF Rows
  <2>3. TypeOK' /\ KnownInv' /\ RequestsWithinCap'
    BY <2>1, <2>2, NoneAssumption DEF Inv, TypeOK, KnownInv, RequestsWithinCap
  <2>4. Safe'
    BY <2>1, <2>2, NoneAssumption DEF Inv, Safe, PacketIsCurrent, ShownAsVerified, ContentIsAssessed,
       OwnerDestinationIsReviewed
  <2> QED
    BY <2>3, <2>4 DEF Inv
<1> QED
  BY <1>1, <1>2, <1>3

(***************************************************************************)
(* Assessment and packet.                                                  *)
(***************************************************************************)
\* What leaves the posting alone, and no content without its assessment.
LEMMA OtherKeepsInv ==
  ASSUME Inv, post # NoPost, UNCHANGED <<edition, post, poller, checker, spent>>,
         packet' \in Packets \cup {NoPacket}, PacketIsCurrent',
         assessed' = post.hash \/ (assessed' = assessed /\ ("assess" \in jobs => "assess" \in jobs')),
         jobs' \subseteq {"assess", "prepare", "verify"},
         builder' \in [Builders -> {Resting} \cup [pc : {"building"}, hash : Nat]],
         built' \in Nat, count' \in Nat
  PROVE  Inv'
<1>1. post \in Rows /\ post.hash \in Nat
  BY DEF Inv, TypeOK, Rows
<1>2. TypeOK'
  BY <1>1 DEF Inv, TypeOK
<1>3. KnownInv' /\ RequestsWithinCap'
  BY DEF Inv, KnownInv, RequestsWithinCap
<1>4. ShownAsVerified' /\ ContentIsAssessed' /\ OwnerDestinationIsReviewed'
  BY DEF Inv, Safe, ShownAsVerified, ContentIsAssessed, OwnerDestinationIsReviewed
<1> QED
  BY <1>2, <1>3, <1>4 DEF Inv, Safe

LEMMA SamePacketIsCurrent ==
  ASSUME Inv, UNCHANGED <<post, packet>>
  PROVE  packet' \in Packets \cup {NoPacket} /\ PacketIsCurrent'
BY DEF Inv, TypeOK, Safe, PacketIsCurrent

LEMMA AssessKeepsInv ==
  ASSUME Inv, Assess \/ RequestAssessment
  PROVE  Inv'
<1>1. /\ post # NoPost /\ UNCHANGED <<edition, post, packet, poller, checker, builder, built, spent>>
      /\ assessed' = post.hash
  BY DEF Assess, RequestAssessment, Inv, KnownInv
<1>2. jobs' \subseteq {"assess", "prepare", "verify"}
  BY DEF Assess, RequestAssessment, Inv, TypeOK
<1>3. count' \in Nat
  BY DEF Assess, RequestAssessment, Event, Inv, TypeOK
<1>4. /\ built' \in Nat
      /\ builder' \in [Builders -> {Resting} \cup [pc : {"building"}, hash : Nat]]
  BY <1>1 DEF Inv, TypeOK
<1> QED
  BY <1>1, <1>2, <1>3, <1>4, OtherKeepsInv, SamePacketIsCurrent

LEMMA BeginKeepsInv ==
  ASSUME Inv, NEW b \in Builders, NEW others \in SUBSET {"assess", "prepare", "verify"},
         Begin(b, others), count' \in Nat
  PROVE  Inv'
<1>1. /\ post # NoPost /\ UNCHANGED <<edition, post, packet, poller, checker, built, spent>>
      /\ assessed' = post.hash
      /\ jobs' \subseteq {"assess", "prepare", "verify"}
      /\ builder' = [builder EXCEPT ![b] = [pc |-> "building", hash |-> post.hash]]
  BY DEF Begin
<1>2. post.hash \in Nat /\ built' \in Nat
  BY <1>1 DEF Inv, TypeOK, Rows
<1>3. builder' \in [Builders -> {Resting} \cup [pc : {"building"}, hash : Nat]]
  BY <1>1, <1>2 DEF Inv, TypeOK
<1> QED
  BY <1>1, <1>2, <1>3, OtherKeepsInv, SamePacketIsCurrent

LEMMA PrepareReadKeepsInv ==
  ASSUME Inv, PrepareRead
  PROVE  Inv'
<1>1. /\ Worker \in Builders /\ count' \in Nat /\ Begin(Worker, jobs \ {"prepare"})
      /\ jobs \ {"prepare"} \in SUBSET {"assess", "prepare", "verify"}
  BY DEF Inv, TypeOK, PrepareRead, Builders
<1> QED
  BY <1>1, BeginKeepsInv

LEMMA RequestPacketKeepsInv ==
  ASSUME Inv, NEW b \in Others, RequestPacket(b)
  PROVE  Inv'
<1>1. /\ b \in Builders /\ count' \in Nat /\ Begin(b, jobs)
      /\ jobs \in SUBSET {"assess", "prepare", "verify"}
  BY DEF Inv, TypeOK, RequestPacket, Event, Builders
<1> QED
  BY <1>1, BeginKeepsInv

\* The worker is lost, or only its lease.
LEMMA LostKeepsInv ==
  ASSUME Inv, PrepareCrash \/ \E b \in Others : LoseLease(b)
  PROVE  Inv'
<1>1. /\ Building(Worker)
      /\ UNCHANGED <<edition, post, packet, assessed, poller, checker, built, spent>>
      /\ jobs' = jobs \cup {"prepare"} /\ count' \in Nat
  BY DEF PrepareCrash, LoseLease, Event, Inv, TypeOK
<1>2. post # NoPost
  BY <1>1 DEF Inv, KnownInv, Building, Builders
<1>3. builder' \in [Builders -> {Resting} \cup [pc : {"building"}, hash : Nat]]
  BY DEF PrepareCrash, LoseLease, Inv, TypeOK, Builders
<1>4. jobs' \subseteq {"assess", "prepare", "verify"} /\ built' \in Nat
  BY <1>1 DEF Inv, TypeOK
<1> QED
  BY <1>1, <1>2, <1>3, <1>4, OtherKeepsInv, SamePacketIsCurrent

\* A packet counts as validated only when it is written for the present content.
LEMMA PrepareWriteKeepsInv ==
  ASSUME Inv, NEW b \in Builders, PrepareWrite(b)
  PROVE  Inv'
<1> DEFINE hash == builder[b].hash
<1>1. /\ UNCHANGED <<edition, post, assessed, jobs, poller, checker, spent, count>>
      /\ packet' = [hash |-> hash, valid |-> hash = post.hash]
      /\ built' = (IF hash > built THEN hash ELSE built)
      /\ builder' = [builder EXCEPT ![b] = Resting]
      /\ Building(b)
  BY DEF PrepareWrite, Written
<1>2. post # NoPost
  BY <1>1 DEF Inv, KnownInv, Building
<1>3. hash \in Nat
  BY <1>1 DEF Inv, TypeOK, Building
<1>4. packet'.hash = hash /\ packet'.valid = (hash = post.hash)
  BY <1>1
<1>5. packet' \in Packets /\ PacketIsCurrent'
  <2>1. (hash = post.hash) \in BOOLEAN
    OBVIOUS
  <2> QED
    BY <1>1, <1>3, <1>4, <2>1 DEF Packets, PacketIsCurrent
<1>6. /\ built' \in Nat /\ count' \in Nat /\ jobs' \subseteq {"assess", "prepare", "verify"}
      /\ builder' \in [Builders -> {Resting} \cup [pc : {"building"}, hash : Nat]]
  BY <1>1, <1>3 DEF Inv, TypeOK
<1> QED
  BY <1>1, <1>2, <1>5, <1>6, OtherKeepsInv

LEMMA StutterKeepsInv ==
  ASSUME Inv, UNCHANGED vars
  PROVE  Inv'
BY DEF Inv, vars, TypeOK, KnownInv, Safe, RequestsWithinCap, PacketIsCurrent, ShownAsVerified,
       ContentIsAssessed, OwnerDestinationIsReviewed

LEMMA InvHolds == Spec => []Inv
<1>1. Inv /\ [Next]_vars => Inv'
  BY FetchKeepsInv, IngestKeepsInv, VerifyApplyKeepsInv, OwnerKeepsInv, AssessKeepsInv,
     PrepareReadKeepsInv, RequestPacketKeepsInv, LostKeepsInv, PrepareWriteKeepsInv,
     StutterKeepsInv DEF Next, Prepare
<1> QED
  BY InitInv, <1>1, PTL DEF Spec

\* The rows and local states keep their shape.
THEOREM ListingsTypeCorrect == Spec => []TypeOK
<1>1. Inv => TypeOK
  BY DEF Inv
<1> QED
  BY InvHolds, <1>1, PTL

\* However polls, verifications, reviews and the building of packets interleave,
\* a packet that may be sent was built for the content the posting has, and none
\* that an older build writes last counts as such.
THEOREM PacketIsCurrentHolds == Spec => []PacketIsCurrent
<1>1. Inv => PacketIsCurrent
  BY DEF Inv, Safe
<1> QED
  BY InvHolds, <1>1, PTL

\* Availability and the time of verification come from one reading.
THEOREM ShownAsVerifiedHolds == Spec => []ShownAsVerified
<1>1. Inv => ShownAsVerified
  BY DEF Inv, Safe
<1> QED
  BY InvHolds, <1>1, PTL

\* No content is left without an assessment, made or queued.
THEOREM ContentIsAssessedHolds == Spec => []ContentIsAssessed
<1>1. Inv => ContentIsAssessed
  BY DEF Inv, Safe
<1> QED
  BY InvHolds, <1>1, PTL

\* The destination of a review is not used without a review.
THEOREM OwnerDestinationIsReviewedHolds == Spec => []OwnerDestinationIsReviewed
<1>1. Inv => OwnerDestinationIsReviewed
  BY DEF Inv, Safe
<1> QED
  BY InvHolds, <1>1, PTL

\* Concurrent polls and verifications keep to the daily requests, for any cap.
THEOREM RequestsWithinCapHolds == Spec => []RequestsWithinCap
<1>1. Inv => RequestsWithinCap
  BY DEF Inv
<1> QED
  BY InvHolds, <1>1, PTL
=============================================================================
