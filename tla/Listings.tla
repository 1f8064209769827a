------------------------------ MODULE Listings ------------------------------
(***************************************************************************)
(* One posting and what the program keeps of it                            *)
(* (app/opportunities/discovery.py): polls of the sources that carry it,   *)
(* verification, the owner's review, and the assessment and packet that    *)
(* are made for one version of its content (app/matching/service.py,       *)
(* app/documents/service.py), under the request budget                     *)
(* (app/workers/budget.py, app/workers/requests.py).                       *)
(*                                                                         *)
(* The employer publishes the editions of the posting one after another; a *)
(* fetch reads the edition of its moment, and the transaction that applies *)
(* it may come after newer ones. The board is a primary source, the feed   *)
(* carries leads. content_hash is the number of the content: no content    *)
(* has the hash of an earlier one, since the time a board was read is part *)
(* of what is hashed, and the other digests include the hash before. The   *)
(* application is one that was not submitted: the others are left alone by *)
(* invalidate and are modelled in Dispatch.                                *)
(***************************************************************************)
EXTENDS Naturals, Sequences

CONSTANTS
  Editions,     \* the successive editions: a text, listed or not, open or not
  Advertising,  \* texts that name an address for applications
  Pollers,      \* runs of poll_source that may overlap
  DailyCap,     \* daily_request_cap of the controls
  Worker,       \* the holder of the lease of the job that builds a packet
  Others,       \* builds besides its own, without a lease
  MaxEvents,    \* bound: midnights, crashes, lost leases, and acts of the owner
  NoPost, NoPacket, NoSnapshot, NoDestination, Owner

Sources == {"board", "feed"}
Numbers == DOMAIN Editions
Builders == Others \cup {Worker}

ASSUME ListingsAssumption ==
  /\ Editions \in Seq([text : Nat \ {0}, listed : BOOLEAN, open : BOOLEAN]) /\ Editions # <<>>
  /\ \A e \in Numbers : Editions[e].open => Editions[e].listed
  /\ DailyCap \in Nat /\ MaxEvents \in Nat
  /\ Worker \notin Others
  /\ NoDestination \notin Nat
  /\ Owner \notin Nat \cup {NoDestination}

VARIABLES
  edition,   \* the edition the employer shows
  post,      \* the row of opportunities
  packet,    \* the packet its application points at
  assessed,  \* the content_hash of the newest assessment
  jobs,      \* queued jobs of the posting
  poller,    \* local state of each poll
  checker,   \* local state of verify_opportunity
  builder,   \* local state of each prepare_packet
  built,     \* history: the newest content_hash a packet was written for
  spent,     \* requests reserved today
  count      \* events so far

vars == <<edition, post, packet, assessed, jobs, poller, checker,
          builder, built, spent, count>>

Resting == [pc |-> "idle"]

Init ==
  /\ edition = 1
  /\ post = NoPost
  /\ packet = NoPacket
  /\ assessed = 0
  /\ jobs = {}
  /\ poller = [p \in Pollers |-> Resting]
  /\ checker = Resting
  /\ builder = [b \in Builders |-> Resting]
  /\ built = 0
  /\ spent = 0
  /\ count = 0

Event == count < MaxEvents /\ count' = count + 1

\* An edition whose own deadline has passed may still be listed.
Open(e) == Editions[e].open
Listed(e) == Editions[e].listed
Text(e) == Editions[e].text

(***************************************************************************)
(* The employer, and the budget.                                           *)
(***************************************************************************)
Publish ==
  /\ edition + 1 \in Numbers
  /\ edition' = edition + 1
  /\ UNCHANGED <<post, packet, assessed, jobs, poller, checker, builder, built,
                 spent, count>>

\* budgeted_fetcher and check_budget: one more request is within the cap.
Affordable == spent + 1 <= DailyCap

\* One transaction reserves the request before it is made.
Reserve ==
  /\ Affordable
  /\ spent' = spent + 1

Midnight ==
  /\ Event
  /\ spent' = 0
  /\ UNCHANGED <<edition, post, packet, assessed, jobs, poller, checker,
                 builder, built>>

(***************************************************************************)
(* What a new content does to the row, the packets and the jobs.           *)
(***************************************************************************)
\* infer_email_route
Infer(row) ==
  IF row.primary /\ ~ row.review /\ row.text \in Advertising
    THEN [row EXCEPT !.dest = row.text] ELSE row

\* invalidate: packets become stale and the posting is assessed again.
Stale == IF packet = NoPacket THEN NoPacket ELSE [packet EXCEPT !.valid = FALSE]

\* Fault: the destination the owner gave outlives the review.
RewrittenKeepingDestination(row, text) ==
  [row EXCEPT !.hash = @ + 1, !.text = text, !.review = FALSE, !.added = FALSE]

Rewritten(row, text) ==
  [row EXCEPT !.hash = @ + 1, !.text = text, !.review = FALSE,
              !.dest = NoDestination, !.added = FALSE]

Lead ==
  [hash |-> 1, text |-> 0, availability |-> "unverified", verified |-> 0,
   snapshot |-> NoSnapshot, review |-> FALSE, dest |-> NoDestination,
   primary |-> FALSE, board |-> FALSE, fed |-> FALSE, added |-> FALSE]

\* add_opportunity: verification is left to the owner, and infers the source.
AddOpportunity ==
  /\ post = NoPost
  /\ post' = [Lead EXCEPT !.added = TRUE]
  /\ UNCHANGED <<edition, packet, assessed, jobs, poller, checker,
                 builder, built, spent, count>>

(***************************************************************************)
(* poll_source.                                                            *)
(***************************************************************************)
PollRead(p, s) ==
  /\ poller[p].pc = "idle"
  /\ Reserve
  /\ poller' = [poller EXCEPT ![p] = [pc |-> "read", source |-> s, edition |-> edition]]
  /\ UNCHANGED <<edition, post, packet, assessed, jobs, checker, builder, built, count>>

\* A removed posting is missing from the answer, and missing says nothing.
Nothing(p) ==
  /\ ~ Listed(poller[p].edition)
  /\ UNCHANGED <<post, packet, jobs>>

\* _record closes a posting by the deadline it states.
Availability(e) == IF Open(e) THEN "open" ELSE "closed"

\* The answer was never hashed before, so it always counts as a new content.
IngestPrimary(p) ==
  LET got == poller[p]
      old == IF post = NoPost THEN [Lead EXCEPT !.hash = 0] ELSE post
  IN  /\ Listed(got.edition)
      /\ got.source = "board"
      /\ post' = Infer([Rewritten(old, Text(got.edition)) EXCEPT
                          !.availability = Availability(got.edition), !.verified = got.edition,
                          !.primary = TRUE, !.board = TRUE])
      /\ packet' = Stale
      /\ jobs' = jobs \cup {"assess"}

\* A lead never changes what is known from a primary source.
IngestLead(p) ==
  /\ Listed(poller[p].edition)
  /\ poller[p].source = "feed"
  /\ post' = [(IF post = NoPost THEN Lead ELSE post) EXCEPT !.fed = TRUE]
  /\ jobs' = jobs \cup {"verify"} \cup (IF assessed = post'.hash THEN {} ELSE {"assess"})
  /\ UNCHANGED packet

Ingest(p) ==
  /\ poller[p].pc = "read"
  /\ Nothing(p) \/ IngestPrimary(p) \/ IngestLead(p)
  /\ poller' = [poller EXCEPT ![p] = Resting]
  /\ UNCHANGED <<edition, assessed, checker, builder, built, spent, count>>

\* The request fails, the answer is malformed or not newer than the last one, or
\* the worker dies.
PollFailed(p) ==
  /\ poller[p].pc = "read"
  /\ poller' = [poller EXCEPT ![p] = Resting]
  /\ UNCHANGED <<edition, post, packet, assessed, jobs, checker, builder, built, spent, count>>

(***************************************************************************)
(* verify_opportunity, run by its job, by the owner and before a dispatch. *)
(***************************************************************************)
\* The official record can be found: through the board, or from the address of
\* a posting that no feed carries.
Checkable == post.board \/ ~ post.fed

VerifyRead ==
  /\ post # NoPost
  /\ checker.pc = "idle"
  /\ Checkable
  /\ Reserve
  /\ checker' = [pc |-> "read", edition |-> edition,
                 text |-> IF Listed(edition) THEN Text(edition) ELSE post.text]
  /\ jobs' = jobs \ {"verify"}
  /\ UNCHANGED <<edition, post, packet, assessed, poller, builder, built, count>>

\* The error becomes a task of the owner.
VerifyRefused ==
  /\ post # NoPost
  /\ checker.pc = "idle"
  /\ ~ Checkable \/ ~ Affordable
  /\ "verify" \in jobs
  /\ jobs' = jobs \ {"verify"}
  /\ UNCHANGED <<edition, post, packet, assessed, poller, checker, builder, built,
                 spent, count>>

\* The request fails, or what it returns is not the official record: a task.
VerifyUnclear ==
  /\ checker.pc = "read"
  /\ checker' = Resting
  /\ UNCHANGED <<edition, post, packet, assessed, jobs, poller, builder, built,
                 spent, count>>

\* The snapshot of a removed posting is the refusal itself.
Snapshot(e) == IF Listed(e) THEN Text(e) ELSE 0

\* Fault: the evidence is stored without the time it was read.
VerifiedUndated(row, e) ==
  [row EXCEPT !.availability = Availability(e), !.primary = TRUE]

Verified(row, e) ==
  [row EXCEPT !.availability = Availability(e), !.verified = e, !.primary = TRUE]

\* The hash changes with the snapshot of the last verification.  With the same
\* snapshot the text it stands for is restored without another hash.
VerifyApply ==
  LET shot    == Snapshot(checker.edition)
      changed == post.snapshot # shot
      row     == IF changed THEN Rewritten(post, checker.text)
                            ELSE [post EXCEPT !.text = checker.text]
  IN  /\ checker.pc = "read"
      /\ post' = Infer([Verified(row, checker.edition) EXCEPT !.snapshot = shot])
      /\ packet' = IF changed THEN Stale ELSE packet
      /\ jobs' = jobs \cup {"assess"}
      /\ checker' = Resting
      /\ UNCHANGED <<edition, assessed, poller, builder, built, spent, count>>

VerifyCrash ==
  /\ checker.pc = "read"
  /\ Event
  /\ checker' = Resting
  /\ jobs' = jobs \cup {"verify"}
  /\ UNCHANGED <<edition, post, packet, assessed, poller, builder, built, spent>>

(***************************************************************************)
(* The owner and the health check.                                         *)
(***************************************************************************)
\* Fault: a review leaves packets and jobs alone.
ReviewQuietly ==
  /\ post # NoPost
  /\ Event
  /\ post' = [post EXCEPT !.hash = @ + 1, !.review = TRUE, !.added = FALSE]
  /\ UNCHANGED <<edition, packet, assessed, jobs, poller, checker, builder, built, spent>>

Review ==
  /\ post # NoPost
  /\ Event
  /\ \E dest \in {Owner, post.dest} :
       post' = [post EXCEPT !.hash = @ + 1, !.review = TRUE, !.dest = dest, !.added = FALSE]
  /\ packet' = Stale
  /\ jobs' = jobs \cup {"assess"}
  /\ UNCHANGED <<edition, assessed, poller, checker, builder, built, spent>>

\* The deadline the posting states has passed, which closed it.
Expire ==
  /\ post # NoPost
  /\ post.availability = "open"
  /\ ~ Open(edition)
  /\ post' = [post EXCEPT !.availability = "expired"]
  /\ UNCHANGED <<edition, packet, assessed, jobs, poller, checker, builder, built,
                 spent, count>>

(***************************************************************************)
(* Assessment and packet.  The posting is taken to fit.                    *)
(***************************************************************************)
\* Fault: no packet is asked for.
AssessOnly ==
  /\ "assess" \in jobs
  /\ assessed' = post.hash
  /\ jobs' = jobs \ {"assess"}
  /\ UNCHANGED <<edition, post, packet, poller, checker, builder, built, spent, count>>

Assess ==
  /\ "assess" \in jobs
  /\ assessed' = post.hash
  /\ jobs' = (jobs \ {"assess"}) \cup {"prepare"}
  /\ UNCHANGED <<edition, post, packet, poller, checker, builder, built, spent, count>>

\* Asked for by the owner.
RequestAssessment ==
  /\ post # NoPost
  /\ Event
  /\ assessed' = post.hash
  /\ jobs' = jobs \cup {"prepare"}
  /\ UNCHANGED <<edition, post, packet, poller, checker, builder, built, spent>>

Building(b) == builder[b].pc = "building"

\* prepare_packet assesses first when the newest content was not assessed.
Begin(b, others) ==
  /\ post # NoPost
  /\ ~ Building(b)
  /\ builder' = [builder EXCEPT ![b] = [pc |-> "building", hash |-> post.hash]]
  /\ assessed' = post.hash
  /\ jobs' = IF assessed = post.hash THEN others ELSE others \cup {"prepare"}
  /\ UNCHANGED <<edition, post, packet, poller, checker, built, spent>>

\* The job is run by one worker at a time.
PrepareRead ==
  /\ "prepare" \in jobs
  /\ Begin(Worker, jobs \ {"prepare"})
  /\ UNCHANGED count

\* The owner asks for a packet, whatever the job does.
RequestPacket(b) ==
  /\ Event
  /\ Begin(b, jobs)

\* The job took longer than its lease: it is queued again, and goes on.
LoseLease(b) ==
  /\ Event
  /\ Building(Worker) /\ ~ Building(b)
  /\ builder' = [builder EXCEPT ![b] = builder[Worker], ![Worker] = Resting]
  /\ jobs' = jobs \cup {"prepare"}
  /\ UNCHANGED <<edition, post, packet, assessed, poller, checker, built, spent>>

\* Fault: the content is not compared with the one the packet was built from.
WrittenUnchecked(hash) == packet' = [hash |-> hash, valid |-> TRUE]

Written(hash) == packet' = [hash |-> hash, valid |-> hash = post.hash]

\* The last to write has the application point at its packet.
PrepareWrite(b) ==
  LET hash == builder[b].hash
  IN  /\ Building(b)
      /\ Written(hash)
      /\ built' = IF hash > built THEN hash ELSE built
      /\ builder' = [builder EXCEPT ![b] = Resting]
      /\ UNCHANGED <<edition, post, assessed, jobs, poller, checker, spent, count>>

\* The worker dies; JobQueue returns its job to the queue.
PrepareCrash ==
  /\ Building(Worker)
  /\ Event
  /\ builder' = [builder EXCEPT ![Worker] = Resting]
  /\ jobs' = jobs \cup {"prepare"}
  /\ UNCHANGED <<edition, post, packet, assessed, poller, checker, built, spent>>

Prepare == PrepareRead \/ \E b \in Builders : PrepareWrite(b)

Next ==
  \/ \E p \in Pollers : \/ \E s \in Sources : PollRead(p, s)
                        \/ Ingest(p) \/ PollFailed(p)
  \/ VerifyRead \/ VerifyRefused \/ VerifyUnclear \/ VerifyApply \/ VerifyCrash
  \/ Assess \/ RequestAssessment \/ Prepare \/ PrepareCrash
  \/ \E b \in Others : RequestPacket(b) \/ LoseLease(b)
  \/ AddOpportunity \/ Review \/ Expire
  \/ Publish \/ Midnight

Spec == Init /\ [][Next]_vars

\* The tick claims due jobs and a handler ends.
Fairness == WF_vars(Assess) /\ WF_vars(Prepare)

LiveSpec == Spec /\ Fairness

(***************************************************************************)
(* Properties.                                                             *)
(***************************************************************************)
Rows ==
  [hash : Nat, text : Nat, verified : {0} \cup Numbers,
   availability : {"unverified", "open", "closed", "expired"},
   snapshot : Nat \cup {NoSnapshot}, dest : Nat \cup {NoDestination, Owner},
   review : BOOLEAN, primary : BOOLEAN, board : BOOLEAN, fed : BOOLEAN, added : BOOLEAN]

Packets == [hash : Nat, valid : BOOLEAN]

ASSUME NoneAssumption == NoPost \notin Rows /\ NoPacket \notin Packets

\* The rows and local states keep their shape.
TypeOK ==
  /\ edition \in Numbers
  /\ post \in Rows \cup {NoPost}
  /\ packet \in Packets \cup {NoPacket}
  /\ assessed \in Nat
  /\ jobs \subseteq {"assess", "prepare", "verify"}
  /\ poller \in [Pollers -> {Resting} \cup [pc : {"read"}, source : Sources, edition : Numbers]]
  /\ checker \in {Resting} \cup [pc : {"read"}, edition : Numbers, text : Nat]
  /\ builder \in [Builders -> {Resting} \cup [pc : {"building"}, hash : Nat]]
  /\ built \in Nat /\ spent \in Nat
  /\ count \in Nat

\* A packet that may be sent was built for the content_hash the posting has now,
\* whatever was ingested, verified or reviewed while it was built, and whichever
\* of several builds ends last.
PacketIsCurrent ==
  packet # NoPacket /\ packet.valid => packet.hash = post.hash

\* The availability shown, and the time it is said to be verified at, come from
\* one reading of the official record: last_verified_at is what the final gate
\* trusts for thirty minutes.
ShownAsVerified ==
  post # NoPost =>
    /\ post.availability = "unverified" <=> post.verified = 0
    /\ post.availability = "open" => Open(post.verified)
    /\ post.availability = "closed" => ~ Open(post.verified)

\* Every content a poll, a verification or a review gave the posting is
\* assessed, or an assessment of it is queued.
ContentIsAssessed ==
  post # NoPost /\ ~ post.added => assessed = post.hash \/ "assess" \in jobs

\* The destination the owner gave is used only while a review stands: a content
\* that drops the review drops it too.  A second review without a destination
\* keeps that of the first.
OwnerDestinationIsReviewed ==
  post # NoPost /\ post.dest = Owner => post.review

\* Polls and verifications together keep to the requests of a day.
RequestsWithinCap == spent <= DailyCap

\* Once the content no longer changes, a packet for it is built, whatever builds of
\* earlier contents overlapped.  (One of them that ends later still takes its
\* place: what is promised is that the content had its packet.)
PacketIsRebuilt == []<>(post = NoPost \/ post.added \/ built = post.hash)
=============================================================================
