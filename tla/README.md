# Formal models of Opportunity Autopilot

Opportunity Autopilot discovers positions, matches them to a profile, prepares
application packets and, when its owner has authorised it, submits applications
by Gmail or through a reviewed browser form.  It runs as one database (SQLite or
PostgreSQL), an API process and any number of worker processes that act on the
same rows.  What can go wrong and is hard to test is almost all in what happens
between two transactions: an application that is sent twice, a lost answer taken
for a refusal, a packet made from a posting or a profile that has changed, a reply
that no poll ever returns, a job that never ends.

This directory holds TLA+ models of that behaviour, the configurations that check
them with TLC on small instances, and theorems proved with TLAPS for every size.

Run one check with `tlc -config MCDispatch_safety.cfg MCDispatch.tla`, one proof
module with `tlapm DispatchProofs.tla`.

## 1. Inventory

| Component | Source | State | Operations | Hard behaviour | Correct when |
| --- | --- | --- | --- | --- | --- |
| Submission dispatcher | `app/applications/dispatch.py` | `applications`, `outbox_events`, `submission_attempts`, audit events | queue, dispatch_next (read, commit intent, gate, send, record), recover_inflight | several workers, crash between commit and answer, lost answers, slow workers, midnight | never two unapproved effects, no false state, cap respected, nothing in flight for ever |
| Reconciliation and replies | `app/applications/reconciliation.py` | the same rows, `email_messages`, mailbox cursor | lookup in Sent Mail, apply and associate messages, owner decisions, poll | lookups outside transactions, replies during a dispatch, overlapping polls, expired page tokens | proof is kept, decisions need their evidence, no message is lost or applied twice |
| Readiness and authority | `app/core/readiness.py`, `app/services.py` | profile facts, answers, policy revisions, controls, packets | confirm, import, answer, approve, pause, connect, evaluate | a change between gate, envelope and request | what is sent is confirmed, approved and lately verified at that time; what is approved, and verified often enough, is sent or becomes a task |
| Application services and API | `app/services.py`, `app/api/main.py` | the same rows, tasks | manual submission, status, tasks, invalidation, upload | owner acts during background work | preserved states are not reset |
| Matching and packets | `app/matching/`, `app/documents/service.py` | assessments, packets, artifacts | assess, prepare (read, render, write) | long preparation over changing inputs, preparations that overlap | a packet of old inputs is never usable |
| Job queue | `app/workers/scheduler.py`, `celery_app.py` | `jobs` with leases | schedule, claim, succeed, fail, expire, retry | overlapping ticks, expired leases, reruns, crashes | newest input is processed, late answers ignored, jobs end |
| Follow-ups and notifications | `app/applications/followups.py`, `notifications.py`, `app/workers/notifications.py` | outbox rows, attempts, notifications | dispatch, recover, notify | the dispatcher's hazards without requeueing | at most one effect, true results, each waits its turn |
| Gmail connection | `app/integrations/gmail.py`, `email_provider.py` | `connections`, `auth_sessions` | start, complete, refresh, disconnect, errors, send, find, poll | consent screens answered late, refresh racing reconnect | superseded flows never connect, late refreshes never overwrite |
| Browser provider | `app/browser/adapters.py` | a page, the notes of the request handler | read, fill, click, route each request, read the receipt | redirects that repeat the POST unseen, answers that are lost, timeouts after the click, a handler that still runs | a handoff had not been sent when it was decided, an acceptance was received |
| Discovery | `app/opportunities/discovery.py`, `app/connectors/` | sources, occurrences, opportunities | poll, ingest, verify, review, expire | overlapping polls and verification, leads beside primary sources | what is shown as verified was read; every content is assessed |
| Budget | `app/workers/budget.py`, `requests.py` | `budget_ledger` | check, reserve | many reservers, midnight | the cap of a day is kept |
| Database | `app/db.py` | transactions | read, write | serialisation | a write block is atomic |
| Rendering, profile import, backup, web client, command line | `app/documents/`, `app/profile/`, `ops/`, `web/` | files | I/O | formats | outside the models, see section 8 |

Components interact through the database only.  `db.write()` takes SQLite's write
lock (`BEGIN IMMEDIATE`) or an advisory lock on PostgreSQL, so each such block is
one atomic action of the models.  Everything between two blocks interleaves:
reads used later, calls to providers, handlers of jobs.  A worker may die at any
point, losing its local variables and nothing it committed.

## 2. Modules

| Module | Models |
| --- | --- |
| `SubmissionEffect` | what a submission promises about external effects, with no queue, worker, crash or state |
| `Dispatch` | dispatcher, reconciliation, replies, owner decisions, preparation and invalidation: every writer of an application's state |
| `BrowserSubmission` | a submission through a reviewed form, request by request: what `Dispatch` takes as one step |
| `Authority` | facts, answers, policy, mailbox and controls, the packet made from them and the readiness gates that compare them |
| `Listings` | a posting, its polls, verification, review, assessment and packet, and the request budget |
| `Mailbox` | the poll of incoming mail, its cursor, and the association of messages |
| `Auxiliary` | follow-ups and emails to the owner, the other users of the outbox |
| `JobQueue` | the durable job queue and its leases |
| `GmailConnection` | authorization flows, token refresh, failures and disconnect |
| `MC...` | one per module above but `SubmissionEffect`: instances for TLC; `MCDispatch` has symmetry sets and the restricted next-state relation of the quota run |
| `...Proofs` | theorems about the module they are named after; the promise of `SubmissionEffect` is proved in `DispatchProofs`, where it is used |

`Dispatch`, `BrowserSubmission` and `Auxiliary` implement `SubmissionEffect`, the
first over queue, workers and retries, the second over the requests of a page, the
third with each key as its own only attempt, which nobody may ask to repeat.
`BrowserSubmission` does so but for one race of the code, whose attempts it marks
(`late`, below); `Dispatch` takes the answer of a form as one step, without that race
and without POSTs that the browser repeats by itself.  The
others meet at rows, not at steps: what one module computes another takes as a
choice.  `Dispatch` lets the gates of `Authority` and `Listings` refuse at any
time; `Authority` takes every change `Listings` can make to a posting as a change
of its availability or content; the jobs of both are run by `JobQueue`; `Mailbox`
ends where `ApplyMessage` of `Dispatch` begins.

Definitions marked `Fault` are the mutated forms of the definition below them.
They are not part of any specification; each shows that the property next to it
in `PROJECT.json` can be broken by a plausible mistake in that code.

### Dispatch

| State | Code |
| --- | --- |
| `application[p]` | the row of `applications`: `state`; `has_submission_evidence` (`evidence`); the audit events that submission_history takes for a confirmation (`receipt`); `packet_id` as a counter (`packet`) and whether that packet passes the document gates (`usable`); the reasons of open tasks (`tasks`) |
| `outbox[p]` | the outbox row `submit:{id}`: state and attempt |
| `attempt[a]` | a row of `submission_attempts` with its audit events: `dispatch_result` (`outcome`), `provider_acceptance_reconciled`, `uncertain_retry_approved` (`waived`) |
| `sent` | what the provider accepted, which the program cannot read directly |
| `worker[w]`, `lookup[r]` | local variables of a `dispatch_next` and of a `reconcile_application` call |
| `today`, `crashes` | the quota day, and the crashes spent |

`ChoosePending`, `RefuseDispatch`/`StartDispatch`, `PassGate`/`StopBeforeRequest`,
`Request` and `RecordResult` are the stretches of `dispatch_next` between two
commits or provider calls; `Crash` may follow each.  An email passes the final
gate before credentials are fetched and again right before the request
(`pc = "credentials"`); a browser form passes it at the POST.  `LookupSent`
separates the search from the transaction that applies its result.  Each owner
decision, reply, reassessment and invalidation is one action, because it is one
transaction.

Data that no property tells apart is left out.  The gates that read other
components (live switch, listing, deadline, eligibility, policy, pause, budget,
connection, freshness) may change between any two transactions, so `Dispositions`
lets them refuse at any time once history is clear.  History, open tasks, the
packet and the daily cap are computed as the code computes them.  A reply that is
only recorded (`reply_received`) changes nothing here.  The fallback to the newest
packet when `packet_id` is unset is never reached by an application that passes the gates.
`submission_history` reads attempts in an unspecified order; since at most one
of them is unresolved (`QueuedIsUnattempted`), the order does not matter and
`History` quantifies over the set.

### BrowserSubmission

| State | Code |
| --- | --- |
| `run[a]` | the `_run` call of an attempt: how far it is (`pc`, "ending" once it has decided), where the POST of the page is (`wire`), the page shown, whether the form was the reviewed one, `post_count`, `effect_started` and `network_errors` (`posts`, `effect`, `errors`), what was decided and reported; as history, whether the handler let the POST through after the decision (`late`) |
| `form`, `allowed` | whether the employer shows the reviewed form, and what `final_effect_gate` would answer |
| `received`, `applied` | how often the POST reached the employer, and what it took as an application |

Two things act at their own pace here.  The handler `route` is called by Playwright
whenever `_run` waits for the browser.  That is so during the click, and again while
`_run`, having read `effect_started` and decided, hides the fields, takes its
screenshot and closes the browser: `Raise` and `Accept` decide, `Close` reports, and
`RoutePost` and `Transport` may come between.  And the browser follows redirects by
itself, since Playwright calls no handler for a request that stems from a redirect (how
the library behaves, taken from its documentation, as it is not part of the repository).  So
after a 302 the browser shows any page of any address (`Follow`), and after a 307 or
308, whose status and `location` the handler passes on, it sends the POST again,
without gate, counter or note (`Repeat`).

Both have consequences that section 6 describes, and the properties say what is left:
what is refused was not received *unless it was let through late*, and an accepted one
was received *once or more*.  That the employer receives one POST at most is not a
property of this code, and none is stated.  Field hashes, the legal text and the checks
of addresses are one predicate, `reviewed`.  `Raise` may end every state, because
every step has its own timeout.  `preflight` is the same reading without the click
and has no effect to speak of.

### Authority

| State | Code |
| --- | --- |
| `fact`, `answer`, `profile` | rows of `profile_facts` and `answers` with their revisions, and `candidate.revision` |
| `policy` | the latest policy revision: approved or a draft, its answers and its sender |
| `account`, `paused` | `email_address` of the connection, and the controls |
| `listing`, `fresh`, `posting` | availability, whether `last_verified_at` is less than 30 minutes old, and `content_hash` of the posting |
| `assessed` | profile and content of the newest assessment |
| `packet`, `overtaken` | the packet the application points at: its status and what it was made from; as history, whether it took the place of one made from newer revisions |
| `tasks`, `application`, `outbox`, `jobs` | open tasks, state, submit event and jobs of the application |
| `builder[b]`, `dispatcher` | local variables of each `prepare_packet` and of `dispatch_next` between their transactions |

Revisions are numbers; the code's identifiers are compared for equality only.  The
owner has set the program up, with a first policy approved on a packet that is
stale since.  One application on the email route suffices, because the gates of
one application read nothing of another.  `Reject` is what the code does with an
answer of the provider or the gate that is not an acceptance; the history that
decides whether it may be tried again is `Dispatch`'s.

Several packets may be in the making.  `Worker` builds for the job, one build at a time;
each of `Others` is a build without a lease, either asked for by the owner
(`RequestPacket`) or the job's own after its lease ran out (`LoseLease`, which queues the
job again).  Whichever writes last has the application point at its packet, stale or not,
and neither queues a job nor opens a task for that.  `fresh` is what `dispatch_next`
renews before it looks at an event (`Refresh`); `queue_application` only tests it.

### Listings

| State | Code |
| --- | --- |
| `edition` | the edition of the posting the employer shows, which only a fetch can see |
| `post` | the row of `opportunities`: content hash and text, availability, `last_verified_at` (as the edition read), snapshot, review and destination |
| `packet`, `assessed`, `jobs` | newest packet, content of the newest assessment, queued jobs |
| `poller`, `checker`, `builder` | each `poll_source`, `verify_opportunity` and each `prepare_packet` between their transactions |
| `built` | history: the newest content a packet was written for |
| `spent`, `count` | requests reserved today; bounded events so far |

The board is a primary source, the feed carries leads.  An edition may be listed
although its own deadline has passed, and `_record` closes the posting then.  Builds
overlap as in `Authority`.  A verification that finds the snapshot of the one before
restores the text of that snapshot without a new content hash, which the model does too:
`PacketIsCurrent` compares hashes, as the gates of the code do.  A poll of the board always
counts as a change of content: `_record` stamps each occurrence with `read_at`, and
the hash covers it.  Thus an unchanged posting loses the owner's review at its next
poll and is assessed and prepared again.  The code's comment speaks of changed
requirements only, but promises nothing of unchanged ones, so this is recorded here
and among the hazards rather than as a divergence.

### Mailbox

| State | Code |
| --- | --- |
| `now`, `arrived` | Gmail's clock and when each message reached its mailbox |
| `box`, `cursor` | the connected account and `data["cursor"]` of its row, with two fields of history: since when, and of which mailboxes, the messages before it were listed |
| `poller[p]` | a `poll_mailbox` call: the cursor it began from, then the batch and cursor it will record |
| `email[m]`, `applied[m]` | the row of `email_messages` and its task; how often `apply_message` ran for it |
| `count` | faults and connections so far |

A page token stands for the messages not returned yet.  Gmail's `after:` and
`before:` are whole seconds and a message may arrive in the second of a poll but after
it, which the overlap of two windows makes up for.  A poll that ends after the
account was replaced writes its cursor into the new connection; the code does so, and
`PassedIsRecorded` speaks of cursors of one mailbox only.

### Auxiliary

| State | Code |
| --- | --- |
| `quiet` | applications of which no audit event is one of `REPLIES` |
| `inbox`, `urgent`, `delivery` | rows of `notifications` in order of creation, which of them are urgent or a digest, and their `external_delivery` |
| `event[k]` | the outbox row `followup:{id}` or `notification:{id}` |
| `tasks` | applications with a task `followup:{id}` |
| `worker[w]` | local variables of a `dispatch_followup` or `dispatch_notification` call |
| `requests[k]` | what the provider accepted |

`Bodiless` are the notifications that `mark_connection` creates, whose data has no
`body`.  `CloseRows` is what `reconcile_application` and `owner_reconciliation` do to
a follow-up when they close the rows of its application; an approved retry cannot
reach an application that has a follow-up, because its first attempt was accepted.

### JobQueue

| State | Code |
| --- | --- |
| `job[j]` | a row of `jobs`: state, revision of its data, remembered `rerun`, attempts, lease token |
| `worker[w]` | the claim a `run_tick` works on, with the revision it was claimed with |
| `asked`, `finished` | history: last revision requested, and last revision a recorded success had processed |

A worker runs one job at a time, so its name is its lease token.  Attempts are only compared
with the limit and stop there.  Due dates and backoff are dropped: a pending row
may be claimed at any time.

### GmailConnection

| State | Code |
| --- | --- |
| `conn` | the row `gmail` of `connections`: status, ciphertext, `email_address`, `oauth_pending_id` |
| `open`, `owner` | unexpired `gmail_oauth` rows of `auth_sessions` and the sessions that began them |
| `signedIn` | sessions that `_session_valid` accepts |
| `callback[k]` | a `complete_oauth` call between its transactions |
| `caller[c]` | a call to Gmail between `access_credentials` and its answer |
| `superseded`, `exchanged` | history: flows followed by a newer one or a disconnect; codes sent to the token endpoint |

A ciphertext is a flow and a nonce that no other ciphertext in use has, because
Fernet never encrypts to the same text twice and the code compares texts.  A flow
stands for the account it authorises, so the mailbox is a flow too.

## 3. Runs

| Run | Asks | Bounds |
| --- | --- | --- |
| `safety` | are shown states backed, is evidence kept, do a waived packet or a queued application never meet an open attempt; does every step implement `SubmissionEffect` | 1 application, 2 attempts, 2 dispatchers, 1 reconciler, both routes, 2 packets, 1 crash, overrunning dispatches |
| `quota` | is the cap respected by competing dispatchers over midnight | 2 applications, 3 attempts, cap 2, 2 days |
| `live` | do interrupted, uncertain and closed applications move on | 1 dispatcher, 1 reconciler, 1 crash, dispatches end within the window |
| `browser` | was a handoff not let through when it was decided, was an acceptance received, and does every step but a late POST implement `SubmissionEffect` | 3 attempts, 2 requests of each at most |
| `authority` | is a packet, a pending event and a request made of what holds now; is an application that stays approved and verified sent or turned into a task, again and again | 1 fact with 2 values, 1 answer, 2 accounts, 2 builds, 2 changes |
| `listings` | was a packet made for the present content, is what is verified read, is every content assessed and prepared for, whatever builds overlap | 3 editions, 2 polls, 2 builds, cap 2, 2 events |
| `mailbox` | is no message passed over, applied twice or left unrecorded | 3 messages of 2 accounts, 2 polls, 2 connections, 1 fault, windows that overlap by 1 |
| `jobs` | is the newest input kept and processed, are late answers ignored, does every queued job end | 2 jobs, 2 ticks, limit 3, 3 requests, 2 crashes, overrunning handlers |
| `auxiliary` | is no follow-up or owner email sent twice, is every recorded result true, does every step implement `SubmissionEffect`, do effects settle and notifications have their turn | 1 application, 3 notifications (1 bodiless), 2 workers, 1 crash, overrun |
| `gmail` | which flow may store credentials, is the newest one awaited, what may a late answer change, does an error heal without the owner | 2 flows, 2 sessions, 2 redirect handlers, 2 calls, 3 nonces |
| `acceptance`, `auxiliary_blocked` | what a message and a test say and the code does not keep | see section 6 |

Why the bounds are enough.  Applications share nothing but the quota, so one
application shows everything but the quota.  Two attempts suffice for a late
result, gate or lookup of an old attempt to meet a new one.  One crash puts an attempt in every place
where it can be abandoned.  Two packets let an attempt outlive its packet.  In the
job queue two workers give a late one and its successor; a limit of 3 leaves room
for a failure before the last one, and the code compares attempts with the limit (5)
only.  Two flows give a superseded or connected one and its successor, from the same
or another session.  Three nonces
for two calls and the connection mean that a fresh ciphertext always exists.  An
email to the owner concerns one notification; two ordinary ones and a bodiless
one show order and blocking.

A form is submitted by one attempt at a time; three let a refused one be followed by
an uncertain one and a third be tempted to follow that; two requests are a POST and
its repetition.  Two changes in `Authority` (of the owner's records, of the posting,
a build asked for or a lease lost) put one change into each window (while documents are
built, after queueing, after the request is composed) together with a second build or with a change that
is taken back; each change is a change of one record, so one fact and one answer show every
disagreement, the second value and account every replacement.  Every packet of that
instance uses its one fact, so a packet is blocked there by an unconfirmed fact only; the
theorems hold for any `Selections`.  One build besides the job's own is one that may end before or
after it.  Three editions are a posting with an address, a replacement of its text whose
deadline has passed, and its removal; two polls
and a verification hold an old, a present and a next reading at once, and the cap of 2
makes them compete.  Two events of `Listings` are a midnight, a crash, a lost lease or
an act of the owner each.  Two messages of one mailbox give one that is in a window and one that
arrives in its last second, the third belongs to another account and cannot be
read; two polls are one and its successor, and one fault is an expired token or a
failed poll.

`Overrun` says whether a dispatch (or a handler) may outlive the window after
which recovery acts on it: 300 s for all.  Calls have timeouts of 20 s each and browser
steps of 30 s, so a form with many steps, or a suspended machine, can exceed it,
and Celery's soft limit is 540 s.  Safety is checked with `Overrun = TRUE`; the
liveness of `Dispatch` with `FALSE`, since a recovery that interrupts the same
dispatch again and again says nothing about it.  A key of `Auxiliary` is dispatched
once, so its liveness needs no such restriction.  In `JobQueue` a handler may always
be slower than its lease, and liveness assumes that it is not so for ever.

Deadlock is checked in `Dispatch`, `BrowserSubmission` and `JobQueue`.  The
other instances may stop, once their bounds are spent and nothing is left to do.

## 4. Fairness

`LiveSpec` of `Dispatch` assumes what the deployment schedules: `dispatch_next`
is started every 15 s (Celery beat) or by `run_loop`, and what it started goes on
or dies; every tick runs `recover_inflight`; `mailbox_maintenance` looks up every
application in `submission_uncertain` every 300 s.  Strong fairness of `FindSent`
says that a message that was sent is eventually listed by the Sent Mail search
while the mailbox job keeps running.  Nothing is assumed of the owner, of replies or
of the gates.

`LiveSpec` of `Auxiliary` assumes the same schedule (that some dispatch in flight
goes on is enough, because each takes a few steps), and that Gmail is connected and
email notifications are on whenever the next notification is looked for.
`LiveSpec` of `GmailConnection` assumes that every call ends, that the mailbox job
(every 300 s, in state error too) goes on calling, so that access tokens, which live
a day at most, keep running out under it, and that some refreshes are answered.

`LiveSpec` of `JobQueue` assumes that a claimed handler returns or raises, that
expired leases are looked at by every tick, and that a job that is due again and
again is claimed: `claim_job` takes the row that has been due for longest.  From
some time on leases expire only under workers that were lost.

`LiveSpec` of `Authority` assumes that the tick runs the assessment and the building
of a packet once their jobs are due and queues what is ready, that a build ends, and that
the loop dispatches.  Nothing is assumed of the owner or of the sources.  Instead
`ApprovedIsDispatched` is about the time after which everything is approved for good,
the posting is open and stays verified within half an hour until its event waits (from
then on `Refresh` sees to it), and the packet shown is not `overtaken`.  Without either
of the last two premises TLC finds an application that waits for nobody; both are in
section 6.  Half-hourly verification is what the owner, or the polls of a
source every 15 minutes, provide; sources polled less often do not.  The conclusion
is that sending or an open task come back again and again, so a task of an earlier time
that was resolved does not satisfy it.

`LiveSpec` of `Listings` assumes the same of assessment and building, and nothing of polls
or verification.  `PacketIsRebuilt` says that the newest content has had its packet,
not that an older build cannot take its place.  `LiveSpec` of `Mailbox`
assumes that every poll goes on and ends, and that the next one is started, every five
minutes; the premise of the property is that the message stays within reach, which
excludes a mailbox with a message that cannot be decoded.

## 5. Proofs

| Theorem | Module | Says |
| --- | --- | --- |
| `TypeCorrect` | `DispatchProofs` | shapes |
| `NotAcceptedIsUnsentHolds` | `DispatchProofs` | a recorded refusal is true |
| `Implementation` | `DispatchProofs` | `Dispatch` refines `SubmissionEffect` |
| `NoUnapprovedDuplicateHolds` | `DispatchProofs` | no duplicate without approval |
| `EvidenceIsKeptHolds` | `DispatchProofs` | evidence is never rewritten |
| `QueuedIsUnattemptedHolds`, `WaivedCannotPassHolds`, `ShownStatusIsBackedHolds` | `DispatchProofs` | what a pending event, a waived attempt and a shown state imply |
| `QuotaRespectedHolds` | `DispatchProofs` | the cap holds for any cap |
| `AtMostOneUnapprovedHolds` | `DispatchProofs` | the abstract promise |
| `BrowserTypeCorrect`, `HandoffIsUnsentHolds`, `AcceptedIsReceivedHolds` | `BrowserSubmissionProofs` | the handler lets one POST of an attempt through, reports are true but for late POSTs |
| `BrowserImplementation` | `BrowserSubmissionProofs` | but for late POSTs, `BrowserSubmission` refines `SubmissionEffect` |
| `AuthorityTypeCorrect`, `ValidatedIsCurrentHolds`, `QueuedIsCurrentHolds`, `ClearedIsConfirmedHolds` | `AuthorityProofs` | packets, events and requests rest on what holds now |
| `ListingsTypeCorrect`, `PacketIsCurrentHolds`, `ShownAsVerifiedHolds`, `ContentIsAssessedHolds`, `OwnerDestinationIsReviewedHolds`, `RequestsWithinCapHolds` | `ListingsProofs` | packets match contents, contents are assessed, the cap of requests holds |
| `QueueTypeCorrect`, `NewestInputKeptHolds`, `DoneIsCurrentHolds`, `LateAnswerIsIgnoredHolds` | `JobQueueProofs` | no input of a job is lost, done means current, late answers change nothing |
| `AuxiliaryTypeCorrect`, `OneRequestPerKeyHolds`, `RecordedResultIsTrueHolds`, `UncertainIsShownHolds` | `AuxiliaryProofs` | at most one request per key, true results, no silent uncertainty |
| `AuxiliaryImplementation` | `AuxiliaryProofs` | `Auxiliary` refines `SubmissionEffect`, no retry ever approved |
| `MailboxTypeCorrect`, `PassedIsRecordedHolds`, `AppliedOnceHolds` | `MailboxProofs` | no message passed over, none applied twice |
| `ConnectionTypeCorrect`, `MailboxMatchesSecretHolds`, `NewestFlowIsAwaitedHolds`, `NewCredentialsAreAuthorizedHolds`, `CodeIsUsedOnceHolds` | `GmailConnectionProofs` | who may store credentials, and what is shown agrees with them |

They hold for every set of applications, attempts, workers, facts, accounts, messages
and polls, every cap, every sequence of editions and every bound, from the named
assumptions on the constants in the modules: none-values are outside their sets, attempts are a finite set, bounds are
natural numbers.  The type invariants of the proved modules, and `NotAcceptedIsUnsent`,
`CodeIsUsedOnce` and `RequestsWithinCap`, are proved and for that reason not repeated in a
configuration.

The argument.  None of these properties is inductive as it stands, because what
makes them true is in the local state of workers that a crash, a recovery or an owner
decision may have left behind.  `Inv` in `DispatchProofs` adds `InFlightInv` and
`LookupInv`: a worker past its commit owns its attempt alone (`OneOwner`), an
attempt that is still free has no result and is not sent (`FreshInv`), an attempt
that a worker has not asked for is not in `sent`, and a returned outcome
`not_accepted` means the request was not accepted (`SentInv`); a lookup that found an attempt
found an accepted one of that application.  With `Inv`, a start of a dispatch is a step of
`SubmissionEffect!Begin`: the gate saw no unresolved attempt.  The absence of
duplicates is then proved of `SubmissionEffect` alone, by the invariant that
an application's unresolved attempts number at most one, and carried over by the
refinement.  The status theorems add which packet a waived attempt was built from
and which evidence each state rests on.  The quota theorem shows that the count of a day
grows only in `StartDispatch`, which sees it below the cap in the same transaction.

For the job queue, `InputInv` says that the request last made is what the row
remembers to rerun or else its data, and `LeaseInv` that the holder of the lease works
on that data.  For the other effects, `HeldInv` says that a worker holds its key alone and
that its row is not closed as refused meanwhile, and `RequestInv` that what it knows
of its request is true; `FreshInv`, that nothing was requested for a key without a row.
With these every step is one of `SubmissionEffect`: a start is `Begin`, because recovery
never makes a row absent again; an accepted request is `Accept`, because the row of a
held key is not closed as refused; and a recorded refusal is `Refuse`, because the worker that
records it knows.  For Gmail, `PendingInv` says that the connection waits for
the newest flow or for none, and that only one flow is not superseded; `FlowInv` that
a flow is in its row or in one handler.  With these, a stored secret can only come
from the newest flow or, through the comparison of ciphertexts, from the tokens it replaces.

For the browser, `RequestInv` says that a request is noted before it can reach the
employer, by the handler or by a redirect after it; `EmployerInv`, that what the employer
took it received, and a receipt is one of this attempt; `VerdictInv`, that a refusal with
a noted request is one whose POST was late.  With `OneUnrefused`, an attempt begins only
when all earlier ones were refused, hence not noted or late, so nothing that counts as sent
in the refinement is behind it.  For the authority, `BuilderInv` says of every build that
documents in the making that bear the latest revision of the profile state the facts as
they are: a fact never changes without that revision, which makes the comparison of
revisions in `prepare_packet` enough, however many builds overlap.  `ClearedIsConfirmed`
needs no more than the types and the gate, since what the request states is compared again with what is stored.  For
listings, `KnownInv` says that nothing is queued or built for a posting that is not
there, and the four properties are inductive with it: each writer of the content makes packets
stale and queues an assessment in its own transaction.

For the mailbox, `InPast` says of every cursor, stored or held by a poll, that it
lies in the past: its window begins no later than now and, once fixed, ends no later than
the end of this second.  So a message that arrives now is behind no cursor, because each
window leaves its last `Overlap` seconds to the next one, and the assumption
`Overlap > 0` is what the proof of `NothingPassesNow` rests on.  A page moves a cursor
only past what it returns or what was passed before (`PagePasses`), and a poll records
what it returns together with the cursor.  Polls that overlap need no relation
to each other: each cursor is right by itself, so it does not matter which is written last.

Only model-checked: liveness, because the prover handles no fairness
(`DispatchSettles`, `UncertaintyResolves`, `HandledLeavesQueue`, `JobsSettle`,
`ApprovedIsDispatched`, `PacketIsRebuilt`, `EffectSettles`, `NoticesAreSentInTurn`,
`ErrorHeals`, `ReachedIsRecorded`).  Every other property of a passing run is a theorem.

## 6. Findings

- **Acceptance of a waived attempt is ignored** (run `acceptance`).  The error
  message at `reconciliation.py:168` promises that known provider acceptance cannot be
  retried.  `submission_history` skips waived attempts before it looks at
  reconciled acceptance, so when Sent Mail proves acceptance after the approval,
  and the owner's retry is prepared, a second attempt starts.
- **A notification without a body stops all emails to the owner** (run
  `auxiliary_blocked`).  `mark_connection` creates an urgent notification without the
  `body` that `dispatch_notification` reads, inside the transaction that would have
  recorded it.  The transaction fails, and fails again for ever.

Behaviour that the models take as the code has it, and that a maintainer may want to
look at.  Where a text of the repository says otherwise, it is quoted:

- a receipt that a reply recorded during a dispatch is overwritten by "sent,
  unconfirmed" when the dispatch records its result (`dispatch.py:339`);
- a submission by hand is accepted during a dispatch whose application a reply has
  moved on, because in-flight work is read from the application's state
  (`services.py:264`);
- a late failure of a call with old credentials marks a newer connection as expired
  or in error (`gmail.py:181`), while a late success does not;
- a POST that the request handler lets through after `_run` has read `effect_started` and
  decided on a handoff is recorded as not accepted although the employer receives it, and
  the owner may submit again (`adapters.py:282-300`; `late` in `BrowserSubmission`).  The
  comment of `DefinitiveRejection` (`contracts.py:29`), of which a handoff is one, says that such a
  request was not accepted; `HandoffIsUnsent` states what holds without that race;
- a POST answered with 307 or 308 is repeated by the browser without gate or counter, and
  a receipt after it is reported as one acceptance of two requests
  (`adapters.py:191-193`; `Repeat`);
- an approved application on an open posting that was not verified within half an hour is
  neither queued nor reported: `queue_application` refuses it, and only a queued event
  makes `dispatch_next` verify (`dispatch.py:194-198`, `readiness.py:92-96`).  Sources are
  polled every 15 minutes by default, pages and feeds every 30 or less often, searches
  once a day;
- of two overlapping builds of a packet the older may write last: the application points
  at a stale packet, with neither a job nor a task, while a current one exists
  (`documents/service.py:166-169`, `main.py:253-256`; `overtaken` in `Authority`);
- every poll of a primary board counts as a change of its postings, so reviews do
  not last (`discovery.py:135`);
- a message whose decoded text exceeds 600,000 characters fails its poll for ever, and
  newer messages are not read (`email_provider.py:88`);
- a periodic job that failed five times is not scheduled again (`scheduler.py:20`), and
  a job that kills its worker is retried without limit (`scheduler.py:29`);
- the gate's answer NEEDS_HUMAN for an answer the policy does not cover creates no
  task (`dispatch.py:283`); `ApprovedIsDispatched` has the premise that all are covered;
- an exception of `dispatch_notification` also skips `dispatch_followup` of that task
  (`celery_app.py:43`), and one failing lookup in Sent Mail also skips the poll
  (`maintenance.py:112`);
- a slow poll or verification may be applied after a newer one (`discovery.py:250`);
  `ShownAsVerified` says that what is shown is one reading, not the latest.

## 7. Plan

What the models leave for later, in this order:

1. Registration and health of sources: backoff, etags and the state a source shows.
2. The caps per source and per kind of request, by month.
3. The scoring rules of `app/matching/engine.py` against a reference definition.

## 8. Not modelled

Parsing of feeds and pages, LaTeX
and PDF rendering, extraction of profile facts, encryption, backup archives, the
web client, migrations and the command line are I/O or pure text processing without shared
state; tests reach them.  Scores of an assessment enter the models as postings that
fit, or as refusals of a gate.  Retention removes rows that no model reads any more.
Read-only endpoints, onboarding and uploads of evidence other than a receipt change
nothing the properties speak of.
