# TLA+ specifications of growth-lms

growth-lms is a multi-tenant learning platform: a Go HTTP server (gin, pgx), a
Go worker (asynq on Redis), Postgres with row level security, and outside
services (Razorpay for payments, Bunny and Supabase for media and identities, an
e-mail service, a code runner, a language model).  This directory holds TLA+
models of its components, configurations that check them with TLC, and theorems
about them that TLAPS checks.  Paths below are relative to the repository.

To check a run: `tlc -config rooms.cfg MCRoomHub.tla`; to check the proofs of a
module: `tlapm PaymentsProofs.tla`.  `PROJECT.json` lists the runs with their
properties, the source lines every definition stands for, the hazards, the
findings and the theorems.  It also names, for every property, a faulty variant
of the code under which TLC finds the property violated: a definition marked
"faulty variant" or "mutant", which no specification uses.

## 1. The system

### 1.1 How a step of the program becomes a step of a model

* **HTTP requests** run in one transaction each (`middleware/dbtx.go`,
  `WithRequestTx`).  It is committed after the handler wrote its response and
  rolled back if the status is 500 or above; an error of the commit itself is
  dropped.  The isolation level is Postgres' default, READ COMMITTED, and no
  statement uses `FOR UPDATE`.
* **Worker jobs** (`internal/worker`) open a transaction of their own, or, as
  for notifications, none.  asynq takes a task off a Redis list, retries it when
  the handler returns an error and archives it after the last retry.  A task is
  enqueued before the request that causes it commits.
* **Sweeps** are goroutines of the worker with a ticker: publication, abandoned
  orders, expired entitlements.
* **Realtime**: two goroutines per websocket connection and a hub with mutexes.
* **Row security and constraints** of `migrations/` decide some outcomes (who
  may write a row, unique numbers, cascades) and are part of the guards there.

So a transaction is modelled as the reads its decisions depend on, whose
results it *remembers*, followed by the writes.  Other transactions may commit
between any two of these steps.  Where a row lock matters (version numbers,
memberships, invitations, a counter) the models say who waits for whom;
elsewhere a transaction's writes become visible in one step.

### 1.2 Components

| Component | State | Operations | Hard parts | What makes it correct | Model |
|---|---|---|---|---|---|
| Orders, payments, refunds, disputes, entitlements (`worker/payments.go`, `orders.go`, `entitlements.go`, `handlers/commerce_refunds.go`, `models/*`) | rows of `orders`, `payments`, `refunds`, `chargebacks`, `entitlements`, `learner_course_access`, `discount_codes` | seven webhook jobs, two sweeps, refund requests, staff grants, self-enrolment, status writes of checkout | events out of order, crash between commit and mark, sweeps racing captures, one access row shared by several purchases | access only for captured money, every capture granted in the end | `Payments`, `Purchase` |
| Payment webhook endpoint and queue (`handlers/webhooks.go`, `worker/tasks.go`, `worker/payments.go:handle`) | `webhook_events`, asynq tasks, the provider's deliveries | record, enqueue, answer; take, apply, mark, acknowledge, retry, archive | two deliveries at once, crash between row and task, retries exhausted | one worker at a time and none after the mark, nothing lost unnoticed | `WebhookGate`, `EventFeed` |
| Offers, codes, tokens, checkout, reports (`handlers/commerce_offers.go`, `commerce_checkout.go`, `commerce_reports.go`, …) | offers, codes, invite tokens, orders | CRUD of offers and codes, price preview, `CreateOrder`, revenue and commission reports | an offer edited while a checkout is open; tokens, seats and codes checked statements before they are taken, and seats and codes taken only when the money comes, which may be after a failure or the sweep; rounding | tokens, seats and codes given in turn, shares within bounds | `Storefront` |
| Realtime hub (`realtime/hub.go`) | rooms, clients, buffered send channels | join, presence, relay, slow-client drop, leave | two locks taken one after the other, a channel closed from two sides, full buffers | no send on a closed channel, order of messages, broken clients leave | `RoomHub` |
| Collaborative boards (`handlers/collab_socket.go`, `collab_versions.go`, `collab.go`) | the row, the coordinator's memory, its timer, saves in flight, checkpoints | op, lazy load, debounced flush, checkpoint, restore, deletion, restart | flush outside the lock, `Stop` on a fired timer, load errors, restore behind the memory | changes always get saved, untouched elements survive | `BoardCoordinator` |
| Course lifecycle (`handlers/courses.go`, `course_editor_ui.go`, `admin_ops.go`, `versions.go`, `worker/publish.go`, `cache`) | the course row, version numbers, the cached catalog, asset URLs | every handler that writes the status, the sweep, catalog reads, URL refresh | status checked without a lock, MAX+1 numbers, cache dropped before the commit | a publish and its version together, due courses published, no view stale that the change could reach | `CourseLifecycle` |
| Course structure (`handlers/chapters.go`, `lessons.go`, `blocks.go`, `models/sortorder.go`, `course_version.go:Restore`) | chapters, lessons, blocks and their fractional orders | create, update, autosave, move, reorder, delete, restore | two requests on one list, renumbering, two restores | a request leaves its list as it would alone, a row below a deleted one is gone | `CourseContent` |
| Learner journey (`handlers/learner.go`, `quiz.go`, `assignment.go`, `completion.go`) | access, progress, attempts, submissions, grades, certificates | enrol, open, progress, submit, grade, complete | numbers by counting, completion judged from what one transaction sees, content edited meanwhile | one certificate when earned and only then | `LearnerJourney` |
| Organisations, members, invitations, plans (`handlers/orgs.go`, `members.go`, `invitations.go`, `admin_*.go`, `quota`) | organisation, memberships, invitations, plans, courses counted | found, delete, roles, invite and answer, suspend, deactivate, plans | role read before the statement, two owners at once, count-then-insert | members are invited, an owner is left, quotas hold for requests alone | `Tenancy` |
| Metered services: code runs and AI (`handlers/code_exec.go`, `ai.go`, `models/*`) | settings, counters per period, ledgers, exercises, tutor sessions | gate, call, write, settings | the period read before the run, two calls below the limit, a late failure | counters equal the ledger | `Metering` |
| SCORM (`internal/scorm`, `handlers/scorm.go`) | packages, attempts with their CMI map | import, publish, launch, commit, finish | commits of one attempt that cross, deletion | attempts follow one another, a commit folds | `ScormManifest`, `Scorm` |
| Simulations (`internal/simulations`, `handlers/simulations.go`) | simulations, progress rows | create, update, publish, record | threshold read before the row is written | complete at the threshold | `Simulations` |
| Podcasts (`handlers/podcasts.go`, `podcasts_*.go`) | shows, episodes, playlists, listening progress | CRUD, publish, items, progress, feed | deletions crossing two-step requests | nothing refers to what is gone | `Podcasts` |
| Discussions and notifications (`handlers/discussions*.go`, `moderation.go`, `notification*.go`, `worker/notifications.go`) | threads, posts, reports, tasks, inboxes, preferences | post, moderate, report, broadcast, dispatch, unsubscribe | a lock crossing a post, a task starting again at its first recipient, preferences read before sending | moderation holds, everybody reached, choices respected | `Community` |
| Media uploads (`handlers/media.go`, `worker/bunny_webhook.go`) | library, assets, reports of the encoder | upload of videos and files, reports, confirmation | two first uploads, reports out of order | a ready asset plays | `Uploads` |
| Signing in (`middleware/ratelimit.go`, `handlers/auth.go`) | counters and locks in Redis | count, expire, check, fail, lock, sign in | death between two commands, overlapping attempts | whom it locks out it lets in again | `SignIn` |
| Alerts, receipts, learner mails, rollup; search, tags, public site; administration, logging; command line, migrations | | single-row writes, reads, rendering, wiring | | | not modelled, reasons in section 6 and in `PROJECT.json` |

### 1.3 How they interact

The provider calls the webhook endpoint, which shares `webhook_events` and the
Redis queue with the worker; the worker's payment jobs share the commerce rows
with checkout, refund requests, staff grants and the two sweeps.  Checkout makes
the orders those jobs are about.  Course handlers, the editor, the
administrator and the publication sweep share the course row; the public site
reads it through a Redis cache.  Staff edit the content that learners' rows hang
on by foreign keys, while learners work.  Everything an organisation owns is
reached through its membership, its state and its plan, which other requests
change meanwhile.  The hub calls the board coordinator from each connection's
reader, and the coordinator shares the board's row with the version handlers.

## 2. The modules

| Module | Role |
|---|---|
| `Payments` | the commerce core after checkout |
| `Purchase` | abstract: one order is paid, granted once, ended for good, at most one receipt |
| `WebhookGate` | endpoint, row, task, worker gate |
| `EventFeed` | abstract: an event is held by one worker at a time and never after it is done; the interface between the two modules above |
| `Storefront` | offers, codes, tokens, checkout up to the order, reports |
| `RoomHub` | rooms of one name, connections, goroutines, channels |
| `BoardCoordinator` | one board |
| `CourseLifecycle` | status, publication, versions and views of one course |
| `CourseContent` | chapters, lessons, blocks of one course |
| `LearnerJourney` | learners in that course; extends `CourseContent` |
| `Tenancy` | one organisation, its members, plan and courses |
| `Metering`, `Scorm` (with `ScormManifest`), `Simulations`, `Podcasts`, `Community`, `Uploads`, `SignIn` | parts of that organisation; each extends `Tenancy` |
| `MC*` | values of the constants for the runs; `MCOrganization` puts the parts of an organisation together |
| `PaymentsProofs`, `WebhookGateProofs`, `RealtimeProofs` (hub and boards), `CourseProofs`, `LearningProofs` (content and learners), `StorefrontProofs`, `OrganizationProofs` | theorems |
| `RowLemmas` | facts about `Append` and `EXCEPT` on sequences of rows used by the proofs |

In the modules of the content, the organisation and the storefront a behaviour
starts with the choice of a *team*, a set of handlers that run together; the
handlers outside the team stand still.  A `.cfg` gives the teams
(`Handlers`).  Every handler is in a team with those it shares rows with, and
the steps inside a handler interleave freely with those of the others.  The
theorems do not depend on the teams.

### 2.1 `Payments`

*State.* One variable per table; rows are sequences in the order of commit, so
that "latest" is the largest index and row 0 stands for `ErrNotFound`.
`orders`, `access` and `redeemed` are functions because their keys are unique.
`job[w]` is what worker `w` has read so far: the event, and the payment, event
row and entitlement it found.  `sent` are the provider's events that were
recorded and enqueued, `done` those whose `webhook_events` row is marked.

*Actions.* For each job `Begin…` is its first read with the early returns,
`Look…` the later reads, `Commit…` all its writes, then `Mark`.  Between commit
and mark a worker may die (`MaxCrashes`), and the event is taken again.  The
two sweeps re-check a row and then update it unconditionally, as two steps.
`RefundOrder` inserts its row after the provider answered, so that the event
may come first.  Status writes of checkout (free orders, failed provider calls)
are actions of the same module.

*Assumed of the environment.* The provider captures an order at most once,
refunds it in full and, unless that failed, once, and disputes an attempt
at most once.  Two executions of one event do not overlap: this is what
`WebhookGate` provides (`GateImplementsFeed`) and `JobsUseFeed` shows to be all
that `Payments` takes for granted.  Whether an analytics row is accepted is the
environment's choice (`AnalyticsOutcomes`), because the insert can fail inside
the job's transaction.  Receipts are counted; audit rows are left out.  Jobs
are retried without limit here; the limit is in `WebhookGate`.

*Runs.* `payments_safety`: two orders of one learner for one course, the second
with a fixed term and old enough for the abandon sweep, one code with one
redemption left, a disputable attempt and a refund of the first order, two
workers, analytics rows that may or may not be accepted.  Two orders of one
learner and course are what it takes for the shared access row to be repointed;
two workers for jobs to overlap.  `payments_lifecycle` adds fairness, a crash and
a staff grant for the liveness properties and the refinement of `Purchase`, in an
environment with one attempt per order and no stale order: with a second
attempt, or the abandon sweep, `SucceededStaysSucceeded` is false, which
`late_failure` shows for the first, and with a crash besides an order is granted
twice (the last part of this section).

*Fairness.* A started job goes on (WF); a queued capture or refund that can be
taken again and again is taken (SF: asynq polls its lists for ever and retries);
the expiry sweep runs each interval (WF).  No fairness for learners, staff or
the provider.

### 2.2 `WebhookGate` and `EventFeed`

The key of a delivery is chosen from `KeysOf[ev]`: one key with the
`x-razorpay-event-id` header, one per entity of the payload without it.  Insert
and enqueue may report an error whether or not they took effect; a request may
die between the two.  A worker looks the row up by body, runs the handler
unless the row is marked, marks it and acknowledges; a failure re-queues the
task until `MaxRetries`, then archives it with an alert.  Signature and
payload checks precede every state change and are left out.  Run `webhook_gate`:
two events, two requests, two workers, one repeated delivery, two faults, which
is enough for two requests and a repeat of one event to overlap and for both
retry outcomes.  Fairness: requests and workers go on (WF), and the provider
delivers again what was not answered with 200 (SF, its documented behaviour).
`cut` and `alerted` are history: events whose request died between row and
task, and events the endpoint raised a critical alert for.  `EmittedIsSettled`
uses them to be exact about the window the code has: an event that has a row is
answered 200 from then on, so one without a task is never handled, and that may
happen only to an event in one of the two.  An endpoint that recorded an event
and then lost it in silence would violate it.  (Raising the alert is best effort
in the code and taken to succeed.)

### 2.3 `Storefront`

`CreateOrder` is a step for each of its statements: `ReadOffer` remembers the
offer's row, `AdmitBuyer` looks the token up or counts the seats, `PriceOrder`
looks the code up and makes the price, `CommitOrder` writes the order and uses
the token, or rolls all of it back.  `Captured`, `Failed`, `SweepFinds`,
`Abandon` and `RefundSettles` are what the worker, which `Payments` models, does
to the order's row: a capture counts unless the order has succeeded, so that an
order that failed or was abandoned may be paid after all, and another order in
between; a failure counts whatever the order is; the sweep writes what it found
a step before.  `RevenueReport` nets refunds and their share of the commission of
the orders made in a window, `RevenueByCourse` does not.  Amounts are integers of
minor units; `Percent` rounds halves up as the code's `math.Round` does.

`crossed` is history: the second order was under way when the first took effect.
For a token, a checkout has found it and another commits an order with it.  For
a seat or a code, an order or a checkout has been shown the seat or the discount
and is not paid when another is: nothing is held for it, and the code lets it be
paid whatever happens first.  Each property allows a thing to be given too often
only to a set of orders of which two crossed in this way, and a code of a free
offer, which is redeemed as the order is made, to none.

Run `storefront`: one offer, of every type in turn, edited and archived; two
checkouts, two captures of each; a capped percent code and an expiring fixed
one, one token, two instants.  Five teams: the shelf, codes with captures, tokens with
edits and captures, seats with edits, captures and the sweep, refunds with the
reports.  Two checkouts are what it takes to give something twice with a cap or
one seat; a set of seats larger than one, and more offers, are left to the theorems.
Prices 3 and 5 with 10, 18 and 50 percent round both ways and let the fixed code
exceed the price.  Orders and learners are symmetric.

### 2.4 `RoomHub`

Rooms of one name; other names share only the hub's mutex.  `Add` is two steps,
as it takes the room under the hub's lock and enters it under the room's; so is
`remove`.  Channels are bounded by `Buffer`; a broadcast that finds one full
closes and drops it.  The list of users in a presence message is abstracted.  A
broken connection is seen by its reader or its writer, whichever touches it
first.  Run `rooms`: three clients, one of which sends two messages while another
may break, two messages per buffer: both can wait in one buffer, alone or with a
presence, and the second can overflow it while a third client joins.  More
talkers, messages or breaking clients are millions of states under the liveness
property; theorem `HubOrder` is for any number of them.  Fairness: goroutines
that can run do; peers need not send or leave.

### 2.5 `BoardCoordinator`

`OnMessage` and the first half of `flush` are atomic under the state's mutex;
the `UPDATE` after the unlock is a step of its own, in one of several `Slots`.
A load, a save, a restart, a restore and a deletion each record a mishap, and
the properties say exactly which mishaps excuse which loss.  A checkpoint's
read and insert are one action.  Run `board`: two elements, three ops, two
saves in flight, two faults anywhere.  Fairness: the timer fires, saves end.

### 2.6 `CourseLifecycle`

One action per handler decides on the course as `ResolveCourseOrg` read it and
notes what it will write (`Request`); `Update` takes the row lock, `Number` and
`Insert` are the two statements of `Snapshot`, `Invalidate` the cache call that
precedes the commit, `Commit` makes the row visible, `Fail` is any error, which
rolls back also when the handler ignores it, because Postgres does not commit a
failed transaction.  The status and the readiness of the videos are read in one
step.  `RestoreCourseVersion` stands for the editor's variant too; what it does
to the chapters is in `CourseContent`.  `Revoke` is the statement by which
`UnpublishCourse` clears the URL it finds, and so holds the asset's row until it
commits; `Invalidate` drops the catalog, or the cache does not answer
(`InvalidateFails`) and nobody notices.  `Load`/`Store` are the halves of
`GetOrLoad`, `ChooseTTL`/`SaveURL` those of `RefreshAssetURL`.  `unreached` is
history: the views, and the readers about to store one, that the last change of
the status did not reach, because they read before it or while it was under way
(`Changing`), its handler drops nothing, or the cache did not answer.
`ViewsFollowStatus` says that nobody else sees a course that is off the site or
keeps its one-hour URL: an unpublish that forgot to revoke, or dropped the
catalog before its `UPDATE`, would violate it.  Run `courses`: every handler,
three requests of which two at once, a visitor, an author, one fault.  Fairness:
Postgres serves waiters of a row in turn (SF on `Update`), transactions and
sweep go on (WF).  That entries and URLs expire is not assumed of any property.

### 2.7 `CourseContent` and `LearnerJourney`

A row is a name and the restore that made it.  Orders are ticks: `Unit` ticks
stand for 1.0 and equal ticks for two orders within `renormalizeThreshold`.
`Request(r)` is what a staff transaction read and wrote, `Commit(r)` the moment
its rows become visible, `Fail(r)` any error.  `held` are the rows whose lock it
got; for the others it waits (`MayCommit`), and a deletion waits for writers
below it too.  A reorder whose row is gone when its turn comes is answered 500
(`Stale`); the editor's move ignores that error and commits what it could write,
half a swap.  `tied` and `since` are history: the lists with equal orders when the
request began, and the rows that others placed and committed since.
`ListsInTurn` says that among the rows *not* in `since` a commit leaves what the
request would leave alone, so the work of others excuses nothing on the rows
they did not touch; a restore that kept the old chapters, or a reorder that did
not number its list anew, would violate it.

A learner's request is `Visit`: it reads (one action per handler), writes and
judges completion (`Write`), commits.  Rows carry the columns of their unique
key, so that two attempts of one number clash as the constraint makes them.
`CommitEdit` is a staff commit with the cascades to learners' rows.
`FailVisit` ends a request with an error, `LoseVisit` one that was answered with
success: its last statement, an analytics row whose error is ignored, aborted the
transaction.  `Short` are the quotients that float64 computes too small (none up
to 39 rows, so the run takes none; the theorems hold for any).  `unseen` is
history: learners whose completion no request could see, because two requests
completed the course together or a deletion did.  Run `journey`: two chapters
(one empty), two lessons, a quiz and an assignment, two staff requests and three
visits of a learner in four teams: all handlers of staff, all handlers of
learners, and the removal of content beside each way to work in it (the handlers
of staff that remove nothing take nothing from a learner, and meet each other in
the first team); three visits are what two racing requests
and one afterwards need.  Requests and visits are symmetric.  The rules in force
are one on lessons and one on quizzes.  `JourneyAssumption` takes thresholds above
0: the column has no such check, but no handler writes a rule, and a rule of 0
percent would be fulfilled by whoever enrols before any request could see it.

### 2.8 `Tenancy`

A request is `resolved` (organisation and role read by the middleware),
`started` (its statement judges row security and the quota on what is committed
by then), `wrote` (its rows are locked) and committed.  The single statements of
a platform owner and the passing of time are one step each.  `overtaken` marks
requests that a commit after their statement's start did not reach.  Deleting
the organisation takes every row.

### 2.9 The parts of an organisation

* `Metering`: `executeGated` and `generateGated` read period, limit and usage
  (`Pass`), the runner or the model answers (`Answer`), `CommitCall` writes row
  and counter.  After an error of the service the answer is 502 and the
  transaction keeps nothing (`GiveUp`).
* `ScormManifest`, `Scorm`: the parser picks version and launch file;
  `FirstLaunchHref` recurs along the items as the code does, by a function of
  `Outlines`: the lists of items of the manifests, with all lists below them and
  the rests of lists.  A commit reads the attempt,
  folds the elements it was sent and writes the row (`ApplyScormCommit`).
* `Simulations`: a record reads the threshold (`RecordSimulationProgress`), then
  upserts (`WriteProgress`); `ParseSpec` says which specs are accepted.
* `Podcasts`: adding an item and reporting progress look the episode up and then
  write; deletions cascade in one step.
* `Community`: `BeginPost` is what middleware and handler read, `CreatePost` the
  tasks it enqueues and the row it commits.  A task of the worker is at one
  recipient at a time: row, choice, mail.  An error or the worker's end anywhere
  starts the task again at the first recipient, or archives it.
* `Uploads`: library read, library provisioned, video created and committed;
  the service's reports reach the worker in any order, again, or never.
* `SignIn`: each Redis command is a step; the server may die between two.

Run `organization` puts them together over three users (two owners, one of whom
is a platform owner, and an outsider), in 25 teams.  Each team has the handlers
of one part; the staff's and administrator's requests it crosses are in the
team.  Two of each kind of request run at once (`Requests`, `Calls`, `Players`,
`Visits`, `Hands`, `Uploads`, `Attempts`); the two of every kind but `Attempts`
trade places together as the symmetry, since no team has two of those kinds.  Bounds: three
calls, three sends of a runtime, two attempts of a package, two interactions,
two publications, two tries of one task, two reports of the encoder, four
failures of an account with a threshold of two.

## 3. What the runs show

| Run | Shows |
|---|---|
| `payments_safety` | access of a learner follows the money of his orders (`AccessFollowsMoney`); an active access row points at an active entitlement of the same learner and course (`ActiveAccessIsBacked`) |
| `payments_lifecycle` | captures are granted in the end across crashes, refunds take the access away, fixed terms end, and `Payments` implements `Purchase` |
| `webhook_gate` | every event is settled (handled, archived, or, with a row and no task, alerted or cut by a death), and the gate implements `EventFeed` |
| `storefront` | tokens, seats and discounts of a capped code are given too often only to checkouts that were open, or orders that were unpaid, together; shares and the reports of adjacent windows add up |
| `rooms` | no panic through channels, two messages of one sender keep their order, broken clients leave |
| `board` | a change gets saved, only named mishaps lose anything, elements no op was about survive |
| `courses` | publish and version commit together, due courses are published, a stale catalog or a long URL is one the last change could not reach |
| `journey` | a staff request leaves its list as it would alone, learners' rows keep what they are about, numbers have no gaps, the certificate comes when earned and only then, overlaps excepted |
| `organization` | members are invited, owners remain, quotas and limits hold for requests that do not overlap, counters equal ledgers, SCORM attempts follow one another and fold, simulations complete, podcasts do not dangle, moderation holds, tasks reach everybody and respect choices, videos play, lockouts end |

`CHECK_DEADLOCK FALSE` is set where the system may come to rest: all events
processed, all clients gone, no requests left under the bound.

### Disagreements between the code and what it says

Three are runs that TLC ends with a counterexample.

* `late_failure`: a `payment.failed` of an earlier attempt, processed after the
  capture of a later one, moves a succeeded order to failed, against the comment
  in `models/order.go`.
* `analytics_row`: an ignored SQL error in the job's transaction aborts it, so a
  captured payment is never granted.
* `undocumented_edge`: the transition is checked against a status read without a
  lock and written unconditionally: an archived course returns to review.

Others met while modelling, which the models show as the code has them:

* `worker/payments.go:271-273` says an order that succeeded never gets a second
  payment, entitlement and receipt cycle, but the guard is the status: when a
  worker dies between commit and mark and a late failure (or the abandon sweep)
  takes the status back, the retry grants again.  Either alone does no harm, which
  `OrdersGoThrough` proves (`GrantedOnce`); the constants of
  `late_failure` with one crash end with the counterexample.
* Refunding an old, expired purchase turns off the access row that a newer
  purchase of the same course uses; `AccessFollowsMoney` speaks of each order's
  own money for this reason.
* `handlers/courses.go:330-333` says a long-lived URL must not remain trustable
  after an unpublish.  `RevokeSignedURLsForCourse` clears what is stored when its
  statement runs: a `RefreshAssetURL` that read the published status before the
  commit stores a one-hour URL after it.  The editor's unpublish and edges,
  archiving and the administrator's takedown revoke nothing and, like the
  publication sweep, drop no catalog.  A URL that was handed out stays valid at
  the storage service in any case.  `ViewsFollowStatus` allows exactly these.
* Without the event-id header the dedup key depends on the iteration order of a
  Go map, while the comment calls it stable across retries; the gate's theorems
  assume the header (`HeaderSent`).
* `models/course_version.go` says a restore replaces the live content.  Two at
  once leave both sets of chapters, as the second `DELETE` does not see what the
  first inserted, and the second version records both: `ListsInTurn` allows the
  chapters of the other restore and no others.
* The editor's move of a chapter ignores the error of each of its two updates:
  when one chapter is deleted meanwhile the other takes its order, and the
  answer is the same redirect.
* An enrolment, a completed lesson or a certificate is answered 200 or 201 and
  lost when the analytics row that follows it is refused (`LoseVisit`); the file
  and the mail of the certificate are out by then.
* Two clients of one room name can end up in two rooms, when the last member
  leaves between the two halves of `Add`.
* `handlers/auth.go:140-144` says each failed attempt doubles the lockout.  For
  attempts one after the other it never does: the lock's end deletes the count
  (`LockoutsEnd` says so).  `ratelimit.go` calls its fixed window sliding, and a
  death between its two commands leaves a key for ever.
* A run of code or a generation that the service refuses is logged with usage,
  but the answer 502 rolls the row back.
* `handlers/admin_quota.go:91-94` promises no organisation beyond its plan; the
  quota counts rows before it inserts, and invitations are counted as members
  only when accepted.
* A commit of SCORM that read before another overwrites what that one wrote, and
  one without a status stores an empty one.  `models/scorm_attempt.go:46-49,152-157`
  and `handlers/scorm.go:496-498` say that concurrent commits cannot count time
  twice through a stale read.  That holds of one reading sent twice
  (`CommitsFold`), but the map the handler merges is read before: with 5 s
  stored, a commit of a page number alone that read before another tab stored 9 s
  writes the 5 s back, and the `UPDATE` takes them for a new session and adds
  them again; so it does with an older reading that arrives late.
* Row security lets only owners write the organisation, so the first video a
  teacher uploads fails; two first uploads leave one in a library nothing refers
  to any more.
* A token is used when the order is created and not released when the payment
  fails; seats count succeeded orders only, and none is held between the count and the
  capture, so a cohort can take money for more seats than it has; a free offer
  needs a currency; the owner's dashboard keeps refunds in what the report takes
  out.
* `models/discount_code.go:134-141` says `IncrementRedemption` closes the race of two
  redemptions against the cap.  It does for the counter and for free orders; for paid ones the
  redemption comes after the capture and the worker logs a refusal and goes on
  (`worker/payments.go:345-357`), so the discount is given above the cap
  (`CodesInTurn` says to whom).
* `handlers/commerce_reports.go:148-150` and `models/order.go:14-18` say that
  chargebacks reduce net revenue.  The reports read refunds only, and so does
  the model.

## 4. What is proved

For every value of the constants that satisfies the named assumptions
(`PaymentsAssumption`, `GateAssumption`, `HubAssumption`, …: shapes of the
constant functions, values that stand for "none" are not among the real ones,
users and tasks are finitely many, a task is attempted once at least, an
outline has at most `MaxItems` items, the
seeds have one row per plan and one default plan, a call costs something; and for
the gate that keys of different events differ).  One of them is a bound the code
does not enforce: `RatesAssumption` takes prices and taxes not below 0, and a
commission of 0 to 100 per cent.

* **`PaymentsProofs`.** `IInv` is `TypeOK /\ OwnRows` (`TypesHold`,
  `JobsOwnTheirRows`): besides the shapes, what a job remembers still belongs to
  its event.  Without `OwnRows` a commit could write to a row of another order.
  `RowsKept` says that rows are only appended or change status,
  `EntitlementSteps` classifies every step by what it does to entitlements
  (append one for a captured or free order or a staff grant; revoke the one the
  event's order owns; expire one).  From these follow `GrantsArePaid`,
  `RevocationsAreFounded`, `MoneyRules`, `EndsAreFinal` and `AccessIsBacked`.
  `JobsUseFeed` maps each step to one of `EventFeed` or a stutter, from the
  exclusion of two jobs on one event.  `OrdersGoThrough` maps each step to one of
  `Purchase` or a stutter, its safety part, from `PurchaseInv`: an order has one
  entitlement at most, a handler about to write one finds none, and a capture
  whose order has one *shows* (`Granted`), by the order's status or by the job or
  mark of its event.  Its hypothesis `NothingUndone` says that one of the two lasts
  (no second attempt and no sweep, or no worker that dies); without it an order can be
  granted twice.  `QuietKeeps` lists what a step must not do, and all but
  three actions are shown not to.
* **`WebhookGateProofs`.** `GateTypes`; with one key per event `OneTask`, from
  which `GateImplementsFeed`: initial states and every step map to `EventFeed`.
* **`RealtimeProofs`, the hub.** `HubTypes`, `HubChannels` and `HubRoomsGo`, for
  any number of clients, from an invariant that ties a client's place in its life
  to its membership, its goroutines and its channel.  `HubOrder` adds that what a
  client received, followed by what its channel holds, is an increasing selection
  of each sender's messages, all below the sender's next number.
* **`RealtimeProofs`, boards.** `BoardTypes`, `BoardScheduled`, `BoardSaved`,
  `BoardUntouched`: the invariant adds that nothing is dirty or in flight before
  a load, that without mishaps one save is in flight at most and carries the
  memory, and that memory, row and saves agree on elements nobody edited.
* **`CourseProofs`.** `CourseTypes`, `Numbered`, `Snapshots`, `Deleted`: the
  invariant adds that exactly the transactions past their `UPDATE` hold the row,
  that a deleted course's row is held by nobody, and what each handler may have
  planned.  `ViewsFollow` adds `Views`: whoever holds a status that is no longer
  the course's is marked, and behind a transaction that has dropped the catalog,
  or revoked the URL, there is only what was stored since and is marked.
* **`LearningProofs`, content.** `ContentTypes`: rows form a tree of three levels,
  and what open requests will insert hangs below rows that stay or come with it,
  shares no id with another request, and is nowhere yet (`ContentInv`); so a
  cascade of three levels takes everything below (`LostCloses`).
  `ListsInEveryTurn` needs `LeavesInTurn`: for the rows nobody else placed since
  a request began, what it is about to leave is in order already, because the
  orders it read are still theirs.
* **`LearningProofs`, learners.** `LearnersInv` has three parts.  `JourneyInv`:
  keys are unique, a request's rows are its learner's, one for each table, below
  content that is *settled* (there, or gone for good) and, once written, there.
  `NumbersInv`: what an open request will write has a number of at most the
  count plus one, so the unique key leaves only the next; a deletion takes all
  numbers of a block or none.  `CertificatesInv`: an open request that judged
  completion and was not overtaken wrote the certificate exactly if the rules
  hold of the committed rows with its own.  Other learners' rows do not matter to
  a learner's completion (`RowsAside`), and new content takes completion away but
  never gives it (`GrowthSurvives`).  From these follow `RowsAreHoused`,
  `NumbersWithoutGap`, `CertificatesFollowRules` and `CertificatesAreEarned`, for
  any rules, content and number of requests.  Counts are compared by injections
  (`OnePlaceEach`), never by induction.
* **`StorefrontProofs`.** `TokensAdmit`: the invariant says that whoever priced a
  checkout with a token and found it unused since then is in `crossed` with every
  order that holds it.
  `SeatsInTurn`: the orders sold when a checkout was shown its seat, less those that
  crossed it since, stay below the seats (`SeatsShown`), from the count to the first
  capture, through failures and the sweep; so a set of orders no two of which crossed
  has a last one that saw the others, sold or not by now.  `CodesGivenInTurn`: the same
  of a code's cap (`CodesFound`), because a code that has room has been redeemed
  as often as it was given (`CodesCounted`).  `SharesAdd`: an order owes what its price
  says, a commission within it and a refund within the total (`MoneyInv`); sums of
  rows keep these bounds and those over two windows that meet are parts of one,
  and a code is redeemed only below its cap.
* **`OrganizationProofs`.** A component's specification lets the variables of
  the other components change as they like while its own stay, so each theorem
  holds whatever runs beside it.  `Lockouts`: an account whose attempts never
  overlapped has one attempt in progress at most and a count of at most the
  threshold (`Calm`); a key that does not expire has a request about to make it.
  `PodcastsNeverDangle`: a two-step request whose episode was deleted is marked
  and cannot write; publication times grow.  `UploadsPlay`: only one open upload
  may have provisioned a library, and one that ran alone has the organisation's.
  `MembersAreInvited`: requests hold disjoint rows, and what they found pending
  is pending when they commit.  `OwnersRemain`: a request that commits without
  being overtaken was sent by somebody who is an owner at that moment.
  `ModeratorsAreObeyed`: a post is written once, and a draft whose thread is
  locked is overtaken.  `ChoicesAreKept`: a task is at a recipient only while it
  runs, and a mail about to be sent was allowed or overtaken.
  `QuotasHold`: the room a statement found is still there while nobody else
  commits (`RoomStands`), and a plan is one row, of which one is the default.
  `TasksReachAll`: the rows and mails somebody has of a task are counted against
  its attempts, and the attempt under way owes at most the mail of the recipient
  it is at (`DeliveryInv`).  `CountersFollowRows` and `LimitsAreHeld`: a call has
  a number and a row of its own, and one that nothing overtook still finds its
  counter below the limit (`MeterInv`).  `ThresholdsComplete`: a record under way
  holds the threshold of the simulation there is, unless that was edited or
  deleted meanwhile.  `LaunchesAreSound` and `CommitsAreFolded`: the row of a
  package is what the parser returned of a manifest, the session of an attempt is
  the one its elements report, and a request that nothing overtook has read the
  elements its attempt still has (`ScormInv`).  What the
  recursive parser finds is shown along the outline (`SearchFinds`): a function
  that solves a recursion along lists of items exists (`RecursionsExist`), so
  the search and the outline unfold, and a least outline that fails has parts
  that do not.
* **`RowLemmas`.** Tables as sequences of rows, and `Total`, the sum over a finite
  set: that a fold exists, unfolds in any order, is monotone, and that a product
  has the factor it is written with.  The library's induction theorems cannot be
  used, so each is proved by a least counterexample.

Model-checked only: everything with fairness (`CapturedIsGranted`,
`RefundTakesAccess`, `LapsedEnds`, `EmittedIsSettled`, `BrokenIsRemoved`,
`ChangesAreFlushed`, `DuePublished`, the liveness of `Purchase`
and with it `ImplementsPurchase`), which is beyond the proof system.  The runs
check nothing else that no theorem states.

## 5. Bounds

`MaxGrants`, `MaxCrashes`, `MaxRetries`, `MaxRepeats`, `MaxFaults`, `MaxOps`,
`MaxSends`, `MaxRequests`, `MaxCalls`, `MaxAttempts`, `MaxInteractions`,
`MaxReports`, `MaxFailures`, `MaxOrder`, `Tries`, `LastPeriod`, `LastTick`,
`LastTime` and `Buffer` are guards of the actions they limit, named where they
are declared; sets of orders, events, clients, elements, requests and the like
are constants, and `MaxItems` bounds the outlines of manifests.  The theorems hold for every value of them.  In the runs two
actors of each kind meet on one row, with one or two failures: every hazard
listed in `PROJECT.json` needs at most that, and three requests where one has to
come after a race.

No fairness is assumed in `Storefront`, `LearnerJourney` and the parts of an
organisation: requests of users may stop anywhere, and nothing there is promised
to happen in the end except by requests of users.

## 6. Not modelled

* Formatting, validation of request bodies that changes nothing, audit rows,
  metrics.  Authorization is modelled where a role can change between its check
  and the write (`Tenancy` and what extends it, `LearnerJourney`).
* Row security beyond the policies that decide an outcome of `Tenancy` and its
  parts.  Server and worker share one database URL; the example configuration
  uses a role that bypasses the policies, and the models take the stricter case.
* The content of versions, boards, lessons and posts beyond identity.
* A `pending` order: on the paid path it is created and moved on in one
  transaction, and the path that would leave it answers 502, which rolls back.
* Sign-up, password reset and account deletion, which the identity service does;
  `UpdateOrg`, branding and domains, which write columns nothing else reads.
  Tax rates are not validated by the code, so the storefront takes none below 0.
* Prerequisites of a course and the defaults of its completion rules (constants
  here); `DuplicateCourse`; board templates beyond their seeds.
* Membership does not change while a broadcast runs in the instance checked.
* Alerts, receipts, learner mails and the analytics rollup: an inserted row, a
  mail, or one upsert of whole days that may be repeated.
* The payment client, the e-mail client and the sanitiser: external or pure.
* Search, tags, categories, collections, announcements, the public site,
  administration pages, flags, health, logging: reads, rendering and writes of one
  row that nothing else depends on.
* The command line, configuration and wiring, and the migrations except for the
  constraints, cascades and policies used above.

What would add most from here: the order in which a board's relayed ops are
applied against the order in which they are relayed (`RoomHub` composed with
`BoardCoordinator`), and the list of users in presence messages.
