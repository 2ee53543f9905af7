# Ticket-Queue-Platform: TLA+ models

The platform sells concert tickets.  Users of a concert wait in a queue; one
after another they are let in, may take seats of a zone, and pay within five
minutes.  The server is one Node process over PostgreSQL (Prisma), Redis and
BullMQ; everything of interest happens between two `await`s of two handlers
that run at once.

This project models the server's **waiting queue**, **seat reservations**,
administration, support posts and tokens at the granularity of one database call,
Redis command or Lua script per step, and the pages of the React client that
talk to them at the granularity of one callback: a press, an answer, an event of
the socket.

| File | What it is |
| --- | --- |
| `WaitingQueue.tla` | the queue of one concert: socket and HTTP handlers, admission, disconnect jobs |
| `QueuePage.tla` | extends it by the queue page of one user, its socket and the events on their way |
| `SeatReservation.tla` | reservations, payment webhook and expiry worker over stock, lock, database and jobs |
| `SeatLedger.tla` | abstract specification: what `SeatReservation` promises |
| `SupportPosts.tla` | support posts, from both pages to both tables |
| `Sessions.tla` | access and refresh tokens: the service, the interceptors of each tab, login and logout |
| `ConcertZones.tla` | administration of concerts and zones over database and stock |
| `AdminPage.tla` | the administrator's page of concerts |
| `CheckoutPage.tla` | the pages on which a user pays and cancels |
| `Services.tla` | composes the five modules that share no state: posts, tokens, concerts, both pages |
| `MCWaitingQueue`, `MCQueuePage`, `MCSeatReservation`, `MCServices` | their instances for TLC, with the `.cfg` files |
| `WaitingQueueProofs` (also of `QueuePage`), `SeatReservationProofs` (also of `SeatLedger`), `SupportPostsProofs`, `SessionsProofs`, `ConcertZonesProofs`, `AdminPageProofs`, `CheckoutPageProofs`, `ServicesProofs` | theorems, checked by TLAPS |
| `PROJECT.json` | components, runs, mutants, map to the source, findings, hazards, theorems |

Run one with `tlc -workers 2 -config MCSeatLifecycle.cfg MCSeatReservation.tla`,
check the proofs with `tlapm SeatReservationProofs.tla`.

## 1. Inventory

| Component | Module | State | Operations | Hard behaviour | What makes it correct |
| --- | --- | --- | --- | --- | --- |
| Waiting queue (`queue.service.ts`, `queue.repository.ts`, `queue.controller.ts`) | WaitingQueue | Redis: ZSET `waiting`, keys `admitted` (300 s) and `reconnect` (30 s) | enter, leave, disconnect, reconnect, expireDisconnect, admitNextUser | check-then-act across awaits, two callers of admitNextUser, keys that expire | bounded and ordered admission, a place is kept, nobody is in both lists, everybody is let in |
| Queue sockets (`queue.socket.ts`) | WaitingQueue, QueuePage | `socket.data.concertId`, rooms | connect, disconnect, `queue:enter/leave/reconnect`, broadcasts | a socket closes while its handler waits; events overtake answers | a disconnect is acted upon once, a reconnect undoes it |
| Queue workers (`queue.worker.ts`) | WaitingQueue | BullMQ: repeatable admission job, delayed disconnect jobs | cron every 5 s, delayed job after 30 s | the job outlives what it was for | abandoned users leave the queue |
| Client queue hook (`useQueue.ts`, `QueuePage.tsx`) | QueuePage | phase, socket, `enteringRef`, session key | load, enter, leave, reconnect, the events of the socket | reload, a status of two reads, events on the way | the page shows what the queue says |
| Reservations and webhook (`reservation.service.ts`, `reservation.repository.ts`) | SeatReservation | DB: reservations, payments, `remainQuantity`; Redis: `stock`, `lock` | create, cancel, extend, webhook | four stores updated one after the other, compensation on failure, repeated webhooks | no overselling, seats given back exactly once, books agree |
| Reservation expiry (`reservation.worker.ts`) | SeatReservation | BullMQ: delayed job per reservation | add, remove, run | races with webhook, cancellation and extension; `job.remove()` throws on an active job | a PENDING reservation ends |
| Reservation pages (`ReservationPage.tsx`, `ReservationsPage.tsx`) | CheckoutPage | the timer, the current reservation, the list, one dialog | pay, extend, cancel, list | Toss's window is open while the timer ends, the page is left or loaded anew | charged once, and for what was reserved |
| Concert administration (`concert.service.ts`, `concert*.repository.ts`) and status cron | ConcertZones | DB: concerts, zones; Redis: `stock` | create, update, delete concert and zone; SCHEDULED to ON_SALE | a quantity changes while seats are sold; two stores | stock follows the total |
| Administrator's page (`AdminPage.tsx`) | AdminPage | rows, selection, zone panel, three dialogs with loading flags | select, save, add a zone, delete | answers for what is no longer selected or open | one call per press, the panel shows the selection |
| Authentication (`auth.service.ts`, `refreshToken.repository.ts`) | Sessions | DB: users, refresh tokens (hashed, one row per login) | register, login, refresh (rotation), logout | two refreshes with one token, a failure between delete and store | a used token is used once |
| Client token refresh (`client.ts`), login, logout (`LoginPage.tsx`, `Navbar.tsx`) | Sessions | localStorage, `isRefreshing`, `waitQueue` of each tab | interceptors, the form, logout | single flight, failure while others wait, several tabs | no call waits for nothing, a tab never competes with itself |
| Support posts (`post.service.ts`, `SupportPage.tsx`, `AdminSupportPage.tsx`) | SupportPosts | DB: posts, replies; lists, forms and dialogs | write, list, delete, answer, edit the answer | deletion racing the reply, dialogs closed while loading | post and reply agree, an answered post stays |
| Routes, DTOs, middlewares; concert list and detail pages; layout; schema, seeds, scripts | | none shared | | | |

How they interact: the admission cron and the reservation expiry worker both
call `admitNextUser`; `createReservation` checks the admitted key at its start
and deletes it at its end; the disconnect handler of a socket leaves a reconnect
key and a delayed job behind, which the reconnect handler and the disconnect
worker read; create, extend, cancel and webhook add and remove the job which the
expiry worker runs; administration changes the zone and the stock the
reservations take from.  The queue page drives the queue's socket handlers and is
driven by their events; the tabs of a user share the tokens in localStorage.
Posts, tokens, the administration and the payment pages share nothing with each
other but the database server.

The hazards this gives rise to are listed, each at its line, in
`PROJECT.json` under `hazards`, with the properties that cover them.

## 2. WaitingQueue

One concert is modelled: the keys of different concerts are disjoint.

| Variable | In the code |
| --- | --- |
| `score[u]` | the member's score in `waiting:<concert>`, 0 when it is no member; equal scores are ordered by user id, as Redis does |
| `admitted` | users with the key `admitted:<concert>:<user>` |
| `grace` | users with the key `reconnect:<concert>:<user>` |
| `jobs[u]` | outstanding disconnect jobs, counted as held or due |
| `sock[u]` | the user's socket: `none`, `open`, `joined` (`socket.data.concertId` set by an enter), `restored` (set by a reconnect) |
| `req[r]` | a handler in progress: the Redis command it is about to send, for whom, and whether its socket is still open |
| `adm[a]` | a run of `admitNextUser`: the cron's or the expiry worker's |
| `dropper` | the user whose removal the disconnect worker has decided on |
| `concert` | `SCHEDULED`, `ON_SALE` or `DELETED` |
| `now` | `Date.now()` as a logical clock |
| `by`, `overlap`, `since`, `raced`, `faults` | history, read by properties and bounds only |

Actions: `Enter*`, `Leave*`, `Reconnect*` and `Disconnect*` are the awaits of
the four handlers in order; `Drop*` those of the disconnect worker;
`AdmitList` the worker's list of ON_SALE concerts, `AdmitScanBegin`/`AdmitScanEnd` the
SCAN of `countAdmitted`, `AdmitTop`, `AdmitRemove`, `AdmitSetKey` the rest of
`admitNextUser`.  `AdmittedKeyGone` is both the TTL of the admitted key and its
deletion by `createReservation`; the code does not bound how soon after the
admission that comes.  `OpenSale` and `DeleteConcert` are the status cron and
the administrator.

Abstractions of time.  SCAN guarantees to return a key that exists during the
whole iteration and may or may not return others: `AdmitScanEnd` may count
somebody who came or went, and must count the users of `seen`.  A reconnect key
lives 30 s and a job is delayed by 30 s, so a job added behind a key is not
due before that key is gone: such a job is *held* while the key exists and
*due* afterwards, and which of two due things comes first is left open.

Faults: `RequestFails` and `AdmitFails` are a rejected Redis call, and at the end of
the disconnect handler a job that is not added, which is only logged
(`queue.worker.ts:82`); `Crash` is the end and restart of the process: handlers and
sockets are gone, Redis and the jobs stay, a job that was running runs again.  A
command whose answer is lost is sent again (`redis.ts:7`: `maxRetriesPerRequest` is
null), so a call is rejected only by Redis itself, without effect.

## 3. SeatReservation

| Variable | In the code |
| --- | --- |
| `stock[z]`, `lock[<<z,u>>]` | Redis `zone:<z>:stock`, `zone:<z>:lock:<u>` |
| `ending` | locks with at most `EXTEND_THRESHOLD` seconds to live |
| `status`, `extended`, `payment`, `remain` | reservation, its `extendedAt`, its payment, the zone's `remainQuantity` |
| `job[r]` | `none`, `held`, `delayed`, `active`, `ended` |
| `admitted` | the admitted keys, set and expiring freely; see WaitingQueue |
| `hnd[h]` | a handler and its next call; `Expirer` is the worker |
| `taken[r]` | history: how many times r's seats are out of the stock |
| `disturbed` | history: reservations whose handlers overlapped past the check, or one of whose handlers failed half way |

Each of `createReservation` (9 calls, with the rollback of a refused attempt and
the catch block), `cancelReservation`, `extendReservation`, `handleWebhook` and
the job of the expiry worker is a chain of actions, one per call, in the order of
the code.  `PREEMPT_SCRIPT` and `RELEASE_SCRIPT` are one step each.
`HandlerFails` ends a handler at any call, `CreateCatch` is the same inside the
try block of `createReservation`, `Crash` ends all of them.

Lock and job run 300 s from different instants.  A job added while the lock
exists is *held* until the lock is gone or renewed, and may run at any time
afterwards (`delayed`).  `LockAges` passes the 240 s after which an extension is
allowed, `LockExpires` the rest.

The code has no protection against two handlers of one reservation that both
read PENDING before either writes; section 7 shows what comes of it.  The
invariants about a single reservation therefore hold of those not in
`disturbed`, and those about the seats of a zone of the zones none of whose
reservations is (`Undisturbed`).  This is not an escape for what a sequential test would find: a
reservation is disturbed only if one handler passes its check while another is
between its check and its end, or if a call fails or the process dies there.  The
race of a webhook and a cancellation that is *refused* by the check, the job that
becomes active under a running handler, the late webhook, the second
webhook after the first, and the overlap of handlers of *different* reservations
of the same user and zone are all covered.  `StockNeverNegative` holds of
everything.

### The abstract ledger

`SeatLedger` is a ledger of seats: a reservation is asked for, its seats are taken
once and given back once, a reservation that holds its seats may be confirmed,
and one that is settled does not change.  `SeatReservation` implements it under

    Ledger == INSTANCE SeatLedger WITH free <- stock, held <- taken, contested <- disturbed

(`LedgerKept`).  Handlers, locks, jobs, payments and `remainQuantity` map to
nothing: a step of theirs that moves no seats and no status is a stutter.  For
contested reservations the ledger only says that what goes out of a zone's
stock is what a reservation takes.

## 4. The other modules

**QueuePage** extends `WaitingQueue`: the page is user `Me`'s, and the client
steps of the queue are those the page causes.  `Mount` loads the page (`Reload`
runs `handleBeforeUnload` first, `Navigate` does not), `Init*` are the
effect that asks for the concert and the two reads of `getQueueStatus`, `SocketConnect`
is the connect callback, which emits what `enteringRef` and the session key say,
`Receive` the handlers of the events of the server in the order they were
sent.  `Handle`, `Admission` and `Drop` pair a step of the queue with what it emits.
`SocketLost` is a lost connection, which Socket.IO reconnects by itself.  The faults of the
queue are faults here: `HandleFails` emits the error that the catch block of the handler
sends, `BroadcastFails` is the same of a broadcast, `AdmissionFails` tells nobody, also
when it has already removed the user from the queue, and `ServerCrash` takes the
sockets and the events with it.

**SupportPosts**: a request is one HTTP call, its `pc` the next database call of
its handler or the answer on its way to the page; answers arrive in any order.
Every handler has a failing variant (`HandlerFails`), and a call that was done may lose its
answer (`AnswerLost`), which the page takes for a failure.  `createReply`'s transaction is one step,
its unique `postId` makes the second of two answers fail, and deleting a post
deletes its reply (the cascade).

**Sessions**: a pair of tokens is its number.  Per tab there are an optional
refresh, the form and the logout; per call whether it was sent, refused, leads
a refresh or waits for one in `waitQueue`.  localStorage is `store`, which all tabs read
and write; a login or a logout of one tab leaves the others where they are.
`refresh` deletes the row before it inserts the new one; the second of two deletions
of one row fails.

**ConcertZones**: creating, changing and deleting concerts and zones; a change of
a zone reads the total, writes `totalQuantity` and `remainQuantity`, and moves
the stock by the difference.  `Sell` is the environment: a seat leaves stock and
`remainQuantity`.  Zones whose changes overlap or stop half way are in `clash`.

**AdminPage**: the dialogs stay mounted, so their flags outlive them; a
successful deletion never resets `deleting`.  Each answer carries what was
selected when it was asked for.  The server succeeds or fails by choice, and the page
is told of a failure also when a save or deletion was done and its answer is lost.

**CheckoutPage**: `handlePay` creates a reservation or uses the one the page has,
opens Toss's window and awaits it; the window charges or fails.  Leaving a page
lets its promises run on (`left`), loading the browser anew ends them but not
what the server and Toss do (`gone`).  Extending and cancelling read the reservation in
one step and write it in another, so an extension may write PENDING over whatever happened
in between (`reservation.service.ts:116`, 137), which the history `revived` records; each may
fail before or after writing.  The expiry worker and the webhook are one step here
(`Settle`): their overlaps, which `SeatReservation` has, only change which of the final
statuses is in the row.

**Services** composes the last five.  They share no variable, so a behaviour of the
composition that mixes them would show nothing that one of them does not, and the product
of their states would be out of reach; `scene` chooses the one that runs.
`MCServices` is its instance for TLC.

## 5. Runs

| Run | Instance | Shows |
| --- | --- | --- |
| `queue_admission` | 3 users, 1 handler, 2 callers of admitNextUser, 1 fault | `AdmittedBounded`, `AdmissionOrder` |
| `queue_entering` | 2 users, 2 handlers, 2 callers of admitNextUser, 1 fault | `OneListUnlessOverlap`, `PlaceKept`, types |
| `queue_sessions` | 1 user with a socket, 2 handlers, 2 outstanding jobs, 1 fault | `GraceKeyHasJob`, `PlaceKept` |
| `queue_liveness` | 2 users, one with a socket, 1 handler, the cron, no faults, concert may be deleted | `EventuallyAdmitted`, `AbandonedLeavesQueue` |
| `queue_page` | the page of 1 user, 2 handlers, 1 load, loss or fault, 1 outstanding job | `PageTellsTruth`: a page that entered shows the queue only while the queue has its user; `AdmissionStaysShown`: no late event takes an admission back |
| `queue_page_retry` | 1 user, 1 handler, no loss | violation of `EnteringIsAsked` |
| `queue_one_at_a_time` | 2 users, 2 callers | violation of `OneAdmittedAtATime` |
| `queue_reconnect` | 1 user with a socket | violation of `ReconnectedStays` |
| `seat_lifecycle` | 1 reservation, 2 handlers and the worker, 1 fault | the accounts, timer, lock and final status of a reservation; it is settled in the end |
| `seat_contention` | 2 reservations of 2 seats in a zone of 3, same user, 1 handler and the worker, 1 fault | no overselling, stock agrees with the database, every step is one of the ledger (`LedgerKept`) |
| `seat_webhook_race` | 1 reservation, a handler and the worker | violation of `ConfirmedKeepsSeats` |
| `services` | one of: 1 post; 2 tabs with 3 calls; 1 zone; 2 concerts; 1 reservation; 2 requests each | posts: `AnswerAndStatusAgree`, `AnsweredDeletedOnlyInRace`, `DeletingIsOneCall`, `RepliesListed`, `DeletingEnds`; tokens: `ExchangedOnce`, `TabNeverRacesItself`, `WaitersAreBehindRefresh`; zones: `SoldSeatsStayOut`, `RemainCoversStock`; administrator's page: `SavingIsOneCall`, `PanelShowsSelected`, `OneDeletionAtATime`; payment: `ChargedOnce`, `ChargedAsReserved`, `CancelledNotOffered` |

Every property of a passing run has a mutant in `PROJECT.json`: a change of one
action, as a plausible bug would make it (a dropped check, a forgotten release, a
swapped order), under which the run finds the property violated.  The mutated
operators stand before the definitions they replace.

### Bounds

* `MaxTime = 3`: the scores of two users can be equal, ordered either way, and a
  user can leave and enter again with a later one.
* `MaxJobs`: outstanding disconnect jobs of a user.  Two let a job of an
  earlier disconnect meet the key of a later one.
* `MaxFaults = 1`: one crash or failing call anywhere.  The liveness properties
  of the queue are checked without faults, since a failure between ZREM and SET
  loses a user for good.
* `MaxReturns = 0`: once the seats of a reservation have been given back more
  often than taken, no further handler passes its check.  Without the bound two
  overlapping handlers and an extension that writes PENDING again return seats
  without end; such a reservation is in `disturbed` already.
* One zone of three seats and two reservations of two: exactly one fits, so a
  refusal, a lock that refuses and a stock that does are all reached.  The
  second reservation is the same user's, the only case in which the lock
  matters.  Two handlers with two reservations exceed what TLC does in minutes;
  what that run checks is proved for any number of either (section 6).
* `services`: two calls at once are the smallest number with a race, and every
  race the properties are about is between two; the second call of a tab and the call
  of another need three.  `MaxTokens = 2` lets a token be exchanged, and its
  successor be stored by another tab meanwhile.  Totals of 1 and 2 let a zone grow
  and shrink below what is sold.  One post, zone or reservation: no handler
  touches a second one; `AdminPage` has two concerts because its selection can move.
* `queue_page`: `MaxBreaks = 1` is one load, loss or fault (a failing handler,
  broadcast or admission, or a crash) at any place of a million states.  A loss
  gives two sockets with the job of the first outstanding; a fault is anywhere on
  the way from the button to the admission.  Behaviours with more of them are covered
  by the theorems, which hold for any `MaxBreaks` and `MaxFaults`.  `MaxEvents = 1`
  only bounds the broadcasts, which may be sent at any time; the other events are
  never held back.
* Symmetry is used for the interchangeable handlers in runs without liveness;
  users are numbers, ordered by Redis, and so not symmetric.
* Three users with two callers of `admitNextUser`: with two users nothing could
  exceed the bound of one user for each caller.
* `queue_entering`, `queue_liveness`, the page and the services do not check
  deadlock: with every user out and the clock at its bound, the concert or the
  post deleted, the tokens used up, the system may stop.

### Fairness

`WaitingQueue`: each handler and each running `admitNextUser` goes on (Node runs
its callbacks), the cron lists and begins (BullMQ repeats it every 5 s), due jobs
run, keys expire, the clock advances.  The expiry worker's *calls* of
`admitNextUser`, the administrator and the users are not fair.
`SeatReservation`: handlers go on, the worker takes due jobs and finishes them,
locks age and expire.  `SupportPosts`: the call of a deletion goes on, by success or
failure, and its answer arrives; there is one at a time (`DeletingIsOneCall`).
Users, administrators and the payment provider owe nothing.  Only weak fairness is
used: none of these steps is disabled by others for ever.

## 6. Proofs

Every safety invariant and every action property that a run checks is proved as well, for
every value of the constants that satisfies the module's assumption (`QueueConstants`,
`PageConstants`, `SeatConstants`, `PostConstants`, `SessionConstants`, `ZoneConstants`; for
`CheckoutPage`, `NoReservation` is not a reservation; `AdminPage` needs none): any number of
users, handlers, zones, seats, reservations, tabs, tokens, posts, jobs, loads of a page and
faults, behind the queue page as well as without it (where a model has a bound on faults, it
is a parameter).  The theorems need no fairness.  Each module has its type correctness, and then:

**Queue** (`WaitingQueueProofs`)

* `AdmittedBoundedCorrect`.  `AdmittedBounded` is not inductive: nothing in it
  says why a second key of the same caller cannot appear.  The strengthening
  `KeyInv` attributes every key to the caller that set it (`by`), says no two
  keys have the same caller, and says that a caller on its way past the count
  has no key of its own left: the key it set existed before its SCAN
  began, and SCAN returns such a key.  `by` is then an injection of the admitted
  users into the callers.
* `AdmissionOrderCorrect`.  The strengthening `OrderInv` adds that no score is
  later than the clock, so that whoever enters after the head was read comes
  behind it.
* `OneListCorrect`.  `OneListInv` adds the users a handler is about to add: a user
  who is in may not be one of them, unless the overlap is recorded.
* `PlaceKeptCorrect`.  `RaceInv`: a handler past its check whose user waits all
  the same was overtaken.  Only ZADD gives a waiting user another score.
* `GraceKeyHasJobCorrect`: inductive with the types; every step but the
  setting of the key and the addition of its job leaves both or removes the key.

**Queue page** (`WaitingQueueProofs`)

* `PageIsClient`: whatever the page, its socket and its events do to the queue is a step
  of `WaitingQueue`, so the theorems above hold with the page in front of it.
* `PageTellsTruthCorrect`.  The property speaks of the moment when nothing is on its way
  (`Settled`); its strengthening has to account for everything that is.
  `Link` is about the requests: a socket that asks to enter asks nothing else, and the page
  does not show the queue before that request has ended; a leave or a reconnect of
  the same socket therefore never meets its own enter.  `Told` is about the events:
  as soon as the user of a socket that entered is out of the queue, receiving what is on its
  way takes the page out of the queue, either because the admission comes behind
  every position, or because the page does not show the queue and no
  position comes.  Whoever is taken out of the queue otherwise is in `dropped`: by a
  disconnect job, by the leave of an earlier socket, or by an admission that fails or dies
  between ZREM and SET (`AdmissionFailsEffect`, `CrashEffect`).  A handler that fails ends
  the request, and what it leaves in the queue is what it had done (`HandleFailsEffect`).
  The lemmas on `down` (`DownEmit`, `DownTail`, `Coming`) say what
  sending and receiving do to this.
* `AdmissionStaysShownCorrect`, from `OutForGood` and `Last`: from the admission on
  nothing puts the user back, because while the key exists a request to enter is refused and
  the key outlives what was under way when it was set; so no position is sent behind the
  admission.

Both page invariants were checked with TLC first: on `queue_page` completely, and without faults with two
callers of `admitNextUser` and with two loads as far as some ten million states.

**Reservations** (`SeatReservationProofs`)

* `StockNeverNegativeCorrect`: inductive with the types; only one step takes from
  the stock and it compares first.
* `SeatsAccountedCorrect` and `PendingHasTimerCorrect`, both from `AccountInv`.
  Neither property is inductive: they say nothing while a handler is at work.
  `AccountInv` says, of an undisturbed reservation, that it has at most one
  handler past its check; that the handler's place determines how status, seats,
  payment and job stand (the table `Stage`, one row per call of the code); that
  they agree when there is no handler (`Rest`); and that the job the worker is
  at is active, so that nobody removes it.  Two frame lemmas carry the proof:
  `HandlerStep` (a step of one handler that touches no other reservation) and
  `QuietStep` (a step that moves nobody).  Each command then only has to take
  its row of `Stage` to the next (`CreateOnward`, `CancelExtendOnward`,
  `WebhookOnward`, `ExpireAccount`).  `AccountInv` was also checked with TLC on both instances.
* `LedgerKeptCorrect`: the refinement.  Every step of `SeatReservation` from a
  state of `AccountInv` is an entry of the ledger or a stutter.  `Stage` says why an
  entry is allowed: the handler that gives seats back is at a place where they
  are taken and the reservation is not paid.
* `SettledStaysCorrect`, from `AccountInv`: a handler that writes the status is
  at a place where it is PENDING.
* `LockEndsCorrect`, from `AccountInv` and `LockInv`: an undisturbed
  reservation's lock is that of its own user and zone, is there only while its
  seats are taken, and outlives the payment only until the webhook deletes it.
* `StockMatchesDBCorrect`: a zone's stock is its total less the seats of its reservations.
  A sum over a set is the cardinality of the set of single seats (`Seats`), so that adding
  or removing a reservation is a lemma about a union of disjoint finite sets (`SeatsAdd`)
  and needs no induction.  The
  invariant is `Balance`, stock against the seats that are taken.  It is proved of the
  steps of the abstract ledger, and the refinement carries it over; `AccountInv` then
  says that between handlers the taken seats are those of PENDING and CONFIRMED.
* `RemainMatchesConfirmedCorrect`: `remainQuantity` is the total less the CONFIRMED seats,
  apart from those whose webhook has yet to decrement (`Counted`).  Every step but
  the decrement keeps who is counted (`SameCount`); the decrement counts one reservation
  more, and takes exactly its seats.

The last two are about any finite set of reservations (`IsFiniteSet(Reservations)`, of an
infinite one there is no sum).

**Support posts** (`SupportPostsProofs`): `AnswerAndStatusAgreeCorrect` is inductive
over the three steps that write a table; `DeletedOnlyInRace` needs
`RacesMarked` (a deletion past its check is of a post without an answer, or
marked); `DeletingIsOneCallCorrect` replaces the count by a singleton, `OneDeletion`.
`RepliesListedCorrect` needs `ListInv`: the list is read by one call at a time, and every
answer in the table has its own still on the way to the page, or the list about to be read, or
a reading that came after it.

**Sessions** (`SessionsProofs`)

* `ExchangedOnceCorrect`, from `Exchanges`: a token that was exchanged, or
  is about to be, has no row, and no two refreshes are about to exchange the
  same one.
* `WaitersAreBehindRefreshCorrect`: inductive with the types; every end of a
  refresh empties the queue of its tab.
* `TabNeverRacesItselfCorrect`, from `Spending`: the pairs on their way to a tab are
  unspent and all different, and while the stored token was spent by a refresh of
  a tab, that refresh is still in progress.  So when the next one of the
  tab begins, the stored token is another.

**Zones** (`ConcertZonesProofs`): `SoldSeatsStayOutCorrect` and
`RemainCoversStockCorrect`, both from `BooksKept`.  The properties say nothing while a
change is in progress; `Books` says where the seats of a zone are then: what was
sold is missing from the stock, counted from the total that the change has
read.

**Administrator's page** (`AdminPageProofs`): `SavingIsOneCallCorrect` replaces the count of
calls by the one the flag stands for (`OneSaving`).  `OneDeletionAtATimeCorrect` does the
same in `SingleDeletion`, which adds that the page has been told of a deletion only if there
was one: that is what is left of the flag when no deletion is in progress.
`PanelShowsSelectedCorrect` needs `PanelInv`: as long as rows
are pressed only between requests, every request in progress was sent for the row that is
selected.

**Payment** (`CheckoutPageProofs`): `ChargedOnceCorrect` and
`ChargedAsReservedCorrect`, both from `Payments` and `Amounts`.  A reservation is about to
be charged by one promise; by none if it has been charged; a page that still
knows a charged reservation is about to be left by the promise that paid it.
`CancelledNotOfferedCorrect` needs `OfferInv`: what the user was told is cancelled is so in
the table and stays so, or is in `revived` (`Kept`); and the list that is shown, or whose
answer is on its way, was read after the cancellation or is about to be read again
(`ListsInv`).

**Services** (`ServicesProofs`): the component that runs behaves as its own specification
says and the others do not move, so each component's theorem holds of the composition
(`...InServices`, `TypesCorrect`), under the components' assumptions together
(`ServiceConstants`).  These lemmas are the same few lines per component, with the proof
modules as instances.

### Only model-checked

The four liveness properties, `EventuallyAdmitted`, `AbandonedLeavesQueue`, `PendingEnds` and
`DeletingEnds`: they rest on fairness, that is on ENABLED, which the provers do not treat.
And the four statements of section 7 that the runs refute.

## 7. Findings

* **Two users let in at once** (`queue_one_at_a_time`).  `docs/progress.txt:342`
  promises one at a time.  The cron and the expiry worker both call
  `admitNextUser`, which counts at `queue.service.ts:115` and sets the key at
  line 123.  What does hold is the number of callers (`AdmittedBounded`).
* **A reconnected user is dropped** (`queue_reconnect`).  `README.md:180` says a
  reconnect within 30 s restores the place.  `handleReconnect` deletes the key
  and leaves the job, whose check takes the absence of the key for a user who
  never came back, and removes the user.
* **A paid reservation loses its seats** (`seat_webhook_race`).
  `README.md:157-166` relies on the PENDING checks of webhook and worker.  They
  are not atomic with the updates; both pass, the worker gives the seats back and
  the webhook confirms.
* **A second press asks for nothing** (`queue_page_retry`).  `useQueue.ts:228` says
  the connect callback emits `queue:enter`.  After a refused request the socket is
  open, `connectSocket` returns at line 122, no callback runs, and the page shows that
  it is entering.

Seen while modelling, in the models and stated here only:

* A connection that Socket.IO restores, or a page that is navigated to, finds no
  session key and emits nothing, so the disconnect job takes the user out;
  `PageTellsTruth` excepts that (`dropped`).  The key of a `NOT_IN_QUEUE`
  answer survives.  The answer to a reconnect may arrive after the admission and set
  the page back to the queue; `AdmissionStaysShown` excepts that one event.
* `ReservationPage.tsx:486`: a second attempt to pay asks for what is chosen by then,
  not for what was reserved; `ChargedAsReserved` is of the first.
* `client.ts:86-89`: of two tabs that refresh at once, the one that is refused
  removes the tokens of the one that is not.  A logout while a refresh is in
  progress is followed by the storing of new tokens.
* `AdminPage.tsx:617-621`: after a successful deletion the flag of `DeleteDialog` stays
  set, and the page must be loaded anew to delete another concert, unless the deletion
  was done and its answer lost: then the catch block resets it.
* `concertZone.repository.ts:35`: a change of the total sets `remainQuantity` to the
  total, whatever is sold.  `schema.prisma:106` says the column is the value confirmed by
  payment, and after such a change it is not.  `RemainCoversStock` holds all the
  same, but says less: the page never shows fewer seats than can be taken.
* `reservation.service.ts:137`: an extension that has read PENDING writes PENDING at its end
  whatever has become of the reservation.  A user who leaves the payment page while the
  extension runs and cancels in the list is offered the cancelled reservation
  again, whose seats are given back.  `CancelledNotOffered` excepts those (`revived`).
* `reservation.service.ts:105`: `job.remove()` throws when the worker runs the job, and the
  cancellation ends with its seats given back and the reservation PENDING.
* `queue.service.ts:122-123`: an admission that fails between ZREM and SET leaves its
  user neither waiting nor let in; the open page goes on showing the queue.
  `PageTellsTruth` excepts that as well.
* `README.md:196` lists a status ENDED; nothing sets it.

## 8. Not modelled

* Two sockets of one user in one queue, and the token check of a socket's
  handshake.
* The admission worker's loop over several concerts: one caller of `admitNextUser`
  per concert is modelled.  A concert whose admission fails stops the loop for those
  after it until the next tick.
* Deletion of a concert or zone under its reservations: `ConcertZones` has the
  deletion, with seats sold as numbers; that the database cascades to reservations
  whose Redis keys and jobs stay is in no model.
* Rejected calls inside `handleDisconnect` are crashes: nothing catches the rejection.
* `SeatReservation` marks a reservation `disturbed` at any failing call of the expiry
  worker, its first read (`reservation.worker.ts:48`) included, which leaves the job failed
  and nothing else.  With `MaxReturns = 0` the runs leave out handlers of a PENDING
  reservation whose seats were never taken (a crash at `reservation.service.ts:23-26`); it is
  `disturbed` too, and the theorems are about any `MaxReturns`.
* `Sessions`: the load of the login page is one step with the end of the refused refresh;
  in the code (`client.ts:86-92`) `isRefreshing` is reset and the waiting calls are left for the
  moment in which the page unloads.  A login that is refused with 401 begins a refresh like
  any other call, or waits for the one in progress, but its form is free again at
  once.
* A database call that is done while its answer to the server is lost: a call of the models
  fails without effect or is done.  What the pages see of a lost answer is modelled.
* Routes, DTOs and middlewares, which keep no state: every well-formed request
  reaches its service.  Form fields and their checks; passwords, which are right or
  wrong by choice; names, dates and prices.
* `ConcertsPage`, `ConcertDetailPage`, layout, theme and `components/ui`: they read
  once and show.
* The Prisma schema, seeds, scripts and load tests.  The columns, defaults and unique
  keys that services rely on are in the models.

## 9. Plan

What is left, in this order:

1. Two concerts: the loop of the admission worker with a failing admission, and the
   deletion of a concert under its reservations.
2. A composition of `WaitingQueue` with `SeatReservation` in which `admitted` is one
   variable of both, on a reduced instance; each has it as a step of the environment now.
3. Two tabs of one user in a queue.
4. An abstract specification of the queue, as `SeatLedger` is one of the reservations, from
   which `AdmissionOrder` and `OneListUnlessOverlap` follow, and the refinement proved.

Instances stay within five minutes of TLC: two users, one or two reservations,
one fault, as above.
