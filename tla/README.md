# PlayArena: a TLA+ verification project

PlayArena is a Go/PostgreSQL backend and a Next.js frontend that run sports
tournaments: organizations create tournaments, teams register, fixtures are
generated, matches are scored live from a phone, winners advance through the
bracket, and notifications and webhooks tell the world. These modules model the
parts of it whose correctness depends on order, failure and concurrency, model
check them with TLC and prove theorems about them with TLAPS.

Contents: [the system](#the-system), [the modules](#the-modules),
[the runs](#the-runs), [fairness](#fairness), [the proofs](#the-proofs),
[disagreements found](#disagreements-found), [other limits found](#other-limits-found),
[not modelled](#what-is-not-modelled), [the plan](#the-plan).

## The system

Every backend package under `src/backend/internal` has the layers handler,
service, repository. A service reads rows and checks rules; a repository method
named `...WithAudit` opens a transaction, usually locks one row `FOR UPDATE`,
writes, adds an audit row and an outbox row, and commits. What a service reads
*before* the transaction is unlocked, and this is where most of the hard
behaviour of the backend is. Components meet in the database only; the rest of
the interaction is the outbox (drained after a commit), the in-process realtime
hub and HTTP. The frontend adds optimistic state, retries and storage shared by
tabs.

| component | state | operations | hard behaviour | what makes it correct | module |
|---|---|---|---|---|---|
| live scorer queue (`hooks/use-scoring-queue.ts`, `lib/scoring`) | queue of actions with a status each, in memory and in localStorage; one request in flight | enqueue, undo, send, reconcile, prune, reload, complete | lost answers, reloads, a stale cached log, abandoned requests that still arrive | each action is on the log exactly once and in order; nothing is lost; completion covers every action | `ScoringQueue` |
| match_events | append-only log per match | append and correct under the match lock, list by page | several scorers at once | numbers unique and dense; an event is corrected once | `ScoringQueue`, `Scoreboard` |
| scoring engine, score display | none (a fold of the log) | compute a score, validate a payload | two folds in two languages; completion on a stale score | the folds agree within what both languages read and hold; a result is the fold of its log | `Scoreboard` |
| matches | row per match: participants, status, winner, link to the next match | create, update, link, start, complete, cancel, walkover | full-row updates from a stale read; feeders completing at once | nobody but the feeder's winner sits in a fed slot, and it is taken when the match is played; rounds are played in order; results are final | `Bracket` |
| tournaments, tournament_registrations | a row with status, capacity and format; a row per entry | create, update, cancel; register, review, withdraw | checks outside the transaction; capacity | the documented transitions; over the capacity only by what was changed under a request; notices tell the truth | `Entries` |
| fixturegen, fixtures | none; generated matches | generate, resolve qualifiers | twice at once; withdrawals after the draw | drawn once; every pair or seed once; seated once, from drawn teams | `Entries`, `Draw` |
| standings | none | order a table | ties, disqualifications | a disqualification moves one entrant only | `Standings` |
| notifications, realtime hub | outbox, inbox rows, subscribers with bounded buffers | write in the domain transaction, drain after it, publish, subscribe, shut down | drains overlap; crash between commit and drain; full buffers; a stream that meets a shutdown | each entry fans out once, is published after the commit; no panic, no stream left | `Outbox` |
| notifications page | cached list, clicks under way | read, read all, delete, refetch | optimistic changes that overlap and roll back | the list settles to the rows | `Inbox` |
| notifworker, webhookworker | delivery row: attempts, lease, verdict | claim, deliver, record | crash between any two steps, lost writes, several instances | one worker per leased row; attempts capped; verdicts final; no row forgotten but by a lost outcome | `Delivery` |
| auth, password and deactivation of users | refresh tokens in chains, reset links, the user's status | login, rotate, logout, forgot, reset, change, deactivate | row locks taken in an order; rows that a statement cannot see | one live end per chain; a change of password or a deactivation misses no live token | `Sessions` |
| session client (`lib/api/client.ts`, `use-auth-guard.ts`) | tokens in two storages, one refresh promise per tab | call, refresh, retry, reload, log out | calls that expire together, a second tab, answers cut off | nobody is signed out who need not be | `TabSession` |
| members, organizations, administrators | role grants with expiry, user status | grant, revoke, delete, deactivate | two removals at once | the platform keeps an administrator; an organization an owner, unless revocations cross or grants expire | `Club` |
| players and self profile | profile row with two kinds of writers | create, edit, delete; own edits | stale read-modify-write by the other writer | the profile's page is open as the owner asked | `Profiles` |
| teams | team rows, membership stints | create, edit, disband, add, remove | lookup before the transaction | one active team per player | `Squads` |
| media | rows and stored objects, one primary | upload, make primary, delete | no transaction spans table and store | a listed picture has its objects; one primary | `Media` |
| rankings, news, public, health, email, cleanup of expired tokens | rows | CRUD, aggregation, read-only projections | none to speak of | | |
| rate limiter (`platform/middleware`) | token buckets per key | allow, evict | eviction racing a request | a bound on the rate | |

`PROJECT.json` lists every component with its status, and under `hazards` what
can go wrong in this code at which line and which property would notice.

## The modules

Two conventions run through all of them. A request of the backend has two halves:
`Start...` is the service, which reads and checks; the step named after the
repository's method is its transaction, which uses what the first half read. A
`Fail`, `GivesUp`, `Drops` or `Broken` action ends a request at any point: a refused
check, an error, a cancelled context, the end of the process. Definitions named
"Mutant" are what a plausible bug would make of the definition after them; nothing
in the specifications uses them.

### `ExactlyOnceLog`, `ScoringQueue`, `ScoringQueueProofs`: live scoring

`ExactlyOnceLog` is the promise of `docs/PROJECT_STATE.md`: each recorded
action reaches the log at most once, in the order recorded, and a withdrawn or
refused action never does. `ScoringQueue` is the program: one browser tab, the
network and the server's log of one match.

* `status`, `serverSeq`, `body` are the fields of the queue's actions
  (`QueuedAction`), `disk` is localStorage, `call` the request the driver effect
  waits for (`inFlightRef`), `view` how much of the log the displayed cache
  holds, `log`, `live` the server's side. An action is identified with its
  position in the order of recording; an event with its sequence number.
* `queueReducer`'s events are the operators `Enqueue`, `Reconciled`, `Pruned`,
  `Normalized`; each action is one turn of the driver effect, one answer, or one
  gesture of the scorer, with the persistence effect in the same step.
* Server steps are `CreateWithAudit` (`ServerRecords`, `OtherScorer`,
  `ServerRejects`), and status changes of the match. A correction is accepted
  by the rules of its step 7.
* `Faults` switches on what the code cannot exclude: `late_post`, a POST whose
  client gave up is handled after all; `unsaved`, localStorage lags memory
  (`SaveQueue` then writes it at any time); `offline`, the browser loses its
  connection and gets it back.
* The effect sends the head it saw at its last render; the model sends the head there
  is. Between the two the head can at most have been undone, which `UndoLocal` could
  then meet in flight: that window of one render is left out.
* History variables: `removed` (undone locally), `gate` (what completion had to
  cover), used by properties only.

### `Scoreboard`: the score of a match

What the log may contain (`ValidateScoreEventPayload`, `ValidateAllOutParticipant`,
steps 3 to 7 of `CreateWithAudit`), and the two folds over it: `Compute` is
`scoring/engine.go` over `GetEffectiveMatchEventsForScore`, `ComputeScore` is
`lib/scoring/engine.ts`. An amount is its value, how JSON writes it, because Go decodes
2.0 into no int and JavaScript takes it for 2, and how its keys are spelled, because Go
takes `"Points"` for `points` and JavaScript does not. Sums have the width they have in the
program: `MaxInt` of Go's int, `MaxInt32` of the column (`Columns`), and `MaxExact` up to
which a double holds every integer (`Double`). `LoadScore` and `CompleteMatch` are the
completion: the winner the page computed from the score it loaded, checked against the
snapshot taken under the match lock, and the snapshot converted to int32 and stored.

### `DeliveryLifecycle`, `Delivery`, `DeliveryProofs`: the delivery workers

`DeliveryLifecycle` is the state machine the migrations 000025 and 000026
document. `Delivery` models `notifworker` and `webhookworker`, which are the same
program over two tables (`Channel` tells them apart: only a webhook's receiver
refuses for good, 4xx).

* `attempts`, `leased`, `sent`, `failed` are the columns `attempt_count`,
  `lease_expires_at > NOW()`, `sent_at IS NOT NULL`, `failed_permanently`;
  `present` says whether the row still exists.
* A worker is a pass of `runOnce`: the ticker's goroutine, the `Drain` of a
  shutdown, another instance. `batch` is what it claimed and has not delivered,
  `job` the row it delivered and has not recorded. A row in a batch carries the
  `attempt_count` that `RETURNING *` gave it: the dead-letter decision uses that
  copy, not the row.
* `Claim` is one UPDATE statement, hence one step; which of the claimable rows
  it takes is left open (SKIP LOCKED). `Deliver` is everything `deliver` does up
  to the answer; `RecordSuccess`, `RecordFailure`, `RecordRefusal` the writes.
* What the receiver did (`taken`) and what the worker heard (`answer`) are two things:
  an answer that comes after the client's timeout, or never, is a failure to the worker
  and may be an acceptance to the receiver.
* Time enters through the lease alone (`LeaseLapses`). A retry delay is a lease
  set by `WriteFailure`. Without the fault `slow` a lease outlives the batch it
  was set for; with it, it may lapse at any time.
* `crash` stops a worker anywhere, `lost_write` loses the recording of an outcome.
* History variables: `copies`, and three sets of claims (a row with the number of its
  attempt): `accepted` by the receiver, `lost`, whose outcome never reached the table,
  and `late`, which a worker held past their lease.

### `MatchLifecycle`, `Bracket`, `BracketProofs`: matches and advancement

`MatchLifecycle` is the status diagram of a match with its winner: a winner is
set together with `completed` or `walkover`, and a terminal match stays as it is.
`Bracket` is `internal/matches` over the matches of one tournament.

* `row` is the table (status, participants, winner, `next_match_id`,
  `next_match_slot`), `ongoing` the tournament's status, and `req[s]` a request in
  progress: what it read (`was`) and the row it is going to write (`new`).
* `Start...` reads the row, checks it and computes the new one (`UpdateMatch`,
  `Walkover`, `CancelMatch`, `CreateMatch`). `Commit...` is the transaction
  (`UpdateWithAudit`, `WalkoverWithAudit`, `CancelWithAudit`, `CreateWithAudit`): the
  comparison of the status with the one read (`Unmoved`), the write of the whole row,
  and `propagateWinner` (`Written`, `Fill`, `MayAdvance`). `CheckLink` is
  `validateLinkage`, which reads other rows than the request's own, among them the
  number of feeders, and is therefore a step between the two.
* Any number of requests interleave (`Staff`), so a row may have moved, been filled
  or been re-linked between a request's read and its write.
* `Kinds` says which requests are made, `Drawn` what the tournament starts with.
  `WellDrawn` states what `fixturegen` draws: a slot that is fed is empty and has
  one feeder.
* Abstractions: a PATCH changes one group of fields at a time and writes the others
  back as it read them; a transaction is atomic, since it locks the match and its
  successor; scores are left out (see `Scoreboard`), and `Plausible` leaves open which
  winner the final score allows; `TournamentEnds` stands for `internal/tournaments`.

### `EntryLifecycle`, `Entries`, `EntriesProofs`: from registration to a seated knockout

`EntryLifecycle` states the two `allowedTransitions` tables and that the fixtures are
drawn once, from approved entries, after registration has closed. `Entries` is the
program: `tour` is the tournament's row, `reg` the registrations, `field` the teams in
the fixtures, `groups`, `played` and `seats` the group stage and the qualifier slots,
`told` and `announced` the last outbox entry about each. `EntryLifecycle` has the seats
as well: filled once, from drawn teams, while the tournament is ongoing (`Seat`).

* Registering carries the capacity read with the tournament into `CommitRegister`,
  which counts under the lock (`Full`). A PATCH of a registration writes whatever the
  status has become (`UpdateRegistration`); a withdrawal is conditional. A PATCH of the
  tournament writes back the row it read (`UpdateTournament`).
* `CommitGenerate` and `CommitResolve` are the transactions of `fixturegen` under
  `LockTournamentForGeneration`. Which of the ranked teams are seated is left open;
  ranking itself is `Standings`, the pairing is `Draw`.
* `Overlap` says which kinds of request are served while others are (see
  [the runs](#the-runs)).

### `Sessions`, `SessionsProofs`, `TabSession`: logging in and staying in

`Sessions` is one user's account at the grain of row locks: every statement that may
block is a step, `held` are the rows a transaction has locked, `user` its lock on the
users row (the foreign key of a new token takes a share lock), and a statement that
locks several rows looks them up once, when it begins (READ COMMITTED), then waits for
each. `LockToken`, `Mint`, `Rotate` are `RotateRefreshToken`; `StartReset` to `Finish`
are `ResetPasswordTransaction`, `LockUser` to `Finish` `ChangePassword` and
`DeactivateTransaction`. A row's writes become visible at its commit.

`TabSession` is the other side: the tabs of one browser that share the refresh token
in localStorage and have an access token each. `flights` is `refreshPromise`, `calls`
the requests under way, `Guard` the `/auth/me` of `use-auth-guard`. The behaviour begins
after the login and ends when a tab is signed out.

### `Outbox`, `OutboxProofs`, `Inbox`: from an event to the bell

`Outbox` follows an entry from the domain transaction (`Write`) through a drain
(`Claim`, `Insert`, `Commit`, `Publish`) into the hub (`subs`, `buf`, `chan`) and the
stream of a page. `Publish` holds the hub's read lock for its fan-out and is one step;
`Unsubscribe` and `Shutdown` change the map under the lock and close channels after
it, and are two. `rows` are the notifications, `hooks` the webhook deliveries of an entry;
`Switched` are the endpoints that come and go. `Inbox` is the notifications page: `click` holds each optimistic
mutation with the list before it (`prev`), `fetch` and `invalid` the query client.
`onMutate` is two steps: `Click` up to the awaited `cancelQueries`, `SendClick` after it.
A click may be lost on the way there or back, or served after its client gave up.

### `Club`, `Profiles`, `Squads`, `Media`, `Standings`, `Draw`, `ServicesProofs`, `ContestProofs`

Smaller services without state in common.

* `Club`: grants of the owner role with their expiry, and the status of users. Revoking
  counts owners and deletes later, and any number of revocations overlap: a request
  remembers whether another one took effect since it counted (`stale`), `crossed` whether
  the last that took effect was such a one. Deactivating takes the lock on the role's row
  first (`Sentinel`).
* `Profiles`: the staff write the staff's columns, the owner the owner's, each from a
  row read before and without a lock; the owner may have several requests on the way.
  `wish` is what the owner asked for, a set while requests overlap. `OpenTo` is the page of a
  profile (`GetByIDGlobal`), `Readable` adds the pages of its organization, which ask for no
  more than a login.
* `Squads`: a membership is a *stint*; `met` remembers that two requests to add the
  player were on the way together.
* `Media`: each upload stores its objects one after another, inserts its row, and sets
  the primary in another transaction; a deletion removes the row and then the objects.
* `Draw`: `buildRoundRobin` (circle method, orientation along an Euler circuit),
  `buildBracket` (seed positions, byes) and `buildGroupKnockout` as operators and
  recursive functions over seeds.
* `Standings`: `Compute` and `makeLess` over a set of results that grows while entrants
  are disqualified.

`MCServices` checks these six together with `Scoreboard`, `TabSession` and `Inbox` in
one run. The nine parts share no state, so each behaviour is a behaviour of one part
while the others rest: the composition saves runs, it adds no interleavings.
`ContestProofs` holds the proofs about `Draw` and `Standings`, `ServicesProofs` those about
the other four and the three that run in a browser (`TabSession`, `Inbox`, `Scoreboard`).
The components that do interact are composed inside a module: queue, network and log
in `ScoringQueue`; tournaments, registrations and fixtures in `Entries`; outbox, hub,
streams and pages in `Outbox`.

## The runs

Passing runs explore every reachable state of their instance; the violation run
shows where a doc of the repository says something the code does not do.

| run | instance | what it shows |
|---|---|---|
| `queue` | 3 actions, log and page of 2 events, lost connections | exactly once, in order, nothing lost, completion covers all; implements `ExactlyOnceLog`; every action settles |
| `queue_faults` | 2 actions, log of 3, page of 1, late POSTs and lagging saves | corrections stay sound, whether undo or another scorer makes them, and a confirmed action points at its own event, even when actions are recorded twice |
| `delivery` | 2 webhook rows, 2 workers, 2 attempts, crashes and lost writes, the ticker and time fair | the documented life is implemented; every row retires, unless the outcome of its last claim was lost |
| `delivery_slow` | the same, and batches that outlive their lease | two holders, or two acceptances, only after a lost outcome or an outlived lease |
| `bracket` | semifinals and final, 4 entrants, 2 requests | no round is played before the one that feeds it; a fed slot holds the feeder's winner or nobody, and is taken when the match is played; statuses and winners implement `MatchLifecycle` |
| `bracket_edits` | a semifinal and a final, 2 requests that also edit participants | stale full-row writes never leave a live match short of a participant |
| `entries` | 3 teams, capacity 2 or none, 2 requests; reviews and edits not overlapped | the documented lifecycle, the seating included, and true notices |
| `entries_overlap` | 2 teams, capacity 1 or none, 2 requests: registrations, reviews and edits, all overlapping | over the capacity only by a request whose capacity or registration was changed under it |
| `sessions` | 3 clients, 3 tokens, 2 reset links | one live end per chain; a password change or a deactivation has every live token in hand when it commits, and an inactive account gets no token but from a login past its check; a reset spends an unspent link |
| `outbox` | 2 entries, 2 users of whom one comes and goes, 2 endpoints of which one is switched, 2 drains, 1 page, buffer of 1 | published once and after the commit, nobody missed, no panic; every entry drained, every stream ended |
| `outbox_deaf` | the same without endpoints | violation: see [below](#disagreements-found) |
| `services` | club: 3 users, 2 of them administrators, 2 requests; profiles: 1 owner, 2 rows, 2 requests; squads: 2 teams, 1 player, 2 requests, 3 stints; media: 3 jobs, 2 files, 2 objects each; draw: leagues to 6, brackets to 16, groups to 6; standings: 3 entrants, scores to 1; scoreboard: logs of 3 events of 5 types in both formats, amounts up to 3 where a column holds 3, a double 4 and an int 7; tabs: 2 tabs, 2 calls each, 3 tokens; inbox: 2 notifications, 2 clicks, neither told apart (symmetry: nothing in `Inbox` orders them, and the run checks no liveness) | the last administrator stays, and the last owner but for expiry and crossed revocations; the page of a profile is open as its owner asked; one team per player; pictures have objects, one is primary; draws are complete and fair; a disqualification moves one entrant; both folds agree on every log they both read and hold, and a result has the winner of its log and, if the column holds it, the score; one tab's calls never sign it out; the list settles to the rows |

Bounds. Three actions are the least number with one settled, one in doubt and one
waiting, and with an event, its correction and a second correction attempted. Two are the
least with an event and the correction that undo makes of it, while the other scorer
corrects the same one. A log
of two events leaves room for another scorer's event beside one's own. A page as
long as the log means "the log fits a page"; a page of one means it does not. Logs of
three events hold an event, its correction and one that survives. Two tabs and two
calls are the least with two calls that expire together in one tab and a rival; three
tokens are two rotations. Two
rows and two workers are the least with a batch, a held row and a rival; two attempts
(three in the code) are the least with a retry and a last claim. One owner is enough for a
profile, whose rule is about one owner against everybody else ("nobody" reads too); two
requests are the least with two of the owner's that overlap, or one that meets the
staff's. The widths 3, 4 and 7 stand for 2^31 - 1, 2^53 and 2^63 - 1: the amounts are such
that two events leave the column and the double, and three the int. `outbox` has two
channels for one steady member and one steady endpoint; the other member and the other
endpoint are there to change under a drain. The capacity is overtaken by two requests and
two teams. The knockout of four is the least bracket in which
two feeders conclude at once and fill two slots of one successor; two requests are
the least in which a write is stale. Three teams are the least with two for the draw and
one that is left out, withdrawn or over the capacity. Three tokens are a chain of two and a login of its own, three
clients a rotation, an operation that ends every session and a third party. Three media
jobs are two uploads, of which one also makes its picture the primary, and a deletion or a swap; two objects stand for the code's three.
Sixteen entrants have every number of byes from 0 to 7, and four rounds; leagues of up
to six have both parities and up to three legs. Three entrants are the least with a tie that
a third decides. The properties proved below hold for every value of these bounds.

`queue` checks deadlock. In every other run the modelled system may stop: every row
gets a verdict, every request ends, a tab is signed out, a draw is made.

What the passing runs assume or except, and what fails without it:

* `FeedersFirst` and `FedByWinners` are about a bracket that is only played: nobody edits
  participants or links. Requests overlap. `FedByWinners` allows an empty slot, for a PATCH of
  a scheduled successor that was read before a propagation and committed after it
  writes the empty slot back. `WalkoverOfTwo` (not run) fails for that reason: a
  walkover is checked against participants that a stale PATCH may since have emptied
  again, and the table's constraint does not notice, because it compares with NULL.
* `FollowsLifecycle` assumes that a batch ends before the leases of its rows (the fault
  `slow` is off in `delivery`). The code delivers a batch one row after another under leases
  that started together; with `slow` a late outcome overwrites a newer verdict.
  `OneHolder` and `AcceptedOnce` assume nothing: they name the claims that outlived their
  lease, or whose outcome was lost, as what a second holder or a second acceptance needs.
* `Retires` excepts a row whose last claim had its outcome lost (`LastLost`): the
  attempt was charged when the row was claimed, so it has neither a retry nor a verdict.
* `KeepsPromise` assumes that an abandoned request never arrives late, that localStorage
  is written before the POST, and that the log fits one page. Each of the three alone
  records an action twice.
* `FollowsEntryLifecycle` and `NoticeTrue` assume that a review of a registration or a
  PATCH of the tournament is served alone. Two overlapping reviews write a status that
  the table refuses; a PATCH that overlaps a cancellation restores the old status.
* `CapHeld` assumes nothing and excepts requests that were overtaken (`Overtaken`): a
  registration that read a capacity which a PATCH has lowered since, and a review that
  revives a registration withdrawn since. Both take the entries over the capacity. What a
  PATCH itself does, lowering the capacity below the entries there are, adds no entry.
* `LastStays` assumes nothing and excepts, for owners, expiry and revocations that had
  counted before another one took effect: two that overlap both count two owners and
  remove both. Deactivations may overlap.
* `OneTeamPerPlayer` and `StaysIn` say themselves what they except: memberships added
  together, and tabs that presented the same token.
* `OwnerDecides` lets requests of one owner overlap and then allows what any of them asked
  for: a stale edit of the biography on one device undoes "private" of the other. It speaks
  of the pages of the organization too: they show the profile in any case.
* `ScoreAgreed` is about payloads whose keys are spelled as the page spells them and
  numbers a double holds, `ResultFromLog` about the stored score as long as the column
  holds it. Go reads a raid with `"Points": 5` as five points and the page as none; two
  scores that differ by one above 2^53 are one number to the page; a fold above 2^31 - 1 is
  stored wrapped. The double is rounded once per sum in the model, after every addition
  in the page; within `Countable` there is nothing to round.
* `SweepComplete` and `InactiveEnds` speak of what a commit leaves and of rotations. A
  login that had passed its check of the status (`auth/service.go` line 63) inserts a live
  token after a deactivation, and a reset can leave one (see
  [the limits](#other-limits-found)).

## Fairness

* Scoring (`Fairness` of `ScoringQueue`): React runs an effect whose dependencies
  changed, backoff timers fire and a tab that is offline eventually gets its online
  event, but a reload or the network can interrupt any attempt: hence strong fairness
  for the driver's step, for the server handling a request and for its answer getting
  through, and weak fairness for coming back online. Nothing is assumed of the
  scorer, of reloads or of other devices.
* Delivery (`Fairness` of `Delivery`): the ticker keeps ticking (`Claim`), `runOnce`
  runs to the end of its batch (`DeliverNext`, `Record`), time passes (`LeaseLapses`):
  weak fairness each. A crash is not fair.
* Outbox (`Fairness` of `Outbox`): goroutines that can go on do, weak fairness each:
  a request goes on with its drain (`Works`), a stream's handler sees the end
  (`Serves`) and writes the frames it holds (`Hears`), a shutdown goes through to its
  last close (`Closes`). Only requests that are under way are fair: no domain write, connection, disconnection, purge or refetch
  of a page is fair; a drain may be cut at any point.
* The other modules state no fairness and no liveness: people decide whether a match
  is played, a registration reviewed or a session ended.

## The proofs

All proofs are for every value of the constants, with the assumptions the modules name
next to them (such as `BoundsAssumption`, `ClubAssumption`, `DrawAssumption`): finite
sets, natural numbers, members that differ.

`ScoringQueueProofs`. `TypeCorrect` and `CorrectionsStaySound` hold under every
fault. The other theorems assume `Reliable`: no fault and a log that fits one
page; each part of the assumption is needed. `RecordedAtMostOnce` is about `AtMostOnce`,
which is not inductive: that a resend is safe depends on the action not
being on the log *whenever it is pending*. The strengthening `IInv` adds: the
saved queue is the queue (`Synced`), at most one action is in flight and it is
the one the call is about (`SingleFlight`), an answered call points at its event
(`CreatedOnLog`), an action that is pending, refused, removed, unborn or in flight
without an answer is not on the log (`UnsentAbsent`), only recorded actions are
queued (`QueueWithinMinted`) and nothing overtakes an unsettled action (`InOrder`).
From it follow `RecordedAtMostOnce`, `NeverLost`, `CompletionIsComplete`, and, step by
step, `ImplementsExactlyOnceLog`. Two results need less. `ConfirmedIsOnLog` holds under
every fault: its invariant `PInv` adds that what localStorage calls confirmed was
confirmed with the same event (`SavedOnLog`), since a reload brings that copy back.
`UndoneAtMostOnce` is about `OneCorrectionPerAction` and assumes `Saves` only (memory
and localStorage agree), so it covers late POSTs and logs longer than a page: no two
corrections of the queue take back one event. What `selectUndoTarget` looks for is a
confirmed action that no queued correction names, so a correction must not leave the
queue before its target. `UInv` says that it does not (`TargetLeaves`), because a page that
shows the correction shows its target too; for that the log must carry what was
recorded (`MintedOnly`, `LogCarries`) and be sound in itself (`CInv`), and a POST in flight
must be about an action marked sending (`SendingInFlight`).

`DeliveryProofs`. A first invariant, `Ledger`, needs no assumption about faults: the
copies a receiver saw plus the claims still to be delivered (a finite set, by
`Countable`) never exceed `attempt_count`, and a worker about to record a success
had it accepted. It gives `TypeCorrect`, `CopiesAreCapped` and `SentIsTruthful`.
A second, `Lease`, needs none either: no claim is in two hands (`OneClaim`), and a row that
could be claimed while somebody has it is one whose lease that worker outlived
(`FreeIsLate`). It gives `LeaseExcludes`. A third, `Once`, says where an accepted copy is,
unless its claim is `lost` or `late`: the row is marked, gone, or in the hands of a worker
about to mark it (`CleanIsKept`), and nothing that waits in a batch was accepted before
(`BatchIsFresh`). It gives `AcceptsOnce`, under every fault. Only the last, `IInv`, assumes
`Prompt` (no batch outlives its lease): a held row is leased and has no verdict
(`HeldIsOpen`), and one worker holds it (`Exclusive`). It gives `VerdictsExclude`,
`DeadAreLeftAlone` and `ImplementsLifecycle`.

`BracketProofs`. `ResultsFinal` and `PlayedByTwo` are about rows, but a stale request
carries a row too. `Sound` therefore says of every waiting write what it says of the
table: the row is `Fit` (no winner before the end; in play only with two participants),
and its status follows from the status read (`Sane`); a row about to be created
does not exist and is claimed by one request (`CreatesFresh`). `Effect` says what any
commit does to the table, and from `Sound` and `Effect` follow `TypeCorrect`,
`PlayNeedsTwo`, `ResultsAreFinal` and `ImplementsLifecycle`, for every kind of request
and any number of them. `PlayedInOrder` assumes a well-drawn bracket in which nobody
edits participants or links (`OnlyPlayed`). Its invariant `Ordered` says that the
seat a feeder has still to fill is empty in the table *and in every waiting write*
(`SeatsOpen`), so that no request, however stale, can find both participants before
both feeders are over.
`WinnersPlay` has the same assumptions; its invariant `WinnersSeated` says of the table and of
every waiting write that a fed slot holds its feeder's winner or nobody.

`EntriesProofs`. `Shaped` needs no assumption: a request's aim follows from what it read
(`AskedWell`). It gives `TypeCorrect` and the action property `CapacityHeld` (by the
cardinality of the active entries: whoever adds one has counted, and is `Overtaken` if the
count was against another capacity). The rest assumes `PatchesAlone`: no PATCH of a
registration or of the tournament is served while another request is; everything else
overlaps. The invariant `Promises` says what a request read outside its transaction that still
holds when it writes (`Reads`): the status carried by a PATCH. It gives `NoticesTrue` and
`ImplementsLifecycle`, the refinement of `EntryLifecycle`.

`SessionsProofs` needs no assumption. `Sound` says of each transaction what it found under
its locks: a rotation that is to mint has its token locked and live (`MintFits`), an
operation that ends every session has swept or marked every live token (`EnderFits`), a
reset that goes on holds an unspent link (`ResetFits`); and that exclusive locks on the
user have one owner (`Apart`). That nothing is minted behind a sweep follows because a
mint needs a lock on the user. `InactiveEnds` is an action property: a rotation checks the
status under its lock and finds it inactive. `Sound` gives `TypeCorrect`, `OneLiveAlways`,
`SweepAlwaysComplete`, `InactiveAlwaysEnds`, `LinkAlwaysUnspent` and the action property
`InactiveStays`.

`OutboxProofs` has one invariant per concern and no assumption. `HubSound`: a channel has one
closer at most, the handler that found it in the map or the shutdown that swept it
(`ClosersAgree`); hence `NeverPanics`. `DrainSound`: two drains hold different entries
(`OneDrainEach`, from SKIP LOCKED), and what a drain has still to announce was not
announced (`NotYetPushed`); hence `AnnouncedAtMostOnce`. `Reaches`: between its inserts and its
commit a drain holds, or found in the table, the rows of everyone due (`FanOutWhole`) and
the deliveries of every endpoint due; hence `NobodyMissed`.

`ServicesProofs`. `AdminAlwaysRemains`: the count taken under the sentinel lock still
holds when the user is written (`AdminToSpare`). `LastAlwaysStays`: the count of a revocation
that is not stale still holds when it commits (`GrantToSpare`). `OwnerAlwaysDecides`: a row
says what its owner wished (`AsWished`), although the staff write from a stale copy, and a
request of the owner that asks for nothing writes what it had read (`OwnFits`). `OneTeamAlways`: a player that was
looked up free stays free unless two additions met (`StillFree`, `MeetingsKnown`).
`ObjectsAlwaysHeld`: an upload that is under way has stored its objects in order (`InOrder`),
and a deletion touches objects only when the row is gone (`RowGone`); `PrimaryAlwaysHeld`
follows from at most one primary (`OnePrimary`).
`StaysInAlways`: as long as nothing cut the login off and no two tabs presented
one token, the browser is at most one rotation behind the server, and then the refresh
that asked for that rotation is still waited for (`InStep`, `FlightFits`).
`InboxAlwaysTrue`: a list that was read, or is shown and not marked for another fetch, is the
rows (`ReadTrue`, `ShownTrue`). `ScoreAlwaysAgreed`: for logs of every length, while keys are
spelled as the page spells them and a double holds the numbers, the fold of the page and the
fold of the server are one. Both are sums over a set of events of one function (`Total`), so
it is enough that they keep the same events and give each the same points and side, which
needs that a payload was checked when it was written (`SheetSound`): on a decimal amount the
two languages differ; and that nothing wraps or is rounded on the way (`Widths`).
`ResultAlwaysFromLog` then says that the stored winner is that of the fold of its log, and the
stored score that fold if int32 holds it.

`ContestProofs`. `LeagueAlwaysFair`: `LeagueFair` for any number of entrants. The circle is
solved first: who sits where in round r is a formula (`CircleSeats`), from which every two
sit opposite each other once (`MeetOnce`, `MeetAtMostOnce`), and nobody twice in a round.
Home and away rest on `Orientation`. Its invariant, `Walking`, is that of Hierholzer's
algorithm: used are the edges between neighbours on the stack and on the path, and one
that joins the two (`Joint`); each was taken once; only the two ends of the detour under way
have used an odd number (`Parity`). A vertex with nothing left has used an even number, so it
is where the detour began (`WalkReturns`), so the path stays in one piece; the walk
cannot end before the step `Draw` reads (`WalkLength`). What it leaves is a closed tour
through every edge once (`OrientationIsTour`, `TourOnce`), which leaves each vertex as often
as it arrives (`TourEven`); without the extra vertex of an even field the two differ by one at
most (`OrientationBalanced`).
`BracketAlwaysSound`: `BracketSound` for any number of entrants, of groups and of qualifiers.
Doubling keeps the order of the seeds a permutation in which each pair of leaves has a label of
the better half and the one that completes the sum (`Seeded`, `SlotsStep`). More than half
of the labels are entrants, so the first of each pair is there and only the second may be a
bye (`Filled`, `LeavesFilled`). From `Filled` follow the three facts of any bracket, whatever
the field: the rounds after the first have 2^(R-1) - 1 matches (`LastRoundsCounted`) and the
first has one per pair without a bye, so one fewer than entrants (`MatchesCounted`); an
entrant stands on its leaf or, beside a bye, in one slot of the second round (`Stands`,
`PlacedOnce`); a slot waits exactly when its feeder exists (`FeedersAre`). Each block of g
seeds gives every group one (`SnakeIs`, `GroupsEven`), and of two qualifiers that meet at
once the places sum to an odd number, which an even number of groups keeps apart
(`GroupsApart`). `OthersAlwaysKeepPlace`: the rows
of a table are ordered lexicographically by keys of whole numbers that differ (`TableTyped`,
`KeysDiffer`, `PlaceOrders`). The disqualified key falls behind; one who never played leaves
the table, which shifts ranks in a head-to-head but keeps their order (`AbsentMovesNobody`,
`RanksCompare`, `ShiftKeepsOrder`). That a recursion has a solution (`RecursionExists`), and that
a sum over a set of matches is a number (`SumIsWhole`), is proved by the least
counterexample (`LeastNumber`), since the library's induction theorems cannot be
instantiated.

Proved and, for that reason, not run: `AtMostOnce`, `CopiesCapped`, `SentWasAccepted`,
`OneVerdict`, `DeadStaysDead`, `ResultsFinal`, `StaysInactive`. Every inductive invariant above was first
checked by TLC on the instance of the component's run.

Only model-checked: liveness (`Settles`, `Retires`, `Drained`, `StreamsEnd`). It rests on
fairness, hence on ENABLED, which the prover does not handle. Every other property of a
passing run, the refinements included, is stated by a theorem.

The properties below "Bounds" that need an assumption are false without it, by the
counterexamples listed there; no theorem about a property assumes more than the run of that
property does.

## Disagreements found

The first has a `violation` run and an entry of `findings` in `PROJECT.json`. The
others were counterexamples of runs that have since made room for other questions;
the model that shows each is named, with the constants that reach it.

1. `outbox_deaf`: `docs/PROJECT_STATE.md` line 3359 says `useNotificationStream`
   invalidates the list on every message. The server names its frames
   (`event: notification`, `notifications/handler.go` line 270) and the page sets only
   `onmessage`, which is not called for named frames. Nothing sends the `auth_error` the
   page does listen for, and no query polls, though `hub.go` line 144 says that a client
   whose event was dropped recovers via REST polling.
2. `docs/PROJECT_STATE.md` says a propagated winner cannot be silently
   changed. A PATCH of a scheduled successor, read before the propagation and committed
   after it, writes the empty slot back; the feeder is terminal and never propagates
   again (`Bracket`, the instance of `bracket`: the empty slot that `FedByWinners` allows).
3. `docs/PROJECT_STATE.md` says `validateLinkage` enforces "no two feeders
   into one slot". It counts before the transaction, and no index repeats the check
   (`Bracket`, two requests of kind `link`).
4. Migration 000025 says that after a crash another worker can retry. A crash after
   the last claim leaves a row with neither (`Delivery`, `crash`: the case `LastLost` that
   `Retires` excepts).
5. The comment says the in-flight mark is persisted before the POST; the save runs in
   a later effect (`ScoringQueue`, `unsaved`, `AtMostOnce`).
6. The client asks for 500 events, the server replaces a limit above 200 by 50 and
   returns the oldest; past that, reconcile cannot see the newest (`ScoringQueue`, a
   page shorter than the log, `AtMostOnce`).
7. `db/queries/password_reset_tokens.sql` lines 44-50: two resets "cannot deadlock",
   for both lock in the order of ids. `UseAllUserPasswordResetTokens` then locks the
   links issued in between, out of that order (`Sessions`, `ResetsDontDeadlock`). The
   database aborts one of the two.
8. A comment of `groupknockout.go` (lines 14-17, and `docs/PROJECT_STATE.md` line 3564)
   says that a group's qualifiers are placed in opposite halves of the bracket. For four
   groups with two qualifiers they are not (`Draw`, `HalvesApart`).
9. A comment of `match_events/repository.go` (lines 181-183) says that the match lock
   fixes which team a player belongs to. Membership is in rows that `teams` changes
   without that lock.
10. Comments of `auth/repository.go` (lines 169-172) and `auth/service.go` (lines 249-252) say
   that a logout locks the token so that a concurrent rotation cannot leave its successor
   live. A logout that waits for the rotation finds the token revoked and succeeds; the
   successor stays live (`Sessions`, `Logout` after `Rotate`).
11. `lib/scoring/engine.ts` (lines 8-10) says that its fold must produce the same score as the
   backend's. A payload whose key is spelled in another case scores in Go and not in the
   page, and above 2^53 the page cannot tell neighbouring scores apart (`Scoreboard`,
   `ScoreAgreed` without `Spelled`, without `Countable`).
12. `tournament_registrations/service.go` line 62 says that the tournament has not
   reached `max_participants` when a registration succeeds, and `docs/PROJECT_STATE.md` lines
   2238-2247 that the lock makes it so. The capacity itself is read before the lock: a PATCH
   that lowers it in between lets one more in. A review that was read before a withdrawal
   and committed after it brings the entry back, without a count (`Entries`, the instance
   of `entries_overlap`: the cases `Overtaken` that `CapHeld` excepts).

## Other limits found

What the code leaves possible without a doc or comment denying it; each was met
while modelling and is a fact of the code, not a judgement.

* Matches: two matches can be linked to feed each other, and a match can be linked to a
  successor that is already live, after which it cannot be completed. A group
  match that is abandoned never counts as over (`CountUnfinishedGroupMatches`), so it keeps the
  qualifiers from being seated. The fold of a completed match is stored as an int32, without
  a bound on the points: a larger score is stored wrapped, beside the winner by the fold.
* Scoring: an action the server refused stays in the queue and blocks completion; a
  server that answers GETs and fails POSTs is retried without delay, because each
  successful reconcile resets the backoff. Two tabs of one match overwrite each
  other's queue. A raid in a team match with only a `player_id` counts for nobody.
* Tournaments: two overlapping PATCHes can undo a cancellation. Generation takes
  the format of the request, which the row's format need not equal. `ResolveQualifiers`
  ranks and seats teams that have been disqualified or have withdrawn like all others.
* Sessions: a refresh that commits while a reset is sweeping leaves its new token live,
  for the sweep looked the live tokens up before; a login that has passed its check of the
  status inserts a live token after a deactivation.
  `ChangePassword` verifies the old password before it takes the lock.
* Browser: of two tabs that present one refresh token the loser signs both out; a
  refresh in flight during a logout writes its tokens back; a refresh or a
  `/auth/me` that fails for want of a network signs out; `onboarding/page.tsx` refreshes
  outside the shared promise; the query cache that a logout clears is another
  instance than the one in use (`providers.tsx`, `query-client.ts`).
* Notifications: an entry whose drain broke off waits for the next domain write of its
  organization. Purging an outbox entry deletes its notifications with it. The
  dead-letter decision uses the attempt count of the claim.
* Profiles: the pages of an organization show a private profile of it to whoever is
  logged in (`players/service.go` lines 92-164, where the comments say "any authenticated user").
* Profiles and squads: a stale PATCH by the staff revives a player that was deleted or a
  team that was disbanded; members can be added to a disbanded team.
* Media: two uploads of one content leave the loser's objects without a row.

## What is not modelled

* Pure I/O and presentation: pages and forms, e-mail rendering, image processing,
  configuration, metrics, health, deployment; `sqlc` is generated from the queries, and
  appears in the map only where a query is what an action does.
* `rankings`, `news`, `public`: read-only aggregation and CRUD over one row.
* Two tabs of one match (a hazard without a property so far), and the part of the score
  display that adds the actions still queued.
* Retry *rates*, expiry dates and windows: the models have no clock beyond "the lease
  lapsed", "the token expired", "the grant expired".
* Cycles of links: `validateLinkage` refuses only a link to oneself. Nothing here says
  that a bracket linked by hand can be played to its end.
* The order the seeding strategies give the entrants, and the descriptive fields of
  every row.
* The rate limiter.

## The plan

Done: every component listed with a module above is modelled and checked, and every safety
property the runs check is proved. Next, in this order:

1. `TwoTabs`: a second driver over the same localStorage key.
2. The optimistic part of the score display, the rate limiter, the seeding strategies.
