# SalesArena API: a TLA+ verification project

Specifications of the Go backend in `../src` (Gin, MongoDB, Redis): TLA+ modules
translated from the source, TLC configurations for small instances, and TLAPS
proofs for all instances. `PROJECT.json` lists components, runs, hazards,
theorems and, for every definition, the source lines it stands for. File and line
references below are to `src/`; `service.go`, `store.go` and `cache.go` are those
of `internal/service`, `internal/store` and `internal/cache`.

    tlasany M.tla                            # parse
    tlc -workers 2 -config X.cfg M           # model-check (table below)
    tlapm M.tla                              # check the proofs of a *Proofs module

## 1. The system

Every request is handled by a goroutine of its own. There is no in-process shared
state: handlers meet only in MongoDB (one document is updated atomically, there
are no transactions) and Redis (one command is atomic). So every difficulty is in
what falls between two store calls: other requests, midnight, a call that fails
(with or without its effect), the death of the process.

| Component | State it keeps | Operations | Meets others through |
|---|---|---|---|
| Daily login and streaks (`service.go` 206-306) | `users` streak fields, LOGIN events, login part of the rollup, Redis `login:<bda>:<date>` | Login, recordLogin | all stores; the read cache by `Invalidate` |
| Activity ingestion (310-404) | lead events, rollups | RecordLead, RecordCalls, normalizeDate | the rollups login also increments |
| Read cache (`cache.go` 75-111) | `cache:ver`, `cache:v<ver>:<name>` | GetJSON, SetJSON, Invalidate | every cached read and every write |
| Sessions (`cache.go` 36-61, `middleware.go`) | `session:<token>` with a sliding TTL | save, look up and slide, delete | login, requireAuth, logout, reset |
| Start-up, seeding, demo reset (`main.go`, `seed.go`, `service.go` 972-985) | all collections, all of Redis | count, seed, drop, flush, reseed | everything that runs meanwhile |
| Ranking and boards (`service.go` 64-162, 561-725, 729-902) | none | board, quarterBoard, TeamOverview, NoticeBoard | rollups, the clock |
| Overview, activity feed, daily report (408-556, 671-725) | none | reads that put a response together from several queries | users, rollups, events, the clock |
| Registration (934-968) | `users` | CreateBDA | boards; the unique email index, which a reset drops |
| HTTP, auth, config, document types | none | binding, roles, bcrypt, environment | |

What makes each of them correct, and what is hard about it:

* **Login.** A day's bonus is posted and credited at most once, whatever overlaps
  or fails; a streak is the run of consecutive login days; the user document is
  never ahead of the rollups; whoever is turned away by the lock can rely on the
  holder. Hard: five writes in a row to two stores, a lock that outlives a failed
  request, a user document read before the lock is taken, two readings of the clock.
* **Activity.** Totals and ledger agree but for requests cut off between their two
  writes; increments of concurrent requests are not lost; nothing is dated ahead.
  Hard: the two writes are not one, and the date is decided by one reading of the
  clock and the event's id by another.
* **Read cache.** A response misses no write but those announced while it was made, and
  stale responses go away. Hard: the version is asked for twice by one fill, every
  error of Redis is passed over, a reset makes the versions start again, and neither
  its seeding nor midnight bumps one.
* **Sessions.** What ended stays ended; a life is bounded; logout works. Hard: the
  look-up and the sliding of the expiry are two commands.
* **Demo.** A successful reset leaves the whole history; no lock outlives the award
  it stands for; a crash spoils no more than it must; an email has one account.
  Hard: nine calls in a row on data others are using, none undone when a later one
  fails, and an index that is gone while writers go on.
* **Boards.** Places follow the order; rank changes compare adjoining windows over
  one list of users; cycles agree with direct queries and a closed one is final;
  effort is never punished. Hard: several readings of the clock and up to six queries
  at different moments.
* **Reports.** The ledger shown explains the totals shown; what was acknowledged is
  shown; figures of one day go together; rollups and ledger balance, on seeded days and
  on recorded ones. Hard: reads and writers visit the collections in different orders,
  and seeding repeats the handlers' rules in a loop of its own.

## 2. Modules

    Rules ─┬─ Stores ─┬─ Login ────┬─ Reports
           │          ├─ Activity ─┤
           │          └─ Seed ─────┘
           ├─ Ranking ─ Boards
           └─ LoginBonus, which Login refines
    ReadCache      Sessions      Demo

    Login ── LoginProofs ───────┐
    Activity ── ActivityProofs ─┼─ ReportsProofs (and Reports)
    SumProofs ──────────────────┤
    Boards ─────────────────────┴─ BoardsProofs
    ReadCache ── ReadCacheProofs   Sessions ── SessionsProofs   Demo ── DemoProofs

A line to the right means EXTENDS. Each component's theorems are in a module of their
own; the proofs of Reports build on those of Login and Activity.

`MCLogin`, `MCActivity`, `MCReadCache`, `MCSessions`, `MCDemo` and `MCReports` add the
symmetry sets for TLC; `Boards` numbers its associates by name and is checked as it is.

**Rules** - the constants and `LoginPoints` of `internal/rules`.

**Stores** - what all handlers share: `users` (streak fields only), `daily`,
`events`, `ver` (`cache:ver`), `today` and `faults`. A date is the number of a day;
an event's `_id` is the tuple of fields it is formatted from: associate, date, type
and, for leads, the instant (`Stamp`): noon for an earlier day, the request's own
nanosecond for today. Two requests are taken to read different nanoseconds.
`Answers`/`Errs` end a call: an erring call may or may not have had its effect.

**Login** - `pc[r]` is the store call or clock reading request `r` is at, `loc[r]`
its local variables. One action per call of `Login` and `recordLogin`, in the
order of the code:

| Action | Code | Action | Code |
|---|---|---|---|
| FindUser, Verify | 206-223, and `today` at 253 | InsertLoginEvent | 286-294 |
| ReadYesterday | 257-262 | ReleaseLoginLock | 292 |
| AcquireLoginLock | 264-281 | UpsertLoginDay | 295-299 |
| RereadUser | 268-276 | SaveStreak, InvalidateCache | 300-305 |
| SaveSession | 225-233 | CurrentStreak (read only) | 95-107 |

`Die` drops a handler anywhere, `ExpireLock` is the 36 h TTL (not before the
next day), `Midnight` moves the day.

**LoginBonus** - the abstract promise of recordLogin: a ledger of postings, one per
associate and day, and credits that follow a posting, once, for its amount.
`Login!ImplementsBonus` is the refinement, mapping `posted` to the LOGIN events and
`credited` to `loginPoints` of the rollups.

**Activity** - RecordLead and RecordCalls the same way: `Submit` (binding, `mustBDA`),
`NormalizeDate`, `StampEvent` (the second reading of the clock), `InsertLeadEvent`,
`UpsertActivity`, `ActInvalidateCache`, `ReadRollup`. A body records a lead won or dropped,
a call, or talk time without a call, which the code takes too (`service.go:312`); its date
is overwritten once it is normalised. A retry is another request. What Login
has too is named with Act (`ActTypeOK`, `ActDie`, `ActServe`), so that Reports can extend both.

**ReadCache** - clients that read as often as they like, writers that write once, demo
resets, midnight. A fill is four steps: `ReadVersion` and `Lookup` (GetJSON), `Query`,
`Key` and `Store` (SetJSON). MongoDB is a counter of changes: writes (`ApplyWrite`),
the two of a reset (`DropData`, `SeedData`), and `Midnight`, after which a name stands
for other days. `Version` is "0" when Redis does not answer, and `FlushAll` makes it "0"
again. `bumps` and `flushes` count what the version forgets; properties use them.

**Sessions** - `ends[t]` is when the key of token `t` expires. `GetSession`,
`SlideExpiry`, `Handle`/`DeleteSession` are the steps of an authenticated request.

**Demo** - `boot` is where `main` is, `pc` where a reset, a login or a registration is.
Collections are sets of a few documents that stand for batches, `indexed` is the unique
index on email. MongoDB's ordered and unordered InsertMany differ here and do so in
the model; building an index over duplicates fails, and inserting without it does not.

**Ranking, Boards** - `Better`/`Before`/`RankOf` are the comparison of `rank`. `Boards`
computes one answer at a time, against rollups that other requests change: a
leaderboard in the steps of `board`; a team overview, which is a tile, a period, a board
and a quarter board; or a notice board, its months folded into cycles and cut by the
day of the first record (`CycleShown`). The cycle's sorted rows are modelled by the place
of each associate with a score, one more than the number of those sorted before it.

**Seed** - what `generateRaw` may draw for an associate (any history it can, with up to
five leads won and two dropped a day; the figures themselves are open) and the user,
rollups and events that `Run` makes of it, with the streak as the recursive function of
its loop. An argument bounds the records of a history for TLC; the proofs do without it.

**Reports** - Activity, Overview and DailyReport as lists of queries (`Queries`), one step
each, over any seeded history, while the requests of Login and Activity take their
steps, locks expire and midnight comes. The ledger is sorted by instants, and that of a
login may be on a later day than its date (`InstantBy`), as the clock is read once more
for it (`service.go:288`). Here Login and Activity are composed: they share `users`,
`daily`, `events` and the clock, as the handlers do.

Each module also has a few definitions marked *A slip*: plausible coding mistakes
(a dropped error, an off-by-one, a missing unique index). No specification uses
them. Put in the place of the definition they precede, each makes a property
fail (`PROJECT.json`, "mutants"); this is how we know that the property is about
that code.

### Abstractions

* Faults are counted, `MaxFaults` bounds them. A killed process is modelled per
  handler (`Die`) in Login and Activity, as a whole in Demo.
* Names, companies, teams and titles are left out. A call record adds one call or, alone,
  one unit of talk time; one that brings both is the two increments in one, and no property
  relates them. A seeded day has talk time as it has calls.
* Lock, rollup and event keys name their associate, and recordLogin touches one
  associate's documents only: one associate, and one manager for the branch without a
  reward, suffice for TLC. The theorems are for any number.
* In Login and Activity the seeded history is one login on day 0 at some streak, with
  `best` equal to `current`; Reports starts from any history of Seed.
* In ReadCache a response is as old as its first query; keys of different names never
  meet, so there is one name.
* In Boards a record appears in one step: its two writes are Activity's subject.
  Months have one length, the calendar starts with a quarter. A reading of the
  clock and the query up to it are one step: nothing is recorded ahead of a day, so
  midnight between them cannot be told from midnight after them. The same holds for the
  totals of an overview in Reports.
* In Reports one read is made in a behaviour, since reads leave nothing behind. Its
  cache entries are ReadCache's subject, its rankings Boards'.
* In Demo the logins of the day are those of one associate, and the registrations are
  under one email; a rollup's credit is a set member, so it is not counted twice there.
* `currentStreak` reads the clock twice in one goroutine with no call in between; it
  is evaluated at one moment.

## 3. Runs

| Run | Instance | Shows |
|---|---|---|
| `login_faults` | 3 logins, 1 associate, days 0-2, 2 faults, a request may see one midnight | CreditedOnce, StreakBacked, NewRewardIsTheCredit, GoesBackOnlyPastMidnight, refinement of LoginBonus (ImplementsBonus) |
| `login_days` | 3 logins, associate and manager, days 0-3, 1 fault, no request across midnight, fairness | LockExclusive, NoSpuriousFailure, StreakIsRun, StreakShown, AwardedUnlessFault, LockLeadsToCredit |
| `activity` | 3 requests (a lead; a lead or call record; a call record), days 0-2, 1 fault, fairness | RollupTracksLedger, AcknowledgedIsCounted, PointsAddUp, NothingAheadOfToday, AnswerShowsAcknowledged, RollupCatchesUp |
| `cache` | 1 reader, 2 writers, 1 reset, 1 midnight, 1 fault, fairness | MissesOnlyOverlapping, AnswersBecomeFresh |
| `sessions` | 3 requests, 2 tokens, TTL 2, 4 ticks, 2 faults | LifeIsBounded, LogoutEndsUnlessFault, GoneStaysGone |
| `demo` | 2 resets, 2 logins, 2 registrations, 2 faults or kills, any number of starts | TypeOK, ResetReseeds, LockMeansAward, OneLucklessStart, EmailsAreUnique |
| `boards` | 2 associates, ranges of 2 days and "all", 4 days in 2 quarters, 2 records | TypeOK, RankChangesCancel, WindowsMeet, CyclesMatchQuarters, TeamFiguresGrow, EffortNeverDemotes, ClosedCyclesAreFinal |
| `reports` | 1 associate with any 3-day history of logins and at most one lead or call, or none; 1 login, 1 lead or call record, 1 midnight, a range of 1 day, no faults | LedgerExplainsTotals, AcknowledgedIsShown, OverviewIsCoherent, NextLoginIsAsPromised, BestIsLongest, BooksBalance |

Four more runs each find one statement of the documentation violated (section 6).

Why these bounds are enough. *Login*: the protocol's hazards need a holder, a
loser and a latecomer (3 requests), the day of a login, the next and the one
after (a streak lives through one of them and dies in the other), and one fault
to break an award plus one to break its repair. Streaks start at 11 where the
bonus reaches its cap, or at none. A request may see one midnight in `login_faults`, which
is what a stalled save needs. *Activity*: two leads collide in an id or a rollup, and two
call records increment one counter between an upsert and its answer: the second request is
either. *Cache*: a fill has to
overlap one write, and the entry it leaves has to be met by another write, a flush or a
midnight; one fault loses a bump, a store or a version. *Sessions*: TTL 2
separates "slid" from "saved again"; four ticks let a session be slid and still
run out. *Demo*: a kill and another inside its repair; two registrations for an email
that is there twice, two resets of which one undoes the other's index. *Boards*: a
window of 2 days tells n from n-1 and leaves a window before it within the calendar,
day 3 starts a second quarter, two records tie or separate two associates. *Reports*: a
login and a lead each write event and rollup across a read's queries, or a call record its
rollup alone; three seeded days, the last without a login, and the days after it hold a
run, a gap and a new run; a chart of 2 days and a feed of 2 entries are both cut off. One
seeded lead or call tells a seeded day from an empty one; that a day may have up to seven
leads, which share a rollup, is left to the proofs.

The inductive invariants of the proofs (`LoginInv`, `DayInv`, `LockInv`, `ActInv`,
`CacheInv`, `SessionInv`, `DemoInv`, `BoardInv`; in Reports `Writers`, `ReadInv`,
`AckedStand`, `FiguresStand`, `Promised`, `BestInv`) were checked with TLC while they were
written. The runs check what follows from them; type invariants of Login, Activity,
ReadCache and Sessions are proved and not run again.
`login_days` and `reports` set `MaxLag = 0`: their properties about streaks are about
requests that are served within a day, and `login_midnight` shows that `StreakIsRun` needs
this. What a request that sees midnight may do is the subject of `login_faults`.
The cfgs of Login, Activity, Sessions and Demo switch deadlock checking off: their
requests are finite, and when all are answered and the calendar or the fault
budget is used up, the system rests. Cache and Boards never stop.

### Fairness

`Login!FairSpec` and `Activity!ActFairSpec` assume weak fairness of each request's own
next step once it is being served: a goroutine that is not killed goes on, as every driver call returns or
fails. `Die`, `Midnight`, new requests and faults are not fair. `ReadCache!FairSpec`
adds that Redis drops a key when its TTL ends (that is a clock, not a choice); nobody
needs to read or write, and a reset or midnight need not come. Demo claims nothing that
needs a restart to happen: no restart policy is in the repository.

## 4. Proofs

Every safety and action property of a passing run is a theorem, for every value of the
constants under the named assumptions (`StoresAssumption`, `LoginAssumption`,
`ActivityAssumption`, `ReadCacheAssumption`, `SessionsAssumption`, `DemoAssumption`,
`BoardsAssumption`, `ReportsAssumption`), which TLC evaluates in every run. They say that
bounds are numbers and sets of identifiers are disjoint; the one with more content is
`HistoryDays \in 2 .. MaxDay + 1`: the code's constant is 480 days (`seed.go:20`), of
which the last is today, and the calendar of the model holds them.

* **LoginProofs**, first half: `TypeCorrect`, `LoginInvariant`, `BonusIsBacked`
  (CreditedOnce), `StreakIsBacked`, `NewRewardIsCredited`, `LoginImplementsBonus`.
  CreditedOnce is not inductive: the rollup step adds to what is there, so one needs
  that nothing is there, which needs that only one request can be past the insert
  for a key (`OneClaim`), which holds because each such request's event is in the
  ledger (`RequestOK`), and the ledger has one LOGIN per associate and day
  (`LedgerOK`, from the unique `_id`). The lock is not used: it may have been
  lost or released, and the theorems hold all the same. `RollupOK` ties a marked day to its
  event, `StreakBacked` the user to the marked day. There is one lemma for each group of
  actions; lemmas about frames (`RequestFrame`, `QuietStep`) cover the actions
  that touch neither ledger nor rollup.
* **LoginProofs**, second half: `LockHasOneHolder`, `LoginsDoNotFail`, `StreaksAreRuns`,
  `StreaksAreShown` for requests served within a day (`MaxLag = 0`), `AwardsFollowLocks`
  and `StreaksGoBackOnlyPastMidnight` for any `MaxLag`. What the first four need and LoginInv lacks
  is `OneDay`: a request has no date but today's, the lock of a holder is there, and the
  user document it read is what the store has unless a login of today was saved since
  (`UserFresh`). With the stores up (`faults = 0`) `QuietDay` adds that a LOGIN event of
  today is under its lock (`LedgerLocked`), that an event is in the user document or its
  request is about to write it (`LedgerSaved`), and that a request before its insert is
  the first to post, at the ledger's streak (`FirstToPost`).
  AwardsFollowLocks rests on `LockStands`: the lock of today has its points, or a holder.
  StreaksGoBackOnlyPastMidnight rests on `HeldInv`: the user document a request holds is of
  a day posted before the request began, and is the store's as long as both show one last
  login (`HeldOK`); and nobody holds or stores the day a request is about to save
  (`Unsaved`). So a save that takes something back meets a login it has not seen, and if
  neither of the two was served past midnight they would be of one day, which is posted once.
* **ActivityProofs**: `ActivityTypes`, `PointsAlwaysAddUp`, `NothingIsAhead`,
  `AcknowledgedStaysCounted`, `RollupsTrackTheLedger`, `CallsAnswersAreCurrent`. The
  argument is one of counting. The requests that have come are finitely many
  (`FinitelyMany`); those past their increment are no more than the counter says
  (`Acknowledged`); and the ledger holds what the counter says plus the requests about to
  count, and at most those that failed besides (`Tracked`). A step moves one request from
  one set to another, and the cardinalities follow by FiniteSetTheorems.
* **DemoProofs**: `DemoTypes`, `ResetLeavesHistory`, `LocksMeanAwards`,
  `EmailsStayUnique`, `StartsRecover`, each from a part of `DemoInv`: `SeededSoFar` (what
  a lone reset has put back at each step), `LockBacked` (outside a reset's wiping, a lock
  has its award or a request that gets there), `EmailsGuarded` (the index admits one account of the email,
  a process that serves has the index but for a reset that took it away, and two accounts
  are there only with such a reset), `LuckReturns` (a start that broke off by itself leaves users
  behind, so the next seeds nothing).
* **ReadCacheProofs**: `CacheInvariant`, `MissesOverlap`. A fill has seen every write that
  was announced before it began (`Saw`), and the entry keeps what the fill saw;
  versions repeat after a flush, so an entry's era is compared before its version is.
* **SessionsProofs**: `SessionTypes`, `SessionLifeIsBounded`, `LogoutEndsSession`,
  `EndedSessionsStayEnded` from `SessionInv`: a request past its look-up carries an
  issued token, and a token is saved once, so only EXPIRE, which needs the key, can
  touch it again.
* **SumProofs**: what the library's sums and extreme elements are, over finite sets of any
  size: a sum is a number, adds up over a partition, moves with one term, grows with
  its terms. Induction is replaced by a smallest counterexample: a statement about all
  finite sets is about the sets in one SUBSET, and of those for which it is wrong one is
  smallest (`SmallestSet`); removing one element from it gives the contradiction.
* **BoardsProofs**, in the order of its sections:
  - `Before` is a strict total order on any totals, hence `RankFollowsOrder`,
    `RanksAreDistinct`, and `BetterNeverDemotes`: totals that do not get worse do not cost
    a place.
  - `BoardWindowsMeet`, from the order of the clock readings (`ClockOrder`): on one day
    all of them agree.
  - `BoardInvariant`, with `BoardTypes`, `ChangesAlwaysCancel` and `TeamFiguresAlwaysGrow`
    as its parts. Ranks of one list are a permutation of its places (`PlacesAreAll`), so
    two of them have the same sum, whatever was recorded between the windows; on one day
    each figure of a team overview is a sum over more keys, or over the same keys later,
    than the one read before it, and counts only grow.
  - `EffortIsNeverPunished`: a record changes one associate's totals over any window, and
    not for the worse (`RecordRanks`); then BetterNeverDemotes.
  - `CyclesAlwaysMatch`: the months of a quarter partition its days (`DaysOfMonth`,
    `DaysOfQuarter`), so a sum over them in groups is the sum over the quarter
    (`SumOfGroups`), with today's month cut off on both sides; and to rank all
    associates, drop those without a score and number the rest again is to rank the rest
    (`PlacesAmongScored`).
  - `ClosedCyclesStayFinal`: a record outside a quarter changes no total in it, and the
    first record only moves back (`FirstRecord`), so that a shown cycle stays shown.
* **ReportsProofs**, for any seeded history and any writers beside the read:
  - `WritersInvariant`: LoginInv and ActInv hold together. Each was proved of its own
    module's steps; what is new is that a step of one kind of request leaves the other's
    books alone (it adds events of other types, and other fields of a rollup), and that a
    history of Seed satisfies both at the start: the streak that Run's loop carries is the
    length of the run of login days that ends there, by a least day for which it is not.
  - `ReadInvariant` and `LedgerAlwaysExplains`: rollups are read before the ledger,
    and writers insert into the ledger first, so a row that was read (`RowsStand`) has its
    events by the time the ledger is read (`Explained`).
  - `AckedInvariant` and `AcknowledgedIsAlwaysShown`: what was acknowledged when the read
    began is in the rollups it has read or will read; a day with leads or calls is not left out.
  - `FiguresInvariant` and `OverviewIsAlwaysCoherent`: while the day lasts, user, tile,
    streak and totals were each true when read and are bounded by what is in the store now.
  - `PromisesInvariant` and `NextLoginIsAlwaysAsPromised`, `BestInvariant` and
    `BestIsAlwaysLongest`, for `MaxLag = 0`, with DayInv carried over to the composition
    (`DayInvariantBesideActivity`): the streak a view showed is that from which the award
    is computed (`Promised`), and `best` is the largest streak in the ledger, up to the
    one being saved (`BestPosted`, `BestSaved`).
  - `BooksAlwaysBalance`, for any `MaxLag`: a step leaves the books alone, posts an event that
    its request has yet to count, or counts one (`LeavesBooks`, `PostsEvent`, `CountsEvent`),
    and each keeps the sum (`BalanceKept`, by SumProofs). Two requests are never about to
    count one event (`LeadsPosted`; `OneClaim` for logins), or the second would count what
    the first took off. A seeded day balances since its leads are numbered: the sum over
    five or fewer events of an outcome is their number times the points.

Only model-checked: liveness (LockLeadsToCredit, RollupCatchesUp, AnswersBecomeFresh) and
the four disagreements of section 6. Liveness under fairness, and anything about ENABLED, are
beyond the prover. It cannot instantiate an induction theorem either, nor see into
the library's sorts and filters of sequences: hence the smallest counterexamples above,
and places stated as counts. No module declares a RECURSIVE operator; Seed's streak is a
recursive function, unfolded once per day.

## 5. What is not modelled, and why

* Overview's achievements, TeamOverview's watchlist and the lists it cuts to five or three,
  Roster's sort and figures (its board is that of "all" time): selections from totals
  that Boards and Reports already read, with no state and no further query.
* CreateBDA's validation and its id from `UnixNano`; only its email matters to Demo.
* Routing, status codes, role checks (`requireRole`, `requireSelfOrBDM`): stateless.
  bcrypt, crypto/rand, environment variables. The seeded figures (the random generator):
  pure data, and any figures are allowed instead.
* A restart policy: none is in the repository, so that a start ever succeeds is not
  claimed, only how many in a row can fail by themselves.
* Hazards without a property of their own are in `PROJECT.json` with the reason: a double
  credit and a session across a reset, which need Demo composed with Login and Sessions.

## 6. Disagreements between code and documentation

Each has a run in which TLC shows the shortest behaviour.

1. `login_exactly_once`: SETNX sets the day's lock but reports an error, and recordLogin
   returns it without releasing the lock (`service.go:264-267`): no event, no points, and
   every later login of the day is told that it is not new. The comment at 252 says "exactly
   once". At most once is what holds (and is proved). A failed UpsertDaily at 295, or a
   death after the lock is taken, breaks it too: the lock stands and no points are credited.
2. `login_midnight`: one login with midnight between its two readings of the clock
   (`service.go:254` and 255) takes the day itself for yesterday and restarts a live streak
   at 1 (README.md:84). The model has a wider window besides: a login that reads its user
   before midnight and the date after it, while another login of the old day is saved.
3. `activity_backdated`: two leads of one outcome for one earlier day get one event id
   (`service.go:358`); the second is a 500 (README.md:100).
4. `cache_orphans`: a fill that overlaps a write stores the old response under the
   new version (`cache.go:110`; comment at 77). It lives for one TTL.

Also met, and described by the model without a run:

* Logout drops the error of the deletion and answers 204 (`handlers.go:58`; README.md:94);
  LogoutEndsUnlessFault says what can be relied on.
* A login stalled over midnight between its reading of the user and UpdateUserStreak
  (`service.go:300`) writes its day over a later one and takes `lastLoginDate`, the streak and
  `bestStreak` back to what it computed; GoesBackOnlyPastMidnight says that it takes no less.
* Activity leaves out a day without events and calls (`service.go:547`), talk time or not: a
  record of minutes alone is acknowledged (`service.go:312`) and its day is not listed,
  although README.md:98 says the full ledger. AcknowledgedIsShown excepts it by name; the
  daily report shows it.
* The login that loses the lock re-reads the user before the winner has saved it, and so may
  answer with the streak of before the award (`service.go:270`).
* A reset flushes Redis before it seeds and bumps no version after (`service.go:976`), and
  midnight bumps none either: a response of before is served until its TTL ends.
* Activity lists the days that have a rollup: the entry of a lead whose rollup failed is not shown
  until something else is recorded on its day (`service.go:542`), although README.md:98 says the
  full ledger.
* After two accounts have been registered under one email while a reset had dropped the index
  (`store.go:349`), every later start and reset fails in ensureIndexes.
* A record for a date before the first one moves MinDate back, and with it the cycles shown: a
  quarter that was hidden as partly recorded appears (`service.go:832`).
* A login across a reset may credit the new history for an event the reset dropped, and another
  login of the day, its lock flushed, may credit it again (`service.go:974`).

## 7. Plan

Done, in this order: Rules, Stores, Login with LoginBonus, ReadCache, Sessions, Demo,
Ranking and Boards; then Seed and Reports, the team overview and the notice board,
registration and indexes in Demo, resets and midnight in ReadCache; then proofs of every
safety and action property that a run checks. What is left, most important first:

1. *A composition* of Demo with Login across a reset, with rollups that count, in which
   a double credit can be told, and with Sessions.
2. *An abstract cache* (a register that may lag by a bounded time) that ReadCache
   implements, and an abstract session that Sessions implements, each with its proof.
3. *Boards with the two writes of a record*, so that what holds of a board while a record
   is half made is told from what holds of the rollups.
