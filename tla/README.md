# A TLA+ model of Amarre

Amarre is a console that watches, over SSH, whether a fleet of servers is still
backed up by restic. It collects the state of every host periodically, lets
operators ask for an operation on a host, browses snapshots, and shows what it
knows. It is one Go process with a SQLite base; each host runs a shim that
answers verbs (`status`, `check`, `backup`, `tree`, ...) and its own backup timer.

This directory models that process: its concurrent core, the evaluation that turns
what was collected into the states shown, and the history of these states. TLC
checks the models on small instances, and TLAPS proves the main invariants for any
value of the constants.

## Inventory

| Part | Source | State | Operations | What is hard | What makes it correct |
|---|---|---|---|---|---|
| SSH pool and remote call | `internal/fleet/pool.go`, `Client.run` in `fleet.go` | `conns`, and per connection client, `sem`, `last`, `dead` | get, dial, drop, reap, the `Wait` goroutine; run: slot, session, retry, output | dials outside the mutex, drop by key, retry that shadows `pc`, idle closing, connection lost or silent at any step | slots are given back, no connection is orphaned, only calls that wait for a silent peer fail to return |
| Snapshot trees | `internal/collector/trees.go`, `fleet/tree.go`, `Browse` | `trees`, `used`, `loading`, `nodes` | Tree, evictLocked, InvalidateTrees, fallback on ls | single flight with failing leaders, eviction loop under the mutex, invalidation against loads under way | maps and counter agree, one load per key, no lost waiter, bounded memory |
| Collection | `internal/collector/collector.go`, `internal/store/store.go` | `bo`, `limit`, tables `checks` and `host_meta` | Run, CollectAll, collectOne, Fleet | overlapping collections, partial failure, a cycle as slow as its slowest host, restarts | never a false "ok"; the view converges to the truth; cycles go on |
| Backoff | `due`, `noteFailure`, `noteSuccess` | `fails`, `nextTry`, the ticker | same | shift, cap and strict comparison against a ticker; operators in between | failures spaced out, host not forgotten |
| Operator actions | `Collector.Action`, `postAction` | `running`, table `audit` | claim, run the verb, journal, collect, release | double clicks, failures, process end | one operation per host, outcome in the journal |
| HTTP probe | `internal/collector/probe.go` | none | three spaced attempts | shares the 60 s of collectOne with five SSH calls, and its end when the process is stopped | no alarm without all the attempts, while there is room for them |
| Sessions and login | `web/server.go`, `store.go` | table `sessions`, cookies | login, logout, page, checkCSRF, purge | expiry between two reads, two tabs, changed address | a valid form is accepted, an expired session is nobody |
| Login limiter | `auth.Limiter`, `postLogin` | the dates of the attempts of an address | Allow, Reset | clients that share an address, a reset while others are verified, the edge of the window | few attempts in a window; a lockout ends |
| Health evaluation | `collector/sante.go`, `fleet/health.go`, `getFleet` | none; reads `checks` and `host_meta` | Evaluate, Combined, SanteFleet | reads while collections write; old reports against today's date | pages do not contradict each other, the worst wins, time never heals |
| Health history and timeline | `collector/timeline.go`, `store.go` | table `health_history` | record, purge, cells, episodes, bars | boundaries of buckets, retention against windows, three displays made of two readings | no point shown is lost; the displays agree |
| Response cache | `collector/cache.go` | a map | get, invalidate | its readers are not called by anything | - |
| Explorer script | `web/static/explorer.js` | the listing and the address of one page | fetch, popstate | answers out of order | - |
| Pages, charts, configuration, QR, command line | the rest | none that lasts | - | - | - |

The parts meet as follows. `Run` (one goroutine) starts a goroutine per host that
calls the pool through `fleet`; an HTTP request for an action starts a goroutine
that does the same and also collects; an HTTP request for a tree goes through the
tree store to the pool. The pool and the tree store each have a mutex; `running`
has its own; the tables are written one statement at a time. Nothing else orders
them: the periodic collection of a host and the one of an action may overlap. The
pages and the end of each cycle read the tables one statement at a time, too, and
evaluate what they read; the end of a cycle writes the result in the history.

PROJECT.json lists the hazards one by one, at their lines, with the properties
that cover them.

## Modules

Each module states one component: its variables, one action per step between two
points where another goroutine can interleave (a critical section is one step, a
call to a host is a step), its properties, the strengthened invariant used by the
proofs, and last the properties that comments of the code state and the code does
not satisfy. Definitions whose name contains `Mut` are variants that a plausible
bug would give; they are used by nothing in the specifications.

| Module | Models | Composed of / used by |
|---|---|---|
| `Pool` | one key of the connection pool and the calls of `run` on it | `MCPool`, `PoolProofs` |
| `TreeStore` | the tree store, requests inside `Browse` | `MCTreeStore`, `TreeStoreProofs` |
| `Collector` | Run, collections, actions, `checks`, `host_meta`, `audit`, restart | implements `Operations`; `MCCollector`, `CollectorProofs` |
| `Operations` | abstract: what the console promises of the operations it is asked for | instantiated by `Collector`; `CollectorProofs` |
| `Backoff` | the backoff of one host against the ticker, with a clock | `MCBackoff`, `BackoffProofs` |
| `Sessions` | sessions, login and CSRF tokens, for the tabs of one browser | `MCSessions`, `SessionsProofs` |
| `Sante` | the evaluation of a host: alerts, state, combined state | extended by `Supervision` |
| `Probe` | the results the HTTP probe may return for what is left of the context | instantiated by `Supervision` |
| `Supervision` | a collection that writes against a page that reads, and days that pass | composes `Sante` and `Probe`; `MCSupervision`, `SupervisionProofs` |
| `History` | the points, their retention, cells, episodes and bars | `MCHistory`, `HistoryProofs` |
| `Limiter` | the login limiter, for the clients of one address | `MCLimiter`, `LimiterProofs` |

### Pool

The keys of the pool share only the mutex, so one key is modelled. `entry` is
`p.conns[key]`, `client`, `dead`, `watched`, `idle` and `sem` are the fields of a
`conn` (`idle` says that `last` is more than `idleTTL` ago; `watched` that the
goroutine of `client.Wait` has not run). A caller's `pc` follows `run`; `conn` is
its local connection, `held` the connection captured by its deferred receive,
`attempt` whether it is in the retry branch. Identities of connections are used
again once nothing refers to them. What `run` answers (exit codes, texts) is
abstracted: nothing of the state depends on it. The environment may lose a
connection, refuse a channel, or let an open session wait for longer than
`idleTTL`; each costs a fault. A peer may also stop answering in the handshake or
in `NewSession`, which have no deadline and look at no context (`Silence`;
`silent` has the callers that wait for it), and may answer later or never
(`Answers`). `CallsReturn` says who pays for it: the calls that wait for that peer,
and those that wait for slots which such calls hold, all of them; the others end.

### TreeStore

A key is a host and the `snap` parameter (`Keys` is the set of those asked for);
a tree is the version of the repository
it shows and its number of entries. `used` keeps, instead of a date, the set of
the keys dated earlier, since only the order matters (two equal dates, which the
code resolves by map order, are taken in some order). `evictLocked` is written in
closed form (`Evicted`), which the actions use; `Turn` is one turn of the loop as
the code has it, `Turns` the maps and the counter after each turn, and
`EvictedIsTheLoop` says that in every reachable state, whatever the size of the
incoming tree, the loop ends after at most one turn for each tree and leaves what
`Evicted` says. A backup makes "latest" another tree. Every
verb that succeeds from the console leads to `InvalidateTrees`, as a later step.
The steps of a request are `Local` or `Remote`: a call to a host may never return
(see Fairness), so `BrowseReturns` says that a request is answered unless it is, or
waits with `wg.Wait` for, a call that never does (`Kept`).

### Collector

A snapshot is the number of the backup that made it; `expired[h]` is the number
of the last one older than `Expect`. A worker is the goroutine of a host in a
cycle, or of a request; `stage` is where it is in `collectOne`, `chk` the row it
is going to insert, `next` the metadata it asks next. `row[h]` is what
`LatestChecks` returns (`Never` without row, `Unreachable`, or a backup number),
`meta` which state of the repository the stored metadata show, `probe` and
`probed` whether a probe result is stored and whether one is configured. `Kinds`
is the list of metadata; the instances take one of the five or none, since the
steps are alike. The answer of a host and the write of it are two steps (`MetaOK`
keeps it in `seen`, `SaveMeta` writes it), so that a collection may write an older
answer over a newer one. Writes fail like calls do: `SaveFails`, `ProbeUnsaved` and
`RecordFails` leave the old row, and an entry of the journal that could not be
inserted is dropped (`Journal`; `lost` has the requests this happened to). A call
that hangs (`CallHangs`, `VerbHangs`) keeps its goroutine, its place in `limit` and
its host. The `ok` of a refresh is TRUE from the start, as the code's `err` is nil.
`Refuse` is `ErrBusy`; unknown hosts and verbs, refused before
any state changes, are left out. `Restart` forgets what is in memory, keeps the
base, and may read a configuration that probes other hosts; a request under way is
"cut".

`Operations` says what an operator may rely on: who a host is worked on for, and
what became of each request. `Collector` implements it under the mapping at its
end: the holder is `running[h]`, a request is "working" from its claim to its
release, and its outcome is the one the journal has when it is released, or "lost"
when that insert failed. Only a step that counts an end of the process (`ends`, the
`crashes` of `Collector`) cuts operations short. Every other step of `Collector`
stutters there. A process that ends after the outcome is written and before the
release shows that outcome.

### Backoff

One host, a clock, the ticker with its channel of one tick, cycles that last up
to `MaxCycle` because of the other hosts, and operators' collections that count
in the same entry. It is the life of one process: `bo` is in memory, and a restart
is `Init` again (`Collector` has the restarts). That a cycle is bounded assumes that
no handshake or `NewSession` hangs; `collector_hang` has what happens when one does.
So what `NotForgotten` says holds while none does. `noted` and `log` are histories.
The shift is a table of powers of two; the assumption is that it does not overflow int64, which holds for
any interval under 400 days. `Budget` is the number of failures whose waits, one
after the other, fill `maxBackoff` (`BudgetAssumption`): four with the six hours of
the code and its default interval of fifteen minutes.

### Sessions

One browser: the rows are found by the session cookie alone, so browsers share
nothing here. `jar` is its cookies, shared by the tabs, `form` what each tab
shows. A request (`req`) carries the cookies, the address and the token of the
form as they were when it left; each statement of a handler on the base is one
step (`requireAuth`, `page`, `checkCSRF`, `currentUser` again, the UPDATE or the
DELETE), and the answer sets cookies and form when it arrives (`Arrive`). Tokens
are model values that may be drawn again once nothing mentions them, which is
what drawing 32 random bytes amounts to. The session cookie and its row expire
together (the second or so between them is neglected). Wrong credentials and a
refusal by the limiter have the same effect on this state: a new login form.
Redirections lead to a blank tab, from which any request may follow. `legacy` is
a session from before the `csrf` column was added.

### Sante, Probe, Supervision

`Sante` is `Evaluate` group by group: each gives the set of its alerts (level,
subject, item), so that counting levels and taking the worst are the code's own.
Dates are days; percentages and counts are numbers and keep their thresholds. A
message is the set of the words `checkKind` looks for. `Count` counts distinct
alerts: two of a level and subject differ in their item, and only whether a count
is zero decides a state.

`Probe` gives the set of the results of `probeHTTP` for what is left of the
context, in units of four seconds (12 s, 8 s and 60 s are 3, 2 and 15): each
request takes up to its timeout, is answered or not, and the pause ends by itself
or with the time of the context. The context also ends with its parent, that of the
process, when it is stopped: `Cancelled` adds the results of that, after any number
of attempts and with time left. An `http_check` that cannot be parsed is "down" after
one attempt (`ProbeHTTP`). `Request` is one request and what may follow it, `ProbeFrom`
their recursion as a function, so that it can be proved about. A result keeps its
number of attempts and what it left, which `Findings` turns into the Boolean history
that `DownIsEarned` reads: down is for all the attempts, spaced out, or for a context
that ran out after the SSH calls had left it less than the 52 seconds they need, or for
a process that is being stopped, or for an address that is none.

`Supervision` interleaves the writes of `collectOne` (report, probe, row) with the
reads of `getFleet` (the rows; then by `SanteFleet` the rows again, the report,
the probe) for one host, with days in between. `stopping` is a cancelled context,
`usable` whether `http_check` can be parsed; `Stop` and `Restart` change them. Writes
may fail, and so may reads: a report or a probe that cannot be read or decoded counts
as missing (`blind` says so of the report, `ProbeRead` has both readings of the
probe), and when `SanteFleet` fails the fleet page is made without it ("alone").
`PageIsHonest` then asks the page to answer for what could be read (`Heard`).
`always` and `moved` are histories of the reading: the alerts that stood at all its
moments, and whether they changed. The instance has three reports: one in order; one
with a lock known by its message only, a deep check that failed, a disk almost full
and security fixes that wait; and a support that ends.

### History

A tick is the date of a point, one row at most for each. `Cycle` is the end of a
cycle (record, then purge, except for the first of a process), `CycleUnread` one
where the base could not be read. A page is made in four steps between which cycles
write, purge, and time passes: `Timeline` takes the time (`asked`), `ReadSeries` reads
the points of the window (`pts`), `Bars` takes the time again (`again`), and `Render`
reads the points again for the bars and ends the page. The cells and the episodes are
those of the reading `ReadSeries` makes, and are evaluated just before it (`at` =
"series"); the bars just before `Render` (`at` = "slots"). `Slack` bounds the time
between the first reading of the clock and the last reading of the points: a page
takes less than the day by which the retention exceeds the fourteen days of the bars.
The current hour may differ between cells and bars, since a point may come in
between; `DisplaysAgree` asks that they agree on every hour that was over when the
page was asked for. `log` is what was ever recorded, with which the displays are
compared. The episodes are a
fold of the loop's body (`EpisodeStep`) over the points by date, the order
`HealthSeries` gives them in. `summary` is left
out: it is not empty for a state out of order, so the branch of `episodes` that
fills an empty cause is never taken. Percentages are integer quotients; the
code's go through `float64`, which can be one less when there are fifty hours or
more. What `SharesAreFair` says of them is true of both: a share out of order is never
overstated, and understated by at most one.

### Limiter

An attempt is its date and a number that tells it from others of the same tick.
`Allow` (with `Refuse`, its other result) and `Reset` are one step each, under the
mutex; a client is in between while its credentials are verified. `allowed` and
`resets` are histories.

## Runs

| Run | Bounds | Result |
|---|---|---|
| `pool` | 2 callers, 2 connections, 1 slot, 2 faults | `TypeOK`, `TokensReturned`, `NoOrphanConnection`, `SessionsWithoutSlot` hold; `CallsReturn` holds with the exception it states for silent peers |
| `trees` | 2 requests, 3 trees of 2 hosts, one backup by a timer, one verb | the seven invariants hold; `BrowseReturns` holds with its exception for calls that never return |
| `trees_forget` | 1 request | `ForgottenAfterBackup` violated: a load under way stores its tree after `InvalidateTrees` |
| `collector` | 1 host, 2 requests to back up or to refresh, no metadata, 2 backups, a fault or a hang, a restart; symmetry | `RunningIsExact`, `NoFalseOK`, `NoStrayCollection`, `JournalIsComplete` hold; `OperationsAreSerial`: the actions implement `Operations` |
| `collector_live` | 1 host, 1 request, 1 kind of metadata, 2 backups, a fault, a restart | `TypeOK`, `ViewConverges`, `StaleProbeGoes`, `CyclesGoOn` hold |
| `collector_hang` | 2 hosts and one place in `limit`, a call that never ends | `CyclesGoOn` violated: a hung handshake or `NewSession` of one host stops the cycles of all |
| `sessions` | 2 tabs, 2 sessions, 3 tokens, a change of address; symmetry | `TypeOK`, `PagesStayUsable`, `ActsUnderItsOwnSession`, `EndIsFinal` hold |
| `sessions_login` | 1 tab, 1 session | `LoginFormIsAccepted` violated: after a change of address the login form is refused |
| `backoff` | period 2, cap 12, cycles up to 3, 2 operators' collections, time up to 26 | `TypeOK`, `SpacedOut`, `FewFailures`, `NotForgotten` hold |
| `supervision` | 1 host, 3 reports, a certificate or none, 3 days, stops and restarts, the three attempts and sixty seconds of the code | `TypeOK`, `PageIsHonest`, `DownIsEarned`, `TimeNeverHeals` hold |
| `history` | windows of two intervals of 1 tick and of one of 3, bars of 3, retention 4, slack 1, 6 dates | `TypeOK`, `NothingShownIsLost`, `DisplaysAgree` hold |
| `limiter` | 2 clients, 2 attempts in a window of 3 ticks, 6 ticks, 5 attempts; symmetry | `TypeOK`, `FewTrials`, `LockoutEnds` hold |

The violations are disagreements between a comment and the code, quoted in
PROJECT.json under `findings`.

Why the bounds are enough. In the pool a connection that dies under one caller
while the other dials, queues or retries takes two callers and two connections,
and one slot makes them queue; what holds of more of them is proved (below). In
the tree store the two requests take the roles of leader and waiter, or load
different keys; `MaxNodes` = 4 against trees of 1, 2, 3 and 5 entries makes
evictions of none, one and several trees and a tree too large, and the second
host keeps its tree when the first is invalidated. In the collector two requests
and a cycle make all overlaps of collections of one host; the run for safety leaves
out the metadata, which no invariant there mentions, and the run for liveness has one
kind, written by a cycle and by a request in any order. Hosts only share `limit`,
which nothing but the order of the cycles depends on: that two of them contend for it
is exercised by `collector_hang` only, since two hosts with requests, metadata and a
restart exceed the time of a run for liveness. A disabled host takes no part in the
cycles and is left out of the instances. In the sessions one tab does what the
other does not expect, with the session before and the session after a logout;
three tokens are those of a row, of the cookie and of an old form. In the backoff
a cap of six periods is reached by the third failure, and cycles longer than a
period drop ticks. In the supervision one collection before the page, one during
it and one after take every pair of reports on both sides of each read, and the
days cross the thresholds of the dates in the reports; a stop, an address that cannot
be parsed and reads that fail come at any step. In the history the ticks
exceed the retention, so that points are purged while a page is made, the window of one
long bucket is asked for in the middle of it, and the one tick of slack lets the hour
change between the two readings of a page. In the limiter a window is left and filled
twice. The bounds that cut counters (`MaxFaults`, `MaxBackups`,
`MaxTime`, ...) are in the guards of the actions and named as bounds in the
modules.

Deadlock is checked everywhere except where the system may really stop: in
`collector` and `collector_hang`, where a hung call ends all activity.

### Differences noticed while reading, without a run

- The retry of `run` opens its session without a slot of the new connection
  (`fleet.go:153`; `pool.go:32` says that the semaphore bounds the channels).
  `SessionsWithoutSlot` says how far this goes.
- `reap` closes a connection whose command has run for more than `idleTTL`
  (`pool.go:104`). Each cycle renews `last` before it reaps, so this concerns
  hosts that are disabled or in backoff.
- A tree kept under the empty snapshot name, which means latest, outlives the next
  backup of the host's timer (`trees.go:55`; `trees.go:18-19`).
- One tree larger than `maxNodes` is kept (`trees.go:111`; `trees.go:28`);
  `MemoryBound` says that it is then alone.
- `MetaAt` is the date of the snapshots, even when later metadata were not renewed
  (`collector.go:400`; `collector.go:350-351`).
- An empty repository is an error of `Status` (`fleet.go:95`), so a host is never
  shown as `StateNoBackup` (`collector.go:250`).
- `drop` closes whatever connection is under the key by then (`pool.go:91`): a
  caller that failed on an old one can close the one another caller has just
  dialled for its only retry, which then fails after a single fault
  (`fleet.go:147`).
- The last row is the one inserted last (`store.go:274`): of two overlapping
  collections, the one with the older answer may be shown until the next cycle.
- A structural check that fails with the kind `motdepasse` is announced as a
  failure of integrity (`sante.go:71`); the deep check has a text of its own for it
  (`sante.go:82`), and `sante.go:58` says that the text follows the cause.
- An incident of less than a hundredth of the measured hours is 0 % in the bars
  (`timeline.go:299`; `timeline.go:273`: "on ne minimise jamais un incident").
  `SharesAreFair`, a part of `DisplaysAgree`, says how far this goes: the hours out of
  order are understated by at most one per cent, for warnings and for incidents each.
- The cells and the bars of one page may differ for the current hour: each takes the
  time and reads the points for itself (`timeline.go:121`, `timeline.go:148`, and
  `timeline.go:258`, `timeline.go:268`).
- The probe can declare a site down after one attempt when the SSH calls used the
  context up, when the process is being stopped (`probe.go:96`, `main.go:112`), or when
  its address cannot be parsed (`probe.go:69`), while `probe.go:31-33` speaks of several
  spaced failures. `DownIsEarned` says that these are all the cases.
- A refresh is journalled as a success even when its collection failed
  (`collector.go:589-603`): `err` stays nil. `JournalIsComplete` says no more than that
  the collection was made.
- An entry of the journal whose insert failed is dropped (`store.go:299-303`).
- When `SanteFleet` fails the fleet page is made without it (`server.go:322`) and may
  show "ok" for a host with alerts, as `Combined` does of a host it knows nothing of.
- Of two overlapping collections, the one with the older answer may write its metadata
  last (`collector.go:206-216`); they are then behind until the next cycle.
- `Fleet`, `SanteFleet` and the history do not leave disabled hosts out
  (`collector.go:286`), as `CollectAll` and `Timeline` do.
- The listing and the address of the explorer can disagree when the answers of a
  click and of Back cross (`explorer.js:33`).
- An operation cut by the end of the process has no outcome in the journal
  (`collector.go:573`; `collector.go:541-542`).
- Two pages loaded at once by a session from before the `csrf` column attach two
  tokens (`server.go:451`); two login pages in two tabs share one cookie, and only
  the last form is accepted.

### Fairness

Goroutines that can run do run: weak fairness of each worker's steps. A goroutine
blocked on a Go channel is served in order, hence strong fairness of taking a
slot (`Acquire`) and a place in `limit` (`StartCollect`). The ticker ticks and
time passes. An open session returns, because its context ends or the connection is
lost. Two calls are not bounded by the code: the SSH handshake, on a connection
without deadline (`pool.go:136`), and `NewSession`, which takes no context
(`fleet.go:145`, `fleet.go:153`). So no fairness obliges them when the peer is silent:

- in `Pool` the steps of a caller do not include an answer of a silent peer, and
  `CallsReturn` has the exception;
- in `TreeStore` only the local steps are fair, none of the calls to a host, and
  `BrowseReturns` has the exception;
- in `Collector` a call either ends or is taken by `CallHangs` or `VerbHangs`, which
  leave the goroutine where it is; `collector_live` has none of these (`MaxHangs` = 0),
  `collector_hang` has one.

Nothing is assumed of operators, contexts that may be cancelled, faults or restarts,
except that the last two are finitely many.

## Proofs

All are for any sets of callers, hosts, keys and requests, and any bounds, under
the assumptions named in the modules (disjoint names, positive capacities).
`IInv` in each module is the inductive invariant; each `NextIInv` has one step per
action.

- `PoolProofs`: `TypeOK`, `TokensReturned`, `NoOrphanConnection` and
  `SessionsWithoutSlot`. The slots count holders by cardinality, so taking and
  giving back are the two lemmas on `Cardinality`. The strengthening: what a caller
  holds at each point of `run` (`CallShape`; in particular a retry holds a slot of
  a closed connection), a connection being installed is known to its dialler only
  (`InstallPrivate`), and a dead connection is closed (`DeadIsClosed`).
- `TreeStoreProofs`: `SingleFlight`, `WaitersHaveALeader`, `UsedMatchesTrees`, with
  the strengthening that a registered load belongs to a leader of that key
  (`LoadsAreLed`) and a leader never stores over a tree (`StoresANewTree`). On top
  of it `SInv` gives `NodesExact`, `MemoryBound` and `TypeOK`: the dates order the
  trees (`UsedIsOrder`), so the trees an eviction takes are the oldest ones and what
  it keeps is either the last tree or under the bound; every tree kept or being
  stored has a size (`Filled`, `Backed`). `EvictedIsTheLoop` follows from the same
  invariants: as long as there is no room, the trees taken out so far are a first part
  of the order, the next turn takes the one that follows, which `Evicted` has too
  (`TurnRemoves`), and when there is room they are all of `Evicted` (`RoomForIt`); so
  the loop ends, with the mutex held, after at most one turn for each tree. The counter is the fold of the library over
  a set of trees; the lemmas `TotalSums`, `TotalStep` and `TotalSplit` say that it is
  a sum, by induction over the subsets.
- `CollectorProofs`: `RunningIsExact`, `NoStrayCollection` and `NoFalseOK`. The
  last needs `SeenIsPast`: what a row says, and what a collection is about to say,
  is a backup that exists, so that an old row can only be more pessimistic than
  the truth; and a collecting request keeps its host (from the other two). `TypeOK`
  needs that `Kinds` is followed in its order (`KindsInOrder`). `JournalIsComplete`
  and the refinement (`Spec` implies `OperationsAreSerial`) rest on `JInv`, what the
  journal should have of a request at each point of `Action` (`Owed`), never exceeds,
  and has when none of its inserts failed (`JournalFollows`), and on the
  invariant above: a claim, a refusal, a release and a restart are the steps of
  `Operations`, the others stutter. A restart leaves the requests it cuts with what
  they had, so what is said of the requests that end is said in any behaviour.
- `SessionsProofs`: `TypeOK`, `PagesStayUsable`, `ActsUnderItsOwnSession` and
  `EndIsFinal`. The strengthening follows a token wherever it may be: in a row, in
  the cookie, in the form of a tab, in a request or its answer (`InRow`, `InCookie`,
  `InTab`, `Bears`). `OneOwner` and `OneToken` say that a token found in a row is
  nowhere but in what that session's pages were made of, so that the equality
  `checkCSRF` tests can only be that of one session with itself.
- `HistoryProofs`: `TypeOK`, `NothingShownIsLost` and `DisplaysAgree`. `Retained`: the
  table is part of what was ever recorded and has all of it since `Keep` ago, which no
  window of a page under way exceeds (the named assumption: windows are within the
  fourteen days of the bars, and these with `Slack` within the retention; `WindowFits`,
  `PageFits`). `PageHolds`: the points the page has read are those recorded from the start
  of its window up to the time it was asked for, and stay so, since what is recorded
  afterwards is dated later. The rest of the first is the integer division that puts a
  point in its interval (`InInterval`, `IntervalIsWorst`). For the episodes, `Told` is an invariant of the
  loop over the points: those that are over end with a point in order and follow each
  other, the one that is not has none since its start, each is right about the points
  so far (`Tells`), and no point out of order is outside them; `OneMore` has one case
  per branch of the loop, and `AllTold` is the induction over the points by date. For
  the bars, an hour that both show has an index in each, by its date and the time each
  reading took (`Shift`), and when it was over at the first reading the points of it are
  the same in both, so that their worst is (`CellIsSlot`, `BarsAgree`); a truncated share
  is within one of its due, and two of them leave something for the third (`Shares`).
- `SupervisionProofs`: `TypeOK`, `PageIsHonest`, `DownIsEarned` and `TimeNeverHeals`.
  Each group of alerts, by its item, only grows worse with the day; so whatever the
  reader has read is at least as bad as the alerts that stood throughout its reading
  (`ReadSoFar`), with the alerts of the row, of the report and of the probe told
  apart by their subjects (`OfBackup`, `OfProbe`), for those that could be read
  (`Heard`), and by the row alone for a page without `SanteFleet` (`AloneIsHonest`). For
  the probe, what each request may return while nobody cancels its context is a result
  that had all its attempts or used its context up, from the last request back to the
  first; the cancelled ones and the address that cannot be parsed are the two other
  cases of the property (`FindingsEarned`).
- `LimiterProofs`: `TypeOK`, `FewTrials` and `LockoutEnds`. The bound on the
  attempts of a window is not inductive, since `Reset` forgets them: `Accounted`
  says that from every date of the window on, an attempt that was allowed is still
  counted or is among the `Max` that one of the resets since then forgot. That new
  attempts and resets are new elements (`Numbered`) makes the counts exact.
- `BackoffProofs`: `TypeOK`, `SpacedOut`, `NotForgotten`, `FewFailures`. The strengthening:
  `nextTry` keeps its distance from every failure of the loop (`KeepsDistance`),
  where the ticker is relative to the cycle (`TickerInTime`), and that a cycle
  which did not attempt the host came before `nextTry` (`AttemptInTime`).
  `NotForgotten` gives the real spacing: `maxBackoff` plus a period plus two
  cycles, not `maxBackoff`. `FewFailures` is about many failures at once:
  `WaitsAddUp` says that two failures with n of them from the first on are as far apart
  as the first n waits together, or as `maxBackoff`, since operators' failures can only
  make the waits longer.

The induction theorems of the library take a predicate as a parameter, which the
provers here do not instantiate. Where induction is needed it is stated for a set:
a set of numbers, or of finite sets, that is closed under the step has all of them
(`Induction` and `SetInduction`, from the theorem that every non-empty set of
numbers has a least one). That the recursive functions are well defined
(`ProbeFrom`, `Turns`, and the folds behind `Total` and `EpisodesOf`) is proved this way as well.

Every invariant and every action property of the passing runs, and the refinement,
is a theorem. Only model-checked is liveness (`CallsReturn`, `BrowseReturns`,
`ViewConverges`, `StaleProbeGoes`, `CyclesGoOn`): the prover does not handle fairness
here. The three properties that the code does not satisfy
have their counterexamples (`trees_forget`, `collector_hang`, `sessions_login`).

## Not modelled, and the plan

Modelled: Pool, TreeStore, Collector, Backoff, Sessions, Sante, Probe,
Supervision, History, Limiter, and the abstract Operations. All that the plan had to
model, to check and to prove is done.

Left out for good: rendering (templates, charts), the command line, configuration
parsing, QR codes and password hashing (sequential, stateless or cryptographic);
`cache.go`, whose readers nothing calls; the explorer script, whose state is one
page of a browser; `pool.Close`, never called; the contents
of the shim, which is not in this repository.
