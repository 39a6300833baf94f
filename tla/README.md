# wyck in TLA+

wyck is a desktop trading application for cTrader accounts. These modules model the parts of it
where several things happen at once and money or credentials depend on the order: the trading
calls of the live account, its book and the rules of its plans, the session that keeps it
connected, the feeds it follows, the connection under them, the bars of a chart, the alerts, and the
documents that are saved, moved and restored. Paths below are relative to the root of the repository.

## 1. Inventory

### The parts that run concurrently

**Account** (`crates/wyck-app/src/account.rs`, `account/*.rs`). An entity of the user interface:
its handlers run one at a time, to their end. It keeps what is in flight (`busy`, `calls`,
`call_seq`), the order being placed and the plan behind it (`placing`, `queue`), the orders whose
answer never came (`in_doubt`, `uncertain`), the reversals (`reversals`), the book and the number
of its reading (`book`, `epoch`), and the safety settings. Operations: place, place a plan, close,
reverse, cancel, amend, apply an execution event, read the account, the fifteen second timer of
each call, the kill switch, replay. Each call, timer, reading and watch of a reversal is a task of
its own and comes back to the entity when it wants. Hard: late answers and timers of older calls,
readings that overlap, a close known from three sources, plans that fail in the middle. Correct
when a call is freed only by its own answer or timer, an order is never sent twice, what is told of
an order in doubt comes from a reading that could know, and a reversal opens only after its close.

**Session supervisor** (`crates/wyck-ctrader/src/session/supervisor.rs`, `backoff.rs`,
`token_store.rs`). One task that refreshes tokens, connects, restores, serves and starts over. It
keeps the attempt, the tokens, two flags about refreshes, and shares `tokens`, `state`, `client`
and `stop`. Hard: every await can meet a stop, a rotating refresh token must not be lost or used
again, loops must end. Correct when the newest pair is the one used and stored, a stop ends it, and
it gives up when it says.

**Session and its registry** (`crates/wyck-ctrader/src/session.rs`). The calls of the application;
a registry of what is subscribed that every reconnect restores. Callers and the supervisor share
the registry and the client under two different locks. Correct when what is recorded is followed
after any number of reconnects, and nothing else is brought back.

**Live hub** (`crates/wyck-app/src/market_data/live.rs`). Wishes of the charts, the header and the
account, and a task that turns their union into calls. Correct when it reaches the latest wish and
leaves nothing behind when dropped.

**Connection** (`crates/wyck-ctrader/src/connection.rs`, `connection/task.rs`). A table of waiters,
a bounded queue, a task that owns the socket, clones of the client that are counted. Hard:
registering against ending, cancellation at every await, answers after a timeout. Correct when no
call waits for nobody, no waiter stays, and the end reaches everyone.

**Rate limit and transport** (`crates/wyck-ctrader/src/transport*`). A clock and a counter, and the
wire format.

**Sign-in and tokens** (`crates/wyck-app/src/sign_in.rs`, `token_store.rs`,
`crates/wyck-ctrader/src/auth.rs`). The OAuth exchange in the browser, profiles, the saved pair.

**Book and reading** (`account/sync.rs`, `crates/wyck-domain/src/trading/book.rs`). Positions,
orders and deals; a full reading in several requests, answers of calls, and the events of the
stream, in ways that nothing orders with each other. Hard: an older snapshot laid over a newer
event. Correct when at rest it says what the broker does.

**Rules of plans** (`crates/wyck-app/src/account/plans.rs`, `follow.rs`,
`crates/wyck-domain/src/trading/plan.rs`, `follow.rs`). OCO pairs, break-even, time stops, stops
that follow a price; they act on events and readings through the account's calls. Hard: both orders
of a pair fill before one is cancelled, the event is lost with the connection, a stop is moved on a
book that is behind. Correct when a side whose other side filled goes, a stop is only tightened,
and what was missed is caught up.

**History of a chart** (`crates/wyck-ui/src/chart/chart/history.rs`,
`crates/wyck-domain/src/chart/data.rs`, `crates/wyck-app/src/market_data/load.rs`). A series of bars
from requests, each in a task of its own, and from the live bars of the session; an epoch says
which answers are still of use. Hard: answers and live bars cross, connections come and go, a page,
a gap and the trimming of the series meet. Correct when the series is of the symbol shown, with no
bar missing, cut short or put back to an older state.

**Saver and documents** (`crates/wyck-app/src/saver.rs`, `crates/wyck-storage/src/documents.rs`,
`fs_util.rs`). A value that waits, a count of the changes, a timer for each, threads that write,
and files replaced by rename. Hard: two threads that write, a close between them, a crash or a
power cut. Correct when the newest change is never left behind and a start finds a whole document.

**Backups, restores and resets** (`crates/wyck-storage/src/backup*`, `migrate.rs`,
`crates/wyck/src/main.rs`). Requests in files that the next start applies, copies made before, the
change of layout of documents of another build. Hard: a start cut short or failing in the middle,
applied again over later edits. Correct when what is replaced is in a copy that stays, and what was
asked for is done whole.

**Relocation** (`crates/wyck-storage/src/relocate*`, `locations*`). A request in a file, the steps
of a start on several folders, a pointer to the chosen ones, the folders left behind. Hard: a crash
between any two steps, folders that come and go, or that another computer filled. Correct when no
data is lost and the folder named is whole and the newest.

**Guard and risk** (`crates/wyck-domain/src/trading/guard.rs`, `risk.rs`). Pure checks of limits
over numbers. **Replay** (`replay.rs`): a simulated account over past bars, which locks the live one.

**Alerts** (`crates/wyck-app/src/alerts.rs`, `alerts/eval.rs`, `alerts/model.rs`). The book of alerts,
which is saved; what each saw last, the bars and their readings, which are not. Price events, tasks
that read bars, a poll and the user's changes all end in handlers of one entity. Hard: a change while
bars are read, readings that fail, a crash after a firing and before its save. Correct when an alert
fires on what it saw itself, as often as its trigger says, and what closed is judged.

### The parts that are sequential

Secrets and encryption, updates and diagnostics, indicators and scripts, drawings and charts, the
views of the user interface, the clock and the developer tools: pure computation, rendering, or one
call to the system. They are listed in `PROJECT.json` with the reason they are left aside.

### How they meet

```
views ── wishes ──> live hub ──┐
views ── commands ─> account ──┼─ calls ──> session ── client ──> connection ──> server
                       ^       │              │  registry             │
                       └─ events, ready ── supervisor <── events ─────┘
                                              └── tokens ──> token endpoint, token store

charts <── answers of their loads, events, ready ── session
views ── changes ─> savers ── files <── next start: restore or reset, change of layout, move of folders
```

## 2. Modules

| module | models | proofs |
|---|---|---|
| `AccountOrders` | the account, its calls, timers, readings, and the broker | `AccountOrders_proofs` |
| `SessionSupervisor` | the supervisor, the token endpoint and the store | `Session_proofs` |
| `LiveFeed` | the hub, the registry and the restore, together with the server | `LiveFeed_proofs` |
| `Connection` | the calls on one connection and the task of its socket | `Session_proofs` |
| `RequestChannel` | what the connection promises its callers (abstract) | `Session_proofs` |
| `AccountBook` | the book, its readings and events, and the rules of a plan, with the broker | `AccountBook_proofs` |
| `ChartHistory` | the bars of a chart, its loads and the live bars, with the session and the server | `Charts_proofs` |
| `DocumentSaver` | one document: its saver, threads, file, and what a start finds | `DocumentSaver_proofs` |
| `DurableDocument` | what is promised of a saved document (abstract) | `DocumentSaver_proofs` |
| `Relocation` | moves of the folders of the saved data | `Relocation_proofs` |
| `StagedRestore` | imports, resets, their copies and the change of layout | `StagedRestore_proofs` |
| `Alerts` | the alerts: price events, readings of bars, edits, and the saved book | `Charts_proofs` |
| `MCAccountOrders`, `MCLiveFeed`, `MCAccountBook`, `MCAlerts`, `MCStagedRestore` | constants of small instances | |

`Session_proofs` extends `Connection` and `SessionSupervisor`, `Charts_proofs` extends `ChartHistory`
and `Alerts`; each pair shares nothing but the module of its proofs. So that the two specifications can
stand side by side there, those of `SessionSupervisor` and `Alerts` carry the name of the module:
`SessionInit`, `SessionNext`, `SessionSpec`, `AlertsInit`, `AlertsNext`, `AlertsSpec`.

What meets in one module and what is assumed between them: `LiveFeed` composes the hub, the
registry and the supervisor's restore; `AccountBook` the book, the calls and the rules;
`ChartHistory` the chart and, reduced to what it sees of them, the supervisor and the hub.
`LiveFeed`, `AccountOrders`, `AccountBook` and `ChartHistory` take of a request only what
`RequestChannel` says: it ends once, with an answer, a failure or the end of the connection.

### AccountOrders

An action is one handler of the account with every call it makes: an answer that frees a call also
settles its order, makes the orders of the reversals it finished and sends the next of the plan, in
one step, because the entity is not left in between. What interleaves is which handler runs next:

* commands of the user: `UserPlaces`, `UserPlacesPlan`, `UserCloses`, `UserReverses`,
  `UserChanges`, `SetKillSwitch`, `SetReplay`;
* timers: `GiveUp` (the call is still the newest of its kind), `TimerIdle` (it is not);
* answers of the calls: `AnswerPlaced`, `AnswerNotPlaced`, `AnswerClosing`, ..., before or after the
  timer. A call's task is stopped by nothing, so a late answer is an ordinary step;
* events of the broker, in the order sent: `OnOrderEvent`, `OnClosedEvent`, `OnCancelEvent`;
* readings: `SessionReady` (a lost session came back; its events are gone), `ReadAccount` (the
  snapshot is taken), `LoadDone` or `LoadIgnored` (the account compares its number and applies it
  or not);
* watches of a reversal: `WatchRechecks`, `WatchEnds`;
* the broker, which may take a request at any time before its answer or after its call was given up
  (`OrderReaches`, `LateArrival`), fill or reject it, and close positions by itself.

Order fingerprints are a small set `Shapes`; a position has the shape its reversal would have.
`orders` records every order made and where it is: with the account, in a call, at the broker.
`told` records what the account said of those in doubt. Both are history: the code keeps the order
in the task and tells by a notice.

Abstractions a reader should know. The limits of the safety settings are one switch that refuses
new orders. The rules of plans, which cancel and amend by themselves, are a special case of
`UserChanges` here and have a module of their own. The deals of a reading may be missing, in part or
all (`unread` in `LoadDone`): the code takes deals that it could not read for none, and asks for no
more than a number of them (`sync.rs:112`). An order that filled is then found by its position, as
long as that is as it was opened. The window in which a repeated order is refused may be over at any
time. An answer of a change frees its call and touches no reversal.

### SessionSupervisor

`pc` is the await the task is at; a step is what it does from there to the next. Token pairs are
numbered as the endpoint issues them and `stored` is the one in the token store. The endpoint
(`Endpoint`, external) issues a pair before the answer is known to the task, and its answer may be
lost. `StopSession` is the user's request, `Forget` the removal of the sign-in by the view. The lengths of
waits are left out; whether a refresh is due is nondeterministic.

### LiveFeed

Three tasks: the user interface (`Set`, `DropHub`), the hub (`Begin`, `Apply`, `Record`, `Call`,
`Settle`, `Applied`, `Leave`) and the supervisor (`Connect`, `CopyRegistry`, `RestoreNext`,
`RestoreAnswered`, `Restored`, `Disconnected`, `AccountDisconnected`, `Reauthorized`). What a call
does to the registry (`Record`), what it finds as client (`Call`) and what it undoes (`Settle`) are
separate steps, since they are separate critical sections. The server is modelled from how the code
uses it: it answers in order, refuses a request whole for an unknown symbol, for something already
subscribed, for bars without their symbol, or when the account is not signed in. Whether it has
done a part of a request it refuses is not said by the code; `Partial` says which, and the runs
name it. `denied` and `astray` are history: what the server was asked for since the last restore
began and did not begin to send, and what the registry forgot while the server sends it or a restore
has it in its copy. The properties except exactly these, so they hold of any server: that of
`feed` knows not every symbol and refuses whole requests; one that also lets requests time out
(`Faults`) was checked apart, and the theorems speak of all. Order books are left out.

### Connection

One call is the chain `Begin`, `Register`, `Recheck`, `Send`, `Receive` of `exchange`, with
`GiveUp` and `Leave` for a timeout or a cancellation: the receiver goes first and the waiter after
it. The retry of a refused rate starts over with a new identifier. The task's steps are `Write`,
`Read`, `Beat`/`Pinged` (the ping, written outside of its select), `Stop`, `Break`, then
`MarkClosed` and `Drain` for the two halves of `finish`. The queue's capacity is a constant (256 in
the code). Rate limiters let everything through.

`RequestChannel` is what a caller may count on; `Channel` in `Connection` maps to it. The phase of
a call is whether it asked and returned, what it was told is what its receiver holds, and the end
is the marking in `finish`. The mapping forgets the table, the queue and the socket.

### AccountBook

One plan is followed, with the broker that carries it out. `version` counts the changes of each
order at the broker and goes with each message, so the module can say which message is the newest;
the code has no such number. The answer of a call and the events of the stream are two ways: the
first event of a request goes to its caller, in its own task. A reading is four steps (`ReadOpen`,
`ReadPast`, the reading of the assets that lets others come between, `Reconcile`), and the handlers
are whole: `OnEvent` applies an event to the book and runs the rules (`Manage`), `Reconcile` lays
the reading over the book and catches up (`CatchUp`), `Fail` and `GiveUp` include the reading that
an uncertain call asks for. A stop is at its place, at the entry or past it. `mixed` remembers the
orders to which an overtaken message was applied, `dropped` the moves that were dropped since
another change of the stop was under way.

### ChartHistory

The chart's handlers are `Reload` (`Show`, `Retry`), `InitialLoaded`, `GapLoaded`, `OlderLoaded`,
`OnReady`, `OnLive` and `AskOlder`; an answer of another epoch is `Outdated`. A bar is its slot and
its number of ticks, which is what `merge_bars` decides by. Whether the view is near the oldest bar
is nondeterministic (`OlderIfNeeded`). The rest is the surroundings, as the chart sees them: the
connection and the account's session that end and come back (`Drop`, `Reconnect`, `AccountOut`,
`AccountBack`), the hub that follows some time after the chart changed (`Follow`), the broadcast
with a reader that lags (`Emit`), and the market (`Trade`, `NextBar`). `missed` is history: the single
bars that the code lets go, each by a way listed below. A bar gets into it only if the chart
accounted for its slot then (`Accounted`: from its oldest bar on) and no queued event still tells it
(`Untold`); it leaves it when a gap is asked for again or the bar comes after all. So a hole in an
older page, and an older state put over a fresher bar while an event behind it tells the bar, are
not excused.

### Alerts

Time is the number of the bar that forms, and a bar is its close. The handlers are `OnSpot` (a price
event), `LoadDone` and `LoadFailed` (the end of a reading, with the judgment of its bars), `PollTimer`,
the starts (`Restart` after a close, `Crash` with what the disk holds), and the user's `Add`, `Save`,
`MoveLine`, `Snooze`, `TurnOff` and `Remove`, which all go through `Edit` and so end with a poll. A
price that moves (`PriceMoves`) and the event that tells of it are two steps, since events are lost
with the connection. `fresh` is whether the bars were read less than fourteen seconds ago. `prior` is
history: what an alert saw last of a time since it is set as it is. Bars count as of the time when
they were read (`LoadAnswers`), not when they are judged (`LoadDone`): `outrun` holds the alerts set
anew in between, and `early` those that were last judged on such bars. `edition` counts how often the editor armed an alert anew, `life`
the crashes that took something back. One symbol and one timeframe, with an indicator that is the
series itself; a spread or a profit is judged as a price is.

### DocumentSaver

A step is what happens between two points where another thread may come: `Schedule` and `Count` are
the two halves of `schedule`, `Take`, `WriteTemp`, `Rename` and `SyncDir` the steps of a flush. The
threads are the blocking tasks of the timers and the app's own. `onDisk` is what a power cut may
make of the file, `whole` what of it was flushed before its rename. `Start` is the load of the
document, which sets an unreadable one aside. `DurableDocument` keeps of all this the document, what
was ever shown, and what the next start may find.

### Relocation and StagedRestore

Both are requests in a file that a start applies in steps on files, with `Fail`ing steps and `Stop`
(a crash, a quit) between any two. In `Relocation` a folder holds one value, the version of its
data; `Weather` takes a folder or the pointer away and brings it back. A folder that is away cannot
be read, or is not there under one that can be written (`MayVanish`): the first is refused as the
target of a move, the second is taken for one to be made (`folder.rs:209`), and what is put there is
under the name of the drive until it comes back (`behind`). `home` and `seen` are history: where the
data of a kind is and what it was when last changed, which is what the app has to show; a move to
data that is there, while it is carried out (`taken`), and a start without the chosen folder change
it. In `StagedRestore` a text is
a number and its layout, the documents are written in the order of their folders, and the copies of
a kind are a sequence that is pruned. The user edits, asks, cancels and deletes in between.

## 3. Runs

| run | question | instance |
|---|---|---|
| `orders` | do calls, doubts and readings stay matched, is every order in doubt told of; does a plan stop at a refusal, stay whole, send nothing twice? | two orders, apart or a plan, two calls |
| `reversals` | does a reversal follow its close, once (a close that the broker cancels apart, `cancelled`), and end? | one position and one change, kill switch and replay |
| `session` | the newest pair in use and stored, few forced refreshes, the limit, the end of a stop | limit 2, four pairs |
| `feed` | is nothing followed that is not recorded, and what is recorded followed after every reconnect; does the hub reach the wish and leave? | two symbols, one of them unknown to the server, and bars, one owner, whole refusals |
| `connection` | does every call end as its channel says; does the end reach everyone? | two calls, one retry, queue of one |
| `account_book` | is the book what the broker holds; do the rules of a plan do what they say? | a pair of two legs, one trouble |
| `chart` | is every bar there, whole, and of the symbol shown? | two symbols, four slots, one drop |
| `alerts` | does an alert fire as often as it says, and on what it saw; are the bars it needs read in the end? | one alert of six kinds, two changes, one start |
| `saver` | is the newest change kept and saved; does a start find a whole document? | three changes |
| `relocation` | is no data lost, is what is marked whole, and is the last change shown? | two kinds, one folder on a drive that comes and goes, three versions, two set aside |
| `restore` | is what is replaced kept, and what is asked for done whole? | two documents, a script, four acts |
| `pair_keeps_both` | a violation: see below | that of `account_book` |

The type invariants, and the invariants listed under *Proofs* that no run names, are proved for
every value of the constants and not asked of TLC again.

### Bounds

`MaxOrders`, `MaxCalls`, `PlanSize` stop the user, never the system: once they are reached, all that
was started still runs to its end in every order. Two calls are what it takes for a late answer to
meet a newer call. A plan is two orders there, one that fails and one that waits; what is said of
plans is also proved, for plans of every length and with replay. Once
`MaxEpoch` readings were started the session is not lost again; readings that a doubt, a timer or
an event starts go on, so readings overlap even where it is 0 or 1. `Switches`
are the settings the user may change. `MaxPairs` and `MaxTries` bound
the token endpoint and the waits; four pairs are more than the refreshes that can be forced before
the session ends, and three attempts pass a limit of two. `Follows` is one: an answer, and one
message of the server that repeats its identifier. `Capacity` one makes the queue full at once.

`MaxTroubles` of `AccountBook` is one budget for all that goes wrong or is asked besides the plan: a
lost connection, a refusal, a silent call, a failed request of a reading, a command of the user.
With one, each meets every order of fills, closes, answers and readings; two together are out of
reach of the five minutes of a run. `MaxEvents` one makes the market wait for the book, while the
answers of calls overtake the event. In `ChartHistory`, `Past` one and `LastSlot` four give three
bars that open, close and are trimmed (`Capacity` two) while a page of one bar or a gap is on its
way; `MaxTicks` two is a bar and one cut short; `EventCapacity` two lets a reader lag; two epochs
are one change of symbol. One drop, of the connection or of the account's session, meets all of
that; two drops over three slots were checked by hand, with the same result. In `Alerts` two values are
the two sides of a level, and `MaxBars` five adds one bar to the four that a judgment needs. Two
changes are an alert and its change while its bars are read; one start is a crash or a restart after
a firing. `MaxEdits` three of `DocumentSaver` is two threads that write older values while the
newest waits. `MaxVersion` three and `MaxMoved` two let
a folder left behind be met again, and a move out of the standard folder be followed by one back to
it, and that copy be cut short and taken for data; the drive of the folder, and the pointer, may go
away. Two folders that another computer filled, with one folder set aside, were checked apart. `MaxActs` four
is an import, a reset, an edit between two starts and one act more; `MaxText` three one text that
the user makes besides those found. Only in `saver` does the bound end the changes for good: a
document that is changed for ever, faster than the quiet time, is never written, which the code
accepts and the liveness property excludes by asking for a change that stays.

### Fairness

Each assumption names a mechanism of the code.

* `AccountOrders`: a timer of the runtime fires; a request ends by its own timeout; a finished task
  is handled. Neither the user nor the broker is fair.
* `SessionSupervisor`: every await has a timeout, and the endpoint answers or fails. Serving is not
  fair, as a connection may last for ever. A stop met together with events is taken in the end, as
  `tokio::select!` picks at random: strong fairness of `ServeStops`.
* `LiveFeed`: the hub's task runs; a request is answered or the end of its connection answers it.
  No fairness is assumed of the supervisor.
* `Connection`: threads run and a write ends. The select of the task is `biased` with the shutdown
  before the queue and the frames: strong fairness of `Stop`. That the write of a ping ends is an
  assumption, since the code puts no timeout on it (a hazard in `PROJECT.json`). No timeout of a
  call is assumed to fire, so `ClosedEndsCalls` shows that the end itself reaches the calls.
* `AccountBook`: the broker serves what was sent, a call ends, an event and an answer are handled, a
  reading goes on and a lost session comes back, each as one weakly fair group: the runtime runs its
  tasks, the requests have timeouts, the supervisor tries again. Neither the market nor the user is
  fair, and nothing says in which order the groups act.
* `DocumentSaver`: a started `schedule` goes on (`Count`), a thread that writes ends (`Flush`), and
  the sleep of a timer ends (`TimerEnds`). Writing may fail; changes, crashes and closes are not fair.
* `Alerts`: the timer of the poll runs, bars grow old, and the end of a reading is handled. That a
  reading asked for again and again is answered in the end is strong fairness of `LoadAnswers`: the
  supervisor brings the session back. Prices, bars and the user are not fair.
* `Relocation`, `StagedRestore` and `ChartHistory` are checked for safety alone.

### Where the code differs from what it says

One run finds its property violated; `PROJECT.json` quotes both lines.

* `pair_keeps_both`: an OCO pair whose one side fills while the account is being read keeps its other
  side at the broker. The event finds an empty book, and the reading, taken before the fill, then
  replaces the book and catches up on nothing.

In six more places the models do what the code does, against what the code says of itself. The
properties that hold there name the exception.

* An order without an answer fills and its position closes; the deals of the reading that settles the
  doubt could not be read, so the order is told to be missing (`sync.rs:116`, against `sync.rs:163`,
  "whatever a silent call did is in it now"). `MissingIsMissing` excepts an order whose deal was not
  in the reading (`unread`).
* A feed unsubscribed while a restore has it in its copy of the registry is subscribed again
  (`supervisor.rs:377`, against `session.rs:402`, "so a reconnect does not bring them back").
  `FollowedIsRecorded` excepts it (`astray`); `RecordedIsWanted`, which is proved, is of the registry.
* With a server that refuses a whole request, one unknown symbol keeps the other prices of a restore
  away (`supervisor.rs:387`, against `supervisor.rs:374`, "one bad symbol must not stop the others").
  `NothingLost` excepts what the server denied when last asked (`denied`).
* A standard folder has no marker (`applying.rs:161`), any file in it counts as data
  (`planning.rs:48`), and a chosen folder is read without a marker (`folder.rs:162`). A copy back to a
  standard folder that the end of the app cuts short is taken for data by the next start, and the
  whole data set aside (against `relocate.rs:12`, "A copy that is cut short never looks like a folder
  with data in it"). `NewestIsShown` excepts a kind while it shows such a copy, and `MarkedIsWhole`
  what follows one (`short`); `NothingIsLost` does not: the whole data is among the folders left
  behind.
* An alert is edited while bars that were read wait to be judged. They are judged as it is set now,
  and kept as what it saw, so the next reading fires it on a crossing from a price of before
  (`alerts.rs:441`, against `alerts.rs:216`, "What an alert saw belongs to how it was set: it starts
  again"). `FiresOnWhatItSaw` excepts the firing that compares with such bars (`early`).
* An alert on closed bars that is edited or dragged fires at once on a bar that had closed before
  (`eval.rs:151` compares with when it was made, against the same line). `FiresOnWhatItSaw` asks of
  it only what the code compares.

The models have the following behaviours too. They are what the code does; no run asks about them,
and the properties that are checked are stated so as to allow them.

* An order told to be missing may reach the broker afterwards, when its request still waited for
  the rate limit as its timer fired. `MissingIsMissing` excepts it (`late`).
* A late answer of one order takes the `placing` of another (`orders.rs:80`, against
  `account.rs:102-103`), whose silence is then told by nobody; `NoOrderIsForgotten` excepts it.
* A plan goes on after an order that an execution event rejects, which comes as an answer
  (`orders.rs:99`, against `orders.rs:340`).
* The orders of a plan that wait are sent while the kill switch is on (`SendNext` asks nothing).
* An order error that names neither an order nor a position stops every reversal.
* The order of a reversal is refused as a repetition when another is in flight or alike was just
  sent, after the position was closed (`PlaceReverses`).
* A pair that could not be saved does not end the session (`Saved`), although
  `session/token_store.rs:27` says so; `PairIsKept` excepts it.
* Two refreshes may be forced without a sign-in between them, and from a fresh start one failure
  more than the limit is counted: `ForcedRefreshesEnd` and `GivesUpInTime` state these bounds.
* A stop waits for a token request and the saving of its pair. A refresh under way saves its pair
  after the user disconnected (`app_view.rs:159`). A server that repeats that tokens are invalid is
  asked again with no pause (`supervisor.rs:215`).
* A subscription that is refused leaves the registry, even if the server has begun to send it, or a
  restore has it in its copy (`astray`); one that was already subscribed is refused like an unknown one.
* A subscription refused while the account is signed in again leaves the registry and is not asked
  for again.
* A message that meets a call between its timeout and the removal of its waiter is dropped;
  `OnlyGivenUpIsLost` (theorem `OnlyLateIsLost`) says that no other is.

Of the account's book and the rules of plans:

* Answers and events are unordered, and an event handled during a reading is overwritten by the
  older snapshot: the book may stay wrong at rest until the next reading. `BookIsCurrent` excepts
  the orders to which an overtaken message was applied (`mixed`).
* A request of a rule that is refused or times out is found missing again at once and sent again,
  with no pause and the same notice each time (against `plans.rs:117`, "says so once").
* A break-even move is dropped silently when another change of that position is under way.
* The live rule looks at the profit of the last deal, the catch-up at the sum of all deals.
* Deals that could not be read count as none, so nothing is caught up (`ReadPast`, `unread`).
* The safety check of a plan counts on one side of a pair only (`orders.rs:293`), also when both stay.

Of a chart (`NothingIsMissing` excepts what is in `missed`):

* "The server's own bars fix themselves on the next tick" (`history.rs:182`) is so for the newest bar
  alone: a bar that closes, or a whole bar that passes, while the chart loads stays as it was read.
* A gap that could not be loaded is only warned of; the next refill starts at the newest bar.
* An account that is signed in again gives no `Ready` (`supervisor.rs:340`): neither the charts nor
  the book read what was missed meanwhile.
* The views drop the notice of a reader that lagged (`dashboard/session.rs:55`), were it a lost `Ready`.
* What is traded between the answer of a load and the subscription by the hub is not sent.
* A live bar that an answer overtook puts an older state of the bar back, until the next event.
* A page or a gap that comes after bars were trimmed leaves a hole behind it. The gap does not trim.
* A first load that fails after `Ready` was taken stays failed until the user asks again.

Of the alerts:

* A change of one alert forgets what all of them saw (`alerts.rs:217`), so a crossing of another one
  between two price events is not told (against `alerts.rs:5`, "fires when its condition comes true").
* A move that is judged as the bar closes, which the editor offers (`alert_editor.rs:130`), never
  fires: `judge_bars` asks `fired`, which knows no moves (`eval.rs:56`).
* A reading judges the last closed bar alone (`eval.rs:135`): those that closed while readings failed
  are never judged (against `condition.rs:91`, "judged on the closed bars, once each").
* A new alert on bars that count as fresh waits for a later poll (`alerts.rs:422`, against
  `alerts.rs:223`, "a new alert does not wait for the next round").
* A crash before the delayed save lets an alert that fires once fire again: `FiresAtMostOnce` speaks
  of one `life`. So may the editor, which forgets the bar an alert fired on (`edition`).
* A reading that takes more than a second makes the poll after it find its bars fresh: they are read
  every thirty seconds then, not every fifteen (`BarsAge` may come at any time).

Of the saver:

* An older write that is slow replaces a newer one (`lost`); a write that failed is not tried again.
* A change made in the last moment before a close may be taken by a thread that the close does not
  wait for (against `saver.rs:6-7`, "so a change is never lost to the delay").
* A document that cannot be read and cannot be set aside is overwritten by the next save.
* The flush before a backup does not reach the saver of the alerts.

Of moves (`crates/wyck-storage/src/relocate*`):

* A move to a folder of a drive that is not there, under one that can be written, puts the data where
  the drive is not; when the drive comes back it shows what it held (`Weather`), and what was put
  there is behind it. `NothingIsLost` counts that as there.
* While a chosen folder cannot be read the app uses the standard one, and changes made there stay
  there when the chosen one is back.
* A request whose plan has no step is not written, so an earlier one stays (against `staging.rs`,
  "the last thing asked for wins").
* A choice that could not be saved stays in memory and is saved with the next kind.
* A crash between the rename of the old folder and its record leaves it unlisted; one between the
  choice and the rename leaves it in place, where a later move adopts it.
* A copy to a chosen folder that was cut short is refused afterwards, and the move dropped.
* Copied files are not flushed to the disk one by one; the model has crashes and no power cuts here.

Of restores (`crates/wyck-storage/src/backup/staged.rs`):

* A start that fails in the middle is only warned of; the app runs on what was applied, and the
  request is applied again at the next start, over later edits (which a copy keeps).
* "The import is cancelled. Nothing was changed." (`data.rs:381`) is shown also when half of it was
  applied, or the file could not be removed.
* A failed cancel, or a crash between two writes, leaves a reset and an import waiting, both applied.
* Documents that cannot be read as text are replaced or removed without a copy. A `.from-v<n>` file
  of a newer build goes with a reset and no copy holds it (against `staged.rs:67`).
* `.v<n>.bak` is not replaced when it is there already; `.from-v<n>` is.

## 4. Proofs

For every value of the constants, under the assumptions the modules name.

* **AccountOrders.** `TypeCorrect`. `ControlHolds` proves four properties at once because none is
  inductive alone: a call may free only its own kind (`BusyHasItsCall`), which keeps the order in
  flight that of the call in flight (`PlacingIsInFlight`), which is what the queue waits behind
  (`QueueWaitsForAnswer`), which is what replay is refused for (`ReplayLocksOrders`). The argument
  is in terms of `Owned`: after an answer, what is left busy is owned by calls that still run; a
  call that starts then owns what it makes busy. `DoubtsHold`: a reading whose number is the newest
  started after every doubt; the strengthening says that no reading has a number yet to come.
  `SentOnce`, the action property `NeverSentAgain`: every order in the queue is waiting and occurs
  once (`Unsent`), and no order returns to waiting.

  `ReversedAfterTheClose` rests on two facts. What says that a position is closed for good is never
  taken back: an acknowledged close, its event and a reading that lacks the position all say it of
  one that the broker closed, and it opens none again under the same number. And the order is made
  once because what allows it is there once (`OnceFor`), as the answer of an accepted close still to
  be handled, as a reversal that is acknowledged, or as the order made; a close that the broker
  cancels after it accepted it would give a second one.
  `PlansStopAtARefusal`: an order of a plan is sent only once the broker took the one before it. The
  queue holds what follows the order in flight (`Planned`), a call that was answered well is of an
  order that the broker took, and no order has two calls, so nothing can refuse it later.

  `MissingIsNotThere` and `OrdersAreFollowed` share a step lemma. `Settled`: the reading that will be
  believed (the one of the newest number) saw every order in doubt that is on the account, because
  a doubt that comes later starts another reading; only the order in flight can come on the account
  without the account expecting it, and it is in no doubt. The deal of an order that filled may be
  unread: the order is then told to be missing with `unread`, and is not waiting (`Truly`). `Followed`: an
  order that was sent has a call, was heard of, is in doubt or told of, since the one in flight is what
  `doubt_placing` takes; a late answer takes it too, of another order, which is why the property ends
  there.
* **SessionSupervisor.** `SessionTypes`, with `Within`: the attempts are at most the limit wherever
  one is started. `NewestPair` and `PairKept` share an invariant over the task's, the shared and
  the stored pair. `GivingUp` needs `Counted`, how the attempts and the failures in a row differ at
  each await. `ForcedRefreshesAreFew` needs `Spent`, how many forced refreshes each pair of flags
  stands for. `ClientServed` is inductive as it stands.
* **LiveFeed.** `RegistryIsWanted` is of the registry, which restores copy; of what is followed speaks
  `FollowedStaysRecorded` below. The strengthening (`Pending`) follows the plan: while it is
  applied, whatever is recorded and not wanted has a step to come that unsubscribes it, and every
  step that subscribes is of something wanted. `TypeCorrect`: no call of the hub waits for an answer
  that is not on its way.

  `NothingStaysLost` and `FollowedStaysRecorded` are of any server: nothing is assumed of the symbols
  it knows, of what it does of a request it refuses, or of its limits. Three orders carry the first: a
  plan asks for prices before the bars that need them, so does the restore, and a request has one
  answer. Then `Kept`: what the registry holds is at the server, was denied by it (`denied`), waits
  for a symbol that was, is still to be asked for by the restore behind its symbol, or is of the
  hub's call under way, whose refusal takes it out of the registry. The second follows what is on its
  way to be followed: what the server sends, and what a restore or a call is to ask for, is in the
  registry, of the hub's call, or `astray`.
* **Connection.** `ConnectionTypes` (with the bound of the queue), `NoWaiterStays`, `EveryWaitCanEnd`,
  `OnlyLateIsLost`, from one invariant `TableInv`: the waiters in the table are those of attempts
  under way, an end that was reached was marked before, and a call that gave up is on its way out.
  Marking the end before failing the waiters, and looking again after registering, are the two
  facts `EveryWaitCanEnd` rests on.

  The refinement `AnswersOnce` (`Connection` implements `RequestChannel`) rests on `ChannelInv`:
  what a receiver holds was sent for the attempt under way, which is the newest, and an attempt is
  given up only with its receiver. `StepMaps` takes the steps of a call one by one: registering,
  queueing and reading map to nothing, the answer to `Tell`, the return to one of the three ends.
* **AccountBook.** `TypeCorrect` and the action property `RuleTightens`. The invariant `Inv` says of
  every message on its way that it is about the past, and that the newest one of an order says what
  the broker holds; so a book that knows the newest version has the broker's stop, and a move to the
  entry asked on it can only tighten (`BreakEvenMoves` asks for a stop under the entry), unless the
  broker changed the position after, and then the version differs.

  `BookCatchesUp` follows the place of each order and its position apart. What the messages on their
  way say came to pass (`WayHolds`); and once the account is read, either the book already says what
  the broker holds, and what is still to come of the order is older than the book's last word on it
  (`Reaches`), or the message that will say it is on its way and every stale one is older than that.
  The same is true of a reading before it replaces the book (`WillBeInStep`), unless the book heard
  more than the reading saw: then the order is one of `mixed`. A trailed stop counts only for a
  position that the book knows, so the opening of a position is shown to come before those
  (`OpeningComes`): events stay in order among themselves, whatever the answers do. At rest nothing
  is on its way, and only the first case is left.
* **DocumentSaver.** `NewestStays`, `SomeoneComes`, `NothingWaits` and the refinement `Durable`
  (`DocumentSaver` implements `DurableDocument`), from one invariant: values in memory are never
  newer than the one on the screen, a timer has its thread to itself, and what the disk may hold was
  written whole.
* **Relocation.** `Lossless`, `ReadyChoices`, `MarkedFolders`, `KindsApart`. The invariant says for
  each stage of a move which folder holds the data: before the choice is saved the old one, after it
  both, and what is set aside has been copied or is in place of it. `LastChangeIsShown` adds that the
  places in use, chosen and asked for are apart (`Apart`), so that no move touches a folder another
  kind is in, and where each kind is at home at every stage (`Homes`): there it holds its last change
  or a copy that was cut short, as it does where a choice that is held will take it (`Shown`).
* **StagedRestore.** `NoTextIsLost`, `DoneWhole`, `AppliedOnce`: what a start is about to clear or to
  write over is in a copy of a kind that is not pruned (`Prepared`), which a crash in between
  leaves true, since the copy comes first and again at the next start.

* **ChartHistory.** `ChartTypes`, `OnlyOwnBars` and `NothingStaysMissing`, from one invariant `Inv`.
  That a chart at rest has every bar is true because on the way there every bar that lags is
  covered (`Covered`): it is given up (`missed`), or a gap load will bring it (`Fetched`), or it is
  in the queue as the market has it (`Told`), or a `Ready` comes before anything newer is told, so
  that the gap it asks for begins at the bar or below (`Refilled`). At rest no load, no event and no
  interruption is left, and only what is given up remains. Each way ends in another when it is used
  up: a `Ready` that is read becomes the load, a load that is lost with the connection is one that
  fails, an event that a reader loses is given up. That needs to know of the queue that its live bars
  come in the order of their slots (`Queue`), of a load that it is of the symbol shown and alone
  while it is the first (`Loads`), and of an answer that it has no hole from its oldest bar to the
  end of its range (`Asks`); a bar is in scope (`InScope`) from the oldest one held on, or from where a
  load under way will join. `OnlyOwnBars` needs that what an answer holds is the market's, and that
  the epoch of a load says its symbol. What `missed` must hold is followed bar by bar: a step may let
  go only what it accounted for and what no event behind it tells (`SightIs`, `EmitMissed`). The lemmas on `Trim`, `Merge`, `Prepend`, `ApplyLive`, `Newest`
  and `InRange` say what each does to a series; those on `Min` and `Max` rest on the library's
  well-founded order of the numbers (`Least`).
* **Alerts.** The action properties `FiredOnce` and `FiredOnWhatItSaw`. What fired left its mark
  (`Spent`): an alert that fires once is off, one that fires once for a bar has noted a bar no older,
  as long as it is the same edition in the same life. A change of an alert keeps the mark or makes a
  new edition (`Comes`), and a start finds the mark in the book it reads or ends the life. For bars
  that are read the mark is compared with a reading that may be old: no bar noted is newer than the
  one an answered reading will be judged on (`LoadHolds`), since one reading at a time is under way.
  What an alert saw last is of a time since it is set as it is, or it is `early` (`SeenIsOwn`), because
  every change forgets it; and one set anew while a reading waits to be judged has nothing that the
  bars of that reading could be compared with, so the first exception comes one reading later. Both handlers that fire then satisfy `Due`, from which the two theorems follow. The
  types (`AlertsTypes`) need more (`AlertsTyped`): the book, and the one on the disk, keeps within
  `Limit` and its next number is of no alert; what was seen and an answered reading are values.

Every safety property of the passing runs is proved. Only model-checked are the liveness properties,
as the prover has no rules for fairness here: `ReversalEnds`, `StopEnds`, `CatchesUp`,
`LeavesNothing`, `ClosedEndsCalls`, `ClosesInTheEnd`, `SavedInTheEnd`, `BarsAreRead`, `OneSideStays` and
`BreakEvenComes`. That `PairLosesTheOther` fails is shown by its run.

## 5. What is left

* The timeframes of a chart that are built from ticks or from groups of bars: there the merge by
  the number of ticks (`data.rs:311`) is no union, and a tick that an answer already holds may be
  counted twice.
* The stops that follow the ATR (`follow.rs`).
* The levels that an alert takes from a drawing or from another series, which move under it.
* The limits of the guard as operators over small numbers.

## 6. Not modelled

The rest of the inventory, with the reason in `PROJECT.json`: pure numeric code in floating point
(indicators, scripts, risk, the guard), rendering and geometry (scenes, drawings), calls to external
systems (OAuth in the browser, the key store, updates), and the clock. Most of the repository is of
these kinds, or views; the modules take the parts that keep a state which several tasks, messages,
starts or threads change. The undo history of the drawings is a stack of whole copies that one
handler at a time changes: nothing in it interleaves, and its tests reach what it does. The
simulated account of a replay is driven by one view alone.

In the modelled parts: lengths of time, wording of notices, prices and volumes; the folder of the
scripts, other builds, links and names of folders in `Relocation`; sealed copies and the format of a
backup in `StagedRestore`; the take profit that a move of a stop also sends, partial fills of a
pending order (which do not trigger the pair), other plans and groups, and the pause between two
tries of a time stop in `AccountBook`; order books in `LiveFeed`; other charts, replays, the order
flow and the loads of the ATR in `ChartHistory`.
