----------------------------- MODULE AccountBook -----------------------------
(***************************************************************************)
(* The book of the account (crates/wyck-domain/src/trading/book.rs), what  *)
(* keeps it in step with the broker (crates/wyck-app/src/account/sync.rs), *)
(* and what the app does for the plans it sent (account/plans.rs,          *)
(* wyck-domain/src/trading/plan.rs): an OCO pair whose one side filled     *)
(* loses the other, a leg that closed in profit moves the stops of the     *)
(* legs left to their entry, a time stop closes, and a reading of the      *)
(* account catches up on what was missed.                                  *)
(*                                                                         *)
(* One plan is followed.  An order and the position its fill opens share   *)
(* one name, and every order carries the same label but for its leg and    *)
(* its side.  A stop loss is at 0 (where it was placed), 1 (the entry) or  *)
(* 2 (past it).                                                            *)
(*                                                                         *)
(* The answer of a call and the events of the stream come by two ways: the *)
(* first event of a request goes only to it, in a task of its own, and     *)
(* nothing orders it among the ones after it.                              *)
(***************************************************************************)
EXTENDS Integers, Sequences

CONSTANTS
  Orders,     \* the orders of the plan, and the positions they open
  Buys,       \* the ones that buy: the others are the other side of the pair
  Leg,        \* the leg of each
  After,      \* the leg whose close in profit moves the stops of the others
  Timed,      \* the ones with a time stop
  Plan,       \* the order in which the ticket sends them
  MaxTroubles,\* bound: what the user and the time stops ask, the rarer moves of the market,
              \* lost connections, refusals, silent calls, failed requests of a reading
  MaxEvents   \* bound: the market waits when this many events are on their way

ASSUME ConstantsAssumption ==
  /\ Buys \subseteq Orders /\ Timed \subseteq Orders
  /\ Leg \in [Orders -> Nat] /\ After \in Nat
  /\ Plan \in Seq(Orders)
  /\ MaxTroubles \in Nat /\ MaxEvents \in Nat

VARIABLES
  \* the broker: where each order is, its stop, what its closes made, and how
  \* often it changed
  at, stop, made, version,
  \* the way between
  connected, events, calls, reading,
  \* the account: its book, the plan that waits to be sent, its state
  positions, orders, queue, status, trader, uncertain,
  \* bounds
  troubles,
  \* what is remembered to state properties: the newest version the book heard of
  \* each order, those an older one came to after, those whose move was dropped,
  \* whether the history could not be read last
  newest, mixed, dropped, unread

brokerVars  == <<at, stop, made, version>>
wireVars    == <<connected, events, calls, reading>>
accountVars == <<positions, orders, queue, status, trader, uncertain>>
ghostVars   == <<newest, mixed, dropped, unread>>
vars == <<brokerVars, wireVars, accountVars, troubles, ghostVars>>

-----------------------------------------------------------------------------
Without(f, x) == [y \in DOMAIN f \ {x} |-> f[y]]
Put(f, x, v)  == [y \in DOMAIN f \cup {x} |-> IF y = x THEN v ELSE f[y]]
Nothing == [o \in {} |-> 0]
Places  == {"new", "working", "open", "closed", "gone"}
Stops   == 0 .. 2

\* What an execution event says: of the order ("working", "done" or nothing) and
\* of the position ("open", "closed", "trailed" or nothing).
Event == [kind: {"accepted", "filled", "replaced", "cancelled", "trailed"}, of: Orders,
          order: {"working", "done", "none"}, position: {"open", "closed", "trailed", "none"},
          stop: Stops, profit: Int, version: Nat]
Message(kind, o, order, position, profit) ==
  [kind |-> kind, of |-> o, order |-> order, position |-> position,
   stop |-> stop'[o], profit |-> profit, version |-> version'[o]]

\* A trading call and what became of it: it is held while it keeps its button busy.
Ask(what, o, level) == [what |-> what, of |-> o, level |-> level]
Open == UNION {[S -> Stops] : S \in SUBSET Orders}
Asks == [what: {"place", "close", "cancel", "amend"}, of: Orders, level: Stops]
Readings == [stage: {"none", "asked", "listed", "whole", "failed"}, open: Open,
         working: SUBSET Orders, missed: SUBSET Asks, versions: [Orders -> Nat], unread: BOOLEAN]
Call == [what: {"place", "close", "cancel", "amend"}, of: Orders, level: Stops,
         held: BOOLEAN, stage: {"out", "answered", "failed"}, from: Nat, answer: Seq(Event)]

\* Account::trade for each of `wanted', in the calls `now': what is busy already is dropped;
\* without a client the call fails.
IsBusy(a, now) == \E c \in now : c.held /\ c.what = a.what
                                /\ (c.of = a.of \/ a.what = "place")
Started(wanted, now) ==
  now \cup {[what |-> a.what, of |-> a.of, level |-> a.level, held |-> TRUE,
             stage |-> IF connected THEN "out" ELSE "failed",
             from |-> IF a.of \in mixed' THEN 0 ELSE newest'[a.of], answer |-> <<>>] :
            a \in {w \in wanted : ~IsBusy(w, now)}}

\* A change of a stop is dropped, and the one under way is another.
IsTaken(a, now) == a.what = "amend" /\ \E c \in now :
  c.held /\ c.what = "amend" /\ c.of = a.of /\ c.level # a.level

\* A reading of the account, and what it has read so far.
Reading(stage) == [stage |-> stage, open |-> Nothing, working |-> {}, missed |-> {},
                   versions |-> [o \in Orders |-> 0], unread |-> FALSE]

Trouble == troubles < MaxTroubles /\ troubles' = troubles + 1

Init ==
  /\ at \in {[o \in Orders |-> "new"], [o \in Orders |-> "working"]}
  /\ stop = [o \in Orders |-> 0] /\ made = [o \in Orders |-> 0]
  /\ version = [o \in Orders |-> 0]
  /\ connected = FALSE /\ events = <<>> /\ calls = {} /\ reading = Reading("none")
  /\ positions = Nothing /\ orders = {} /\ queue = <<>>
  /\ status = "Loading" /\ trader = FALSE /\ uncertain = FALSE
  /\ troubles = 0
  /\ newest = [o \in Orders |-> 0] /\ mixed = {} /\ dropped = {}
  /\ unread = FALSE

-----------------------------------------------------------------------------
(* The rules of a plan (plan.rs) *)

Entry == 1

\* plan::oco_siblings: the working orders of the other side.
OcoSiblings(filled, working) == {o \in working : (o \in Buys) # (filled \in Buys)}

\* Slips: the stop is moved wherever it is; the legs are counted from the next one.
MovesAnyStop(closed, profit, open) ==
  IF profit > 0 /\ Leg[closed] = After
  THEN {o \in DOMAIN open : Leg[o] # Leg[closed]} ELSE {}
MovesAfterTheNext(closed, profit, open) ==
  IF profit > 0 /\ Leg[closed] = After + 1
  THEN {o \in DOMAIN open : Leg[o] # Leg[closed] /\ open[o] < Entry} ELSE {}

\* plan::break_even_moves: the legs still open whose stop is not yet at their entry.
BreakEvenMoves(closed, profit, open) ==
  IF profit > 0 /\ Leg[closed] = After
  THEN {o \in DOMAIN open : Leg[o] # Leg[closed] /\ open[o] < Entry} ELSE {}

\* Slip: a position still open is not one that closed, nor one that filled.
CatchUpOfClosed(filled, profits, open, working) ==
  {Ask("cancel", o, 0) : o \in UNION {OcoSiblings(f, working) : f \in filled \ DOMAIN open}}
    \cup {Ask("amend", o, Entry) : o \in UNION {BreakEvenMoves(c, profits[c], open) :
                                                c \in filled \ DOMAIN open}}

(***************************************************************************)
(* plan::catch_up, from one reading: the orders that filled, what each     *)
(* position made in all its deals, what is open and what works.            *)
(***************************************************************************)
CatchUp(filled, profits, open, working) ==
  {Ask("cancel", o, 0) : o \in UNION {OcoSiblings(f, working) : f \in filled}}
    \cup {Ask("amend", o, Entry) : o \in UNION {BreakEvenMoves(c, profits[c], open) :
                                                c \in filled \ DOMAIN open}}

\* Account::manage: what the rules ask after an event, from the book it left.
Manage(e, open, working) ==
  (IF e.kind = "filled" /\ e.order = "done"
   THEN {Ask("cancel", o, 0) : o \in OcoSiblings(e.of, working)} ELSE {})
    \cup (IF e.kind = "filled" /\ e.position = "closed"
          THEN {Ask("amend", o, Entry) : o \in BreakEvenMoves(e.of, e.profit, open)} ELSE {})

-----------------------------------------------------------------------------
(* The book *)

\* Slip: an order that works no more stays in the book when its position is open.
ApplyKeepingOrders(e) ==
  /\ positions' = CASE e.position = "open"   -> Put(positions, e.of, e.stop)
                    [] e.position = "closed" -> Without(positions, e.of)
                    [] e.position = "trailed" /\ e.of \in DOMAIN positions ->
                         Put(positions, e.of, e.stop)
                    [] OTHER -> positions
  /\ orders' = IF e.order = "working" THEN orders \cup {e.of} ELSE orders

\* AccountBook::apply, and the change of a trailing stop, which only a known position takes.
Apply(e) ==
  /\ positions' = CASE e.position = "open"   -> Put(positions, e.of, e.stop)
                    [] e.position = "closed" -> Without(positions, e.of)
                    [] e.position = "trailed" /\ e.of \in DOMAIN positions ->
                         Put(positions, e.of, e.stop)
                    [] OTHER -> positions
  /\ orders' = CASE e.order = "working" -> orders \cup {e.of}
                 [] e.order = "done"    -> orders \ {e.of}
                 [] OTHER -> orders

\* What is remembered of it: a message older than the book's last word mixes the two.
Newer(v, w) == IF v < w THEN w ELSE v
Remember(e) ==
  IF e.position = "none" /\ e.order = "none" THEN UNCHANGED <<newest, mixed>> ELSE
  /\ newest' = [newest EXCEPT ![e.of] = Newer(newest[e.of], e.version)]
  /\ mixed' = IF e.version < newest[e.of] THEN mixed \cup {e.of} ELSE mixed

\* Account::on_event for an execution event, with `more' asked by the handler around
\* it and the calls `now' in flight.
OnExecution(e, more, now) ==
  LET wanted == Manage(e, positions', orders') \cup more IN
  /\ Apply(e) /\ Remember(e)
  /\ calls' = Started(wanted, now)
  /\ dropped' = dropped \cup {w.of : w \in {a \in wanted : IsTaken(a, now)}}

\* Account::on_ready.  The answer of a reading that was under way counts for nothing:
\* its number (epoch) is not the account's any more.
OnReady ==
  /\ reading' = Reading(IF connected' THEN "asked" ELSE "failed")
  /\ status' = IF trader THEN status ELSE "Loading"

-----------------------------------------------------------------------------
(* The broker *)

Changed(o) == version' = [version EXCEPT ![o] = version[o] + 1]
Emit(e) == events' = IF connected THEN Append(events, e) ELSE events

\* A pending order fills.
Fill(o) ==
  /\ Len(events) < MaxEvents /\ at[o] = "working"
  /\ at' = [at EXCEPT ![o] = "open"] /\ Changed(o) /\ UNCHANGED <<stop, made>>
  /\ Emit(Message("filled", o, "done", "open", 0))
  /\ UNCHANGED <<connected, calls, reading, accountVars, troubles, ghostVars>>

\* What a close makes: only the leg of the rule has its profit read.
Profits(o, size) == IF Leg[o] = After THEN {size, -size} ELSE {size}

\* A position closes at its stop loss or its take profit, or the user closes it elsewhere.
CloseThere(o) ==
  /\ Len(events) < MaxEvents /\ at[o] = "open"
  /\ \E profit \in Profits(o, 1) :
       /\ at' = [at EXCEPT ![o] = "closed"] /\ made' = [made EXCEPT ![o] = made[o] + profit]
       /\ Changed(o) /\ UNCHANGED stop
       /\ Emit(Message("filled", o, "none", "closed", profit))
  /\ UNCHANGED <<connected, calls, reading, accountVars, troubles, ghostVars>>

\* A part of the position of the rule's leg is closed elsewhere.
ClosePart(o) ==
  /\ Trouble
  /\ Len(events) < MaxEvents /\ at[o] = "open" /\ made[o] = 0 /\ Leg[o] = After
  /\ \E profit \in Profits(o, 2) :
       /\ made' = [made EXCEPT ![o] = profit] /\ Changed(o) /\ UNCHANGED <<at, stop>>
       /\ Emit(Message("filled", o, "none", "open", profit))
  /\ UNCHANGED <<connected, calls, reading, accountVars, ghostVars>>

\* The broker trails the stop past the entry.
Trail(o) ==
  /\ Trouble
  /\ Len(events) < MaxEvents /\ at[o] = "open" /\ stop[o] < 2
  /\ stop' = [stop EXCEPT ![o] = 2] /\ Changed(o) /\ UNCHANGED <<at, made>>
  /\ Emit(Message("trailed", o, "none", "trailed", 0))
  /\ UNCHANGED <<connected, calls, reading, accountVars, ghostVars>>

\* A working order expires, or the user cancels it elsewhere.
Expire(o) ==
  /\ Trouble
  /\ Len(events) < MaxEvents /\ at[o] = "working"
  /\ at' = [at EXCEPT ![o] = "gone"] /\ Changed(o) /\ UNCHANGED <<stop, made>>
  /\ Emit(Message("cancelled", o, "done", "none", 0))
  /\ UNCHANGED <<connected, calls, reading, accountVars, ghostVars>>

\* The first event of a request answers it.
Answers(c, e) == calls' = (calls \ {c}) \cup {[c EXCEPT !.stage = "answered", !.answer = <<e>>]}

Carries(c) == CASE c.what = "place"  -> at[c.of] = "new"
                [] c.what = "cancel" -> at[c.of] = "working"
                [] OTHER             -> at[c.of] = "open"

\* The broker does what call `c' asks; a close may be accepted first and filled after.
CarryOut(c) ==
  /\ c.stage = "out" /\ Carries(c) /\ Changed(c.of)
  /\ \/ /\ c.what = "place"
        /\ at' = [at EXCEPT ![c.of] = "working"] /\ UNCHANGED <<stop, made, events>>
        /\ Answers(c, Message("accepted", c.of, "working", "none", 0))
     \/ /\ c.what = "cancel"
        /\ at' = [at EXCEPT ![c.of] = "gone"] /\ UNCHANGED <<stop, made, events>>
        /\ Answers(c, Message("cancelled", c.of, "done", "none", 0))
     \/ /\ c.what = "amend"
        /\ stop' = [stop EXCEPT ![c.of] = c.level] /\ UNCHANGED <<at, made, events>>
        /\ Answers(c, Message("replaced", c.of, "none", "open", 0))
     \/ /\ c.what = "close"
        /\ \E profit \in Profits(c.of, 1) :
             /\ at' = [at EXCEPT ![c.of] = "closed"]
             /\ made' = [made EXCEPT ![c.of] = made[c.of] + profit] /\ UNCHANGED stop
             /\ LET closed == Message("filled", c.of, "none", "closed", profit) IN
                \/ Answers(c, closed) /\ UNCHANGED events
                \/ /\ Answers(c, [closed EXCEPT !.kind = "accepted", !.position = "none"])
                   /\ Emit(closed)
  /\ UNCHANGED <<connected, reading, accountVars, troubles, ghostVars>>

\* It refuses what can be done no more, and at times what could be.
Refuse(c) ==
  /\ c.stage = "out"
  /\ IF Carries(c) THEN Trouble ELSE UNCHANGED troubles
  /\ calls' = (calls \ {c}) \cup {[c EXCEPT !.stage = "failed"]}
  /\ UNCHANGED <<brokerVars, connected, events, reading, accountVars, ghostVars>>

-----------------------------------------------------------------------------
(* The connection *)

\* It is lost with the events on their way, the answers and the readings under way.
Lose ==
  /\ connected /\ Trouble
  /\ connected' = FALSE /\ events' = <<>>
  /\ calls' = {[c EXCEPT !.stage = "failed", !.answer = <<>>] : c \in calls}
  /\ reading' = IF reading.stage \in {"asked", "listed"} THEN Reading("failed") ELSE reading
  /\ UNCHANGED <<brokerVars, accountVars, ghostVars>>

\* The session is ready again: the account is read.
Connect ==
  /\ ~connected /\ connected' = TRUE
  /\ OnReady
  /\ UNCHANGED <<brokerVars, events, calls, positions, orders, queue, trader, uncertain,
                 troubles, newest, mixed, dropped, unread>>

-----------------------------------------------------------------------------
(* The calls of the account *)

Asking(wanted) ==
  /\ UNCHANGED ghostVars /\ calls' = Started(wanted, calls)
  /\ UNCHANGED <<brokerVars, connected, events, reading, positions, orders, status, trader,
                 uncertain>>

\* The ticket sends the plan: the first order, the others wait.
SendPlan ==
  /\ \A o \in Orders : at[o] = "new"
  /\ queue = <<>> /\ ~\E c \in calls : c.what = "place"
  /\ Plan # <<>> /\ queue' = Tail(Plan)
  /\ Trouble /\ Asking({Ask("place", Head(Plan), 0)})

\* Account::close_position, cancel_order and protect_position, asked by the user.
CloseIt(o)  == o \in DOMAIN positions /\ Trouble /\ UNCHANGED queue /\ Asking({Ask("close", o, 0)})
CancelIt(o) == o \in orders /\ Trouble /\ UNCHANGED queue /\ Asking({Ask("cancel", o, 0)})
MoveStop(o, level) ==
  o \in DOMAIN positions /\ Trouble /\ UNCHANGED queue /\ Asking({Ask("amend", o, level)})

\* Account::enforce_time_stops, for a position whose time is up.
TimeStop(o) ==
  /\ status = "Ready" /\ ~uncertain
  /\ o \in DOMAIN positions \cap Timed /\ ~IsBusy(Ask("close", o, 0), calls)
  /\ Trouble /\ UNCHANGED queue /\ Asking({Ask("close", o, 0)})

\* The event that answers a call: it is applied, and the next order of a plan is sent.
Answer(c) ==
  /\ c.stage = "answered"
  /\ LET sends == c.what = "place" /\ queue # <<>> /\ ~\E d \in calls \ {c} : d.held /\ d.what = "place"
         next == IF sends THEN {Ask("place", Head(queue), 0)} ELSE {} IN
     /\ OnExecution(Head(c.answer), next, calls \ {c})
     /\ queue' = IF sends THEN Tail(queue) ELSE queue
  /\ UNCHANGED <<brokerVars, connected, events, reading, status, trader, uncertain,
                 troubles, unread>>

\* A call that failed: a plan stops there, and the account is read.  An order may have
\* reached the broker or surely not (Error::outcome_unknown).
Fail(c) ==
  /\ c.stage = "failed" /\ calls' = calls \ {c}
  /\ uncertain' \in IF c.what = "place" THEN {uncertain, TRUE} ELSE {uncertain}
  /\ queue' = IF c.what = "place" THEN <<>> ELSE queue
  /\ UNCHANGED connected /\ OnReady
  /\ UNCHANGED <<brokerVars, events, positions, orders, trader, troubles, ghostVars>>

\* The timer of a call: its button is free, its answer may still come.
GiveUp(c) ==
  /\ c.held /\ Trouble
  /\ calls' = (calls \ {c}) \cup {[c EXCEPT !.held = FALSE]}
  /\ uncertain' = TRUE /\ queue' = <<>>
  /\ UNCHANGED connected /\ OnReady
  /\ UNCHANGED <<brokerVars, events, positions, orders, trader, ghostVars>>

\* An event of the stream.
OnEvent ==
  /\ events # <<>> /\ events' = Tail(events)
  /\ OnExecution(Head(events), {}, calls)
  /\ UNCHANGED <<brokerVars, connected, reading, queue, status, trader, uncertain,
                 troubles, unread>>

-----------------------------------------------------------------------------
(* The readings *)

\* The positions and orders are read, in one request.
ReadOpen ==
  /\ reading.stage = "asked"
  /\ reading' = [reading EXCEPT !.stage = "listed", !.versions = version,
                   !.open = [o \in {p \in Orders : at[p] = "open"} |-> stop[o]],
                   !.working = {o \in Orders : at[o] = "working"}]
  /\ UNCHANGED <<brokerVars, connected, events, calls, accountVars, troubles, ghostVars>>

\* The deals and the orders of the past are read (plans::missed_exits).  One of these
\* requests may fail: without the deals no profit is known, without another nothing was missed.
ReadPast ==
  /\ reading.stage = "listed"
  /\ LET found(profits) == CatchUp({o \in Orders : at[o] \in {"open", "closed"}},
                                   profits, reading.open, reading.working) IN
     \/ /\ reading' = [reading EXCEPT !.stage = "whole", !.missed = found(made)]
        /\ UNCHANGED troubles
     \/ /\ Trouble
        /\ \E missed \in {{}, found([o \in Orders |-> 0])} :
             reading' = [reading EXCEPT !.stage = "whole", !.missed = missed, !.unread = TRUE]
  /\ UNCHANGED <<brokerVars, connected, events, calls, accountVars, ghostVars>>

\* A request that a reading cannot do without fails.
BreakOff ==
  /\ reading.stage = "asked" /\ Trouble
  /\ reading' = Reading("failed")
  /\ UNCHANGED <<brokerVars, connected, events, calls, accountVars, ghostVars>>

FailReading ==
  /\ reading.stage = "failed"
  /\ reading' = Reading("none") /\ status' = "Failed"
  /\ UNCHANGED <<brokerVars, connected, events, calls, positions, orders, queue, trader,
                 uncertain, troubles, ghostVars>>

\* What is done of a reading: only what the book still holds, as it was just read.
Missed == {w \in reading.missed : IF w.what = "amend" THEN w.of \in DOMAIN reading.open
                                                   ELSE w.of \in reading.working}

\* AccountBook::reconcile, then Account::catch_up.
Reconcile ==
  /\ reading.stage = "whole"
  /\ reading' = Reading("none")
  /\ positions' = reading.open /\ orders' = reading.working
  /\ status' = "Ready" /\ trader' = TRUE /\ uncertain' = FALSE
  /\ newest' = [o \in Orders |-> Newer(newest[o], reading.versions[o])] /\ unread' = reading.unread
  /\ mixed' = {o \in Orders : reading.versions[o] < newest[o]}
  /\ calls' = Started(Missed, calls)
  /\ dropped' = dropped \cup {w.of : w \in {a \in Missed : IsTaken(a, calls)}}
  /\ UNCHANGED <<brokerVars, connected, events, queue, troubles>>

-----------------------------------------------------------------------------
Market == \E o \in Orders : Fill(o) \/ CloseThere(o) \/ ClosePart(o) \/ Trail(o) \/ Expire(o)
User   == \/ SendPlan
          \/ \E o \in Orders : \/ CloseIt(o) \/ CancelIt(o) \/ TimeStop(o)
                               \/ \E level \in Stops \ {Entry} : MoveStop(o, level)
Broker == \E c \in calls : CarryOut(c) \/ Refuse(c)
Calls  == \E c \in calls : Answer(c) \/ Fail(c)
Read   == ReadOpen \/ ReadPast \/ FailReading \/ Reconcile

Next == \/ Market \/ User \/ Broker \/ Calls \/ OnEvent \/ Read
        \/ Lose \/ Connect
        \/ \E c \in calls : GiveUp(c)
        \/ BreakOff

Spec == Init /\ [][Next]_vars

\* While the broker has a request to answer, a task, an event or a reading can go on, or
\* the session can come back, one of them does.
Fairness == WF_vars(Broker \/ Calls \/ OnEvent \/ Read \/ Connect)
FairSpec == Spec /\ Fairness

-----------------------------------------------------------------------------
(* Properties *)

\* Every variable keeps to what the account, the broker and the way between can hold.
TypeOK ==
  /\ at \in [Orders -> Places] /\ stop \in [Orders -> Stops] /\ made \in [Orders -> Int]
  /\ version \in [Orders -> Nat] /\ newest \in [Orders -> Nat]
  /\ connected \in BOOLEAN /\ events \in Seq(Event) /\ calls \in SUBSET Call
  /\ reading \in Readings
  /\ positions \in Open /\ orders \subseteq Orders /\ queue \in Seq(Orders)
  /\ status \in {"Loading", "Ready", "Failed"} /\ trader \in BOOLEAN /\ uncertain \in BOOLEAN
  /\ troubles \in 0 .. MaxTroubles
  /\ mixed \subseteq Orders /\ dropped \subseteq Orders
  /\ unread \in BOOLEAN

\* Nothing is on its way between the account and the broker.
AtRest == connected /\ status = "Ready" /\ events = <<>> /\ calls = {} /\ reading.stage = "none"

AgreesOn(o) == /\ (o \in orders) = (at[o] = "working")
               /\ (o \in DOMAIN positions) = (at[o] = "open")
               /\ o \in DOMAIN positions => positions[o] = stop[o]

(* At rest the book says of every order and position what the broker does,   *)
(* unless a message that was overtaken was applied to it: the answers, the   *)
(* events and the readings (book.rs, sync.rs) leave nothing out and nothing  *)
(* behind, whatever was lost on the way.                                     *)
BookIsCurrent == AtRest => \A o \in Orders \ mixed : AgreesOn(o)

(* "The rule only tightens" (plan.rs:376): a stop that the app moves for a   *)
(* plan, asked when the book knew the broker's last word on the position, is *)
(* never moved back.                                                         *)
RuleOnlyTightens == [][\A c \in calls :
  (c.what = "amend" /\ c.level = Entry /\ c.from = version[c.of] /\ c \notin calls')
    => stop'[c.of] >= stop[c.of]]_vars

\* The last reading failed and no other is under way: "the next connection tries again".
GaveUp == connected /\ reading.stage = "none" /\ (status = "Failed" \/ unread)

(* An order of an OCO pair whose other side filled is cancelled in the end   *)
(* (plans.rs:15), when the event of the fill comes to a book that holds the  *)
(* order and was read before, and when the fill comes while the connection   *)
(* is lost and the event with it: whatever is refused, lost or silent.       *)
Filled(f) == at[f] \in {"open", "closed"}
FillIsComing(f) == \E i \in DOMAIN events : events[i].of = f /\ events[i].order = "done"
OtherSideFilled(o) == \E f \in Orders :
  /\ Filled(f) /\ o \in OcoSiblings(f, {o})
  /\ ~connected \/ (FillIsComing(f) /\ o \in orders /\ reading.stage = "none")
OneSideStays == \A o \in Orders :
  (at[o] = "working" /\ OtherSideFilled(o)) ~> (at[o] # "working" \/ GaveUp)

(* "An OCO pair whose one side filled loses the other" (plans.rs:15): an     *)
(* order whose other side filled is cancelled in the end.                    *)
PairLosesTheOther == \A o \in Orders :
  (at[o] = "working" /\ \E f \in Orders : Filled(f) /\ o \in OcoSiblings(f, {o}))
    ~> (at[o] # "working" \/ GaveUp)

(* A stop under the entry moves to it in the end, once the leg of the rule   *)
(* closed in profit (plans.rs:16), when the event comes to a book that holds *)
(* the position and was read before, and when the connection is lost: unless *)
(* another change of the stop was under way when the app asked for it.       *)
CloseIsComing(l) == \E i \in DOMAIN events :
  events[i].of = l /\ events[i].position = "closed" /\ events[i].profit > 0
LegClosed(o) == \E l \in Orders :
  /\ Leg[l] = After /\ at[l] = "closed" /\ made[l] > 0
  /\ \/ ~connected
     \/ /\ CloseIsComing(l) /\ reading.stage = "none"
        /\ o \in DOMAIN positions \ mixed /\ positions[o] < Entry
BreakEvenComes == \A o \in {r \in Orders : Leg[r] # After} :
  (at[o] = "open" /\ stop[o] < Entry /\ LegClosed(o))
    ~> (at[o] # "open" \/ stop[o] >= Entry \/ GaveUp \/ o \in dropped)
=============================================================================
