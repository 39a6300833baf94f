---------------------------- MODULE AccountOrders ----------------------------
(***************************************************************************)
(* The order side of the live account (crates/wyck-app/src/account): every *)
(* trading call it starts, the fifteen second timer and the answer of each *)
(* call, the queue of a plan, the orders whose answer never came, the      *)
(* reversals that wait for a close to be final, and the reading of the     *)
(* account that settles what was in doubt.                                 *)
(*                                                                         *)
(* The account is one entity of the user interface: a handler runs alone,  *)
(* to its end.  What interleaves is when each one runs: the user's         *)
(* commands, the timers, the answers of the calls (each in a task of its   *)
(* own, which no timer stops), the events of the broker and the readings.  *)
(*                                                                         *)
(* Abstracted: prices, volumes and symbols (an order has a "shape": its    *)
(* fingerprint, guard.rs), the limits of the safety settings (one switch   *)
(* that refuses every new order), and the book beyond the positions.       *)
(***************************************************************************)
EXTENDS Naturals, Sequences

CONSTANTS
  Shapes,        \* the fingerprints an order can have
  Positions,     \* the positions that are open when the session starts
  ReverseShape,  \* the shape of the order that reverses each position
  Changes,       \* what the user cancels or amends
  Switches,      \* bound: which of "kill" and "replay" the user turns on
  NoId,          \* stands for "no position"
  PlanSize,      \* bound: the most orders in one plan
  MaxOrders,     \* bound: the user places no order once this many were made
  MaxCalls,      \* bound: the user starts no call once this many were made
  MaxEpoch       \* bound: the session is not lost again after this many readings

ASSUME ConstantsAssumption ==
  /\ ReverseShape \in [Positions -> Shapes]
  /\ NoId \notin Positions /\ NoId \notin Changes
  /\ PlanSize \in Nat /\ MaxOrders \in Nat /\ MaxCalls \in Nat /\ MaxEpoch \in Nat

VARIABLES
  \* the fields of Account (account.rs)
  busy, calls, call_seq, uncertain, queue, placing, in_doubt, last,
  reversals, kill_switch, replay, epoch, positions,
  \* the tasks that run beside it: timers and answers of the calls, readings
  \* of the account, watches of a reversal
  timers, rpc, loads, watches,
  \* every order the account made, and what it told of those in doubt
  orders, told,
  \* the broker: what is open, what is being closed, what it accepted to close
  \* and then did not (kept to be told of), the events on their way
  open, closing, cancelled, events

callVars    == <<busy, calls, call_seq, timers, rpc>>
orderVars   == <<queue, placing, in_doubt, last, orders, told>>
reverseVars == <<reversals, watches>>
userVars    == <<kill_switch, replay>>
syncVars    == <<uncertain, epoch, positions, loads>>
brokerVars  == <<open, closing, cancelled, events>>
vars == <<callVars, orderVars, reverseVars, userVars, syncVars, brokerVars>>

-----------------------------------------------------------------------------
(* What is in flight *)

Placing    == [kind |-> "placing", of |-> NoId]
Closing(p) == [kind |-> "closing", of |-> p]
Changing(x) == [kind |-> "changing", of |-> x]
Busy == {Placing} \cup {Closing(p) : p \in Positions} \cup {Changing(x) : x \in Changes}

\* Where an order is: still with the account, in a call, or at the broker.
\* "refused" is an error answer, "rejected" an execution event that says so.
Places    == {"waiting", "out", "working", "filled", "refused", "rejected"}
Verdicts  == {"working", "executed", "missing"}
Results   == {"out", "accepted", "filled", "rejected", "refused", "unknown"}

\* Slip: an error answer is handled as the event that answers the request.
AllAnswers == {"accepted", "filled", "rejected", "refused"}

\* The answers that are an execution event, even one that rejects.
OkResults == {"accepted", "filled", "rejected"}

\* What the account heard of an order from the broker: "late" when the answer came
\* after the account had given up on its call.
Hearings  == {"nothing", "heard", "late"}

Order == [shape: Shapes, from: Positions \cup {NoId}, plan: Nat, at: Places,
          answered: Hearings, late: BOOLEAN]
Call  == [what: Busy, order: Nat, result: Results]
PendingReverse == [started: Nat, acknowledged: BOOLEAN, closed: BOOLEAN]
Told == [order: Nat, verdict: Verdicts, unread: BOOLEAN]
Watch == [position: Positions, started: Nat, final: BOOLEAN]
Load  == [epoch: Nat, doubts: SUBSET Nat, read: BOOLEAN, positions: SUBSET Positions,
          working: SUBSET Nat, filled: SUBSET Nat]
Timer == [what: Busy, seq: Nat]
Event == [type: {"order", "closed", "cancelled", "cancelled close", "error"},
          order: Nat, position: Positions \cup {NoId}]

Empty          == [x \in {} |-> 0]
Put(f, x, v)   == [y \in DOMAIN f \cup {x} |-> IF y = x THEN v ELSE f[y]]
Without(f, S)  == [y \in DOMAIN f \ S |-> f[y]]
OrderIds       == 1 .. Len(orders)

\* Slip: the number of the call is not compared.
IsBusy(what, seq) == what \in DOMAIN calls

\* A timer or an answer of call number `seq' still speaks for what is busy.
IsNewest(what, seq) == what \in DOMAIN calls /\ calls[what] = seq

-----------------------------------------------------------------------------
Init ==
  /\ busy = {} /\ calls = Empty /\ call_seq = 0 /\ timers = {} /\ rpc = Empty
  /\ queue = <<>> /\ placing = 0 /\ in_doubt = {} /\ last = {}
  /\ orders = <<>> /\ told = {}
  /\ reversals = Empty /\ watches = {}
  /\ kill_switch = FALSE /\ replay = FALSE
  /\ uncertain = FALSE /\ epoch = 0 /\ positions = {} /\ loads = {}
  /\ open = Positions /\ closing = {} /\ cancelled = {} /\ events = <<>>

\* Slip: a reading is started without a number of its own.
OnReadyUnnumbered ==
  /\ UNCHANGED epoch
  /\ loads' = loads \cup {[epoch |-> epoch, doubts |-> in_doubt', read |-> FALSE,
                           positions |-> {}, working |-> {}, filled |-> {}]}
  /\ UNCHANGED positions

(***************************************************************************)
(* Account::on_ready: read everything afresh.  `doubts' is what is in      *)
(* doubt when the reading starts; it is kept to be told of, nothing in the *)
(* code reads it.                                                          *)
(***************************************************************************)
OnReady ==
  /\ epoch' = epoch + 1
  /\ loads' = loads \cup {[epoch |-> epoch + 1, doubts |-> in_doubt', read |-> FALSE,
                           positions |-> {}, working |-> {}, filled |-> {}]}
  /\ UNCHANGED positions

\* Account::trade, once the ones before it released `held' and answered `answered':
\* the call gets the next number, a timer and a task of its own.
Start(what, o, held, lastCalls, tasks) ==
  /\ busy' = held \cup {what}
  /\ call_seq' = call_seq + 1
  /\ calls' = Put(lastCalls, what, call_seq + 1)
  /\ timers' = timers \cup {[what |-> what, seq |-> call_seq + 1]}
  /\ rpc' = Put(tasks, call_seq + 1, [what |-> what, order |-> o, result |-> "out"])

NewOrder(s, p, plan, at) ==
  [shape |-> s, from |-> p, plan |-> plan, at |-> at,
   answered |-> "nothing", late |-> FALSE]

-----------------------------------------------------------------------------
(* The user's commands *)

\* Account::place_with, for an order the limits clear: a refused or repeated
\* one changes nothing.  The two second window of the duplicate guard may
\* always be over.
UserPlaces(s) ==
  /\ Len(orders) < MaxOrders /\ call_seq < MaxCalls
  /\ ~kill_switch /\ ~replay
  /\ Placing \notin busy
  /\ last' = {s}
  /\ orders' = Append(orders, NewOrder(s, NoId, Len(orders) + 1, "out"))
  /\ placing' = Len(orders) + 1
  /\ Start(Placing, Len(orders) + 1, busy, calls, rpc)
  /\ UNCHANGED <<queue, in_doubt, told, reverseVars, userVars, syncVars, brokerVars>>

\* The orders of a plan, each given its id; the first is sent at once.
PlanOrders(plan) ==
  [i \in 1 .. Len(plan) |->
     NewOrder(plan[i], NoId, Len(orders) + 1, IF i = 1 THEN "out" ELSE "waiting")]

\* Account::place_batch for two orders or more (one alone goes to place_with):
\* all are given their ids and queued, then send_next sends the first.
UserPlacesPlan(plan) ==
  LET first == Len(orders) + 1
  IN /\ Len(orders) + Len(plan) <= MaxOrders /\ call_seq < MaxCalls
     /\ ~kill_switch /\ ~replay
     /\ Placing \notin busy /\ queue = <<>>
     /\ last' = {plan[1]}
     /\ orders' = orders \o PlanOrders(plan)
     /\ queue' = [i \in 1 .. Len(plan) - 1 |-> first + i]
     /\ placing' = first
     /\ Start(Placing, first, busy, calls, rpc)
     /\ UNCHANGED <<in_doubt, told, reverseVars, userVars, syncVars, brokerVars>>

\* Account::close_position: the user's, close_all's, and a time stop's, which
\* closes only what the user could close too.
UserCloses(p) ==
  /\ call_seq < MaxCalls
  /\ p \in positions
  /\ Closing(p) \notin busy
  /\ Start(Closing(p), 0, busy, calls, rpc)
  /\ UNCHANGED <<orderVars, reverseVars, userVars, syncVars, brokerVars>>

\* Account::reverse_position: the order that would open the other way is
\* checked, the reversal is noted, then the position is closed.
UserReverses(p) ==
  /\ call_seq < MaxCalls
  /\ Closing(p) \notin busy
  /\ p \in positions
  /\ ~kill_switch /\ ~replay
  /\ p \notin DOMAIN reversals
  /\ reversals' = Put(reversals, p, [started |-> call_seq + 1, acknowledged |-> FALSE, closed |-> FALSE])
  /\ Start(Closing(p), 0, busy, calls, rpc)
  /\ UNCHANGED <<orderVars, watches, userVars, syncVars, brokerVars>>

\* Account::cancel_order, move_order, protect_order, protect_position: a call
\* that neither opens nor closes anything.
UserChanges(x) ==
  /\ call_seq < MaxCalls
  /\ Changing(x) \notin busy
  /\ Start(Changing(x), 0, busy, calls, rpc)
  /\ UNCHANGED <<orderVars, reverseVars, userVars, syncVars, brokerVars>>

\* Account::set_risk, as far as it lets new orders through or not.
SetKillSwitch(on) ==
  /\ "kill" \in Switches /\ kill_switch # on
  /\ kill_switch' = on
  /\ UNCHANGED <<callVars, orderVars, reverseVars, replay, syncVars, brokerVars>>

\* Account::set_replay, when it does what it is asked.
SetReplay(on) ==
  /\ "replay" \in Switches /\ replay # on
  /\ on => Placing \notin busy /\ queue = <<>>
  /\ replay' = on
  /\ UNCHANGED <<callVars, orderVars, reverseVars, kill_switch, syncVars, brokerVars>>

-----------------------------------------------------------------------------
(* The broker and the network (external) *)

\* A request reaches the broker, which acts on it and answers.
OrderReaches(c) ==
  LET o == rpc[c].order IN
  /\ rpc[c].what = Placing /\ rpc[c].result = "out"
  /\ \E answer \in {"accepted", "filled", "rejected", "refused"} :
       /\ rpc' = [rpc EXCEPT ![c].result = answer]
       /\ orders' = [orders EXCEPT
                       ![o].at = IF answer = "accepted" THEN "working" ELSE answer,
                       ![o].late = placing # o]
  /\ UNCHANGED <<busy, calls, call_seq, timers, queue, placing, in_doubt, last, told,
                 reverseVars, userVars, syncVars, brokerVars>>

CloseReaches(c) ==
  LET p == rpc[c].what.of IN
  /\ rpc[c].what.kind = "closing" /\ rpc[c].result = "out"
  /\ \/ /\ p \in open \ closing
        /\ rpc' = [rpc EXCEPT ![c].result = "accepted"]
        /\ closing' = closing \cup {p}
        /\ UNCHANGED open
     \/ /\ p \in open \ closing
        /\ rpc' = [rpc EXCEPT ![c].result = "filled"]
        /\ open' = open \ {p}
        /\ UNCHANGED closing
     \/ /\ \E answer \in {"rejected", "refused"} : rpc' = [rpc EXCEPT ![c].result = answer]
        /\ UNCHANGED <<open, closing>>
  /\ UNCHANGED <<busy, calls, call_seq, timers, orderVars, reverseVars, userVars, syncVars, cancelled, events>>

ChangeReaches(c) ==
  /\ rpc[c].what.kind = "changing" /\ rpc[c].result = "out"
  /\ \E answer \in {"accepted", "refused"} : rpc' = [rpc EXCEPT ![c].result = answer]
  /\ UNCHANGED <<busy, calls, call_seq, timers, orderVars, reverseVars, userVars, syncVars, brokerVars>>

\* A call ends without an answer (it timed out, or the session has no client).
CallFails(c) ==
  /\ rpc[c].result = "out"
  /\ rpc' = [rpc EXCEPT ![c].result = "unknown"]
  /\ UNCHANGED <<busy, calls, call_seq, timers, orderVars, reverseVars, userVars, syncVars, brokerVars>>

\* The request of a call that failed was on the wire and arrives after all.
\* Its answer has no one waiting for it: it comes as an event.
LateArrival(o) ==
  /\ orders[o].at = "out"
  /\ \A c \in DOMAIN rpc : rpc[c].order = o => rpc[c].result = "unknown"
  /\ \E at \in {"working", "filled", "rejected", "refused"} :
       /\ orders' = [orders EXCEPT ![o].at = at, ![o].late = placing # o]
       /\ events' = Append(events, [type |-> IF at = "refused" THEN "error" ELSE "order",
                                    order |-> o, position |-> NoId])
  /\ UNCHANGED <<callVars, queue, placing, in_doubt, last, told, reverseVars, userVars, syncVars, open, closing, cancelled>>

BrokerFills(o) ==
  /\ orders[o].at = "working"
  /\ orders' = [orders EXCEPT ![o].at = "filled"]
  /\ events' = Append(events, [type |-> "order", order |-> o, position |-> NoId])
  /\ UNCHANGED <<callVars, queue, placing, in_doubt, last, told, reverseVars, userVars, syncVars, open, closing, cancelled>>

\* A position closes: the order that closes it filled, or its stop did.
BrokerCloses(p) ==
  /\ p \in open
  /\ open' = open \ {p} /\ closing' = closing \ {p}
  /\ events' = Append(events, [type |-> "closed", order |-> 0, position |-> p])
  /\ UNCHANGED <<callVars, orderVars, reverseVars, userVars, syncVars, cancelled>>

\* The order that closes a position is cancelled or refused later: the event
\* names the position, or only the order.
CloseFails(p) ==
  /\ p \in closing
  /\ closing' = closing \ {p} /\ cancelled' = cancelled \cup {p}
  /\ \E type \in {"cancelled", "cancelled close"} :
       events' = Append(events, [type |-> type, order |-> 0, position |-> p])
  /\ UNCHANGED <<callVars, orderVars, reverseVars, userVars, syncVars, open>>

\* The session is ready (again).  Calls that wait fail with the connection and
\* so may answers on their way; the last events may never come.
SessionReady ==
  /\ epoch < MaxEpoch
  /\ \E lost \in SUBSET {c \in DOMAIN rpc : rpc[c].result # "unknown"} :
       /\ \A c \in DOMAIN rpc : rpc[c].result = "out" => c \in lost
       /\ rpc' = [c \in DOMAIN rpc |->
                    IF c \in lost THEN [rpc[c] EXCEPT !.result = "unknown"] ELSE rpc[c]]
  /\ \E n \in 0 .. Len(events) : events' = SubSeq(events, 1, n)
  /\ UNCHANGED in_doubt
  /\ OnReady
  /\ UNCHANGED <<busy, calls, call_seq, timers, queue, placing, last, orders, told,
                 reverseVars, userVars, uncertain, open, closing, cancelled>>

-----------------------------------------------------------------------------
(* The timer and the answer of a call *)

\* Slip: the order in flight is dropped as one that was answered is.
ForgetPlacing == placing' = 0 /\ UNCHANGED in_doubt

\* Account::doubt_placing
DoubtPlacing == in_doubt' = in_doubt \cup ({placing} \ {0}) /\ placing' = 0

\* Slip: the rest of the plan stays queued.
KeepQueue == UNCHANGED queue

\* Account::drop_queue, and the queue.clear() of the timer.
DropQueue == queue' = <<>>

\* No answer in time: the account gives up on the call.
GiveUp(t) ==
  /\ IsNewest(t.what, t.seq)
  /\ timers' = timers \ {t}
  /\ calls' = Without(calls, {t.what})
  /\ busy' = busy \ {t.what}
  /\ uncertain' = TRUE
  /\ DropQueue
  /\ IF t.what = Placing
     THEN DoubtPlacing
     ELSE UNCHANGED <<in_doubt, placing>>
  /\ OnReady
  /\ UNCHANGED <<call_seq, rpc, last, orders, told, reverseVars, userVars, brokerVars>>

\* The timer of a call that was answered finds nothing to give up.
TimerIdle(t) ==
  /\ ~IsNewest(t.what, t.seq)
  /\ timers' = timers \ {t}
  /\ UNCHANGED <<busy, calls, call_seq, rpc, orderVars, reverseVars, userVars, syncVars, brokerVars>>

\* What is left busy, and called, once the answer of call c released its own.
Held(c) == IF IsNewest(rpc[c].what, c) THEN busy \ {rpc[c].what} ELSE busy
Kept(c) == IF IsNewest(rpc[c].what, c) THEN Without(calls, {rpc[c].what}) ELSE calls

Heard(c) == IF IsNewest(rpc[c].what, c) THEN "heard" ELSE "late"

Release(c) ==
  /\ busy' = Held(c)
  /\ calls' = Kept(c)
  /\ rpc' = Without(rpc, {c})
  /\ UNCHANGED <<call_seq, timers>>

\* Slip: the order to send is left at the head of the queue.
SendHead(c) ==
  /\ placing' = Head(queue)
  /\ UNCHANGED queue
  /\ orders' = [orders EXCEPT ![rpc[c].order].answered = Heard(c), ![Head(queue)].at = "out"]
  /\ Start(Placing, Head(queue), Held(c), Kept(c), Without(rpc, {c}))

\* Account::send_next after the answer of call c, when an order is left to send.
SendNext(c) ==
  /\ placing' = Head(queue)
  /\ queue' = Tail(queue)
  /\ orders' = [orders EXCEPT ![rpc[c].order].answered = Heard(c), ![Head(queue)].at = "out"]
  /\ Start(Placing, Head(queue), Held(c), Kept(c), Without(rpc, {c}))

\* An execution event answers a new order, and send_next sends the one after it.
AnswerPlaced(c) ==
  LET o == rpc[c].order IN
  /\ rpc[c].what = Placing /\ rpc[c].result \in OkResults
  /\ in_doubt' = in_doubt \ {o}
  /\ IF Placing \notin Held(c) /\ queue # <<>>
     THEN SendNext(c)
     ELSE /\ placing' = 0
          /\ orders' = [orders EXCEPT ![o].answered = Heard(c)]
          /\ Release(c)
          /\ UNCHANGED queue
  /\ UNCHANGED <<last, told, reverseVars, userVars, syncVars, brokerVars>>

\* A new order failed: the plan is dropped, and an unknown outcome is kept in doubt.
AnswerNotPlaced(c) ==
  /\ rpc[c].what = Placing /\ rpc[c].result \in {"refused", "unknown"}
  /\ Release(c)
  /\ DropQueue
  /\ IF rpc[c].result = "unknown"
     THEN /\ uncertain' = TRUE
          /\ DoubtPlacing
          /\ UNCHANGED orders
     ELSE /\ placing' = 0
          /\ orders' = [orders EXCEPT ![rpc[c].order].answered = Heard(c)]
          /\ UNCHANGED <<uncertain, in_doubt>>
  /\ OnReady
  /\ UNCHANGED <<last, told, reverseVars, userVars, brokerVars>>

(***************************************************************************)
(* Account::market for the reversals of `ready', in any order (they come   *)
(* from a hash map), after the handler left `held', `lastCalls' and        *)
(* `tasks'.  The first that is let through is sent; the ones after it find *)
(* an order in flight, the ones before it repeat the last order sent.      *)
(***************************************************************************)
PlaceReverses(ready, held, lastCalls, tasks) ==
  \/ /\ ready # {} /\ ~kill_switch /\ ~replay /\ Placing \notin held
     /\ \E p \in ready :
          /\ last' = {ReverseShape[p]}
          /\ orders' = Append(orders, NewOrder(ReverseShape[p], p, Len(orders) + 1, "out"))
          /\ placing' = Len(orders) + 1
          /\ Start(Placing, Len(orders) + 1, held, lastCalls, tasks)
  \/ /\ \/ ready = {}
        \/ kill_switch
        \/ replay
        \/ Placing \in held
        \/ \A p \in ready : ReverseShape[p] \in last
     /\ busy' = held /\ calls' = lastCalls /\ rpc' = tasks
     /\ UNCHANGED <<call_seq, timers, last, orders, placing>>

\* Slip: the acknowledgement is taken for the close.
ReadyOnceAcknowledged(pending) == {p \in DOMAIN pending : pending[p].acknowledged}

\* ReverseTracker::take_ready
Ready(pending) == {p \in DOMAIN pending : pending[p].acknowledged /\ pending[p].closed}

\* An execution event answers a close: ReverseTracker::acknowledged, then the
\* event itself (the position it carries is open, closed or missing).
AnswerClosing(c) ==
  LET p == rpc[c].what.of
      r == rpc[c].result
      pending == IF r = "rejected" THEN Without(reversals, {p})
                 ELSE [q \in DOMAIN reversals |->
                         IF q # p THEN reversals[q]
                         ELSE [reversals[q] EXCEPT !.acknowledged = TRUE,
                                                   !.closed = @ \/ r = "filled"]]
      ready == Ready(pending) \cap {p}
  IN /\ rpc[c].what.kind = "closing" /\ r \in OkResults
     /\ PlaceReverses(ready, Held(c), Kept(c), Without(rpc, {c}))
     /\ reversals' = Without(pending, ready)
     /\ watches' = watches \cup {[position |-> q, started |-> reversals'[q].started, final |-> FALSE] :
                                   q \in DOMAIN reversals' \cap {p}}
     /\ \/ positions' = IF r = "filled" THEN positions \ {p} ELSE positions
        \/ r # "filled" /\ positions' = positions \cup {p}
     /\ UNCHANGED <<queue, in_doubt, told, userVars, uncertain, epoch, loads, brokerVars>>

AnswerNotClosed(c) ==
  /\ rpc[c].what.kind = "closing" /\ rpc[c].result \in {"refused", "unknown"}
  /\ reversals' = Without(reversals, {rpc[c].what.of})
  /\ Release(c)
  /\ UNCHANGED <<uncertain, in_doubt>>
  /\ OnReady
  /\ UNCHANGED <<queue, placing, last, orders, told, watches, userVars, brokerVars>>

AnswerChanged(c) ==
  /\ rpc[c].what.kind = "changing" /\ rpc[c].result \in OkResults
  /\ Release(c)
  /\ UNCHANGED <<orderVars, reverseVars, userVars, syncVars, brokerVars>>

AnswerNotChanged(c) ==
  /\ rpc[c].what.kind = "changing" /\ rpc[c].result \in {"refused", "unknown"}
  /\ Release(c)
  /\ UNCHANGED <<uncertain, in_doubt>>
  /\ OnReady
  /\ UNCHANGED <<queue, placing, last, orders, told, reverseVars, userVars, brokerVars>>

-----------------------------------------------------------------------------
(* Account::on_event *)

\* An event that names an order answers the doubt about it.
OnOrderEvent ==
  /\ events # <<>> /\ Head(events).type = "order"
  /\ in_doubt' = in_doubt \ {Head(events).order}
  /\ orders' = [orders EXCEPT ![Head(events).order].answered =
                                IF @ = "late" THEN @ ELSE "heard"]
  /\ events' = Tail(events)
  /\ UNCHANGED <<callVars, queue, placing, last, told, reverseVars, userVars, syncVars, open, closing, cancelled>>

OnClosedEvent ==
  LET p == Head(events).position
      pending == [q \in DOMAIN reversals |->
                    IF q = p THEN [reversals[q] EXCEPT !.closed = TRUE] ELSE reversals[q]]
      ready == Ready(pending) \cap {p}
  IN /\ events # <<>> /\ Head(events).type = "closed"
     /\ PlaceReverses(ready, busy, calls, rpc)
     /\ reversals' = Without(pending, ready)
     /\ positions' = positions \ {p}
     /\ events' = Tail(events)
     /\ UNCHANGED <<queue, in_doubt, told, watches, userVars, uncertain, epoch, loads,
                    open, closing, cancelled>>

\* ReverseTracker::cancel_related: by the position, by the order that closes
\* it (known once the close was acknowledged), or all when neither is named.
Cancelled(event) ==
  CASE event.type = "error" -> DOMAIN reversals
    [] event.type = "cancelled" -> {event.position}
    [] OTHER -> {p \in DOMAIN reversals \cap {event.position} : reversals[p].acknowledged}

OnCancelEvent ==
  /\ events # <<>> /\ Head(events).type \in {"cancelled", "cancelled close", "error"}
  /\ reversals' = Without(reversals, Cancelled(Head(events)))
  /\ events' = Tail(events)
  /\ UNCHANGED <<callVars, orderVars, watches, userVars, syncVars, open, closing, cancelled>>

-----------------------------------------------------------------------------
(* The reading of the account, and the watch of a reversal *)

\* The broker answers the reading: what is open, working and dealt.  What an
\* older reading gets from now on is not told apart: its answer is ignored.
ReadAccount(l) ==
  /\ ~l.read /\ l.epoch = epoch
  /\ loads' = (loads \ {l}) \cup
       {[l EXCEPT !.read = TRUE, !.positions = open,
                  !.working = {o \in OrderIds : orders[o].at = "working"},
                  !.filled  = {o \in OrderIds : orders[o].at = "filled"}]}
  /\ UNCHANGED <<callVars, orderVars, reverseVars, userVars, uncertain, epoch, positions, brokerVars>>

\* A trade of another order of the same shape may be recent enough to be taken
\* for this one's (two minutes of slack), or too old.
Alike(traded, o) == \E d \in traded \ {o} : orders[d].shape = orders[o].shape
Traded(traded, o) ==
  CASE o \in traded -> {"executed"}
    [] o \notin traded /\ Alike(traded, o) -> {"executed", "missing"}
    [] OTHER -> {"missing"}

\* Slip: the working orders are not looked at.
FoundAmongTrades(l, traded, o) == Traded(traded, o)

\* InDoubt::find: a working order by its id, else a trade of the same shape.
Found(l, traded, o) == IF o \in l.working THEN {"working"} ELSE Traded(traded, o)

\* The reading is applied: the reversals whose position is gone are closed,
\* every order in doubt is told of (settle_in_doubt), and the orders of the
\* reversals that became ready are sent.  The reading shows nothing of an order that
\* filled when its position is no longer as it was opened and its deal is `unread': deals
\* that could not be read are taken for none, and no more of them than a number are asked.
LoadDone(l) ==
  LET pending == [p \in DOMAIN reversals |->
                    IF p \in l.positions THEN reversals[p]
                                         ELSE [reversals[p] EXCEPT !.closed = TRUE]]
      ready == Ready(pending) \ l.positions
  IN /\ l.read /\ l.epoch = epoch
     /\ loads' = loads \ {l}
     /\ uncertain' = FALSE
     /\ positions' = l.positions
     /\ \E unread \in SUBSET l.filled, verdict \in [in_doubt -> Verdicts] :
          /\ \A o \in in_doubt : verdict[o] \in Found(l, l.filled \ unread, o)
          /\ told' = told \cup {[order |-> o, verdict |-> verdict[o], unread |-> o \in unread] :
                                    o \in in_doubt}
     /\ in_doubt' = {}
     /\ PlaceReverses(ready, busy, calls, rpc)
     /\ reversals' = Without(pending, ready)
     /\ UNCHANGED <<queue, watches, userVars, epoch, brokerVars>>

\* A reading that failed, and the answer to an older one, change nothing here.
LoadIgnored(l) ==
  /\ loads' = loads \ {l}
  /\ UNCHANGED <<callVars, orderVars, reverseVars, userVars, uncertain, epoch, positions, brokerVars>>

Pending(w) == w.position \in DOMAIN reversals /\ reversals[w.position].started = w.started

\* Ten seconds after the close was acknowledged the account is read again if
\* the reversal still waits; twenty seconds later the reversal is given up.
WatchRechecks(w) ==
  /\ ~w.final
  /\ watches' = (watches \ {w}) \cup {[w EXCEPT !.final = TRUE]}
  /\ UNCHANGED <<uncertain, in_doubt>>
  /\ IF Pending(w) THEN OnReady ELSE UNCHANGED <<epoch, loads, positions>>
  /\ UNCHANGED <<callVars, queue, placing, last, orders, told, reversals, userVars, brokerVars>>

\* Slip: the last look of the watch leaves the reversal waiting.
WatchForgets(w) ==
  /\ w.final
  /\ watches' = watches \ {w}
  /\ UNCHANGED reversals
  /\ UNCHANGED <<callVars, orderVars, userVars, syncVars, brokerVars>>

WatchEnds(w) ==
  /\ w.final
  /\ watches' = watches \ {w}
  /\ reversals' = IF Pending(w) THEN Without(reversals, {w.position}) ELSE reversals
  /\ UNCHANGED <<callVars, orderVars, userVars, syncVars, brokerVars>>

-----------------------------------------------------------------------------
Plans == UNION {[1 .. n -> Shapes] : n \in 2 .. PlanSize}

User ==
  \/ \E s \in Shapes : UserPlaces(s)
  \/ \E plan \in Plans : UserPlacesPlan(plan)
  \/ \E p \in Positions : UserCloses(p) \/ UserReverses(p)
  \/ \E x \in Changes : UserChanges(x)
  \/ \E on \in BOOLEAN : SetKillSwitch(on) \/ SetReplay(on)

Broker ==
  \/ \E c \in DOMAIN rpc : OrderReaches(c) \/ CloseReaches(c) \/ ChangeReaches(c)
  \/ \E o \in OrderIds : LateArrival(o) \/ BrokerFills(o)
  \/ \E p \in Positions : BrokerCloses(p) \/ CloseFails(p)

Answer(c) ==
  \/ AnswerPlaced(c) \/ AnswerNotPlaced(c)
  \/ AnswerClosing(c) \/ AnswerNotClosed(c)
  \/ AnswerChanged(c) \/ AnswerNotChanged(c)

OnEvent == OnOrderEvent \/ OnClosedEvent \/ OnCancelEvent

Next ==
  \/ User
  \/ Broker
  \/ SessionReady
  \/ \E c \in DOMAIN rpc : CallFails(c) \/ Answer(c)
  \/ \E t \in timers : GiveUp(t) \/ TimerIdle(t)
  \/ OnEvent
  \/ \E l \in loads : ReadAccount(l) \/ LoadDone(l) \/ LoadIgnored(l)
  \/ \E w \in watches : WatchRechecks(w) \/ WatchEnds(w)

Spec == Init /\ [][Next]_vars

-----------------------------------------------------------------------------
(* Properties *)

\* Every variable has its type.
CallsType ==
  /\ busy \subseteq Busy
  /\ DOMAIN calls \subseteq Busy /\ \A b \in DOMAIN calls : calls[b] \in Nat
  /\ call_seq \in Nat
  /\ timers \subseteq Timer
  /\ DOMAIN rpc \subseteq 1 .. call_seq /\ \A c \in DOMAIN rpc : rpc[c] \in Call
OrdersType ==
  /\ orders \in Seq(Order) /\ queue \in Seq(Nat)
  /\ placing \in Nat /\ in_doubt \subseteq Nat /\ last \subseteq Shapes /\ told \subseteq Told
ReversalsType ==
  /\ DOMAIN reversals \subseteq Positions
  /\ \A p \in DOMAIN reversals : reversals[p] \in PendingReverse
  /\ watches \subseteq Watch
SyncType ==
  /\ uncertain \in BOOLEAN /\ kill_switch \in BOOLEAN /\ replay \in BOOLEAN
  /\ epoch \in Nat /\ positions \subseteq Positions /\ loads \subseteq Load
BrokerType ==
  /\ open \subseteq Positions /\ closing \subseteq open /\ cancelled \subseteq Positions
  /\ events \in Seq(Event)

TypeOK == CallsType /\ OrdersType /\ ReversalsType /\ SyncType /\ BrokerType

\* Whatever is busy has a call of its own still running and a timer still to
\* come, so nothing stays busy for ever; and a call that is neither answered nor
\* given up keeps its own busy: no late answer or timer of an older call frees
\* it, so two calls for one thing never wait at once (account.rs: "so a late
\* answer is not taken for a newer one").
BusyHasItsCall ==
  /\ busy = DOMAIN calls
  /\ \A b \in busy : /\ calls[b] \in DOMAIN rpc /\ rpc[calls[b]].what = b
                     /\ [what |-> b, seq |-> calls[b]] \in timers
  /\ \A c \in DOMAIN rpc :
       [what |-> rpc[c].what, seq |-> c] \in timers =>
         rpc[c].what \in busy /\ calls[rpc[c].what] = c

\* The orders of a plan wait only behind one that is in flight: no answer,
\* refusal or timer leaves a queue that nothing will ever send (orders.rs,
\* send_next and drop_queue).
QueueWaitsForAnswer == queue # <<>> => Placing \in busy

\* The order kept as the one in flight is the order of the call in flight.
PlacingIsInFlight ==
  placing # 0 => Placing \in busy /\ rpc[calls[Placing]].order = placing

\* No replay starts between the orders of a plan, and none is being sent or
\* queued while one is on (set_replay: "so none is cut in two").
ReplayLocksOrders == replay => Placing \notin busy /\ queue = <<>>

\* A plan stays whole: its orders wait only behind one in flight, and it is neither
\* cut in two nor started by a replay.
PlanStaysWhole == QueueWaitsForAnswer /\ ReplayLocksOrders

\* A call that sends an order sends one that was never sent before: not when
\* it is in doubt, not when its call was given up, not after a reconnection.
NeverSentAgain ==
  [][\A c \in DOMAIN rpc' \ DOMAIN rpc :
        LET o == rpc'[c].order IN
        rpc'[c].what = Placing => o \notin OrderIds \/ orders[o].at = "waiting"]_vars

\* An order in doubt makes the account uncertain, and the reading whose answer
\* will be believed started after the doubt (on_ready and its epoch).
DoubtsPredateTheReading ==
  /\ in_doubt # {} => uncertain
  /\ \A l \in loads : l.epoch = epoch => in_doubt \subseteq l.doubts

\* An order told to be missing from the account does not work there, unless its request
\* reached the broker after the account had given up on it; and it was not executed
\* either, unless its position had closed, in part or whole, and the reading that told so
\* lacked its deal: the deals could not be read, or were more than it asks for.
MissingIsMissing ==
  \A t \in told : t.verdict = "missing" /\ ~orders[t.order].late =>
    /\ orders[t.order].at # "working"
    /\ orders[t.order].at = "filled" => t.unread

\* The order that opens the other way is only made for a position that is closed for
\* good, whichever of answer, event and reading tells of it first; and at most once,
\* unless the broker cancelled a close it had accepted: then two closes of one position
\* are acknowledged, and nothing in the code tells their answers apart (reverse.rs,
\* ReverseTracker::acknowledged knows a close by its position).
ReverseFollowsTheClose ==
  \A o \in OrderIds : orders[o].from \in Positions =>
    /\ orders[o].from \notin open
    /\ orders[o].from \in cancelled
       \/ \A other \in OrderIds : orders[other].from = orders[o].from => other = o

\* No order of a plan is sent after one the broker refused (place_batch).
PlanStopsAtARefusal ==
  \A o, next \in OrderIds :
    orders[o].plan = orders[next].plan /\ o < next /\ orders[o].at = "refused"
      => orders[next].at = "waiting"

\* Whatever becomes of the call of an order, the account hears of the order, keeps
\* it in doubt or tells what became of it (account.rs: "New orders whose answer
\* never came: the account says what became of each once it is read again").
\* A late answer is the one thing that makes the account forget an order, another
\* one than its own: it takes the `placing' of the order in flight.
NoOrderIsForgotten ==
  \/ \E o \in OrderIds : orders[o].answered = "late"
  \/ \A o \in OrderIds :
       \/ orders[o].at = "waiting" \/ orders[o].answered = "heard"
       \/ \E c \in DOMAIN rpc : rpc[c].order = o
       \/ o \in in_doubt
       \/ \E t \in told : t.order = o

-----------------------------------------------------------------------------
(* Liveness.  A timer fires, a call ends (its request times out if nothing  *)
(* else ends it), an answer and a watch are handled: tasks the runtime runs. *)

Fairness ==
  /\ WF_vars(\E t \in timers : GiveUp(t) \/ TimerIdle(t))
  /\ WF_vars(\E c \in DOMAIN rpc : CallFails(c))
  /\ WF_vars(\E c \in DOMAIN rpc : Answer(c))
  /\ WF_vars(\E w \in watches : WatchRechecks(w) \/ WatchEnds(w))

FairSpec == Spec /\ Fairness

\* A reversal is decided: its order is made, or it is given up.
ReversalEnds == \A p \in Positions : p \in DOMAIN reversals ~> p \notin DOMAIN reversals
=============================================================================
