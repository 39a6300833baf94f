------------------------ MODULE AccountOrders_proofs ------------------------
(***************************************************************************)
(* Proofs about AccountOrders, for every value of its constants: its type  *)
(* invariant; the invariant that ties what is busy, the calls, the timers, *)
(* the order in flight, the queue of a plan and replay together; and those *)
(* of the doubts, of what is sent, of the reversals, of the plans and of   *)
(* what is told of the orders in doubt.                                    *)
(***************************************************************************)
EXTENDS AccountOrders, SequenceTheorems, TLAPS

-----------------------------------------------------------------------------
(* The helpers of the calls *)

\* A call that starts keeps the types of the call side.
LEMMA StartType ==
  ASSUME CallsType, NEW what \in Busy, NEW o \in Nat, NEW held \in SUBSET Busy,
         NEW c1, DOMAIN c1 \subseteq Busy, \A b \in DOMAIN c1 : c1[b] \in Nat,
         NEW r1, DOMAIN r1 \subseteq DOMAIN rpc, \A c \in DOMAIN r1 : r1[c] \in Call,
         Start(what, o, held, c1, r1)
  PROVE  CallsType'
BY DEF CallsType, Start, Put, Timer, Call, Results

\* What an answer leaves busy, called and running has its types.
LEMMA HeldType ==
  ASSUME CallsType, NEW c \in DOMAIN rpc
  PROVE  /\ rpc[c] \in Call /\ rpc[c].what \in Busy /\ rpc[c].order \in Nat
         /\ Held(c) \in SUBSET Busy
         /\ DOMAIN Kept(c) \subseteq Busy /\ \A b \in DOMAIN Kept(c) : Kept(c)[b] \in Nat
         /\ DOMAIN Without(rpc, {c}) \subseteq DOMAIN rpc
         /\ \A d \in DOMAIN Without(rpc, {c}) : Without(rpc, {c})[d] \in Call
BY DEF CallsType, Held, Kept, Without, Call

LEMMA ReleaseType ==
  ASSUME CallsType, NEW c \in DOMAIN rpc, Release(c)
  PROVE  CallsType'
BY HeldType DEF CallsType, Release, Without

\* The reversals that are ready keep the types of the call side.
LEMMA PlaceReversesCallsType ==
  ASSUME CallsType, OrdersType, NEW ready, NEW held \in SUBSET Busy,
         NEW c1, DOMAIN c1 \subseteq Busy, \A b \in DOMAIN c1 : c1[b] \in Nat,
         NEW r1, DOMAIN r1 \subseteq DOMAIN rpc, \A c \in DOMAIN r1 : r1[c] \in Call,
         PlaceReverses(ready, held, c1, r1)
  PROVE  CallsType'
<1>1. CASE busy' = held /\ calls' = c1 /\ rpc' = r1 /\ UNCHANGED <<call_seq, timers>>
  BY <1>1 DEF CallsType
<1>2. CASE Start(Placing, Len(orders) + 1, held, c1, r1)
  <2>1. Placing \in Busy /\ Len(orders) + 1 \in Nat
    BY LenProperties DEF Busy, OrdersType
  <2> QED
    BY <1>2, <2>1, StartType
<1> QED
  BY <1>1, <1>2 DEF PlaceReverses

LEMMA CallsTypeStep == TypeOK /\ [Next]_vars => CallsType'
<1> SUFFICES ASSUME TypeOK, [Next]_vars PROVE CallsType'
  OBVIOUS
<1> USE DEF TypeOK
<1>a. /\ Placing \in Busy
      /\ \A p \in Positions : Closing(p) \in Busy
      /\ \A x \in Changes : Changing(x) \in Busy
  BY DEF Busy
<1>b. Len(orders) + 1 \in Nat /\ 0 \in Nat
  BY LenProperties DEF OrdersType
<1>c. /\ busy \in SUBSET Busy
      /\ DOMAIN calls \subseteq Busy /\ \A b \in DOMAIN calls : calls[b] \in Nat
      /\ DOMAIN rpc \subseteq DOMAIN rpc /\ \A c \in DOMAIN rpc : rpc[c] \in Call
  BY DEF CallsType
<1>1. ASSUME NEW s \in Shapes, UserPlaces(s) PROVE CallsType'
  BY <1>1, <1>a, <1>b, <1>c, StartType DEF UserPlaces
<1>2. ASSUME NEW plan \in Plans, UserPlacesPlan(plan) PROVE CallsType'
  BY <1>2, <1>a, <1>b, <1>c, StartType DEF UserPlacesPlan
<1>3. ASSUME NEW p \in Positions, UserCloses(p) \/ UserReverses(p) PROVE CallsType'
  BY <1>3, <1>a, <1>b, <1>c, StartType DEF UserCloses, UserReverses
<1>4. ASSUME NEW x \in Changes, UserChanges(x) PROVE CallsType'
  BY <1>4, <1>a, <1>b, <1>c, StartType DEF UserChanges
<1>5. ASSUME NEW on \in BOOLEAN, SetKillSwitch(on) \/ SetReplay(on) PROVE CallsType'
  BY <1>5 DEF SetKillSwitch, SetReplay, callVars, CallsType
<1>6. ASSUME NEW c \in DOMAIN rpc, OrderReaches(c) \/ CloseReaches(c) \/ ChangeReaches(c) \/ CallFails(c)
      PROVE  CallsType'
  BY <1>6 DEF OrderReaches, CloseReaches, ChangeReaches, CallFails, CallsType, Call, Results
<1>7. ASSUME NEW o \in OrderIds, LateArrival(o) \/ BrokerFills(o) PROVE CallsType'
  BY <1>7 DEF LateArrival, BrokerFills, callVars, CallsType
<1>8. ASSUME NEW p \in Positions, BrokerCloses(p) \/ CloseFails(p) PROVE CallsType'
  BY <1>8 DEF BrokerCloses, CloseFails, callVars, CallsType
<1>9. CASE SessionReady
  <2>1. PICK lost \in SUBSET DOMAIN rpc :
          rpc' = [c \in DOMAIN rpc |->
                    IF c \in lost THEN [rpc[c] EXCEPT !.result = "unknown"] ELSE rpc[c]]
    BY <1>9 DEF SessionReady
  <2>2. ASSUME NEW c \in DOMAIN rpc PROVE [rpc[c] EXCEPT !.result = "unknown"] \in Call
    BY DEF CallsType, Call, Results
  <2> QED
    BY <1>9, <2>1, <2>2 DEF SessionReady, CallsType
<1>10. ASSUME NEW c \in DOMAIN rpc, AnswerPlaced(c) PROVE CallsType'
  <2>1. CASE Placing \notin Held(c) /\ queue # <<>>
    <3>1. Head(queue) \in Nat
      BY <2>1 DEF OrdersType
    <3> QED
      BY <1>10, <2>1, <3>1, <1>a, HeldType, StartType DEF AnswerPlaced, SendNext
  <2>2. CASE Release(c)
    BY <2>2, ReleaseType
  <2> QED
    BY <1>10, <2>1, <2>2 DEF AnswerPlaced
<1>11. ASSUME NEW c \in DOMAIN rpc, AnswerNotPlaced(c) \/ AnswerNotClosed(c) \/ AnswerChanged(c) \/ AnswerNotChanged(c)
       PROVE  CallsType'
  BY <1>11, ReleaseType DEF AnswerNotPlaced, AnswerNotClosed, AnswerChanged, AnswerNotChanged
<1>12. ASSUME NEW c \in DOMAIN rpc, AnswerClosing(c) PROVE CallsType'
  BY <1>12, HeldType, PlaceReversesCallsType DEF AnswerClosing
<1>13. ASSUME NEW t \in timers, GiveUp(t) \/ TimerIdle(t) PROVE CallsType'
  BY <1>13 DEF GiveUp, TimerIdle, CallsType, Without
<1>14. CASE OnOrderEvent \/ OnCancelEvent
  BY <1>14 DEF OnOrderEvent, OnCancelEvent, callVars, CallsType
<1>15. CASE OnClosedEvent
  BY <1>15, <1>c, PlaceReversesCallsType DEF OnClosedEvent
<1>16. ASSUME NEW l \in loads, ReadAccount(l) \/ LoadIgnored(l) PROVE CallsType'
  BY <1>16 DEF ReadAccount, LoadIgnored, callVars, CallsType
<1>17. ASSUME NEW l \in loads, LoadDone(l) PROVE CallsType'
  BY <1>17, <1>c, PlaceReversesCallsType DEF LoadDone
<1>18. ASSUME NEW w \in watches, WatchRechecks(w) \/ WatchEnds(w) PROVE CallsType'
  BY <1>18 DEF WatchRechecks, WatchEnds, callVars, CallsType
<1>19. CASE UNCHANGED vars
  BY <1>19 DEF vars, callVars, CallsType
<1> QED
  BY <1>1, <1>2, <1>3, <1>4, <1>5, <1>6, <1>7, <1>8, <1>9, <1>10, <1>11, <1>12, <1>13,
     <1>14, <1>15, <1>16, <1>17, <1>18, <1>19 DEF Next, User, Broker, Answer, OnEvent

-----------------------------------------------------------------------------
(* The orders *)

LEMMA FunctionIsSeq ==
  ASSUME NEW S, NEW n \in Nat, NEW f \in [1 .. n -> S]
  PROVE  f \in Seq(S) /\ Len(f) = n
<1>1. f \in Seq(S)
  BY SeqDef
<1> QED
  BY <1>1, LenProperties

\* What the actions change in an order leaves a sequence of orders.
LEMMA OrderChanged ==
  ASSUME NEW s \in Seq(Order), NEW o, NEW next, NEW at \in Places, NEW late \in BOOLEAN
  PROVE  /\ [s EXCEPT ![o].at = at] \in Seq(Order)
         /\ [s EXCEPT ![o].at = at, ![o].late = late] \in Seq(Order)
         /\ [s EXCEPT ![o].answered = IF @ = "late" THEN @ ELSE "heard"] \in Seq(Order)
         /\ \A h \in Hearings :
              /\ [s EXCEPT ![o].answered = h] \in Seq(Order)
              /\ [s EXCEPT ![o].answered = h, ![next].at = at] \in Seq(Order)
<1>1. Len(s) \in Nat /\ DOMAIN s = 1 .. Len(s) /\ \A i \in DOMAIN s : s[i] \in Order
  BY LenProperties, ElementOfSeq
<1>2. [s EXCEPT ![o].at = at] \in [1 .. Len(s) -> Order]
  BY <1>1 DEF Order
<1>3. [s EXCEPT ![o].at = at, ![o].late = late] \in [1 .. Len(s) -> Order]
  BY <1>1 DEF Order
<1>4. ASSUME NEW h \in Hearings
      PROVE  /\ [s EXCEPT ![o].answered = h] \in [1 .. Len(s) -> Order]
             /\ [s EXCEPT ![o].answered = h, ![next].at = at] \in [1 .. Len(s) -> Order]
  BY <1>1 DEF Order
<1>5. [s EXCEPT ![o].answered = IF @ = "late" THEN @ ELSE "heard"] \in [1 .. Len(s) -> Order]
  BY <1>1 DEF Order, Hearings
<1>6. \A h \in Hearings : /\ [s EXCEPT ![o].answered = h] \in Seq(Order)
                          /\ [s EXCEPT ![o].answered = h, ![next].at = at] \in Seq(Order)
  BY <1>1, <1>4, FunctionIsSeq, Zenon
<1>7. [s EXCEPT ![o].answered = IF @ = "late" THEN @ ELSE "heard"] \in Seq(Order)
  <2> DEFINE t == [s EXCEPT ![o].answered = IF @ = "late" THEN @ ELSE "heard"]
  <2>1. Len(s) \in Nat /\ t \in [1 .. Len(s) -> Order]
    BY <1>1, <1>5
  <2> HIDE DEF t
  <2>2. t \in Seq(Order)
    BY <2>1, FunctionIsSeq
  <2> QED
    BY <2>2 DEF t
<1> QED
  BY <1>1, <1>2, <1>3, <1>6, <1>7, FunctionIsSeq, Zenon

LEMMA NewOrderType ==
  ASSUME NEW s \in Shapes, NEW p \in Positions \cup {NoId}, NEW plan \in Nat, NEW at \in Places
  PROVE  NewOrder(s, p, plan, at) \in Order
BY DEF NewOrder, Order, Hearings

\* A plan is at least two orders: the first is sent, the others wait.
LEMMA PlanOrdersType ==
  ASSUME TypeOK, NEW plan \in Plans
  PROVE  /\ Len(plan) \in Nat /\ Len(plan) >= 2 /\ \A i \in 1 .. Len(plan) : plan[i] \in Shapes
         /\ PlanOrders(plan) \in Seq(Order) /\ Len(PlanOrders(plan)) = Len(plan)
         /\ \A i \in 1 .. Len(plan) :
              PlanOrders(plan)[i].at = IF i = 1 THEN "out" ELSE "waiting"
<1>1. PICK n \in 2 .. PlanSize : plan \in [1 .. n -> Shapes]
  BY DEF Plans
<1>2. n \in Nat /\ n >= 2
  BY ConstantsAssumption
<1>3. plan \in Seq(Shapes) /\ Len(plan) = n
  BY <1>1, <1>2, FunctionIsSeq
<1>4. ASSUME NEW i \in 1 .. n
      PROVE  /\ PlanOrders(plan)[i] \in Order
             /\ PlanOrders(plan)[i].at = IF i = 1 THEN "out" ELSE "waiting"
  <2> DEFINE at == IF i = 1 THEN "out" ELSE "waiting"
  <2>1. plan[i] \in Shapes /\ NoId \in Positions \cup {NoId} /\ Len(orders) + 1 \in Nat
    BY <1>1, LenProperties DEF TypeOK, OrdersType
  <2>2. at \in Places
    BY DEF Places
  <2>3. PlanOrders(plan)[i] = NewOrder(plan[i], NoId, Len(orders) + 1, at)
    BY <1>3 DEF PlanOrders
  <2> HIDE DEF at
  <2>4. PlanOrders(plan)[i] \in Order
    BY <2>1, <2>2, <2>3, NewOrderType
  <2>5. PlanOrders(plan)[i].at = at
    BY <2>3 DEF NewOrder
  <2> QED
    BY <2>4, <2>5 DEF at
<1>5. PlanOrders(plan) \in [1 .. n -> Order]
  <2>1. PlanOrders(plan) = [i \in 1 .. n |-> PlanOrders(plan)[i]]
    BY <1>3 DEF PlanOrders
  <2> QED
    BY <1>4, <2>1
<1>6. PlanOrders(plan) \in Seq(Order) /\ Len(PlanOrders(plan)) = n
  BY <1>2, <1>5, FunctionIsSeq
<1> QED
  BY <1>1, <1>2, <1>3, <1>4, <1>6

\* The reversals that are ready keep the types of the orders.
LEMMA PlaceReversesOrdersType ==
  ASSUME TypeOK, NEW ready \in SUBSET Positions, NEW held, NEW c1, NEW r1,
         PlaceReverses(ready, held, c1, r1)
  PROVE  /\ orders' \in Seq(Order) /\ placing' \in Nat /\ last' \subseteq Shapes
<1>1. ASSUME NEW p \in ready
      PROVE  /\ ReverseShape[p] \in Shapes
             /\ Append(orders, NewOrder(ReverseShape[p], p, Len(orders) + 1, "out")) \in Seq(Order)
             /\ Len(orders) + 1 \in Nat
  <2>1. ReverseShape[p] \in Shapes /\ p \in Positions \cup {NoId}
    BY ConstantsAssumption
  <2>2. Len(orders) + 1 \in Nat /\ orders \in Seq(Order)
    BY LenProperties DEF TypeOK, OrdersType
  <2>3. NewOrder(ReverseShape[p], p, Len(orders) + 1, "out") \in Order
    BY <2>1, <2>2, NewOrderType DEF Places
  <2> QED
    BY <2>1, <2>2, <2>3, AppendProperties
<1> QED
  BY <1>1 DEF PlaceReverses, TypeOK, OrdersType, ReversalsType

LEMMA OrdersTypeStep == TypeOK /\ [Next]_vars => OrdersType'
<1> SUFFICES ASSUME TypeOK, [Next]_vars PROVE OrdersType'
  OBVIOUS
<1> DEFINE Goal == OrdersType'
<1>0. /\ orders \in Seq(Order) /\ queue \in Seq(Nat) /\ Len(orders) \in Nat
      /\ placing \in Nat /\ in_doubt \subseteq Nat /\ last \subseteq Shapes /\ told \subseteq Told
      /\ OrderIds \subseteq Nat
  BY LenProperties DEF TypeOK, OrdersType, ReversalsType, OrderIds
<1>o. /\ "out" \in Places /\ TRUE \in BOOLEAN
      /\ \A c \in DOMAIN rpc : Heard(c) \in Hearings
  BY DEF Places, Heard, Hearings
<1>1. ASSUME NEW s \in Shapes, UserPlaces(s) PROVE Goal
  <2>n. NoId \in Positions \cup {NoId} /\ Len(orders) + 1 \in Nat
    BY <1>0
  <2>1. NewOrder(s, NoId, Len(orders) + 1, "out") \in Order
    BY <1>o, <2>n, NewOrderType
  <2> QED
    BY <1>0, <1>1, <2>1, AppendProperties DEF UserPlaces, OrdersType, reverseVars
<1>2. ASSUME NEW plan \in Plans, UserPlacesPlan(plan) PROVE Goal
  <2> DEFINE first == Len(orders) + 1
             n == Len(plan)
  <2>2. /\ n \in Nat /\ n >= 2 /\ \A i \in 1 .. n : plan[i] \in Shapes
        /\ PlanOrders(plan) \in Seq(Order)
    BY PlanOrdersType
  <2>4. [i \in 1 .. Len(plan) - 1 |-> first + i] \in Seq(Nat)
    <3>1. [i \in 1 .. Len(plan) - 1 |-> first + i] \in [1 .. (n - 1) -> Nat]
      BY <1>0, <2>2
    <3>2. n - 1 \in Nat
      BY <2>2
    <3> QED
      BY <3>1, <3>2, FunctionIsSeq
  <2>5. /\ last' = {plan[1]} /\ orders' = orders \o PlanOrders(plan) /\ placing' = first
        /\ queue' = [i \in 1 .. Len(plan) - 1 |-> first + i]
        /\ UNCHANGED <<in_doubt, told>>
    BY <1>2 DEF UserPlacesPlan, reverseVars
  <2>6. orders' \in Seq(Order)
    BY <1>0, <2>2, <2>5, ConcatProperties
  <2>7. plan[1] \in Shapes
    BY <2>2
  <2> QED
    BY <1>0, <2>4, <2>5, <2>6, <2>7 DEF OrdersType
<1>3. ASSUME \/ \E p \in Positions : UserCloses(p) \/ UserReverses(p)
             \/ \E x \in Changes : UserChanges(x)
             \/ \E on \in BOOLEAN : SetKillSwitch(on) \/ SetReplay(on)
      PROVE  Goal
  BY <1>0, <1>3 DEF UserCloses, UserReverses, UserChanges, SetKillSwitch, SetReplay,
                    OrdersType, orderVars, reverseVars
<1>4. ASSUME NEW c \in DOMAIN rpc, OrderReaches(c) PROVE Goal
  <2>1. PICK answer \in {"accepted", "filled", "rejected", "refused"} :
          orders' = [orders EXCEPT
                       ![rpc[c].order].at = IF answer = "accepted" THEN "working" ELSE answer,
                       ![rpc[c].order].late = placing # rpc[c].order]
    BY <1>4 DEF OrderReaches
  <2>3. orders' \in Seq(Order)
    <3>1. (IF answer = "accepted" THEN "working" ELSE answer) \in Places
      BY DEF Places
    <3> QED
      BY <1>0, <2>1, <3>1, OrderChanged
  <2> QED
    BY <1>0, <1>4, <2>3 DEF OrderReaches, OrdersType, reverseVars
<1>5. ASSUME NEW c \in DOMAIN rpc, CloseReaches(c) \/ ChangeReaches(c) \/ CallFails(c) PROVE Goal
  BY <1>0, <1>5 DEF CloseReaches, ChangeReaches, CallFails, OrdersType, orderVars, reverseVars
<1>6. ASSUME NEW o \in OrderIds, LateArrival(o) \/ BrokerFills(o) PROVE Goal
  <2>2. CASE LateArrival(o)
    <3>1. PICK at \in {"working", "filled", "rejected", "refused"} :
            orders' = [orders EXCEPT ![o].at = at, ![o].late = placing # o]
      BY <2>2 DEF LateArrival
    <3>2. orders' \in Seq(Order)
      BY <1>0, <3>1, OrderChanged DEF Places
    <3> QED
      BY <1>0, <2>2, <3>2 DEF LateArrival, OrdersType, reverseVars
  <2>3. CASE BrokerFills(o)
    <3>1. orders' \in Seq(Order)
      BY <1>0, <2>3, OrderChanged DEF BrokerFills, Places
    <3> QED
      BY <1>0, <2>3, <3>1 DEF BrokerFills, OrdersType, reverseVars
  <2> QED
    BY <1>6, <2>2, <2>3
<1>7. ASSUME NEW p \in Positions, BrokerCloses(p) \/ CloseFails(p) PROVE Goal
  BY <1>0, <1>7 DEF BrokerCloses, CloseFails, OrdersType, orderVars, reverseVars
<1>8. CASE SessionReady
  BY <1>0, <1>8 DEF SessionReady, OrdersType, reverseVars
<1>9. ASSUME NEW c \in DOMAIN rpc, AnswerPlaced(c) PROVE Goal
  <2>2. CASE Placing \notin Held(c) /\ queue # <<>>
    <3>1. Head(queue) \in Nat /\ Tail(queue) \in Seq(Nat)
      BY <1>0, <2>2
    <3>2. orders' = [orders EXCEPT ![rpc[c].order].answered = Heard(c), ![Head(queue)].at = "out"]
      BY <1>9, <2>2 DEF AnswerPlaced, SendNext
    <3>3. orders' \in Seq(Order)
      BY <1>0, <3>2, <1>o, OrderChanged
    <3> QED
      BY <1>0, <1>9, <2>2, <3>1, <3>3 DEF AnswerPlaced, SendNext, OrdersType, reverseVars
  <2>3. CASE ~(Placing \notin Held(c) /\ queue # <<>>)
    <3>1. orders' = [orders EXCEPT ![rpc[c].order].answered = Heard(c)]
      BY <1>9, <2>3 DEF AnswerPlaced
    <3>2. orders' \in Seq(Order)
      BY <1>0, <3>1, <1>o, OrderChanged
    <3> QED
      BY <1>0, <1>9, <2>3, <3>2 DEF AnswerPlaced, OrdersType, reverseVars
  <2> QED
    BY <2>2, <2>3
<1>10. ASSUME NEW c \in DOMAIN rpc, AnswerNotPlaced(c) PROVE Goal
  <2>2. orders' \in Seq(Order)
    <3>1. orders' = orders \/ orders' = [orders EXCEPT ![rpc[c].order].answered = Heard(c)]
      BY <1>10 DEF AnswerNotPlaced
    <3>2. [orders EXCEPT ![rpc[c].order].answered = Heard(c)] \in Seq(Order)
      BY <1>0, <1>o, OrderChanged
    <3> QED
      BY <1>0, <3>1, <3>2
  <2>3. <<>> \in Seq(Nat)
    OBVIOUS
  <2> QED
    BY <1>0, <1>10, <2>2, <2>3 DEF AnswerNotPlaced, DropQueue, DoubtPlacing, OrdersType, reverseVars
<1>11. ASSUME NEW c \in DOMAIN rpc, AnswerClosing(c) PROVE Goal
  <2> DEFINE p == rpc[c].what.of
             pending == IF rpc[c].result = "rejected" THEN Without(reversals, {p})
                        ELSE [q \in DOMAIN reversals |->
                                IF q # p THEN reversals[q]
                                ELSE [reversals[q] EXCEPT !.acknowledged = TRUE,
                                                          !.closed = @ \/ rpc[c].result = "filled"]]
  <2>1. Ready(pending) \cap {p} \in SUBSET Positions
    BY DEF Ready, Without, TypeOK, ReversalsType
  <2>2. /\ PlaceReverses(Ready(pending) \cap {p}, Held(c), Kept(c), Without(rpc, {c}))
        /\ UNCHANGED <<queue, in_doubt, told>>
    BY <1>11 DEF AnswerClosing
  <2> QED
    BY <1>0, <2>1, <2>2, PlaceReversesOrdersType DEF OrdersType
<1>12. ASSUME NEW c \in DOMAIN rpc, AnswerNotClosed(c) \/ AnswerChanged(c) \/ AnswerNotChanged(c) PROVE Goal
  <2>1. UNCHANGED orderVars
    BY <1>12 DEF AnswerNotClosed, AnswerChanged, AnswerNotChanged, orderVars, reverseVars
  <2> QED
    BY <1>0, <2>1 DEF OrdersType, orderVars
<1>13. ASSUME NEW t \in timers, GiveUp(t) \/ TimerIdle(t) PROVE Goal
  <2>1. <<>> \in Seq(Nat)
    OBVIOUS
  <2>2. CASE GiveUp(t)
    <3>1. /\ queue' = <<>> /\ UNCHANGED <<last, orders, told>>
          /\ placing' \in {0, placing} /\ in_doubt' \subseteq in_doubt \cup {placing}
      BY <2>2 DEF GiveUp, DropQueue, DoubtPlacing, reverseVars
    <3> QED
      BY <1>0, <2>1, <3>1 DEF OrdersType
  <2>3. CASE TimerIdle(t)
    BY <1>0, <2>3 DEF TimerIdle, OrdersType, orderVars, reverseVars
  <2> QED
    BY <1>13, <2>2, <2>3
<1>14. CASE OnOrderEvent
  <2>2. orders' \in Seq(Order)
    BY <1>0, <1>14, <1>o, OrderChanged DEF OnOrderEvent
  <2> QED
    BY <1>0, <1>14, <2>2 DEF OnOrderEvent, OrdersType, reverseVars
<1>15. CASE OnClosedEvent
  <2> DEFINE pending == [q \in DOMAIN reversals |->
                           IF q = Head(events).position THEN [reversals[q] EXCEPT !.closed = TRUE]
                                                        ELSE reversals[q]]
  <2>1. Ready(pending) \cap {Head(events).position} \in SUBSET Positions
    BY DEF Ready, TypeOK, ReversalsType
  <2>2. /\ PlaceReverses(Ready(pending) \cap {Head(events).position}, busy, calls, rpc)
        /\ UNCHANGED <<queue, in_doubt, told>>
    BY <1>15 DEF OnClosedEvent
  <2> QED
    BY <1>0, <2>1, <2>2, PlaceReversesOrdersType DEF OrdersType
<1>16. CASE OnCancelEvent
  BY <1>0, <1>16 DEF OnCancelEvent, OrdersType, orderVars
<1>17. ASSUME NEW l \in loads, ReadAccount(l) \/ LoadIgnored(l) PROVE Goal
  BY <1>0, <1>17 DEF ReadAccount, LoadIgnored, OrdersType, orderVars, reverseVars
<1>18. ASSUME NEW l \in loads, LoadDone(l) PROVE Goal
  <2> DEFINE pending == [p \in DOMAIN reversals |->
                           IF p \in l.positions THEN reversals[p]
                                                ELSE [reversals[p] EXCEPT !.closed = TRUE]]
  <2>1. Ready(pending) \ l.positions \in SUBSET Positions
    BY DEF Ready, TypeOK, ReversalsType
  <2>2. /\ PlaceReverses(Ready(pending) \ l.positions, busy, calls, rpc)
        /\ in_doubt' = {} /\ UNCHANGED queue
    BY <1>18 DEF LoadDone
  <2>3. told' \subseteq Told
    <3>1. PICK unread \in SUBSET l.filled, verdict \in [in_doubt -> Verdicts] :
            told' = told \cup {[order |-> o, verdict |-> verdict[o], unread |-> o \in unread] : o \in in_doubt}
      BY <1>18 DEF LoadDone
    <3>2. \A o \in in_doubt : [order |-> o, verdict |-> verdict[o], unread |-> o \in unread] \in Told
      BY <1>0 DEF Told
    <3> QED
      BY <1>0, <3>1, <3>2
  <2> QED
    BY <1>0, <2>1, <2>2, <2>3, PlaceReversesOrdersType DEF OrdersType
<1>19. ASSUME NEW w \in watches, WatchRechecks(w) \/ WatchEnds(w) PROVE Goal
  BY <1>0, <1>19 DEF WatchRechecks, WatchEnds, OrdersType, orderVars, reverseVars
<1>20. CASE UNCHANGED vars
  BY <1>0, <1>20 DEF vars, OrdersType, orderVars, reverseVars
<1> QED
  BY <1>1, <1>2, <1>3, <1>4, <1>5, <1>6, <1>7, <1>8, <1>9, <1>10, <1>11, <1>12, <1>13,
     <1>14, <1>15, <1>16, <1>17, <1>18, <1>19, <1>20 DEF Next, User, Broker, Answer, OnEvent

-----------------------------------------------------------------------------
(* The reversals, the readings and the broker *)

LEMMA ReversalsTypeStep == TypeOK /\ [Next]_vars => ReversalsType'
<1> SUFFICES ASSUME TypeOK, [Next]_vars PROVE ReversalsType'
  OBVIOUS
<1>0. /\ call_seq \in Nat
      /\ DOMAIN reversals \subseteq Positions /\ watches \subseteq Watch
      /\ \A p \in DOMAIN reversals : reversals[p] \in PendingReverse
  BY DEF TypeOK, ReversalsType, CallsType
<1>a. ASSUME UNCHANGED <<reversals, watches>> PROVE ReversalsType'
  BY <1>0, <1>a DEF ReversalsType
<1>b. ASSUME NEW f, NEW S, DOMAIN f \subseteq Positions, \A p \in DOMAIN f : f[p] \in PendingReverse
      PROVE  /\ DOMAIN Without(f, S) \subseteq Positions
             /\ \A p \in DOMAIN Without(f, S) : Without(f, S)[p] \in PendingReverse
  BY <1>b DEF Without
<1>1. CASE \/ \E s \in Shapes : UserPlaces(s)
           \/ \E plan \in Plans : UserPlacesPlan(plan)
           \/ \E p \in Positions : UserCloses(p)
           \/ \E x \in Changes : UserChanges(x)
           \/ \E on \in BOOLEAN : SetKillSwitch(on) \/ SetReplay(on)
  BY <1>1, <1>a DEF UserPlaces, UserPlacesPlan, UserCloses, UserChanges, SetKillSwitch, SetReplay, reverseVars
<1>2. ASSUME NEW p \in Positions, UserReverses(p) PROVE ReversalsType'
  BY <1>0, <1>2 DEF UserReverses, Put, PendingReverse, ReversalsType
<1>3. CASE Broker \/ SessionReady
  BY <1>3, <1>a DEF Broker, OrderReaches, CloseReaches, ChangeReaches, LateArrival, BrokerFills,
                    BrokerCloses, CloseFails, SessionReady, reverseVars
<1>4. ASSUME NEW c \in DOMAIN rpc,
             CallFails(c) \/ AnswerPlaced(c) \/ AnswerNotPlaced(c) \/ AnswerChanged(c) \/ AnswerNotChanged(c)
      PROVE  ReversalsType'
  BY <1>4, <1>a DEF CallFails, AnswerPlaced, AnswerNotPlaced, AnswerChanged, AnswerNotChanged, reverseVars
<1>5. ASSUME NEW c \in DOMAIN rpc, AnswerClosing(c) PROVE ReversalsType'
  <2> DEFINE p == rpc[c].what.of
             pending == IF rpc[c].result = "rejected" THEN Without(reversals, {p})
                        ELSE [q \in DOMAIN reversals |->
                                IF q # p THEN reversals[q]
                                ELSE [reversals[q] EXCEPT !.acknowledged = TRUE,
                                                          !.closed = @ \/ rpc[c].result = "filled"]]
  <2>1. DOMAIN pending \subseteq Positions /\ \A q \in DOMAIN pending : pending[q] \in PendingReverse
    <3>1. \A q \in DOMAIN reversals :
            [reversals[q] EXCEPT !.acknowledged = TRUE, !.closed = @ \/ rpc[c].result = "filled"] \in PendingReverse
      BY <1>0 DEF PendingReverse
    <3> QED
      BY <1>0, <1>b, <3>1
  <2> HIDE DEF pending
  <2>2. /\ reversals' = Without(pending, Ready(pending) \cap {p})
        /\ watches' = watches \cup {[position |-> q, started |-> reversals'[q].started, final |-> FALSE] :
                                      q \in DOMAIN reversals' \cap {p}}
    BY <1>5 DEF AnswerClosing, pending
  <2>3. DOMAIN reversals' \subseteq Positions /\ \A q \in DOMAIN reversals' : reversals'[q] \in PendingReverse
    BY <1>b, <2>1, <2>2
  <2>4. ASSUME NEW q \in DOMAIN reversals'
        PROVE  [position |-> q, started |-> reversals'[q].started, final |-> FALSE] \in Watch
    <3>1. reversals'[q].started \in Nat /\ q \in Positions
      BY <2>3 DEF PendingReverse
    <3> QED
      BY <3>1 DEF Watch
  <2>5. watches' \subseteq Watch
    BY <1>0, <2>2, <2>4
  <2> QED
    BY <1>0, <2>3, <2>5 DEF ReversalsType
<1>6. ASSUME NEW c \in DOMAIN rpc, AnswerNotClosed(c) PROVE ReversalsType'
  BY <1>0, <1>b, <1>6 DEF AnswerNotClosed, ReversalsType
<1>7. ASSUME NEW t \in timers, GiveUp(t) \/ TimerIdle(t) PROVE ReversalsType'
  BY <1>7, <1>a DEF GiveUp, TimerIdle, reverseVars
<1>8. CASE OnOrderEvent
  BY <1>8, <1>a DEF OnOrderEvent, reverseVars
<1>9. CASE OnClosedEvent
  <2> DEFINE pending == [q \in DOMAIN reversals |->
                           IF q = Head(events).position THEN [reversals[q] EXCEPT !.closed = TRUE]
                                                        ELSE reversals[q]]
  <2>1. DOMAIN pending \subseteq Positions /\ \A q \in DOMAIN pending : pending[q] \in PendingReverse
    <3>1. \A q \in DOMAIN reversals : [reversals[q] EXCEPT !.closed = TRUE] \in PendingReverse
      BY <1>0 DEF PendingReverse
    <3> QED
      BY <1>0, <3>1
  <2> HIDE DEF pending
  <2>2. reversals' = Without(pending, Ready(pending) \cap {Head(events).position}) /\ watches' = watches
    BY <1>9 DEF OnClosedEvent, pending
  <2> QED
    BY <1>0, <1>b, <2>1, <2>2 DEF ReversalsType
<1>10. CASE OnCancelEvent
  BY <1>0, <1>b, <1>10 DEF OnCancelEvent, ReversalsType
<1>11. ASSUME NEW l \in loads, ReadAccount(l) \/ LoadIgnored(l) PROVE ReversalsType'
  BY <1>11, <1>a DEF ReadAccount, LoadIgnored, reverseVars
<1>12. ASSUME NEW l \in loads, LoadDone(l) PROVE ReversalsType'
  <2> DEFINE pending == [p \in DOMAIN reversals |->
                           IF p \in l.positions THEN reversals[p]
                                                ELSE [reversals[p] EXCEPT !.closed = TRUE]]
  <2>1. DOMAIN pending \subseteq Positions /\ \A q \in DOMAIN pending : pending[q] \in PendingReverse
    <3>1. \A q \in DOMAIN reversals : [reversals[q] EXCEPT !.closed = TRUE] \in PendingReverse
      BY <1>0 DEF PendingReverse
    <3> QED
      BY <1>0, <3>1
  <2> HIDE DEF pending
  <2>2. reversals' = Without(pending, Ready(pending) \ l.positions) /\ watches' = watches
    BY <1>12 DEF LoadDone, pending
  <2> QED
    BY <1>0, <1>b, <2>1, <2>2 DEF ReversalsType
<1>13. ASSUME NEW w \in watches, WatchRechecks(w) PROVE ReversalsType'
  <2>1. [w EXCEPT !.final = TRUE] \in Watch
    BY <1>0 DEF Watch
  <2> QED
    BY <1>0, <1>13, <2>1 DEF WatchRechecks, ReversalsType
<1>14. ASSUME NEW w \in watches, WatchEnds(w) PROVE ReversalsType'
  BY <1>0, <1>b, <1>14 DEF WatchEnds, ReversalsType
<1>15. CASE UNCHANGED vars
  BY <1>15, <1>a DEF vars, reverseVars
<1> QED
  BY <1>1, <1>2, <1>3, <1>4, <1>5, <1>6, <1>7, <1>8, <1>9, <1>10, <1>11, <1>12, <1>13,
     <1>14, <1>15 DEF Next, User, Answer, OnEvent

\* A reading that starts has its type.
LEMMA OnReadyType ==
  ASSUME SyncType, in_doubt' \subseteq Nat, OnReady
  PROVE  epoch' \in Nat /\ positions' \subseteq Positions /\ loads' \subseteq Load
<1>1. epoch + 1 \in Nat
  BY DEF SyncType
<1>2. [epoch |-> epoch + 1, doubts |-> in_doubt', read |-> FALSE,
       positions |-> {}, working |-> {}, filled |-> {}] \in Load
  BY <1>1 DEF Load
<1> QED
  BY <1>1, <1>2 DEF OnReady, SyncType

LEMMA SyncTypeStep == TypeOK /\ [Next]_vars => SyncType'
<1> SUFFICES ASSUME TypeOK, [Next]_vars PROVE SyncType'
  OBVIOUS
<1>0. SyncType /\ in_doubt' \subseteq Nat
  BY OrdersTypeStep DEF TypeOK, OrdersType
<1>1. CASE \/ \E s \in Shapes : UserPlaces(s)
           \/ \E plan \in Plans : UserPlacesPlan(plan)
           \/ \E p \in Positions : UserCloses(p) \/ UserReverses(p)
           \/ \E x \in Changes : UserChanges(x)
  BY <1>0, <1>1 DEF UserPlaces, UserPlacesPlan, UserCloses, UserReverses, UserChanges, SyncType, userVars, syncVars
<1>2. ASSUME NEW on \in BOOLEAN, SetKillSwitch(on) \/ SetReplay(on) PROVE SyncType'
  BY <1>0, <1>2 DEF SetKillSwitch, SetReplay, SyncType, syncVars
<1>3. CASE Broker
  BY <1>0, <1>3 DEF Broker, OrderReaches, CloseReaches, ChangeReaches, LateArrival, BrokerFills,
                    BrokerCloses, CloseFails, SyncType, syncVars, userVars
<1>4. CASE SessionReady
  BY <1>0, <1>4, OnReadyType DEF SessionReady, SyncType, userVars
<1>5. ASSUME NEW c \in DOMAIN rpc, CallFails(c) \/ AnswerPlaced(c) \/ AnswerChanged(c) PROVE SyncType'
  BY <1>0, <1>5 DEF CallFails, AnswerPlaced, AnswerChanged, SyncType, userVars, syncVars
<1>6. ASSUME NEW c \in DOMAIN rpc, AnswerNotPlaced(c) \/ AnswerNotClosed(c) \/ AnswerNotChanged(c) PROVE SyncType'
  <2>1. OnReady /\ UNCHANGED userVars /\ uncertain' \in {uncertain, TRUE}
    BY <1>6 DEF AnswerNotPlaced, AnswerNotClosed, AnswerNotChanged
  <2> QED
    BY <1>0, <2>1, OnReadyType DEF SyncType, userVars
<1>7. ASSUME NEW c \in DOMAIN rpc, AnswerClosing(c) PROVE SyncType'
  <2>1. rpc[c].what.of \in Positions
    <3>1. rpc[c].what \in Busy /\ rpc[c].what.kind = "closing"
      BY <1>7, HeldType DEF AnswerClosing, TypeOK
    <3> QED
      BY <3>1 DEF Busy, Placing, Closing, Changing
  <2>2. /\ positions' \in {positions \ {rpc[c].what.of}, positions, positions \cup {rpc[c].what.of}}
        /\ UNCHANGED <<userVars, uncertain, epoch, loads>>
    BY <1>7 DEF AnswerClosing
  <2> QED
    BY <1>0, <2>1, <2>2 DEF SyncType, userVars
<1>8. ASSUME NEW t \in timers, GiveUp(t) \/ TimerIdle(t) PROVE SyncType'
  <2>1. CASE GiveUp(t)
    <3>1. OnReady /\ UNCHANGED userVars /\ uncertain' = TRUE
      BY <2>1 DEF GiveUp
    <3> QED
      BY <1>0, <3>1, OnReadyType DEF SyncType, userVars
  <2>2. CASE TimerIdle(t)
    BY <1>0, <2>2 DEF TimerIdle, SyncType, userVars, syncVars
  <2> QED
    BY <1>8, <2>1, <2>2
<1>9. CASE OnEvent
  BY <1>0, <1>9 DEF OnEvent, OnOrderEvent, OnClosedEvent, OnCancelEvent, SyncType, userVars, syncVars
<1>10. ASSUME NEW l \in loads, ReadAccount(l) PROVE SyncType'
  <2> DEFINE read == [l EXCEPT !.read = TRUE, !.positions = open,
                               !.working = {o \in OrderIds : orders[o].at = "working"},
                               !.filled  = {o \in OrderIds : orders[o].at = "filled"}]
  <2>1. loads' = (loads \ {l}) \cup {read} /\ UNCHANGED <<userVars, uncertain, epoch, positions>>
    BY <1>10 DEF ReadAccount
  <2>2. OrderIds \subseteq Nat /\ open \subseteq Positions
    BY LenProperties DEF OrderIds, TypeOK, OrdersType, BrokerType
  <2>3. read \in Load
    BY <1>0, <2>2 DEF SyncType, Load
  <2> HIDE DEF read
  <2> QED
    BY <1>0, <2>1, <2>3 DEF SyncType, userVars
<1>11. ASSUME NEW l \in loads, LoadDone(l) \/ LoadIgnored(l) PROVE SyncType'
  <2>1. l \in Load
    BY <1>0 DEF SyncType
  <2>2. /\ UNCHANGED <<userVars, epoch>> /\ loads' = loads \ {l}
        /\ uncertain' \in {FALSE, uncertain} /\ positions' \in {l.positions, positions}
    BY <1>11 DEF LoadDone, LoadIgnored
  <2> QED
    BY <1>0, <2>1, <2>2 DEF SyncType, Load, userVars
<1>12. ASSUME NEW w \in watches, WatchRechecks(w) \/ WatchEnds(w) PROVE SyncType'
  <2>1. CASE WatchRechecks(w)
    <3>1. UNCHANGED <<userVars, uncertain>> /\ (OnReady \/ UNCHANGED <<epoch, loads, positions>>)
      BY <2>1 DEF WatchRechecks
    <3> QED
      BY <1>0, <3>1, OnReadyType DEF SyncType, userVars
  <2>2. CASE WatchEnds(w)
    BY <1>0, <2>2 DEF WatchEnds, SyncType, userVars, syncVars
  <2> QED
    BY <1>12, <2>1, <2>2
<1>13. CASE UNCHANGED vars
  BY <1>0, <1>13 DEF vars, SyncType, userVars, syncVars
<1> QED
  BY <1>1, <1>2, <1>3, <1>4, <1>5, <1>6, <1>7, <1>8, <1>9, <1>10, <1>11, <1>12, <1>13
     DEF Next, User, Answer

LEMMA BrokerTypeStep == TypeOK /\ [Next]_vars => BrokerType'
<1> SUFFICES ASSUME TypeOK, [Next]_vars PROVE BrokerType'
  OBVIOUS
<1>0. BrokerType /\ OrderIds \subseteq Nat
  BY LenProperties DEF TypeOK, BrokerType, OrderIds, OrdersType
<1>a. ASSUME UNCHANGED brokerVars PROVE BrokerType'
  BY <1>0, <1>a DEF brokerVars, BrokerType
<1>b. ASSUME events # <<>>, events' = Tail(events), UNCHANGED <<open, closing, cancelled>>
      PROVE  BrokerType'
  <2>1. Tail(events) \in Seq(Event)
    BY <1>0, <1>b DEF BrokerType
  <2> QED
    BY <1>0, <1>b, <2>1 DEF BrokerType
<1>c. ASSUME NEW e \in Event PROVE Append(events, e) \in Seq(Event)
  BY <1>0, AppendProperties DEF BrokerType
<1>1. CASE User
  BY <1>1, <1>a DEF User, UserPlaces, UserPlacesPlan, UserCloses, UserReverses, UserChanges,
                    SetKillSwitch, SetReplay
<1>2. ASSUME NEW c \in DOMAIN rpc, OrderReaches(c) \/ ChangeReaches(c) \/ CallFails(c) \/ Answer(c)
      PROVE  BrokerType'
  BY <1>2, <1>a DEF OrderReaches, ChangeReaches, CallFails, Answer, AnswerPlaced, AnswerNotPlaced,
                    AnswerClosing, AnswerNotClosed, AnswerChanged, AnswerNotChanged
<1>3. ASSUME NEW c \in DOMAIN rpc, CloseReaches(c) PROVE BrokerType'
  BY <1>0, <1>3 DEF CloseReaches, BrokerType
<1>4. ASSUME NEW o \in OrderIds, LateArrival(o) PROVE BrokerType'
  <2>1. PICK type \in {"error", "order"} :
          events' = Append(events, [type |-> type, order |-> o, position |-> NoId])
    BY <1>4 DEF LateArrival
  <2>2. [type |-> type, order |-> o, position |-> NoId] \in Event
    BY <1>0 DEF Event
  <2> QED
    BY <1>0, <1>4, <1>c, <2>1, <2>2 DEF LateArrival, BrokerType
<1>5. ASSUME NEW o \in OrderIds, BrokerFills(o) PROVE BrokerType'
  <2>1. [type |-> "order", order |-> o, position |-> NoId] \in Event
    BY <1>0 DEF Event
  <2> QED
    BY <1>0, <1>5, <1>c, <2>1 DEF BrokerFills, BrokerType
<1>6. ASSUME NEW p \in Positions, BrokerCloses(p) PROVE BrokerType'
  <2>1. [type |-> "closed", order |-> 0, position |-> p] \in Event
    BY DEF Event
  <2> QED
    BY <1>0, <1>6, <1>c, <2>1 DEF BrokerCloses, BrokerType
<1>7. ASSUME NEW p \in Positions, CloseFails(p) PROVE BrokerType'
  <2>1. PICK type \in {"cancelled", "cancelled close"} :
          events' = Append(events, [type |-> type, order |-> 0, position |-> p])
    BY <1>7 DEF CloseFails
  <2>2. [type |-> type, order |-> 0, position |-> p] \in Event
    BY DEF Event
  <2> QED
    BY <1>0, <1>7, <1>c, <2>1, <2>2 DEF CloseFails, BrokerType
<1>8. CASE SessionReady
  <2>1. PICK n \in 0 .. Len(events) : events' = SubSeq(events, 1, n)
    BY <1>8 DEF SessionReady
  <2>2. SubSeq(events, 1, n) \in Seq(Event)
    <3>1. events \in Seq(Event) /\ Len(events) \in Nat
      BY <1>0, LenProperties DEF BrokerType
    <3> QED
      BY <3>1, SubSeqProperties
  <2> QED
    BY <1>0, <1>8, <2>1, <2>2 DEF SessionReady, BrokerType
<1>9. ASSUME NEW t \in timers, GiveUp(t) \/ TimerIdle(t) PROVE BrokerType'
  BY <1>9, <1>a DEF GiveUp, TimerIdle
<1>10. CASE OnEvent
  BY <1>10, <1>b DEF OnEvent, OnOrderEvent, OnClosedEvent, OnCancelEvent
<1>11. ASSUME NEW l \in loads, ReadAccount(l) \/ LoadDone(l) \/ LoadIgnored(l) PROVE BrokerType'
  BY <1>11, <1>a DEF ReadAccount, LoadDone, LoadIgnored
<1>12. ASSUME NEW w \in watches, WatchRechecks(w) \/ WatchEnds(w) PROVE BrokerType'
  BY <1>12, <1>a DEF WatchRechecks, WatchEnds
<1>13. CASE UNCHANGED vars
  BY <1>13, <1>a DEF vars
<1> QED
  BY <1>1, <1>2, <1>3, <1>4, <1>5, <1>6, <1>7, <1>8, <1>9, <1>10, <1>11, <1>12, <1>13 DEF Next, Broker

-----------------------------------------------------------------------------
(* Every variable of the account, of its tasks and of the broker keeps its   *)
(* type whatever the user, the broker and the network do (TypeOK).           *)
THEOREM TypeCorrect == Spec => []TypeOK
<1>1. Init => TypeOK
  <2> SUFFICES ASSUME Init PROVE TypeOK
    OBVIOUS
  <2>1. DOMAIN Empty = {}
    BY DEF Empty
  <2>2. <<>> \in Seq(Order) /\ <<>> \in Seq(Nat) /\ <<>> \in Seq(Event)
    OBVIOUS
  <2>3. CallsType
    BY <2>1 DEF Init, CallsType
  <2>4. OrdersType /\ BrokerType
    BY <2>2 DEF Init, OrdersType, BrokerType
  <2>5. ReversalsType /\ SyncType
    BY <2>1 DEF Init, ReversalsType, SyncType
  <2> QED
    BY <2>3, <2>4, <2>5 DEF TypeOK
<1>2. TypeOK /\ [Next]_vars => TypeOK'
  BY CallsTypeStep, OrdersTypeStep, ReversalsTypeStep, SyncTypeStep, BrokerTypeStep DEF TypeOK
<1> QED
  BY <1>1, <1>2, PTL DEF Spec

-----------------------------------------------------------------------------
(* What is busy, its calls, the order in flight, the queue, and replay.      *)
(* None of the four can be told alone: the queue and the order in flight     *)
(* stay right only because what is busy is released by its own call.         *)

Control == BusyHasItsCall /\ QueueWaitsForAnswer /\ PlacingIsInFlight /\ ReplayLocksOrders

\* The calls c1, run by the tasks r1, are those of what is held busy.
Owned(held, c1, r1) ==
  /\ held = DOMAIN c1 /\ held \subseteq Busy
  /\ \A b \in held : /\ c1[b] \in DOMAIN r1 /\ r1[c1[b]].what = b
                     /\ [what |-> b, seq |-> c1[b]] \in timers
  /\ \A c \in DOMAIN r1 : [what |-> r1[c].what, seq |-> c] \in timers =>
                            r1[c].what \in held /\ c1[r1[c].what] = c
  /\ DOMAIN r1 \subseteq DOMAIN rpc

\* Once a call starts, it is the call of what it keeps busy, and no other is disturbed.
LEMMA StartOwns ==
  ASSUME TypeOK, NEW what \in Busy, NEW o, NEW held, NEW c1, NEW r1,
         Owned(held, c1, r1), what \notin held, Start(what, o, held, c1, r1)
  PROVE  /\ BusyHasItsCall' /\ busy' = held \cup {what}
         /\ rpc'[calls'[what]].order = o
         /\ \A b \in held \ {what} : rpc'[calls'[b]] = r1[c1[b]]
<1>1. call_seq \in Nat /\ DOMAIN rpc \subseteq 1 .. call_seq
  BY DEF TypeOK, CallsType
<1>2. /\ busy' = held \cup {what}
      /\ calls' = Put(c1, what, call_seq + 1)
      /\ timers' = timers \cup {[what |-> what, seq |-> call_seq + 1]}
      /\ rpc' = Put(r1, call_seq + 1, [what |-> what, order |-> o, result |-> "out"])
  BY DEF Start
<1>3. call_seq + 1 \notin DOMAIN r1
  BY <1>1 DEF Owned
<1>4. DOMAIN calls' = held \cup {what} /\ calls'[what] = call_seq + 1
      /\ \A b \in held \ {what} : calls'[b] = c1[b]
  BY <1>2 DEF Put, Owned
<1>5. DOMAIN rpc' = DOMAIN r1 \cup {call_seq + 1}
      /\ rpc'[call_seq + 1] = [what |-> what, order |-> o, result |-> "out"]
      /\ \A c \in DOMAIN r1 : rpc'[c] = r1[c]
  BY <1>2, <1>3 DEF Put
<1>6. \A b \in held \ {what} : c1[b] \in DOMAIN r1 /\ r1[c1[b]].what = b
                               /\ [what |-> b, seq |-> c1[b]] \in timers
  BY DEF Owned
<1>7. \A b \in held \ {what} : rpc'[calls'[b]] = r1[c1[b]]
  BY <1>4, <1>5, <1>6
<1>8. rpc'[calls'[what]].order = o /\ rpc'[calls'[what]].what = what
  BY <1>4, <1>5
<1>9. BusyHasItsCall'
  <2>1. ASSUME NEW b \in busy'
        PROVE  /\ calls'[b] \in DOMAIN rpc' /\ rpc'[calls'[b]].what = b
               /\ [what |-> b, seq |-> calls'[b]] \in timers'
    <3>1. CASE b = what
      BY <1>2, <1>4, <1>5, <1>8, <3>1
    <3>2. CASE b \in held \ {what}
      BY <1>2, <1>4, <1>5, <1>6, <1>7, <3>2
    <3> QED
      BY <1>2, <2>1, <3>1, <3>2
  <2>2. ASSUME NEW c \in DOMAIN rpc', [what |-> rpc'[c].what, seq |-> c] \in timers'
        PROVE  rpc'[c].what \in busy' /\ calls'[rpc'[c].what] = c
    <3>1. CASE c = call_seq + 1
      BY <1>2, <1>4, <1>5, <3>1
    <3>2. CASE c \in DOMAIN r1
      <4>1. c # call_seq + 1 /\ rpc'[c] = r1[c] /\ [what |-> r1[c].what, seq |-> c] \in timers
        BY <1>2, <1>3, <1>5, <2>2, <3>2
      <4>2. r1[c].what \in held /\ c1[r1[c].what] = c
        BY <3>2, <4>1 DEF Owned
      <4> QED
        BY <1>2, <1>4, <4>1, <4>2
    <3> QED
      BY <1>5, <3>1, <3>2
  <2> QED
    BY <1>2, <1>4, <2>1, <2>2 DEF BusyHasItsCall
<1> QED
  BY <1>2, <1>7, <1>8, <1>9

\* What an answer leaves busy still has its call: only the newest call releases.
LEMMA HeldOwns ==
  ASSUME TypeOK, BusyHasItsCall, NEW c \in DOMAIN rpc
  PROVE  /\ Owned(Held(c), Kept(c), Without(rpc, {c}))
         /\ Held(c) \subseteq busy /\ busy \subseteq Held(c) \cup {rpc[c].what}
         /\ \A b \in Held(c) : /\ Kept(c)[b] = calls[b]
                               /\ Without(rpc, {c})[Kept(c)[b]] = rpc[calls[b]]
<1>1. busy \subseteq Busy /\ busy = DOMAIN calls
  BY DEF TypeOK, CallsType, BusyHasItsCall
<1>2. /\ Held(c) = DOMAIN Kept(c) /\ Held(c) \subseteq busy
      /\ busy \subseteq Held(c) \cup {rpc[c].what}
      /\ \A b \in Held(c) : Kept(c)[b] = calls[b]
  BY <1>1 DEF Held, Kept, Without
<1>3. ASSUME NEW b \in Held(c) PROVE calls[b] # c
  BY <1>2, <1>3 DEF Held, IsNewest, BusyHasItsCall
<1>4. DOMAIN Without(rpc, {c}) = DOMAIN rpc \ {c} /\ \A d \in DOMAIN rpc \ {c} : Without(rpc, {c})[d] = rpc[d]
  BY DEF Without
<1>5. \A b \in Held(c) : /\ calls[b] \in DOMAIN rpc /\ rpc[calls[b]].what = b
                         /\ [what |-> b, seq |-> calls[b]] \in timers
  BY <1>2 DEF BusyHasItsCall
<1>6. ASSUME NEW d \in DOMAIN rpc \ {c}, [what |-> rpc[d].what, seq |-> d] \in timers
      PROVE  rpc[d].what \in Held(c) /\ Kept(c)[rpc[d].what] = d
  <2>1. rpc[d].what \in busy /\ calls[rpc[d].what] = d
    BY <1>6 DEF BusyHasItsCall
  <2>2. rpc[d].what \in Held(c)
    BY <2>1 DEF Held, IsNewest
  <2> QED
    BY <1>2, <2>1, <2>2
<1> QED
  BY <1>1, <1>2, <1>3, <1>4, <1>5, <1>6 DEF Owned

LEMMA BusyOwns == ASSUME TypeOK, BusyHasItsCall PROVE Owned(busy, calls, rpc)
BY DEF Owned, TypeOK, CallsType, BusyHasItsCall

\* An answer that is not of an order leaves the order in flight and the queue as they are.
LEMMA ReleaseKeepsControl ==
  ASSUME TypeOK, Control, NEW c \in DOMAIN rpc, Release(c), UNCHANGED replay,
         \/ placing' = 0 /\ queue' = <<>>
         \/ rpc[c].what # Placing /\ UNCHANGED <<placing, queue>>
         \/ Placing \in Held(c) /\ placing' = 0 /\ UNCHANGED queue
         \/ queue = <<>> /\ placing' = 0 /\ UNCHANGED queue
  PROVE  Control'
<1>1. /\ busy' = Held(c) /\ calls' = Kept(c) /\ rpc' = Without(rpc, {c}) /\ timers' = timers
  BY DEF Release
<1>2. BusyHasItsCall'
  BY <1>1, HeldOwns DEF Control, Owned, BusyHasItsCall
<1>3. /\ Held(c) \subseteq busy /\ (rpc[c].what # Placing /\ Placing \in busy => Placing \in Held(c))
      /\ \A b \in Held(c) : rpc'[calls'[b]] = rpc[calls[b]]
  BY <1>1, HeldOwns DEF Control
<1> QED
  BY <1>1, <1>2, <1>3 DEF Control, QueueWaitsForAnswer, PlacingIsInFlight, ReplayLocksOrders

\* The orders of the reversals that are ready go out only when none is in flight.
LEMMA PlaceReversesKeepsControl ==
  ASSUME TypeOK, Control, NEW ready, NEW held, NEW c1, NEW r1,
         Owned(held, c1, r1), held \subseteq busy, Placing \in busy => Placing \in held,
         Placing \in held => r1[c1[Placing]] = rpc[calls[Placing]],
         PlaceReverses(ready, held, c1, r1), UNCHANGED <<queue, replay>>
  PROVE  Control'
<1>1. CASE /\ ~replay /\ Placing \notin held /\ placing' = Len(orders) + 1
           /\ Start(Placing, Len(orders) + 1, held, c1, r1)
  <2>1. Placing \in Busy
    BY DEF Busy
  <2>2. /\ BusyHasItsCall' /\ busy' = held \cup {Placing}
        /\ rpc'[calls'[Placing]].order = Len(orders) + 1
    BY <1>1, <2>1, StartOwns
  <2> QED
    BY <1>1, <2>2 DEF Control, QueueWaitsForAnswer, PlacingIsInFlight, ReplayLocksOrders
<1>2. CASE busy' = held /\ calls' = c1 /\ rpc' = r1 /\ UNCHANGED <<placing, timers>>
  <2>1. BusyHasItsCall'
    BY <1>2 DEF Owned, BusyHasItsCall
  <2> QED
    BY <1>2, <2>1 DEF Control, QueueWaitsForAnswer, PlacingIsInFlight, ReplayLocksOrders
<1> QED
  BY <1>1, <1>2 DEF PlaceReverses

\* Nothing of the calls, of the order in flight, of the queue and of replay changes,
\* or only how a call ends.
LEMMA QuietKeepsControl ==
  ASSUME TypeOK, Control, UNCHANGED <<busy, calls, timers, queue, placing, replay>>,
         DOMAIN rpc' = DOMAIN rpc,
         \A c \in DOMAIN rpc : rpc'[c].what = rpc[c].what /\ rpc'[c].order = rpc[c].order
  PROVE  Control'
BY DEF Control, BusyHasItsCall, QueueWaitsForAnswer, PlacingIsInFlight, ReplayLocksOrders

LEMMA ControlStep == TypeOK /\ Control /\ [Next]_vars => Control'
<1> SUFFICES ASSUME TypeOK, Control, [Next]_vars PROVE Control'
  OBVIOUS
<1>a. /\ Placing \in Busy
      /\ \A p \in Positions : Closing(p) \in Busy /\ Closing(p) # Placing
      /\ \A x \in Changes : Changing(x) \in Busy /\ Changing(x) # Placing
  BY DEF Busy, Placing, Closing, Changing
<1>b. Owned(busy, calls, rpc)
  BY BusyOwns DEF Control
<1>c. ASSUME UNCHANGED <<callVars, queue, placing, replay>> PROVE Control'
  BY <1>c, QuietKeepsControl DEF callVars
<1>1. ASSUME NEW s \in Shapes, UserPlaces(s) PROVE Control'
  <2>1. /\ BusyHasItsCall' /\ busy' = busy \cup {Placing}
        /\ rpc'[calls'[Placing]].order = Len(orders) + 1
    BY <1>1, <1>a, <1>b, StartOwns DEF UserPlaces
  <2> QED
    BY <1>1, <2>1 DEF UserPlaces, userVars, Control, QueueWaitsForAnswer, PlacingIsInFlight, ReplayLocksOrders
<1>2. ASSUME NEW plan \in Plans, UserPlacesPlan(plan) PROVE Control'
  <2>1. /\ Start(Placing, Len(orders) + 1, busy, calls, rpc)
        /\ placing' = Len(orders) + 1 /\ ~replay /\ UNCHANGED replay /\ Placing \notin busy
    BY <1>2 DEF UserPlacesPlan, userVars
  <2>2. /\ BusyHasItsCall' /\ busy' = busy \cup {Placing}
        /\ rpc'[calls'[Placing]].order = Len(orders) + 1
    BY <2>1, <1>a, <1>b, StartOwns
  <2> QED
    BY <2>1, <2>2 DEF Control, QueueWaitsForAnswer, PlacingIsInFlight, ReplayLocksOrders
<1>3. ASSUME NEW what \in Busy, what # Placing, what \notin busy,
             Start(what, 0, busy, calls, rpc), UNCHANGED <<queue, placing, replay>>
      PROVE  Control'
  <2>1. /\ BusyHasItsCall' /\ busy' = busy \cup {what}
        /\ \A b \in busy : rpc'[calls'[b]] = rpc[calls[b]]
    BY <1>3, <1>b, StartOwns
  <2> QED
    BY <1>3, <2>1 DEF Control, QueueWaitsForAnswer, PlacingIsInFlight, ReplayLocksOrders
<1>4. ASSUME NEW p \in Positions, UserCloses(p) \/ UserReverses(p) PROVE Control'
  BY <1>4, <1>a, <1>3 DEF UserCloses, UserReverses, orderVars, userVars
<1>5. ASSUME NEW x \in Changes, UserChanges(x) PROVE Control'
  BY <1>5, <1>a, <1>3 DEF UserChanges, orderVars, userVars
<1>6. ASSUME NEW on \in BOOLEAN, SetKillSwitch(on) PROVE Control'
  BY <1>6, <1>c DEF SetKillSwitch, orderVars
<1>7. ASSUME NEW on \in BOOLEAN, SetReplay(on) PROVE Control'
  BY <1>7 DEF SetReplay, callVars, orderVars, Control, BusyHasItsCall, QueueWaitsForAnswer,
              PlacingIsInFlight, ReplayLocksOrders
<1>8. ASSUME NEW c \in DOMAIN rpc, OrderReaches(c) \/ CloseReaches(c) \/ ChangeReaches(c) \/ CallFails(c)
      PROVE  Control'
  <2>1. PICK answer \in Results : rpc' = [rpc EXCEPT ![c].result = answer]
    BY <1>8 DEF OrderReaches, CloseReaches, ChangeReaches, CallFails, Results
  <2>2. \A d \in DOMAIN rpc : rpc[d] \in Call
    BY DEF TypeOK, CallsType
  <2>3. DOMAIN rpc' = DOMAIN rpc
        /\ \A d \in DOMAIN rpc : rpc'[d].what = rpc[d].what /\ rpc'[d].order = rpc[d].order
    BY <2>1, <2>2 DEF Call
  <2>4. UNCHANGED <<busy, calls, timers, queue, placing, replay>>
    BY <1>8 DEF OrderReaches, CloseReaches, ChangeReaches, CallFails, orderVars, userVars
  <2> QED
    BY <2>3, <2>4, QuietKeepsControl
<1>9. CASE SessionReady
  <2>1. PICK lost \in SUBSET DOMAIN rpc :
          rpc' = [c \in DOMAIN rpc |->
                    IF c \in lost THEN [rpc[c] EXCEPT !.result = "unknown"] ELSE rpc[c]]
    BY <1>9 DEF SessionReady
  <2>2. DOMAIN rpc' = DOMAIN rpc
        /\ \A d \in DOMAIN rpc : rpc'[d].what = rpc[d].what /\ rpc'[d].order = rpc[d].order
    BY <2>1 DEF TypeOK, CallsType, Call
  <2>3. UNCHANGED <<busy, calls, timers, queue, placing, replay>>
    BY <1>9 DEF SessionReady, userVars
  <2> QED
    BY <2>2, <2>3, QuietKeepsControl
<1>10. CASE \/ \E o \in OrderIds : LateArrival(o) \/ BrokerFills(o)
            \/ \E p \in Positions : BrokerCloses(p) \/ CloseFails(p)
            \/ OnOrderEvent \/ OnCancelEvent
            \/ \E l \in loads : ReadAccount(l) \/ LoadIgnored(l)
            \/ \E w \in watches : WatchRechecks(w) \/ WatchEnds(w)
  BY <1>10, <1>c DEF LateArrival, BrokerFills, BrokerCloses, CloseFails, OnOrderEvent, OnCancelEvent,
                     ReadAccount, LoadIgnored, WatchRechecks, WatchEnds, userVars, orderVars
<1>11. ASSUME NEW c \in DOMAIN rpc, AnswerPlaced(c) PROVE Control'
  <2>1. CASE Placing \notin Held(c) /\ queue # <<>>
    <3>1. /\ placing' = Head(queue) /\ UNCHANGED replay
          /\ Start(Placing, Head(queue), Held(c), Kept(c), Without(rpc, {c}))
      BY <1>11, <2>1 DEF AnswerPlaced, SendNext, userVars
    <3>2. BusyHasItsCall' /\ busy' = Held(c) \cup {Placing} /\ rpc'[calls'[Placing]].order = Head(queue)
      BY <2>1, <3>1, <1>a, HeldOwns, StartOwns DEF Control
    <3> QED
      BY <2>1, <3>1, <3>2 DEF Control, QueueWaitsForAnswer, PlacingIsInFlight, ReplayLocksOrders
  <2>2. CASE ~(Placing \notin Held(c) /\ queue # <<>>)
    BY <1>11, <2>2, ReleaseKeepsControl DEF AnswerPlaced, userVars
  <2> QED
    BY <2>1, <2>2
<1>12. ASSUME NEW c \in DOMAIN rpc, AnswerNotPlaced(c) PROVE Control'
  BY <1>12, ReleaseKeepsControl DEF AnswerNotPlaced, DropQueue, DoubtPlacing, userVars
<1>13. ASSUME NEW c \in DOMAIN rpc, AnswerNotClosed(c) \/ AnswerChanged(c) \/ AnswerNotChanged(c) PROVE Control'
  <2>1. Release(c) /\ rpc[c].what # Placing /\ UNCHANGED <<placing, queue, replay>>
    BY <1>13 DEF AnswerNotClosed, AnswerChanged, AnswerNotChanged, Placing, userVars, orderVars
  <2> QED
    BY <2>1, ReleaseKeepsControl
<1>14. ASSUME NEW c \in DOMAIN rpc, AnswerClosing(c) PROVE Control'
  <2>1. PICK ready : PlaceReverses(ready, Held(c), Kept(c), Without(rpc, {c}))
    BY <1>14 DEF AnswerClosing
  <2>2. UNCHANGED <<queue, replay>>
    BY <1>14 DEF AnswerClosing, userVars
  <2>3. rpc[c].what # Placing
    <3>1. rpc[c].what.kind = "closing"
      BY <1>14 DEF AnswerClosing
    <3> QED
      BY <3>1 DEF Placing
  <2> QED
    BY <2>1, <2>2, <2>3, HeldOwns, PlaceReversesKeepsControl DEF Control
<1>15. ASSUME NEW t \in timers, GiveUp(t) PROVE Control'
  <2>1. /\ busy' = busy \ {t.what} /\ calls' = Without(calls, {t.what})
        /\ timers' = timers \ {t} /\ queue' = <<>> /\ UNCHANGED <<rpc, replay>>
        /\ \/ t.what = Placing /\ placing' = 0
           \/ t.what # Placing /\ placing' = placing
    BY <1>15 DEF GiveUp, DropQueue, DoubtPlacing, userVars
  <2>2. BusyHasItsCall' /\ \A b \in busy \ {t.what} : calls'[b] = calls[b]
    <3>1. \A b \in busy \ {t.what} : [what |-> b, seq |-> calls[b]] # t
      OBVIOUS
    <3>2. calls[t.what] = t.seq /\ t = [what |-> t.what, seq |-> t.seq]
      BY <1>15 DEF GiveUp, IsNewest, TypeOK, CallsType, Timer
    <3>3. \A c \in DOMAIN rpc : [what |-> rpc[c].what, seq |-> c] \in timers \ {t} =>
                                 rpc[c].what \in busy \ {t.what} /\ calls[rpc[c].what] = c
      BY <3>2 DEF Control, BusyHasItsCall
    <3> QED
      BY <2>1, <3>1, <3>3 DEF Control, BusyHasItsCall, Without
  <2> QED
    BY <2>1, <2>2 DEF Control, QueueWaitsForAnswer, PlacingIsInFlight, ReplayLocksOrders
<1>16. ASSUME NEW t \in timers, TimerIdle(t) PROVE Control'
  <2>1. /\ timers' = timers \ {t} /\ ~IsNewest(t.what, t.seq)
        /\ UNCHANGED <<busy, calls, rpc, queue, placing, replay>>
    BY <1>16 DEF TimerIdle, orderVars, userVars
  <2>2. \A b \in busy : [what |-> b, seq |-> calls[b]] # t
    BY <2>1 DEF IsNewest, Control, BusyHasItsCall
  <2> QED
    BY <2>1, <2>2 DEF Control, BusyHasItsCall, QueueWaitsForAnswer, PlacingIsInFlight, ReplayLocksOrders
<1>17. ASSUME NEW ready, PlaceReverses(ready, busy, calls, rpc), UNCHANGED <<queue, replay>> PROVE Control'
  BY <1>17, <1>b, PlaceReversesKeepsControl
<1>18. CASE OnClosedEvent
  BY <1>18, <1>17 DEF OnClosedEvent, userVars
<1>19. ASSUME NEW l \in loads, LoadDone(l) PROVE Control'
  BY <1>19, <1>17 DEF LoadDone, userVars
<1>20. CASE UNCHANGED vars
  BY <1>20, <1>c DEF vars, orderVars, userVars
<1> QED
  BY <1>1, <1>2, <1>4, <1>5, <1>6, <1>7, <1>8, <1>9, <1>10, <1>11, <1>12, <1>13, <1>14,
     <1>15, <1>16, <1>18, <1>19, <1>20 DEF Next, User, Broker, Answer, OnEvent

\* The four properties the theorems below state, none of which is inductive alone.
LEMMA ControlHolds ==
  Spec => [](BusyHasItsCall /\ QueueWaitsForAnswer /\ PlacingIsInFlight /\ ReplayLocksOrders)
<1>1. Init => Control
  <2>1. DOMAIN Empty = {}
    BY DEF Empty
  <2> QED
    BY <2>1 DEF Init, Control, BusyHasItsCall, QueueWaitsForAnswer, PlacingIsInFlight, ReplayLocksOrders
<1>2. TypeOK /\ Control /\ [Next]_vars => Control'
  BY ControlStep
<1>3. Control => BusyHasItsCall /\ QueueWaitsForAnswer /\ PlacingIsInFlight /\ ReplayLocksOrders
  BY DEF Control
<1> QED
  BY <1>1, <1>2, <1>3, TypeCorrect, PTL DEF Spec

\* What is busy always has a call and a timer of its own, and only these free it:
\* nothing stays busy for ever and no late answer frees a newer call (Account::trade).
THEOREM CallsMatch == Spec => []BusyHasItsCall
BY ControlHolds, PTL

\* The orders of a plan wait only behind one in flight, so that an answer, a failure
\* or a timer will send or drop them, and no order is in flight or queued while a
\* replay is on (send_next, drop_queue, set_replay).
THEOREM PlansStayWhole == Spec => []PlanStaysWhole
<1>1. QueueWaitsForAnswer /\ ReplayLocksOrders => PlanStaysWhole
  BY DEF PlanStaysWhole
<1> QED
  BY <1>1, ControlHolds, PTL

\* The order kept as the one in flight is that of the call in flight, whatever late
\* answers come: a doubt is never about another order (doubt_placing).
THEOREM PlacingMatches == Spec => []PlacingIsInFlight
BY ControlHolds, PTL

-----------------------------------------------------------------------------
(* What is in doubt, and the reading that will be believed.  The reading     *)
(* must also be the newest one: no reading has a number yet to come.         *)

Doubts == DoubtsPredateTheReading /\ \A l \in loads : l.epoch \in Nat /\ l.epoch <= epoch

LEMMA OnReadyKeepsDoubts ==
  ASSUME TypeOK, Doubts, OnReady, in_doubt' # {} => uncertain'
  PROVE  Doubts'
BY DEF OnReady, Doubts, DoubtsPredateTheReading, TypeOK, SyncType

\* Fewer doubts, and no reading but those there were.
LEMMA FewerDoubts ==
  ASSUME TypeOK, Doubts, in_doubt' \subseteq in_doubt, in_doubt' # {} => uncertain' = uncertain,
         loads' \subseteq loads, UNCHANGED epoch
  PROVE  Doubts'
BY DEF Doubts, DoubtsPredateTheReading

LEMMA DoubtsStep == TypeOK /\ Doubts /\ [Next]_vars => Doubts'
<1> SUFFICES ASSUME TypeOK, Doubts, [Next]_vars PROVE Doubts'
  OBVIOUS
<1>a. ASSUME in_doubt' \subseteq in_doubt, UNCHANGED <<uncertain, epoch, loads>> PROVE Doubts'
  BY <1>a, FewerDoubts
<1>b. ASSUME OnReady, UNCHANGED <<uncertain, in_doubt>> PROVE Doubts'
  BY <1>b, OnReadyKeepsDoubts DEF Doubts, DoubtsPredateTheReading
<1>1. CASE User
  BY <1>1, <1>a DEF User, UserPlaces, UserPlacesPlan, UserCloses, UserReverses, UserChanges,
                    SetKillSwitch, SetReplay, orderVars, syncVars
<1>2. CASE Broker
  BY <1>2, <1>a DEF Broker, OrderReaches, CloseReaches, ChangeReaches, LateArrival, BrokerFills,
                    BrokerCloses, CloseFails, orderVars, syncVars
<1>3. CASE SessionReady
  BY <1>3, <1>b DEF SessionReady
<1>4. ASSUME NEW c \in DOMAIN rpc, CallFails(c) \/ AnswerPlaced(c) \/ AnswerChanged(c) PROVE Doubts'
  BY <1>4, <1>a DEF CallFails, AnswerPlaced, AnswerChanged, orderVars, syncVars
<1>5. ASSUME NEW c \in DOMAIN rpc, AnswerClosing(c) PROVE Doubts'
  BY <1>5, <1>a DEF AnswerClosing
<1>6. ASSUME NEW c \in DOMAIN rpc, AnswerNotPlaced(c) PROVE Doubts'
  <2>1. OnReady /\ (uncertain' = TRUE \/ UNCHANGED <<uncertain, in_doubt>>)
    BY <1>6 DEF AnswerNotPlaced
  <2> QED
    BY <2>1, <1>b, OnReadyKeepsDoubts
<1>7. ASSUME NEW c \in DOMAIN rpc, AnswerNotClosed(c) \/ AnswerNotChanged(c) PROVE Doubts'
  BY <1>7, <1>b DEF AnswerNotClosed, AnswerNotChanged
<1>8. ASSUME NEW t \in timers, GiveUp(t) PROVE Doubts'
  BY <1>8, OnReadyKeepsDoubts DEF GiveUp
<1>9. ASSUME NEW t \in timers, TimerIdle(t) PROVE Doubts'
  BY <1>9, <1>a DEF TimerIdle, orderVars, syncVars
<1>10. CASE OnEvent
  BY <1>10, <1>a DEF OnEvent, OnOrderEvent, OnClosedEvent, OnCancelEvent, orderVars, syncVars
<1>11. ASSUME NEW l \in loads, ReadAccount(l) PROVE Doubts'
  <2> DEFINE read == [l EXCEPT !.read = TRUE, !.positions = open,
                               !.working = {o \in OrderIds : orders[o].at = "working"},
                               !.filled  = {o \in OrderIds : orders[o].at = "filled"}]
  <2>1. loads' = (loads \ {l}) \cup {read} /\ UNCHANGED <<uncertain, epoch, in_doubt>>
    BY <1>11 DEF ReadAccount, orderVars
  <2>2. read.epoch = l.epoch /\ read.doubts = l.doubts
    BY DEF TypeOK, SyncType, Load
  <2> HIDE DEF read
  <2> QED
    BY <2>1, <2>2 DEF Doubts, DoubtsPredateTheReading
<1>12. ASSUME NEW l \in loads, LoadDone(l) PROVE Doubts'
  BY <1>12, FewerDoubts DEF LoadDone
<1>13. ASSUME NEW l \in loads, LoadIgnored(l) PROVE Doubts'
  BY <1>13, FewerDoubts DEF LoadIgnored, orderVars
<1>14. ASSUME NEW w \in watches, WatchRechecks(w) \/ WatchEnds(w) PROVE Doubts'
  <2>1. CASE WatchRechecks(w)
    BY <2>1, <1>a, <1>b DEF WatchRechecks
  <2>2. CASE WatchEnds(w)
    BY <2>2, <1>a DEF WatchEnds, orderVars, syncVars
  <2> QED
    BY <1>14, <2>1, <2>2
<1>15. CASE UNCHANGED vars
  BY <1>15, <1>a DEF vars, orderVars, syncVars
<1> QED
  BY <1>1, <1>2, <1>3, <1>4, <1>5, <1>6, <1>7, <1>8, <1>9, <1>10, <1>11, <1>12, <1>13,
     <1>14, <1>15 DEF Next, Answer

\* An order in doubt makes the account uncertain, and the only reading that will
\* be applied was started after every doubt it settles (on_ready, settle_in_doubt).
THEOREM DoubtsHold == Spec => []DoubtsPredateTheReading
<1>1. Init => Doubts
  BY DEF Init, Doubts, DoubtsPredateTheReading
<1>2. TypeOK /\ Doubts /\ [Next]_vars => Doubts'
  BY DoubtsStep
<1>3. Doubts => DoubtsPredateTheReading
  BY DEF Doubts
<1> QED
  BY <1>1, <1>2, <1>3, TypeCorrect, PTL DEF Spec

-----------------------------------------------------------------------------
(* No order is sent twice.  The queue holds orders that were never sent,     *)
(* each once, and no call carries an order that still waits.                 *)

Sent(os, o) == o \in DOMAIN os /\ os[o].at # "waiting"

Unsent ==
  /\ \A i \in 1 .. Len(queue) : queue[i] \in DOMAIN orders /\ orders[queue[i]].at = "waiting"
  /\ \A i, j \in 1 .. Len(queue) : i # j => queue[i] # queue[j]
  /\ \A c \in DOMAIN rpc : rpc[c].what = Placing => Sent(orders, rpc[c].order)

\* A call that starts carries an order that was never sent before.
FirstSending ==
  \A c \in DOMAIN rpc' \ DOMAIN rpc :
    rpc'[c].what = Placing =>
      rpc'[c].order \notin OrderIds \/ orders[rpc'[c].order].at = "waiting"

\* The queue and the calls stay, and no order starts or ceases to wait.
LEMMA SameWaiting ==
  ASSUME TypeOK, Unsent, DOMAIN orders' = DOMAIN orders,
         \A o \in DOMAIN orders : orders'[o].at = "waiting" <=> orders[o].at = "waiting",
         queue' \in {queue, <<>>}, DOMAIN rpc' \subseteq DOMAIN rpc,
         \A c \in DOMAIN rpc' : rpc'[c].what = rpc[c].what /\ rpc'[c].order = rpc[c].order
  PROVE  Unsent' /\ FirstSending
<1>1. FirstSending
  BY DEF FirstSending
<1>2. \A c \in DOMAIN rpc' : rpc'[c].what = Placing => Sent(orders', rpc'[c].order)
  BY DEF Unsent, Sent
<1>3. CASE queue' = queue
  BY <1>1, <1>2, <1>3 DEF Unsent
<1>4. CASE queue' = <<>>
  BY <1>1, <1>2, <1>4 DEF Unsent
<1> QED
  BY <1>3, <1>4

\* What an answer or a command that sends nothing leaves.
LEMMA ReleaseSends ==
  ASSUME NEW c \in DOMAIN rpc, Release(c)
  PROVE  /\ DOMAIN rpc' \subseteq DOMAIN rpc
         /\ \A d \in DOMAIN rpc' : rpc'[d] = rpc[d]
BY DEF Release, Without

\* A call for something else than an order.
LEMMA StartSendsNothing ==
  ASSUME TypeOK, Unsent, NEW what \in Busy, what # Placing,
         Start(what, 0, busy, calls, rpc), UNCHANGED <<orders, queue>>
  PROVE  Unsent' /\ FirstSending
<1>1. call_seq \in Nat /\ DOMAIN rpc \subseteq 1 .. call_seq
  BY DEF TypeOK, CallsType
<1>2. /\ DOMAIN rpc' = DOMAIN rpc \cup {call_seq + 1} /\ rpc'[call_seq + 1].what = what
      /\ \A c \in DOMAIN rpc : rpc'[c] = rpc[c]
  BY <1>1 DEF Start, Put
<1> QED
  BY <1>2 DEF Unsent, FirstSending

\* A call for order o, which waits or is new, once the tasks r1 are left.
LEMMA StartSends ==
  ASSUME TypeOK, NEW o, NEW held, NEW c1, NEW r1, NEW os,
         DOMAIN r1 \subseteq DOMAIN rpc, \A c \in DOMAIN r1 : r1[c] = rpc[c],
         Start(Placing, o, held, c1, r1), Unsent,
         \A d \in DOMAIN orders : Sent(orders, d) => Sent(os, d),
         Sent(os, o), o \notin OrderIds \/ orders[o].at = "waiting"
  PROVE  /\ FirstSending
         /\ \A c \in DOMAIN rpc' : rpc'[c].what = Placing => Sent(os, rpc'[c].order)
<1>1. call_seq \in Nat /\ DOMAIN rpc \subseteq 1 .. call_seq
  BY DEF TypeOK, CallsType
<1>2. /\ DOMAIN rpc' = DOMAIN r1 \cup {call_seq + 1} /\ rpc'[call_seq + 1].order = o
      /\ \A c \in DOMAIN r1 : rpc'[c] = rpc[c]
  BY <1>1 DEF Start, Put
<1>3. FirstSending
  BY <1>2 DEF FirstSending
<1>4. \A c \in DOMAIN r1 : rpc[c].what = Placing => Sent(os, rpc[c].order)
  BY DEF Unsent, Sent
<1> QED
  BY <1>2, <1>3, <1>4

\* One more order, sent at once by the call that starts.
LEMMA AppendSends ==
  ASSUME TypeOK, Unsent, NEW e, e.at = "out", NEW held, NEW c1, NEW r1,
         DOMAIN r1 \subseteq DOMAIN rpc, \A c \in DOMAIN r1 : r1[c] = rpc[c],
         orders' = Append(orders, e), queue' = queue,
         Start(Placing, Len(orders) + 1, held, c1, r1)
  PROVE  Unsent' /\ FirstSending
<1>1. Len(orders) \in Nat /\ DOMAIN orders = 1 .. Len(orders) /\ orders \in Seq(Order)
  BY LenProperties DEF TypeOK, OrdersType
<1>2. /\ DOMAIN orders' = 1 .. Len(orders) + 1 /\ orders'[Len(orders) + 1] = e
      /\ \A i \in 1 .. Len(orders) : orders'[i] = orders[i]
  BY <1>1
<1>3. /\ Len(orders) + 1 \notin OrderIds /\ Sent(orders', Len(orders) + 1)
      /\ \A d \in DOMAIN orders : Sent(orders, d) => Sent(orders', d)
  BY <1>1, <1>2 DEF Sent, OrderIds
<1>4. /\ FirstSending
      /\ \A c \in DOMAIN rpc' : rpc'[c].what = Placing => Sent(orders', rpc'[c].order)
  BY <1>3, StartSends
<1>5. \A i \in 1 .. Len(queue) : queue[i] \in DOMAIN orders' /\ orders'[queue[i]].at = "waiting"
  BY <1>1, <1>2 DEF Unsent
<1> QED
  BY <1>4, <1>5 DEF Unsent

LEMMA PlaceReversesSends ==
  ASSUME TypeOK, Unsent, NEW ready, NEW held, NEW c1, NEW r1,
         DOMAIN r1 \subseteq DOMAIN rpc, \A c \in DOMAIN r1 : r1[c] = rpc[c],
         PlaceReverses(ready, held, c1, r1), UNCHANGED queue
  PROVE  Unsent' /\ FirstSending
<1>1. CASE rpc' = r1 /\ UNCHANGED orders
  BY <1>1, SameWaiting
<1>2. CASE \E p \in ready :
             /\ orders' = Append(orders, NewOrder(ReverseShape[p], p, Len(orders) + 1, "out"))
             /\ Start(Placing, Len(orders) + 1, held, c1, r1)
  <2>1. PICK e : /\ e.at = "out" /\ orders' = Append(orders, e)
                 /\ Start(Placing, Len(orders) + 1, held, c1, r1)
    BY <1>2 DEF NewOrder
  <2> QED
    BY <2>1, AppendSends
<1> QED
  BY <1>1, <1>2 DEF PlaceReverses

LEMMA UnsentStep == TypeOK /\ Unsent /\ [Next]_vars => Unsent' /\ (UNCHANGED vars \/ FirstSending)
<1> SUFFICES ASSUME TypeOK, Unsent, [Next]_vars PROVE Unsent' /\ (UNCHANGED vars \/ FirstSending)
  OBVIOUS
<1> DEFINE Goal == Unsent' /\ (UNCHANGED vars \/ FirstSending)
<1>a. ASSUME UNCHANGED <<callVars, queue, orders>> PROVE Goal
  BY <1>a, SameWaiting DEF callVars
<1>b. /\ orders \in Seq(Order) /\ Len(orders) \in Nat /\ DOMAIN orders = OrderIds
      /\ \A o \in OrderIds : orders[o] \in Order
  BY LenProperties, ElementOfSeq DEF TypeOK, OrdersType, OrderIds
<1>c. \A c \in DOMAIN rpc : rpc[c] \in Call
  BY DEF TypeOK, CallsType
<1>1. ASSUME NEW s \in Shapes, UserPlaces(s) PROVE Goal
  <2>1. NewOrder(s, NoId, Len(orders) + 1, "out").at = "out"
    BY DEF NewOrder
  <2> QED
    BY <1>1, <2>1, AppendSends DEF UserPlaces
<1>2. ASSUME NEW plan \in Plans, UserPlacesPlan(plan) PROVE Goal
  <2> DEFINE first == Len(orders) + 1
             n == Len(plan)
             made == PlanOrders(plan)
  <2>2. n \in Nat /\ n >= 2
    BY PlanOrdersType
  <2>3. /\ orders' = orders \o made /\ queue' = [i \in 1 .. n - 1 |-> first + i]
        /\ Start(Placing, first, busy, calls, rpc)
    BY <1>2 DEF UserPlacesPlan
  <2>4. /\ \A i \in 1 .. n : made[i].at = IF i = 1 THEN "out" ELSE "waiting"
        /\ made \in Seq(Order) /\ Len(made) = n
    BY PlanOrdersType
  <2> HIDE DEF made, n
  <2>5. /\ DOMAIN orders' = 1 .. Len(orders) + n
        /\ \A i \in OrderIds : orders'[i] = orders[i]
        /\ \A i \in 1 .. n : orders'[Len(orders) + i] = made[i]
    <3>1. /\ orders \o made \in Seq(Order) /\ Len(orders \o made) = Len(orders) + n
          /\ \A i \in 1 .. Len(orders) + n :
               (orders \o made)[i] = IF i <= Len(orders) THEN orders[i] ELSE made[i - Len(orders)]
      BY <1>b, <2>4, ConcatProperties
    <3>2. DOMAIN (orders \o made) = 1 .. Len(orders) + n
      BY <3>1, LenProperties
    <3> QED
      BY <1>b, <2>2, <2>3, <3>1, <3>2 DEF OrderIds
  <2>6. /\ first \notin OrderIds /\ Sent(orders', first)
        /\ \A d \in DOMAIN orders : Sent(orders, d) => Sent(orders', d)
    BY <1>b, <2>2, <2>4, <2>5 DEF Sent, OrderIds
  <2>7. /\ FirstSending
        /\ \A c \in DOMAIN rpc' : rpc'[c].what = Placing => Sent(orders', rpc'[c].order)
    BY <2>3, <2>6, StartSends
  <2>8. Len(queue') = n - 1 /\ \A i \in 1 .. n - 1 : queue'[i] = Len(orders) + (i + 1)
    <3>1. queue' \in [1 .. n - 1 -> Nat] /\ n - 1 \in Nat
      BY <1>b, <2>2, <2>3
    <3>2. Len(queue') = n - 1
      BY <3>1, FunctionIsSeq
    <3>3. \A i \in 1 .. n - 1 : queue'[i] = Len(orders) + (i + 1)
      BY <1>b, <2>2, <2>3
    <3> QED
      BY <3>2, <3>3
  <2>9. \A i \in 1 .. n - 1 : queue'[i] \in DOMAIN orders' /\ orders'[queue'[i]].at = "waiting"
    <3> SUFFICES ASSUME NEW i \in 1 .. n - 1
                 PROVE  queue'[i] \in DOMAIN orders' /\ orders'[queue'[i]].at = "waiting"
      OBVIOUS
    <3>1. i + 1 \in 1 .. n /\ i + 1 # 1 /\ queue'[i] = Len(orders) + (i + 1)
      BY <2>2, <2>8
    <3>2. orders'[queue'[i]].at = "waiting"
      BY <2>4, <2>5, <3>1
    <3> QED
      BY <1>b, <2>2, <2>5, <3>1, <3>2
  <2>10. \A i, j \in 1 .. n - 1 : i # j => queue'[i] # queue'[j]
    BY <1>b, <2>2, <2>8
  <2> QED
    BY <2>7, <2>8, <2>9, <2>10 DEF Unsent
<1>3. ASSUME NEW p \in Positions, UserCloses(p) \/ UserReverses(p) PROVE Goal
  <2>1. Closing(p) \in Busy /\ Closing(p) # Placing
    BY DEF Busy, Closing, Placing
  <2> QED
    BY <1>3, <2>1, StartSendsNothing DEF UserCloses, UserReverses, orderVars
<1>4. ASSUME NEW x \in Changes, UserChanges(x) PROVE Goal
  <2>1. Changing(x) \in Busy /\ Changing(x) # Placing
    BY DEF Busy, Changing, Placing
  <2> QED
    BY <1>4, <2>1, StartSendsNothing DEF UserChanges, orderVars
<1>5. CASE \/ \E on \in BOOLEAN : SetKillSwitch(on) \/ SetReplay(on)
           \/ \E p \in Positions : BrokerCloses(p) \/ CloseFails(p)
           \/ OnCancelEvent
           \/ \E l \in loads : ReadAccount(l) \/ LoadIgnored(l)
           \/ \E w \in watches : WatchRechecks(w) \/ WatchEnds(w)
           \/ UNCHANGED vars
  BY <1>5, <1>a DEF SetKillSwitch, SetReplay, BrokerCloses, CloseFails, OnCancelEvent,
                    ReadAccount, LoadIgnored, WatchRechecks, WatchEnds, orderVars, vars
<1>6. ASSUME NEW c \in DOMAIN rpc, OrderReaches(c) PROVE Goal
  <2>1. PICK answer \in {"accepted", "filled", "rejected", "refused"} :
          /\ rpc' = [rpc EXCEPT ![c].result = answer]
          /\ orders' = [orders EXCEPT
                ![rpc[c].order].at = IF answer = "accepted" THEN "working" ELSE answer,
                ![rpc[c].order].late = placing # rpc[c].order]
    BY <1>6 DEF OrderReaches
  <2>2. /\ DOMAIN rpc' = DOMAIN rpc
        /\ \A d \in DOMAIN rpc : rpc'[d].what = rpc[d].what /\ rpc'[d].order = rpc[d].order
    BY <1>c, <2>1 DEF Call
  <2>3. Sent(orders, rpc[c].order)
    BY <1>6 DEF OrderReaches, Unsent
  <2>4. /\ DOMAIN orders' = DOMAIN orders
        /\ \A o \in DOMAIN orders : orders'[o].at = "waiting" <=> orders[o].at = "waiting"
    BY <1>b, <2>1, <2>3 DEF Order, Sent
  <2>5. queue' = queue
    BY <1>6 DEF OrderReaches
  <2> QED
    BY <2>2, <2>4, <2>5, SameWaiting
<1>7. ASSUME NEW c \in DOMAIN rpc, CloseReaches(c) \/ ChangeReaches(c) \/ CallFails(c) PROVE Goal
  <2>1. PICK answer : rpc' = [rpc EXCEPT ![c].result = answer]
    BY <1>7 DEF CloseReaches, ChangeReaches, CallFails
  <2>2. /\ DOMAIN rpc' = DOMAIN rpc
        /\ \A d \in DOMAIN rpc : rpc'[d].what = rpc[d].what /\ rpc'[d].order = rpc[d].order
    BY <1>c, <2>1 DEF Call
  <2>3. UNCHANGED <<queue, orders>>
    BY <1>7 DEF CloseReaches, ChangeReaches, CallFails, orderVars
  <2> QED
    BY <2>2, <2>3, SameWaiting
<1>8. ASSUME NEW o \in OrderIds, LateArrival(o) PROVE Goal
  <2>1. PICK at \in {"working", "filled", "rejected", "refused"} :
          orders' = [orders EXCEPT ![o].at = at, ![o].late = placing # o]
    BY <1>8 DEF LateArrival
  <2>2. orders[o].at = "out" /\ UNCHANGED <<queue, rpc>>
    BY <1>8 DEF LateArrival, callVars
  <2>3. /\ DOMAIN orders' = DOMAIN orders
        /\ \A d \in DOMAIN orders : orders'[d].at = "waiting" <=> orders[d].at = "waiting"
    BY <1>b, <2>1, <2>2 DEF Order
  <2> QED
    BY <2>2, <2>3, SameWaiting
<1>9. ASSUME NEW o \in OrderIds, BrokerFills(o) PROVE Goal
  <2>1. /\ orders' = [orders EXCEPT ![o].at = "filled"] /\ orders[o].at = "working"
        /\ UNCHANGED <<queue, rpc>>
    BY <1>9 DEF BrokerFills, callVars
  <2>2. /\ DOMAIN orders' = DOMAIN orders
        /\ \A d \in DOMAIN orders : orders'[d].at = "waiting" <=> orders[d].at = "waiting"
    BY <1>b, <2>1 DEF Order
  <2> QED
    BY <2>1, <2>2, SameWaiting
<1>10. CASE SessionReady
  <2>1. PICK lost \in SUBSET DOMAIN rpc :
          rpc' = [c \in DOMAIN rpc |->
                    IF c \in lost THEN [rpc[c] EXCEPT !.result = "unknown"] ELSE rpc[c]]
    BY <1>10 DEF SessionReady
  <2>2. /\ DOMAIN rpc' = DOMAIN rpc
        /\ \A d \in DOMAIN rpc : rpc'[d].what = rpc[d].what /\ rpc'[d].order = rpc[d].order
    BY <1>c, <2>1 DEF Call
  <2> QED
    BY <1>10, <2>2, SameWaiting DEF SessionReady
<1>d. ASSUME NEW o, NEW h PROVE
         LET os == [orders EXCEPT ![o].answered = h]
         IN  DOMAIN os = DOMAIN orders /\ \A d \in DOMAIN orders : os[d].at = orders[d].at
  BY <1>b DEF Order
<1>11. ASSUME NEW c \in DOMAIN rpc, AnswerPlaced(c) PROVE Goal
  <2>1. CASE Placing \notin Held(c) /\ queue # <<>>
    <3> DEFINE h == Head(queue)
    <3>1. /\ queue' = Tail(queue)
          /\ orders' = [orders EXCEPT ![rpc[c].order].answered = Heard(c), ![h].at = "out"]
          /\ Start(Placing, h, Held(c), Kept(c), Without(rpc, {c}))
      BY <1>11, <2>1 DEF AnswerPlaced, SendNext
    <3>2. /\ queue \in Seq(Nat) /\ Len(queue) \in Nat /\ Len(queue) >= 1 /\ h = queue[1]
          /\ Len(queue') = Len(queue) - 1
          /\ \A i \in 1 .. Len(queue) - 1 : queue'[i] = queue[i + 1]
      BY <2>1, <3>1 DEF TypeOK, OrdersType
    <3>3. h \in DOMAIN orders /\ orders[h].at = "waiting"
      BY <3>2 DEF Unsent
    <3>4. /\ DOMAIN orders' = DOMAIN orders /\ orders'[h].at = "out"
          /\ \A d \in DOMAIN orders \ {h} : orders'[d].at = orders[d].at
      BY <1>b, <3>1, <3>3 DEF Order
    <3>5. Sent(orders', h) /\ \A d \in DOMAIN orders : Sent(orders, d) => Sent(orders', d)
      BY <3>4, <3>3 DEF Sent
    <3>6. PICK held, c1, r1 : /\ Start(Placing, h, held, c1, r1)
                              /\ DOMAIN r1 \subseteq DOMAIN rpc /\ \A d \in DOMAIN r1 : r1[d] = rpc[d]
      <4>1. /\ DOMAIN Without(rpc, {c}) \subseteq DOMAIN rpc
            /\ \A d \in DOMAIN Without(rpc, {c}) : Without(rpc, {c})[d] = rpc[d]
        BY DEF Without
      <4> QED
        BY <3>1, <4>1
    <3> HIDE DEF h
    <3>7. /\ FirstSending
          /\ \A d \in DOMAIN rpc' : rpc'[d].what = Placing => Sent(orders', rpc'[d].order)
      BY <3>3, <3>5, <3>6, StartSends
    <3>8. /\ \A i \in 1 .. Len(queue') : /\ queue'[i] \in DOMAIN orders'
                                         /\ orders'[queue'[i]].at = "waiting"
          /\ \A i, j \in 1 .. Len(queue') : i # j => queue'[i] # queue'[j]
      <4>1. \A i \in 1 .. Len(queue) - 1 :
              /\ i + 1 \in 1 .. Len(queue) /\ 1 \in 1 .. Len(queue) /\ i + 1 # 1
        BY <3>2
      <4>2. \A i \in 1 .. Len(queue') :
              /\ i \in 1 .. Len(queue) - 1 /\ queue'[i] = queue[i + 1] /\ queue'[i] # h
              /\ queue'[i] \in DOMAIN orders /\ orders[queue'[i]].at = "waiting"
        BY <3>2, <4>1 DEF Unsent
      <4>3. ASSUME NEW i \in 1 .. Len(queue'), NEW j \in 1 .. Len(queue'), i # j
            PROVE  queue'[i] # queue'[j]
        <5>1. i + 1 \in 1 .. Len(queue) /\ j + 1 \in 1 .. Len(queue) /\ i + 1 # j + 1
          BY <3>2, <4>3
        <5> QED
          BY <4>2, <5>1 DEF Unsent
      <4> QED
        BY <3>4, <4>2, <4>3
    <3> QED
      BY <3>7, <3>8 DEF Unsent
  <2>2. CASE ~(Placing \notin Held(c) /\ queue # <<>>)
    <3>1. /\ orders' = [orders EXCEPT ![rpc[c].order].answered = Heard(c)]
          /\ Release(c) /\ UNCHANGED queue
      BY <1>11, <2>2 DEF AnswerPlaced
    <3> QED
      BY <3>1, <1>d, ReleaseSends, SameWaiting
  <2> QED
    BY <2>1, <2>2
<1>12. ASSUME NEW c \in DOMAIN rpc, AnswerNotPlaced(c) PROVE Goal
  <2>1. /\ Release(c) /\ queue' = <<>>
        /\ orders' = orders \/ orders' = [orders EXCEPT ![rpc[c].order].answered = Heard(c)]
    BY <1>12 DEF AnswerNotPlaced, DropQueue
  <2>2. DOMAIN orders' = DOMAIN orders /\ \A d \in DOMAIN orders : orders'[d].at = orders[d].at
    <3>1. CASE orders' = orders
      BY <3>1
    <3>2. CASE orders' = [orders EXCEPT ![rpc[c].order].answered = Heard(c)]
      BY <3>2, <1>d
    <3> QED
      BY <2>1, <3>1, <3>2
  <2> QED
    BY <2>1, <2>2, ReleaseSends, SameWaiting
<1>13. ASSUME NEW c \in DOMAIN rpc, AnswerNotClosed(c) \/ AnswerChanged(c) \/ AnswerNotChanged(c) PROVE Goal
  <2>1. Release(c) /\ UNCHANGED <<queue, orders>>
    BY <1>13 DEF AnswerNotClosed, AnswerChanged, AnswerNotChanged, orderVars
  <2> QED
    BY <2>1, ReleaseSends, SameWaiting
<1>14. ASSUME NEW c \in DOMAIN rpc, AnswerClosing(c) PROVE Goal
  <2>1. /\ \E ready : PlaceReverses(ready, Held(c), Kept(c), Without(rpc, {c}))
        /\ UNCHANGED queue
    BY <1>14 DEF AnswerClosing
  <2>2. /\ DOMAIN Without(rpc, {c}) \subseteq DOMAIN rpc
        /\ \A d \in DOMAIN Without(rpc, {c}) : Without(rpc, {c})[d] = rpc[d]
    BY DEF Without
  <2> QED
    BY <2>1, <2>2, PlaceReversesSends
<1>15. ASSUME NEW t \in timers, GiveUp(t) \/ TimerIdle(t) PROVE Goal
  <2>1. UNCHANGED <<rpc, orders>> /\ queue' \in {queue, <<>>}
    BY <1>15 DEF GiveUp, TimerIdle, DropQueue, orderVars
  <2> QED
    BY <2>1, SameWaiting
<1>16. CASE OnOrderEvent
  <2>1. /\ \E h : orders' = [orders EXCEPT ![Head(events).order].answered = h]
        /\ UNCHANGED <<queue, rpc>>
    BY <1>16 DEF OnOrderEvent, callVars
  <2> QED
    BY <2>1, <1>d, SameWaiting
<1>17. CASE OnClosedEvent \/ \E l \in loads : LoadDone(l)
  <2>1. /\ \E ready : PlaceReverses(ready, busy, calls, rpc)
        /\ UNCHANGED queue
    BY <1>17 DEF OnClosedEvent, LoadDone
  <2> QED
    BY <2>1, PlaceReversesSends
<1> QED
  BY <1>1, <1>2, <1>3, <1>4, <1>5, <1>6, <1>7, <1>8, <1>9, <1>10, <1>11, <1>12, <1>13,
     <1>14, <1>15, <1>16, <1>17 DEF Next, User, Broker, Answer, OnEvent

\* A new order is sent at most once, whatever is lost, late or given up: the call
\* that sends it starts while the order is new or waits its turn in a plan
\* (orders.rs: "it is not sent again").
THEOREM SentOnce == Spec => NeverSentAgain
<1>1. Init => Unsent
  <2>1. DOMAIN Empty = {}
    BY DEF Empty
  <2> QED
    BY <2>1 DEF Init, Unsent
<1>2. TypeOK /\ Unsent /\ [Next]_vars => Unsent'
  BY UnsentStep
<1>3. TypeOK /\ Unsent /\ [Next]_vars =>
        [\A c \in DOMAIN rpc' \ DOMAIN rpc :
           LET o == rpc'[c].order IN
           rpc'[c].what = Placing => o \notin OrderIds \/ orders[o].at = "waiting"]_vars
  BY UnsentStep DEF FirstSending
<1> QED
  BY <1>1, <1>2, <1>3, TypeCorrect, PTL DEF Spec, NeverSentAgain

-----------------------------------------------------------------------------
(* The reversals.  That a position is closed is learnt from an answer, an    *)
(* event or a reading: each of them, and what a reversal keeps of them, says *)
(* so only of a position that is closed.  And what allows the order of a     *)
(* position is there once: as the answer of an accepted close that is still  *)
(* to be handled, as a reversal that is acknowledged, or as the order made.  *)

Acked(r, p) == {c \in DOMAIN r : r[c].what = Closing(p) /\ r[c].result \in {"accepted", "filled"}}
Acknowledged(rs, p) == p \in DOMAIN rs /\ rs[p].acknowledged
Made(os, p) == {o \in DOMAIN os : os[o].from = p}

OnceFor(p) ==
  /\ p \in open \ closing =>
       Acked(rpc, p) = {} /\ ~Acknowledged(reversals, p) /\ Made(orders, p) = {}
  /\ \A c, d \in Acked(rpc, p) : c = d
  /\ Acked(rpc, p) # {} => ~Acknowledged(reversals, p) /\ Made(orders, p) = {}
  /\ Acknowledged(reversals, p) => Made(orders, p) = {}
  /\ \A o, other \in Made(orders, p) : o = other

EventsTell(es) == \A i \in 1 .. Len(es) : es[i].type = "closed" => es[i].position \notin open
LoadsTell(ls)  == \A l \in ls : l.read => open \subseteq l.positions

Final ==
  /\ \A p \in DOMAIN reversals : reversals[p].closed => p \notin open
  /\ EventsTell(events) /\ LoadsTell(loads)
  /\ \A c \in DOMAIN rpc :
       rpc[c].what.kind = "closing" /\ rpc[c].result = "filled" => rpc[c].what.of \notin open
  /\ \A o \in DOMAIN orders : orders[o].from \in Positions => orders[o].from \notin open

Reversing == Final /\ \A p \in Positions \ cancelled : OnceFor(p)

\* No close is answered by the broker, no reversal advances, and no order of a
\* position is made.
LEMMA QuietKeepsReversing ==
  ASSUME TypeOK, Reversing, UNCHANGED <<open, closing, cancelled>>,
         \A c \in DOMAIN rpc' :
           rpc'[c].what.kind = "closing" /\ rpc'[c].result \in {"accepted", "filled"} =>
             c \in DOMAIN rpc /\ rpc[c] = rpc'[c],
         \A p \in DOMAIN reversals' :
           /\ reversals'[p].closed => p \in DOMAIN reversals /\ reversals[p].closed
           /\ reversals'[p].acknowledged => p \in DOMAIN reversals /\ reversals[p].acknowledged,
         \A o \in DOMAIN orders' :
           orders'[o].from \in Positions => o \in DOMAIN orders /\ orders[o].from = orders'[o].from,
         EventsTell(events'), LoadsTell(loads')
  PROVE  Reversing'
<1>1. Final'
  BY DEF Reversing, Final, EventsTell, LoadsTell
<1>2. ASSUME NEW p \in Positions \ cancelled PROVE OnceFor(p)'
  <2>1. OnceFor(p) /\ Closing(p).kind = "closing"
    BY DEF Reversing, Closing
  <2>2. Acked(rpc', p) \subseteq Acked(rpc, p)
    BY <2>1 DEF Acked
  <2>3. Acknowledged(reversals', p) => Acknowledged(reversals, p)
    BY DEF Acknowledged
  <2>4. Made(orders', p) \subseteq Made(orders, p)
    BY DEF Made
  <2> QED
    BY <2>1, <2>2, <2>3, <2>4 DEF OnceFor
<1> QED
  BY <1>1, <1>2 DEF Reversing

\* What allows an order of position p is used up, once the tasks r1 are left.
Spent(r1, p) == p \in cancelled \/ (Acked(r1, p) = {} /\ Made(orders, p) = {})

\* What PlaceReverses does to the tasks and to the orders.
LEMMA PlaceReversesMakes ==
  ASSUME TypeOK, NEW ready, NEW held, NEW c1, NEW r1,
         DOMAIN r1 \subseteq DOMAIN rpc, PlaceReverses(ready, held, c1, r1)
  PROVE  /\ \A c \in DOMAIN rpc' :
              rpc'[c].what.kind = "closing" => c \in DOMAIN r1 /\ rpc'[c] = r1[c]
         /\ \/ UNCHANGED orders
            \/ \E p \in ready :
                 /\ DOMAIN orders' = DOMAIN orders \cup {Len(orders) + 1}
                 /\ orders'[Len(orders) + 1].from = p
                 /\ \A o \in DOMAIN orders : orders'[o] = orders[o]
<1>1. CASE rpc' = r1 /\ UNCHANGED orders
  BY <1>1
<1>2. ASSUME NEW p \in ready,
             orders' = Append(orders, NewOrder(ReverseShape[p], p, Len(orders) + 1, "out")),
             Start(Placing, Len(orders) + 1, held, c1, r1)
      PROVE  /\ \A c \in DOMAIN rpc' :
                  rpc'[c].what.kind = "closing" => c \in DOMAIN r1 /\ rpc'[c] = r1[c]
             /\ DOMAIN orders' = DOMAIN orders \cup {Len(orders) + 1}
             /\ orders'[Len(orders) + 1].from = p
             /\ \A o \in DOMAIN orders : orders'[o] = orders[o]
  <2>1. call_seq \in Nat /\ DOMAIN r1 \subseteq 1 .. call_seq
    BY DEF TypeOK, CallsType
  <2>2. DOMAIN rpc' = DOMAIN r1 \cup {call_seq + 1} /\ rpc'[call_seq + 1].what.kind = "placing"
        /\ \A c \in DOMAIN r1 : rpc'[c] = r1[c]
    BY <1>2, <2>1 DEF Start, Put, Placing
  <2>3. orders \in Seq(Order) /\ Len(orders) \in Nat /\ DOMAIN orders = 1 .. Len(orders)
    BY LenProperties DEF TypeOK, OrdersType
  <2>4. NewOrder(ReverseShape[p], p, Len(orders) + 1, "out").from = p
    BY DEF NewOrder
  <2>5. /\ DOMAIN orders' = 1 .. Len(orders) + 1
        /\ orders'[Len(orders) + 1] = NewOrder(ReverseShape[p], p, Len(orders) + 1, "out")
        /\ \A o \in 1 .. Len(orders) : orders'[o] = orders[o]
    BY <1>2, <2>3
  <2> QED
    BY <2>2, <2>3, <2>4, <2>5
<1> QED
  BY <1>1, <1>2 DEF PlaceReverses

\* A handler that learns of a close and makes the orders of the reversals it
\* finished: what allowed each order is used up by it.
LEMMA HandledKeepsReversing ==
  ASSUME TypeOK, Reversing, UNCHANGED <<open, closing, cancelled>>,
         NEW ready \in SUBSET Positions, NEW held, NEW c1, NEW r1,
         DOMAIN r1 \subseteq DOMAIN rpc, \A c \in DOMAIN r1 : r1[c] = rpc[c],
         PlaceReverses(ready, held, c1, r1),
         \A p \in ready : p \notin open /\ Spent(r1, p),
         \A p \in DOMAIN reversals' :
           /\ p \notin ready
           /\ reversals'[p].closed => p \notin open
           /\ reversals'[p].acknowledged => Spent(r1, p) /\ (p \in cancelled \/ p \notin open \ closing),
         EventsTell(events'), LoadsTell(loads')
  PROVE  Reversing'
<1>1. /\ \A c \in DOMAIN rpc' :
           rpc'[c].what.kind = "closing" => c \in DOMAIN rpc /\ rpc'[c] = rpc[c]
      /\ \A p : Acked(rpc', p) \subseteq Acked(r1, p) /\ Acked(r1, p) \subseteq Acked(rpc, p)
  <2>1. \A c \in DOMAIN rpc' :
          rpc'[c].what.kind = "closing" => c \in DOMAIN r1 /\ rpc'[c] = r1[c]
    BY PlaceReversesMakes
  <2>2. \A p : Closing(p).kind = "closing"
    BY DEF Closing
  <2> QED
    BY <2>1, <2>2 DEF Acked
<1>2. CASE UNCHANGED orders
  <2>1. Final'
    BY <1>1, <1>2 DEF Reversing, Final, EventsTell, LoadsTell
  <2>2. ASSUME NEW p \in Positions \ cancelled PROVE OnceFor(p)'
    BY <1>1, <1>2 DEF Reversing, OnceFor, Spent, Acknowledged
  <2> QED
    BY <2>1, <2>2 DEF Reversing
<1>3. ASSUME NEW q \in ready,
             DOMAIN orders' = DOMAIN orders \cup {Len(orders) + 1},
             orders'[Len(orders) + 1].from = q,
             \A o \in DOMAIN orders : orders'[o] = orders[o]
      PROVE  Reversing'
  <2>1. Final'
    BY <1>1, <1>3 DEF Reversing, Final, EventsTell, LoadsTell
  <2>2. Made(orders', q) \subseteq Made(orders, q) \cup {Len(orders) + 1}
        /\ \A p : p # q => Made(orders', p) \subseteq Made(orders, p)
    BY <1>3 DEF Made
  <2>3. ASSUME NEW p \in Positions \ cancelled PROVE OnceFor(p)'
    <3>1. CASE p = q
      <4>1. Acked(rpc', p) = {} /\ Made(orders, p) = {} /\ p \notin open /\ ~Acknowledged(reversals', p)
        BY <1>1, <3>1 DEF Spent, Acknowledged
      <4> QED
        BY <2>2, <3>1, <4>1 DEF OnceFor
    <3>2. CASE p # q
      BY <1>1, <2>2, <3>2 DEF Reversing, OnceFor, Spent, Acknowledged
    <3> QED
      BY <3>1, <3>2
  <2> QED
    BY <2>1, <2>3 DEF Reversing
<1> QED
  BY <1>2, <1>3, PlaceReversesMakes

LEMMA ReversingStep == TypeOK /\ Reversing /\ [Next]_vars => Reversing'
<1> SUFFICES ASSUME TypeOK, Reversing, [Next]_vars PROVE Reversing'
  OBVIOUS
<1>a. /\ orders \in Seq(Order) /\ Len(orders) \in Nat /\ DOMAIN orders = 1 .. Len(orders)
      /\ \A o \in DOMAIN orders : orders[o] \in Order
      /\ NoId \notin Positions
  BY LenProperties, ElementOfSeq, ConstantsAssumption DEF TypeOK, OrdersType
<1>b. \A c \in DOMAIN rpc : rpc[c] \in Call /\ rpc[c].what \in Busy
  BY DEF TypeOK, CallsType, Call
<1>c. EventsTell(events) /\ LoadsTell(loads) /\ events \in Seq(Event) /\ Len(events) \in Nat
  BY LenProperties DEF Reversing, Final, TypeOK, BrokerType
<1>d. OnReady => LoadsTell(loads')
  BY <1>c DEF OnReady, LoadsTell
<1>e. \A w \in Busy : w.kind = "closing" => w.of \in Positions /\ w = Closing(w.of)
  BY DEF Busy, Placing, Closing, Changing
<1>f. \A p : Placing # Closing(p) /\ Placing.kind # "closing"
  BY DEF Placing, Closing
<1> DEFINE QuietCalls ==
             \A c \in DOMAIN rpc' :
               rpc'[c].what.kind = "closing" /\ rpc'[c].result \in {"accepted", "filled"} =>
                 c \in DOMAIN rpc /\ rpc[c] = rpc'[c]
           QuietReversals ==
             \A p \in DOMAIN reversals' :
               /\ reversals'[p].closed => p \in DOMAIN reversals /\ reversals[p].closed
               /\ reversals'[p].acknowledged => p \in DOMAIN reversals /\ reversals[p].acknowledged
           QuietOrders ==
             \A o \in DOMAIN orders' :
               orders'[o].from \in Positions => o \in DOMAIN orders /\ orders[o].from = orders'[o].from
<1>q. ASSUME QuietCalls, QuietReversals, QuietOrders, UNCHANGED <<open, closing, cancelled>>,
             EventsTell(events'), LoadsTell(loads')
      PROVE  Reversing'
  BY <1>q, QuietKeepsReversing
<1>r. /\ UNCHANGED rpc => QuietCalls
      /\ UNCHANGED reversals => QuietReversals
      /\ UNCHANGED orders => QuietOrders
      /\ UNCHANGED events => EventsTell(events')
      /\ loads' \subseteq loads => LoadsTell(loads')
  BY <1>c DEF LoadsTell
<1>s. ASSUME NEW what, NEW o, NEW held, NEW c1, NEW r1, DOMAIN r1 \subseteq DOMAIN rpc,
             \A c \in DOMAIN r1 : r1[c] = rpc[c], Start(what, o, held, c1, r1)
      PROVE  QuietCalls
  <2>1. call_seq \in Nat /\ DOMAIN rpc \subseteq 1 .. call_seq
    BY DEF TypeOK, CallsType
  <2>2. /\ DOMAIN rpc' = DOMAIN r1 \cup {call_seq + 1} /\ rpc'[call_seq + 1].result = "out"
        /\ \A c \in DOMAIN r1 : rpc'[c] = r1[c]
    BY <1>s, <2>1 DEF Start, Put
  <2> QED
    BY <1>s, <2>2
<1>t. ASSUME NEW c \in DOMAIN rpc, Release(c) PROVE QuietCalls
  BY <1>t DEF Release, Without
<1>u. ASSUME NEW S, reversals' = Without(reversals, S) PROVE QuietReversals
  BY <1>u DEF Without
<1>v. ASSUME NEW f, orders' = [o \in DOMAIN orders |-> f[o]], \A o \in DOMAIN orders : f[o].from = orders[o].from
      PROVE  QuietOrders
  BY <1>v
<1> HIDE DEF QuietCalls, QuietReversals, QuietOrders
<1>1. ASSUME NEW s \in Shapes, UserPlaces(s) PROVE Reversing'
  <2>1. QuietOrders
    <3>1. orders' = Append(orders, NewOrder(s, NoId, Len(orders) + 1, "out"))
      BY <1>1 DEF UserPlaces
    <3>2. NewOrder(s, NoId, Len(orders) + 1, "out").from = NoId
      BY DEF NewOrder
    <3> QED
      BY <1>a, <3>1, <3>2 DEF QuietOrders
  <2> QED
    BY <1>1, <1>q, <1>r, <1>s, <2>1 DEF UserPlaces, reverseVars, syncVars, brokerVars
<1>2. ASSUME NEW plan \in Plans, UserPlacesPlan(plan) PROVE Reversing'
  <2>1. QuietOrders
    <3>1. orders' = orders \o PlanOrders(plan) /\ PlanOrders(plan) \in Seq(Order)
          /\ Len(PlanOrders(plan)) \in Nat
      BY <1>2, PlanOrdersType, LenProperties DEF UserPlacesPlan
    <3>2. \A i \in 1 .. Len(PlanOrders(plan)) : PlanOrders(plan)[i].from = NoId
      BY DEF PlanOrders, NewOrder
    <3>3. \A o \in DOMAIN orders' :
            \/ o \in DOMAIN orders /\ orders'[o] = orders[o]
            \/ o - Len(orders) \in 1 .. Len(PlanOrders(plan))
               /\ orders'[o] = PlanOrders(plan)[o - Len(orders)]
      BY <1>a, <3>1
    <3> QED
      BY <1>a, <3>2, <3>3 DEF QuietOrders
  <2> QED
    BY <1>2, <1>q, <1>r, <1>s, <2>1 DEF UserPlacesPlan, reverseVars, syncVars, brokerVars
<1>3. ASSUME NEW p \in Positions, UserCloses(p) PROVE Reversing'
  BY <1>3, <1>q, <1>r, <1>s DEF UserCloses, orderVars, reverseVars, syncVars, brokerVars
<1>4. ASSUME NEW p \in Positions, UserReverses(p) PROVE Reversing'
  <2>1. QuietReversals
    BY <1>4 DEF UserReverses, Put, QuietReversals
  <2> QED
    BY <1>4, <1>q, <1>r, <1>s, <2>1 DEF UserReverses, orderVars, syncVars, brokerVars
<1>5. ASSUME NEW x \in Changes, UserChanges(x) PROVE Reversing'
  BY <1>5, <1>q, <1>r, <1>s DEF UserChanges, orderVars, reverseVars, syncVars, brokerVars
<1>6. ASSUME NEW on \in BOOLEAN, SetKillSwitch(on) \/ SetReplay(on) PROVE Reversing'
  BY <1>6, <1>q, <1>r DEF SetKillSwitch, SetReplay, callVars, orderVars, reverseVars, syncVars, brokerVars
<1>7. ASSUME NEW c \in DOMAIN rpc, OrderReaches(c) PROVE Reversing'
  <2>1. QuietCalls
    BY <1>7, <1>f DEF OrderReaches, QuietCalls
  <2>2. QuietOrders
    BY <1>7, <1>a DEF OrderReaches, QuietOrders, Order
  <2> QED
    BY <1>7, <1>q, <1>r, <2>1, <2>2 DEF OrderReaches, reverseVars, syncVars, brokerVars
<1>8. ASSUME NEW c \in DOMAIN rpc, CloseReaches(c) PROVE Reversing'
  <2> DEFINE p == rpc[c].what.of
  <2>1. p \in Positions /\ rpc[c].what = Closing(p)
    BY <1>8, <1>b, <1>e DEF CloseReaches
  <2>2. UNCHANGED <<orders, reversals, loads, events, cancelled>>
    BY <1>8 DEF CloseReaches, orderVars, reverseVars, syncVars
  <2>3. CASE UNCHANGED <<open, closing>>
             /\ \E answer \in {"rejected", "refused"} : rpc' = [rpc EXCEPT ![c].result = answer]
    <3>1. QuietCalls
      BY <2>3 DEF QuietCalls
    <3> QED
      BY <2>2, <2>3, <3>1, <1>q, <1>r
  <2>4. ASSUME NEW answer \in {"accepted", "filled"}, rpc' = [rpc EXCEPT ![c].result = answer],
               p \in open \ closing,
               \/ answer = "accepted" /\ open' = open /\ closing' = closing \cup {p}
               \/ answer = "filled" /\ open' = open \ {p} /\ closing' = closing
        PROVE  Reversing'
    <3>1. /\ DOMAIN rpc' = DOMAIN rpc /\ rpc'[c].what = rpc[c].what /\ rpc'[c].result = answer
          /\ \A d \in DOMAIN rpc : d # c => rpc'[d] = rpc[d]
      BY <2>4, <1>b DEF Call
    <3>2. open' \subseteq open /\ closing \subseteq closing' /\ p \notin open' \ closing'
          /\ open' \ closing' \subseteq open \ closing
      BY <2>4
    <3>3. Final'
      BY <2>1, <2>2, <2>4, <3>1, <3>2 DEF Reversing, Final, EventsTell, LoadsTell
    <3>4. Acked(rpc', p) = Acked(rpc, p) \cup {c} /\ \A q : q # p => Acked(rpc', q) = Acked(rpc, q)
      BY <2>1, <2>4, <3>1 DEF Acked, Closing
    <3>5. ASSUME NEW q \in Positions \ cancelled PROVE OnceFor(q)'
      <4>1. OnceFor(q)
        BY DEF Reversing
      <4>2. CASE q = p
        BY <2>2, <2>4, <3>2, <3>4, <4>1, <4>2 DEF OnceFor
      <4>3. CASE q # p
        <5>1. Acked(rpc', q) = Acked(rpc, q) /\ (q \in open' \ closing' <=> q \in open \ closing)
          BY <2>4, <3>4, <4>3
        <5> QED
          BY <2>2, <4>1, <5>1 DEF OnceFor
      <4> QED
        BY <4>2, <4>3
    <3> QED
      BY <2>2, <3>3, <3>5 DEF Reversing
  <2> QED
    BY <1>8, <2>3, <2>4 DEF CloseReaches
<1>9. ASSUME NEW c \in DOMAIN rpc, ChangeReaches(c) \/ CallFails(c) PROVE Reversing'
  <2>1. QuietCalls
    BY <1>9, <1>b DEF ChangeReaches, CallFails, QuietCalls, Call
  <2> QED
    BY <1>9, <1>q, <1>r, <2>1 DEF ChangeReaches, CallFails, orderVars, reverseVars, syncVars, brokerVars
<1>10. ASSUME NEW o \in OrderIds, LateArrival(o) \/ BrokerFills(o) PROVE Reversing'
  <2>1. QuietOrders
    <3>1. DOMAIN orders' = DOMAIN orders /\ \A x \in DOMAIN orders : orders'[x].from = orders[x].from
      <4>1. CASE LateArrival(o)
        <5>1. PICK at : orders' = [orders EXCEPT ![o].at = at, ![o].late = placing # o]
          BY <4>1 DEF LateArrival
        <5> QED
          BY <5>1, <1>a DEF Order
      <4>2. CASE BrokerFills(o)
        BY <4>2, <1>a DEF BrokerFills, Order
      <4> QED
        BY <1>10, <4>1, <4>2
    <3> QED
      BY <3>1 DEF QuietOrders
  <2>2. PICK e : e.type # "closed" /\ events' = Append(events, e)
    BY <1>10 DEF LateArrival, BrokerFills
  <2>3. EventsTell(events')
    BY <1>c, <2>2 DEF EventsTell
  <2> QED
    BY <1>10, <1>q, <1>r, <2>1, <2>3 DEF LateArrival, BrokerFills, callVars, reverseVars, syncVars
<1>11. ASSUME NEW p \in Positions, BrokerCloses(p) PROVE Reversing'
  <2>1. /\ open' = open \ {p} /\ closing' = closing \ {p} /\ cancelled' = cancelled
        /\ UNCHANGED <<rpc, orders, reversals, loads>>
    BY <1>11 DEF BrokerCloses, callVars, orderVars, reverseVars, syncVars
  <2>2. PICK e : e.position = p /\ events' = Append(events, e)
    BY <1>11 DEF BrokerCloses
  <2>3. EventsTell(events)'
    BY <1>c, <2>1, <2>2 DEF EventsTell
  <2>4. Final'
    BY <2>1, <2>3 DEF Reversing, Final, LoadsTell
  <2>5. open' \ closing' \subseteq open \ closing
    BY <2>1
  <2> QED
    BY <2>1, <2>4, <2>5 DEF Reversing, OnceFor
<1>12. ASSUME NEW p \in Positions, CloseFails(p) PROVE Reversing'
  <2>1. /\ open' = open /\ closing' = closing \ {p} /\ cancelled' = cancelled \cup {p}
        /\ UNCHANGED <<rpc, orders, reversals, loads>>
    BY <1>12 DEF CloseFails, callVars, orderVars, reverseVars, syncVars
  <2>2. PICK e : e.type # "closed" /\ events' = Append(events, e)
    BY <1>12 DEF CloseFails
  <2>3. EventsTell(events)'
    BY <1>c, <2>1, <2>2 DEF EventsTell
  <2>4. Final'
    BY <2>1, <2>3 DEF Reversing, Final, LoadsTell
  <2> QED
    BY <2>1, <2>4 DEF Reversing, OnceFor
<1>13. CASE SessionReady
  <2>1. QuietCalls
    BY <1>13 DEF SessionReady, QuietCalls
  <2>2. PICK n \in 0 .. Len(events) : events' = SubSeq(events, 1, n)
    BY <1>13 DEF SessionReady
  <2>3. EventsTell(events')
    BY <1>c, <2>2 DEF EventsTell
  <2> QED
    BY <1>13, <1>d, <1>q, <1>r, <2>1, <2>3 DEF SessionReady, reverseVars
<1>14. ASSUME NEW c \in DOMAIN rpc, AnswerPlaced(c) PROVE Reversing'
  <2>1. QuietOrders
    BY <1>14, <1>a DEF AnswerPlaced, SendNext, QuietOrders, Order
  <2>2. QuietCalls
    <3>1. CASE SendNext(c)
      BY <3>1, <1>s DEF SendNext, Without
    <3>2. CASE Release(c)
      BY <3>2, <1>t
    <3> QED
      BY <1>14, <3>1, <3>2 DEF AnswerPlaced
  <2> QED
    BY <1>14, <1>q, <1>r, <2>1, <2>2 DEF AnswerPlaced, reverseVars, syncVars, brokerVars
<1>15. ASSUME NEW c \in DOMAIN rpc, AnswerNotPlaced(c) PROVE Reversing'
  <2>1. QuietOrders
    <3>1. CASE UNCHANGED orders
      BY <3>1, <1>r
    <3>2. CASE orders' = [orders EXCEPT ![rpc[c].order].answered = Heard(c)]
      BY <3>2, <1>a DEF QuietOrders, Order
    <3> QED
      BY <1>15, <3>1, <3>2 DEF AnswerNotPlaced
  <2> QED
    BY <1>15, <1>d, <1>q, <1>r, <1>t, <2>1 DEF AnswerNotPlaced, reverseVars, brokerVars
<1>16. ASSUME NEW c \in DOMAIN rpc, AnswerClosing(c) PROVE Reversing'
  <2> DEFINE p == rpc[c].what.of
             r == rpc[c].result
             pending == IF r = "rejected" THEN Without(reversals, {p})
                        ELSE [q \in DOMAIN reversals |->
                                IF q # p THEN reversals[q]
                                ELSE [reversals[q] EXCEPT !.acknowledged = TRUE,
                                                          !.closed = @ \/ r = "filled"]]
             ready == Ready(pending) \cap {p}
             r1 == Without(rpc, {c})
  <2>1. p \in Positions /\ rpc[c].what = Closing(p) /\ r \in OkResults
    BY <1>16, <1>b, <1>e DEF AnswerClosing
  <2>2. /\ PlaceReverses(ready, Held(c), Kept(c), r1)
        /\ reversals' = Without(pending, ready)
        /\ UNCHANGED <<loads, open, closing, cancelled, events>>
    BY <1>16 DEF AnswerClosing, brokerVars
  <2>3. DOMAIN r1 \subseteq DOMAIN rpc /\ c \notin DOMAIN r1 /\ \A d \in DOMAIN r1 : r1[d] = rpc[d]
    BY DEF Without
  <2>4. r = "rejected" \/ (Spent(r1, p) /\ (p \in cancelled \/ p \notin open \ closing))
    <3>1. CASE p \in cancelled
      BY <3>1 DEF Spent
    <3>2. CASE p \notin cancelled /\ r # "rejected"
      <4>1. OnceFor(p) /\ c \in Acked(rpc, p)
        BY <2>1, <3>2 DEF Reversing, Acked, OkResults
      <4>2. Acked(r1, p) = {}
        BY <2>3, <4>1 DEF OnceFor, Acked
      <4> QED
        BY <4>1, <4>2 DEF OnceFor, Spent
    <3> QED
      BY <3>1, <3>2
  <2>5. /\ DOMAIN pending \subseteq DOMAIN reversals
        /\ \A q \in DOMAIN pending : q # p => pending[q] = reversals[q]
        /\ p \in DOMAIN pending => r # "rejected" /\ (pending[p].closed => p \notin open)
    <3>1. \A q \in DOMAIN reversals : reversals[q] \in PendingReverse
      BY DEF TypeOK, ReversalsType
    <3>2. CASE r = "rejected"
      BY <3>2 DEF Without
    <3>3. CASE r # "rejected"
      <4>1. DOMAIN pending = DOMAIN reversals /\ \A q \in DOMAIN pending : q # p => pending[q] = reversals[q]
        BY <3>3
      <4>2. p \in DOMAIN pending => (pending[p].closed => reversals[p].closed \/ r = "filled")
        BY <3>1, <3>3 DEF PendingReverse
      <4>3. r = "filled" => p \notin open
        BY <2>1 DEF Reversing, Final, Closing
      <4>4. p \in DOMAIN reversals => (reversals[p].closed => p \notin open)
        BY DEF Reversing, Final
      <4> QED
        BY <3>3, <4>1, <4>2, <4>3, <4>4
    <3> QED
      BY <3>2, <3>3
  <2> HIDE DEF pending, r1, p, r
  <2>6. \A q \in ready : q = p /\ q \in DOMAIN pending /\ pending[q].closed
    BY DEF Ready
  <2>7. \A q \in DOMAIN reversals' : q \in DOMAIN pending /\ q \notin ready /\ reversals'[q] = pending[q]
    BY <2>2 DEF Without
  <2>8. ASSUME NEW q \in DOMAIN reversals'
        PROVE  /\ q \notin ready
               /\ reversals'[q].closed => q \notin open
               /\ reversals'[q].acknowledged => Spent(r1, q) /\ (q \in cancelled \/ q \notin open \ closing)
    <3>1. CASE q = p
      BY <2>4, <2>5, <2>7, <3>1
    <3>2. CASE q # p
      <4>1. q \in DOMAIN reversals /\ reversals'[q] = reversals[q] /\ q \notin ready /\ q \in Positions
        BY <2>5, <2>7, <3>2 DEF TypeOK, ReversalsType
      <4>2. reversals[q].closed => q \notin open
        BY <4>1 DEF Reversing, Final
      <4>3. ASSUME reversals[q].acknowledged, q \notin cancelled
            PROVE  q \notin open \ closing /\ Acked(rpc, q) = {} /\ Made(orders, q) = {}
        BY <4>1, <4>3 DEF Reversing, OnceFor, Acknowledged
      <4>4. Acked(r1, q) \subseteq Acked(rpc, q)
        BY <2>3 DEF Acked
      <4> QED
        BY <4>1, <4>2, <4>3, <4>4 DEF Spent
    <3> QED
      BY <3>1, <3>2
  <2>9. \A q \in ready : q \notin open /\ Spent(r1, q)
    BY <2>4, <2>5, <2>6
  <2>10. ready \in SUBSET Positions
    BY <2>1, <2>6
  <2>11. EventsTell(events') /\ LoadsTell(loads')
    BY <2>2, <1>c
  <2> HIDE DEF ready
  <2> QED
    BY <2>2, <2>3, <2>8, <2>9, <2>10, <2>11, HandledKeepsReversing
<1>17. ASSUME NEW c \in DOMAIN rpc, AnswerNotClosed(c) PROVE Reversing'
  BY <1>17, <1>d, <1>q, <1>r, <1>t, <1>u DEF AnswerNotClosed, brokerVars
<1>18. ASSUME NEW c \in DOMAIN rpc, AnswerChanged(c) PROVE Reversing'
  BY <1>18, <1>q, <1>r, <1>t DEF AnswerChanged, orderVars, reverseVars, syncVars, brokerVars
<1>19. ASSUME NEW c \in DOMAIN rpc, AnswerNotChanged(c) PROVE Reversing'
  BY <1>19, <1>d, <1>q, <1>r, <1>t DEF AnswerNotChanged, reverseVars, brokerVars
<1>20. ASSUME NEW t \in timers, GiveUp(t) \/ TimerIdle(t) PROVE Reversing'
  BY <1>20, <1>d, <1>q, <1>r DEF GiveUp, TimerIdle, orderVars, reverseVars, syncVars, brokerVars
<1>w. events # <<>> /\ events' = Tail(events) => EventsTell(events')
  BY <1>c DEF EventsTell
<1>21. CASE OnOrderEvent
  <2>1. QuietOrders
    BY <1>21, <1>a DEF OnOrderEvent, QuietOrders, Order
  <2> QED
    BY <1>21, <1>w, <1>q, <1>r, <2>1 DEF OnOrderEvent, callVars, reverseVars, syncVars
<1>22. CASE OnCancelEvent
  BY <1>22, <1>w, <1>q, <1>r, <1>u DEF OnCancelEvent, callVars, orderVars, syncVars
<1>h. ASSUME NEW rs, NEW S, DOMAIN rs \subseteq DOMAIN reversals,
             \A p \in DOMAIN rs : /\ rs[p].closed => p \notin open
                                  /\ rs[p].acknowledged => reversals[p].acknowledged,
             S \subseteq {p \in DOMAIN rs : rs[p].acknowledged /\ rs[p].closed},
             PlaceReverses(S, busy, calls, rpc), reversals' = Without(rs, S),
             UNCHANGED <<open, closing, cancelled>>, EventsTell(events'), LoadsTell(loads')
      PROVE  Reversing'
  <2>1. ASSUME NEW p \in DOMAIN rs, rs[p].acknowledged
        PROVE  Spent(rpc, p) /\ (p \in cancelled \/ p \notin open \ closing)
    <3>1. p \in Positions /\ Acknowledged(reversals, p)
      BY <1>h, <2>1 DEF TypeOK, ReversalsType, Acknowledged
    <3>2. p \notin cancelled => OnceFor(p)
      BY <3>1 DEF Reversing
    <3> QED
      BY <3>1, <3>2 DEF OnceFor, Spent
  <2>2. \A p \in S : p \in Positions /\ p \notin open /\ Spent(rpc, p)
    BY <1>h, <2>1 DEF TypeOK, ReversalsType
  <2>3. \A p \in DOMAIN reversals' : p \in DOMAIN rs /\ p \notin S /\ reversals'[p] = rs[p]
    BY <1>h DEF Without
  <2>4. S \in SUBSET Positions
    BY <2>2
  <2> QED
    BY <1>h, <2>1, <2>2, <2>3, <2>4, HandledKeepsReversing
<1>p. \A p \in DOMAIN reversals : reversals[p] \in PendingReverse /\ (reversals[p].closed => p \notin open)
  BY DEF TypeOK, ReversalsType, Reversing, Final
<1>23. CASE OnClosedEvent
  <2> DEFINE p == Head(events).position
             pending == [q \in DOMAIN reversals |->
                           IF q = p THEN [reversals[q] EXCEPT !.closed = TRUE] ELSE reversals[q]]
             ready == Ready(pending) \cap {p}
  <2>1. /\ PlaceReverses(ready, busy, calls, rpc) /\ reversals' = Without(pending, ready)
        /\ events # <<>> /\ events' = Tail(events) /\ Head(events).type = "closed"
        /\ UNCHANGED <<loads, open, closing, cancelled>>
    BY <1>23 DEF OnClosedEvent
  <2>2. p \notin open
    BY <1>c, <2>1 DEF EventsTell
  <2>3. /\ DOMAIN pending = DOMAIN reversals
        /\ \A q \in DOMAIN pending : /\ pending[q].closed => q \notin open
                                     /\ pending[q].acknowledged => reversals[q].acknowledged
    BY <1>p, <2>2 DEF PendingReverse
  <2>4. ready \subseteq {q \in DOMAIN pending : pending[q].acknowledged /\ pending[q].closed}
    BY DEF Ready
  <2>5. EventsTell(events') /\ LoadsTell(loads')
    BY <1>w, <1>r, <2>1
  <2> HIDE DEF pending, ready
  <2> QED
    BY <1>h, <2>1, <2>3, <2>4, <2>5
<1>24. ASSUME NEW l \in loads, LoadDone(l) PROVE Reversing'
  <2> DEFINE pending == [p \in DOMAIN reversals |->
                           IF p \in l.positions THEN reversals[p]
                                                ELSE [reversals[p] EXCEPT !.closed = TRUE]]
             ready == Ready(pending) \ l.positions
  <2>1. /\ PlaceReverses(ready, busy, calls, rpc) /\ reversals' = Without(pending, ready)
        /\ l.read /\ loads' = loads \ {l} /\ UNCHANGED <<open, closing, cancelled, events>>
    BY <1>24 DEF LoadDone, brokerVars
  <2>2. open \subseteq l.positions
    BY <1>c, <2>1 DEF LoadsTell
  <2>3. /\ DOMAIN pending = DOMAIN reversals
        /\ \A q \in DOMAIN pending : /\ pending[q].closed => q \notin open
                                     /\ pending[q].acknowledged => reversals[q].acknowledged
    BY <1>p, <2>2 DEF PendingReverse
  <2>4. ready \subseteq {q \in DOMAIN pending : pending[q].acknowledged /\ pending[q].closed}
    BY DEF Ready
  <2>5. EventsTell(events') /\ LoadsTell(loads')
    BY <1>r, <2>1
  <2> HIDE DEF pending, ready
  <2> QED
    BY <1>h, <2>1, <2>3, <2>4, <2>5
<1>25. ASSUME NEW l \in loads, ReadAccount(l) PROVE Reversing'
  <2> DEFINE read == [l EXCEPT !.read = TRUE, !.positions = open,
                               !.working = {o \in OrderIds : orders[o].at = "working"},
                               !.filled  = {o \in OrderIds : orders[o].at = "filled"}]
  <2>1. loads' = (loads \ {l}) \cup {read}
    BY <1>25 DEF ReadAccount
  <2>2. read.positions = open
    BY DEF TypeOK, SyncType, Load
  <2> HIDE DEF read
  <2>3. LoadsTell(loads')
    BY <1>c, <2>1, <2>2 DEF LoadsTell
  <2> QED
    BY <1>25, <1>q, <1>r, <2>3 DEF ReadAccount, callVars, orderVars, reverseVars, brokerVars
<1>26. ASSUME NEW l \in loads, LoadIgnored(l) PROVE Reversing'
  BY <1>26, <1>q, <1>r DEF LoadIgnored, callVars, orderVars, reverseVars, brokerVars
<1>27. ASSUME NEW w \in watches, WatchRechecks(w) PROVE Reversing'
  BY <1>27, <1>d, <1>q, <1>r DEF WatchRechecks, callVars, brokerVars
<1>28. ASSUME NEW w \in watches, WatchEnds(w) PROVE Reversing'
  BY <1>28, <1>q, <1>r, <1>u DEF WatchEnds, callVars, orderVars, syncVars, brokerVars
<1>29. CASE UNCHANGED vars
  BY <1>29, <1>q, <1>r DEF vars, callVars, orderVars, reverseVars, syncVars, brokerVars
<1> QED
  BY <1>1, <1>2, <1>3, <1>4, <1>5, <1>6, <1>7, <1>8, <1>9, <1>10, <1>11, <1>12, <1>13, <1>14,
     <1>15, <1>16, <1>17, <1>18, <1>19, <1>20, <1>21, <1>22, <1>23, <1>24, <1>25, <1>26, <1>27,
     <1>28, <1>29 DEF Next, User, Broker, Answer, OnEvent

\* The order that opens the other way is made for a position that is closed for good,
\* and once, unless the broker cancelled a close it had accepted (reverse.rs).
THEOREM ReversedAfterTheClose == Spec => []ReverseFollowsTheClose
<1>1. Init => Reversing
  <2> SUFFICES ASSUME Init PROVE Reversing
    OBVIOUS
  <2>1. /\ DOMAIN reversals = {} /\ DOMAIN rpc = {} /\ loads = {}
        /\ DOMAIN orders = {} /\ Len(events) = 0
    BY DEF Init, Empty
  <2> QED
    BY <2>1 DEF Reversing, Final, EventsTell, LoadsTell, OnceFor, Acked, Acknowledged, Made
<1>2. TypeOK /\ Reversing /\ [Next]_vars => Reversing'
  BY ReversingStep
<1>3. TypeOK /\ Reversing => ReverseFollowsTheClose
  <2> SUFFICES ASSUME TypeOK, Reversing, NEW o \in OrderIds, orders[o].from \in Positions
               PROVE  /\ orders[o].from \notin open
                      /\ \/ orders[o].from \in cancelled
                         \/ \A other \in OrderIds : orders[other].from = orders[o].from => other = o
    BY DEF ReverseFollowsTheClose
  <2>1. OrderIds = DOMAIN orders
    BY LenProperties DEF TypeOK, OrdersType, OrderIds
  <2>2. orders[o].from \notin open
    BY <2>1 DEF Reversing, Final
  <2>3. ASSUME orders[o].from \notin cancelled, NEW other \in OrderIds, orders[other].from = orders[o].from
        PROVE  other = o
    <3>1. OnceFor(orders[o].from)
      BY <2>3 DEF Reversing
    <3> QED
      BY <2>1, <2>3, <3>1 DEF OnceFor, Made
  <2> QED
    BY <2>2, <2>3
<1> QED
  BY <1>1, <1>2, <1>3, TypeCorrect, PTL DEF Spec

-----------------------------------------------------------------------------
(* The plans.  The order after another of its plan is sent once the broker   *)
(* took the one before: the queue holds what follows the order in flight, a  *)
(* call that was answered well is of an order that the broker took, and no   *)
(* order has two calls, so that nothing can refuse it later.                 *)

Taken == {"working", "filled", "rejected"}
Sending(r) == {c \in DOMAIN r : r[c].what = Placing}
Current == rpc[calls[Placing]].order

Planned ==
  /\ \A c, d \in Sending(rpc) : rpc[c].order = rpc[d].order => c = d
  /\ \A c \in Sending(rpc) :
       /\ rpc[c].result = "out" => orders[rpc[c].order].at = "out"
       /\ rpc[c].result \in OkResults => orders[rpc[c].order].at \in Taken
  /\ \A o, next \in DOMAIN orders :
       orders[o].plan = orders[next].plan /\ o < next /\ orders[next].at # "waiting" =>
         orders[o].at \in Taken
  /\ \A o \in DOMAIN orders : orders[o].plan \in DOMAIN orders
  /\ queue # <<>> => \A i \in 1 .. Len(queue) : /\ queue[i] = Current + i
                                                /\ orders[queue[i]].plan = orders[Current].plan

LEMMA OrdersAre ==
  ASSUME TypeOK
  PROVE  /\ orders \in Seq(Order) /\ Len(orders) \in Nat /\ DOMAIN orders = 1 .. Len(orders)
         /\ OrderIds = DOMAIN orders
         /\ \A o \in DOMAIN orders : orders[o] \in Order /\ orders[o].plan \in Nat
<1>1. orders \in Seq(Order)
  BY DEF TypeOK, OrdersType
<1>2. Len(orders) \in Nat /\ DOMAIN orders = 1 .. Len(orders) /\ \A o \in DOMAIN orders : orders[o] \in Order
  BY <1>1, LenProperties, ElementOfSeq
<1> QED
  BY <1>1, <1>2 DEF Order, OrderIds

LEMMA CurrentIsSent ==
  ASSUME Control, Unsent, Placing \in busy
  PROVE  calls[Placing] \in Sending(rpc) /\ Sent(orders, Current)
BY DEF Control, BusyHasItsCall, Unsent, Sending, Current

\* No order starts, and no call comes to another end than its order.
LEMMA QuietKeepsPlanned ==
  ASSUME TypeOK, Control, Planned, Unsent, DOMAIN orders' = DOMAIN orders,
         \A o \in DOMAIN orders :
           /\ orders'[o].plan = orders[o].plan
           /\ orders'[o].at = "waiting" <=> orders[o].at = "waiting"
           /\ orders[o].at \in Taken => orders'[o].at \in Taken,
         \A c \in Sending(rpc') :
           /\ c \in Sending(rpc) /\ rpc'[c].order = rpc[c].order
           /\ rpc'[c].result = "out" => orders'[rpc[c].order].at = "out"
           /\ rpc'[c].result \in OkResults => orders'[rpc[c].order].at \in Taken,
         queue' = <<>> \/ (queue' = queue /\ (queue # <<>> => Current' = Current))
  PROVE  Planned'
<1>1. /\ \A c, d \in Sending(rpc') : rpc'[c].order = rpc'[d].order => c = d
      /\ \A c \in Sending(rpc') :
           /\ rpc'[c].result = "out" => orders'[rpc'[c].order].at = "out"
           /\ rpc'[c].result \in OkResults => orders'[rpc'[c].order].at \in Taken
  BY DEF Planned
<1>2. /\ \A o, next \in DOMAIN orders' :
           orders'[o].plan = orders'[next].plan /\ o < next /\ orders'[next].at # "waiting" =>
             orders'[o].at \in Taken
      /\ \A o \in DOMAIN orders' : orders'[o].plan \in DOMAIN orders'
  BY DEF Planned
<1>3. queue' # <<>> => \A i \in 1 .. Len(queue') : /\ queue'[i] = Current' + i
                                                   /\ orders'[queue'[i]].plan = orders'[Current'].plan
  <2> SUFFICES ASSUME queue' # <<>>, NEW i \in 1 .. Len(queue')
               PROVE  queue'[i] = Current' + i /\ orders'[queue'[i]].plan = orders'[Current'].plan
    OBVIOUS
  <2>1. queue' = queue /\ Current' = Current
    OBVIOUS
  <2>2. queue[i] = Current + i /\ orders[queue[i]].plan = orders[Current].plan /\ queue[i] \in DOMAIN orders
    BY <2>1 DEF Planned, Unsent
  <2>3. Current \in DOMAIN orders
    BY <2>1, CurrentIsSent DEF Control, QueueWaitsForAnswer, Sent
  <2> QED
    BY <2>1, <2>2, <2>3
<1> QED
  BY <1>1, <1>2, <1>3 DEF Planned

\* A call for order o, which was never sent, once the tasks r1 are left.
LEMMA StartPlanned ==
  ASSUME TypeOK, Planned, Unsent, NEW o, NEW held, NEW c1, NEW r1,
         DOMAIN r1 \subseteq DOMAIN rpc, \A c \in DOMAIN r1 : r1[c] = rpc[c],
         Start(Placing, o, held, c1, r1), ~Sent(orders, o), orders'[o].at = "out",
         \A d \in DOMAIN orders : Sent(orders, d) => orders'[d].at = orders[d].at
  PROVE  /\ \A c, d \in Sending(rpc') : rpc'[c].order = rpc'[d].order => c = d
         /\ \A c \in Sending(rpc') :
              /\ rpc'[c].result = "out" => orders'[rpc'[c].order].at = "out"
              /\ rpc'[c].result \in OkResults => orders'[rpc'[c].order].at \in Taken
         /\ Current' = o
<1>1. call_seq \in Nat /\ DOMAIN rpc \subseteq 1 .. call_seq
  BY DEF TypeOK, CallsType
<1>2. /\ DOMAIN rpc' = DOMAIN r1 \cup {call_seq + 1} /\ rpc'[call_seq + 1].order = o
      /\ rpc'[call_seq + 1].result = "out"
      /\ \A c \in DOMAIN r1 : rpc'[c] = rpc[c]
      /\ calls'[Placing] = call_seq + 1
  BY <1>1 DEF Start, Put
<1>3. \A c \in Sending(rpc') : c = call_seq + 1 \/ (c \in Sending(rpc) /\ rpc'[c] = rpc[c])
  BY <1>2 DEF Sending
<1>4. \A c \in Sending(rpc) : Sent(orders, rpc[c].order)
  BY DEF Sending, Unsent
<1>5. \A c \in Sending(rpc) : rpc[c].order # o /\ orders'[rpc[c].order].at = orders[rpc[c].order].at
  BY <1>4 DEF Sent
<1>6. Current' = o
  BY <1>2 DEF Current
<1>7. OkResults = {"accepted", "filled", "rejected"}
  BY DEF OkResults
<1> QED
  BY <1>2, <1>3, <1>5, <1>6, <1>7 DEF Planned

\* One more order, which is a plan of its own.
LEMMA AppendKeepsPlanned ==
  ASSUME TypeOK, Planned, Unsent, NEW e, e.at = "out", e.plan = Len(orders) + 1,
         orders' = Append(orders, e), queue' = <<>>, NEW held, NEW c1, NEW r1,
         DOMAIN r1 \subseteq DOMAIN rpc, \A c \in DOMAIN r1 : r1[c] = rpc[c],
         Start(Placing, Len(orders) + 1, held, c1, r1)
  PROVE  Planned'
<1>1. Len(orders) \in Nat /\ DOMAIN orders = 1 .. Len(orders) /\ orders \in Seq(Order)
      /\ \A o \in DOMAIN orders : orders[o].plan \in Nat
  BY OrdersAre
<1>2. /\ DOMAIN orders' = 1 .. Len(orders) + 1 /\ orders'[Len(orders) + 1] = e
      /\ \A i \in 1 .. Len(orders) : orders'[i] = orders[i]
  BY <1>1
<1>3. ~Sent(orders, Len(orders) + 1)
  BY <1>1 DEF Sent
<1>4. /\ \A c, d \in Sending(rpc') : rpc'[c].order = rpc'[d].order => c = d
      /\ \A c \in Sending(rpc') :
           /\ rpc'[c].result = "out" => orders'[rpc'[c].order].at = "out"
           /\ rpc'[c].result \in OkResults => orders'[rpc'[c].order].at \in Taken
  BY <1>1, <1>2, <1>3, StartPlanned
<1>5. \A o \in DOMAIN orders' : orders'[o].plan \in DOMAIN orders'
  BY <1>1, <1>2 DEF Planned
<1>6. ASSUME NEW o \in DOMAIN orders', NEW next \in DOMAIN orders',
             orders'[o].plan = orders'[next].plan, o < next, orders'[next].at # "waiting"
      PROVE  orders'[o].at \in Taken
  <2>1. o \in DOMAIN orders
    BY <1>1, <1>2, <1>6
  <2>2. next \in DOMAIN orders
    BY <1>1, <1>2, <1>6, <2>1 DEF Planned
  <2> QED
    BY <1>1, <1>2, <1>6, <2>1, <2>2 DEF Planned
<1> QED
  BY <1>4, <1>5, <1>6 DEF Planned

LEMMA PlaceReversesKeepsPlanned ==
  ASSUME TypeOK, Control, Planned, Unsent, NEW ready, NEW held, NEW c1, NEW r1,
         DOMAIN r1 \subseteq DOMAIN rpc, \A c \in DOMAIN r1 : r1[c] = rpc[c],
         Placing \in busy => Placing \in held /\ r1[c1[Placing]] = rpc[calls[Placing]],
         PlaceReverses(ready, held, c1, r1), UNCHANGED queue
  PROVE  Planned'
<1>1. CASE calls' = c1 /\ rpc' = r1 /\ UNCHANGED orders
  <2>1. queue # <<>> => Current' = Current
    BY <1>1 DEF Current, Control, QueueWaitsForAnswer
  <2>2. \A c \in Sending(rpc') : c \in Sending(rpc) /\ rpc'[c] = rpc[c]
    BY <1>1 DEF Sending
  <2> QED
    BY <1>1, <2>1, <2>2, QuietKeepsPlanned DEF Planned
<1>2. CASE /\ Placing \notin held
           /\ \E p \in ready :
                /\ orders' = Append(orders, NewOrder(ReverseShape[p], p, Len(orders) + 1, "out"))
                /\ Start(Placing, Len(orders) + 1, held, c1, r1)
  <2>1. PICK e : /\ e.at = "out" /\ e.plan = Len(orders) + 1 /\ orders' = Append(orders, e)
                 /\ Start(Placing, Len(orders) + 1, held, c1, r1)
    BY <1>2 DEF NewOrder
  <2>2. queue' = <<>>
    BY <1>2 DEF Control, QueueWaitsForAnswer
  <2> QED
    BY <2>1, <2>2, AppendKeepsPlanned
<1> QED
  BY <1>1, <1>2 DEF PlaceReverses

\* The next of a plan goes out after an answer that took the one before.
LEMMA NextKeepsPlanned ==
  ASSUME TypeOK, Control, Planned, Unsent, NEW c \in DOMAIN rpc,
         rpc[c].what = Placing, rpc[c].result \in OkResults,
         Placing \notin Held(c), queue # <<>>, SendNext(c)
  PROVE  Planned'
<1> DEFINE h == Head(queue)
<1>1. Placing \in busy /\ calls[Placing] = c /\ Current = rpc[c].order /\ c \in Sending(rpc)
  BY DEF Control, QueueWaitsForAnswer, Held, IsNewest, Current, Sending
<1>2. queue \in Seq(Nat) /\ Len(queue) \in Nat \ {0} /\ h = queue[1] /\ 1 \in 1 .. Len(queue)
  BY LenProperties DEF TypeOK, OrdersType
<1>3. Sent(orders, Current) /\ orders[Current].at \in Taken /\ Current \in DOMAIN orders
  BY <1>1, CurrentIsSent DEF Planned, Sent
<1>4. /\ h = Current + 1 /\ h \in DOMAIN orders /\ orders[h].at = "waiting"
      /\ orders[h].plan = orders[Current].plan
  BY <1>2 DEF Planned, Unsent
<1>5. /\ orders' = [orders EXCEPT ![Current].answered = Heard(c), ![h].at = "out"]
      /\ queue' = Tail(queue) /\ Start(Placing, h, Held(c), Kept(c), Without(rpc, {c}))
  BY <1>1 DEF SendNext
<1> HIDE DEF h
<1>6. /\ DOMAIN orders' = DOMAIN orders /\ orders'[h].at = "out"
      /\ \A o \in DOMAIN orders : orders'[o].plan = orders[o].plan
      /\ \A o \in DOMAIN orders \ {h} : orders'[o].at = orders[o].at
  BY <1>4, <1>5, OrdersAre DEF Order
<1>7. /\ DOMAIN Without(rpc, {c}) \subseteq DOMAIN rpc
      /\ \A d \in DOMAIN Without(rpc, {c}) : Without(rpc, {c})[d] = rpc[d]
  BY DEF Without
<1>8. ~Sent(orders, h) /\ \A d \in DOMAIN orders : Sent(orders, d) => orders'[d].at = orders[d].at
  BY <1>4, <1>6 DEF Sent
<1>9. /\ \A d, e \in Sending(rpc') : rpc'[d].order = rpc'[e].order => d = e
      /\ \A d \in Sending(rpc') :
           /\ rpc'[d].result = "out" => orders'[rpc'[d].order].at = "out"
           /\ rpc'[d].result \in OkResults => orders'[rpc'[d].order].at \in Taken
      /\ Current' = h
  <2>1. PICK held, c1, r1 : /\ Start(Placing, h, held, c1, r1)
                            /\ DOMAIN r1 \subseteq DOMAIN rpc /\ \A d \in DOMAIN r1 : r1[d] = rpc[d]
    BY <1>5, <1>7
  <2> QED
    BY <1>6, <1>8, <2>1, StartPlanned
<1>10. ASSUME NEW o \in DOMAIN orders', NEW next \in DOMAIN orders',
              orders'[o].plan = orders'[next].plan, o < next, orders'[next].at # "waiting"
       PROVE  orders'[o].at \in Taken
  <2>1. o \in DOMAIN orders /\ next \in DOMAIN orders /\ orders[o].plan = orders[next].plan
        /\ o \in Nat /\ Current \in Nat
    BY <1>3, <1>6, <1>10, OrdersAre
  <2>2. CASE next = h
    <3>1. o < Current \/ o = Current
      BY <1>4, <1>10, <2>1, <2>2
    <3>2. orders[o].at \in Taken
      BY <1>3, <1>4, <2>1, <2>2, <3>1 DEF Planned, Sent
    <3> QED
      BY <1>4, <1>6, <2>1, <3>1, <3>2
  <2>3. CASE next # h
    <3>1. orders[o].at \in Taken
      BY <1>6, <1>10, <2>1, <2>3 DEF Planned
    <3> QED
      BY <1>4, <1>6, <2>1, <3>1 DEF Taken
  <2> QED
    BY <2>2, <2>3
<1>11. \A o \in DOMAIN orders' : orders'[o].plan \in DOMAIN orders'
  BY <1>6 DEF Planned
<1>12. ASSUME NEW i \in 1 .. Len(queue')
       PROVE  queue'[i] = Current' + i /\ orders'[queue'[i]].plan = orders'[Current'].plan
  <2>1. i \in Nat /\ i + 1 \in 1 .. Len(queue) /\ queue'[i] = queue[i + 1]
    BY <1>2, <1>5, <1>12
  <2>2. /\ queue[i + 1] = Current + (i + 1) /\ orders[queue[i + 1]].plan = orders[Current].plan
        /\ queue[i + 1] \in DOMAIN orders
    BY <1>2, <2>1 DEF Planned, Unsent
  <2>3. Current \in Nat
    BY <1>3, OrdersAre
  <2> QED
    BY <1>4, <1>6, <1>9, <2>1, <2>2, <2>3
<1> QED
  BY <1>9, <1>10, <1>11, <1>12 DEF Planned

\* A plan is given its orders: the first goes out, the others follow it in the queue.
LEMMA PlanKeepsPlanned ==
  ASSUME TypeOK, Planned, Unsent, NEW plan \in Plans, UserPlacesPlan(plan)
  PROVE  Planned'
<1> DEFINE k == Len(orders)
           n == Len(plan)
           made == PlanOrders(plan)
<1>1. /\ orders \in Seq(Order) /\ k \in Nat /\ DOMAIN orders = 1 .. k /\ Len(orders) = k
      /\ \A o \in DOMAIN orders : orders[o].plan \in Nat
  BY OrdersAre
<1>2. n \in Nat /\ n >= 2 /\ made \in Seq(Order) /\ Len(made) = n
  BY PlanOrdersType
<1>3. \A i \in 1 .. n : made[i].plan = k + 1 /\ made[i].at = IF i = 1 THEN "out" ELSE "waiting"
  BY PlanOrdersType DEF PlanOrders, NewOrder
<1>4. /\ orders' = orders \o made /\ queue' = [i \in 1 .. n - 1 |-> k + 1 + i]
      /\ Start(Placing, k + 1, busy, calls, rpc)
  BY DEF UserPlacesPlan
<1> HIDE DEF k, n, made
<1>5. /\ DOMAIN orders' = 1 .. k + n
      /\ \A o \in 1 .. k : orders'[o] = orders[o]
      /\ \A o \in k + 1 .. k + n : orders'[o].plan = k + 1
      /\ orders'[k + 1].at = "out" /\ \A o \in k + 2 .. k + n : orders'[o].at = "waiting"
  <2>1. Len(orders \o made) = k + n /\ orders \o made \in Seq(Order)
        /\ \A o \in 1 .. k + n : (orders \o made)[o] = IF o <= k THEN orders[o] ELSE made[o - k]
    BY <1>1, <1>2, ConcatProperties
  <2>2. DOMAIN orders' = 1 .. k + n
    BY <1>4, <2>1, LenProperties
  <2>3. ASSUME NEW o \in 1 .. k PROVE orders'[o] = orders[o]
    BY <1>1, <1>2, <1>4, <2>1
  <2>4. ASSUME NEW o \in k + 1 .. k + n
        PROVE  /\ orders'[o].plan = k + 1
               /\ orders'[o].at = IF o = k + 1 THEN "out" ELSE "waiting"
    <3>1. o \in 1 .. k + n /\ ~(o <= k) /\ o - k \in 1 .. n /\ (o - k = 1 <=> o = k + 1)
      BY <1>1, <1>2
    <3>2. orders'[o] = made[o - k]
      BY <1>4, <2>1, <3>1
    <3> QED
      BY <1>3, <3>1, <3>2
  <2>5. k + 1 \in k + 1 .. k + n /\ \A o \in k + 2 .. k + n : o \in k + 1 .. k + n /\ o # k + 1
    BY <1>1, <1>2
  <2> QED
    BY <2>2, <2>3, <2>4, <2>5
<1>6. ~Sent(orders, k + 1)
  BY <1>1 DEF Sent
<1>7. /\ \A c, d \in Sending(rpc') : rpc'[c].order = rpc'[d].order => c = d
      /\ \A c \in Sending(rpc') :
           /\ rpc'[c].result = "out" => orders'[rpc'[c].order].at = "out"
           /\ rpc'[c].result \in OkResults => orders'[rpc'[c].order].at \in Taken
      /\ Current' = k + 1
  BY <1>1, <1>4, <1>5, <1>6, StartPlanned
<1>8. ASSUME NEW o \in DOMAIN orders', NEW next \in DOMAIN orders',
             orders'[o].plan = orders'[next].plan, o < next, orders'[next].at # "waiting"
      PROVE  orders'[o].at \in Taken
  <2>1. next \in 1 .. k \/ next = k + 1
    BY <1>1, <1>2, <1>5, <1>8
  <2>2. o \in 1 .. k
    BY <1>1, <1>2, <1>5, <1>8, <2>1
  <2>3. orders'[o] = orders[o] /\ orders[o].plan \in Nat /\ orders[o].plan <= k
    BY <1>1, <1>5, <2>2 DEF Planned
  <2>4. next # k + 1
    <3>1. next = k + 1 => orders'[next].plan = k + 1
      BY <1>1, <1>2, <1>5
    <3> QED
      BY <1>1, <1>8, <2>3, <3>1
  <2> QED
    BY <1>1, <1>5, <1>8, <2>1, <2>2, <2>3, <2>4 DEF Planned
<1>9. \A o \in DOMAIN orders' : orders'[o].plan \in DOMAIN orders'
  <2>1. \A o \in 1 .. k : orders[o].plan \in Nat /\ orders[o].plan <= k
    BY <1>1 DEF Planned
  <2>2. \A o \in 1 .. k + n : o \in 1 .. k \/ o \in k + 1 .. k + n
    BY <1>1, <1>2
  <2>3. k + 1 \in 1 .. k + n /\ \A p \in 1 .. k : p \in 1 .. k + n
    BY <1>1, <1>2
  <2> QED
    BY <1>1, <1>5, <2>1, <2>2, <2>3 DEF Planned
<1>10. ASSUME NEW i \in 1 .. Len(queue')
       PROVE  queue'[i] = Current' + i /\ orders'[queue'[i]].plan = orders'[Current'].plan
  <2>1. Len(queue') = n - 1 /\ i \in 1 .. n - 1
    BY <1>2, <1>4, <1>10
  <2>2. queue'[i] = k + 1 + i /\ k + 1 + i \in k + 1 .. k + n /\ k + 1 \in k + 1 .. k + n
    BY <1>1, <1>2, <1>4, <2>1
  <2> QED
    BY <1>5, <1>7, <2>2
<1> QED
  BY <1>7, <1>8, <1>9, <1>10 DEF Planned

LEMMA PlannedStep ==
  TypeOK /\ Control /\ Unsent /\ Planned /\ [Next]_vars => Planned'
<1> SUFFICES ASSUME TypeOK, Control, Unsent, Planned, [Next]_vars PROVE Planned'
  OBVIOUS
<1>a. /\ DOMAIN orders = OrderIds /\ \A o \in DOMAIN orders : orders[o] \in Order
  BY OrdersAre
<1>b. \A c \in DOMAIN rpc : rpc[c] \in Call
  BY DEF TypeOK, CallsType
<1>c. "out" \notin Taken /\ "waiting" \notin Taken /\ "out" \notin OkResults /\ OkResults = {"accepted", "filled", "rejected"}
  BY DEF Taken, OkResults
<1> DEFINE SameOrders ==
             /\ DOMAIN orders' = DOMAIN orders
             /\ \A o \in DOMAIN orders : orders'[o].plan = orders[o].plan /\ orders'[o].at = orders[o].at
           SameCalls ==
             \A c \in Sending(rpc') :
               /\ c \in Sending(rpc) /\ rpc'[c].order = rpc[c].order
               /\ rpc'[c].result = rpc[c].result \/ rpc'[c].result = "unknown"
           SameQueue == queue' = <<>> \/ (queue' = queue /\ (queue # <<>> => Current' = Current))
<1>q. ASSUME SameOrders, SameCalls, SameQueue PROVE Planned'
  <2>1. \A c \in Sending(rpc') :
          /\ rpc'[c].result = "out" => orders'[rpc[c].order].at = "out"
          /\ rpc'[c].result \in OkResults => orders'[rpc[c].order].at \in Taken
    BY <1>c, <1>q DEF Planned, Sending, Unsent, Sent
  <2> QED
    BY <1>q, <2>1, QuietKeepsPlanned
<1>r. /\ UNCHANGED orders => SameOrders
      /\ UNCHANGED rpc => SameCalls
      /\ UNCHANGED <<queue, calls, rpc>> => SameQueue
      /\ queue' = <<>> => SameQueue
  BY DEF Current
<1>s. ASSUME NEW what, what # Placing, Start(what, 0, busy, calls, rpc), UNCHANGED queue
      PROVE  SameCalls /\ SameQueue
  <2>1. call_seq \in Nat /\ DOMAIN rpc \subseteq 1 .. call_seq
    BY DEF TypeOK, CallsType
  <2>2. /\ DOMAIN rpc' = DOMAIN rpc \cup {call_seq + 1} /\ rpc'[call_seq + 1].what = what
        /\ \A c \in DOMAIN rpc : rpc'[c] = rpc[c]
        /\ \A b \in DOMAIN calls : b # what => calls'[b] = calls[b]
    BY <1>s, <2>1 DEF Start, Put
  <2>3. SameCalls
    BY <1>s, <2>2 DEF Sending
  <2>4. queue # <<>> => Current' = Current
    BY <1>s, <2>2 DEF Current, Control, QueueWaitsForAnswer, BusyHasItsCall
  <2> QED
    BY <1>s, <2>3, <2>4
<1>t. ASSUME NEW c \in DOMAIN rpc, Release(c) PROVE SameCalls
  BY <1>t DEF Release, Without, Sending
<1>u. ASSUME NEW c \in DOMAIN rpc, Release(c), UNCHANGED queue, queue # <<>> => Placing \in Held(c)
      PROVE  SameQueue
  <2>1. Placing \in Held(c) => Current' = Current
    BY <1>u, HeldOwns DEF Release, Current, Control
  <2> QED
    BY <1>u, <2>1
<1>v. ASSUME NEW c \in DOMAIN rpc, rpc[c].what # Placing
      PROVE  Placing \in busy => Placing \in Held(c)
  BY <1>v DEF Held
<1> HIDE DEF SameOrders, SameCalls, SameQueue
<1>1. ASSUME NEW s \in Shapes, UserPlaces(s) PROVE Planned'
  <2>1. PICK e : /\ e.at = "out" /\ e.plan = Len(orders) + 1 /\ orders' = Append(orders, e)
    BY <1>1 DEF UserPlaces, NewOrder
  <2>2. queue' = <<>> /\ Start(Placing, Len(orders) + 1, busy, calls, rpc)
    BY <1>1 DEF UserPlaces, Control, QueueWaitsForAnswer
  <2> QED
    BY <2>1, <2>2, AppendKeepsPlanned
<1>2. ASSUME NEW plan \in Plans, UserPlacesPlan(plan) PROVE Planned'
  BY <1>2, PlanKeepsPlanned
<1>3. ASSUME NEW p \in Positions, UserCloses(p) \/ UserReverses(p) PROVE Planned'
  <2>1. Closing(p) # Placing
    BY DEF Closing, Placing
  <2> QED
    BY <1>3, <1>q, <1>r, <1>s, <2>1 DEF UserCloses, UserReverses, orderVars
<1>4. ASSUME NEW x \in Changes, UserChanges(x) PROVE Planned'
  <2>1. Changing(x) # Placing
    BY DEF Changing, Placing
  <2> QED
    BY <1>4, <1>q, <1>r, <1>s, <2>1 DEF UserChanges, orderVars
<1>5. ASSUME NEW on \in BOOLEAN, SetKillSwitch(on) \/ SetReplay(on) PROVE Planned'
  BY <1>5, <1>q, <1>r DEF SetKillSwitch, SetReplay, callVars, orderVars
<1>6. ASSUME NEW c \in DOMAIN rpc, OrderReaches(c) PROVE Planned'
  <2> DEFINE o == rpc[c].order
  <2>1. PICK answer \in {"accepted", "filled", "rejected", "refused"} :
          /\ rpc' = [rpc EXCEPT ![c].result = answer]
          /\ orders' = [orders EXCEPT ![o].at = IF answer = "accepted" THEN "working" ELSE answer,
                                      ![o].late = placing # o]
    BY <1>6 DEF OrderReaches
  <2> DEFINE at == IF answer = "accepted" THEN "working" ELSE answer
  <2>2. c \in Sending(rpc) /\ o \in DOMAIN orders /\ orders[o].at = "out"
    BY <1>6 DEF OrderReaches, Sending, Planned, Unsent, Sent
  <2>3. at # "waiting" /\ at # "out" /\ (answer \in OkResults => at \in Taken)
    BY <1>c DEF Taken
  <2> HIDE DEF at, o
  <2>4. /\ DOMAIN orders' = DOMAIN orders /\ orders'[o].at = at
        /\ \A d \in DOMAIN orders : orders'[d].plan = orders[d].plan
        /\ \A d \in DOMAIN orders \ {o} : orders'[d].at = orders[d].at
    BY <1>a, <2>1, <2>2 DEF at, Order
  <2>5. /\ DOMAIN rpc' = DOMAIN rpc /\ rpc'[c].result = answer
        /\ \A d \in DOMAIN rpc : rpc'[d].what = rpc[d].what /\ rpc'[d].order = rpc[d].order
        /\ \A d \in DOMAIN rpc \ {c} : rpc'[d] = rpc[d]
    BY <1>b, <2>1 DEF Call
  <2>6. \A d \in Sending(rpc') :
          /\ d \in Sending(rpc) /\ rpc'[d].order = rpc[d].order
          /\ rpc'[d].result = "out" => orders'[rpc[d].order].at = "out"
          /\ rpc'[d].result \in OkResults => orders'[rpc[d].order].at \in Taken
    <3> SUFFICES ASSUME NEW d \in Sending(rpc')
                 PROVE  /\ d \in Sending(rpc) /\ rpc'[d].order = rpc[d].order
                        /\ rpc'[d].result = "out" => orders'[rpc[d].order].at = "out"
                        /\ rpc'[d].result \in OkResults => orders'[rpc[d].order].at \in Taken
      OBVIOUS
    <3>1. d \in Sending(rpc) /\ rpc'[d].order = rpc[d].order /\ rpc[d].order \in DOMAIN orders
      BY <2>5 DEF Sending, Unsent, Sent
    <3>2. CASE d = c
      BY <1>c, <2>3, <2>4, <2>5, <3>1, <3>2 DEF o
    <3>3. CASE d # c
      <4>1. rpc[d].order # o
        BY <2>2, <3>1, <3>3 DEF Planned, o
      <4> QED
        BY <2>4, <2>5, <3>1, <3>3, <4>1 DEF Planned, Sending
    <3> QED
      BY <3>2, <3>3
  <2>7. queue' = queue /\ (queue # <<>> => Current' = Current)
    <3>1. queue' = queue /\ calls' = calls
      BY <1>6 DEF OrderReaches
    <3>2. ASSUME queue # <<>> PROVE Current' = Current
      <4>1. calls[Placing] \in DOMAIN rpc
        BY <3>2 DEF Control, QueueWaitsForAnswer, BusyHasItsCall
      <4> QED
        BY <2>5, <3>1, <4>1 DEF Current
    <3> QED
      BY <3>1, <3>2
  <2>8. \A d \in DOMAIN orders :
          /\ orders'[d].plan = orders[d].plan
          /\ orders'[d].at = "waiting" <=> orders[d].at = "waiting"
          /\ orders[d].at \in Taken => orders'[d].at \in Taken
    BY <1>c, <2>2, <2>3, <2>4
  <2> HIDE DEF Current
  <2> QED
    BY <2>4, <2>6, <2>7, <2>8, QuietKeepsPlanned
<1>x. ASSUME NEW c \in DOMAIN rpc, rpc[c].what # Placing, UNCHANGED calls,
             \E answer : rpc' = [rpc EXCEPT ![c].result = answer]
      PROVE  SameCalls /\ (UNCHANGED queue => SameQueue)
  <2>1. PICK answer : rpc' = [rpc EXCEPT ![c].result = answer]
    BY <1>x
  <2>2. /\ DOMAIN rpc' = DOMAIN rpc
        /\ \A d \in DOMAIN rpc : rpc'[d].what = rpc[d].what /\ rpc'[d].order = rpc[d].order
        /\ \A d \in DOMAIN rpc \ {c} : rpc'[d] = rpc[d]
    BY <1>b, <2>1 DEF Call
  <2>3. SameCalls
    BY <1>x, <2>2 DEF Sending, SameCalls
  <2>4. queue # <<>> => calls[Placing] \in DOMAIN rpc
    BY DEF Control, QueueWaitsForAnswer, BusyHasItsCall
  <2> QED
    BY <1>x, <2>2, <2>3, <2>4 DEF Current, SameQueue
<1>y. ASSUME UNCHANGED calls, DOMAIN rpc' = DOMAIN rpc,
             \A d \in DOMAIN rpc : /\ rpc'[d].what = rpc[d].what /\ rpc'[d].order = rpc[d].order
                                   /\ rpc'[d].result = rpc[d].result \/ rpc'[d].result = "unknown"
      PROVE  SameCalls /\ (UNCHANGED queue => SameQueue)
  <2>1. SameCalls
    BY <1>y DEF Sending, SameCalls
  <2>2. queue # <<>> => calls[Placing] \in DOMAIN rpc
    BY DEF Control, QueueWaitsForAnswer, BusyHasItsCall
  <2> QED
    BY <1>y, <2>1, <2>2 DEF Current, SameQueue
<1>7. ASSUME NEW c \in DOMAIN rpc, CloseReaches(c) \/ ChangeReaches(c) PROVE Planned'
  <2>1. rpc[c].what # Placing /\ UNCHANGED <<calls, queue, orders>>
    BY <1>7 DEF CloseReaches, ChangeReaches, Placing, orderVars
  <2>2. \E answer : rpc' = [rpc EXCEPT ![c].result = answer]
    BY <1>7 DEF CloseReaches, ChangeReaches
  <2> QED
    BY <1>q, <1>r, <1>x, <2>1, <2>2
<1>8. ASSUME NEW c \in DOMAIN rpc, CallFails(c) PROVE Planned'
  <2>1. rpc' = [rpc EXCEPT ![c].result = "unknown"] /\ UNCHANGED <<calls, queue, orders>>
    BY <1>8 DEF CallFails, orderVars
  <2>2. /\ DOMAIN rpc' = DOMAIN rpc
        /\ \A d \in DOMAIN rpc : /\ rpc'[d].what = rpc[d].what /\ rpc'[d].order = rpc[d].order
                                 /\ rpc'[d].result = rpc[d].result \/ rpc'[d].result = "unknown"
    BY <1>b, <2>1 DEF Call
  <2> QED
    BY <1>q, <1>r, <1>y, <2>1, <2>2
<1>9. CASE SessionReady
  <2>1. PICK lost \in SUBSET {c \in DOMAIN rpc : rpc[c].result # "unknown"} :
          rpc' = [c \in DOMAIN rpc |->
                    IF c \in lost THEN [rpc[c] EXCEPT !.result = "unknown"] ELSE rpc[c]]
    BY <1>9 DEF SessionReady
  <2>2. /\ DOMAIN rpc' = DOMAIN rpc
        /\ \A d \in DOMAIN rpc : /\ rpc'[d].what = rpc[d].what /\ rpc'[d].order = rpc[d].order
                                 /\ rpc'[d].result = rpc[d].result \/ rpc'[d].result = "unknown"
    BY <1>b, <2>1 DEF Call
  <2>3. UNCHANGED <<calls, queue, orders>>
    BY <1>9 DEF SessionReady
  <2> QED
    BY <1>q, <1>r, <1>y, <2>2, <2>3
<1>z. ASSUME NEW o \in DOMAIN orders, NEW at, NEW late,
             orders' = [orders EXCEPT ![o].at = at, ![o].late = late],
             at # "waiting", UNCHANGED <<queue, calls, rpc>>,
             \/ orders[o].at = "out" /\ \A c \in Sending(rpc) : rpc[c].order = o => rpc[c].result = "unknown"
             \/ orders[o].at \in Taken /\ at \in Taken
      PROVE  Planned'
  <2>1. /\ DOMAIN orders' = DOMAIN orders /\ orders'[o].at = at
        /\ \A d \in DOMAIN orders : orders'[d].plan = orders[d].plan
        /\ \A d \in DOMAIN orders \ {o} : orders'[d].at = orders[d].at
    BY <1>a, <1>z DEF Order
  <2>2. \A d \in DOMAIN orders :
          /\ orders'[d].plan = orders[d].plan
          /\ orders'[d].at = "waiting" <=> orders[d].at = "waiting"
          /\ orders[d].at \in Taken => orders'[d].at \in Taken
    BY <1>c, <1>z, <2>1
  <2>3. \A d \in Sending(rpc) :
          /\ rpc[d].result = "out" => orders'[rpc[d].order].at = "out"
          /\ rpc[d].result \in OkResults => orders'[rpc[d].order].at \in Taken
    <3> SUFFICES ASSUME NEW d \in Sending(rpc)
                 PROVE  /\ rpc[d].result = "out" => orders'[rpc[d].order].at = "out"
                        /\ rpc[d].result \in OkResults => orders'[rpc[d].order].at \in Taken
      OBVIOUS
    <3>1. rpc[d].order \in DOMAIN orders
      BY DEF Sending, Unsent, Sent
    <3>2. CASE rpc[d].order = o
      BY <1>c, <1>z, <2>1, <3>2 DEF Planned
    <3>3. CASE rpc[d].order # o
      BY <2>1, <3>1, <3>3 DEF Planned
    <3> QED
      BY <3>2, <3>3
  <2>4. Current' = Current
    BY <1>z DEF Current
  <2> HIDE DEF Current
  <2> QED
    BY <1>z, <2>1, <2>2, <2>3, <2>4, QuietKeepsPlanned
<1>10. ASSUME NEW o \in OrderIds, LateArrival(o) PROVE Planned'
  <2>1. PICK at \in {"working", "filled", "rejected", "refused"} :
          orders' = [orders EXCEPT ![o].at = at, ![o].late = placing # o]
    BY <1>10 DEF LateArrival
  <2>2. orders[o].at = "out" /\ \A c \in Sending(rpc) : rpc[c].order = o => rpc[c].result = "unknown"
    BY <1>10 DEF LateArrival, Sending
  <2> QED
    BY <1>10, <1>a, <1>z, <2>1, <2>2 DEF LateArrival, callVars
<1>11. ASSUME NEW o \in OrderIds, BrokerFills(o) PROVE Planned'
  <2>1. orders' = [orders EXCEPT ![o].at = "filled"] /\ orders[o].at \in Taken /\ "filled" \in Taken
    BY <1>11 DEF BrokerFills, Taken
  <2>2. orders[o] = [orders[o] EXCEPT !.late = orders[o].late]
    BY <1>a DEF Order
  <2>3. orders' = [orders EXCEPT ![o].at = "filled", ![o].late = orders[o].late]
    BY <1>a, <2>1, <2>2 DEF Order
  <2> QED
    BY <1>11, <1>a, <1>z, <2>1, <2>3 DEF BrokerFills, callVars
<1>12. ASSUME NEW p \in Positions, BrokerCloses(p) \/ CloseFails(p) PROVE Planned'
  BY <1>12, <1>q, <1>r DEF BrokerCloses, CloseFails, callVars, orderVars
<1>d. ASSUME NEW c \in DOMAIN rpc, NEW h, orders' = [orders EXCEPT ![rpc[c].order].answered = h]
      PROVE  SameOrders
  BY <1>a, <1>d DEF SameOrders, Order
<1>13. ASSUME NEW c \in DOMAIN rpc, AnswerPlaced(c) PROVE Planned'
  <2>1. CASE Placing \notin Held(c) /\ queue # <<>>
    <3>1. SendNext(c) /\ rpc[c].what = Placing /\ rpc[c].result \in OkResults
      BY <1>13, <2>1 DEF AnswerPlaced
    <3> QED
      BY <2>1, <3>1, NextKeepsPlanned
  <2>2. CASE ~(Placing \notin Held(c) /\ queue # <<>>)
    <3>1. /\ orders' = [orders EXCEPT ![rpc[c].order].answered = Heard(c)]
          /\ Release(c) /\ UNCHANGED queue
      BY <1>13, <2>2 DEF AnswerPlaced
    <3> QED
      BY <1>d, <1>q, <1>t, <1>u, <2>2, <3>1
  <2> QED
    BY <2>1, <2>2
<1>14. ASSUME NEW c \in DOMAIN rpc, AnswerNotPlaced(c) PROVE Planned'
  <2>1. Release(c) /\ queue' = <<>>
    BY <1>14 DEF AnswerNotPlaced, DropQueue
  <2>2. SameOrders
    BY <1>14, <1>d, <1>r DEF AnswerNotPlaced
  <2> QED
    BY <1>q, <1>r, <1>t, <2>1, <2>2
<1>15. ASSUME NEW c \in DOMAIN rpc, AnswerClosing(c) PROVE Planned'
  <2>1. PICK ready : PlaceReverses(ready, Held(c), Kept(c), Without(rpc, {c}))
    BY <1>15 DEF AnswerClosing
  <2>2. rpc[c].what # Placing /\ UNCHANGED queue
    <3>1. rpc[c].what.kind = "closing" /\ UNCHANGED queue
      BY <1>15 DEF AnswerClosing
    <3> QED
      BY <3>1 DEF Placing
  <2>3. /\ DOMAIN Without(rpc, {c}) \subseteq DOMAIN rpc
        /\ \A d \in DOMAIN Without(rpc, {c}) : Without(rpc, {c})[d] = rpc[d]
    BY DEF Without
  <2>4. Placing \in busy => /\ Placing \in Held(c)
                            /\ Without(rpc, {c})[Kept(c)[Placing]] = rpc[calls[Placing]]
    BY <1>v, <2>2, HeldOwns DEF Control
  <2> QED
    BY <2>1, <2>2, <2>3, <2>4, PlaceReversesKeepsPlanned
<1>16. ASSUME NEW c \in DOMAIN rpc, AnswerNotClosed(c) \/ AnswerChanged(c) \/ AnswerNotChanged(c)
       PROVE  Planned'
  <2>1. rpc[c].what # Placing
    BY <1>16 DEF AnswerNotClosed, AnswerChanged, AnswerNotChanged, Placing
  <2>2. Release(c) /\ UNCHANGED <<queue, orders>>
    BY <1>16 DEF AnswerNotClosed, AnswerChanged, AnswerNotChanged, orderVars
  <2>3. queue # <<>> => Placing \in Held(c)
    BY <1>v, <2>1 DEF Control, QueueWaitsForAnswer
  <2> QED
    BY <1>q, <1>r, <1>t, <1>u, <2>2, <2>3
<1>17. ASSUME NEW t \in timers, GiveUp(t) \/ TimerIdle(t) PROVE Planned'
  BY <1>17, <1>q, <1>r DEF GiveUp, DropQueue, TimerIdle, orderVars
<1>18. CASE OnOrderEvent
  <2>1. SameOrders
    BY <1>18, <1>a DEF OnOrderEvent, SameOrders, Order
  <2> QED
    BY <1>18, <1>q, <1>r, <2>1 DEF OnOrderEvent, callVars
<1>19. CASE OnCancelEvent
  BY <1>19, <1>q, <1>r DEF OnCancelEvent, callVars, orderVars
<1>e. ASSUME NEW ready, PlaceReverses(ready, busy, calls, rpc), UNCHANGED queue PROVE Planned'
  BY <1>e, PlaceReversesKeepsPlanned
<1>20. CASE OnClosedEvent
  BY <1>20, <1>e DEF OnClosedEvent
<1>21. ASSUME NEW l \in loads, LoadDone(l) PROVE Planned'
  BY <1>21, <1>e DEF LoadDone
<1>22. ASSUME NEW l \in loads, ReadAccount(l) \/ LoadIgnored(l) PROVE Planned'
  BY <1>22, <1>q, <1>r DEF ReadAccount, LoadIgnored, callVars, orderVars
<1>23. ASSUME NEW w \in watches, WatchRechecks(w) \/ WatchEnds(w) PROVE Planned'
  BY <1>23, <1>q, <1>r DEF WatchRechecks, WatchEnds, callVars, orderVars
<1>24. CASE UNCHANGED vars
  BY <1>24, <1>q, <1>r DEF vars, callVars, orderVars
<1> QED
  BY <1>1, <1>2, <1>3, <1>4, <1>5, <1>6, <1>7, <1>8, <1>9, <1>10, <1>11, <1>12, <1>13, <1>14,
     <1>15, <1>16, <1>17, <1>18, <1>19, <1>20, <1>21, <1>22, <1>23, <1>24
     DEF Next, User, Broker, Answer, OnEvent

\* No order of a plan is sent after one the broker refused, whatever was lost, late or
\* given up before (orders.rs, place_batch: each order is sent once the one before it
\* is accepted).
THEOREM PlansStopAtARefusal == Spec => []PlanStopsAtARefusal
<1>1. Init => Control /\ Unsent /\ Planned
  <2> SUFFICES ASSUME Init PROVE Control /\ Unsent /\ Planned
    OBVIOUS
  <2>1. /\ DOMAIN calls = {} /\ DOMAIN rpc = {} /\ busy = {} /\ queue = <<>> /\ Len(queue) = 0
        /\ placing = 0 /\ replay = FALSE /\ DOMAIN orders = {}
    BY DEF Init, Empty
  <2>2. Control
    BY <2>1 DEF Control, BusyHasItsCall, QueueWaitsForAnswer, PlacingIsInFlight, ReplayLocksOrders
  <2>3. Unsent
    BY <2>1 DEF Unsent
  <2>4. Planned
    BY <2>1 DEF Planned, Sending
  <2> QED
    BY <2>2, <2>3, <2>4
<1>2. TypeOK /\ Control /\ Unsent /\ Planned /\ [Next]_vars => Control' /\ Unsent' /\ Planned'
  BY ControlStep, UnsentStep, PlannedStep
<1>3. TypeOK /\ Planned => PlanStopsAtARefusal
  <2> SUFFICES ASSUME TypeOK, Planned, NEW o \in OrderIds, NEW next \in OrderIds,
                      orders[o].plan = orders[next].plan, o < next, orders[o].at = "refused"
               PROVE  orders[next].at = "waiting"
    BY DEF PlanStopsAtARefusal
  <2> QED
    BY OrdersAre DEF Planned, Taken
<1> QED
  BY <1>1, <1>2, <1>3, TypeCorrect, PTL DEF Spec

-----------------------------------------------------------------------------
(* What the account says of the orders in doubt, and that it says it of all. *)

\* Working at the broker, or filled too, by a request that came while the account waited for it.
Works(os, o) == os[o].at = "working" /\ ~os[o].late
Here(os, o)  == os[o].at \in {"working", "filled"} /\ ~os[o].late

\* No such order comes to be, nor to work.
Stays(o) == (Here(orders', o) => Here(orders, o)) /\ (Works(orders', o) => Works(orders, o))

\* What is said to be missing does not work, and was filled only if nothing of it was read.
Truly(os, t) ==
  t.verdict = "missing" => ~Works(os, t.order) /\ (t.unread \/ ~Here(os, t.order))

\* A reading shows an order that is there.
Shows(l, os, o) ==
  /\ Works(os, o) => o \in l.working
  /\ Here(os, o) => o \in l.working \cup l.filled

\* What is told of was sent, and what is told to be missing is not the order in
\* flight; the reading that will settle the doubts saw all of them that are there.
Settled ==
  /\ \A t \in told : /\ Sent(orders, t.order) /\ Truly(orders, t)
                     /\ t.verdict = "missing" => t.order # placing
  /\ \A o \in in_doubt : Sent(orders, o) /\ o # placing
  /\ \A l \in loads : l.read /\ l.epoch = epoch =>
       \A o \in in_doubt : Shows(l, orders, o)

Spoken(o) == orders[o].answered = "heard" \/ o = placing \/ o \in in_doubt \/ \E t \in told : t.order = o

\* An order whose answer was late was sent and has no call left; until there is one,
\* every order that was sent is in flight, heard of, in doubt or told of.
Followed ==
  /\ \A o \in DOMAIN orders : orders[o].answered = "late" =>
       Sent(orders, o) /\ \A c \in Sending(rpc) : rpc[c].order # o
  /\ \/ \E o \in DOMAIN orders : orders[o].answered = "late"
     \/ \A o \in DOMAIN orders : Sent(orders, o) => Spoken(o)

\* Only the order in flight can come on the account unnoticed.
LEMMA KeepsSettled ==
  ASSUME TypeOK, Control, Unsent, Settled,
         \A o \in DOMAIN orders : Sent(orders, o) =>
           Sent(orders', o) /\ (o # placing => Stays(o)),
         \A t \in told' :
           \/ t \in told
           \/ t.order \in in_doubt /\ Truly(orders, t),
         \A o \in in_doubt' : o \in in_doubt \/ (o = placing /\ placing' = 0 /\ o # 0),
         placing' = placing \/ placing' = 0 \/ ~Sent(orders, placing'),
         \A l \in loads' : l.read /\ l.epoch = epoch' =>
           /\ in_doubt' \subseteq in_doubt
           /\ \A o \in in_doubt : Shows(l, orders, o)
  PROVE  Settled'
<1>1. \A o : Sent(orders, o) => o # 0 /\ o \in DOMAIN orders
  BY OrdersAre DEF Sent
<1>2. placing # 0 => Sent(orders, placing)
  BY CurrentIsSent DEF Control, PlacingIsInFlight, Current
<1>3. \A o : Sent(orders, o) /\ o # placing => o # placing'
  BY <1>1
<1>4. \A o \in in_doubt : Sent(orders, o) /\ o # placing
  BY DEF Settled
<1>5. \A t \in told' : /\ Sent(orders', t.order) /\ Truly(orders', t)
                       /\ t.verdict = "missing" => t.order # placing'
  BY <1>1, <1>3, <1>4 DEF Settled, Truly, Stays
<1>6. \A o \in in_doubt' : Sent(orders', o) /\ o # placing'
  BY <1>1, <1>2, <1>3, <1>4
<1>7. \A l \in loads' : l.read /\ l.epoch = epoch' =>
        \A o \in in_doubt' : Shows(l, orders', o)
  BY <1>1, <1>4 DEF Stays, Shows
<1> QED
  BY <1>5, <1>6, <1>7 DEF Settled

\* A call that starts is of an order never sent, and a late answer is the last one
\* of its order.
LEMMA KeepsFollowed ==
  ASSUME Unsent, Followed,
         \A o \in DOMAIN orders : /\ Sent(orders, o) => Sent(orders', o)
                                  /\ orders[o].answered = "late" => o \in DOMAIN orders' /\ orders'[o].answered = "late",
         \A o \in DOMAIN orders' : orders'[o].answered = "late" =>
           \/ o \in DOMAIN orders /\ orders[o].answered = "late"
           \/ Sent(orders', o) /\ \A c \in Sending(rpc') : rpc'[c].order # o,
         \A c \in Sending(rpc') :
           \/ c \in Sending(rpc) /\ rpc'[c].order = rpc[c].order
           \/ ~Sent(orders, rpc'[c].order),
         \/ \E o \in DOMAIN orders' : orders'[o].answered = "late"
         \/ \A o \in DOMAIN orders' : Sent(orders', o) => Spoken(o)' \/ (Sent(orders, o) /\ ~Spoken(o))
  PROVE  Followed'
<1>1. \A o \in DOMAIN orders' : orders'[o].answered = "late" =>
        Sent(orders', o) /\ \A c \in Sending(rpc') : rpc'[c].order # o
  BY DEF Followed
<1>2. \/ \E o \in DOMAIN orders' : orders'[o].answered = "late"
      \/ \A o \in DOMAIN orders' : Sent(orders', o) => Spoken(o)'
  <2>1. CASE \E o \in DOMAIN orders : orders[o].answered = "late"
    BY <2>1
  <2>2. CASE \A o \in DOMAIN orders : Sent(orders, o) => Spoken(o)
    BY <2>2 DEF Sent
  <2> QED
    BY <2>1, <2>2 DEF Followed
<1> QED
  BY <1>1, <1>2 DEF Followed

\* The order in flight is the one of the call in flight, and orders are numbered.
LEMMA PlacingIsSent ==
  ASSUME TypeOK, Control, Unsent
  PROVE  /\ Placing \notin busy => placing = 0
         /\ \A c \in Sending(rpc) : Sent(orders, rpc[c].order)
         /\ \A c \in DOMAIN rpc : IsNewest(Placing, c) => placing \in {0, rpc[c].order}
         /\ \A o : Sent(orders, o) => o # 0 /\ o \in DOMAIN orders
         /\ placing # 0 => Sent(orders, placing)
<1>1. Placing \notin busy => placing = 0
  BY DEF Control, PlacingIsInFlight
<1>2. \A c \in Sending(rpc) : Sent(orders, rpc[c].order)
  BY DEF Sending, Unsent
<1>3. \A c \in DOMAIN rpc : IsNewest(Placing, c) => placing \in {0, rpc[c].order}
  BY DEF Control, PlacingIsInFlight, IsNewest
<1>4. \A o : Sent(orders, o) => o # 0 /\ o \in DOMAIN orders
  BY OrdersAre DEF Sent
<1>5. placing # 0 => Sent(orders, placing)
  BY CurrentIsSent DEF Control, PlacingIsInFlight, Current
<1> QED
  BY <1>1, <1>2, <1>3, <1>4, <1>5

\* New orders after those there are, the first of them sent by a call that starts, when
\* nothing is in flight.
LEMMA NewOrdersKeep ==
  ASSUME TypeOK, Control, Unsent, Settled, Followed, placing = 0,
         NEW made, NEW held, NEW c1, NEW r1,
         DOMAIN r1 \subseteq DOMAIN rpc, \A c \in DOMAIN r1 : r1[c] = rpc[c],
         DOMAIN orders \subseteq DOMAIN orders', \A o \in DOMAIN orders : orders'[o] = orders[o],
         \A o \in DOMAIN orders' \ DOMAIN orders :
           orders'[o].answered = "nothing" /\ (orders'[o].at # "waiting" => o = made),
         made \notin DOMAIN orders, placing' = made, Start(Placing, made, held, c1, r1),
         \A t \in told' :
           \/ t \in told
           \/ t.order \in in_doubt /\ Truly(orders, t),
         told \subseteq told', in_doubt' \subseteq in_doubt,
         \A o \in in_doubt : o \in in_doubt' \/ \E t \in told' : t.order = o,
         loads' \subseteq loads, UNCHANGED epoch
  PROVE  Settled' /\ Followed'
<1>1. call_seq \in Nat /\ DOMAIN rpc \subseteq 1 .. call_seq
  BY DEF TypeOK, CallsType
<1>2. /\ DOMAIN rpc' = DOMAIN r1 \cup {call_seq + 1} /\ rpc'[call_seq + 1].order = made
      /\ \A c \in DOMAIN r1 : rpc'[c] = rpc[c]
  BY <1>1 DEF Start, Put
<1>3. \A o \in DOMAIN orders : Sent(orders, o) <=> Sent(orders', o)
  BY DEF Sent
<1>4. ~Sent(orders, made)
  BY DEF Sent
<1>5. Settled'
  <2>1. \A o \in DOMAIN orders : Sent(orders, o) =>
          Sent(orders', o) /\ (o # placing => Stays(o))
    BY <1>3 DEF Here, Works, Stays
  <2>2. \A l \in loads' : l.read /\ l.epoch = epoch' =>
          /\ in_doubt' \subseteq in_doubt
          /\ \A o \in in_doubt : Shows(l, orders, o)
    BY DEF Settled
  <2> QED
    BY <1>4, <2>1, <2>2, KeepsSettled
<1>6. Followed'
  <2>1. \A c \in Sending(rpc') : \/ c \in Sending(rpc) /\ rpc'[c].order = rpc[c].order
                                 \/ ~Sent(orders, rpc'[c].order)
    BY <1>2, <1>4 DEF Sending
  <2>2. \A o \in DOMAIN orders' : orders'[o].answered = "late" =>
          o \in DOMAIN orders /\ orders[o].answered = "late"
    OBVIOUS
  <2>3. \A o \in DOMAIN orders' : Sent(orders', o) => Spoken(o)' \/ (Sent(orders, o) /\ ~Spoken(o))
    <3> SUFFICES ASSUME NEW o \in DOMAIN orders', Sent(orders', o), ~(Sent(orders, o) /\ ~Spoken(o))
                 PROVE  Spoken(o)'
      OBVIOUS
    <3>1. CASE o \in DOMAIN orders
      <4>1. Spoken(o) /\ o # 0
        BY <1>3, <3>1, OrdersAre
      <4> QED
        BY <3>1, <4>1 DEF Spoken
    <3>2. CASE o \notin DOMAIN orders
      BY <3>2 DEF Spoken, Sent
    <3> QED
      BY <3>1, <3>2
  <2> QED
    BY <1>3, <2>1, <2>2, <2>3, KeepsFollowed
<1> QED
  BY <1>5, <1>6

\* The orders stay, but for what was heard of them; nothing is started.
LEMMA SameOrdersKeep ==
  ASSUME TypeOK, Control, Unsent, Doubts, Settled, Followed, UNCHANGED orders,
         \A c \in Sending(rpc') : c \in Sending(rpc) /\ rpc'[c].order = rpc[c].order,
         \A t \in told' :
           \/ t \in told
           \/ t.order \in in_doubt /\ Truly(orders, t),
         told \subseteq told',
         \A o \in in_doubt : o \in in_doubt' \/ \E t \in told' : t.order = o,
         \/ UNCHANGED placing /\ in_doubt' \subseteq in_doubt
         \/ OnReady /\ DoubtPlacing,
         \/ OnReady
         \/ loads' \subseteq loads /\ UNCHANGED epoch
  PROVE  Settled' /\ Followed'
<1>1. \A l \in loads : l.epoch \in Nat /\ l.epoch <= epoch /\ epoch \in Nat
  BY DEF Doubts, TypeOK, SyncType
<1>2. OnReady => \A l \in loads' : l.epoch = epoch' => ~l.read
  BY <1>1 DEF OnReady
<1>3. Settled'
  <2>1. \A l \in loads' : l.read /\ l.epoch = epoch' =>
          /\ in_doubt' \subseteq in_doubt
          /\ \A o \in in_doubt : Shows(l, orders, o)
    BY <1>2 DEF Settled
  <2>2. \A o \in in_doubt' : o \in in_doubt \/ (o = placing /\ placing' = 0 /\ o # 0)
    BY DEF DoubtPlacing
  <2>3. placing' = placing \/ placing' = 0
    BY DEF DoubtPlacing
  <2>4. \A o : Stays(o) /\ (Sent(orders, o) <=> Sent(orders', o))
    BY DEF Stays, Here, Works, Sent
  <2> QED
    BY <2>1, <2>2, <2>3, <2>4, KeepsSettled
<1>4. Followed'
  <2>1. \A o \in DOMAIN orders : o # 0
    BY OrdersAre
  <2>2. \A o \in DOMAIN orders' : Sent(orders', o) => Spoken(o)' \/ (Sent(orders, o) /\ ~Spoken(o))
    BY <2>1 DEF Spoken, DoubtPlacing
  <2> QED
    BY <2>2, KeepsFollowed
<1> QED
  BY <1>3, <1>4

\* The reversals that are ready, once the handler left `held', `c1' and `r1'.
LEMMA PlaceReversesKeepsTold ==
  ASSUME TypeOK, Control, Unsent, Doubts, Settled, Followed, NEW ready, NEW held, NEW c1, NEW r1,
         DOMAIN r1 \subseteq DOMAIN rpc, \A c \in DOMAIN r1 : r1[c] = rpc[c],
         Placing \in busy => Placing \in held, PlaceReverses(ready, held, c1, r1),
         \A t \in told' :
           \/ t \in told
           \/ t.order \in in_doubt /\ Truly(orders, t),
         told \subseteq told', in_doubt' \subseteq in_doubt,
         \A o \in in_doubt : o \in in_doubt' \/ \E t \in told' : t.order = o,
         loads' \subseteq loads, UNCHANGED epoch
  PROVE  Settled' /\ Followed'
<1>1. CASE rpc' = r1 /\ UNCHANGED <<orders, placing>>
  <2>1. \A c \in Sending(rpc') : c \in Sending(rpc) /\ rpc'[c].order = rpc[c].order
    BY <1>1 DEF Sending
  <2> QED
    BY <1>1, <2>1, SameOrdersKeep
<1>2. CASE /\ Placing \notin held
           /\ \E p \in ready :
                /\ orders' = Append(orders, NewOrder(ReverseShape[p], p, Len(orders) + 1, "out"))
                /\ placing' = Len(orders) + 1
                /\ Start(Placing, Len(orders) + 1, held, c1, r1)
  <2>1. PICK e : /\ e.answered = "nothing" /\ orders' = Append(orders, e)
                 /\ placing' = Len(orders) + 1 /\ Start(Placing, Len(orders) + 1, held, c1, r1)
    BY <1>2 DEF NewOrder
  <2>2. /\ Len(orders) + 1 \notin DOMAIN orders
        /\ DOMAIN orders' = DOMAIN orders \cup {Len(orders) + 1} /\ orders'[Len(orders) + 1] = e
        /\ \A o \in DOMAIN orders : orders'[o] = orders[o]
    BY <2>1, OrdersAre
  <2>3. placing = 0
    BY <1>2, PlacingIsSent
  <2> QED
    BY <2>1, <2>2, <2>3, NewOrdersKeep
<1> QED
  BY <1>1, <1>2 DEF PlaceReverses

\* An answer that was heard, or came too late: the order of its call is kept in flight or
\* in doubt no more, and the one after it may be sent.
LEMMA AnswerKeepsTold ==
  ASSUME TypeOK, Control, Unsent, Doubts, Planned, Settled, Followed,
         NEW c \in Sending(rpc), NEW o, o = rpc[c].order, NEW next,
         \/ placing' = 0 /\ orders' = [orders EXCEPT ![o].answered = Heard(c)]
         \/ /\ placing' = next /\ ~Sent(orders, next)
            /\ orders' = [orders EXCEPT ![o].answered = Heard(c), ![next].at = "out"],
         \A d \in Sending(rpc') : \/ d \in Sending(rpc) \ {c} /\ rpc'[d].order = rpc[d].order
                                  \/ rpc'[d].order = next /\ ~Sent(orders, next),
         UNCHANGED told, in_doubt' = in_doubt \ {o} \/ UNCHANGED in_doubt,
         OnReady \/ UNCHANGED <<epoch, loads>>
  PROVE  Settled' /\ Followed'
<1>1. o \in DOMAIN orders /\ Sent(orders, o) /\ \A d \in DOMAIN orders : orders[d] \in Order /\ d # 0
  BY PlacingIsSent, OrdersAre
<1>2. /\ DOMAIN orders' = DOMAIN orders
      /\ orders'[o].answered = Heard(c) /\ orders'[o].at = orders[o].at
      /\ \A d \in DOMAIN orders \ {o} : orders'[d].answered = orders[d].answered
      /\ \A d \in DOMAIN orders : orders'[d].late = orders[d].late
      /\ \A d \in DOMAIN orders : Sent(orders, d) => orders'[d].at = orders[d].at
      /\ \A d \in DOMAIN orders : Sent(orders', d) => Sent(orders, d) \/ d = placing'
  <2>1. CASE placing' = 0 /\ orders' = [orders EXCEPT ![o].answered = Heard(c)]
    BY <1>1, <2>1 DEF Order, Sent
  <2>2. CASE /\ placing' = next /\ ~Sent(orders, next)
             /\ orders' = [orders EXCEPT ![o].answered = Heard(c), ![next].at = "out"]
    <3>1. next # o
      BY <1>1, <2>2
    <3> QED
      BY <1>1, <2>2, <3>1 DEF Order, Sent
  <2> QED
    BY <2>1, <2>2
<1>3. \A d \in DOMAIN orders : Sent(orders, d) => Sent(orders', d) /\ Stays(d)
  BY <1>2 DEF Sent, Here, Works, Stays
<1>4. Heard(c) \in {"heard", "late"}
  BY DEF Heard
<1>5. Settled'
  <2>1. \A l \in loads : l.epoch \in Nat /\ l.epoch <= epoch /\ epoch \in Nat
    BY DEF Doubts, TypeOK, SyncType
  <2>2. OnReady => \A l \in loads' : l.epoch = epoch' => ~l.read
    BY <2>1 DEF OnReady
  <2>3. \A l \in loads' : l.read /\ l.epoch = epoch' =>
          /\ in_doubt' \subseteq in_doubt
          /\ \A d \in in_doubt : Shows(l, orders, d)
    BY <2>2 DEF Settled
  <2>4. placing' = 0 \/ ~Sent(orders, placing')
    OBVIOUS
  <2>5. in_doubt' \subseteq in_doubt
    OBVIOUS
  <2>6. \A d \in DOMAIN orders : Sent(orders, d) =>
          Sent(orders', d) /\ (d # placing => Stays(d))
    BY <1>3
  <2>7. \A t \in told' :
          \/ t \in told
          \/ t.order \in in_doubt /\ Truly(orders, t)
    OBVIOUS
  <2>8. /\ \A d \in in_doubt' : d \in in_doubt \/ (d = placing /\ placing' = 0 /\ d # 0)
        /\ placing' = placing \/ placing' = 0 \/ ~Sent(orders, placing')
    BY <2>4, <2>5
  <2> QED
    BY <2>3, <2>6, <2>7, <2>8, KeepsSettled, Zenon
<1>6. Followed'
  <2>1. \A d \in Sending(rpc') : rpc'[d].order # o
    BY <1>1 DEF Planned
  <2>2. \A d \in Sending(rpc') : \/ d \in Sending(rpc) /\ rpc'[d].order = rpc[d].order
                                 \/ ~Sent(orders, rpc'[d].order)
    OBVIOUS
  <2>3. \A d \in DOMAIN orders : orders[d].answered = "late" => d # o
    BY DEF Followed
  <2>4. \A d \in DOMAIN orders' : orders'[d].answered = "late" =>
          \/ d \in DOMAIN orders /\ orders[d].answered = "late"
          \/ Sent(orders', d) /\ \A e \in Sending(rpc') : rpc'[e].order # d
    BY <1>1, <1>2, <1>3, <2>1
  <2>5. CASE Heard(c) = "late"
    <3>1. \E d \in DOMAIN orders' : orders'[d].answered = "late"
      BY <1>1, <1>2, <2>5
    <3> QED
      BY <1>2, <1>3, <2>2, <2>3, <2>4, <3>1, KeepsFollowed
  <2>6. CASE Heard(c) = "heard"
    <3>1. placing \in {0, o}
      BY <2>6, PlacingIsSent DEF Heard, Sending
    <3>2. \A d \in DOMAIN orders' : Sent(orders', d) => Spoken(d)' \/ (Sent(orders, d) /\ ~Spoken(d))
      BY <1>1, <1>2, <2>6, <3>1 DEF Spoken
    <3> QED
      BY <1>2, <1>3, <2>2, <2>3, <2>4, <3>2, KeepsFollowed
  <2> QED
    BY <1>4, <2>5, <2>6
<1> QED
  BY <1>5, <1>6

LEMMA ToldStep ==
  TypeOK /\ Control /\ Unsent /\ Doubts /\ Planned /\ Settled /\ Followed /\ [Next]_vars =>
    Settled' /\ Followed'
<1> SUFFICES ASSUME TypeOK, Control, Unsent, Doubts, Planned, Settled, Followed, [Next]_vars
             PROVE  Settled' /\ Followed'
  OBVIOUS
<1> DEFINE Goal == Settled' /\ Followed'
           SameCalls == \A c \in Sending(rpc') : c \in Sending(rpc) /\ rpc'[c].order = rpc[c].order
           SameLoads == OnReady \/ (loads' \subseteq loads /\ UNCHANGED epoch)
<1>a. /\ DOMAIN orders = OrderIds /\ Len(orders) \in Nat /\ DOMAIN orders = 1 .. Len(orders)
      /\ orders \in Seq(Order) /\ \A o \in DOMAIN orders : orders[o] \in Order
  BY OrdersAre
<1>b. call_seq \in Nat /\ DOMAIN rpc \subseteq 1 .. call_seq /\ \A c \in DOMAIN rpc : rpc[c] \in Call
  BY DEF TypeOK, CallsType
<1>q. ASSUME UNCHANGED <<orders, told>>, SameCalls, SameLoads,
             \/ UNCHANGED <<placing, in_doubt>>
             \/ OnReady /\ DoubtPlacing
      PROVE  Goal
  BY <1>q, SameOrdersKeep DEF DoubtPlacing
<1>r. /\ UNCHANGED rpc => SameCalls
      /\ UNCHANGED <<epoch, loads>> => SameLoads
  OBVIOUS
<1>s. ASSUME NEW what, what # Placing, Start(what, 0, busy, calls, rpc) PROVE SameCalls
  <2>1. /\ DOMAIN rpc' = DOMAIN rpc \cup {call_seq + 1} /\ rpc'[call_seq + 1].what = what
        /\ \A c \in DOMAIN rpc : rpc'[c] = rpc[c]
    BY <1>b, <1>s DEF Start, Put
  <2> QED
    BY <1>s, <2>1 DEF Sending
<1>t. ASSUME NEW c \in DOMAIN rpc, NEW answer, rpc' = [rpc EXCEPT ![c].result = answer] PROVE SameCalls
  BY <1>b, <1>t DEF Sending, Call
<1>u. ASSUME NEW c \in DOMAIN rpc, Release(c)
      PROVE  \A d \in Sending(rpc') : d \in Sending(rpc) \ {c} /\ rpc'[d].order = rpc[d].order
  BY <1>u DEF Release, Without, Sending
<1>e. ASSUME NEW ready, PlaceReverses(ready, busy, calls, rpc), UNCHANGED <<told, in_doubt, loads, epoch>>
      PROVE  Goal
  BY <1>e, PlaceReversesKeepsTold
<1> HIDE DEF SameCalls, SameLoads
<1>1. ASSUME NEW s \in Shapes, UserPlaces(s) PROVE Goal
  <2>1. PICK e : e.answered = "nothing" /\ orders' = Append(orders, e)
    BY <1>1 DEF UserPlaces, NewOrder
  <2>2. /\ Len(orders) + 1 \notin DOMAIN orders
        /\ DOMAIN orders' = DOMAIN orders \cup {Len(orders) + 1} /\ orders'[Len(orders) + 1] = e
        /\ \A o \in DOMAIN orders : orders'[o] = orders[o]
    BY <1>a, <2>1
  <2>3. /\ placing = 0 /\ placing' = Len(orders) + 1 /\ Start(Placing, Len(orders) + 1, busy, calls, rpc)
        /\ UNCHANGED <<told, in_doubt, loads, epoch>>
    BY <1>1, PlacingIsSent DEF UserPlaces, syncVars
  <2> QED
    BY <2>1, <2>2, <2>3, NewOrdersKeep
<1>2. ASSUME NEW plan \in Plans, UserPlacesPlan(plan) PROVE Goal
  <2> DEFINE first == Len(orders) + 1
             made  == PlanOrders(plan)
  <2>1. /\ Len(plan) \in Nat /\ Len(plan) >= 2 /\ made \in Seq(Order) /\ Len(made) = Len(plan)
        /\ \A i \in 1 .. Len(plan) : made[i].at = IF i = 1 THEN "out" ELSE "waiting"
    BY PlanOrdersType
  <2>2. \A i \in 1 .. Len(plan) : made[i].answered = "nothing"
    BY DEF PlanOrders, NewOrder
  <2>3. /\ orders' = orders \o made /\ placing' = first /\ Start(Placing, first, busy, calls, rpc)
        /\ UNCHANGED <<told, in_doubt, loads, epoch>> /\ placing = 0
    BY <1>2, PlacingIsSent DEF UserPlacesPlan, syncVars
  <2> HIDE DEF made
  <2>4. /\ DOMAIN orders' = 1 .. Len(orders) + Len(made)
        /\ \A o \in DOMAIN orders : orders'[o] = orders[o]
        /\ \A i \in 1 .. Len(made) : orders'[Len(orders) + i] = made[i]
    <3> DEFINE k == Len(orders)
               n == Len(made)
    <3>1. /\ k \in Nat /\ n \in Nat /\ DOMAIN orders = 1 .. k
          /\ orders \in Seq(Order) /\ made \in Seq(Order) /\ Len(orders) = k /\ Len(made) = n
      BY <1>a, <2>1
    <3> HIDE DEF k, n
    <3>2. /\ Len(orders \o made) = k + n /\ orders \o made \in Seq(Order)
          /\ \A o \in 1 .. k + n : (orders \o made)[o] = IF o <= k THEN orders[o] ELSE made[o - k]
      BY <3>1, ConcatProperties
    <3>3. DOMAIN orders' = 1 .. k + n
      BY <2>3, <3>2, LenProperties
    <3>4. \A o \in DOMAIN orders : orders'[o] = orders[o]
      BY <2>3, <3>1, <3>2
    <3>5. ASSUME NEW i \in 1 .. n PROVE orders'[k + i] = made[i]
      <4>1. k + i \in 1 .. k + n /\ ~(k + i <= k) /\ (k + i) - k = i
        BY <3>1
      <4> QED
        BY <2>3, <3>2, <4>1
    <3> QED
      BY <3>3, <3>4, <3>5 DEF k, n
  <2>5. \A o \in DOMAIN orders' \ DOMAIN orders :
          orders'[o].answered = "nothing" /\ (orders'[o].at # "waiting" => o = first)
    <3> SUFFICES ASSUME NEW o \in DOMAIN orders' \ DOMAIN orders
                 PROVE  orders'[o].answered = "nothing" /\ (orders'[o].at # "waiting" => o = first)
      OBVIOUS
    <3> DEFINE i == o - Len(orders)
    <3>1. i \in 1 .. Len(made) /\ o = Len(orders) + i
      BY <1>a, <2>1, <2>4
    <3> QED
      BY <1>a, <2>1, <2>2, <2>4, <3>1
  <2>6. first \notin DOMAIN orders /\ DOMAIN orders \subseteq DOMAIN orders'
    BY <1>a, <2>1, <2>4
  <2> QED
    BY <2>3, <2>4, <2>5, <2>6, NewOrdersKeep
<1>3. ASSUME NEW p \in Positions, UserCloses(p) \/ UserReverses(p) PROVE Goal
  <2>1. Closing(p) # Placing
    BY DEF Closing, Placing
  <2> QED
    BY <1>3, <1>q, <1>r, <1>s, <2>1 DEF UserCloses, UserReverses, orderVars, syncVars
<1>4. ASSUME NEW x \in Changes, UserChanges(x) PROVE Goal
  <2>1. Changing(x) # Placing
    BY DEF Changing, Placing
  <2> QED
    BY <1>4, <1>q, <1>r, <1>s, <2>1 DEF UserChanges, orderVars, syncVars
<1>5. ASSUME NEW on \in BOOLEAN, SetKillSwitch(on) \/ SetReplay(on) PROVE Goal
  BY <1>5, <1>q, <1>r DEF SetKillSwitch, SetReplay, callVars, orderVars, syncVars
<1>z. ASSUME NEW o \in DOMAIN orders, NEW at, NEW late,
             orders' = [orders EXCEPT ![o].at = at, ![o].late = late],
             at # "waiting", Sent(orders, o), SameCalls,
             o # placing /\ ~late /\ at \in {"working", "filled"} => Here(orders, o),
             o # placing /\ ~late /\ at = "working" => Works(orders, o),
             UNCHANGED <<placing, in_doubt, told, loads, epoch>>
      PROVE  Goal
  <2>1. /\ DOMAIN orders' = DOMAIN orders /\ orders'[o].at = at /\ orders'[o].late = late
        /\ \A d \in DOMAIN orders : orders'[d].answered = orders[d].answered
        /\ \A d \in DOMAIN orders \ {o} : orders'[d] = orders[d]
    BY <1>a, <1>z DEF Order
  <2>2. \A d \in DOMAIN orders : Sent(orders, d) <=> Sent(orders', d)
    BY <1>z, <2>1 DEF Sent
  <2>3. \A d \in DOMAIN orders : d # placing => Stays(d)
    <3>1. ASSUME NEW d \in DOMAIN orders, d # placing, d # o PROVE Stays(d)
      BY <2>1, <3>1 DEF Here, Works, Stays
    <3>2. ASSUME o # placing PROVE Stays(o)
      BY <1>z, <2>1, <3>2 DEF Here, Works, Stays
    <3> QED
      BY <3>1, <3>2
  <2>4. \A l \in loads' : l.read /\ l.epoch = epoch' =>
          /\ in_doubt' \subseteq in_doubt
          /\ \A d \in in_doubt : Shows(l, orders, d)
    BY <1>z DEF Settled
  <2>5. Settled'
    BY <1>z, <2>2, <2>3, <2>4, KeepsSettled
  <2>6. \A d \in DOMAIN orders : Spoken(d)' <=> Spoken(d)
    BY <1>z, <2>1 DEF Spoken
  <2>7. Followed'
    BY <1>z, <2>1, <2>2, <2>6, KeepsFollowed DEF SameCalls
  <2> QED
    BY <2>5, <2>7
<1>6. ASSUME NEW c \in DOMAIN rpc, OrderReaches(c) PROVE Goal
  <2> DEFINE o == rpc[c].order
  <2>1. PICK answer \in {"accepted", "filled", "rejected", "refused"} :
          /\ rpc' = [rpc EXCEPT ![c].result = answer]
          /\ orders' = [orders EXCEPT ![o].at = IF answer = "accepted" THEN "working" ELSE answer,
                                      ![o].late = placing # o]
    BY <1>6 DEF OrderReaches
  <2>2. Sent(orders, o) /\ o \in DOMAIN orders
    BY <1>6 DEF OrderReaches, Unsent, Sent
  <2>3. SameCalls
    BY <1>t, <2>1
  <2> DEFINE at == IF answer = "accepted" THEN "working" ELSE answer
  <2>4. at # "waiting"
    OBVIOUS
  <2>5. UNCHANGED <<placing, in_doubt, told, loads, epoch>>
    BY <1>6 DEF OrderReaches, syncVars
  <2> HIDE DEF at, o
  <2> QED
    BY <1>z, <2>1, <2>2, <2>3, <2>4, <2>5 DEF at
<1>7. ASSUME NEW c \in DOMAIN rpc, CloseReaches(c) \/ ChangeReaches(c) PROVE Goal
  <2>1. \E answer : rpc' = [rpc EXCEPT ![c].result = answer]
    BY <1>7 DEF CloseReaches, ChangeReaches
  <2>2. UNCHANGED <<orders, told, placing, in_doubt, loads, epoch>>
    BY <1>7 DEF CloseReaches, ChangeReaches, orderVars, syncVars
  <2> QED
    BY <1>q, <1>r, <1>t, <2>1, <2>2
<1>8. ASSUME NEW c \in DOMAIN rpc, CallFails(c) PROVE Goal
  BY <1>8, <1>q, <1>r, <1>t DEF CallFails, orderVars, syncVars
<1>9. CASE SessionReady
  <2>1. PICK lost \in SUBSET {c \in DOMAIN rpc : rpc[c].result # "unknown"} :
          rpc' = [c \in DOMAIN rpc |->
                    IF c \in lost THEN [rpc[c] EXCEPT !.result = "unknown"] ELSE rpc[c]]
    BY <1>9 DEF SessionReady
  <2>2. SameCalls
    BY <1>b, <2>1 DEF SameCalls, Sending, Call
  <2> QED
    BY <1>9, <1>q, <2>2 DEF SessionReady, SameLoads
<1>10. ASSUME NEW o \in OrderIds, LateArrival(o) PROVE Goal
  <2>1. PICK at \in {"working", "filled", "rejected", "refused"} :
          orders' = [orders EXCEPT ![o].at = at, ![o].late = placing # o]
    BY <1>10 DEF LateArrival
  <2>2. Sent(orders, o) /\ at # "waiting"
    BY <1>10, <1>a DEF LateArrival, Sent
  <2>3. SameCalls /\ UNCHANGED <<placing, in_doubt, told, loads, epoch>>
    BY <1>10, <1>r DEF LateArrival, callVars, syncVars
  <2> QED
    BY <1>a, <1>z, <2>1, <2>2, <2>3
<1>11. ASSUME NEW o \in OrderIds, BrokerFills(o) PROVE Goal
  <2>1. orders' = [orders EXCEPT ![o].at = "filled"] /\ orders[o].at = "working"
    BY <1>11 DEF BrokerFills
  <2>2. orders' = [orders EXCEPT ![o].at = "filled", ![o].late = orders[o].late]
    BY <1>a, <2>1 DEF Order
  <2>3. Sent(orders, o) /\ (~orders[o].late => Here(orders, o))
    BY <1>a, <2>1 DEF Sent, Here
  <2>4. SameCalls /\ UNCHANGED <<placing, in_doubt, told, loads, epoch>>
    BY <1>11, <1>r DEF BrokerFills, callVars, syncVars
  <2>5. PICK at, late : at = "filled" /\ late = orders[o].late
    OBVIOUS
  <2>6. /\ orders' = [orders EXCEPT ![o].at = at, ![o].late = late] /\ at # "waiting" /\ at # "working"
        /\ ~late => Here(orders, o)
    BY <2>2, <2>3, <2>5
  <2> QED
    BY <1>a, <1>z, <2>3, <2>4, <2>6
<1>12. ASSUME NEW p \in Positions, BrokerCloses(p) \/ CloseFails(p) PROVE Goal
  BY <1>12, <1>q, <1>r DEF BrokerCloses, CloseFails, callVars, orderVars, syncVars
<1>13. ASSUME NEW c \in DOMAIN rpc, AnswerPlaced(c) PROVE Goal
  <2>1. /\ c \in Sending(rpc) /\ in_doubt' = in_doubt \ {rpc[c].order}
        /\ UNCHANGED <<told, loads, epoch>>
    BY <1>13 DEF AnswerPlaced, Sending, syncVars
  <2>2. CASE Placing \notin Held(c) /\ queue # <<>>
    <3>1. SendNext(c)
      BY <1>13, <2>2 DEF AnswerPlaced
    <3>2. Head(queue) = queue[1] /\ 1 \in 1 .. Len(queue)
      BY <2>2, HeadTailProperties DEF TypeOK, OrdersType
    <3>3. ~Sent(orders, Head(queue))
      BY <3>2 DEF Unsent, Sent
    <3>4. /\ DOMAIN rpc' = (DOMAIN rpc \ {c}) \cup {call_seq + 1}
          /\ rpc'[call_seq + 1].order = Head(queue)
          /\ \A d \in DOMAIN rpc \ {c} : rpc'[d] = rpc[d]
      BY <1>b, <3>1 DEF SendNext, Start, Put, Without
    <3>5. \A d \in Sending(rpc') : \/ d \in Sending(rpc) \ {c} /\ rpc'[d].order = rpc[d].order
                                   \/ rpc'[d].order = Head(queue) /\ ~Sent(orders, Head(queue))
      BY <3>3, <3>4 DEF Sending
    <3>6. /\ placing' = Head(queue)
          /\ orders' = [orders EXCEPT ![rpc[c].order].answered = Heard(c), ![Head(queue)].at = "out"]
      BY <3>1 DEF SendNext
    <3> QED
      BY <2>1, <3>3, <3>5, <3>6, AnswerKeepsTold
  <2>3. CASE ~(Placing \notin Held(c) /\ queue # <<>>)
    <3>1. /\ placing' = 0 /\ orders' = [orders EXCEPT ![rpc[c].order].answered = Heard(c)]
          /\ Release(c)
      BY <1>13, <2>3 DEF AnswerPlaced
    <3> QED
      BY <1>u, <2>1, <3>1, AnswerKeepsTold
  <2> QED
    BY <2>2, <2>3
<1>14. ASSUME NEW c \in DOMAIN rpc, AnswerNotPlaced(c) PROVE Goal
  <2>1. Release(c) /\ OnReady /\ UNCHANGED told /\ c \in Sending(rpc)
    BY <1>14 DEF AnswerNotPlaced, Sending
  <2>2. CASE rpc[c].result = "unknown"
    BY <1>14, <1>q, <1>u, <2>1, <2>2 DEF AnswerNotPlaced, SameCalls, SameLoads
  <2>3. CASE rpc[c].result # "unknown"
    <3>1. /\ placing' = 0 /\ orders' = [orders EXCEPT ![rpc[c].order].answered = Heard(c)]
          /\ UNCHANGED in_doubt
      BY <1>14, <2>3 DEF AnswerNotPlaced
    <3> QED
      BY <1>u, <2>1, <3>1, AnswerKeepsTold
  <2> QED
    BY <2>2, <2>3
<1>15. ASSUME NEW c \in DOMAIN rpc, AnswerClosing(c) PROVE Goal
  <2>1. PICK ready : PlaceReverses(ready, Held(c), Kept(c), Without(rpc, {c}))
    BY <1>15 DEF AnswerClosing
  <2>2. rpc[c].what # Placing /\ UNCHANGED <<told, in_doubt, loads, epoch>>
    <3>1. rpc[c].what.kind = "closing" /\ UNCHANGED <<told, in_doubt, loads, epoch>>
      BY <1>15 DEF AnswerClosing
    <3> QED
      BY <3>1 DEF Placing
  <2>3. /\ DOMAIN Without(rpc, {c}) \subseteq DOMAIN rpc
        /\ \A d \in DOMAIN Without(rpc, {c}) : Without(rpc, {c})[d] = rpc[d]
    BY DEF Without
  <2>4. Placing \in busy => Placing \in Held(c)
    BY <2>2 DEF Held
  <2> QED
    BY <2>1, <2>2, <2>3, <2>4, PlaceReversesKeepsTold
<1>16. ASSUME NEW c \in DOMAIN rpc, AnswerNotClosed(c) \/ AnswerChanged(c) \/ AnswerNotChanged(c)
       PROVE  Goal
  <2>1. Release(c) /\ UNCHANGED <<orders, told, placing, in_doubt>> /\ (OnReady \/ UNCHANGED <<epoch, loads>>)
    BY <1>16 DEF AnswerNotClosed, AnswerChanged, AnswerNotChanged, orderVars, syncVars
  <2> QED
    BY <1>q, <1>u, <2>1 DEF SameCalls, SameLoads
<1>17. ASSUME NEW t \in timers, GiveUp(t) \/ TimerIdle(t) PROVE Goal
  <2>1. /\ UNCHANGED <<orders, told, rpc>>
        /\ \/ UNCHANGED <<placing, in_doubt>> /\ (OnReady \/ UNCHANGED <<epoch, loads>>)
           \/ OnReady /\ DoubtPlacing
    BY <1>17 DEF GiveUp, TimerIdle, orderVars, syncVars
  <2> QED
    BY <1>q, <1>r, <2>1 DEF SameLoads
<1>18. CASE OnOrderEvent
  <2> DEFINE o == Head(events).order
  <2>1. /\ in_doubt' = in_doubt \ {o} /\ UNCHANGED <<told, placing, rpc, loads, epoch>>
        /\ orders' = [orders EXCEPT ![o].answered = IF @ = "late" THEN @ ELSE "heard"]
    BY <1>18 DEF OnOrderEvent, callVars, syncVars
  <2> HIDE DEF o
  <2>2. /\ DOMAIN orders' = DOMAIN orders
        /\ \A d \in DOMAIN orders : orders'[d].at = orders[d].at /\ orders'[d].late = orders[d].late
        /\ \A d \in DOMAIN orders \ {o} : orders'[d].answered = orders[d].answered
        /\ o \in DOMAIN orders =>
             orders'[o].answered = IF orders[o].answered = "late" THEN "late" ELSE "heard"
    BY <1>a, <2>1 DEF Order
  <2>3. \A d \in DOMAIN orders : (Sent(orders, d) <=> Sent(orders', d)) /\ Stays(d)
    BY <2>2 DEF Sent, Here, Works, Stays
  <2>4. \A l \in loads' : l.read /\ l.epoch = epoch' =>
          /\ in_doubt' \subseteq in_doubt
          /\ \A d \in in_doubt : Shows(l, orders, d)
    BY <2>1 DEF Settled
  <2>5. Settled'
    BY <2>1, <2>3, <2>4, KeepsSettled
  <2>6. /\ \A d \in DOMAIN orders' : orders'[d].answered = "late" <=> orders[d].answered = "late"
        /\ \A d \in DOMAIN orders : Spoken(d) => Spoken(d)' \/ orders[d].answered = "late"
    BY <2>1, <2>2 DEF Spoken
  <2>7. Sending(rpc') = Sending(rpc)
    BY <2>1
  <2>8. \/ \E d \in DOMAIN orders' : orders'[d].answered = "late"
        \/ \A d \in DOMAIN orders' : Sent(orders', d) => Spoken(d)' \/ (Sent(orders, d) /\ ~Spoken(d))
    BY <2>2, <2>3, <2>6
  <2> QED
    BY <2>1, <2>2, <2>3, <2>5, <2>6, <2>7, <2>8, KeepsFollowed
<1>19. CASE OnCancelEvent
  BY <1>19, <1>q, <1>r DEF OnCancelEvent, callVars, orderVars, syncVars
<1>20. CASE OnClosedEvent
  BY <1>20, <1>e DEF OnClosedEvent
<1>21. ASSUME NEW l \in loads, LoadDone(l) PROVE Goal
  <2>1. PICK unread \in SUBSET l.filled, verdict \in [in_doubt -> Verdicts] :
          /\ \A o \in in_doubt : verdict[o] \in Found(l, l.filled \ unread, o)
          /\ told' = told \cup {[order |-> o, verdict |-> verdict[o], unread |-> o \in unread] : o \in in_doubt}
    BY <1>21 DEF LoadDone
  <2>2. l.read /\ l.epoch = epoch
    BY <1>21 DEF LoadDone
  <2>3. \A o \in in_doubt : verdict[o] = "missing" => o \notin l.working /\ o \notin l.filled \ unread
    BY <2>1 DEF Found, Traded
  <2>4. \A o \in in_doubt : verdict[o] = "missing" => ~Works(orders, o) /\ (o \in unread \/ ~Here(orders, o))
    BY <2>2, <2>3 DEF Settled, Shows
  <2>5. \A t \in told' :
          \/ t \in told
          \/ t.order \in in_doubt /\ Truly(orders, t)
    <3> SUFFICES ASSUME NEW t \in told', t \notin told PROVE t.order \in in_doubt /\ Truly(orders, t)
      OBVIOUS
    <3>1. PICK o \in in_doubt : t = [order |-> o, verdict |-> verdict[o], unread |-> o \in unread]
      BY <2>1
    <3>2. t.order = o /\ t.verdict = verdict[o] /\ (t.unread <=> o \in unread)
      BY <3>1
    <3> QED
      BY <2>4, <3>2 DEF Truly
  <2>6. told \subseteq told' /\ \A o \in in_doubt : \E t \in told' : t.order = o
    <3>1. \A o \in in_doubt :
            /\ [order |-> o, verdict |-> verdict[o], unread |-> o \in unread] \in told'
            /\ [order |-> o, verdict |-> verdict[o], unread |-> o \in unread].order = o
      BY <2>1
    <3> QED
      BY <2>1, <3>1, Zenon
  <2>7. PICK ready : PlaceReverses(ready, busy, calls, rpc)
    BY <1>21 DEF LoadDone
  <2>8. in_doubt' = {} /\ loads' \subseteq loads /\ UNCHANGED epoch
    BY <1>21 DEF LoadDone
  <2> QED
    BY <2>5, <2>6, <2>7, <2>8, PlaceReversesKeepsTold
<1>22. ASSUME NEW l \in loads, ReadAccount(l) PROVE Goal
  <2> DEFINE read == [l EXCEPT !.read = TRUE, !.positions = open,
                               !.working = {o \in OrderIds : orders[o].at = "working"},
                               !.filled  = {o \in OrderIds : orders[o].at = "filled"}]
  <2>1. loads' = (loads \ {l}) \cup {read} /\ UNCHANGED <<epoch, in_doubt, orders, told, placing, rpc>>
    BY <1>22 DEF ReadAccount, orderVars, callVars
  <2>2. \A o \in DOMAIN orders : Shows(read, orders, o)
    BY <1>a DEF Shows, Here, Works, TypeOK, SyncType, Load
  <2> HIDE DEF read
  <2>3. \A o \in in_doubt : o \in DOMAIN orders
    BY DEF Settled, Sent
  <2>4. \A m \in loads' : m.read /\ m.epoch = epoch' =>
          /\ in_doubt' \subseteq in_doubt
          /\ \A o \in in_doubt : Shows(m, orders, o)
    BY <2>1, <2>2, <2>3 DEF Settled
  <2>5. Settled'
    <3>1. \A o : Stays(o) /\ (Sent(orders, o) <=> Sent(orders', o))
      BY <2>1 DEF Stays, Here, Works, Sent
    <3> QED
      BY <2>1, <2>4, <3>1, KeepsSettled
  <2>6. Followed'
    BY <2>1 DEF Followed, Spoken
  <2> QED
    BY <2>5, <2>6
<1>23. ASSUME NEW l \in loads, LoadIgnored(l) PROVE Goal
  BY <1>23, <1>q, <1>r DEF LoadIgnored, callVars, orderVars, SameLoads
<1>24. ASSUME NEW w \in watches, WatchRechecks(w) \/ WatchEnds(w) PROVE Goal
  <2>1. /\ UNCHANGED <<orders, told, rpc, placing, in_doubt>>
        /\ OnReady \/ UNCHANGED <<epoch, loads>>
    BY <1>24 DEF WatchRechecks, WatchEnds, callVars, orderVars, syncVars
  <2> QED
    BY <1>q, <1>r, <2>1 DEF SameLoads
<1>25. CASE UNCHANGED vars
  BY <1>25, <1>q, <1>r DEF vars, callVars, orderVars, syncVars
<1> QED
  BY <1>1, <1>2, <1>3, <1>4, <1>5, <1>6, <1>7, <1>8, <1>9, <1>10, <1>11, <1>12, <1>13, <1>14,
     <1>15, <1>16, <1>17, <1>18, <1>19, <1>20, <1>21, <1>22, <1>23, <1>24, <1>25
     DEF Next, User, Broker, Answer, OnEvent

LEMMA ToldHolds ==
  Spec => [](TypeOK /\ Control /\ Unsent /\ Settled /\ Followed)
<1>1. Init => Control /\ Unsent /\ Doubts /\ Planned /\ Settled /\ Followed
  <2> SUFFICES ASSUME Init PROVE Control /\ Unsent /\ Doubts /\ Planned /\ Settled /\ Followed
    OBVIOUS
  <2>1. /\ DOMAIN calls = {} /\ DOMAIN rpc = {} /\ busy = {} /\ queue = <<>> /\ Len(queue) = 0
        /\ placing = 0 /\ replay = FALSE /\ DOMAIN orders = {} /\ told = {} /\ in_doubt = {} /\ loads = {}
    BY DEF Init, Empty
  <2>2. Control
    BY <2>1 DEF Control, BusyHasItsCall, QueueWaitsForAnswer, PlacingIsInFlight, ReplayLocksOrders
  <2>3. Unsent /\ Doubts
    BY <2>1 DEF Unsent, Doubts, DoubtsPredateTheReading
  <2>4. Planned
    BY <2>1 DEF Planned, Sending
  <2>5. Settled /\ Followed
    BY <2>1 DEF Settled, Followed
  <2> QED
    BY <2>2, <2>3, <2>4, <2>5
<1>2. TypeOK /\ Control /\ Unsent /\ Doubts /\ Planned /\ Settled /\ Followed /\ [Next]_vars =>
        Control' /\ Unsent' /\ Doubts' /\ Planned' /\ Settled' /\ Followed'
  BY ControlStep, UnsentStep, DoubtsStep, PlannedStep, ToldStep
<1> QED
  BY <1>1, <1>2, TypeCorrect, PTL DEF Spec

\* What the account told to be missing is not on it, whatever reading it was that settled
\* the doubt, unless the request came after the account had given up on it (orders.rs,
\* settle_in_doubt; the reading started after the doubt, and saw what was there).
THEOREM MissingIsNotThere == Spec => []MissingIsMissing
<1>1. Settled => MissingIsMissing
  BY DEF Settled, Truly, Works, Here, MissingIsMissing
<1> QED
  BY <1>1, ToldHolds, PTL

\* The account follows every order it sent to an answer, a doubt or a verdict, as long as
\* no answer came after the account had given up on its call (orders.rs, doubt_placing:
\* the order in doubt is the one kept in `placing', whatever call is answered).
THEOREM OrdersAreFollowed == Spec => []NoOrderIsForgotten
<1>1. TypeOK /\ Control /\ Unsent /\ Followed => NoOrderIsForgotten
  <2> SUFFICES ASSUME TypeOK, Control, Unsent, Followed,
                      ~ \E o \in OrderIds : orders[o].answered = "late",
                      NEW o \in OrderIds, orders[o].at # "waiting"
               PROVE  \/ orders[o].answered = "heard"
                      \/ \E c \in DOMAIN rpc : rpc[c].order = o
                      \/ o \in in_doubt
                      \/ \E t \in told : t.order = o
    BY DEF NoOrderIsForgotten
  <2>1. o \in DOMAIN orders /\ Sent(orders, o) /\ o # 0 /\ OrderIds = DOMAIN orders
    BY OrdersAre DEF Sent
  <2>2. Spoken(o)
    BY <2>1 DEF Followed
  <2>3. o = placing => calls[Placing] \in DOMAIN rpc /\ rpc[calls[Placing]].order = o
    BY <2>1 DEF Control, PlacingIsInFlight, BusyHasItsCall
  <2> QED
    BY <2>2, <2>3 DEF Spoken
<1> QED
  BY <1>1, ToldHolds, PTL
=============================================================================
