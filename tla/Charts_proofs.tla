---------------------------- MODULE Charts_proofs -----------------------------
(***************************************************************************)
(* Proofs about what is fed by the bars and prices of a symbol: the chart, *)
(* for every symbol, page, capacity and bound, and the alerts, for all     *)
(* settings and values.  The two share nothing; ChartHistory comes first.  *)
(*                                                                         *)
(* The chart.  At rest nothing may be missing, so on the way there every   *)
(* bar that lags must still be covered: by a load that will bring it, by a *)
(* live bar that is queued, by a Ready (queued or still to come) that will *)
(* have it asked for, or by what the code gives up (`missed').  Which bars *)
(* these have to cover, and why a step that uses one of them up leaves     *)
(* nothing uncovered, needs the order of the queue and where the loads     *)
(* begin and end: together that is Inv.                                    *)
(*                                                                         *)
(* The alerts.  What fired has to leave its mark on the alert, in the book *)
(* that the next start reads, or be of a life that a crash ended; and what *)
(* an alert saw last has to be of a time since it is set as it is, but for *)
(* the bars of a reading that was under way when it was set.               *)
(* Together with the order of bars and readings that is AlertsInv.         *)
(***************************************************************************)
EXTENDS Alerts, ChartHistory, FiniteSetTheorems, SequenceTheorems, TLAPS

-----------------------------------------------------------------------------
(* The chart: what every step preserves *)

\* What is held, and what the answers bring, are bars that the market made: of no slot to come.
Own ==
  /\ OnlyItsOwn
  /\ \A r \in requests, t \in Slots : r.bars[t] <= made[r.of][t]
  /\ \A c \in Symbols, t \in Slots : made[c][t] > 0 => t <= now

\* The live bars that are queued are earlier states of the market's, in its order.
Queue ==
  /\ \A i \in 1..Len(events) : events[i].kind = "live" =>
       /\ events[i].of \in Symbols /\ events[i].slot \in Slots /\ events[i].slot <= now
       /\ 0 < events[i].ticks /\ events[i].ticks <= made[events[i].of][events[i].slot]
  /\ \A i, j \in 1..Len(events) :
       i < j /\ events[i].kind = "live" /\ events[j].kind = "live" => events[i].slot <= events[j].slot

\* A load that is not outdated is of the symbol shown and fits the state of the chart; a first
\* load is alone.
Loads ==
  /\ load # "idle" => shown \in Symbols
  /\ \A r \in requests : r.epoch <= epoch
  /\ \A r \in requests : Current(r) =>
       /\ r.of = shown
       /\ load = IF r.kind = "initial" THEN "loading" ELSE "ready"
       /\ r.kind = "initial" => \A q \in requests : Current(q) => q = r

\* A gap begins at or below something held, a page ends below now, and from the oldest bar of
\* its range that an answer brings it has every bar as the market does (a gap and a first load up
\* to their newest one, which may have had more ticks since).
Asks == \A r \in requests : Current(r) =>
  /\ r.kind = "gap" => \E u \in Times(held) : r.from <= u
  /\ r.kind = "older" => Times(held) # {} /\ r.to < now
  /\ r.kind = "gap" /\ r.state = "answered" =>
       \A u \in Times(r.bars), t \in Slots :
         r.from <= u /\ (r.from <= t /\ t < u => r.bars[t] = made[shown][t])
  /\ r.kind = "older" /\ r.state = "answered" =>
       \A u \in Times(r.bars), t \in Slots : u <= r.to /\ (u <= t /\ t <= r.to => r.bars[t] = made[shown][t])
  /\ r.kind = "initial" /\ r.state = "answered" =>
       \A u, v \in Times(r.bars), t \in Slots : u <= t /\ t < v => r.bars[t] = made[shown][t]

\* The slots a chart has to account for: those from its oldest bar on, and those its loads are
\* to join to them.
Bottom(r) == IF r.kind = "gap" THEN r.from ELSE r.to + 1
InScope(t) ==
  \/ Times(held) = {} \/ \E u \in Times(held) : u <= t
  \/ \E r \in requests : Current(r) /\ r.kind # "initial" /\ Bottom(r) <= t

\* Something after the slot t is held.
Newer(t) == \E u \in Times(held) : u > t

\* A gap load brings the bar, or fails, which gives it up.
Fetched(t) == \E r \in requests : Current(r) /\ r.kind = "gap" /\
  \/ r.state # "answered" /\ r.from <= t /\ t <= r.to
  \/ r.state = "answered" /\ r.bars[t] = made[shown][t]

\* The bar is in the queue as the market has it, and is applied when it comes.
Told(t) ==
  /\ held[t] > 0 \/ ~Newer(t)
  /\ \E i \in 1..Len(events) : events[i] = [kind |-> "live", of |-> shown, slot |-> t, ticks |-> made[shown][t]]

\* Nothing after t is held, and a Ready comes before a live bar after t does; or, behind what
\* is queued, the bars are not sent now, and a Ready, a sign-in or a subscription must come
\* first.
Refilled(t) ==
  /\ ~Newer(t)
  /\ \E p \in 1..Len(events) + 1 :
       /\ IF p = Len(events) + 1 THEN ~Sent(shown) ELSE events[p].kind = "ready"
       /\ \A i \in 1..p - 1 : events[i].kind = "live" /\ events[i].of = shown => events[i].slot <= t

\* Every bar that lags is given up, or something is to bring it.
Covered == load = "ready" => \A t \in Slots :
  InScope(t) /\ held[t] # made[shown][t] => t \in missed \/ Fetched(t) \/ Told(t) \/ Refilled(t)

\* The inductive invariant of the chart.
Inv == TypeOK /\ Own /\ Queue /\ Loads /\ Asks /\ Covered

-----------------------------------------------------------------------------
(* Sets of slots, and the operators on series *)

\* A set of numbers has a least one.
LEMMA Least ==
  ASSUME NEW T, T \subseteq Nat, T # {}
  PROVE  \E x \in T : \A y \in T : x <= y
  <1>1. \E R : /\ \A x, y \in Nat : <<y, x>> \in R <=> y < x
               /\ \E x \in T : \A y \in T : <<y, x>> \notin R
    <2> WITNESS OpToRel(<, Nat)
    <2>1. \A x, y \in Nat : <<y, x>> \in OpToRel(<, Nat) <=> y < x BY DEF OpToRel
    <2>2. \E x \in T : \A y \in T : <<y, x>> \notin OpToRel(<, Nat)
      BY NatLessThanWellFounded, WFMin
    <2> QED BY <2>1, <2>2, Zenon
  <1>2. PICK x \in T : \A y \in T : ~(y < x) BY <1>1
  <1>3. \A y \in T : x <= y BY <1>2
  <1> QED BY <1>3

\* The community modules' Min and Max of numbers up to n.
LEMMA MinMaxAre ==
  ASSUME NEW n \in Nat, NEW T, T \subseteq 1..n, T # {}
  PROVE  /\ Min(T) \in T /\ \A y \in T : Min(T) <= y
         /\ Max(T) \in T /\ \A y \in T : y <= Max(T)
  <1>1. Min(T) \in T /\ \A y \in T : Min(T) <= y
    <2>1. T \subseteq Nat OBVIOUS
    <2>2. \E x \in T : \A y \in T : x <= y BY <2>1, Least
    <2> QED BY <2>2 DEF Min
  <1>2. Max(T) \in T /\ \A y \in T : y <= Max(T)
    <2> DEFINE U == {n - x : x \in T}
    <2>1. U \subseteq Nat /\ U # {}
      <3>1. \A x \in T : n - x \in Nat OBVIOUS
      <3> QED BY <3>1
    <2>2. PICK u \in U : \A v \in U : u <= v BY <2>1, Least
    <2>3. PICK x \in T : u = n - x BY <2>2
    <2>4. \A y \in T : n - x <= n - y BY <2>2, <2>3
    <2>5. \A y \in T : x >= y BY <2>4
    <2>6. Max(T) \in T /\ \A y \in T : Max(T) >= y BY <2>5 DEF Max
    <2> QED BY <2>6
  <1> QED BY <1>1, <1>2

\* What the assumption on the constants says of the slots.
LEMMA SlotsAre ==
  /\ LastSlot \in Nat /\ MaxTicks \in Nat /\ Past \in Nat /\ Past < LastSlot
  /\ Capacity \in Nat \ {0} /\ EventCapacity \in Nat \ {0} /\ NoSymbol \notin Symbols
  /\ Slots \subseteq Nat \ {0} /\ IsFiniteSet(Slots)
  /\ \A series : Times(series) \subseteq Slots
  <1>1. LastSlot \in Nat BY ChartAssumption
  <1>2. IsFiniteSet(1..LastSlot) BY <1>1, FS_Interval
  <1> QED BY <1>1, <1>2, ChartAssumption DEF Slots, Times

\* Ticks are numbers.
LEMMA TicksAre == MaxTicks \in Nat /\ \A n \in 0..MaxTicks : n \in Nat /\ 0 <= n /\ n <= n
  BY SlotsAre

\* Slots are positive numbers.
LEMMA Times0 == \A t \in Slots : t \in Nat /\ t > 0 BY SlotsAre

\* The times of a series are slots.
LEMMA HeldTimes == \A series : \A t \in Times(series) : t \in Slots /\ t \in Nat BY SlotsAre, Times0

\* The oldest and the newest bar of a series.
LEMMA EndsAre ==
  ASSUME NEW series, Times(series) # {}
  PROVE  /\ Min(Times(series)) \in Times(series) /\ Max(Times(series)) \in Times(series)
         /\ \A t \in Times(series) : Min(Times(series)) <= t /\ t <= Max(Times(series))
  BY SlotsAre, MinMaxAre DEF Slots

\* Fewer slots are no more slots.
LEMMA Fewer ==
  ASSUME NEW T, NEW S, S \subseteq Slots, T \subseteq S
  PROVE  /\ Cardinality(T) \in Nat /\ Cardinality(S) \in Nat /\ Cardinality(T) <= Cardinality(S)
  <1>1. IsFiniteSet(S) BY SlotsAre, FS_Subset
  <1> QED BY <1>1, FS_Subset, FS_CardinalityType

\* Trimming keeps the newest bar, and takes only bars older than all it keeps.
LEMMA TrimIs ==
  ASSUME NEW series \in Series
  PROVE  /\ Trim(series) \in Series
         /\ \A t \in Slots : Trim(series)[t] = series[t] \/ Trim(series)[t] = 0
         /\ Times(Trim(series)) \subseteq Times(series)
         /\ Times(series) # {} => Max(Times(series)) \in Times(Trim(series))
         /\ \A t \in Slots : Trim(series)[t] < series[t] => \A u \in Times(Trim(series)) : t < u
  <1> DEFINE C(t) == {u \in Times(series) : u >= t}
  <1>1. \A t \in Slots : series[t] \in 0..MaxTicks BY DEF Series
  <1>2. ASSUME NEW t \in Slots
        PROVE  Trim(series)[t] = IF Cardinality(C(t)) <= Capacity THEN series[t] ELSE 0
    BY DEF Trim
  <1>3. Trim(series) \in Series BY <1>1, SlotsAre DEF Series, Trim
  <1>4. \A t \in Slots : Trim(series)[t] = series[t] \/ Trim(series)[t] = 0 BY <1>2
  <1>5. Times(Trim(series)) \subseteq Times(series) BY <1>1, <1>4 DEF Times
  <1>6. ASSUME Times(series) # {} PROVE Max(Times(series)) \in Times(Trim(series))
    <2> DEFINE m == Max(Times(series))
    <2>1. m \in Times(series) /\ m \in Slots /\ \A t \in Times(series) : t <= m
      BY <1>6, EndsAre, SlotsAre
    <2>2. C(m) = {m}
      <3>1. \A u \in Times(series) : u \in Nat /\ m \in Nat BY <2>1, SlotsAre
      <3> QED BY <2>1, <3>1
    <2>3. Cardinality(C(m)) <= Capacity BY <2>2, FS_Singleton, SlotsAre
    <2> QED BY <1>2, <2>1, <2>3 DEF Times
  <1>7. ASSUME NEW t \in Slots, Trim(series)[t] < series[t], NEW u \in Times(Trim(series))
        PROVE  t < u
    <2>1. u \in Slots /\ u \in Nat /\ t \in Nat BY SlotsAre
    <2>2. SUFFICES ASSUME u <= t PROVE FALSE BY <2>1
    <2>3. C(t) \subseteq C(u)
      <3>1. \A w \in Nat : w >= t => w >= u BY <2>1, <2>2
      <3> QED BY <3>1, HeldTimes
    <2>4. Cardinality(C(t)) <= Cardinality(C(u)) /\ Cardinality(C(t)) \in Nat /\ Cardinality(C(u)) \in Nat
      BY <2>3, Fewer, SlotsAre
    <2>5. ~(Cardinality(C(t)) <= Capacity) BY <1>1, <1>2, <1>7
    <2>6. Cardinality(C(u)) <= Capacity BY <1>2, <2>1 DEF Times
    <2> QED BY <2>4, <2>5, <2>6, SlotsAre
  <1> QED BY <1>3, <1>4, <1>5, <1>6, <1>7

\* Merging has the fresher of two bars everywhere.
LEMMA MergeIs ==
  ASSUME NEW series \in Series, NEW fetched \in Series
  PROVE  /\ Merge(series, fetched) \in Series
         /\ \A t \in Slots : /\ Merge(series, fetched)[t] \in {series[t], fetched[t]}
                             /\ Merge(series, fetched)[t] >= series[t]
                             /\ Merge(series, fetched)[t] >= fetched[t]
         /\ Times(Merge(series, fetched)) = Times(series) \cup Times(fetched)
  <1>1. \A t \in Slots : series[t] \in 0..MaxTicks /\ fetched[t] \in 0..MaxTicks BY DEF Series
  <1>2. \A t \in Slots : Merge(series, fetched)[t] = IF fetched[t] > series[t] THEN fetched[t] ELSE series[t]
    BY DEF Merge
  <1>3. Merge(series, fetched) \in Series BY <1>1 DEF Merge, Series
  <1> QED BY <1>1, <1>2, <1>3 DEF Times

\* Prepending changes only what is older than everything held.
LEMMA PrependIs ==
  ASSUME NEW series \in Series, NEW page \in Series, Times(series) # {}
  PROVE  /\ Prepend(series, page) \in Series
         /\ \A t \in Slots : IF \A u \in Times(series) : t < u
                             THEN Prepend(series, page)[t] = page[t]
                             ELSE Prepend(series, page)[t] = series[t]
         /\ Times(series) \subseteq Times(Prepend(series, page))
         /\ Times(Prepend(series, page)) \subseteq Times(series) \cup Times(page)
  <1> DEFINE m == Min(Times(series))
  <1>1. m \in Times(series) /\ \A u \in Times(series) : m <= u BY EndsAre
  <1>2. \A t \in Slots : Prepend(series, page)[t] = IF t < m THEN page[t] ELSE series[t]
    BY DEF Prepend
  <1>3. Prepend(series, page) \in Series BY DEF Prepend, Series
  <1> HIDE DEF m
  <1>4. \A t \in Slots : t < m <=> \A u \in Times(series) : t < u BY <1>1, HeldTimes, Times0
  <1>5. \A t \in Slots : IF \A u \in Times(series) : t < u
                             THEN Prepend(series, page)[t] = page[t]
                             ELSE Prepend(series, page)[t] = series[t]
    BY <1>2, <1>4
  <1>6. \A t \in Times(series) : t \in Slots /\ ~(t < m) BY <1>1, HeldTimes
  <1> QED BY <1>2, <1>3, <1>5, <1>6 DEF Times

\* A live bar takes its place unless it is older than everything held.
LEMMA ApplyIs ==
  ASSUME NEW series \in Series, NEW slot \in Slots, NEW ticks \in 1..MaxTicks
  PROVE  /\ ApplyLive(series, slot, ticks) \in Series
         /\ IF Times(series) = {} \/ \E u \in Times(series) : u <= slot
            THEN ApplyLive(series, slot, ticks) = [series EXCEPT ![slot] = ticks]
            ELSE ApplyLive(series, slot, ticks) = series
  <1>1. series = NoBars <=> Times(series) = {}
    <2>1. \A t \in Slots : series[t] \in 0..MaxTicks BY DEF Series
    <2> QED BY <2>1 DEF NoBars, Times, Series
  <1>2. CASE Times(series) = {} BY <1>1, <1>2 DEF ApplyLive, Series
  <1>3. CASE Times(series) # {}
    <2>1. /\ Min(Times(series)) \in Times(series) /\ \A u \in Times(series) : Min(Times(series)) <= u
      BY <1>3, EndsAre
    <2>2. slot < Min(Times(series)) <=> ~\E u \in Times(series) : u <= slot
      BY <2>1, HeldTimes, Times0
    <2> QED BY <1>1, <1>3, <2>2 DEF ApplyLive, Series
  <1> QED BY <1>2, <1>3

\* A page is of the market's bars, and has all of them from its oldest one on.
LEMMA NewestIs ==
  ASSUME TypeOK, NEW c \in Symbols, NEW to
  PROVE  /\ Newest(c, to) \in Series
         /\ \A t \in Slots : Newest(c, to)[t] <= made[c][t]
         /\ \A u \in Times(Newest(c, to)) : u <= to
         /\ to \in Nat => \A u \in Times(Newest(c, to)), t \in Slots :
              u <= t /\ t <= to => Newest(c, to)[t] = made[c][t]
  <1> DEFINE C(t) == {u \in Times(made[c]) : t <= u /\ u <= to}
  <1>1. \A t \in Slots : made[c][t] \in 0..MaxTicks BY DEF TypeOK, Series
  <1>2. \A t \in Slots : Newest(c, to)[t] = IF t <= to /\ Cardinality(C(t)) <= Page THEN made[c][t] ELSE 0
    BY DEF Newest
  <1>3. Newest(c, to) \in Series BY <1>1, SlotsAre DEF Newest, Series
  <1>4. \A t \in Slots : Newest(c, to)[t] <= made[c][t]
    <2>1. \A n \in 0..MaxTicks : 0 <= n /\ n <= n BY TicksAre
    <2> HIDE DEF C
    <2> QED BY <1>1, <1>2, <2>1
  <1>5. \A u \in Times(Newest(c, to)) : u \in Slots /\ u <= to /\ Cardinality(C(u)) <= Page
    BY <1>2 DEF Times
  <1>6. ASSUME to \in Nat, NEW u \in Times(Newest(c, to)), NEW t \in Slots, u <= t, t <= to
        PROVE  Newest(c, to)[t] = made[c][t]
    <2>1. u \in Nat /\ t \in Nat BY SlotsAre
    <2>2. C(t) \subseteq C(u)
      <3>1. \A w \in Nat : t <= w => u <= w BY <1>6, <2>1
      <3> QED BY <3>1, HeldTimes
    <2>3. Cardinality(C(t)) <= Cardinality(C(u)) /\ Cardinality(C(t)) \in Nat /\ Cardinality(C(u)) \in Nat
      BY <2>2, Fewer, SlotsAre
    <2>4. Page \in Nat BY ChartAssumption
    <2>5. Cardinality(C(t)) <= Page BY <1>5, <2>3, <2>4
    <2> QED BY <1>2, <1>6, <2>5
  <1> QED BY <1>3, <1>4, <1>5, <1>6

-----------------------------------------------------------------------------
(* The loads and the queue *)

\* The bars of a range are the market's.
LEMMA InRangeIs ==
  ASSUME TypeOK, NEW c \in Symbols, NEW from, NEW to
  PROVE  /\ InRange(c, from, to) \in Series
         /\ \A t \in Slots : InRange(c, from, to)[t] = IF from <= t /\ t <= to THEN made[c][t] ELSE 0
         /\ \A t \in Slots : InRange(c, from, to)[t] <= made[c][t]
  <1>1. \A t \in Slots : made[c][t] \in 0..MaxTicks BY DEF TypeOK, Series
  <1>2. \A t \in Slots : InRange(c, from, to)[t] = IF from <= t /\ t <= to THEN made[c][t] ELSE 0
    BY DEF InRange
  <1>3. InRange(c, from, to) \in Series BY <1>1, SlotsAre DEF InRange, Series
  <1>4. \A n \in 0..MaxTicks : 0 <= n /\ n <= n BY TicksAre
  <1> QED BY <1>1, <1>2, <1>3, <1>4

\* The empty series is one, of no times.
LEMMA NoBarsAre == NoBars \in Series /\ Times(NoBars) = {} /\ \A t \in Slots : NoBars[t] = 0
  BY SlotsAre DEF NoBars, Series, Times

\* Only the empty series has no times.
LEMMA NoTimes == \A series \in Series : series = NoBars <=> Times(series) = {}
  <1> TAKE series \in Series
  <1>1. \A t \in Slots : series[t] \in 0..MaxTicks BY DEF Series
  <1> QED BY <1>1, NoBarsAre DEF NoBars, Times, Series

\* A load that is asked for, with or without a connection.
LEMMA AskIs ==
  ASSUME TypeOK, NEW kind \in {"initial", "older", "gap"}, NEW of \in Symbols, NEW from \in Slots,
         NEW to \in 0..LastSlot, NEW e \in Nat
  PROVE  LET r == Ask(kind, of, from, to, e) IN
         /\ r \in Requests /\ r.kind = kind /\ r.epoch = e /\ r.of = of /\ r.from = from /\ r.to = to
         /\ r.state \in {"asked", "failed"} /\ r.bars = NoBars
         /\ link => r.state = "asked"
         /\ ~link => r.state = "failed"
  BY NoBarsAre DEF Ask, Requests, TypeOK

\* What is used everywhere.
LEMMA Facts ==
  ASSUME Inv
  PROVE  /\ TypeOK /\ Own /\ Queue /\ Loads /\ Asks /\ Covered
         /\ now \in Slots /\ now \in Nat
         /\ \A c \in Symbols, t \in Slots : made[c][t] \in 0..MaxTicks /\ made[c][t] \in Nat
         /\ \A t \in Slots : held[t] \in 0..MaxTicks /\ held[t] \in Nat
         /\ load # "idle" => shown \in Symbols /\ \A t \in Slots : held[t] <= made[shown][t]
  <1>1. TypeOK /\ Own /\ Queue /\ Loads /\ Asks /\ Covered BY DEF Inv
  <1>2. now \in Slots /\ now \in Nat BY <1>1, SlotsAre DEF TypeOK
  <1>3. \A c \in Symbols, t \in Slots : made[c][t] \in 0..MaxTicks BY <1>1 DEF TypeOK, Series
  <1>4. \A t \in Slots : held[t] \in 0..MaxTicks BY <1>1 DEF TypeOK, Series
  <1>5. load # "idle" => shown \in Symbols /\ \A t \in Slots : held[t] <= made[shown][t]
    BY <1>1, SlotsAre DEF Loads, Own, OnlyItsOwn
  <1>6. \A n \in 0..MaxTicks : n \in Nat BY TicksAre
  <1> QED BY <1>1, <1>2, <1>3, <1>4, <1>5, <1>6

\* The queue after its first event is read.
LEMMA TailIs ==
  ASSUME TypeOK, events # <<>>
  PROVE  /\ Tail(events) \in Seq(Events) /\ Len(events) \in Nat /\ Len(events) > 0
         /\ Len(Tail(events)) = Len(events) - 1 /\ Len(Tail(events)) <= EventCapacity
         /\ Head(events) = events[1]
         /\ \A i \in 1..Len(Tail(events)) : i + 1 \in 1..Len(events) /\ Tail(events)[i] = events[i + 1]
  BY SlotsAre DEF TypeOK

\* Reading an event keeps the order of the queue.
LEMMA TailQueue ==
  ASSUME TypeOK, Queue, events # <<>>, events' = Tail(events), UNCHANGED marketVars
  PROVE  Queue' /\ events' \in Seq(Events) /\ Len(events') <= EventCapacity
  <1>1. \A i \in 1..Len(events') : i + 1 \in 1..Len(events) /\ events'[i] = events[i + 1] BY TailIs
  <1>2. \A i, j \in 1..Len(events') : i < j => i + 1 < j + 1 BY TailIs
  <1>3. now' = now /\ made' = made BY DEF marketVars
  <1> QED BY <1>1, <1>2, <1>3, TailIs DEF Queue

\* What the session tells comes last, and the oldest event may go for it.
LEMMA EmitIs ==
  ASSUME TypeOK, NEW e \in Events, Emit(e)
  PROVE  /\ events' \in Seq(Events) /\ Len(events') <= EventCapacity
         /\ Len(events) \in Nat /\ Len(events') \in Nat /\ Len(events') > 0
         /\ events'[Len(events')] = e
         /\ \/ /\ Len(events') = Len(events) + 1 /\ missed' = missed
               /\ \A i \in 1..Len(events) : events'[i] = events[i]
            \/ /\ Len(events') = Len(events)
               /\ LoseSight({t \in Slots : events[1].kind = "live" => events[1].of = shown /\ events[1].slot = t})
               /\ \A i \in 1..Len(events) - 1 : i + 1 \in 1..Len(events) /\ events'[i] = events[i + 1]
  <1>1. events \in Seq(Events) /\ Len(events) \in Nat /\ Len(events) <= EventCapacity
        /\ EventCapacity \in Nat /\ EventCapacity > 0
    BY SlotsAre DEF TypeOK
  <1>2. CASE Len(events) < EventCapacity
    <2>1. events' = Append(events, e) /\ missed' = missed BY <1>2 DEF Emit
    <2> QED BY <1>1, <1>2, <2>1
  <1>3. CASE ~(Len(events) < EventCapacity)
    <2> DEFINE L == LoseSight({t \in Slots : events[1].kind = "live" => events[1].of = shown /\ events[1].slot = t})
    <2>2. events # <<>> BY <1>1, <1>3
    <2>1. events' = Append(Tail(events), e) /\ L
      <3>1. Head(events) = events[1] BY <2>2, TailIs
      <3> QED BY <1>3, <3>1 DEF Emit
    <2> HIDE DEF L
    <2>3. Len(Tail(events)) = Len(events) - 1 /\ Tail(events) \in Seq(Events)
          /\ \A i \in 1..Len(Tail(events)) : i + 1 \in 1..Len(events) /\ Tail(events)[i] = events[i + 1]
      BY <2>2, TailIs
    <2>4. Len(events') = Len(events) /\ events' \in Seq(Events) /\ events'[Len(events)] = e
          /\ \A i \in 1..Len(events) - 1 : events'[i] = Tail(events)[i]
      BY <1>1, <2>1, <2>2, <2>3
    <2>5. Len(events) > 0 /\ Len(events') <= EventCapacity /\ Len(events') \in Nat /\ Len(events') > 0
      BY <1>1, <1>3, <2>4
    <2>6. \A i \in 1..Len(events) - 1 : i + 1 \in 1..Len(events) /\ events'[i] = events[i + 1]
      BY <2>3, <2>4
    <2>7. Len(events) \in Nat /\ events' \in Seq(Events) BY <1>1, <2>4
    <2> QED BY ONLY <2>7, <2>1, <2>4, <2>5, <2>6 DEF L
  <1> QED BY <1>2, <1>3

\* Telling an event keeps the order of the queue.
LEMMA EmitQueue ==
  ASSUME TypeOK, Queue, NEW e \in Events, Emit(e), UNCHANGED now,
         \A c \in Symbols, t \in Slots : made'[c][t] \in Nat /\ made[c][t] \in Nat /\ made'[c][t] >= made[c][t],
         e.kind = "live" => /\ e.of \in Symbols /\ e.slot = now
                            /\ 0 < e.ticks /\ e.ticks <= made'[e.of][e.slot]
  PROVE  Queue'
  <1> DEFINE n == Len(events')
  <1>1. n \in Nat /\ n > 0 /\ events'[n] = e BY EmitIs
  <1>2. now \in Slots /\ now \in Nat BY SlotsAre DEF TypeOK
  <1>3. \E d \in {0, 1} : \A i \in 1..n - 1 : i + d \in 1..Len(events) /\ events'[i] = events[i + d]
    <2>1. CASE n = Len(events) + 1 /\ \A i \in 1..Len(events) : events'[i] = events[i]
      <3>1. \A i \in 1..n - 1 : i + 0 \in 1..Len(events) /\ events'[i] = events[i + 0]
        BY <1>1, <2>1, EmitIs
      <3> QED BY <3>1
    <2>2. CASE n = Len(events) /\ \A i \in 1..Len(events) - 1 : i + 1 \in 1..Len(events) /\ events'[i] = events[i + 1]
      BY <2>2
    <2> HIDE DEF n
    <2> QED BY <2>1, <2>2, EmitIs DEF n
  <1>4. PICK d \in {0, 1} : \A i \in 1..n - 1 : i + d \in 1..Len(events) /\ events'[i] = events[i + d]
    BY <1>3
  <1> HIDE DEF n
  <1>5. \A i \in 1..Len(events) : events[i].kind = "live" =>
          /\ events[i].of \in Symbols /\ events[i].slot \in Slots /\ events[i].slot <= now
          /\ 0 < events[i].ticks /\ events[i].ticks <= made'[events[i].of][events[i].slot]
    <2> SUFFICES ASSUME NEW i \in 1..Len(events), events[i].kind = "live"
                 PROVE  /\ events[i].of \in Symbols /\ events[i].slot \in Slots /\ events[i].slot <= now
                        /\ 0 < events[i].ticks /\ events[i].ticks <= made'[events[i].of][events[i].slot]
      OBVIOUS
    <2>1. /\ events[i].of \in Symbols /\ events[i].slot \in Slots /\ events[i].slot <= now
          /\ 0 < events[i].ticks /\ events[i].ticks <= made[events[i].of][events[i].slot]
      BY DEF Queue
    <2>2. events[i] \in Events BY DEF TypeOK
    <2>3. events[i].ticks \in Nat BY <2>2, SlotsAre DEF Events
    <2>4. made[events[i].of][events[i].slot] \in Nat /\ made'[events[i].of][events[i].slot] \in Nat
          /\ made'[events[i].of][events[i].slot] >= made[events[i].of][events[i].slot]
      BY <2>1
    <2> QED BY <2>1, <2>3, <2>4
  <1>6. \A i \in 1..n : events'[i].kind = "live" =>
          /\ events'[i].of \in Symbols /\ events'[i].slot \in Slots /\ events'[i].slot <= now
          /\ 0 < events'[i].ticks /\ events'[i].ticks <= made'[events'[i].of][events'[i].slot]
    <2> TAKE i \in 1..n
    <2>1. CASE i = n BY <1>1, <1>2, <2>1
    <2>2. CASE i # n
      <3>1. i \in 1..n - 1 BY <1>1, <2>2
      <3> QED BY <1>4, <1>5, <3>1
    <2> QED BY <2>1, <2>2
  <1>7. \A i, j \in 1..n : i < j /\ events'[i].kind = "live" /\ events'[j].kind = "live" =>
          events'[i].slot <= events'[j].slot
    <2> SUFFICES ASSUME NEW i \in 1..n, NEW j \in 1..n, i < j,
                        events'[i].kind = "live", events'[j].kind = "live"
                 PROVE  events'[i].slot <= events'[j].slot
      OBVIOUS
    <2>1. i \in 1..n - 1 BY <1>1
    <2>2. CASE j = n BY <1>1, <1>6, <2>2
    <2>3. CASE j # n
      <3>1. j \in 1..n - 1 /\ i + d < j + d BY <1>1, <2>3
      <3>2. i + d \in 1..Len(events) /\ j + d \in 1..Len(events)
            /\ events'[i] = events[i + d] /\ events'[j] = events[j + d]
        BY <1>4, <2>1, <3>1
      <3> QED BY <3>1, <3>2 DEF Queue
    <2> QED BY <2>2, <2>3
  <1> QED BY <1>6, <1>7 DEF Queue, n

-----------------------------------------------------------------------------
(* What the user does, and what the loads bring *)

\* What load_older_if_needed asks for begins below everything held.
LEMMA OlderIs ==
  ASSUME TypeOK, NEW series \in Series, NEW idle, NEW others, shown \in Symbols,
         OlderIfNeeded(series, idle, others)
  PROVE  /\ older' \in {"exhausted", "loading", idle}
         /\ others \subseteq requests'
         /\ \A q \in requests' \ others :
              /\ q \in Requests /\ q.kind = "older" /\ q.of = shown /\ q.epoch = epoch
              /\ q.state \in {"asked", "failed"} /\ q.bars = NoBars
              /\ q.to + 1 \in Times(series) /\ \A u \in Times(series) : q.to < u
  <1>1. CASE requests' = others /\ older' \in {"exhausted", idle} BY <1>1
  <1>2. CASE /\ series # NoBars /\ older' = "loading"
             /\ requests' = others \cup {Ask("older", shown, 1, Min(Times(series)) - 1, epoch)}
    <2> DEFINE m == Min(Times(series))
               q == Ask("older", shown, 1, m - 1, epoch)
    <2>1. m \in Times(series) /\ \A u \in Times(series) : m <= u BY <1>2, NoTimes, EndsAre
    <2>2. m \in Slots /\ m \in Nat /\ m > 0 /\ m <= LastSlot BY <2>1, SlotsAre DEF Slots
    <2>3. 1 \in Slots /\ m - 1 \in 0..LastSlot /\ m - 1 + 1 = m BY <2>2, SlotsAre DEF Slots
    <2> HIDE DEF m
    <2>4. /\ q \in Requests /\ q.kind = "older" /\ q.epoch = epoch /\ q.of = shown /\ q.to = m - 1
          /\ q.state \in {"asked", "failed"} /\ q.bars = NoBars
      BY <2>3, AskIs DEF TypeOK
    <2>5. \A u \in Times(series) : m - 1 < u BY <2>1, <2>2, HeldTimes
    <2> HIDE DEF q
    <2>6. requests' = others \cup {q} /\ older' = "loading" BY <1>2 DEF q, m
    <2> QED BY <2>1, <2>3, <2>4, <2>5, <2>6
  <1> QED BY <1>1, <1>2 DEF OlderIfNeeded

\* A reload leaves nothing that lags and is not to come with the first load.
LEMMA ReloadInv ==
  ASSUME Inv, NEW c \in Symbols, Reload(c), UNCHANGED <<netVars, marketVars>>,
         events' \in Seq(Events), Len(events') <= EventCapacity, Queue'
  PROVE  Inv'
  <1> DEFINE q == Ask("initial", c, 1, now, epoch + 1)
  <1>1. 1 \in Slots /\ now \in 0..LastSlot /\ epoch + 1 \in Nat /\ epoch \in Nat
    BY Facts, SlotsAre DEF Slots, TypeOK
  <1>2. q \in Requests /\ q.kind = "initial" /\ q.epoch = epoch + 1 /\ q.of = c /\ q.bars = NoBars
        /\ q.state # "answered"
    BY Facts, <1>1, AskIs
  <1>3. /\ shown' = c /\ epoch' = epoch + 1 /\ load' = "loading" /\ older' = "idle"
        /\ held' = NoBars /\ missed' = {} /\ requests' = requests \cup {q}
        /\ link' = link /\ signed' = signed /\ followed' = followed /\ drops' = drops
        /\ now' = now /\ made' = made
    BY DEF Reload, netVars, marketVars
  <1> HIDE DEF q
  <1>4. TypeOK' BY <1>1, <1>2, <1>3, Facts, NoBarsAre DEF TypeOK
  <1>5. Own' BY <1>2, <1>3, Facts, NoBarsAre DEF Own, OnlyItsOwn
  <1>6. \A r \in requests' : r.epoch <= epoch + 1 /\ (r.epoch = epoch + 1 => r = q)
    BY <1>1, <1>2, <1>3, Facts DEF Loads, TypeOK, Requests
  <1>7. Loads' BY <1>2, <1>3, <1>6 DEF Loads, Current
  <1>8. Asks' BY <1>2, <1>3, <1>6 DEF Asks, Current
  <1>9. Covered' BY <1>3 DEF Covered
  <1> QED BY <1>4, <1>5, <1>7, <1>8, <1>9 DEF Inv

\* Showing a symbol is a reload.
LEMMA ShowInv == ASSUME Inv, NEW c \in Symbols, Show(c) PROVE Inv'
  <1>1. events' = events /\ UNCHANGED <<netVars, marketVars>> /\ Reload(c) BY DEF Show
  <1>2. Queue' BY <1>1, Facts DEF Queue, marketVars
  <1> QED BY <1>1, <1>2, ReloadInv, Facts DEF TypeOK

\* Nor does the user's retry.
LEMMA RetryInv == ASSUME Inv, Retry PROVE Inv'
  <1>1. events' = events /\ UNCHANGED <<netVars, marketVars>> /\ Reload(shown) /\ shown \in Symbols
    BY Facts DEF Retry, Loads
  <1>2. Queue' BY <1>1, Facts DEF Queue, marketVars
  <1> QED BY <1>1, <1>2, ReloadInv, Facts DEF TypeOK

\* No bar held is of a slot to come.
LEMMA HeldIsOver == ASSUME Inv, load # "idle" PROVE \A u \in Times(held) : u <= now
  <1>1. \A u \in Times(held) : u \in Slots /\ made[shown][u] > 0
    <2> TAKE u \in Times(held)
    <2>1. u \in Slots /\ held[u] > 0 BY DEF Times
    <2> QED BY <2>1, Facts
  <1> QED BY <1>1, Facts DEF Own

\* Asking for an older page puts its slots in scope, and they are the market's to come with it.
LEMMA AskOlderInv == ASSUME Inv, AskOlder PROVE Inv'
  <1>1. /\ load = "ready" /\ older \in {"idle", "retry"} /\ Times(held) # {} /\ shown \in Symbols
        /\ OlderIfNeeded(held, older, requests)
        /\ shown' = shown /\ epoch' = epoch /\ load' = load /\ held' = held /\ events' = events
        /\ link' = link /\ signed' = signed /\ followed' = followed /\ drops' = drops
        /\ now' = now /\ made' = made /\ missed' = missed
    BY Facts, NoTimes DEF AskOlder, netVars, marketVars, TypeOK, Loads
  <1> DEFINE N == requests' \ requests
  <1>2. /\ requests' = requests \cup N /\ N \subseteq Requests
                 /\ \A q \in N : /\ q.kind = "older" /\ q.of = shown /\ q.epoch = epoch
                                 /\ q.state \in {"asked", "failed"} /\ q.bars = NoBars
                                 /\ q.to + 1 \in Times(held) /\ \A u \in Times(held) : q.to < u
    <2>1. TypeOK /\ held \in Series BY Facts DEF TypeOK
    <2> QED BY <1>1, <2>1, OlderIs
  <1>3. older' \in {"exhausted", "loading", older} BY <1>1, OlderIs, Facts DEF TypeOK
  <1> HIDE DEF N
  <1>4. TypeOK' BY <1>1, <1>2, <1>3, Facts DEF TypeOK
  <1>5. Own' BY <1>1, <1>2, Facts, NoBarsAre DEF Own, OnlyItsOwn
  <1>6. Queue' BY <1>1, Facts DEF Queue
  <1>7. Loads'
    <2>1. \A r \in requests : Current(r) => r.kind # "initial" BY <1>1, Facts DEF Loads
    <2> QED BY <1>1, <1>2, <2>1, Facts DEF Loads, Current, TypeOK
  <1>8. \A q \in N : q.to < now
    <2> TAKE q \in N
    <2>1. q.to + 1 <= now /\ q.to \in Nat BY <1>1, <1>2, HeldIsOver, SlotsAre DEF Requests
    <2> QED BY <2>1, Facts
  <1>9. Asks' BY <1>1, <1>2, <1>8, Facts DEF Asks, Current
  <1>10. Covered'
    <2> SUFFICES ASSUME NEW t \in Slots, InScope(t)', held[t] # made[shown][t]
                 PROVE  (t \in missed \/ Fetched(t) \/ Told(t) \/ Refilled(t))'
      BY <1>1 DEF Covered
    <2>1. InScope(t) BY <1>1, <1>2 DEF InScope, Bottom, Current
    <2>2. t \in missed \/ Fetched(t) \/ Told(t) \/ Refilled(t) BY <1>1, <2>1, Facts DEF Covered
    <2>3. Fetched(t) => Fetched(t)' BY <1>1, <1>2 DEF Fetched, Current
    <2>4. Told(t) => Told(t)' BY <1>1 DEF Told, Newer
    <2>5. Refilled(t) => Refilled(t)' BY <1>1 DEF Refilled, Newer, Sent
    <2> QED BY <1>1, <2>2, <2>3, <2>4, <2>5
  <1> QED BY <1>4, <1>5, <1>6, <1>7, <1>9, <1>10 DEF Inv

\* A load of something shown before changes nothing.
LEMMA OutdatedInv == ASSUME Inv, NEW r \in requests, Outdated(r) PROVE Inv'
  <1>1. /\ ~Current(r) /\ requests' = requests \ {r}
        /\ shown' = shown /\ epoch' = epoch /\ load' = load /\ held' = held /\ older' = older
        /\ events' = events /\ missed' = missed
        /\ link' = link /\ signed' = signed /\ followed' = followed /\ drops' = drops
        /\ now' = now /\ made' = made
    BY DEF Outdated, Done, chartVars, netVars, marketVars
  <1>2. TypeOK' BY <1>1, Facts DEF TypeOK
  <1>3. Own' BY <1>1, Facts DEF Own, OnlyItsOwn
  <1>4. Queue' BY <1>1, Facts DEF Queue
  <1>5. Loads' BY <1>1, Facts DEF Loads, Current
  <1>6. Asks' BY <1>1, Facts DEF Asks, Current
  <1>7. Covered'
    <2> SUFFICES ASSUME load = "ready", NEW t \in Slots, InScope(t)', held[t] # made[shown][t]
                 PROVE  (t \in missed \/ Fetched(t) \/ Told(t) \/ Refilled(t))'
      BY <1>1 DEF Covered
    <2>1. InScope(t) BY <1>1 DEF InScope, Bottom, Current
    <2>2. t \in missed \/ Fetched(t) \/ Told(t) \/ Refilled(t) BY <1>1, <2>1, Facts DEF Covered
    <2>3. Fetched(t) => Fetched(t)' BY <1>1 DEF Fetched, Current
    <2>4. Told(t) => Told(t)' BY <1>1 DEF Told, Newer
    <2>5. Refilled(t) => Refilled(t)' BY <1>1 DEF Refilled, Newer, Sent
    <2> QED BY <1>1, <2>2, <2>3, <2>4, <2>5
  <1> QED BY <1>2, <1>3, <1>4, <1>5, <1>6, <1>7 DEF Inv

\* A first load gives up what it does not bring, of what it begins with, and no queued bar tells.
LEMMA InitialInv == ASSUME Inv, NEW r \in requests, InitialLoaded(r) PROVE Inv'
  <1>1. /\ r.kind = "initial" /\ r.state # "asked" /\ Current(r) /\ r \in Requests
        /\ r.of = shown /\ load = "loading" /\ shown \in Symbols
        /\ \A q \in requests : Current(q) => q = r
        /\ shown' = shown /\ epoch' = epoch /\ events' = events
        /\ link' = link /\ signed' = signed /\ followed' = followed /\ drops' = drops
        /\ now' = now /\ made' = made
    BY Facts DEF InitialLoaded, netVars, marketVars, TypeOK, Loads
  <1>2. Queue' BY <1>1, Facts DEF Queue
  <1>3. CASE r.state = "answered"
    <2>1. /\ held' = r.bars /\ load' = "ready" /\ missed' = (missed \cup (Accounted(held') \cap Untold(events))) \cap Behind(held', shown)
          /\ OlderIfNeeded(held', older, requests \ {r}) /\ held' \in Series
      BY <1>1, <1>3 DEF InitialLoaded, GiveUp, Requests
    <2> DEFINE N == requests' \ (requests \ {r})
    <2>2. /\ requests' = (requests \ {r}) \cup N /\ N \subseteq Requests
                   /\ \A q \in N : /\ q.kind = "older" /\ q.of = shown /\ q.epoch = epoch
                                   /\ q.state \in {"asked", "failed"} /\ q.bars = NoBars
                                   /\ q.to + 1 \in Times(held') /\ \A u \in Times(held') : q.to < u
      BY <1>1, <2>1, OlderIs, Facts
    <2>3. older' \in {"exhausted", "loading", older} BY <1>1, <2>1, OlderIs, Facts
    <2> HIDE DEF N
    <2>4. TypeOK'
      <3>1. missed' \subseteq Slots BY <2>1, Facts DEF TypeOK, Behind
      <3> QED BY <1>1, <2>1, <2>2, <2>3, <3>1, Facts DEF TypeOK
    <2>5. \A t \in Slots : held'[t] <= made[shown][t] /\ held'[t] \in Nat
      <3>1. \A t \in Slots : held'[t] \in 0..MaxTicks BY <2>1 DEF Series
      <3>2. \A t \in Slots : held'[t] <= made[shown][t] BY <1>1, <2>1, Facts DEF Own
      <3>3. \A t \in Slots : held'[t] \in Nat BY <3>1, TicksAre
      <3> QED BY <3>2, <3>3
    <2>6. Own' BY <1>1, <2>1, <2>2, <2>5, Facts, NoBarsAre DEF Own, OnlyItsOwn
    <2>7. \A q \in requests' : Current(q) => q \in N BY <1>1, <2>2 DEF Current
    <2>8. Loads' BY <1>1, <2>1, <2>2, <2>7, Facts DEF Loads, Current, TypeOK
    <2>9. \A q \in N : q.to < now
      <3> TAKE q \in N
      <3>1. q.to + 1 \in Slots /\ q.to \in Nat /\ held'[q.to + 1] > 0
        BY <2>2, SlotsAre DEF Requests, Times
      <3>2. made[shown][q.to + 1] > 0 BY <1>1, <2>5, <3>1, Facts
      <3> QED BY <1>1, <3>1, <3>2, Facts DEF Own
    <2>10. Asks' BY <1>1, <2>1, <2>2, <2>7, <2>9 DEF Asks, Current
    <2>11. Covered'
      <3> SUFFICES ASSUME NEW t \in Slots, InScope(t)', held'[t] # made[shown][t], t \notin missed'
                   PROVE  Told(t)'
        BY <1>1, <2>1 DEF Covered
      <3>1. t \in Behind(held', shown) BY <1>1, <2>1, <2>5, Facts, SlotsAre DEF Behind
      <3>2. Times(held') = {} \/ \E u \in Times(held') : u <= t
        <4>1. ASSUME NEW q \in requests', q.epoch = epoch, q.kind # "initial", Bottom(q) <= t
              PROVE  \E u \in Times(held') : u <= t
          <5>1. q \in N BY <2>7, <4>1 DEF Current
          <5>2. q.to + 1 \in Times(held') /\ q.to + 1 <= t BY <2>2, <4>1, <5>1 DEF Bottom
          <5> QED BY <5>2
        <4> QED BY <1>1, <4>1 DEF InScope, Current, Bottom
      <3>3. t \in Accounted(held') BY <2>1, <3>2, NoTimes DEF Accounted
      <3>4. \E i \in 1..Len(events) :
              events[i] = [kind |-> "live", of |-> shown, slot |-> t, ticks |-> made[shown][t]]
        <4>1. DOMAIN events = 1..Len(events) BY Facts DEF TypeOK
        <4> QED BY <2>1, <3>1, <3>3, <4>1 DEF Untold
      <3>5. ~Newer(t)'
        <4> SUFFICES ASSUME NEW v \in Times(held'), v > t PROVE FALSE BY DEF Newer
        <4>1. t < v BY Times0, HeldTimes
        <4>2. PICK u \in Times(held') : u <= t BY <3>2
        <4> QED BY <1>1, <1>3, <2>1, <4>1, <4>2, Facts DEF Asks
      <3> QED BY <1>1, <3>4, <3>5 DEF Told
    <2> QED BY <1>2, <2>4, <2>6, <2>8, <2>10, <2>11 DEF Inv
  <1>4. CASE r.state # "answered"
    <2>1. load' = "failed" /\ requests' = requests \ {r} /\ held' = held /\ older' = older /\ missed' = missed
      BY <1>4 DEF InitialLoaded, Done
    <2>2. TypeOK' BY <1>1, <2>1, Facts DEF TypeOK
    <2>3. Own' BY <1>1, <2>1, Facts DEF Own, OnlyItsOwn
    <2>4. \A q \in requests' : ~Current(q)' BY <1>1, <2>1 DEF Current
    <2>5. Loads' /\ Asks' BY <1>1, <2>1, <2>4, Facts DEF Loads, Asks, Current
    <2>6. Covered' BY <2>1 DEF Covered
    <2> QED BY <1>2, <2>2, <2>3, <2>5, <2>6 DEF Inv
  <1> QED BY <1>3, <1>4

\* A gap brings what it covered, and a failed one is given up.
LEMMA GapInv == ASSUME Inv, NEW r \in requests, GapLoaded(r) PROVE Inv'
  <1>1. /\ r.kind = "gap" /\ r.state # "asked" /\ Current(r) /\ r \in Requests
        /\ r.of = shown /\ load = "ready" /\ shown \in Symbols
        /\ requests' = requests \ {r} /\ older' = older /\ load' = load
        /\ shown' = shown /\ epoch' = epoch /\ events' = events
        /\ link' = link /\ signed' = signed /\ followed' = followed /\ drops' = drops
        /\ now' = now /\ made' = made
    BY Facts DEF GapLoaded, Done, netVars, marketVars, TypeOK, Loads
  <1>2. Queue' BY <1>1, Facts DEF Queue
  <1>3. Loads' BY <1>1, Facts DEF Loads, Current
  <1>4. PICK w \in Times(held) : r.from <= w BY <1>1, Facts DEF Asks
  <1>5. CASE r.state = "answered"
    <2>1. held' = Merge(held, r.bars) /\ missed' = missed \cap Behind(held', shown)
          /\ held \in Series /\ r.bars \in Series
      BY <1>1, <1>5, Facts DEF GapLoaded, GiveUp, TypeOK, Requests
    <2>2. /\ held' \in Series /\ Times(held') = Times(held) \cup Times(r.bars)
          /\ \A t \in Slots : held'[t] \in {held[t], r.bars[t]} /\ held'[t] >= held[t] /\ held'[t] >= r.bars[t]
      BY <2>1, MergeIs
    <2>3. \A t \in Slots : held'[t] \in Nat /\ r.bars[t] \in Nat /\ held'[t] <= made[shown][t]
                           /\ r.bars[t] <= made[shown][t]
      <3>1. \A t \in Slots : r.bars[t] \in 0..MaxTicks BY <2>1 DEF Series
      <3>2. \A t \in Slots : r.bars[t] <= made[shown][t] BY <1>1, Facts DEF Own
      <3>3. \A t \in Slots : held[t] <= made[shown][t] /\ held[t] \in Nat BY <1>1, Facts
      <3> QED BY <2>2, <3>1, <3>2, <3>3, SlotsAre
    <2>4. TypeOK' BY <1>1, <2>1, <2>2, Facts DEF TypeOK
    <2>5. Own' BY <1>1, <2>3, Facts DEF Own, OnlyItsOwn
    <2>6. Asks' BY <1>1, <2>2, Facts DEF Asks, Current
    <2>7. Covered'
      <3> SUFFICES ASSUME NEW t \in Slots, InScope(t)', held'[t] # made[shown][t]
                   PROVE  (t \in missed \/ Fetched(t) \/ Told(t) \/ Refilled(t))'
        BY <1>1 DEF Covered
      <3>1. t \in Nat /\ made[shown][t] \in Nat BY <1>1, Times0, Facts
      <3>2. InScope(t)
        <4>1. CASE \E u \in Times(r.bars) : u <= t
          <5>1. PICK u \in Times(r.bars) : u <= t BY <4>1
          <5>2. r.from <= u BY <1>1, <1>5, <5>1, Facts DEF Asks
          <5>3. r.from \in Nat /\ u \in Nat BY <1>1, SlotsAre DEF Requests
          <5>4. Bottom(r) <= t BY <1>1, <3>1, <5>1, <5>2, <5>3 DEF Bottom
          <5> QED BY <1>1, <5>4 DEF InScope
        <4>2. CASE ~\E u \in Times(r.bars) : u <= t
          BY <1>1, <1>4, <2>2, <4>2 DEF InScope, Bottom, Current
        <4> QED BY <4>1, <4>2
      <3>3. held[t] # made[shown][t] /\ t \in Behind(held', shown) /\ r.bars[t] # made[shown][t]
        <4>1. held'[t] < made[shown][t] /\ held'[t] \in Nat BY <2>3, <3>1
        <4>2. held[t] <= held'[t] /\ r.bars[t] <= held'[t] /\ held[t] \in Nat /\ r.bars[t] \in Nat
          BY <2>2, <2>3, Facts
        <4>3. held[t] < made[shown][t] /\ r.bars[t] < made[shown][t] BY <3>1, <4>1, <4>2
        <4> QED BY <1>1, <3>1, <4>1, <4>2, <4>3, SlotsAre DEF Behind
      <3>4. t \in missed \/ Fetched(t) \/ Told(t) \/ Refilled(t)
        BY <1>1, <3>2, <3>3, Facts DEF Covered
      <3>5. Fetched(t) => Fetched(t)' BY <1>1, <1>5, <3>3 DEF Fetched, Current
      <3>6. ~Newer(t) => ~Newer(t)'
        <4> SUFFICES ASSUME ~Newer(t), NEW u \in Times(held'), u > t PROVE FALSE
          BY DEF Newer
        <4>1. u \in Times(r.bars) /\ u \in Slots BY <2>2, SlotsAre DEF Newer
        <4>2. w \in Nat /\ r.from \in Nat BY <1>1, HeldTimes, SlotsAre DEF Requests
        <4>3. w <= t BY <3>1, <4>2 DEF Newer
        <4>4. r.from <= t BY <1>4, <3>1, <4>2, <4>3
        <4> QED BY <1>1, <1>5, <3>3, <4>1, <4>4, Facts, Times0 DEF Asks
      <3>7. held[t] > 0 => held'[t] > 0 BY <2>2, <2>3, Facts
      <3>8. Told(t) => Told(t)' BY <1>1, <3>6, <3>7 DEF Told
      <3>9. Refilled(t) => Refilled(t)' BY <1>1, <3>6 DEF Refilled, Sent
      <3> QED BY <2>1, <3>3, <3>4, <3>5, <3>8, <3>9
    <2> QED BY <1>2, <1>3, <2>4, <2>5, <2>6, <2>7 DEF Inv
  <1>6. CASE r.state # "answered"
    <2>1. held' = held /\ missed' = (missed \cup (r.from..r.to)) \cap Behind(held, shown)
      BY <1>1, <1>6 DEF GapLoaded, GiveUp, Behind
    <2>2. TypeOK' BY <1>1, <2>1, Facts DEF TypeOK, Behind
    <2>3. Own' BY <1>1, <2>1, Facts DEF Own, OnlyItsOwn
    <2>4. Asks' BY <1>1, <2>1, Facts DEF Asks, Current
    <2>5. Covered'
      <3> SUFFICES ASSUME NEW t \in Slots, InScope(t)', held[t] # made[shown][t]
                   PROVE  (t \in missed \/ Fetched(t) \/ Told(t) \/ Refilled(t))'
        BY <1>1, <2>1 DEF Covered
      <3>1. InScope(t) BY <1>1, <2>1 DEF InScope, Bottom, Current
      <3>2. t \in missed \/ Fetched(t) \/ Told(t) \/ Refilled(t) BY <1>1, <3>1, Facts DEF Covered
      <3>3. t \in Behind(held, shown) BY <1>1, Facts, SlotsAre DEF Behind
      <3>4. Fetched(t) => Fetched(t)' \/ t \in missed'
        <4>1. r.from \in Slots /\ r.to \in 0..LastSlot BY <1>1 DEF Requests
        <4>2. r.from <= t /\ t <= r.to => t \in r.from..r.to BY <4>1, Times0, SlotsAre DEF Slots
        <4> QED BY <1>1, <1>6, <2>1, <3>3, <4>2 DEF Fetched, Current
      <3>5. Told(t) => Told(t)' BY <1>1, <2>1 DEF Told, Newer
      <3>6. Refilled(t) => Refilled(t)' BY <1>1, <2>1 DEF Refilled, Newer, Sent
      <3> QED BY <2>1, <3>2, <3>3, <3>4, <3>5, <3>6
    <2> QED BY <1>2, <1>3, <2>2, <2>3, <2>4, <2>5 DEF Inv
  <1> QED BY <1>5, <1>6

\* A page ends right below what is held, and has every bar from its oldest one on.
LEMMA OlderInv == ASSUME Inv, NEW r \in requests, OlderLoaded(r) PROVE Inv'
  <1>1. /\ r.kind = "older" /\ r.state # "asked" /\ Current(r) /\ r \in Requests
        /\ r.of = shown /\ load = "ready" /\ shown \in Symbols /\ load' = load
        /\ missed' = missed \cap Behind(held', shown) /\ Times(held) # {}
        /\ shown' = shown /\ epoch' = epoch /\ events' = events
        /\ link' = link /\ signed' = signed /\ followed' = followed /\ drops' = drops
        /\ now' = now /\ made' = made
    BY Facts DEF OlderLoaded, GiveUp, netVars, marketVars, TypeOK, Loads, Asks
  <1>2. Queue' BY <1>1, Facts DEF Queue
  <1>3. CASE r.state = "answered"
    <2> DEFINE N == requests' \ (requests \ {r})
    <2>1. /\ held' = Prepend(held, r.bars) /\ held \in Series /\ r.bars \in Series
          /\ \/ requests' = requests \ {r} /\ older' = "exhausted"
             \/ OlderIfNeeded(held', "idle", requests \ {r})
      BY <1>1, <1>3, Facts DEF OlderLoaded, Done, TypeOK, Requests
    <2>2. /\ held' \in Series /\ Times(held) \subseteq Times(held')
          /\ Times(held') \subseteq Times(held) \cup Times(r.bars)
          /\ \A t \in Slots : IF \A u \in Times(held) : t < u THEN held'[t] = r.bars[t] ELSE held'[t] = held[t]
      BY <1>1, <2>1, PrependIs
    <2>3. /\ requests' = (requests \ {r}) \cup N /\ N \subseteq Requests
          /\ older' \in {"exhausted", "loading", "idle"}
          /\ \A q \in N : /\ q.kind = "older" /\ q.of = shown /\ q.epoch = epoch
                          /\ q.state \in {"asked", "failed"} /\ q.bars = NoBars
                          /\ q.to + 1 \in Times(held') /\ \A u \in Times(held') : q.to < u
      BY <1>1, <2>1, <2>2, OlderIs, Facts
    <2> HIDE DEF N
    <2>4. TypeOK' BY <1>1, <2>2, <2>3, Facts DEF TypeOK, Behind
    <2>5. \A t \in Slots : held'[t] \in Nat /\ r.bars[t] \in Nat /\ held'[t] <= made[shown][t]
      <3>1. \A t \in Slots : r.bars[t] \in 0..MaxTicks BY <2>1 DEF Series
      <3>2. \A t \in Slots : r.bars[t] <= made[shown][t] BY <1>1, Facts DEF Own
      <3>3. \A t \in Slots : held[t] <= made[shown][t] /\ held[t] \in Nat BY <1>1, Facts
      <3>4. \A t \in Slots : r.bars[t] \in Nat BY <3>1, TicksAre
      <3>5. \A t \in Slots : held'[t] = r.bars[t] \/ held'[t] = held[t] BY <2>2
      <3> QED BY <3>2, <3>3, <3>4, <3>5
    <2>6. Own' BY <1>1, <2>3, <2>5, Facts, NoBarsAre DEF Own, OnlyItsOwn
    <2>7. Loads' BY <1>1, <2>3, Facts DEF Loads, Current, TypeOK
    <2>8. \A q \in N : q.to < now
      <3> TAKE q \in N
      <3>1. q.to + 1 \in Slots /\ q.to \in Nat /\ held'[q.to + 1] > 0
        BY <2>3, SlotsAre DEF Requests, Times
      <3>2. made[shown][q.to + 1] > 0 BY <1>1, <2>5, <3>1, Facts
      <3> QED BY <1>1, <3>1, <3>2, Facts DEF Own
    <2>9. Asks' BY <1>1, <2>2, <2>3, <2>8, Facts DEF Asks, Current
    <2>10. Covered'
      <3> SUFFICES ASSUME NEW t \in Slots, InScope(t)', held'[t] # made[shown][t]
                   PROVE  (t \in missed \/ Fetched(t) \/ Told(t) \/ Refilled(t))'
        BY <1>1 DEF Covered
      <3>1. t \in Nat /\ made[shown][t] \in Nat BY <1>1, Times0, Facts
      <3>2. InScope(t)
        <4>1. CASE \E u \in Times(held) : u <= t BY <4>1 DEF InScope
        <4>2. CASE (~\E u \in Times(held) : u <= t) /\ \E u \in Times(held') : u <= t
          <5>1. PICK u \in Times(held') : u <= t BY <4>2
          <5>2. u \in Times(r.bars) BY <2>2, <4>2, <5>1
          <5>3. \A v \in Times(held) : t < v BY <3>1, <4>2, HeldTimes
          <5>4. r.bars[t] # made[shown][t] BY <2>2, <5>3
          <5>5. ~(t <= r.to) BY <1>1, <1>3, <5>1, <5>2, <5>4, Facts DEF Asks
          <5>6. r.to \in Nat BY <1>1, SlotsAre DEF Requests
          <5>7. Bottom(r) <= t BY <1>1, <3>1, <5>5, <5>6 DEF Bottom
          <5> QED BY <1>1, <5>7 DEF InScope
        <4>3. CASE ~\E u \in Times(held') : u <= t
          <5>1. Times(held') # {} BY <1>1, <2>2
          <5>2. PICK q \in requests' : q.epoch = epoch /\ q.kind # "initial" /\ Bottom(q) <= t
            BY <1>1, <4>3, <5>1 DEF InScope, Current, Bottom
          <5>3. q \notin N BY <2>3, <4>3, <5>2 DEF Bottom
          <5> QED BY <2>3, <5>2, <5>3 DEF InScope, Current
        <4> QED BY <4>1, <4>2, <4>3
      <3>3. held[t] # made[shown][t] /\ t \in Behind(held', shown)
        <4>1. held'[t] < made[shown][t] BY <2>5, <3>1
        <4>2. CASE held'[t] = held[t] BY <1>1, <2>5, <3>1, <4>1, <4>2, SlotsAre DEF Behind
        <4>3. CASE held'[t] # held[t]
          <5>1. \A u \in Times(held) : t < u BY <2>2, <4>3
          <5>2. t \notin Times(held) BY <3>1, <5>1
          <5>3. held[t] = 0 BY <5>2, Facts DEF Times
          <5> QED BY <1>1, <2>5, <3>1, <4>1, <5>3, SlotsAre DEF Behind
        <4> QED BY <4>2, <4>3
      <3>4. t \in missed \/ Fetched(t) \/ Told(t) \/ Refilled(t)
        BY <1>1, <3>2, <3>3, Facts DEF Covered
      <3>5. Fetched(t) => Fetched(t)' BY <1>1, <2>3 DEF Fetched, Current
      <3>6. ~Newer(t) => ~Newer(t)'
        <4> SUFFICES ASSUME ~Newer(t), NEW u \in Times(held'), u > t PROVE FALSE
          BY DEF Newer
        <4>1. u \notin Times(held) /\ u \in Slots /\ u \in Nat BY SlotsAre DEF Newer
        <4>2. held'[u] # held[u] BY <4>1 DEF Times
        <4>3. PICK v \in Times(held) : TRUE BY <1>1
        <4>4. u < v /\ v \in Nat BY <2>2, <4>1, <4>2, <4>3, HeldTimes
        <4> QED BY <3>1, <4>1, <4>3, <4>4 DEF Newer
      <3>7. held[t] > 0 => held'[t] > 0 BY <2>2 DEF Times
      <3>8. Told(t) => Told(t)' BY <1>1, <3>6, <3>7 DEF Told
      <3>9. Refilled(t) => Refilled(t)' BY <1>1, <3>6 DEF Refilled, Sent
      <3> QED BY <1>1, <3>3, <3>4, <3>5, <3>8, <3>9
    <2> QED BY <1>2, <2>4, <2>6, <2>7, <2>9, <2>10 DEF Inv
  <1>4. CASE r.state # "answered"
    <2>1. held' = held /\ older' = "retry" /\ requests' = requests \ {r}
      BY <1>1, <1>4 DEF OlderLoaded, Done
    <2>2. TypeOK' BY <1>1, <2>1, Facts DEF TypeOK
    <2>3. Own' BY <1>1, <2>1, Facts DEF Own, OnlyItsOwn
    <2>4. Loads' /\ Asks' BY <1>1, <2>1, Facts DEF Loads, Asks, Current
    <2>5. Covered'
      <3> SUFFICES ASSUME NEW t \in Slots, InScope(t)', held[t] # made[shown][t]
                   PROVE  (t \in missed \/ Fetched(t) \/ Told(t) \/ Refilled(t))'
        BY <1>1, <2>1 DEF Covered
      <3>1. InScope(t) BY <1>1, <2>1 DEF InScope, Bottom, Current
      <3>2. t \in missed \/ Fetched(t) \/ Told(t) \/ Refilled(t) BY <1>1, <3>1, Facts DEF Covered
      <3>3. t \in missed => t \in missed' BY <1>1, <2>1, Facts, SlotsAre DEF Behind
      <3>4. Fetched(t) => Fetched(t)' BY <1>1, <2>1 DEF Fetched, Current
      <3>5. Told(t) => Told(t)' BY <1>1, <2>1 DEF Told, Newer
      <3>6. Refilled(t) => Refilled(t)' BY <1>1, <2>1 DEF Refilled, Newer, Sent
      <3> QED BY <3>2, <3>3, <3>4, <3>5, <3>6
    <2> QED BY <1>2, <2>2, <2>3, <2>4, <2>5 DEF Inv
  <1> QED BY <1>3, <1>4

-----------------------------------------------------------------------------
(* The events that are read *)

\* When the first event is read, the others move up.
LEMMA MovesUp ==
  ASSUME TypeOK, events # <<>>, events' = Tail(events), NEW i \in 1..Len(events), i # 1
  PROVE  i - 1 \in 1..Len(events') /\ events'[i - 1] = events[i]
  <1>1. i - 1 \in 1..Len(events') BY TailIs
  <1>2. (i - 1) + 1 = i BY TailIs
  <1> QED BY <1>1, <1>2, TailIs

\* A bar in the queue is still there when another event is read.
LEMMA ToldLater ==
  ASSUME TypeOK, events # <<>>, events' = Tail(events), NEW t, Told(t),
         Head(events) # [kind |-> "live", of |-> shown, slot |-> t, ticks |-> made[shown][t]],
         (held[t] > 0 \/ ~Newer(t))', UNCHANGED <<shown, made>>
  PROVE  Told(t)'
  <1>1. PICK i \in 1..Len(events) :
          events[i] = [kind |-> "live", of |-> shown, slot |-> t, ticks |-> made[shown][t]]
    BY DEF Told
  <1>2. i # 1 BY <1>1, TailIs
  <1>3. i - 1 \in 1..Len(events') /\ events'[i - 1] = events[i] BY <1>2, MovesUp
  <1> QED BY <1>1, <1>3 DEF Told

\* And so is a Ready that comes before the live bars after it.
LEMMA RefilledLater ==
  ASSUME TypeOK, events # <<>>, events' = Tail(events), Head(events).kind = "live",
         NEW t, Refilled(t), ~Newer(t)', UNCHANGED <<shown, netVars>>
  PROVE  Refilled(t)'
  <1>1. PICK p \in 1..Len(events) + 1 :
          /\ IF p = Len(events) + 1 THEN ~Sent(shown) ELSE events[p].kind = "ready"
          /\ \A i \in 1..p - 1 : events[i].kind = "live" /\ events[i].of = shown => events[i].slot <= t
    BY DEF Refilled
  <1>2. Len(events) \in Nat /\ Len(events) > 0 /\ Len(events') = Len(events) - 1 /\ Head(events) = events[1]
    BY TailIs
  <1>3. p # 1 BY <1>1, <1>2
  <1>4. p - 1 \in 1..Len(events') + 1 /\ (p - 1 = Len(events') + 1 <=> p = Len(events) + 1)
    BY <1>2, <1>3
  <1>5. p # Len(events) + 1 => events'[p - 1] = events[p] BY <1>2, <1>3, MovesUp
  <1>6. \A i \in 1..(p - 1) - 1 : i + 1 \in 1..p - 1 /\ events'[i] = events[i + 1]
    BY <1>2, TailIs
  <1>7. UNCHANGED Sent(shown) BY DEF netVars, Sent
  <1> QED BY <1>1, <1>4, <1>5, <1>6, <1>7 DEF Refilled

\* A Ready that is read becomes the gap load it was to bring.
LEMMA OnReadyInv == ASSUME Inv, OnReady PROVE Inv'
  <1>1. /\ events # <<>> /\ Head(events).kind = "ready" /\ events' = Tail(events)
        /\ UNCHANGED <<netVars, marketVars>>
        /\ link' = link /\ signed' = signed /\ followed' = followed /\ drops' = drops
        /\ now' = now /\ made' = made
    BY DEF OnReady, netVars, marketVars
  <1>2. Queue' /\ events' \in Seq(Events) /\ Len(events') <= EventCapacity BY <1>1, TailQueue, Facts
  <1>3. load # "idle" => shown \in Symbols BY Facts
  <1>4. CASE load # "idle" /\ Reload(shown) BY <1>1, <1>2, <1>3, <1>4, ReloadInv
  <1>5. CASE load = "ready" /\ held # NoBars /\ Refill
    <2> DEFINE m == Max(Times(held))
               g == Ask("gap", shown, m, now, epoch)
    <2>1. held \in Series /\ Times(held) # {} BY <1>5, Facts, NoTimes DEF TypeOK
    <2>2. m \in Times(held) /\ m \in Slots /\ m \in Nat /\ \A u \in Times(held) : u <= m
      BY <2>1, EndsAre, HeldTimes
    <2>3. requests' = requests \cup {g} /\ shown' = shown /\ epoch' = epoch /\ load' = load
          /\ older' = older /\ held' = held /\ missed' = {t \in missed : t < m}
      BY <1>5 DEF Refill, chartVars
    <2> HIDE DEF m
    <2>4. now \in 0..LastSlot /\ epoch \in Nat BY Facts, SlotsAre DEF Slots, TypeOK
    <2>5. /\ g \in Requests /\ g.kind = "gap" /\ g.epoch = epoch /\ g.of = shown /\ g.from = m
          /\ g.to = now /\ g.state \in {"asked", "failed"} /\ g.bars = NoBars
      BY <1>3, <1>5, <2>2, <2>4, AskIs, Facts
    <2> HIDE DEF g
    <2>6. TypeOK' BY <1>1, <1>2, <2>3, <2>5, Facts DEF TypeOK
    <2>7. Own' BY <1>1, <1>3, <1>5, <2>3, <2>5, Facts, NoBarsAre DEF Own, OnlyItsOwn
    <2>8. Loads'
      <3>1. \A r \in requests : Current(r) => r.kind # "initial" BY <1>5, Facts DEF Loads
      <3> QED BY <1>5, <2>3, <2>4, <2>5, <3>1, Facts DEF Loads, Current
    <2>9. Asks'
      <3>1. \E u \in Times(held) : m <= u BY <2>2
      <3> QED BY <1>1, <2>3, <2>5, <3>1, Facts DEF Asks, Current
    <2>10. Covered'
      <3> SUFFICES ASSUME NEW t \in Slots, InScope(t)', held[t] # made[shown][t]
                   PROVE  (t \in missed \/ Fetched(t) \/ Told(t) \/ Refilled(t))'
        BY <1>1, <2>3 DEF Covered
      <3>1. InScope(t) BY <2>2, <2>3, <2>5 DEF InScope, Bottom, Current
      <3>2. t \in missed \/ Fetched(t) \/ Told(t) \/ Refilled(t)
        BY <1>5, <3>1, Facts DEF Covered
      <3>3. Fetched(t) => Fetched(t)' BY <1>1, <2>3 DEF Fetched, Current
      <3>4. Told(t) => Told(t)'
        <4>1. Told(t) => (held[t] > 0 \/ ~Newer(t))' BY <2>3 DEF Told, Newer
        <4>2. Head(events) # [kind |-> "live", of |-> shown, slot |-> t, ticks |-> made[shown][t]]
          BY <1>1
        <4> QED BY <1>1, <2>3, <4>1, <4>2, ToldLater, Facts
      <3>5. m <= t => Fetched(t)'
        <4>1. t \in Nat /\ t <= now
          <5>1. made[shown][t] > 0 BY <1>3, <1>5, Facts
          <5> QED BY <1>3, <1>5, <5>1, Times0, Facts DEF Own
        <4>2. g.state # "answered" BY <2>5
        <4> QED BY <2>3, <2>5, <4>1, <4>2 DEF Fetched, Current
      <3>6. ~Newer(t) => m <= t BY <2>2, Times0 DEF Newer
      <3>7. t < m \/ m <= t BY <2>2, Times0
      <3> QED BY <2>3, <3>2, <3>3, <3>4, <3>5, <3>6, <3>7 DEF Refilled
    <2> QED BY <1>2, <2>6, <2>7, <2>8, <2>9, <2>10 DEF Inv
  <1>6. CASE load \notin {"failed", "ready"} /\ UNCHANGED <<chartVars, requests, missed>>
    <2>1. shown' = shown /\ epoch' = epoch /\ load' = load /\ older' = older /\ held' = held
          /\ requests' = requests /\ missed' = missed
      BY <1>6 DEF chartVars
    <2>2. TypeOK' BY <1>1, <1>2, <2>1, Facts DEF TypeOK
    <2>3. Own' BY <1>1, <2>1, Facts DEF Own, OnlyItsOwn
    <2>4. Loads' /\ Asks' BY <1>1, <2>1, Facts DEF Loads, Asks, Current
    <2>5. Covered' BY <1>6, <2>1 DEF Covered
    <2> QED BY <1>2, <2>2, <2>3, <2>4, <2>5 DEF Inv
  <1> QED BY <1>4, <1>5, <1>6 DEF OnReady, Refill

\* A live bar that is read is held, or is older than everything held.
LEMMA OnLiveInv == ASSUME Inv, OnLive PROVE Inv'
  <1> DEFINE e == Head(events)
             next == ApplyLive(held, e.slot, e.ticks)
  <1>1. /\ events # <<>> /\ e.kind = "live" /\ events' = Tail(events) /\ e = events[1]
        /\ requests' = requests /\ older' = older
        /\ shown' = shown /\ epoch' = epoch /\ load' = load
        /\ link' = link /\ signed' = signed /\ followed' = followed /\ drops' = drops
        /\ now' = now /\ made' = made /\ UNCHANGED <<netVars, marketVars>>
    BY TailIs, Facts DEF OnLive, netVars, marketVars
  <1>2. Queue' /\ events' \in Seq(Events) /\ Len(events') <= EventCapacity /\ 1 \in 1..Len(events)
    BY <1>1, TailQueue, TailIs, Facts
  <1>3. Loads' BY <1>1, Facts DEF Loads, Current
  <1>4. \A t : Fetched(t) /\ UNCHANGED requests => Fetched(t)' BY <1>1 DEF Fetched, Current
  <1>5. CASE e.of = shown /\ load = "ready"
    <2>1. shown \in Symbols /\ held \in Series BY <1>5, Facts DEF TypeOK
    <2>2. /\ held' = Trim(next)
          /\ missed' = (missed \cup ({t \in Untold(events') : next[t] < held[t]} \cup
                          {t \in Slots : held'[t] < next[t] /\ \E r \in requests :
                             Current(r) /\ (r.kind = "gap" => r.from <= t)}))
                       \cap Behind(held', shown)
      BY <1>1, <1>5 DEF OnLive, GiveUp
    <2>3. e.slot \in Slots /\ e.slot \in Nat /\ e.slot <= now /\ e.ticks \in 1..MaxTicks
          /\ e.ticks <= made[shown][e.slot]
      <3>1. e.slot \in Slots /\ e.slot <= now /\ 0 < e.ticks /\ e.ticks <= made[shown][e.slot]
        BY <1>1, <1>2, <1>5, Facts DEF Queue
      <3>2. e \in Events BY <1>1, <1>2, Facts DEF TypeOK
      <3> HIDE DEF e
      <3>3. e.ticks \in 0..MaxTicks BY <3>2 DEF Events
      <3> QED BY <3>1, <3>3, Times0
    <2>4. /\ next \in Series
          /\ IF Times(held) = {} \/ \E u \in Times(held) : u <= e.slot
             THEN next = [held EXCEPT ![e.slot] = e.ticks] ELSE next = held
      BY <2>1, <2>3, ApplyIs
    <2>5. /\ held' \in Series /\ Times(held') \subseteq Times(next)
          /\ \A t \in Slots : held'[t] = next[t] \/ held'[t] = 0
          /\ Times(next) # {} => Max(Times(next)) \in Times(held')
          /\ \A t \in Slots : held'[t] < next[t] => \A u \in Times(held') : t < u
      BY <2>2, <2>4, TrimIs
    <2> HIDE DEF e, next
    <2>6. \A t \in Slots : next[t] = held[t] \/ (t = e.slot /\ next[t] = e.ticks)
      BY <2>1, <2>3, <2>4 DEF Series
    <2>7. \A t \in Slots : next[t] <= made[shown][t] /\ next[t] \in Nat /\ held'[t] <= made[shown][t] /\ held'[t] \in Nat
      BY <2>1, <1>5, <2>3, <2>5, <2>6, Facts
    <2>8. Times(held) \subseteq Times(next) /\ Times(next) \subseteq Times(held) \cup {e.slot}
          /\ (e.slot \notin Times(held) /\ e.slot \in Times(next)
               => Times(held) = {} \/ \E u \in Times(held) : u <= e.slot)
      BY <2>3, <2>4, <2>6 DEF Times
    <2>9. Times(held) # {} => \E m \in Times(held') : \A u \in Times(held) : u <= m
      <3> SUFFICES ASSUME Times(held) # {} PROVE \E m \in Times(held') : \A u \in Times(held) : u <= m
        OBVIOUS
      <3>1. Times(next) # {} BY <2>8
      <3>2. Max(Times(next)) \in Times(held') BY <2>5, <3>1
      <3> QED BY <2>8, <3>1, <3>2, EndsAre
    <2>10. TypeOK'
      <3>1. missed' \subseteq Slots BY <2>2, Facts DEF TypeOK, Behind
      <3> QED BY <1>1, <1>2, <2>5, <3>1, Facts DEF TypeOK
    <2>11. Own' BY <1>1, <2>7, Facts DEF Own, OnlyItsOwn
    <2>12. Asks'
      <3>1. \A r \in requests : r.from \in Nat BY Facts, SlotsAre DEF TypeOK, Requests
      <3>2. ASSUME NEW r \in requests, \E u \in Times(held) : r.from <= u
            PROVE  \E u \in Times(held') : r.from <= u
        <4>1. PICK u \in Times(held) : r.from <= u BY <3>2
        <4>2. PICK m \in Times(held') : u <= m BY <2>9, <4>1
        <4>3. r.from <= m BY <3>1, <4>1, <4>2, HeldTimes
        <4> QED BY <4>2, <4>3
      <3>3. Times(held) # {} => Times(held') # {} BY <2>9
      <3>4. /\ requests' = requests /\ epoch' = epoch /\ shown' = shown /\ made' = made /\ now' = now
            /\ Asks
        BY <1>1, Facts
      <3> QED BY ONLY <3>2, <3>3, <3>4 DEF Asks, Current
    <2>13. Covered'
      <3> SUFFICES ASSUME NEW t \in Slots, InScope(t)', held'[t] # made[shown][t], t \notin missed'
                   PROVE  (Fetched(t) \/ Told(t) \/ Refilled(t))'
        BY <1>1 DEF Covered
      <3>1. t \in Nat /\ made[shown][t] \in Nat /\ held[t] \in Nat BY <2>1, Times0, Facts
      <3>2. t \in Behind(held', shown) BY <2>1, <2>7, <3>1, SlotsAre DEF Behind
      <3>3. /\ t \notin missed /\ (next[t] < held[t] => t \notin Untold(events'))
            /\ held'[t] < next[t] => ~\E r \in requests : Current(r) /\ (r.kind = "gap" => r.from <= t)
        BY <2>2, <3>2
      <3>4. held'[t] = next[t]
        <4> SUFFICES ASSUME held'[t] # next[t] PROVE FALSE OBVIOUS
        <4>1. held'[t] < next[t] BY <2>5, <2>7
        <4>2. \A u \in Times(held') : t < u BY <2>5, <4>1
        <4>3. Times(next) # {} BY <2>7, <4>1 DEF Times
        <4>4. Times(held') # {} BY <2>5, <4>3
        <4>5. ~\E r \in requests' : r.epoch = epoch' /\ r.kind # "initial" /\ Bottom(r) <= t
          <5>1. ASSUME NEW r \in requests, Current(r), r.kind # "initial", Bottom(r) <= t
                PROVE  r.kind = "gap" => r.from <= t
            BY <5>1 DEF Bottom
          <5> QED BY <1>1, <3>3, <4>1, <5>1 DEF Current
        <4>6. \E u \in Times(held') : u <= t BY <4>4, <4>5 DEF InScope, Current, Bottom
        <4> QED BY <3>1, <4>2, <4>6, HeldTimes
      <3>5. CASE next[t] < held[t]
        <4>1. DOMAIN events' = 1..Len(events') BY <1>2
        <4>2. \E i \in 1..Len(events') :
                events'[i] = [kind |-> "live", of |-> shown, slot |-> t, ticks |-> made[shown][t]]
          BY <3>3, <3>5, <4>1 DEF Untold
        <4>3. held'[t] > 0
          <5>1. next[t] = e.ticks BY <2>6, <2>7, <3>1, <3>5
          <5> QED BY <2>3, <3>4, <5>1
        <4> QED BY <1>1, <4>2, <4>3 DEF Told
      <3>6. SUFFICES ASSUME next[t] >= held[t] PROVE (Fetched(t) \/ Told(t) \/ Refilled(t))'
        BY <2>7, <3>1, <3>5
      <3>7. held[t] # made[shown][t] BY <2>7, <3>1, <3>4, <3>6
      <3>8. InScope(t)
        <4>1. CASE \E u \in Times(held') : u <= t
          <5>1. PICK u \in Times(held') : u <= t BY <4>1
          <5>2. CASE u \in Times(held) BY <5>1, <5>2 DEF InScope
          <5>3. CASE u \notin Times(held)
            <6>1. u = e.slot /\ u \in Times(next) BY <2>5, <2>8, <5>1, <5>3
            <6>2. CASE Times(held) = {} BY <6>2 DEF InScope
            <6>3. CASE Times(held) # {}
              <7>1. PICK v \in Times(held) : v <= e.slot BY <2>8, <5>3, <6>1, <6>3
              <7>2. v <= t BY <2>3, <3>1, <5>1, <6>1, <7>1, HeldTimes
              <7> QED BY <7>2 DEF InScope
            <6> QED BY <6>2, <6>3
          <5> QED BY <5>2, <5>3
        <4>2. CASE Times(held') = {}
          <5>1. Times(held) = {} BY <2>9, <4>2
          <5> QED BY <5>1 DEF InScope
        <4>3. CASE \E r \in requests' : r.epoch = epoch' /\ r.kind # "initial" /\ Bottom(r) <= t
          BY <1>1, <4>3 DEF InScope, Current
        <4> QED BY <4>1, <4>2, <4>3 DEF InScope, Current, Bottom
      <3>9. Fetched(t) \/ Told(t) \/ Refilled(t) BY <1>5, <3>3, <3>7, <3>8, Facts DEF Covered
      <3>10. CASE Fetched(t) BY <1>1, <1>4, <3>10
      <3>11. ~Newer(t) /\ e.slot <= t => ~Newer(t)'
        <4> SUFFICES ASSUME ~Newer(t), e.slot <= t, NEW u \in Times(held'), u > t PROVE FALSE
          BY DEF Newer
        <4>1. u \notin Times(held) BY DEF Newer
        <4>2. u = e.slot BY <2>5, <2>8, <4>1
        <4> QED BY <2>3, <3>1, <4>2
      <3>12. CASE Told(t)
        <4>1. PICK i \in 1..Len(events) :
                events[i] = [kind |-> "live", of |-> shown, slot |-> t, ticks |-> made[shown][t]]
          BY <3>12 DEF Told
        <4>2. e # [kind |-> "live", of |-> shown, slot |-> t, ticks |-> made[shown][t]]
          <5> SUFFICES ASSUME e.slot = t, e.ticks = made[shown][t] PROVE FALSE OBVIOUS
          <5>1. CASE Times(held) = {} \/ \E u \in Times(held) : u <= e.slot
            <6>1. next[t] = made[shown][t] BY <2>1, <2>3, <2>4, <5>1 DEF Series
            <6> QED BY <3>4, <6>1
          <5>2. CASE ~(Times(held) = {} \/ \E u \in Times(held) : u <= e.slot)
            <6>1. PICK u \in Times(held) : TRUE BY <5>2
            <6>2. u \in Nat /\ u > t BY <3>1, <5>2, <6>1, HeldTimes
            <6>3. Newer(t) BY <6>1, <6>2 DEF Newer
            <6>4. t \notin Times(held) BY <3>1, <5>2
            <6>5. ~(held[t] > 0) BY <6>4 DEF Times
            <6> QED BY <3>12, <6>3, <6>5 DEF Told
          <5> QED BY <5>1, <5>2
        <4>3. e.slot <= t
          <5>1. i # 1 BY <1>1, <4>1, <4>2
          <5>2. 1 < i BY <5>1, <1>2
          <5> QED BY <1>1, <1>2, <4>1, <5>2, Facts DEF Queue
        <4>4. held[t] > 0 => held'[t] > 0 BY <3>1, <3>4, <3>6, <2>7
        <4>5. (held[t] > 0 \/ ~Newer(t))' BY <3>11, <3>12, <4>3, <4>4 DEF Told
        <4>6. Told(t)' BY <1>1, <3>12, <4>2, <4>5, ToldLater, Facts DEF e
        <4> QED BY <4>6
      <3>13. CASE Refilled(t)
        <4>1. PICK p \in 1..Len(events) + 1 :
                /\ IF p = Len(events) + 1 THEN ~Sent(shown) ELSE events[p].kind = "ready"
                /\ \A i \in 1..p - 1 : events[i].kind = "live" /\ events[i].of = shown => events[i].slot <= t
          BY <3>13 DEF Refilled
        <4>2. p # 1 BY <1>1, <1>2, <4>1
        <4>3. 1 \in 1..p - 1 BY <4>2, <1>2
        <4>4. e.slot <= t BY <1>1, <1>5, <4>1, <4>3
        <4>5. ~Newer(t)' BY <3>11, <3>13, <4>4 DEF Refilled
        <4>6. Refilled(t)' BY <1>1, <3>13, <4>5, RefilledLater, Facts DEF e
        <4> QED BY <4>6
      <3> QED BY <3>9, <3>10, <3>12, <3>13
    <2> QED BY <1>2, <1>3, <2>10, <2>11, <2>12, <2>13 DEF Inv
  <1>6. CASE ~(e.of = shown /\ load = "ready")
    <2>1. held' = held /\ missed' = missed BY <1>6 DEF OnLive
    <2>2. TypeOK' BY <1>1, <1>2, <2>1, Facts DEF TypeOK
    <2>3. Own' BY <1>1, <2>1, Facts DEF Own, OnlyItsOwn
    <2>4. Asks' BY <1>1, <2>1, Facts DEF Asks, Current
    <2>5. Covered'
      <3> SUFFICES ASSUME load = "ready", NEW t \in Slots, InScope(t)', held[t] # made[shown][t]
                   PROVE  (t \in missed \/ Fetched(t) \/ Told(t) \/ Refilled(t))'
        BY <1>1, <2>1 DEF Covered
      <3>1. InScope(t) BY <1>1, <2>1 DEF InScope, Bottom, Current
      <3>2. t \in missed \/ Fetched(t) \/ Told(t) \/ Refilled(t) BY <3>1, Facts DEF Covered
      <3>3. Fetched(t) => Fetched(t)' BY <1>1, <1>4
      <3>4. Told(t) => Told(t)'
        <4>1. Told(t) => (held[t] > 0 \/ ~Newer(t))' BY <2>1 DEF Told, Newer
        <4>2. e # [kind |-> "live", of |-> shown, slot |-> t, ticks |-> made[shown][t]] BY <1>6
        <4> QED BY <1>1, <4>1, <4>2, ToldLater, Facts
      <3>5. Refilled(t) => Refilled(t)'
        <4>1. Refilled(t) => ~Newer(t)' BY <2>1 DEF Refilled, Newer
        <4> QED BY <1>1, <4>1, RefilledLater, Facts
      <3> QED BY <2>1, <3>2, <3>3, <3>4, <3>5
    <2> QED BY <1>2, <1>3, <2>2, <2>3, <2>4, <2>5 DEF Inv
  <1> QED BY <1>5, <1>6

-----------------------------------------------------------------------------
(* The session and the hub *)

\* Where the chart is behind.
LEMMA BehindIs ==
  ASSUME Inv, load # "idle", NEW t \in Slots, held[t] # made[shown][t]
  PROVE  t \in Behind(held, shown)
  BY Facts, SlotsAre DEF Behind

\* What the chart is not told of is missed, but for what is queued.
LEMMA SightIs ==
  ASSUME Inv, NEW slots, LoseSight(slots), events' \in Seq(Events)
  PROVE  /\ missed \subseteq missed' /\ missed' \subseteq Slots
         /\ load = "ready" => \A t \in Slots :
              t \in slots /\ held[t] # made[shown][t] /\ (held[t] > 0 \/ ~Newer(t)) =>
                \/ t \in missed'
                \/ \E i \in 1..Len(events') :
                     events'[i] = [kind |-> "live", of |-> shown, slot |-> t, ticks |-> made[shown][t]]
  <1>1. missed \subseteq missed' /\ missed' \subseteq Slots BY Facts DEF LoseSight, Behind, TypeOK
  <1>2. ASSUME load = "ready", NEW t \in Slots, t \in slots, held[t] # made[shown][t],
               held[t] > 0 \/ ~Newer(t), t \notin missed'
        PROVE  \E i \in 1..Len(events') :
                 events'[i] = [kind |-> "live", of |-> shown, slot |-> t, ticks |-> made[shown][t]]
    <2>1. t \in Behind(held, shown) BY <1>2, BehindIs
    <2>2. t \in Accounted(held)
      <3>1. CASE held[t] > 0
        <4>1. t \in Times(held) /\ t <= t BY <3>1, Times0 DEF Times
        <4> QED BY <4>1 DEF Accounted
      <3>2. CASE ~Newer(t)
        <4>1. CASE Times(held) = {} BY <4>1, NoTimes, Facts DEF Accounted, TypeOK
        <4>2. CASE Times(held) # {}
          <5>1. PICK u \in Times(held) : TRUE BY <4>2
          <5>2. u <= t BY <3>2, <5>1, Times0, HeldTimes DEF Newer
          <5> QED BY <5>1, <5>2 DEF Accounted
        <4> QED BY <4>1, <4>2
      <3> QED BY <1>2, <3>1, <3>2
    <2>3. t \notin Untold(events') BY <1>2, <2>1, <2>2 DEF LoseSight
    <2>4. DOMAIN events' = 1..Len(events') OBVIOUS
    <2> QED BY <2>3, <2>4 DEF Untold
  <1> QED BY <1>1, <1>2

\* What is told never takes anything from what was missed.
LEMMA EmitMissed ==
  ASSUME Inv, NEW e \in Events, Emit(e)
  PROVE  missed \subseteq missed' /\ missed' \subseteq Slots
  BY EmitIs, SightIs, Facts DEF TypeOK

\* An event that is told leaves a bar covered, whether or not another is lost for it; one that
\* was to come only when the bars are sent again needs a Ready.
LEMMA EmitKeeps ==
  ASSUME Inv, NEW e \in Events, Emit(e), UNCHANGED <<shown, held>>, load = "ready",
         NEW t \in Slots, held[t] # made[shown][t], made'[shown][t] = made[shown][t], t \notin missed',
         Told(t) \/ Refilled(t),
         e.kind = "ready" \/ (~Sent(shown) => ~Sent(shown)' /\ e.of # shown)
  PROVE  Told(t)' \/ Refilled(t)'
  <1> DEFINE n == Len(events)
             m == Len(events')
             bar == [kind |-> "live", of |-> shown, slot |-> t, ticks |-> made[shown][t]]
             Gone(d) == d = 1 => LoseSight({u \in Slots :
                          events[1].kind = "live" => events[1].of = shown /\ events[1].slot = u})
  <1>1. events' \in Seq(Events) /\ n \in Nat /\ m \in Nat /\ m > 0 /\ events'[m] = e
    BY EmitIs, Facts
  <1>2. \E d \in {0, 1} : m = n + 1 - d /\ Gone(d) /\ \A i \in 1..m - 1 : events'[i] = events[i + d]
    <2>1. CASE m = n + 1 /\ \A i \in 1..n : events'[i] = events[i]
      <3>1. m = n + 1 - 0 /\ Gone(0) /\ \A i \in 1..m - 1 : events'[i] = events[i + 0]
        BY <1>1, <2>1
      <3> QED BY <3>1
    <2>2. CASE m = n /\ Gone(1) /\ \A i \in 1..n - 1 : events'[i] = events[i + 1]
      <3>1. m = n + 1 - 1 BY <1>1, <2>2
      <3> QED BY <2>2, <3>1
    <2> QED BY <2>1, <2>2, EmitIs, Facts
  <1>3. PICK d \in {0, 1} : m = n + 1 - d /\ Gone(d) /\ \A i \in 1..m - 1 : events'[i] = events[i + d]
    BY <1>2
  <1> HIDE DEF n, m
  <1>4. ASSUME d = 1, held[t] > 0 \/ ~Newer(t), events[1].kind = "live" => events[1].of = shown /\ events[1].slot = t
        PROVE  Told(t)'
    <2>1. \E i \in 1..m : events'[i] = bar BY <1>1, <1>3, <1>4, SightIs DEF m
    <2> QED BY <1>4, <2>1 DEF Told, Newer, m
  <1>5. CASE Told(t)
    <2>1. PICK i \in 1..n : events[i] = bar BY <1>5 DEF Told, n
    <2>2. CASE i > d
      <3>1. i - d \in 1..m /\ i - d \in 1..m - 1 /\ (i - d) + d = i BY <1>1, <1>3, <2>1, <2>2
      <3>2. events'[i - d] = bar BY <1>3, <2>1, <3>1
      <3> QED BY <1>5, <3>1, <3>2 DEF Told, Newer, m
    <2>3. CASE ~(i > d)
      <3>1. d = 1 /\ i = 1 BY <1>1, <2>1, <2>3
      <3> QED BY <1>4, <1>5, <2>1, <3>1 DEF Told
    <2> QED BY <2>2, <2>3
  <1>6. CASE Refilled(t)
    <2>1. PICK p \in 1..n + 1 :
            /\ IF p = n + 1 THEN ~Sent(shown) ELSE events[p].kind = "ready"
            /\ \A i \in 1..p - 1 : events[i].kind = "live" /\ events[i].of = shown => events[i].slot <= t
      BY <1>6 DEF Refilled, n
    <2>2. \A i \in 1..m - 1 : i + d <= n BY <1>1, <1>3
    <2>3. CASE p = n + 1
      <3>1. \A i \in 1..m - 1 : events'[i].kind = "live" /\ events'[i].of = shown => events'[i].slot <= t
        <4>1. \A i \in 1..m - 1 : i + d \in 1..p - 1 BY <1>1, <2>2, <2>3
        <4> QED BY <1>3, <2>1, <4>1
      <3>2. CASE e.kind = "ready"
        <4>1. m \in 1..m + 1 /\ m # m + 1 BY <1>1
        <4> QED BY <1>1, <1>6, <3>1, <3>2, <4>1 DEF Refilled, Newer, m
      <3>3. CASE e.kind # "ready"
        <4>1. ~Sent(shown)' /\ e.of # shown BY <2>1, <2>3, <3>3
        <4>2. m + 1 \in 1..m + 1 /\ \A i \in 1..(m + 1) - 1 : i \in 1..m - 1 \/ i = m BY <1>1
        <4>3. \A i \in 1..(m + 1) - 1 : events'[i].kind = "live" /\ events'[i].of = shown => events'[i].slot <= t
          BY <1>1, <3>1, <4>1, <4>2
        <4> QED BY <1>6, <4>1, <4>2, <4>3 DEF Refilled, Newer, m
      <3> QED BY <3>2, <3>3
    <2>4. CASE p # n + 1 /\ p > d
      <3>1. p - d \in 1..m + 1 /\ p - d # m + 1 /\ p - d \in 1..m - 1 /\ (p - d) + d = p
        BY <1>1, <1>3, <2>1, <2>4
      <3>2. \A i \in 1..(p - d) - 1 : i \in 1..m - 1 /\ i + d \in 1..p - 1
        BY <1>1, <1>3, <2>1, <2>4
      <3>3. events'[p - d].kind = "ready" BY <1>3, <2>1, <2>4, <3>1
      <3>4. \A i \in 1..(p - d) - 1 : events'[i].kind = "live" /\ events'[i].of = shown => events'[i].slot <= t
        BY <1>3, <2>1, <3>2
      <3> QED BY <1>6, <3>1, <3>3, <3>4 DEF Refilled, Newer, m
    <2>5. CASE p # n + 1 /\ ~(p > d)
      <3>1. d = 1 /\ p = 1 BY <1>1, <2>1, <2>5
      <3> QED BY <1>4, <1>6, <2>1, <2>5, <3>1 DEF Refilled
    <2> QED BY <2>3, <2>4, <2>5
  <1> QED BY <1>5, <1>6

\* The steps that leave the chart, its loads and the market as they are.
LEMMA NetworkInv ==
  ASSUME Inv, UNCHANGED <<chartVars, requests, marketVars>>,
         link' \in BOOLEAN, signed' \in BOOLEAN, followed' \in Symbols \cup {NoSymbol}, drops' \in Nat,
         events' \in Seq(Events), Len(events') <= EventCapacity, Queue',
         missed' \subseteq Slots, missed \subseteq missed',
         load = "ready" => \A t \in Slots : held[t] # made[shown][t] =>
           t \in missed' \/ (Told(t) \/ Refilled(t) => Told(t)' \/ Refilled(t)')
  PROVE  Inv'
  <1>1. /\ shown' = shown /\ epoch' = epoch /\ load' = load /\ older' = older /\ held' = held
        /\ requests' = requests /\ now' = now /\ made' = made
    BY DEF chartVars, marketVars
  <1>2. TypeOK' BY <1>1, Facts DEF TypeOK
  <1>3. Own' BY <1>1, Facts DEF Own, OnlyItsOwn
  <1>4. Loads' /\ Asks' BY <1>1, Facts DEF Loads, Asks, Current
  <1>5. Covered'
    <2> SUFFICES ASSUME load = "ready", NEW t \in Slots, InScope(t)', held[t] # made[shown][t]
                 PROVE  (t \in missed \/ Fetched(t) \/ Told(t) \/ Refilled(t))'
      BY <1>1 DEF Covered
    <2>1. InScope(t) BY <1>1 DEF InScope, Bottom, Current
    <2>2. t \in missed \/ Fetched(t) \/ Told(t) \/ Refilled(t) BY <2>1, Facts DEF Covered
    <2>3. Fetched(t) => Fetched(t)' BY <1>1 DEF Fetched, Current
    <2> QED BY <2>2, <2>3
  <1> QED BY <1>2, <1>3, <1>4, <1>5 DEF Inv

\* The connection is lost: what was asked on it fails, and a Ready is to come.
LEMMA DropInv == ASSUME Inv, Drop PROVE Inv'
  <1> DEFINE F(r) == IF r.state = "asked" THEN [r EXCEPT !.state = "failed"] ELSE r
  <1>1. /\ link /\ link' = FALSE /\ drops' = drops + 1 /\ requests' = {F(r) : r \in requests}
        /\ shown' = shown /\ epoch' = epoch /\ load' = load /\ older' = older /\ held' = held
        /\ events' = events /\ signed' = signed /\ followed' = followed /\ missed' = missed
        /\ now' = now /\ made' = made
    BY DEF Drop, chartVars, marketVars
  <1>2. \A r \in requests :
          /\ F(r) \in Requests /\ F(r).kind = r.kind /\ F(r).epoch = r.epoch /\ F(r).of = r.of
          /\ F(r).from = r.from /\ F(r).to = r.to /\ F(r).bars = r.bars
          /\ IF r.state = "asked" THEN F(r).state = "failed" ELSE F(r).state = r.state
    BY Facts DEF TypeOK, Requests
  <1> HIDE DEF F
  <1>3. \A r \in requests : F(r) \in requests' BY <1>1
  <1>4. \A q \in requests' : \E r \in requests : q = F(r) BY <1>1
  <1>5. TypeOK'
    <2>1. requests' \subseteq Requests BY <1>2, <1>4
    <2>2. link' \in BOOLEAN BY <1>1, Zenon
    <2>3. drops' \in Nat BY <1>1, Facts DEF TypeOK
    <2> QED BY <1>1, <2>1, <2>2, <2>3, Facts DEF TypeOK
  <1>6. Own'
    <2>1. \A q \in requests', t \in Slots : q.bars[t] <= made[q.of][t]
      BY <1>2, <1>4, Facts DEF Own
    <2> QED BY <1>1, <2>1, Facts DEF Own, OnlyItsOwn
  <1>7. Queue' BY <1>1, Facts DEF Queue
  <1>8. Loads'
    <2>1. \A q \in requests' : q.epoch <= epoch BY <1>2, <1>4, Facts DEF Loads
    <2>2. ASSUME NEW q \in requests', q.epoch = epoch
          PROVE  /\ q.of = shown /\ load = IF q.kind = "initial" THEN "loading" ELSE "ready"
                 /\ q.kind = "initial" => \A p \in requests' : p.epoch = epoch => p = q
      <3>1. PICK r \in requests : q = F(r) BY <1>4
      <3>2. Current(r) BY <1>2, <2>2, <3>1 DEF Current
      <3>3. ASSUME r.kind = "initial", NEW p \in requests', p.epoch = epoch PROVE p = q
        <4>1. PICK s \in requests : p = F(s) BY <1>4
        <4>2. s = r BY <1>2, <3>2, <3>3, <4>1, Facts DEF Loads, Current
        <4> QED BY <3>1, <4>1, <4>2
      <3> QED BY <1>2, <3>1, <3>2, <3>3, Facts DEF Loads
    <2> QED BY <1>1, <2>1, <2>2, Facts DEF Loads, Current
  <1>9. Asks'
    <2> SUFFICES ASSUME NEW q \in requests', q.epoch = epoch
                 PROVE  (/\ q.kind = "gap" => \E u \in Times(held) : q.from <= u
                         /\ q.kind = "older" => Times(held) # {} /\ q.to < now
                         /\ q.kind = "gap" /\ q.state = "answered" =>
                              \A u \in Times(q.bars), t \in Slots :
                                q.from <= u /\ (q.from <= t /\ t < u => q.bars[t] = made[shown][t])
                         /\ q.kind = "older" /\ q.state = "answered" =>
                              \A u \in Times(q.bars), t \in Slots :
                                u <= q.to /\ (u <= t /\ t <= q.to => q.bars[t] = made[shown][t])
                         /\ q.kind = "initial" /\ q.state = "answered" =>
                              \A u, v \in Times(q.bars), t \in Slots :
                                u <= t /\ t < v => q.bars[t] = made[shown][t])
      BY <1>1 DEF Asks, Current
    <2>1. PICK r \in requests : q = F(r) BY <1>4
    <2>2. Current(r) /\ (q.state = "answered" => r.state = "answered") BY <1>2, <2>1 DEF Current
    <2> QED BY <1>2, <2>1, <2>2, Facts DEF Asks
  <1>10. Covered'
    <2> SUFFICES ASSUME load = "ready", NEW t \in Slots, InScope(t)', held[t] # made[shown][t]
                 PROVE  (t \in missed \/ Fetched(t) \/ Told(t) \/ Refilled(t))'
      BY <1>1 DEF Covered
    <2>1. InScope(t)
      <3>1. ASSUME NEW q \in requests', q.epoch = epoch, q.kind # "initial", Bottom(q) <= t
            PROVE  \E r \in requests : Current(r) /\ r.kind # "initial" /\ Bottom(r) <= t
        BY <1>2, <1>4, <3>1 DEF Bottom, Current
      <3> QED BY <1>1, <3>1 DEF InScope, Bottom, Current
    <2>2. t \in missed \/ Fetched(t) \/ Told(t) \/ Refilled(t) BY <2>1, Facts DEF Covered
    <2>3. Fetched(t) => Fetched(t)'
      <3> SUFFICES ASSUME NEW r \in requests, Current(r), r.kind = "gap",
                          \/ r.state # "answered" /\ r.from <= t /\ t <= r.to
                          \/ r.state = "answered" /\ r.bars[t] = made[shown][t]
                   PROVE  Fetched(t)'
        BY DEF Fetched
      <3>1. F(r) \in requests' /\ F(r).epoch = epoch /\ F(r).kind = "gap"
            /\ \/ F(r).state # "answered" /\ F(r).from <= t /\ t <= F(r).to
               \/ F(r).state = "answered" /\ F(r).bars[t] = made[shown][t]
        BY <1>2, <1>3 DEF Current
      <3> QED BY <1>1, <3>1 DEF Fetched, Current
    <2>4. Told(t) => Told(t)' BY <1>1 DEF Told, Newer
    <2>5. Refilled(t) => Refilled(t)' BY <1>1 DEF Refilled, Newer, Sent
    <2> QED BY <1>1, <2>2, <2>3, <2>4, <2>5
  <1> QED BY <1>5, <1>6, <1>7, <1>8, <1>9, <1>10 DEF Inv

\* A Ready joins the queue, after what was told before.
LEMMA ReconnectInv == ASSUME Inv, Reconnect PROVE Inv'
  <1>1. /\ ~link /\ link' = TRUE /\ signed' = TRUE /\ Emit(Ready) /\ Ready \in Events
        /\ UNCHANGED <<chartVars, requests, marketVars>> /\ followed' = followed /\ drops' = drops
        /\ now' = now /\ made' = made /\ shown' = shown /\ held' = held
    BY SlotsAre DEF Reconnect, Ready, Events, chartVars, marketVars
  <1>2. Ready.kind = "ready" BY DEF Ready
  <1>3. events' \in Seq(Events) /\ Len(events') <= EventCapacity BY <1>1, EmitIs, Facts
  <1>4. Queue'
    <2>1. \A c \in Symbols, t \in Slots :
            made'[c][t] \in Nat /\ made[c][t] \in Nat /\ made'[c][t] >= made[c][t]
      BY <1>1, Facts
    <2> QED BY <1>1, <1>2, <2>1, EmitQueue, Facts
  <1>5. missed \subseteq missed' /\ missed' \subseteq Slots BY <1>1, EmitMissed
  <1>6. ASSUME load = "ready", NEW t \in Slots, held[t] # made[shown][t], t \notin missed',
               Told(t) \/ Refilled(t)
        PROVE  Told(t)' \/ Refilled(t)'
    BY <1>1, <1>2, <1>6, EmitKeeps
  <1>7. followed' \in Symbols \cup {NoSymbol} /\ drops' \in Nat BY <1>1, Facts DEF TypeOK
  <1> QED BY <1>1, <1>3, <1>4, <1>5, <1>6, <1>7, NetworkInv

\* The account's session ends: nothing is sent until it is given back or there is a Ready.
LEMMA AccountOutInv == ASSUME Inv, AccountOut PROVE Inv'
  <1>1. /\ UNCHANGED <<chartVars, requests, marketVars>> /\ events' = events /\ missed' = missed
        /\ link' = link /\ signed' = FALSE /\ followed' = followed /\ drops' = drops + 1
        /\ now' = now /\ made' = made /\ shown' = shown /\ held' = held
    BY DEF AccountOut, chartVars, marketVars
  <1>2. Queue' BY <1>1, Facts DEF Queue
  <1>3. \A t : (Told(t) => Told(t)') /\ (Refilled(t) => Refilled(t)')
    BY <1>1 DEF Told, Refilled, Newer, Sent
  <1>4. /\ link' \in BOOLEAN /\ signed' \in BOOLEAN /\ followed' \in Symbols \cup {NoSymbol}
        /\ drops' \in Nat /\ events' \in Seq(Events) /\ Len(events') <= EventCapacity /\ missed' \subseteq Slots
    <2>1. link' \in BOOLEAN /\ signed' \in BOOLEAN BY <1>1, Facts, Zenon DEF TypeOK
    <2>2. drops' \in Nat BY <1>1, Facts DEF TypeOK
    <2> QED BY <1>1, <2>1, <2>2, Facts DEF TypeOK
  <1> QED BY <1>1, <1>2, <1>3, <1>4, NetworkInv

\* It is given back without a Ready: what lags then is given up.
LEMMA AccountBackInv == ASSUME Inv, AccountBack PROVE Inv'
  <1>1. /\ UNCHANGED <<chartVars, requests, marketVars>> /\ events' = events /\ LoseSight(Slots)
        /\ link' = link /\ signed' = TRUE /\ followed' = followed /\ drops' = drops
        /\ now' = now /\ made' = made /\ shown' = shown /\ held' = held
    BY DEF AccountBack, chartVars, marketVars
  <1>2. Queue' BY <1>1, Facts DEF Queue
  <1>3. /\ link' \in BOOLEAN /\ signed' \in BOOLEAN /\ followed' \in Symbols \cup {NoSymbol}
        /\ drops' \in Nat /\ events' \in Seq(Events) /\ Len(events') <= EventCapacity
        /\ missed' \subseteq Slots /\ missed \subseteq missed'
    <2>1. missed' \subseteq Slots /\ missed \subseteq missed' /\ events' \in Seq(Events)
      BY <1>1, SightIs, Facts DEF TypeOK
    <2>2. link' \in BOOLEAN /\ signed' \in BOOLEAN BY <1>1, Facts, Zenon DEF TypeOK
    <2> QED BY <1>1, <2>1, <2>2, Facts DEF TypeOK
  <1>4. ASSUME load = "ready", NEW t \in Slots, held[t] # made[shown][t], t \notin missed',
               Told(t) \/ Refilled(t)
        PROVE  Told(t)'
    BY <1>1, <1>3, <1>4, SightIs DEF Told, Refilled, Newer
  <1> QED BY <1>1, <1>2, <1>3, <1>4, NetworkInv

\* The symbol shown is subscribed: what lags then is given up.
LEMMA FollowInv == ASSUME Inv, Follow PROVE Inv'
  <1>1. /\ UNCHANGED <<chartVars, requests, marketVars>> /\ events' = events
        /\ LoseSight(IF link THEN Slots ELSE {})
        /\ link' = link /\ signed' = signed /\ followed' = shown /\ drops' = drops
        /\ now' = now /\ made' = made /\ shown' = shown /\ held' = held
    BY DEF Follow, chartVars, marketVars
  <1>2. Queue' BY <1>1, Facts DEF Queue
  <1>3. /\ link' \in BOOLEAN /\ signed' \in BOOLEAN /\ followed' \in Symbols \cup {NoSymbol}
        /\ drops' \in Nat /\ events' \in Seq(Events) /\ Len(events') <= EventCapacity
        /\ missed' \subseteq Slots /\ missed \subseteq missed'
    <2>1. missed' \subseteq Slots /\ missed \subseteq missed' /\ events' \in Seq(Events)
      BY <1>1, SightIs, Facts DEF TypeOK
    <2> QED BY <1>1, <2>1, Facts DEF TypeOK
  <1>4. ~link => \A t : (Told(t) => Told(t)') /\ (Refilled(t) => Refilled(t)')
    BY <1>1 DEF Told, Refilled, Newer, Sent
  <1>5. ASSUME link, load = "ready", NEW t \in Slots, held[t] # made[shown][t], t \notin missed',
               Told(t) \/ Refilled(t)
        PROVE  Told(t)'
    BY <1>1, <1>3, <1>5, SightIs DEF Told, Refilled, Newer
  <1> QED BY <1>1, <1>2, <1>3, <1>4, <1>5, NetworkInv

-----------------------------------------------------------------------------
(* The server *)

\* A load that ended.
Ended(r, state, series) == [r EXCEPT !.state = state, !.bars = series]

\* It differs from what was asked in its answer.
LEMMA EndIs ==
  ASSUME NEW r \in Requests, NEW state \in {"answered", "failed"}, NEW series \in Series
  PROVE  LET s == Ended(r, state, series) IN
         /\ s \in Requests /\ s.kind = r.kind /\ s.epoch = r.epoch /\ s.of = r.of
         /\ s.from = r.from /\ s.to = r.to /\ s.bars = series /\ s.state = state
         /\ r.from \in Nat /\ r.to \in Nat
  <1> DEFINE s == [r EXCEPT !.state = state, !.bars = series]
  <1>1. s \in Requests BY DEF Requests
  <1>2. s.kind = r.kind /\ s.epoch = r.epoch /\ s.of = r.of BY DEF Requests
  <1>3. s.from = r.from /\ s.to = r.to BY DEF Requests
  <1>4. s.bars = series /\ s.state = state BY DEF Requests
  <1>5. r.from \in Slots /\ r.to \in 0..LastSlot BY DEF Requests
  <1>6. r.from \in Nat BY <1>5, Times0
  <1>7. r.to \in Nat
    <2>1. \A n \in 0..LastSlot : n \in Nat BY SlotsAre
    <2> QED BY <1>5, <2>1
  <1> QED BY <1>1, <1>2, <1>3, <1>4, <1>6, <1>7 DEF Ended

\* How a request ends.
LEMMA EndInv ==
  ASSUME Inv, NEW r \in requests, NEW state \in {"answered", "failed"}, NEW series \in Series,
         End(r, state, series),
         \A t \in Slots : series[t] <= made[r.of][t],
         state = "answered" /\ r.kind = "gap" =>
           \A t \in Slots : series[t] = IF r.from <= t /\ t <= r.to THEN made[r.of][t] ELSE 0,
         state = "answered" /\ r.kind # "gap" =>
           \A u \in Times(series), t \in Slots : u <= r.to /\ (u <= t /\ t <= r.to => series[t] = made[r.of][t])
  PROVE  Inv'
  <1> DEFINE s == Ended(r, state, series)
  <1>1. /\ r.state = "asked" /\ requests' = (requests \ {r}) \cup {s}
        /\ shown' = shown /\ epoch' = epoch /\ load' = load /\ older' = older /\ held' = held
        /\ events' = events /\ missed' = missed
        /\ link' = link /\ signed' = signed /\ followed' = followed /\ drops' = drops
        /\ now' = now /\ made' = made
    BY DEF End, Ended, chartVars, netVars, marketVars
  <1>2. /\ s \in Requests /\ s.kind = r.kind /\ s.epoch = r.epoch /\ s.of = r.of
        /\ s.from = r.from /\ s.to = r.to /\ s.bars = series /\ s.state = state /\ r \in Requests
    <2>1. r \in Requests BY Facts DEF TypeOK
    <2>2. state \in {"answered", "failed"} /\ series \in Series OBVIOUS
    <2> QED BY ONLY <2>1, <2>2, EndIs
  <1> HIDE DEF s
  <1>3. TypeOK' BY <1>1, <1>2, Facts DEF TypeOK
  <1>4. Own' BY <1>1, <1>2, Facts DEF Own, OnlyItsOwn
  <1>5. Queue' BY <1>1, Facts DEF Queue
  <1>6. Loads' BY <1>1, <1>2, Facts DEF Loads, Current
  <1>7. r.from \in Nat /\ r.to \in Nat BY <1>2, EndIs
  <1>8. Asks'
    <2>1. ASSUME r.epoch = epoch
          PROVE  /\ r.kind = "gap" => \E u \in Times(held) : r.from <= u
                 /\ r.kind = "older" => Times(held) # {} /\ r.to < now
                 /\ r.kind = "gap" /\ state = "answered" =>
                      \A u \in Times(series), t \in Slots :
                        r.from <= u /\ (r.from <= t /\ t < u => series[t] = made[shown][t])
                 /\ r.kind = "older" /\ state = "answered" =>
                      \A u \in Times(series), t \in Slots :
                        u <= r.to /\ (u <= t /\ t <= r.to => series[t] = made[shown][t])
                 /\ r.kind = "initial" /\ state = "answered" =>
                      \A u, v \in Times(series), t \in Slots : u <= t /\ t < v => series[t] = made[shown][t]
      <3>1. r.of = shown BY <2>1, Facts DEF Loads, Current
      <3>2. ASSUME r.kind = "gap", state = "answered", NEW u \in Times(series), NEW t \in Slots
            PROVE  r.from <= u /\ (r.from <= t /\ t < u => series[t] = made[shown][t])
        <4>1. u \in Slots /\ u \in Nat /\ t \in Nat /\ series[u] > 0 BY SlotsAre DEF Times
        <4>2. r.from <= u /\ u <= r.to BY <3>2, <4>1
        <4>3. t < u => t <= r.to BY <1>7, <4>1, <4>2
        <4> QED BY <3>1, <3>2, <4>2, <4>3
      <3>3. ASSUME r.kind = "initial", state = "answered", NEW u \in Times(series), NEW v \in Times(series),
                   NEW t \in Slots, u <= t, t < v
            PROVE  series[t] = made[shown][t]
        <4>1. v \in Nat /\ t \in Nat /\ v <= r.to BY <3>3, HeldTimes, Times0
        <4>2. t <= r.to BY <1>7, <3>3, <4>1
        <4> QED BY <3>1, <3>3, <4>2
      <3> QED BY <2>1, <3>1, <3>2, <3>3, Facts DEF Asks, Current
    <2> QED BY <1>1, <1>2, <2>1, Facts DEF Asks, Current
  <1>9. Covered'
    <2> SUFFICES ASSUME load = "ready", NEW t \in Slots, InScope(t)', held[t] # made[shown][t]
                 PROVE  (t \in missed \/ Fetched(t) \/ Told(t) \/ Refilled(t))'
      BY <1>1 DEF Covered
    <2>1. InScope(t) BY <1>1, <1>2 DEF InScope, Bottom, Current
    <2>2. t \in missed \/ Fetched(t) \/ Told(t) \/ Refilled(t) BY <2>1, Facts DEF Covered
    <2>3. Fetched(t) => Fetched(t)'
      <3> SUFFICES ASSUME NEW q \in requests, Current(q), q.kind = "gap",
                          \/ q.state # "answered" /\ q.from <= t /\ t <= q.to
                          \/ q.state = "answered" /\ q.bars[t] = made[shown][t]
                   PROVE  Fetched(t)'
        BY DEF Fetched
      <3>1. CASE q # r BY <1>1, <3>1 DEF Fetched, Current
      <3>2. CASE q = r
        <4>1. r.from <= t /\ t <= r.to BY <1>1, <3>2
        <4>2. r.of = shown BY <3>2, Facts DEF Loads
        <4>3. state = "failed" \/ series[t] = made[shown][t] BY <3>2, <4>1, <4>2
        <4> QED BY <1>1, <1>2, <3>2, <4>1, <4>3 DEF Fetched, Current
      <3> QED BY <3>1, <3>2
    <2>4. Told(t) => Told(t)' BY <1>1 DEF Told, Newer
    <2>5. Refilled(t) => Refilled(t)' BY <1>1 DEF Refilled, Newer, Sent
    <2> QED BY <1>1, <2>2, <2>3, <2>4, <2>5
  <1> QED BY <1>3, <1>4, <1>5, <1>6, <1>8, <1>9 DEF Inv

\* The server answers with what the market made.
LEMMA AnswerInv == ASSUME Inv, NEW r \in requests, Answer(r) PROVE Inv'
  <1>1. r.of \in Symbols /\ r.to \in Nat /\ TypeOK BY Facts, SlotsAre DEF TypeOK, Requests
  <1>2. CASE r.kind = "gap"
    <2>1. End(r, "answered", InRange(r.of, r.from, r.to)) BY <1>2 DEF Answer
    <2> QED BY <1>1, <1>2, <2>1, InRangeIs, EndInv
  <1>3. CASE r.kind # "gap"
    <2>1. End(r, "answered", Newest(r.of, r.to)) BY <1>3 DEF Answer
    <2> QED BY <1>1, <1>3, <2>1, NewestIs, EndInv
  <1> QED BY <1>2, <1>3

\* A load that fails brings nothing.
LEMMA RefuseInv == ASSUME Inv, NEW r \in requests, Refuse(r) PROVE Inv'
  <1>1. r.of \in Symbols BY Facts DEF TypeOK, Requests
  <1>2. \A t \in Slots : NoBars[t] <= made[r.of][t] BY <1>1, NoBarsAre, Facts
  <1>3. End(r, "failed", NoBars) BY DEF Refuse
  <1> QED BY <1>2, <1>3, NoBarsAre, EndInv

\* The next bar opens, which has no ticks yet.
LEMMA NextBarInv == ASSUME Inv, NextBar PROVE Inv'
  <1>1. /\ now < LastSlot /\ now' = now + 1 /\ requests' = requests
        /\ shown' = shown /\ epoch' = epoch /\ load' = load /\ older' = older /\ held' = held
        /\ events' = events /\ missed' = missed /\ made' = made
        /\ link' = link /\ signed' = signed /\ followed' = followed /\ drops' = drops
    BY DEF NextBar, chartVars, netVars
  <1>2. now \in Nat /\ \A t \in Nat : t <= now => t <= now + 1 BY Facts
  <1>3. now + 1 \in Slots BY <1>1, <1>2, SlotsAre, Facts DEF Slots
  <1>4. TypeOK' BY <1>1, <1>3, Facts DEF TypeOK
  <1>5. Own' BY <1>1, <1>2, Facts, Times0 DEF Own, OnlyItsOwn
  <1>6. Queue' BY <1>1, <1>2, Facts, Times0 DEF Queue
  <1>7. Loads' BY <1>1, Facts DEF Loads, Current
  <1>8. \A r \in requests : r.to < now => r.to < now + 1
    BY <1>2, Facts, SlotsAre DEF TypeOK, Requests
  <1>9. Asks' BY <1>1, <1>8, Facts DEF Asks, Current
  <1>10. Covered'
    <2> SUFFICES ASSUME load = "ready", NEW t \in Slots, InScope(t)', held[t] # made[shown][t]
                 PROVE  (t \in missed \/ Fetched(t) \/ Told(t) \/ Refilled(t))'
      BY <1>1 DEF Covered
    <2>1. InScope(t) BY <1>1 DEF InScope, Bottom, Current
    <2>2. t \in missed \/ Fetched(t) \/ Told(t) \/ Refilled(t) BY <2>1, Facts DEF Covered
    <2>3. Fetched(t) => Fetched(t)' BY <1>1 DEF Fetched, Current
    <2>4. Told(t) => Told(t)' BY <1>1 DEF Told, Newer
    <2>5. Refilled(t) => Refilled(t)' BY <1>1 DEF Refilled, Newer, Sent
    <2> QED BY <1>1, <2>2, <2>3, <2>4, <2>5
  <1> QED BY <1>4, <1>5, <1>6, <1>7, <1>9, <1>10 DEF Inv

\* A tick of the open bar is told, or it is not sent: either way the bar stays covered.
LEMMA TradeInv == ASSUME Inv, NEW c \in Traded, Trade(c) PROVE Inv'
  <1> DEFINE e == [kind |-> "live", of |-> c, slot |-> now, ticks |-> made[c][now] + 1]
             n == Len(events)
  <1>1. c \in Symbols /\ now \in Slots /\ now \in Nat /\ made[c][now] \in Nat /\ MaxTicks \in Nat
        /\ made \in [Symbols -> Series] /\ made[c] \in [Slots -> 0..MaxTicks] /\ n \in Nat
    BY ChartAssumption, Facts, SlotsAre DEF TypeOK, Series
  <1>2. /\ made[c][now] < MaxTicks /\ made' = [made EXCEPT ![c][now] = @ + 1] /\ now' = now
        /\ requests' = requests
        /\ shown' = shown /\ epoch' = epoch /\ load' = load /\ older' = older /\ held' = held
        /\ link' = link /\ signed' = signed /\ followed' = followed /\ drops' = drops
    BY DEF Trade, chartVars, netVars
  <1>3. /\ made' \in [Symbols -> Series]
        /\ made'[c][now] = made[c][now] + 1
        /\ \A d \in Symbols, t \in Slots : d # c \/ t # now => made'[d][t] = made[d][t]
    BY <1>1, <1>2 DEF Series
  <1>4. IF Sent(c) THEN Emit(e) ELSE events' = events /\ missed' = missed
    BY <1>3 DEF Trade
  <1>5. e \in Events /\ e.kind = "live" /\ e.of = c /\ e.slot = now /\ e.ticks = made'[c][now]
    <2>1. made[c][now] + 1 \in 0..MaxTicks BY <1>1, <1>2
    <2>2. now \in 0..LastSlot BY <1>1, SlotsAre DEF Slots
    <2> QED BY <1>1, <1>3, <2>1, <2>2 DEF Events
  <1> HIDE DEF e
  <1>6. \A d \in Symbols, t \in Slots :
          made'[d][t] \in Nat /\ made[d][t] \in Nat /\ made'[d][t] >= made[d][t]
    <2> TAKE d \in Symbols, t \in Slots
    <2>1. made[d][t] \in Nat BY Facts
    <2> QED BY <1>1, <1>3, <2>1
  <1>7. /\ events' \in Seq(Events) /\ Len(events') <= EventCapacity
        /\ missed \subseteq missed' /\ missed' \subseteq Slots
        /\ Sent(c) => Len(events') \in Nat /\ Len(events') > 0 /\ events'[Len(events')] = e
    <2>1. CASE Sent(c) BY <1>4, <1>5, <2>1, EmitIs, EmitMissed, Facts
    <2>2. CASE ~Sent(c) BY <1>4, <2>2, Facts DEF TypeOK
    <2> QED BY <2>1, <2>2
  <1>8. TypeOK' BY <1>2, <1>3, <1>7, Facts DEF TypeOK
  <1>9. Own'
    <2>1. shown # NoSymbol => \A t \in Slots : held[t] <= made'[shown][t]
      BY <1>6, Facts DEF Own, OnlyItsOwn, TypeOK
    <2>2. \A r \in requests, t \in Slots : r.bars[t] <= made'[r.of][t]
      <3> TAKE r \in requests, t \in Slots
      <3>1. r.of \in Symbols /\ r.bars[t] \in 0..MaxTicks BY Facts DEF TypeOK, Requests, Series
      <3>2. r.bars[t] <= made[r.of][t] /\ r.bars[t] \in Nat BY <1>1, <3>1, Facts DEF Own
      <3>3. made'[r.of][t] >= made[r.of][t] /\ made'[r.of][t] \in Nat /\ made[r.of][t] \in Nat
        BY <1>6, <3>1
      <3> QED BY <3>2, <3>3
    <2>3. \A d \in Symbols, t \in Slots : made'[d][t] > 0 => t <= now
      BY <1>1, <1>3, Facts DEF Own
    <2> QED BY <1>2, <2>1, <2>2, <2>3 DEF Own, OnlyItsOwn
  <1>10. Queue'
    <2>1. CASE Sent(c) BY <1>1, <1>2, <1>3, <1>4, <1>5, <1>6, <2>1, EmitQueue, Facts
    <2>2. CASE ~Sent(c)
      <3>1. events' = events BY <1>4, <2>2
      <3>2. ASSUME NEW i \in 1..Len(events), events[i].kind = "live"
            PROVE  events[i].ticks <= made'[events[i].of][events[i].slot]
        <4>1. events[i] \in Events BY Facts DEF TypeOK
        <4>2. events[i].ticks \in Nat BY <4>1, SlotsAre DEF Events
        <4>3. /\ events[i].of \in Symbols /\ events[i].slot \in Slots
              /\ events[i].ticks <= made[events[i].of][events[i].slot]
          BY <3>2, Facts DEF Queue
        <4> QED BY <1>6, <4>2, <4>3
      <3> QED BY <1>2, <3>1, <3>2, Facts DEF Queue
    <2> QED BY <2>1, <2>2
  <1>11. Loads' BY <1>2, Facts DEF Loads, Current
  <1>12. shown \in Symbols => \A t \in Slots : t < now => made'[shown][t] = made[shown][t]
    BY <1>1, <1>3, Times0
  <1>13. Asks'
    <2>1. ASSUME NEW r \in requests, Current(r), r.kind = "gap", r.state = "answered",
                 NEW u \in Times(r.bars), NEW t \in Slots
          PROVE  r.from <= u /\ (r.from <= t /\ t < u => r.bars[t] = made'[shown][t])
      <3>1. r.from <= u /\ (r.from <= t /\ t < u => r.bars[t] = made[shown][t]) /\ r.of = shown
        BY <2>1, Facts DEF Asks, Loads
      <3>2. shown \in Symbols BY <2>1, <3>1, Facts DEF TypeOK, Requests
      <3>3. u \in Slots /\ u \in Nat /\ t \in Nat /\ r.bars[u] > 0 /\ r.bars[u] \in 0..MaxTicks
        BY SlotsAre, Facts DEF Times, TypeOK, Requests, Series
      <3>4. made[shown][u] > 0 BY <1>1, <3>1, <3>2, <3>3, Facts DEF Own
      <3>5. u <= now BY <3>2, <3>3, <3>4, Facts DEF Own
      <3> QED BY <1>1, <1>12, <3>1, <3>2, <3>3, <3>5
    <2>2. ASSUME NEW r \in requests, Current(r), r.kind = "older", r.state = "answered",
                 NEW u \in Times(r.bars), NEW t \in Slots
          PROVE  u <= r.to /\ (u <= t /\ t <= r.to => r.bars[t] = made'[shown][t])
      <3>1. u <= r.to /\ (u <= t /\ t <= r.to => r.bars[t] = made[shown][t]) /\ r.of = shown /\ r.to < now
        BY <2>2, Facts DEF Asks, Loads
      <3>2. shown \in Symbols /\ r.to \in Nat BY <2>2, <3>1, SlotsAre, Facts DEF TypeOK, Requests
      <3>3. t <= r.to => t < now BY <1>1, <3>1, <3>2, Times0
      <3> QED BY <1>12, <3>1, <3>2, <3>3
    <2>3. ASSUME NEW r \in requests, Current(r), r.kind = "initial", r.state = "answered",
                 NEW u \in Times(r.bars), NEW v \in Times(r.bars), NEW t \in Slots, u <= t, t < v
          PROVE  r.bars[t] = made'[shown][t]
      <3>1. r.bars[t] = made[shown][t] /\ r.of = shown BY <2>3, Facts DEF Asks, Loads
      <3>2. shown \in Symbols BY <2>3, <3>1, Facts DEF TypeOK, Requests
      <3>3. v \in Slots /\ v \in Nat /\ t \in Nat /\ r.bars[v] > 0 /\ r.bars[v] \in 0..MaxTicks
        BY SlotsAre, Facts DEF Times, TypeOK, Requests, Series
      <3>4. made[shown][v] > 0 BY <1>1, <3>1, <3>2, <3>3, Facts DEF Own
      <3>5. v <= now BY <3>2, <3>3, <3>4, Facts DEF Own
      <3> QED BY <1>1, <1>12, <2>3, <3>1, <3>2, <3>3, <3>5
    <2> QED BY <1>2, <2>1, <2>2, <2>3, Facts DEF Asks, Current
  <1>14. Covered'
    <2> SUFFICES ASSUME load = "ready", NEW t \in Slots, InScope(t)', held[t] # made'[shown][t]
                 PROVE  (t \in missed \/ Fetched(t) \/ Told(t) \/ Refilled(t))'
      BY <1>2 DEF Covered
    <2>1. shown \in Symbols /\ t \in Nat BY Facts, Times0
    <2>2. InScope(t) BY <1>2 DEF InScope, Bottom, Current
    <2>3. CASE c = shown /\ t = now
      <3>1. ~Newer(t)'
        <4>1. \A u \in Times(held) : u <= now /\ u \in Nat BY HeldIsOver, HeldTimes
        <4> QED BY <1>1, <1>2, <2>3, <4>1 DEF Newer
      <3>2. CASE Sent(c)
        <4>1. Len(events') \in 1..Len(events') /\ events'[Len(events')] = e BY <1>7, <3>2
        <4>2. e = [kind |-> "live", of |-> shown', slot |-> t, ticks |-> made'[shown'][t]]
          BY <1>2, <1>3, <2>3 DEF e
        <4> QED BY <3>1, <4>1, <4>2 DEF Told
      <3>3. CASE ~Sent(c)
        <4>1. events' = events /\ ~Sent(shown)' BY <1>2, <1>4, <2>3, <3>3 DEF Sent
        <4>2. \A i \in 1..n : events[i].kind = "live" => events[i].slot <= t
          BY <2>3, Facts DEF Queue
        <4>3. n + 1 \in 1..n + 1 /\ \A i \in 1..(n + 1) - 1 : i \in 1..n BY <1>1
        <4> QED BY <3>1, <4>1, <4>2, <4>3 DEF Refilled
      <3> QED BY <3>2, <3>3
    <2>4. CASE ~(c = shown /\ t = now)
      <3>1. made'[shown][t] = made[shown][t] BY <1>3, <2>1, <2>4
      <3>2. t \in missed \/ Fetched(t) \/ Told(t) \/ Refilled(t) BY <2>2, <3>1, Facts DEF Covered
      <3>3. Fetched(t) => Fetched(t)' BY <1>2, <3>1 DEF Fetched, Current
      <3>4. CASE t \in missed' BY <3>4
      <3>5. CASE events' = events /\ ~Sent(c)
        <4>1. Told(t) => Told(t)' BY <1>2, <3>1, <3>5 DEF Told, Newer
        <4>2. Refilled(t) => Refilled(t)' BY <1>2, <3>5 DEF Refilled, Newer, Sent
        <4> QED BY <1>7, <3>2, <3>3, <4>1, <4>2
      <3>6. CASE Sent(c) /\ t \notin missed'
        <4>1. ~Sent(shown) => ~Sent(shown)' /\ e.of # shown BY <1>2, <1>5, <3>6 DEF Sent
        <4>2. Told(t) \/ Refilled(t) => Told(t)' \/ Refilled(t)'
          BY <1>2, <1>4, <1>5, <3>1, <3>6, <4>1, EmitKeeps
        <4> QED BY <1>7, <3>2, <3>3, <3>6, <4>2
      <3> QED BY <1>4, <3>4, <3>5, <3>6
    <2> QED BY <2>3, <2>4
  <1> QED BY <1>8, <1>9, <1>10, <1>11, <1>13, <1>14 DEF Inv

-----------------------------------------------------------------------------
(* The theorems of the chart *)

\* Nothing is shown at first.
LEMMA InitInv == Init => Inv
  <1> SUFFICES ASSUME Init PROVE Inv OBVIOUS
  <1>1. MaxTicks \in Nat /\ MaxTicks > 0 /\ Past \in Nat /\ Past + 1 \in Slots
    BY ChartAssumption, SlotsAre DEF Slots
  <1>2. TypeOK
    <2>1. \A c \in Symbols : made[c] \in Series
      <3> TAKE c \in Symbols
      <3>1. made[c] = [t \in Slots |-> IF t <= Past THEN 1 ELSE 0] BY DEF Init
      <3>2. 1 \in 0..MaxTicks /\ 0 \in 0..MaxTicks BY <1>1
      <3> QED BY <3>1, <3>2 DEF Series
    <2>2. made \in [Symbols -> Series] BY <2>1 DEF Init
    <2>3. link \in BOOLEAN /\ signed \in BOOLEAN BY Zenon DEF Init
    <2>4. events \in Seq(Events) /\ Len(events) <= EventCapacity BY SlotsAre DEF Init
    <2> QED BY <1>1, <2>2, <2>3, <2>4, NoBarsAre DEF Init, TypeOK
  <1>3. Own
    <2>1. ASSUME NEW c \in Symbols, NEW t \in Slots, made[c][t] > 0 PROVE t <= now
      <3>1. made[c][t] = IF t <= Past THEN 1 ELSE 0 BY DEF Init
      <3> QED BY <1>1, <2>1, <3>1, Times0 DEF Init
    <2> QED BY <2>1 DEF Init, Own, OnlyItsOwn
  <1>4. Queue BY DEF Init, Queue
  <1>5. Loads /\ Asks /\ Covered BY DEF Init, Loads, Asks, Covered
  <1> QED BY <1>2, <1>3, <1>4, <1>5 DEF Inv

\* Nothing happens.
LEMMA StutterInv == ASSUME Inv, UNCHANGED vars PROVE Inv'
  <1>1. /\ UNCHANGED <<chartVars, requests, marketVars>> /\ events' = events /\ missed' = missed
        /\ link' = link /\ signed' = signed /\ followed' = followed /\ drops' = drops
        /\ now' = now /\ made' = made /\ shown' = shown /\ held' = held
    BY DEF vars, chartVars, netVars, marketVars
  <1>2. Queue' BY <1>1, Facts DEF Queue
  <1>3. \A t : (Told(t) => Told(t)') /\ (Refilled(t) => Refilled(t)')
    BY <1>1 DEF Told, Refilled, Newer, Sent
  <1>4. /\ link' \in BOOLEAN /\ signed' \in BOOLEAN /\ followed' \in Symbols \cup {NoSymbol}
        /\ drops' \in Nat /\ events' \in Seq(Events) /\ Len(events') <= EventCapacity
        /\ missed' \subseteq Slots /\ missed \subseteq missed'
    BY <1>1, Facts DEF TypeOK
  <1> QED BY <1>1, <1>2, <1>3, <1>4, NetworkInv

\* Every step preserves the invariant.
LEMMA StepInv == Inv /\ [Next]_vars => Inv'
  <1> SUFFICES ASSUME Inv, [Next]_vars PROVE Inv' OBVIOUS
  <1>1. CASE User BY <1>1, ShowInv, RetryInv, AskOlderInv DEF User
  <1>2. CASE \E r \in requests : Loaded(r)
    BY <1>2, OutdatedInv, InitialInv, GapInv, OlderInv DEF Loaded
  <1>3. CASE OnEvent BY <1>3, OnReadyInv, OnLiveInv DEF OnEvent
  <1>4. CASE Network
    BY <1>4, DropInv, ReconnectInv, AccountOutInv, AccountBackInv, FollowInv DEF Network
  <1>5. CASE Server BY <1>5, AnswerInv, RefuseInv, TradeInv, NextBarInv DEF Server
  <1>6. CASE UNCHANGED vars BY <1>6, StutterInv
  <1> QED BY <1>1, <1>2, <1>3, <1>4, <1>5, <1>6 DEF Next

\* The chart's invariant holds.
THEOREM Invariance == Spec => []Inv
  <1> QED BY InitInv, StepInv, PTL DEF Spec

\* The chart's variables have their types.
THEOREM ChartTypes == Spec => []TypeOK
  <1>1. Inv => TypeOK BY DEF Inv
  <1> QED BY <1>1, Invariance, PTL

\* What the chart shows are bars of what it shows, as the market made them or an earlier state
\* of them, whatever was asked for, and answered, before the user chose something else.
THEOREM OnlyOwnBars == Spec => []OnlyItsOwn
  <1>1. Inv => OnlyItsOwn BY DEF Inv, Own
  <1> QED BY <1>1, Invariance, PTL

\* Once a chart is at rest it has every bar from its oldest one on, none missing and none cut
\* short, however the connection came and went and however the answers and the live bars crossed:
\* but for the bars that NothingIsMissing names, each let go by a step that lost it.
THEOREM NothingStaysMissing == Spec => []NothingIsMissing
  <1>1. Inv => NothingIsMissing
    <2> SUFFICES ASSUME Inv, AtRest, NEW t \in Accounted(held), held[t] # made[shown][t]
                 PROVE  t \in missed
      BY DEF NothingIsMissing
    <2>1. load = "ready" /\ events = <<>> /\ Len(events) = 0 /\ Sent(shown)
          /\ ~\E r \in requests : Current(r)
      BY DEF AtRest, Sent
    <2>2. t \in Slots /\ InScope(t) BY NoBarsAre DEF Accounted, InScope
    <2>3. t \in missed \/ Fetched(t) \/ Told(t) \/ Refilled(t) BY <2>1, <2>2, Facts DEF Covered
    <2>4. ~Fetched(t) BY <2>1 DEF Fetched
    <2>5. ~Told(t) BY <2>1 DEF Told
    <2>6. ~Refilled(t)
      <3>1. \A p \in 1..Len(events) + 1 : p = Len(events) + 1 BY <2>1
      <3> QED BY <2>1, <3>1 DEF Refilled
    <2> QED BY <2>3, <2>4, <2>5, <2>6
  <1> QED BY <1>1, Invariance, PTL

-----------------------------------------------------------------------------
(* The alerts: what every step preserves *)

\* The alerts of a book have their shape, none is of an edition to come, and the last
\* bar each fired for is past.
BookHolds(b) ==
  /\ b = [alerts |-> b.alerts, next_id |-> b.next_id]
  /\ b.alerts \in [DOMAIN b.alerts -> NewAlert]
  /\ \A a \in DOMAIN b.alerts :
       /\ Editable(b.alerts[a].set) /\ b.alerts[a].edition <= edits
       /\ b.alerts[a].bar_key <= Judges(b.alerts[a].set, lastBar)

\* A reading that is answered has no bars older than those the alerts were judged on.
LoadHolds ==
  /\ reading = [state |-> reading.state, bars |-> reading.bars]
  /\ reading.state = "answered" =>
       /\ Len(reading.bars) \in Nat /\ Len(reading.bars) >= 4 /\ Len(reading.bars) <= lastBar
       /\ \A a \in DOMAIN book.alerts : NeedsBars(book.alerts[a].set) =>
            book.alerts[a].bar_key <= Judges(book.alerts[a].set, Len(reading.bars))

\* An alert that fired since it was saved: once, and it is off; once for a bar, and the
\* bar is noted.
Same(f, alert, a) == f.alert = a /\ f.edition = alert.edition /\ f.life = life
SpentFor(f, alert) ==
  /\ alert.set.trigger = "once" => ~alert.active
  /\ alert.set.trigger \in {"once per bar", "bar close"} => f.bar <= alert.bar_key
Spent ==
  /\ \A f \in fired : f.edition <= edits /\ f.life <= life
  /\ \A f \in fired : f.edition \in Nat /\ f.life \in Nat /\ f.bar \in Int
  /\ \A f \in fired, a \in DOMAIN book.alerts :
       Same(f, book.alerts[a], a) => SpentFor(f, book.alerts[a])

\* What an alert saw last is of a time since it is set as it is, but for one that was last
\* judged on bars read before.  One that was set anew since the bars under way were read has
\* seen nothing yet that they could be compared with.
SeenIsOwn ==
  /\ \A a \in DOMAIN last : a \in early \/ (a \in DOMAIN prior /\ prior[a] = last[a])
  /\ \A a \in outrun \cap DOMAIN last :
       a \in DOMAIN book.alerts => ~NeedsBars(book.alerts[a].set)

\* The inductive invariant of the alerts.
AlertsInv ==
  /\ edits \in Nat /\ life \in Nat /\ bars \in Seq(Values) /\ Len(bars) >= 4
  /\ scheduled = book /\ BookHolds(book) /\ BookHolds(disk)
  /\ LoadHolds /\ Spent /\ SeenIsOwn

\* The fields of what an alert is set to.
LEMMA SettingsAre ==
  /\ \A s \in Settings : /\ s.source \in {"price", "indicator"} /\ s.condition \in Conditions
                         /\ s.trigger \in Triggers /\ s.price \in Values /\ s.upper \in Values
  /\ \A s \in Settings, p \in Values : [s EXCEPT !.price = p] \in Settings
  /\ Offered \subseteq Settings /\ \A s \in Offered : Editable(s)
  /\ Values \subseteq Nat
  BY AlertsAssumption DEF Settings

\* The fields of an alert.
LEMMA AlertsAre ==
  \A alert \in NewAlert :
    /\ alert.set \in Settings /\ alert.active \in BOOLEAN /\ alert.made \in Nat
    /\ alert.expires_at \in Nat /\ alert.snoozed_until \in Nat /\ alert.bar_key \in Nat
    /\ alert.edition \in Nat
  BY DEF NewAlert

\* A change of an alert that is still the one that fired, and a new edition of it.
Kin(old, new) ==
  /\ new.edition = old.edition /\ new.bar_key = old.bar_key /\ (new.active => old.active)
  /\ new.set.source = old.set.source /\ new.set.trigger = old.set.trigger
  /\ new.set.condition = old.set.condition
Comes(b, a) ==
  \/ a \in DOMAIN book.alerts /\ Kin(book.alerts[a], b.alerts[a]) /\ edits' >= edits
  \/ b.alerts[a].edition = edits + 1 /\ b.alerts[a].bar_key = 0 /\ edits' = edits + 1

\* A book whose alerts all come from the one before keeps what holds of it.
LEMMA ComingKeeps ==
  ASSUME AlertsInv, NEW b, b = [alerts |-> b.alerts, next_id |-> b.next_id],
         b.alerts \in [DOMAIN b.alerts -> NewAlert],
         \A a \in DOMAIN b.alerts : Editable(b.alerts[a].set) /\ Comes(b, a),
         edits' \in Nat, edits' >= edits, UNCHANGED <<life, fired, bars, disk>>,
         book' = b,
         \/ reading' = [reading EXCEPT !.state = "asked"] /\ reading.state # "answered"
         \/ reading' = reading
  PROVE  BookHolds(book)' /\ BookHolds(disk)' /\ LoadHolds' /\ Spent'
  <1>1. /\ edits \in Nat /\ life \in Nat /\ Len(bars) \in Nat /\ Len(bars) >= 4
        /\ book.alerts \in [DOMAIN book.alerts -> NewAlert]
        /\ lastBar' = lastBar /\ lastBar = Len(bars)
    BY DEF AlertsInv, BookHolds, lastBar
  <1>2. \A a \in DOMAIN b.alerts : b.alerts[a] \in NewAlert OBVIOUS
  <1>3. \A a \in DOMAIN book.alerts : book.alerts[a] \in NewAlert BY <1>1
  <1>4. ASSUME NEW a \in DOMAIN b.alerts
        PROVE  /\ b.alerts[a].edition <= edits'
               /\ \A n \in Nat : n >= 1 /\ (a \in DOMAIN book.alerts =>
                                  book.alerts[a].bar_key <= Judges(book.alerts[a].set, n)) =>
                    b.alerts[a].bar_key <= Judges(b.alerts[a].set, n)
    <2>1. b.alerts[a] \in NewAlert /\ b.alerts[a].edition \in Nat BY <1>2, AlertsAre
    <2>2. CASE a \in DOMAIN book.alerts /\ Kin(book.alerts[a], b.alerts[a])
      <3>1. book.alerts[a].edition <= edits BY <2>2 DEF AlertsInv, BookHolds
      <3>2. book.alerts[a].edition \in Nat BY <1>3, <2>2, AlertsAre
      <3>3. OnClosed(b.alerts[a].set) <=> OnClosed(book.alerts[a].set) BY <2>2 DEF Kin, OnClosed
      <3>4. \A n : Judges(b.alerts[a].set, n) = Judges(book.alerts[a].set, n)
        BY <3>3 DEF Judges
      <3>5. b.alerts[a].edition <= edits' BY <1>1, <2>2, <3>1, <3>2 DEF Kin
      <3> QED BY <2>2, <3>4, <3>5 DEF Kin
    <2>3. CASE b.alerts[a].edition = edits + 1 /\ b.alerts[a].bar_key = 0 /\ edits' = edits + 1
      BY <1>1, <2>3 DEF Judges
    <2> QED BY <2>2, <2>3 DEF Comes
  <1>5. BookHolds(book)'
    <2>1. \A a \in DOMAIN book.alerts : book.alerts[a].bar_key <= Judges(book.alerts[a].set, lastBar)
      BY DEF AlertsInv, BookHolds
    <2>2. \A a \in DOMAIN b.alerts : b.alerts[a].bar_key <= Judges(b.alerts[a].set, lastBar)
      BY <1>1, <1>4, <2>1
    <2> QED BY <1>1, <1>4, <2>2 DEF BookHolds, Judges, OnClosed, Editable
  <1>6. BookHolds(disk)'
    <2>1. \A a \in DOMAIN disk.alerts : disk.alerts[a].edition \in Nat
      BY AlertsAre DEF AlertsInv, BookHolds
    <2>2. BookHolds(disk) BY DEF AlertsInv
    <2>3. \A a \in DOMAIN disk.alerts : disk.alerts[a].edition <= edits'
      BY <1>1, <2>1, <2>2 DEF BookHolds
    <2>4. disk' = disk OBVIOUS
    <2> QED BY <1>1, <2>2, <2>3, <2>4 DEF BookHolds, Judges, OnClosed, Editable
  <1>7. LoadHolds'
    <2>1. CASE reading' = reading
      <3>1. reading.state = "answered" /\ Len(reading.bars) \in Nat /\ Len(reading.bars) >= 4 =>
              \A a \in DOMAIN b.alerts : NeedsBars(b.alerts[a].set) =>
                b.alerts[a].bar_key <= Judges(b.alerts[a].set, Len(reading.bars))
        <4> SUFFICES ASSUME reading.state = "answered", Len(reading.bars) \in Nat, Len(reading.bars) >= 4,
                            NEW a \in DOMAIN b.alerts, NeedsBars(b.alerts[a].set)
                     PROVE  b.alerts[a].bar_key <= Judges(b.alerts[a].set, Len(reading.bars))
          OBVIOUS
        <4>1. CASE a \in DOMAIN book.alerts /\ Kin(book.alerts[a], b.alerts[a])
          <5>1. NeedsBars(book.alerts[a].set) BY <4>1 DEF NeedsBars, Kin
          <5> QED BY <1>4, <4>1, <5>1 DEF AlertsInv, LoadHolds
        <4>2. CASE b.alerts[a].bar_key = 0 BY <4>2 DEF Judges
        <4> QED BY <4>1, <4>2 DEF Comes
      <3> QED BY <1>1, <2>1, <3>1 DEF AlertsInv, LoadHolds, Judges, OnClosed, NeedsBars
    <2>2. CASE reading' = [reading EXCEPT !.state = "asked"] /\ reading.state # "answered"
      <3>1. reading = [state |-> reading.state, bars |-> reading.bars] BY DEF AlertsInv, LoadHolds
      <3>2. reading' = [state |-> "asked", bars |-> reading.bars] BY <2>2, <3>1
      <3> QED BY <3>2 DEF LoadHolds
    <2> QED BY <2>1, <2>2
  <1>8. Spent'
    <2>1. \A f \in fired : f.edition <= edits' /\ f.edition \in Nat /\ f.edition <= edits
      BY <1>1 DEF AlertsInv, Spent
    <2>2. ASSUME NEW f \in fired, NEW a \in DOMAIN b.alerts, Same(f, b.alerts[a], a)
          PROVE  SpentFor(f, b.alerts[a])
      <3>1. ~(b.alerts[a].edition = edits + 1) BY <1>1, <2>1, <2>2 DEF Same
      <3>2. a \in DOMAIN book.alerts /\ Kin(book.alerts[a], b.alerts[a]) BY <3>1 DEF Comes
      <3>3. Same(f, book.alerts[a], a) BY <2>2, <3>2 DEF Same, Kin
      <3>4. SpentFor(f, book.alerts[a]) BY <3>2, <3>3 DEF AlertsInv, Spent
      <3> QED BY <3>2, <3>4 DEF SpentFor, Kin
    <2> QED BY <2>1, <2>2 DEF AlertsInv, Spent, Same, SpentFor
  <1> QED BY <1>5, <1>6, <1>7, <1>8

\* What expires is only turned off.
LEMMA ExpiredIs ==
  ASSUME NEW b, b = [alerts |-> b.alerts, next_id |-> b.next_id],
         b.alerts \in [DOMAIN b.alerts -> NewAlert]
  PROVE  LET c == Expired(b) IN
         /\ c = [alerts |-> c.alerts, next_id |-> c.next_id]
         /\ c.alerts \in [DOMAIN b.alerts -> NewAlert] /\ DOMAIN c.alerts = DOMAIN b.alerts
         /\ \A a \in DOMAIN b.alerts :
              /\ c.alerts[a].set = b.alerts[a].set /\ c.alerts[a].edition = b.alerts[a].edition
              /\ c.alerts[a].bar_key = b.alerts[a].bar_key
              /\ c.alerts[a].active => b.alerts[a].active
  <1> DEFINE g == [a \in DOMAIN b.alerts |->
                     [b.alerts[a] EXCEPT !.active = b.alerts[a].active /\ ~IsExpired(b.alerts[a])]]
  <1>1. Expired(b) = [b EXCEPT !.alerts = g] BY DEF Expired
  <1>2. Expired(b) = [alerts |-> g, next_id |-> b.next_id]
    <2> HIDE DEF g
    <2> QED BY <1>1
  <1>3. ASSUME NEW a \in DOMAIN b.alerts
        PROVE  /\ g[a] \in NewAlert /\ g[a].set = b.alerts[a].set
               /\ g[a].edition = b.alerts[a].edition /\ g[a].bar_key = b.alerts[a].bar_key
               /\ g[a].active => b.alerts[a].active
    BY DEF NewAlert
  <1>4. g \in [DOMAIN b.alerts -> NewAlert] /\ DOMAIN g = DOMAIN b.alerts BY <1>3
  <1> HIDE DEF g
  <1> QED BY <1>2, <1>3, <1>4

\* What every poll and every edit ends with.
LEMMA PollKeeps ==
  ASSUME AlertsInv, NEW b, b = [alerts |-> b.alerts, next_id |-> b.next_id],
         b.alerts \in [DOMAIN b.alerts -> NewAlert],
         \A a \in DOMAIN b.alerts : Editable(b.alerts[a].set) /\ Comes(b, a),
         edits' \in Nat, edits' >= edits, UNCHANGED <<life, bars, disk>>, Poll(b)
  PROVE  BookHolds(book)' /\ BookHolds(disk)' /\ LoadHolds' /\ Spent'
  <1>1. /\ book' = Expired(b) /\ fired' = fired
        /\ \/ reading' = [reading EXCEPT !.state = "asked"] /\ reading.state = "none"
           \/ reading' = reading
    BY DEF Poll
  <1>2. PICK c : c = Expired(b) OBVIOUS
  <1>3. /\ c = [alerts |-> c.alerts, next_id |-> c.next_id]
        /\ c.alerts \in [DOMAIN c.alerts -> NewAlert]
        /\ \A a \in DOMAIN c.alerts : Editable(c.alerts[a].set) /\ Comes(c, a)
    BY <1>2, ExpiredIs DEF Comes, Kin
  <1>4. \/ reading' = [reading EXCEPT !.state = "asked"] /\ reading.state # "answered"
        \/ reading' = reading
    BY <1>1
  <1>5. book' = c /\ UNCHANGED <<life, fired, bars, disk>> BY <1>1, <1>2
  <1> QED BY <1>3, <1>4, <1>5, ComingKeeps

\* Every change of the user, and the poll that follows it.
LEMMA EditKeepsInv ==
  ASSUME AlertsInv, NEW b, b = [alerts |-> b.alerts, next_id |-> b.next_id],
         b.alerts \in [DOMAIN b.alerts -> NewAlert],
         \A a \in DOMAIN b.alerts :
           /\ Editable(b.alerts[a].set)
           /\ \/ a \in DOMAIN book.alerts /\ Kin(book.alerts[a], b.alerts[a])
              \/ b.alerts[a].edition = edits + 1 /\ b.alerts[a].bar_key = 0,
         NEW own, Edit(b, own)
  PROVE  AlertsInv'
  <1>1. /\ edits' = edits + 1 /\ edits' \in Nat /\ edits' >= edits /\ scheduled' = book' /\ Poll(b)
        /\ UNCHANGED <<life, bars, disk>> /\ last' = Empty
    BY DEF Edit, AlertsInv
  <1>2. \A a \in DOMAIN b.alerts : Editable(b.alerts[a].set) /\ Comes(b, a)
    BY <1>1 DEF Comes
  <1>3. BookHolds(book)' /\ BookHolds(disk)' /\ LoadHolds' /\ Spent' BY <1>1, <1>2, PollKeeps
  <1>4. DOMAIN last' = {} BY <1>1 DEF Empty
  <1>5. SeenIsOwn' BY <1>4 DEF SeenIsOwn
  <1> QED BY <1>1, <1>3, <1>5 DEF AlertsInv

\* What the user does is an edit of the book, of its alerts or of new editions of them; unless
\* one is added, they are no more than before.
EditsTo(b, own) ==
  /\ Edit(b, own)
  /\ b = [alerts |-> b.alerts, next_id |-> b.next_id] /\ b.alerts \in [DOMAIN b.alerts -> NewAlert]
  /\ \A a \in DOMAIN b.alerts :
       /\ Editable(b.alerts[a].set)
       /\ \/ a \in DOMAIN book.alerts /\ Kin(book.alerts[a], b.alerts[a])
          \/ b.alerts[a].edition = edits + 1 /\ b.alerts[a].bar_key = 0
  /\ \/ b.next_id = book.next_id /\ DOMAIN b.alerts \subseteq DOMAIN book.alerts
     \/ ~(Cardinality(DOMAIN book.alerts) >= Limit) /\ \E s \in Offered : b = Added(s)

\* One alert is changed.
LEMMA ChangedEdits ==
  ASSUME AlertsInv, NEW a \in DOMAIN book.alerts, NEW alert \in NewAlert, Editable(alert.set),
         Kin(book.alerts[a], alert) \/ (alert.edition = edits + 1 /\ alert.bar_key = 0),
         Changed(a, alert)
  PROVE  \E b, own : EditsTo(b, own)
  <1>1. book = [alerts |-> book.alerts, next_id |-> book.next_id]
        /\ book.alerts \in [DOMAIN book.alerts -> NewAlert]
    BY DEF AlertsInv, BookHolds
  <1>2. PICK g : g = [book.alerts EXCEPT ![a] = alert] OBVIOUS
  <1>3. PICK b : b = [book EXCEPT !.alerts[a] = alert] OBVIOUS
  <1>4. b = [alerts |-> g, next_id |-> book.next_id] BY <1>1, <1>2, <1>3
  <1>5. g \in [DOMAIN book.alerts -> NewAlert] /\ g[a] = alert
        /\ \A x \in DOMAIN book.alerts \ {a} : g[x] = book.alerts[x]
    BY <1>1, <1>2
  <1>6. /\ b = [alerts |-> b.alerts, next_id |-> b.next_id]
        /\ b.alerts \in [DOMAIN b.alerts -> NewAlert]
    BY <1>4, <1>5
  <1>7. \A x \in DOMAIN b.alerts :
           /\ Editable(b.alerts[x].set)
           /\ \/ x \in DOMAIN book.alerts /\ Kin(book.alerts[x], b.alerts[x])
              \/ b.alerts[x].edition = edits + 1 /\ b.alerts[x].bar_key = 0
    BY <1>4, <1>5 DEF Kin, AlertsInv, BookHolds
  <1>8. Edit(b, {a}) BY <1>3 DEF Changed
  <1>9. b.next_id = book.next_id /\ DOMAIN b.alerts = DOMAIN book.alerts BY <1>4, <1>5
  <1>10. EditsTo(b, {a}) BY <1>6, <1>7, <1>8, <1>9 DEF EditsTo
  <1> QED BY <1>10

\* A function with one more point, of values of the same kind.
LEMMA PutIs ==
  ASSUME NEW T, NEW f, f \in [DOMAIN f -> T], NEW x, NEW v \in T
  PROVE  /\ DOMAIN Put(f, x, v) = DOMAIN f \cup {x} /\ Put(f, x, v)[x] = v
         /\ \A y \in DOMAIN f \ {x} : Put(f, x, v)[y] = f[y]
         /\ Put(f, x, v) \in [DOMAIN f \cup {x} -> T]
  BY DEF Put

\* Whatever the user does is an edit.
LEMMA UserEdits == AlertsInv /\ UserActs => \E b, own : EditsTo(b, own)
  <1> SUFFICES ASSUME AlertsInv, UserActs PROVE \E b, own : EditsTo(b, own)
    OBVIOUS
  <1>1. /\ book = [alerts |-> book.alerts, next_id |-> book.next_id]
        /\ book.alerts \in [DOMAIN book.alerts -> NewAlert]
        /\ \A a \in DOMAIN book.alerts : /\ book.alerts[a] \in NewAlert
                                         /\ Editable(book.alerts[a].set)
        /\ edits \in Nat /\ lastBar \in Nat
    BY DEF AlertsInv, BookHolds, lastBar
  <1>2. ASSUME NEW s \in Offered, Add(s) PROVE \E b, own : EditsTo(b, own)
    <2>1. CASE Edit(book, {})
      <3>1. EditsTo(book, {}) BY <1>1, <2>1 DEF EditsTo, Kin
      <3> QED BY <3>1
    <2>2. CASE Edit(Added(s), {book.next_id}) /\ ~(Cardinality(DOMAIN book.alerts) >= Limit)
      <3>1. PICK b : b = Added(s) OBVIOUS
      <3>2. Made(s) \in NewAlert /\ Editable(Made(s).set) /\ Made(s).edition = edits + 1
            /\ Made(s).bar_key = 0
        BY <1>1, SettingsAre DEF Made, NewAlert
      <3>3. b = [alerts |-> Put(book.alerts, book.next_id, Made(s)), next_id |-> book.next_id + 1]
        BY <3>1 DEF Added
      <3>4. PICK g : g = Put(book.alerts, book.next_id, Made(s)) OBVIOUS
      <3>5. /\ DOMAIN g = DOMAIN book.alerts \cup {book.next_id} /\ g[book.next_id] = Made(s)
            /\ \A y \in DOMAIN book.alerts \ {book.next_id} : g[y] = book.alerts[y]
            /\ g \in [DOMAIN book.alerts \cup {book.next_id} -> NewAlert]
        <4>1. PICK f, x, v : f = book.alerts /\ x = book.next_id /\ v = Made(s) OBVIOUS
        <4>2. f \in [DOMAIN f -> NewAlert] /\ v \in NewAlert BY <1>1, <3>2, <4>1
        <4>3. /\ DOMAIN Put(f, x, v) = DOMAIN f \cup {x} /\ Put(f, x, v)[x] = v
              /\ \A y \in DOMAIN f \ {x} : Put(f, x, v)[y] = f[y]
              /\ Put(f, x, v) \in [DOMAIN f \cup {x} -> NewAlert]
          BY <4>2, PutIs
        <4> QED BY <3>4, <4>1, <4>3, Zenon
      <3>6. /\ b.alerts = g /\ b = [alerts |-> b.alerts, next_id |-> b.next_id]
        BY <3>3, <3>4
      <3>7. \A y \in DOMAIN b.alerts :
              /\ Editable(b.alerts[y].set)
              /\ \/ y \in DOMAIN book.alerts /\ Kin(book.alerts[y], b.alerts[y])
                 \/ b.alerts[y].edition = edits + 1 /\ b.alerts[y].bar_key = 0
        BY <1>1, <3>2, <3>5, <3>6 DEF Kin
      <3>8. Edit(b, {book.next_id}) BY <2>2, <3>1
      <3>9. ~(Cardinality(DOMAIN book.alerts) >= Limit) /\ \E z \in Offered : b = Added(z)
        BY <2>2, <3>1
      <3>10. EditsTo(b, {book.next_id}) BY <3>5, <3>6, <3>7, <3>8, <3>9 DEF EditsTo
      <3> QED BY <3>10
    <2> QED BY <1>2, <2>1, <2>2 DEF Add
  <1>3. ASSUME NEW a \in DOMAIN book.alerts,
               \/ \E s \in Offered, expires \in BOOLEAN : Save(a, s, expires)
               \/ \E price \in Values : MoveLine(a, price)
               \/ Snooze(a) \/ TurnOff(a) \/ Remove(a)
        PROVE  \E b, own : EditsTo(b, own)
    <2>1. book.alerts[a] \in NewAlert /\ Editable(book.alerts[a].set) BY <1>1
    <2>2. ASSUME NEW s \in Offered, NEW expires \in BOOLEAN, Save(a, s, expires) PROVE \E b, own : EditsTo(b, own)
      <3>1. PICK alert : alert = [book.alerts[a] EXCEPT !.set = s, !.active = TRUE, !.snoozed_until = 0,
                          !.bar_key = 0, !.expires_at = IF expires THEN lastBar + 1 ELSE 0,
                          !.edition = edits + 1]
        OBVIOUS
      <3>2. s \in Settings /\ (IF expires THEN lastBar + 1 ELSE 0) \in Nat BY <1>1, SettingsAre
      <3>3. PICK old, until, next : /\ old = book.alerts[a] /\ next = edits + 1
                                    /\ until = IF expires THEN lastBar + 1 ELSE 0
        OBVIOUS
      <3>4. alert = [old EXCEPT !.set = s, !.active = TRUE, !.snoozed_until = 0, !.bar_key = 0,
                                !.expires_at = until, !.edition = next]
        BY <3>1, <3>3
      <3>5. old \in NewAlert /\ until \in Nat /\ next \in Nat BY <1>1, <2>1, <3>2, <3>3
      <3>6. alert \in NewAlert /\ alert.set = s /\ alert.edition = next /\ alert.bar_key = 0
        BY <3>2, <3>4, <3>5 DEF NewAlert
      <3>7. alert \in NewAlert /\ alert.set = s /\ alert.edition = edits + 1 /\ alert.bar_key = 0
        BY <3>3, <3>6
      <3>8. Changed(a, alert) BY <2>2, <3>1 DEF Save
      <3> QED BY <3>7, <3>8, SettingsAre, ChangedEdits
    <2>3. ASSUME NEW price \in Values, MoveLine(a, price) PROVE \E b, own : EditsTo(b, own)
      <3>1. PICK alert : alert = [book.alerts[a] EXCEPT !.set.price = price] OBVIOUS
      <3>2. /\ alert \in NewAlert /\ Kin(book.alerts[a], alert)
            /\ alert.set = [book.alerts[a].set EXCEPT !.price = price]
        BY <1>1, <2>1, <3>1 DEF NewAlert, Settings, Kin
      <3>3. Editable(alert.set) BY <2>1, <3>2 DEF Kin, Editable
      <3>4. Changed(a, alert) BY <2>3, <3>1 DEF MoveLine
      <3> QED BY <3>2, <3>3, <3>4, ChangedEdits
    <2>4. ASSUME Snooze(a) PROVE \E b, own : EditsTo(b, own)
      <3>1. PICK alert : alert = [book.alerts[a] EXCEPT !.snoozed_until = lastBar + 1] OBVIOUS
      <3>2. alert \in NewAlert /\ Kin(book.alerts[a], alert) /\ alert.set = book.alerts[a].set
        BY <1>1, <2>1, <3>1 DEF NewAlert, Kin
      <3>3. Changed(a, alert) BY <2>4, <3>1 DEF Snooze
      <3> QED BY <2>1, <3>2, <3>3, ChangedEdits
    <2>5. ASSUME TurnOff(a) PROVE \E b, own : EditsTo(b, own)
      <3>1. PICK alert : alert = [book.alerts[a] EXCEPT !.active = FALSE] OBVIOUS
      <3>2. alert \in NewAlert /\ Kin(book.alerts[a], alert) /\ alert.set = book.alerts[a].set
        BY <2>1, <3>1 DEF NewAlert, Kin
      <3>3. Changed(a, alert) BY <2>5, <3>1 DEF TurnOff
      <3> QED BY <2>1, <3>2, <3>3, ChangedEdits
    <2>6. ASSUME Remove(a) PROVE \E b, own : EditsTo(b, own)
      <3>1. PICK b : b = [book EXCEPT !.alerts = Without(book.alerts, {a})] OBVIOUS
      <3>2. PICK f, g : f = book.alerts /\ g = Without(f, {a}) OBVIOUS
      <3>3. f \in [DOMAIN f -> NewAlert] BY <1>1, <3>2
      <3>4. /\ DOMAIN g = DOMAIN f \ {a} /\ g \in [DOMAIN f \ {a} -> NewAlert]
            /\ \A x \in DOMAIN f \ {a} : g[x] = f[x]
        BY <3>2, <3>3 DEF Without
      <3>5. b = [alerts |-> g, next_id |-> book.next_id] BY <1>1, <3>1, <3>2
      <3>6. /\ DOMAIN g = DOMAIN book.alerts \ {a} /\ g \in [DOMAIN g -> NewAlert]
            /\ \A x \in DOMAIN g : g[x] = book.alerts[x]
        BY <3>2, <3>4
      <3>7. /\ b = [alerts |-> b.alerts, next_id |-> b.next_id] /\ b.alerts = g
        BY <3>5
      <3>8. \A x \in DOMAIN b.alerts :
              /\ Editable(b.alerts[x].set)
              /\ \/ x \in DOMAIN book.alerts /\ Kin(book.alerts[x], b.alerts[x])
                 \/ b.alerts[x].edition = edits + 1 /\ b.alerts[x].bar_key = 0
        BY <1>1, <3>6, <3>7 DEF Kin
      <3>9. Edit(b, {a}) BY <2>6, <3>1 DEF Remove
      <3>10. b.next_id = book.next_id BY <3>5
      <3>11. DOMAIN b.alerts \subseteq DOMAIN book.alerts BY <3>6, <3>7
      <3>12. EditsTo(b, {a}) BY <3>6, <3>7, <3>8, <3>9, <3>10, <3>11 DEF EditsTo
      <3> QED BY <3>12
    <2> QED BY <1>3, <2>2, <2>3, <2>4, <2>5, <2>6
  <1> QED BY <1>2, <1>3 DEF UserActs

\* The user's changes keep the invariant.
LEMMA UserKeeps == AlertsInv /\ UserActs => AlertsInv'
  <1> SUFFICES ASSUME AlertsInv, UserActs PROVE AlertsInv'
    OBVIOUS
  <1>1. PICK b, own : EditsTo(b, own) BY UserEdits
  <1> QED BY <1>1, EditKeepsInv DEF EditsTo

-----------------------------------------------------------------------------
(* What fires *)

\* The alerts that are hit fire for bars that are past, and none fired for before.
LEMMA FireKeeps ==
  ASSUME AlertsInv, NEW hits, hits \subseteq DOMAIN book.alerts, NEW bar, Fire(hits, bar),
         \A a \in hits : /\ bar[a] \in Nat /\ book.alerts[a].bar_key <= bar[a]
                         /\ bar[a] <= Judges(book.alerts[a].set, lastBar)
                         /\ book.alerts[a].active,
         UNCHANGED <<edits, life, bars, disk>>,
         (reading' = reading /\ \A a \in hits : ~NeedsBars(book.alerts[a].set)) \/ reading' = Idle
  PROVE  scheduled' = book' /\ BookHolds(book)' /\ BookHolds(disk)' /\ LoadHolds' /\ Spent'
  <1>1. /\ edits \in Nat /\ life \in Nat /\ Len(bars) \in Nat /\ lastBar = Len(bars)
        /\ book = [alerts |-> book.alerts, next_id |-> book.next_id]
        /\ book.alerts \in [DOMAIN book.alerts -> NewAlert] /\ scheduled = book
    BY DEF AlertsInv, BookHolds, lastBar
  <1> DEFINE g == [a \in DOMAIN book.alerts |->
                     IF a \notin hits THEN book.alerts[a]
                     ELSE [book.alerts[a] EXCEPT !.bar_key = bar[a],
                             !.active = book.alerts[a].active /\ book.alerts[a].set.trigger # "once"]]
  <1>2. book' = [book EXCEPT !.alerts = g] BY DEF Fire
  <1>3. ASSUME NEW a \in DOMAIN book.alerts
        PROVE  /\ g[a] \in NewAlert /\ g[a].set = book.alerts[a].set
               /\ g[a].edition = book.alerts[a].edition
               /\ a \notin hits => g[a] = book.alerts[a]
               /\ a \in hits => g[a].bar_key = bar[a] /\ (g[a].set.trigger = "once" => ~g[a].active)
    <2>1. book.alerts[a] \in NewAlert /\ a \in DOMAIN g BY <1>1
    <2>2. CASE a \notin hits BY <2>1, <2>2
    <2>3. CASE a \in hits BY <2>1, <2>3 DEF NewAlert
    <2> QED BY <2>2, <2>3
  <1>4. g \in [DOMAIN book.alerts -> NewAlert] /\ DOMAIN g = DOMAIN book.alerts
        /\ (hits = {} => g = book.alerts)
    BY <1>1, <1>3
  <1> HIDE DEF g
  <1>5. book' = [alerts |-> g, next_id |-> book.next_id] BY <1>1, <1>2
  <1>6. /\ told' = {[alert |-> a, edition |-> book.alerts[a].edition, life |-> life, bar |-> bar[a]] :
                      a \in hits}
        /\ fired' = fired \cup told' /\ scheduled' = IF hits = {} THEN scheduled ELSE book'
    BY DEF Fire
  <1>7. scheduled' = book' BY <1>1, <1>4, <1>5, <1>6
  <1>8. lastBar' = lastBar /\ disk' = disk /\ edits' = edits /\ life' = life BY DEF lastBar
  <1>9. BookHolds(book)'
    <2>1. ASSUME NEW a \in DOMAIN g
          PROVE  /\ Editable(g[a].set) /\ g[a].edition <= edits
                 /\ g[a].bar_key <= Judges(g[a].set, lastBar)
      <3>1. CASE a \in hits BY <1>3, <1>4, <2>1, <3>1 DEF AlertsInv, BookHolds
      <3>2. CASE a \notin hits BY <1>3, <1>4, <2>1, <3>2 DEF AlertsInv, BookHolds
      <3> QED BY <3>1, <3>2
    <2> QED BY <1>4, <1>5, <1>8, <2>1 DEF BookHolds, Judges, OnClosed, Editable
  <1>10. BookHolds(disk)' BY <1>8 DEF AlertsInv, BookHolds, Judges, OnClosed, Editable
  <1>11. LoadHolds'
    <2>1. CASE reading' = reading /\ \A a \in hits : ~NeedsBars(book.alerts[a].set)
      <3>1. \A a \in DOMAIN g : NeedsBars(g[a].set) => g[a] = book.alerts[a] BY <1>3, <1>4, <2>1
      <3>2. /\ reading'.state = reading.state /\ reading'.bars = reading.bars
            /\ reading' = [state |-> reading'.state, bars |-> reading'.bars]
        BY <2>1 DEF AlertsInv, LoadHolds
      <3>3. reading.state = "answered" =>
              \A a \in DOMAIN g : NeedsBars(g[a].set) =>
                 g[a].bar_key <= Judges(g[a].set, Len(reading.bars))
        BY <1>4, <3>1 DEF AlertsInv, LoadHolds
      <3>4. book'.alerts = g /\ lastBar' = lastBar BY <1>5, <1>8
      <3>5. reading.state = "answered" =>
              Len(reading.bars) \in Nat /\ Len(reading.bars) >= 4 /\ Len(reading.bars) <= lastBar
        BY DEF AlertsInv, LoadHolds
      <3> QED BY <3>2, <3>3, <3>4, <3>5 DEF LoadHolds, Judges, OnClosed, NeedsBars
    <2>2. CASE reading' = Idle BY <2>2 DEF Idle, LoadHolds
    <2> QED BY <2>1, <2>2
  <1>12. Spent'
    <2>1. ASSUME NEW f \in told'
          PROVE  /\ f.edition <= edits /\ f.life <= life
                 /\ f.edition \in Nat /\ f.life \in Nat /\ f.bar \in Int
                 /\ \A a \in DOMAIN g : Same(f, g[a], a) => SpentFor(f, g[a])
      <3>1. PICK a \in hits : f = [alert |-> a, edition |-> book.alerts[a].edition, life |-> life,
                                   bar |-> bar[a]]
        BY <1>6
      <3>2. book.alerts[a] \in NewAlert /\ book.alerts[a].edition <= edits
        BY <1>1 DEF AlertsInv, BookHolds
      <3>3. SpentFor(f, g[a])
        <4>1. f.bar = bar[a] /\ g[a].bar_key = bar[a] /\ bar[a] \in Nat BY <1>3, <3>1
        <4>2. g[a].set.trigger = "once" => ~g[a].active BY <1>3
        <4>3. \A x \in Nat : x <= x OBVIOUS
        <4>4. f.bar <= g[a].bar_key BY <4>1, <4>3
        <4> QED BY <4>2, <4>4 DEF SpentFor
      <3> QED BY <1>1, <3>1, <3>2, <3>3, AlertsAre DEF Same
    <2>2. ASSUME NEW f \in fired, NEW a \in DOMAIN g, Same(f, g[a], a)
          PROVE  SpentFor(f, g[a])
      <3>1. a \in DOMAIN book.alerts /\ Same(f, book.alerts[a], a)
        BY <1>3, <1>4, <2>2 DEF Same
      <3>2. SpentFor(f, book.alerts[a]) BY <3>1 DEF AlertsInv, Spent
      <3>3. CASE a \notin hits BY <1>3, <3>1, <3>2, <3>3
      <3>4. CASE a \in hits
        <4>1. f.bar \in Int /\ bar[a] \in Nat /\ book.alerts[a].bar_key <= bar[a]
              /\ book.alerts[a].bar_key \in Nat
          BY <1>1, <3>1, <3>4, AlertsAre DEF AlertsInv, Spent
        <4>2. g[a].bar_key = bar[a] /\ g[a].set = book.alerts[a].set
              /\ (g[a].set.trigger = "once" => ~g[a].active)
          BY <1>3, <3>1, <3>4
        <4>3. f.bar <= book.alerts[a].bar_key => f.bar <= bar[a] BY <4>1
        <4> QED BY <3>2, <4>2, <4>3 DEF SpentFor
      <3> QED BY <3>3, <3>4
    <2>3. \A f \in fired' : f \in fired \/ f \in told' BY <1>6
    <2> QED BY <1>5, <1>8, <2>1, <2>2, <2>3 DEF AlertsInv, Spent, Same, SpentFor
  <1> QED BY <1>7, <1>9, <1>10, <1>11, <1>12

\* What an alert that fires satisfies: it is on, its bar is not before the one noted,
\* and it fired by its own readings.
Due(a, b) ==
  LET alert == book.alerts[a] IN
  /\ alert.active /\ b \in Nat /\ alert.bar_key <= b /\ b <= Judges(alert.set, lastBar)
  /\ alert.set.trigger \in {"once per bar", "bar close"} => alert.bar_key # b
  /\ OnClosed(alert.set) => b >= alert.made
  /\ ~OnClosed(alert.set) /\ alert.set.condition # "moves" =>
       a \in early \/ MetSince(a)
Fires(hits, bar) ==
  /\ hits \subseteq DOMAIN book.alerts /\ Fire(hits, bar) /\ \A a \in hits : Due(a, bar[a])
  /\ SeenIsOwn' /\ UNCHANGED <<edits, life, bars, disk>>
  /\ (reading' = reading /\ \A a \in hits : ~NeedsBars(book.alerts[a].set)) \/ reading' = Idle

\* What the alerts see now, of which `noted' is of a time since they are set as they are.
LEMMA SeenNow ==
  ASSUME AlertsInv, NEW seen, NEW noted, last' = Over(seen, last), prior' = Over(noted, prior),
         DOMAIN noted \subseteq DOMAIN seen, \A a \in DOMAIN noted : noted[a] = seen[a],
         DOMAIN seen \ DOMAIN noted \subseteq early', early \ DOMAIN seen \subseteq early'
  PROVE  /\ \A a \in DOMAIN last' : a \in early' \/ (a \in DOMAIN prior' /\ prior'[a] = last'[a])
         /\ \A a \in DOMAIN noted : a \in DOMAIN prior' /\ prior'[a] = seen[a]
         /\ DOMAIN last' = DOMAIN seen \cup DOMAIN last
  <1>1. \A a \in DOMAIN last : a \in early \/ (a \in DOMAIN prior /\ prior[a] = last[a])
    BY DEF AlertsInv, SeenIsOwn
  <1>2. \A a \in DOMAIN last \ DOMAIN seen :
          a \in early' \/ (a \in DOMAIN prior /\ prior[a] = last[a])
    BY <1>1
  <1>3. /\ DOMAIN last' = DOMAIN seen \cup DOMAIN last
        /\ \A a \in DOMAIN seen : last'[a] = seen[a]
        /\ \A a \in DOMAIN last \ DOMAIN seen : last'[a] = last[a]
    BY DEF Over
  <1>4. /\ DOMAIN prior' = DOMAIN noted \cup DOMAIN prior
        /\ \A a \in DOMAIN noted : prior'[a] = noted[a]
        /\ \A a \in DOMAIN prior \ DOMAIN noted : prior'[a] = prior[a]
    BY DEF Over
  <1>5. \A a \in DOMAIN noted : a \in DOMAIN prior' /\ prior'[a] = seen[a] BY <1>4
  <1>6. ASSUME NEW a \in DOMAIN last'
        PROVE  a \in early' \/ (a \in DOMAIN prior' /\ prior'[a] = last'[a])
    <2>1. CASE a \in DOMAIN noted BY <1>3, <1>5, <2>1
    <2>2. CASE a \in DOMAIN seen \ DOMAIN noted BY <2>2
    <2>3. CASE a \notin DOMAIN seen BY <1>2, <1>3, <1>4, <1>6, <2>3
    <2> QED BY <2>1, <2>2, <2>3
  <1> QED BY <1>3, <1>5, <1>6

\* Firing changes neither which alerts there are nor what they are set to.
LEMMA FireSets ==
  ASSUME AlertsInv, NEW hits, NEW bar, Fire(hits, bar)
  PROVE  /\ DOMAIN book'.alerts = DOMAIN book.alerts
         /\ \A a \in DOMAIN book.alerts : book'.alerts[a].set = book.alerts[a].set
  <1>1. PICK g : g = [a \in DOMAIN book.alerts |->
                        IF a \notin hits THEN book.alerts[a]
                        ELSE [book.alerts[a] EXCEPT !.bar_key = bar[a],
                                !.active = book.alerts[a].active /\ book.alerts[a].set.trigger # "once"]]
    OBVIOUS
  <1>2. book' = [book EXCEPT !.alerts = g] BY <1>1 DEF Fire
  <1>3. /\ book = [alerts |-> book.alerts, next_id |-> book.next_id]
        /\ book.alerts \in [DOMAIN book.alerts -> NewAlert]
    BY DEF AlertsInv, BookHolds
  <1>4. book'.alerts = g BY <1>2, <1>3
  <1>5. \A a \in DOMAIN book.alerts : g[a].set = book.alerts[a].set
    <2> TAKE a \in DOMAIN book.alerts
    <2>1. book.alerts[a] \in NewAlert BY <1>3
    <2> QED BY <1>1, <2>1 DEF NewAlert
  <1> QED BY <1>1, <1>4, <1>5

\* The fields of the alerts in the book.
LEMMA BookIs ==
  ASSUME AlertsInv
  PROVE  /\ lastBar \in Nat /\ lastBar = Len(bars)
         /\ \A a \in DOMAIN book.alerts :
              LET alert == book.alerts[a] IN
              /\ alert \in NewAlert /\ alert.bar_key \in Nat /\ alert.made \in Nat
              /\ alert.bar_key <= Judges(alert.set, lastBar)
              /\ alert.set.trigger \in Triggers
  <1>1. book.alerts \in [DOMAIN book.alerts -> NewAlert] BY DEF AlertsInv, BookHolds
  <1>2. \A a \in DOMAIN book.alerts : book.alerts[a] \in NewAlert BY <1>1
  <1>3. \A a \in DOMAIN book.alerts : book.alerts[a].bar_key <= Judges(book.alerts[a].set, lastBar)
    BY DEF AlertsInv, BookHolds
  <1> QED BY <1>2, <1>3, AlertsAre, SettingsAre DEF AlertsInv, lastBar

\* A price event fires alerts that are due.
LEMMA SpotFires == AlertsInv /\ OnSpot => \E hits, bar : Fires(hits, bar)
  <1> SUFFICES ASSUME AlertsInv, OnSpot PROVE \E hits, bar : Fires(hits, bar)
    OBVIOUS
  <1> DEFINE v == bars[lastBar]
             judged == {a \in DOMAIN book.alerts : Live(book.alerts[a]) /\ ~NeedsBars(book.alerts[a].set)}
             set(a) == book.alerts[a].set
             seen == [a \in judged |-> Reading(set(a), v)]
             window == [a \in {b \in judged : set(b).condition = "moves"} |->
                          {m \in (IF a \in DOMAIN moves THEN moves[a] ELSE {}) \cup {[at |-> lastBar, value |-> v]} :
                             lastBar - m.at <= Window}]
             hit(a) == IF set(a).condition = "moves" THEN Moved(window[a], v)
                       ELSE a \in DOMAIN last /\ Fired(set(a).condition, last[a], seen[a])
             hits == {a \in judged : hit(a) /\ ~(set(a).trigger = "once per bar" /\ book.alerts[a].bar_key = lastBar)}
             bar == [a \in hits |-> lastBar]
  <1>1. /\ last' = Over(seen, last) /\ prior' = Over(seen, prior) /\ Fire(hits, bar)
        /\ UNCHANGED <<early, outrun, loadVars, pastVars, disk, bars>>
    BY DEF OnSpot
  <1>2. DOMAIN seen = judged OBVIOUS
  <1>3. ASSUME NEW a \in hits
        PROVE  /\ a \in DOMAIN book.alerts /\ a \in judged /\ bar[a] = lastBar
               /\ Live(book.alerts[a]) /\ ~NeedsBars(book.alerts[a].set)
               /\ ~(book.alerts[a].set.trigger = "once per bar" /\ book.alerts[a].bar_key = lastBar)
               /\ book.alerts[a].set.condition # "moves" =>
                    a \in DOMAIN last /\ Fired(book.alerts[a].set.condition, last[a], seen[a])
    OBVIOUS
  <1>8. \A a \in judged : ~NeedsBars(book.alerts[a].set) OBVIOUS
  <1> HIDE DEF hits, bar, seen, judged
  <1>4. /\ \A a \in DOMAIN last' : a \in early' \/ (a \in DOMAIN prior' /\ prior'[a] = last'[a])
        /\ \A a \in judged : a \in DOMAIN prior' /\ prior'[a] = seen[a]
        /\ DOMAIN last' = judged \cup DOMAIN last
    BY <1>1, <1>2, SeenNow
  <1>9. SeenIsOwn'
    <2>1. \A a \in outrun \cap DOMAIN last' : a \in DOMAIN book.alerts => ~NeedsBars(book.alerts[a].set)
      BY <1>4, <1>8 DEF AlertsInv, SeenIsOwn
    <2>2. \A a \in DOMAIN book'.alerts :
            a \in DOMAIN book.alerts /\ book'.alerts[a].set = book.alerts[a].set
      BY <1>1, FireSets
    <2>3. outrun' = outrun BY <1>1
    <2> QED BY <1>4, <2>1, <2>2, <2>3 DEF SeenIsOwn, NeedsBars
  <1>5. ASSUME NEW a \in hits PROVE Due(a, bar[a])
    <2>1. a \in DOMAIN prior' /\ prior'[a] = seen[a] BY <1>3, <1>4
    <2>6. a \in DOMAIN last => a \in early \/ (a \in DOMAIN prior /\ prior[a] = last[a])
      BY DEF AlertsInv, SeenIsOwn
    <2>7. book.alerts[a].set.condition # "moves" => a \in early \/ MetSince(a)
      BY <1>3, <2>1, <2>6 DEF MetSince
    <2>2. ~OnClosed(book.alerts[a].set) /\ book.alerts[a].set.trigger # "bar close"
      BY <1>3 DEF NeedsBars, OnClosed
    <2>3. Judges(book.alerts[a].set, lastBar) = lastBar BY <2>2 DEF Judges
    <2>4. /\ lastBar \in Nat /\ book.alerts[a].bar_key <= lastBar /\ bar[a] = lastBar
      BY <1>3, <2>3, BookIs
    <2>5. /\ book.alerts[a].active /\ bar[a] \in Nat /\ book.alerts[a].bar_key <= bar[a]
          /\ bar[a] <= lastBar
      <3>1. book.alerts[a].active BY <1>3 DEF Live
      <3>2. \A x \in Nat : x <= x OBVIOUS
      <3> QED BY <2>4, <3>1, <3>2
    <2> QED BY <1>3, <2>2, <2>3, <2>5, <2>7 DEF Due
  <1>6. hits \subseteq DOMAIN book.alerts /\ \A a \in hits : ~NeedsBars(book.alerts[a].set)
    BY <1>3
  <1>7. UNCHANGED <<edits, life, bars, disk, reading>> BY <1>1 DEF loadVars, pastVars
  <1> QED BY <1>1, <1>9, <1>5, <1>6, <1>7 DEF Fires

\* And so does a reading of the bars.
LEMMA BarsFire == AlertsInv /\ LoadDone => \E hits, bar : Fires(hits, bar)
  <1> SUFFICES ASSUME AlertsInv, LoadDone PROVE \E hits, bar : Fires(hits, bar)
    OBVIOUS
  <1> DEFINE s == reading.bars
             judged == {a \in DOMAIN book.alerts : Live(book.alerts[a]) /\ NeedsBars(book.alerts[a].set)}
             at == [a \in judged |-> Judges(book.alerts[a].set, Len(s))]
             seen == [a \in judged |-> Reading(book.alerts[a].set, s[at[a]])]
             hits == {a \in judged : HitOn(book.alerts[a], s, a \in DOMAIN last, IF a \in DOMAIN last THEN last[a] ELSE seen[a])}
             bar == [a \in hits |-> at[a]]
             noted == [a \in judged \ outrun |-> seen[a]]
  <1>1. /\ reading.state = "answered" /\ reading' = Idle
        /\ last' = Over(seen, last) /\ prior' = Over(noted, prior) /\ Fire(hits, bar)
        /\ early' = (early \ judged) \cup (judged \cap outrun) /\ outrun' = {}
        /\ UNCHANGED <<moves, pastVars, disk, bars>>
    BY DEF LoadDone
  <1>2. /\ DOMAIN seen = judged /\ DOMAIN noted = judged \ outrun
        /\ \A a \in DOMAIN noted : noted[a] = seen[a]
    OBVIOUS
  <1>3. ASSUME NEW a \in hits
        PROVE  /\ a \in DOMAIN book.alerts /\ a \in judged
               /\ bar[a] = Judges(book.alerts[a].set, Len(reading.bars))
               /\ Live(book.alerts[a]) /\ NeedsBars(book.alerts[a].set)
               /\ seen[a] = Reading(book.alerts[a].set, reading.bars[bar[a]])
               /\ HitOn(book.alerts[a], reading.bars, a \in DOMAIN last,
                        IF a \in DOMAIN last THEN last[a] ELSE seen[a])
    OBVIOUS
  <1> HIDE DEF hits, bar, noted, seen, judged, at
  <1>4. /\ \A a \in DOMAIN last' : a \in early' \/ (a \in DOMAIN prior' /\ prior'[a] = last'[a])
        /\ \A a \in judged \ outrun : a \in DOMAIN prior' /\ prior'[a] = seen[a]
    <2>1. DOMAIN seen \ DOMAIN noted \subseteq early' /\ early \ DOMAIN seen \subseteq early'
      BY <1>1, <1>2
    <2>2. DOMAIN noted \subseteq DOMAIN seen BY <1>2
    <2>3. /\ \A a \in DOMAIN last' : a \in early' \/ (a \in DOMAIN prior' /\ prior'[a] = last'[a])
          /\ \A a \in DOMAIN noted : a \in DOMAIN prior' /\ prior'[a] = seen[a]
      BY <1>1, <1>2, <2>1, <2>2, SeenNow
    <2> QED BY <1>2, <2>3
  <1>8. SeenIsOwn' BY <1>1, <1>4 DEF SeenIsOwn
  <1>5. ASSUME NEW a \in hits PROVE Due(a, bar[a])
    <2>1. a \notin outrun => a \in DOMAIN prior' /\ prior'[a] = seen[a] BY <1>3, <1>4
    <2>7. a \in DOMAIN last => /\ a \in early \/ (a \in DOMAIN prior /\ prior[a] = last[a])
                               /\ a \notin outrun
      BY <1>3 DEF AlertsInv, SeenIsOwn
    <2>2. /\ Len(reading.bars) \in Nat /\ Len(reading.bars) >= 4 /\ Len(reading.bars) <= lastBar
          /\ book.alerts[a].bar_key <= bar[a]
      BY <1>1, <1>3 DEF AlertsInv, LoadHolds
    <2>3. /\ book.alerts[a].active /\ bar[a] \in Nat /\ bar[a] <= Judges(book.alerts[a].set, lastBar)
      BY <1>3, <2>2, BookIs DEF Live, Judges
    <2>4. /\ OnClosed(book.alerts[a].set) \/ book.alerts[a].set.trigger = "once per bar" =>
               book.alerts[a].bar_key # bar[a]
          /\ OnClosed(book.alerts[a].set) => bar[a] + 1 > book.alerts[a].made
          /\ ~OnClosed(book.alerts[a].set) =>
               a \in DOMAIN last /\ Fired(book.alerts[a].set.condition, last[a], seen[a])
      BY <1>3 DEF HitOn, OnClosed
    <2>5. OnClosed(book.alerts[a].set) => bar[a] >= book.alerts[a].made
      BY <1>3, <2>3, <2>4, BookIs
    <2>6. book.alerts[a].set.trigger = "bar close" => OnClosed(book.alerts[a].set) BY DEF OnClosed
    <2>8. ~OnClosed(book.alerts[a].set) => a \in early \/ MetSince(a)
      BY <2>1, <2>4, <2>7 DEF MetSince
    <2> QED BY <2>2, <2>3, <2>4, <2>5, <2>6, <2>8 DEF Due
  <1>6. hits \subseteq DOMAIN book.alerts BY <1>3
  <1>7. UNCHANGED <<edits, life, bars, disk>> BY <1>1 DEF pastVars
  <1> QED BY <1>1, <1>5, <1>6, <1>7, <1>8 DEF Fires

\* Alerts that fire keep the invariant.
LEMMA FiresKeeps ==
  ASSUME AlertsInv, NEW hits, NEW bar, Fires(hits, bar) PROVE AlertsInv'
  <1>1. scheduled' = book' /\ BookHolds(book)' /\ BookHolds(disk)' /\ LoadHolds' /\ Spent'
    BY FireKeeps DEF Fires, Due
  <1> QED BY <1>1 DEF AlertsInv, Fires

-----------------------------------------------------------------------------
(* The other steps *)

\* There are no alerts at first.
LEMMA AlertsInitInv == AlertsInit => AlertsInv
  <1> SUFFICES ASSUME AlertsInit PROVE AlertsInv
    OBVIOUS
  <1>1. PICK v \in Values : bars = <<v, v, v, v>> BY DEF AlertsInit
  <1>2. bars \in Seq(Values) /\ Len(bars) = 4 BY <1>1
  <1>3. \A a \in {} : a \in DOMAIN Empty OBVIOUS
  <1>4. DOMAIN Empty = {} /\ Empty \in [{} -> NewAlert] BY DEF Empty
  <1>5. book = [alerts |-> Empty, next_id |-> 1] /\ scheduled = book /\ disk = book
    BY DEF AlertsInit
  <1>6. BookHolds(book) /\ BookHolds(disk) BY <1>4, <1>5 DEF BookHolds
  <1>7. LoadHolds BY DEF AlertsInit, Idle, LoadHolds
  <1>8. Spent BY DEF AlertsInit, Spent
  <1>9. SeenIsOwn BY <1>4 DEF AlertsInit, SeenIsOwn
  <1> QED BY <1>2, <1>5, <1>6, <1>7, <1>8, <1>9 DEF AlertsInit, AlertsInv

\* The market goes on, and nothing else does.
LEMMA MarketKeeps ==
  ASSUME AlertsInv, bars' \in Seq(Values), Len(bars') >= Len(bars),
         UNCHANGED <<book, disk, scheduled, reading, edits, life, fired, last, sightVars>>
  PROVE  AlertsInv'
  <1>1. /\ lastBar \in Nat /\ lastBar' \in Nat /\ lastBar' >= lastBar /\ lastBar = Len(bars) /\ lastBar' = Len(bars')
        /\ Len(bars) \in Nat /\ Len(bars) >= 4
    BY DEF AlertsInv, lastBar
  <1>2. ASSUME NEW alert \in NewAlert, alert.bar_key <= Judges(alert.set, lastBar)
        PROVE  alert.bar_key <= Judges(alert.set, lastBar')
    <2>1. alert.bar_key \in Nat BY AlertsAre
    <2> QED BY <1>1, <1>2, <2>1 DEF Judges
  <1>3. BookHolds(book)'
    <2>1. \A a \in DOMAIN book.alerts :
            book.alerts[a] \in NewAlert /\ book.alerts[a].bar_key <= Judges(book.alerts[a].set, lastBar)
      BY DEF AlertsInv, BookHolds
    <2>2. \A a \in DOMAIN book.alerts : book.alerts[a].bar_key <= Judges(book.alerts[a].set, lastBar')
      BY <1>2, <2>1
    <2> QED BY <2>2 DEF AlertsInv, BookHolds, Judges, OnClosed, Editable
  <1>4. BookHolds(disk)'
    <2>1. \A a \in DOMAIN disk.alerts :
            disk.alerts[a] \in NewAlert /\ disk.alerts[a].bar_key <= Judges(disk.alerts[a].set, lastBar)
      BY DEF AlertsInv, BookHolds
    <2>2. \A a \in DOMAIN disk.alerts : disk.alerts[a].bar_key <= Judges(disk.alerts[a].set, lastBar')
      BY <1>2, <2>1
    <2> QED BY <2>2 DEF AlertsInv, BookHolds, Judges, OnClosed, Editable
  <1>5. LoadHolds'
    <2>1. reading.state = "answered" => Len(reading.bars) \in Nat /\ Len(reading.bars) >= 4 /\ Len(reading.bars) <= lastBar'
      BY <1>1 DEF AlertsInv, LoadHolds
    <2> QED BY <2>1 DEF AlertsInv, LoadHolds, Judges, OnClosed, NeedsBars
  <1>6. Spent' /\ SeenIsOwn'
    BY DEF AlertsInv, Spent, Same, SpentFor, SeenIsOwn, NeedsBars, sightVars
  <1>7. Len(bars') >= 4 BY <1>1
  <1> QED BY <1>3, <1>4, <1>5, <1>6, <1>7 DEF AlertsInv

\* A reading starts, is answered or ends without an answer, and nothing else happens.
LEMMA ReadingKeeps ==
  ASSUME AlertsInv, UNCHANGED <<book, disk, scheduled, bars, edits, life, fired, last, sightVars>>,
         reading' = [reading EXCEPT !.state = "answered", !.bars = bars]
           \/ reading' = [reading EXCEPT !.state = "failed"] \/ reading' = Idle \/ reading' = reading
  PROVE  AlertsInv'
  <1>1. LoadHolds'
    <2>1. CASE reading' = [reading EXCEPT !.state = "answered", !.bars = bars]
      <3>1. reading' = [state |-> "answered", bars |-> bars] BY <2>1 DEF AlertsInv, LoadHolds
      <3>2. \A a \in DOMAIN book.alerts : book.alerts[a].bar_key <= Judges(book.alerts[a].set, Len(bars))
        BY DEF AlertsInv, BookHolds, lastBar
      <3>3. Len(bars) \in Nat /\ Len(bars) >= 4 /\ Len(bars) <= lastBar BY DEF AlertsInv, lastBar
      <3>4. lastBar' = lastBar BY DEF lastBar
      <3> QED BY <3>1, <3>2, <3>3, <3>4 DEF LoadHolds, Judges, OnClosed, NeedsBars
    <2>2. CASE reading' = [reading EXCEPT !.state = "failed"]
      <3>1. reading' = [state |-> "failed", bars |-> reading.bars] BY <2>2 DEF AlertsInv, LoadHolds
      <3> QED BY <3>1 DEF LoadHolds
    <2>3. CASE reading' = Idle BY <2>3 DEF Idle, LoadHolds
    <2>4. CASE reading' = reading
      BY <2>4 DEF AlertsInv, LoadHolds, Judges, OnClosed, NeedsBars, lastBar
    <2> QED BY <2>1, <2>2, <2>3, <2>4
  <1>2. BookHolds(book)' /\ BookHolds(disk)'
    BY DEF AlertsInv, BookHolds, Judges, OnClosed, Editable, lastBar
  <1>3. Spent' /\ SeenIsOwn'
    BY DEF AlertsInv, Spent, Same, SpentFor, SeenIsOwn, NeedsBars, sightVars
  <1> QED BY <1>1, <1>2, <1>3 DEF AlertsInv

\* The app starts with a book that was saved before what the other one saw.
LEMMA StartKeeps ==
  ASSUME AlertsInv, NEW saved, Starts(saved), saved = book \/ saved = disk,
         (life' = life /\ saved = book) \/ life' = life + 1
  PROVE  AlertsInv'
  <1>1. /\ book' = saved /\ disk' = saved /\ scheduled' = saved /\ last' = Empty
        /\ reading' = Idle /\ UNCHANGED <<fired, bars, edits>>
    BY DEF Starts
  <1>2. BookHolds(saved) BY DEF AlertsInv
  <1>3. BookHolds(book)' /\ BookHolds(disk)'
    BY <1>1, <1>2 DEF BookHolds, Judges, OnClosed, Editable, lastBar
  <1>4. LoadHolds' BY <1>1 DEF Idle, LoadHolds
  <1>5. life \in Nat /\ life' \in Nat BY DEF AlertsInv
  <1>8. DOMAIN last' = {} BY <1>1 DEF Empty
  <1>9. SeenIsOwn' BY <1>8 DEF SeenIsOwn
  <1>6. CASE life' = life /\ saved = book
    <2>1. Spent' BY <1>1, <1>6 DEF AlertsInv, Spent, Same, SpentFor
    <2> QED BY <1>1, <1>3, <1>4, <1>5, <1>9, <2>1 DEF AlertsInv
  <1>7. CASE life' = life + 1
    <2>1. \A f \in fired : f.life \in Nat /\ f.life <= life BY DEF AlertsInv, Spent
    <2>2. \A f \in fired : f.life <= life' /\ f.life # life' BY <1>5, <1>7, <2>1
    <2>3. Spent' BY <1>1, <2>2 DEF AlertsInv, Spent, Same
    <2> QED BY <1>1, <1>3, <1>4, <1>5, <1>9, <2>3 DEF AlertsInv
  <1> QED BY <1>6, <1>7

\* Every step preserves the invariant.
LEMMA AlertsStepInv == AlertsInv /\ [AlertsNext]_allAlertVars => AlertsInv'
  <1> SUFFICES ASSUME AlertsInv, [AlertsNext]_allAlertVars PROVE AlertsInv'
    OBVIOUS
  <1> USE DEF alertVars, loadVars, pastVars, sightVars
  <1>1. bars \in Seq(Values) /\ Len(bars) >= 4 /\ lastBar = Len(bars) /\ Len(bars) \in Nat
    BY DEF AlertsInv, lastBar
  <1>2. CASE UserActs BY <1>2, UserKeeps
  <1>3. CASE PriceMoves
    <2>1. PICK v \in Values : bars' = [bars EXCEPT ![lastBar] = v] BY <1>3 DEF PriceMoves
    <2>2. bars' \in Seq(Values) /\ Len(bars') = Len(bars) BY <1>1, <2>1
    <2>3. Len(bars') >= Len(bars) BY <1>1, <2>2
    <2> QED BY <1>3, <2>2, <2>3, MarketKeeps DEF PriceMoves
  <1>4. CASE BarOpens
    <2>1. PICK v \in Values : bars' = Append(bars, v) BY <1>4 DEF BarOpens
    <2>2. bars' \in Seq(Values) /\ Len(bars') >= Len(bars) BY <1>1, <2>1
    <2> QED BY <1>4, <2>2, MarketKeeps DEF BarOpens
  <1>5. CASE OnSpot BY <1>5, SpotFires, FiresKeeps
  <1>6. CASE LoadDone BY <1>6, BarsFire, FiresKeeps
  <1>7. CASE LoadAnswers BY <1>7, ReadingKeeps DEF LoadAnswers
  <1>8. CASE LoadFails BY <1>8, ReadingKeeps DEF LoadFails
  <1>9. CASE LoadFailed BY <1>9, ReadingKeeps DEF LoadFailed
  <1>10. CASE BarsAge BY <1>10, ReadingKeeps DEF BarsAge
  <1>11. CASE PollTimer
    <2>1. /\ Poll(book) /\ scheduled' = book' /\ edits' = edits
          /\ UNCHANGED <<last, sightVars, life, disk, bars>>
      BY <1>11 DEF PollTimer, AlertsInv
    <2>2. /\ book = [alerts |-> book.alerts, next_id |-> book.next_id]
          /\ book.alerts \in [DOMAIN book.alerts -> NewAlert]
          /\ \A a \in DOMAIN book.alerts : Editable(book.alerts[a].set)
      BY DEF AlertsInv, BookHolds
    <2>3. edits' \in Nat /\ edits' >= edits BY <2>1 DEF AlertsInv
    <2>4. \A a \in DOMAIN book.alerts : Comes(book, a) BY <2>3 DEF Comes, Kin
    <2>5. BookHolds(book)' /\ BookHolds(disk)' /\ LoadHolds' /\ Spent'
      BY <2>1, <2>2, <2>3, <2>4, PollKeeps
    <2>6. \A a \in DOMAIN book'.alerts :
            a \in DOMAIN book.alerts /\ book'.alerts[a].set = book.alerts[a].set
      <3>1. PICK c : c = Expired(book) OBVIOUS
      <3>2. /\ DOMAIN c.alerts = DOMAIN book.alerts
            /\ \A a \in DOMAIN book.alerts : c.alerts[a].set = book.alerts[a].set
        BY <2>2, <3>1, ExpiredIs
      <3>3. book' = c BY <2>1, <3>1 DEF Poll
      <3> QED BY <3>2, <3>3
    <2>7. SeenIsOwn' BY <2>1, <2>6 DEF AlertsInv, SeenIsOwn, NeedsBars, sightVars
    <2> QED BY <2>1, <2>5, <2>7 DEF AlertsInv
  <1>12. CASE SaverWrites
    <2>1. BookHolds(disk)' <=> BookHolds(book)'
      BY <1>12 DEF SaverWrites, AlertsInv
    <2>2. /\ disk' = book' /\ UNCHANGED <<book, scheduled, reading, bars, edits, life, fired, last, sightVars>>
      BY <1>12 DEF SaverWrites, AlertsInv
    <2>3. BookHolds(book)' BY <2>2 DEF AlertsInv, BookHolds, Judges, OnClosed, Editable, lastBar
    <2>4. LoadHolds' /\ Spent'
      BY <2>2 DEF AlertsInv, LoadHolds, Spent, Same, SpentFor, Judges, OnClosed, NeedsBars, lastBar
    <2>5. SeenIsOwn' BY <2>2 DEF AlertsInv, SeenIsOwn, NeedsBars, sightVars
    <2> QED BY <2>1, <2>2, <2>3, <2>4, <2>5 DEF AlertsInv
  <1>13. CASE Restart BY <1>13, StartKeeps DEF Restart, AlertsInv
  <1>14. CASE Crash
    <2>1. (life' = life /\ disk = book) \/ life' = life + 1 BY <1>14 DEF Crash
    <2> QED BY <1>14, <2>1, StartKeeps DEF Crash
  <1>15. CASE UNCHANGED allAlertVars BY <1>15, ReadingKeeps DEF allAlertVars
  <1> QED
    BY <1>2, <1>3, <1>4, <1>5, <1>6, <1>7, <1>8, <1>9, <1>10, <1>11, <1>12, <1>13, <1>14, <1>15
    DEF AlertsNext

\* The alerts' invariant holds.
LEMMA AlertsInvariance == AlertsSpec => []AlertsInv
  <1> QED BY AlertsInitInv, AlertsStepInv, PTL DEF AlertsSpec

\* Only what is due is told.
LEMMA OnlyDueIsTold ==
  ASSUME AlertsInv, [AlertsNext]_allAlertVars, ~UNCHANGED allAlertVars
  PROVE  \A f \in told' :
           /\ f.alert \in DOMAIN book.alerts /\ Due(f.alert, f.bar)
           /\ f.edition = book.alerts[f.alert].edition /\ f.life = life
  <1>1. CASE OnSpot \/ LoadDone
    <2>1. PICK hits, bar : Fires(hits, bar) BY <1>1, SpotFires, BarsFire
    <2>2. told' = {[alert |-> a, edition |-> book.alerts[a].edition, life |-> life, bar |-> bar[a]] :
                     a \in hits}
      BY <2>1 DEF Fires, Fire
    <2> QED BY <2>1, <2>2 DEF Fires
  <1>2. CASE ~(OnSpot \/ LoadDone)
    <2>1. told' = {}
     
       BY <1>2 DEF AlertsNext, UserActs, Add, Save, MoveLine, Snooze, TurnOff, Remove, Changed, Edit, Poll,
         PriceMoves, BarOpens, LoadAnswers, LoadFails, LoadFailed, BarsAge, PollTimer, SaverWrites,
         Restart, Crash, Starts
    <2> QED BY <2>1
  <1> QED BY <1>1, <1>2

\* An alert fires once, or once for a bar, however it is edited, judged again on the same
\* bars or loaded after a start: until it is saved anew, or a crash takes the firing back.
THEOREM FiredOnce == AlertsSpec => FiresAtMostOnce
  <1> DEFINE P(f) ==
        LET trigger == book.alerts[f.alert].set.trigger IN
        trigger # "every time" =>
          \A g \in fired : g.alert = f.alert /\ g.edition = f.edition /\ g.life = f.life =>
                             trigger # "once" /\ g.bar # f.bar
  <1>1. AlertsInv /\ [AlertsNext]_allAlertVars => [\A f \in told' : P(f)]_allAlertVars
    <2> SUFFICES ASSUME AlertsInv, [AlertsNext]_allAlertVars, ~UNCHANGED allAlertVars, NEW f \in told' PROVE P(f)
      OBVIOUS
    <2>1. PICK alert : alert = book.alerts[f.alert] OBVIOUS
    <2>2. /\ f.alert \in DOMAIN book.alerts /\ Due(f.alert, f.bar)
          /\ f.edition = alert.edition /\ f.life = life
      BY <2>1, OnlyDueIsTold
    <2>3. alert.bar_key \in Nat /\ alert.set.trigger \in Triggers BY <2>1, <2>2, BookIs
    <2>4. /\ alert.active /\ f.bar \in Nat /\ alert.bar_key <= f.bar
          /\ alert.set.trigger \in {"once per bar", "bar close"} => alert.bar_key # f.bar
      BY <2>1, <2>2 DEF Due
    <2>5. ASSUME NEW g \in fired, g.alert = f.alert, g.edition = f.edition, g.life = f.life,
                 alert.set.trigger # "every time"
          PROVE  alert.set.trigger # "once" /\ g.bar # f.bar
      <3>1. Same(g, alert, f.alert) BY <2>2, <2>5 DEF Same
      <3>2. SpentFor(g, alert) /\ g.bar \in Int BY <2>1, <2>2, <2>5, <3>1 DEF AlertsInv, Spent
      <3>3. alert.set.trigger # "once" BY <2>4, <3>2 DEF SpentFor
      <3>4. alert.set.trigger \in {"once per bar", "bar close"} BY <2>3, <2>5, <3>3 DEF Triggers
      <3>5. g.bar <= alert.bar_key BY <3>2, <3>4 DEF SpentFor
      <3>6. alert.bar_key # f.bar BY <2>4, <3>4
      <3>7. \A x \in Int, k, b \in Nat : x <= k /\ k <= b /\ k # b => x # b OBVIOUS
      <3>8. g.bar # f.bar BY <2>3, <2>4, <3>2, <3>5, <3>6, <3>7
      <3> QED BY <3>3, <3>8
    <2> QED BY <2>1, <2>5
  <1> QED BY <1>1, AlertsInvariance, PTL DEF AlertsSpec, FiresAtMostOnce

\* What fires an alert is what it saw since it is set as it is, unless it was last judged on the
\* bars of a reading that was under way when it was set; on closed bars, one that closed after the
\* alert was made.
THEOREM FiredOnWhatItSaw == AlertsSpec => FiresOnWhatItSaw
  <1> DEFINE P(f) ==
        LET alert == book.alerts[f.alert] IN
        IF OnClosed(alert.set) THEN f.bar >= alert.made
        ELSE alert.set.condition # "moves" => f.alert \in early \/ MetSince(f.alert)
  <1>1. AlertsInv /\ [AlertsNext]_allAlertVars => [\A f \in told' : P(f)]_allAlertVars
    <2> SUFFICES ASSUME AlertsInv, [AlertsNext]_allAlertVars, ~UNCHANGED allAlertVars, NEW f \in told' PROVE P(f)
      OBVIOUS
    <2>1. Due(f.alert, f.bar) BY OnlyDueIsTold
    <2> QED BY <2>1 DEF Due
  <1> QED BY <1>1, AlertsInvariance, PTL DEF AlertsSpec, FiresOnWhatItSaw

-----------------------------------------------------------------------------
(* The types of the alerts *)

\* A book within its limit, whose next number is of no alert yet.
Numbered(b) ==
  /\ b.next_id \in Nat \ {0} /\ DOMAIN b.alerts \subseteq 1 .. b.next_id - 1
  /\ Cardinality(DOMAIN b.alerts) <= Limit

\* The types, and what they need of the disk and of a reading.
AlertsTyped ==
  /\ Numbered(book) /\ Numbered(disk)
  /\ \A a \in DOMAIN last : last[a] \in Readings
  /\ DOMAIN moves \subseteq DOMAIN last /\ fresh \in BOOLEAN
  /\ reading.state \in {"none", "asked", "answered", "failed"}
  /\ reading.state = "answered" => reading.bars \in Seq(Values)

\* The alerts of a book are counted by a number.
LEMMA BookIsFinite ==
  ASSUME NEW b, Numbered(b) PROVE IsFiniteSet(DOMAIN b.alerts) /\ Cardinality(DOMAIN b.alerts) \in Nat
  <1>1. IsFiniteSet(1 .. b.next_id - 1) BY FS_Interval DEF Numbered
  <1> QED BY <1>1, FS_Subset, FS_CardinalityType DEF Numbered

\* A book of some of the alerts of another, or of the same, is within the limit.
LEMMA FewerAreNumbered ==
  ASSUME NEW b, NEW c, Numbered(b), c.next_id = b.next_id, DOMAIN c.alerts \subseteq DOMAIN b.alerts
  PROVE  Numbered(c)
  <1>1. Cardinality(DOMAIN c.alerts) <= Cardinality(DOMAIN b.alerts)
        /\ Cardinality(DOMAIN c.alerts) \in Nat /\ Cardinality(DOMAIN b.alerts) \in Nat
    BY BookIsFinite, FS_Subset, FS_CardinalityType
  <1> QED BY <1>1, AlertsAssumption DEF Numbered

\* An alert that is added takes the next number, and only below the limit.
LEMMA AddedIsNumbered ==
  ASSUME NEW s, Numbered(book), ~(Cardinality(DOMAIN book.alerts) >= Limit) PROVE Numbered(Added(s))
  <1>1. PICK n, D : n = book.next_id /\ D = DOMAIN book.alerts OBVIOUS
  <1>2. /\ n \in Nat \ {0} /\ D \subseteq 1 .. n - 1 /\ IsFiniteSet(D) /\ Cardinality(D) \in Nat
        /\ Limit \in Nat /\ Cardinality(D) < Limit
    BY <1>1, BookIsFinite, AlertsAssumption DEF Numbered
  <1>3. n \notin D
    <2>1. \A m \in 1 .. n - 1 : m < n BY <1>2
    <2> QED BY <1>2, <2>1
  <1>4. Cardinality(D \cup {n}) = Cardinality(D) + 1
    BY <1>2, <1>3, FS_AddElement
  <1>5. Added(s).next_id = n + 1 /\ DOMAIN Added(s).alerts = D \cup {n} BY <1>1 DEF Added, Put
  <1>6. D \cup {n} \subseteq 1 .. (n + 1) - 1 BY <1>2
  <1> QED BY <1>2, <1>5, <1>6, <1>4 DEF Numbered

\* A poll of a book within its limit.
LEMMA PollTypes ==
  ASSUME NEW b, b = [alerts |-> b.alerts, next_id |-> b.next_id],
         b.alerts \in [DOMAIN b.alerts -> NewAlert], Poll(b), Numbered(b), AlertsInv, AlertsTyped
  PROVE  /\ Numbered(book)' /\ fresh' \in BOOLEAN
         /\ reading'.state \in {"none", "asked", "answered", "failed"}
         /\ reading'.state = "answered" => reading'.bars \in Seq(Values)
  <1>1. PICK c : c = Expired(b) OBVIOUS
  <1>2. /\ c = [alerts |-> c.alerts, next_id |-> c.next_id] /\ DOMAIN c.alerts = DOMAIN b.alerts
        /\ c.next_id = b.next_id
    BY <1>1, ExpiredIs DEF Expired
  <1>3. Numbered(c) BY <1>2, FewerAreNumbered
  <1>4. book' = c /\ fresh' = (fresh /\ Waiting(book')) BY <1>1 DEF Poll
  <1>5. Numbered(book)' BY <1>3, <1>4 DEF Numbered
  <1>6. \/ reading' = [reading EXCEPT !.state = "asked"] /\ reading.state = "none"
        \/ reading' = reading
    BY DEF Poll
  <1>7. reading = [state |-> reading.state, bars |-> reading.bars] BY DEF AlertsInv, LoadHolds
  <1>8. /\ reading'.state \in {"none", "asked", "answered", "failed"}
        /\ reading'.state = "answered" => reading'.bars \in Seq(Values)
    BY <1>6, <1>7 DEF AlertsTyped
  <1>9. fresh \in BOOLEAN BY DEF AlertsTyped
  <1>10. fresh' \in BOOLEAN BY <1>4, <1>9, Zenon
  <1> QED BY <1>5, <1>8, <1>10

\* Every change of the user, of which the book comes within the limit.
LEMMA EditTypes ==
  ASSUME AlertsInv, AlertsTyped, NEW b, b = [alerts |-> b.alerts, next_id |-> b.next_id],
         b.alerts \in [DOMAIN b.alerts -> NewAlert], NEW own, Edit(b, own), Numbered(b)
  PROVE  AlertsTyped'
  <1>1. Poll(b) /\ last' = Empty /\ moves' = Empty /\ disk' = disk BY DEF Edit
  <1>2. Numbered(disk)' BY <1>1 DEF AlertsTyped, Numbered
  <1> QED BY <1>1, <1>2, PollTypes DEF AlertsTyped, Empty

\* The user's changes keep the types.
LEMMA UserTypes == AlertsInv /\ AlertsTyped /\ UserActs => AlertsTyped'
  <1> SUFFICES ASSUME AlertsInv, AlertsTyped, UserActs PROVE AlertsTyped'
    OBVIOUS
  <1>1. PICK b, own : EditsTo(b, own) BY UserEdits
  <1>2. Numbered(book) BY DEF AlertsTyped
  <1>3. Numbered(b)
    <2>1. CASE b.next_id = book.next_id /\ DOMAIN b.alerts \subseteq DOMAIN book.alerts
      BY <1>2, <2>1, FewerAreNumbered
    <2>2. CASE ~(Cardinality(DOMAIN book.alerts) >= Limit) /\ \E s \in Offered : b = Added(s)
      BY <1>2, <2>2, AddedIsNumbered
    <2> QED BY <1>1, <2>1, <2>2 DEF EditsTo
  <1> QED BY <1>1, <1>3, EditTypes DEF EditsTo

\* What is seen is a reading of values.
LEMMA SeenTypes ==
  ASSUME AlertsTyped, NEW seen, \A a \in DOMAIN seen : seen[a] \in Readings, last' = Over(seen, last)
  PROVE  (\A a \in DOMAIN last' : last'[a] \in Readings) /\ DOMAIN last' = DOMAIN seen \cup DOMAIN last
  BY DEF AlertsTyped, Over

\* The alerts that fire stay as many.
LEMMA FireNumbers ==
  ASSUME AlertsInv, Numbered(book), NEW hits, NEW bar, Fire(hits, bar) PROVE Numbered(book)'
  <1>1. PICK g : g = [a \in DOMAIN book.alerts |->
                        IF a \notin hits THEN book.alerts[a]
                        ELSE [book.alerts[a] EXCEPT !.bar_key = bar[a],
                                !.active = book.alerts[a].active /\ book.alerts[a].set.trigger # "once"]]
    OBVIOUS
  <1>2. DOMAIN g = DOMAIN book.alerts BY <1>1
  <1>3. book' = [book EXCEPT !.alerts = g] BY <1>1 DEF Fire
  <1>4. book = [alerts |-> book.alerts, next_id |-> book.next_id] BY DEF AlertsInv, BookHolds
  <1>5. book'.next_id = book.next_id /\ book'.alerts = g BY <1>3, <1>4
  <1>6. Numbered(book') BY <1>2, <1>5, FewerAreNumbered
  <1> QED BY <1>6 DEF Numbered

\* A price fires alerts of the book only, and what the alerts saw of a symbol stays a reading of it.
LEMMA SpotTypes == AlertsInv /\ AlertsTyped /\ OnSpot => AlertsTyped'
  <1> SUFFICES ASSUME AlertsInv, AlertsTyped, OnSpot PROVE AlertsTyped'
    OBVIOUS
  <1> DEFINE v == bars[lastBar]
             judged == {a \in DOMAIN book.alerts : Live(book.alerts[a]) /\ ~NeedsBars(book.alerts[a].set)}
             set(a) == book.alerts[a].set
             seen == [a \in judged |-> Reading(set(a), v)]
             window == [a \in {b \in judged : set(b).condition = "moves"} |->
                          {m \in (IF a \in DOMAIN moves THEN moves[a] ELSE {})
                                   \cup {[at |-> lastBar, value |-> v]} : lastBar - m.at <= Window}]
             hit(a) == IF set(a).condition = "moves" THEN Moved(window[a], v)
                       ELSE a \in DOMAIN last /\ Fired(set(a).condition, last[a], seen[a])
             hits == {a \in judged :
                        hit(a) /\ ~(set(a).trigger = "once per bar" /\ book.alerts[a].bar_key = lastBar)}
  <1>1. v \in Values
    <2>1. bars \in Seq(Values) /\ Len(bars) \in Nat /\ Len(bars) >= 4 BY DEF AlertsInv
    <2> QED BY <2>1 DEF lastBar
  <1>2. \A a \in judged : book.alerts[a].set \in Settings BY BookIs, AlertsAre
  <1>3. \A a \in DOMAIN seen : seen[a] \in Readings
    BY <1>1, <1>2, SettingsAre DEF Reading, Readings
  <1>4. last' = Over(seen, last) BY DEF OnSpot
  <1>5. moves' = Without(Over(window, moves), hits) /\ Fire(hits, [a \in hits |-> lastBar])
    BY DEF OnSpot
  <1>6. DOMAIN window \subseteq judged OBVIOUS
  <1>7. disk' = disk /\ fresh' = fresh /\ reading' = reading BY DEF OnSpot, loadVars
  <1>8. DOMAIN seen = judged OBVIOUS
  <1> HIDE DEF seen, judged, window, hits
  <1>9. (\A a \in DOMAIN last' : last'[a] \in Readings) /\ DOMAIN last' = DOMAIN seen \cup DOMAIN last
    BY <1>3, <1>4, SeenTypes
  <1>10. DOMAIN moves' \subseteq judged \cup DOMAIN moves BY <1>5, <1>6 DEF Without, Over
  <1>11. DOMAIN moves' \subseteq DOMAIN last' BY <1>9, <1>8, <1>10 DEF AlertsTyped
  <1>12. Numbered(book)' BY <1>5, FireNumbers DEF AlertsTyped
  <1>13. Numbered(disk)' BY <1>7 DEF Numbered, AlertsTyped
  <1> QED BY <1>7, <1>9, <1>11, <1>12, <1>13 DEF AlertsTyped

\* So does a reading of bars, which are values.
LEMMA DoneTypes == AlertsInv /\ AlertsTyped /\ LoadDone => AlertsTyped'
  <1> SUFFICES ASSUME AlertsInv, AlertsTyped, LoadDone PROVE AlertsTyped'
    OBVIOUS
  <1> DEFINE judged == {a \in DOMAIN book.alerts : Live(book.alerts[a]) /\ NeedsBars(book.alerts[a].set)}
             at == [a \in judged |-> Judges(book.alerts[a].set, Len(reading.bars))]
             seen == [a \in judged |-> Reading(book.alerts[a].set, reading.bars[at[a]])]
  <1>1. reading.state = "answered" /\ reading' = Idle /\ fresh' = TRUE /\ disk' = disk /\ moves' = moves
    BY DEF LoadDone
  <1>2. reading.bars \in Seq(Values) /\ Len(reading.bars) \in Nat /\ Len(reading.bars) >= 4
    BY <1>1 DEF AlertsTyped, AlertsInv, LoadHolds
  <1>3. \A a \in judged : /\ book.alerts[a].set \in Settings /\ at[a] \in 1..Len(reading.bars)
                          /\ at[a] = Judges(book.alerts[a].set, Len(reading.bars))
    <2> TAKE a \in judged
    <2>1. book.alerts[a].set \in Settings BY BookIs, AlertsAre
    <2>2. at[a] = Judges(book.alerts[a].set, Len(reading.bars)) OBVIOUS
    <2>3. Judges(book.alerts[a].set, Len(reading.bars)) \in 1..Len(reading.bars) BY <1>2 DEF Judges
    <2> QED BY <2>1, <2>2, <2>3
  <1>4. \A a \in DOMAIN seen : seen[a] \in Readings
    <2> TAKE a \in DOMAIN seen
    <2>1. a \in judged /\ seen[a] = Reading(book.alerts[a].set, reading.bars[at[a]]) OBVIOUS
    <2>2. at[a] \in 1..Len(reading.bars) /\ book.alerts[a].set \in Settings BY <1>3, <2>1
    <2> HIDE DEF at, seen, judged
    <2>3. reading.bars[at[a]] \in Values BY <1>2, <2>2
    <2> QED BY <2>1, <2>2, <2>3, SettingsAre DEF Reading, Readings
  <1>5. last' = Over(seen, last) BY DEF LoadDone
  <1>6. \E hits, bar : Fire(hits, bar) BY Zenon DEF LoadDone
  <1> HIDE DEF at, seen, judged
  <1>7. (\A a \in DOMAIN last' : last'[a] \in Readings) /\ DOMAIN last \subseteq DOMAIN last'
    BY <1>4, <1>5, SeenTypes
  <1>8. Numbered(book)' BY <1>6, FireNumbers DEF AlertsTyped
  <1>9. Numbered(disk)' BY <1>1 DEF Numbered, AlertsTyped
  <1> QED BY <1>1, <1>7, <1>8, <1>9 DEF AlertsTyped, Idle

\* The types hold when the app starts.
LEMMA TypesInit == AlertsInit => AlertsTyped
  <1> SUFFICES ASSUME AlertsInit PROVE AlertsTyped
    OBVIOUS
  <1>1. book.alerts = Empty /\ book.next_id = 1 /\ disk = book BY DEF AlertsInit
  <1>2. DOMAIN book.alerts = {} BY <1>1 DEF Empty
  <1>3. Cardinality(DOMAIN book.alerts) = 0 BY <1>2, FS_EmptySet
  <1>4. Numbered(book) BY <1>1, <1>2, <1>3, AlertsAssumption DEF Numbered
  <1> QED BY <1>1, <1>4 DEF AlertsInit, AlertsTyped, Empty, Idle, Numbered

\* Every step keeps the types.
LEMMA TypesStep == AlertsInv /\ AlertsTyped /\ [AlertsNext]_allAlertVars => AlertsTyped'
  <1> SUFFICES ASSUME AlertsInv, AlertsTyped, [AlertsNext]_allAlertVars PROVE AlertsTyped'
    OBVIOUS
  <1>1. /\ reading = [state |-> reading.state, bars |-> reading.bars]
        /\ bars \in Seq(Values) /\ scheduled = book
    BY DEF AlertsInv, LoadHolds
  <1>2. CASE UserActs BY <1>2, UserTypes
  <1>3. CASE OnSpot BY <1>3, SpotTypes
  <1>4. CASE LoadDone BY <1>4, DoneTypes
  <1>5. CASE PollTimer
    <2>1. book = [alerts |-> book.alerts, next_id |-> book.next_id]
          /\ book.alerts \in [DOMAIN book.alerts -> NewAlert]
      BY DEF AlertsInv, BookHolds
    <2>2. Poll(book) /\ UNCHANGED <<last, moves, disk>> BY <1>5 DEF PollTimer
    <2>3. Numbered(disk)' BY <2>2 DEF AlertsTyped, Numbered
    <2> QED BY <2>1, <2>2, <2>3, PollTypes DEF AlertsTyped
  <1>6. CASE LoadAnswers \/ LoadFails \/ LoadFailed
    <2>1. UNCHANGED <<book, last, moves, fresh, disk>> BY <1>6 DEF LoadAnswers, LoadFails, LoadFailed, alertVars
    <2>2. \/ reading' = [reading EXCEPT !.state = "answered", !.bars = bars]
          \/ reading' = [reading EXCEPT !.state = "failed"]
          \/ reading' = Idle
      BY <1>6 DEF LoadAnswers, LoadFails, LoadFailed
    <2>3. PICK r : r = reading' OBVIOUS
    <2>4. \/ r = [state |-> "answered", bars |-> bars] \/ r = [state |-> "failed", bars |-> reading.bars]
          \/ r = [state |-> "none", bars |-> <<>>]
      BY <1>1, <2>2, <2>3 DEF Idle
    <2>5. /\ reading'.state \in {"none", "asked", "answered", "failed"}
          /\ reading'.state = "answered" => reading'.bars \in Seq(Values)
      BY <1>1, <2>3, <2>4
    <2> QED BY <2>1, <2>5 DEF AlertsTyped, Numbered
  <1>7. CASE PriceMoves \/ BarOpens \/ BarsAge \/ UNCHANGED allAlertVars
    <2>1. UNCHANGED <<book, last, moves, disk, reading>> /\ (fresh' = fresh \/ fresh' = FALSE)
      BY <1>7 DEF PriceMoves, BarOpens, BarsAge, allAlertVars, alertVars, loadVars
    <2> QED BY <2>1 DEF AlertsTyped, Numbered
  <1>8. CASE SaverWrites
    <2>1. UNCHANGED <<book, last, moves, fresh, reading>> /\ disk' = book
      BY <1>1, <1>8 DEF SaverWrites, alertVars, loadVars
    <2> QED BY <2>1 DEF AlertsTyped, Numbered
  <1>9. CASE Restart \/ Crash
    <2>1. /\ book' = book \/ book' = disk
          /\ disk' = book' /\ last' = Empty /\ moves' = Empty /\ fresh' = FALSE /\ reading' = Idle
      BY <1>1, <1>9 DEF Restart, Crash, Starts
    <2>2. Numbered(book)' /\ Numbered(disk)' BY <2>1 DEF AlertsTyped, Numbered
    <2> QED BY <2>1, <2>2 DEF AlertsTyped, Empty, Idle
  <1> QED BY <1>2, <1>3, <1>4, <1>5, <1>6, <1>7, <1>8, <1>9 DEF AlertsNext

\* Every variable of the alerts has its type, and the user keeps no more of them than the limit.
THEOREM AlertsTypes == AlertsSpec => []AlertsTypeOK
  <1>1. AlertsInv /\ AlertsTyped => AlertsTypeOK
    <2> SUFFICES ASSUME AlertsInv, AlertsTyped PROVE AlertsTypeOK
      OBVIOUS
    <2>1. \A a \in DOMAIN book.alerts : book.alerts[a] \in NewAlert BY DEF AlertsInv, BookHolds
    <2> QED BY <2>1 DEF AlertsTyped, Numbered, AlertsTypeOK
  <1>2. AlertsSpec => [](AlertsInv /\ AlertsTyped)
    BY AlertsInitInv, AlertsStepInv, TypesInit, TypesStep, PTL DEF AlertsSpec
  <1> QED BY <1>1, <1>2, PTL
===============================================================================
