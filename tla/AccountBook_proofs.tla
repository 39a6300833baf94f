-------------------------- MODULE AccountBook_proofs --------------------------
(***************************************************************************)
(* Proofs about AccountBook: every variable keeps its type, the rule of a  *)
(* plan never loosens a stop, and at rest the book is the broker's, with   *)
(* any number of orders, legs, events, calls, readings and troubles.       *)
(***************************************************************************)
EXTENDS AccountBook, SequenceTheorems, TLAPS

\* The places of an order whose position opened.
Lived == {"open", "closed"}

\* A message is about the past; the newest one of an order says what the broker holds.
MessageTrue(m) ==
  /\ m.version <= version[m.of]
  /\ m.position # "none" => at[m.of] \in Lived
  /\ m.version = version[m.of] =>
       /\ m.position \in {"open", "trailed"} => m.stop = stop[m.of]
       /\ m.order # "none" /\ m.position = "none" => at[m.of] \notin Lived

EventsTrue == \A i \in DOMAIN events : MessageTrue(events[i])

\* A move to the entry that was asked on the broker's last word tightens.
CallTrue(c) ==
  /\ c.stage = "answered" => c.answer # <<>>
  /\ \A i \in DOMAIN c.answer : MessageTrue(c.answer[i])
  /\ c.from <= version[c.of]
  /\ c.what = "amend" /\ c.level = Entry /\ c.from = version[c.of] => stop[c.of] < Entry
CallsTrue == \A c \in calls : CallTrue(c)

\* A position that is known was there once, and its newest version is the broker's.
Known(open, versions, o) ==
  /\ o \in DOMAIN open => at[o] \in Lived
  /\ versions[o] <= version[o]
BookTrue == \A o \in Orders :
  /\ Known(positions, newest, o)
  /\ o \in DOMAIN positions \ mixed /\ newest[o] = version[o] => positions[o] = stop[o]
ReadingTrue ==
  /\ \A o \in Orders :
       /\ Known(reading.open, reading.versions, o)
       /\ o \in DOMAIN reading.open /\ reading.versions[o] = version[o] =>
            reading.open[o] = stop[o]
  /\ reading.stage = "asked" => reading.missed = {}
  /\ \A w \in reading.missed : w.what = "amend" =>
       w.level = Entry /\ w.of \in DOMAIN reading.open /\ reading.open[w.of] < Entry

LivedCounts == \A o \in Orders : at[o] \in Lived => version[o] >= 1

Inv == TypeOK /\ EventsTrue /\ CallsTrue /\ BookTrue /\ ReadingTrue /\ LivedCounts

-----------------------------------------------------------------------------
LEMMA OpenFunctions ==
  ASSUME NEW f \in Open, NEW o \in Orders, NEW s \in Stops
  PROVE  /\ DOMAIN f \subseteq Orders /\ \A p \in DOMAIN f : f[p] \in Stops
         /\ Put(f, o, s) \in Open /\ DOMAIN Put(f, o, s) = DOMAIN f \cup {o}
         /\ Put(f, o, s)[o] = s
         /\ \A p \in DOMAIN f \ {o} : Put(f, o, s)[p] = f[p]
         /\ Without(f, o) \in Open /\ DOMAIN Without(f, o) = DOMAIN f \ {o}
         /\ \A p \in DOMAIN f \ {o} : Without(f, o)[p] = f[p]
  <1>1. PICK S \in SUBSET Orders : f \in [S -> Stops] BY DEF Open
  <1>2. Put(f, o, s) \in [S \cup {o} -> Stops] BY <1>1 DEF Put
  <1>3. Without(f, o) \in [S \ {o} -> Stops] BY <1>1 DEF Without
  <1>4. Put(f, o, s) \in Open /\ Without(f, o) \in Open BY <1>2, <1>3 DEF Open
  <1> QED BY <1>1, <1>4 DEF Put, Without

LEMMA ReadingType ==
  /\ \A stage \in {"none", "asked", "failed"} : Reading(stage) \in Readings
  /\ \A stage : /\ Reading(stage).stage = stage /\ Reading(stage).missed = {}
                /\ Reading(stage).open = Nothing /\ DOMAIN Nothing = {}
                /\ Reading(stage).versions = [o \in Orders |-> 0]
  <1>1. Nothing \in Open
    <2>1. Nothing \in [{} -> Stops] BY DEF Nothing
    <2> QED BY <2>1 DEF Open
  <1> QED BY <1>1 DEF Reading, Readings, Nothing

LEMMA MessageType ==
  ASSUME NEW o \in Orders, NEW profit \in Int,
         NEW kind \in {"accepted", "filled", "replaced", "cancelled", "trailed"},
         NEW order \in {"working", "done", "none"},
         NEW position \in {"open", "closed", "trailed", "none"},
         stop' \in [Orders -> Stops], version' \in [Orders -> Nat]
  PROVE  Message(kind, o, order, position, profit) \in Event
  BY DEF Message, Event

LEMMA AskTypes ==
  /\ \A o \in Orders, level \in Stops, what \in {"place", "close", "cancel", "amend"} :
       Ask(what, o, level) \in Asks
  /\ \A what, o, level : /\ Ask(what, o, level).what = what /\ Ask(what, o, level).of = o
                         /\ Ask(what, o, level).level = level
  /\ Entry \in Stops /\ 0 \in Stops /\ Entry = 1
  BY DEF Ask, Asks, Entry, Stops

\* What the rules ask: a stop moves to the entry, and only from under it.
Tightens(w, open) ==
  w.what = "amend" => w.level = Entry /\ w.of \in DOMAIN open /\ open[w.of] < Entry

LEMMA ManageAsks ==
  ASSUME NEW e \in Event, NEW open \in Open, NEW working \in SUBSET Orders
  PROVE  /\ Manage(e, open, working) \in SUBSET Asks
         /\ \A w \in Manage(e, open, working) : Tightens(w, open)
  <1>1. DOMAIN open \subseteq Orders BY DEF Open
  <1>2. OcoSiblings(e.of, working) \subseteq Orders BY DEF OcoSiblings
  <1>3. BreakEvenMoves(e.of, e.profit, open) \subseteq {o \in DOMAIN open : open[o] < Entry}
    BY DEF BreakEvenMoves
  <1>4. ASSUME NEW w \in Manage(e, open, working)
        PROVE  w \in Asks /\ Tightens(w, open)
    <2>1. CASE \E o \in OcoSiblings(e.of, working) : w = Ask("cancel", o, 0)
      BY <2>1, <1>2, AskTypes DEF Tightens
    <2>2. CASE \E o \in BreakEvenMoves(e.of, e.profit, open) : w = Ask("amend", o, Entry)
      BY <2>2, <1>1, <1>3, AskTypes DEF Tightens
    <2> QED BY <1>4, <2>1, <2>2 DEF Manage
  <1> QED BY <1>4

LEMMA CatchUpAsks ==
  ASSUME NEW filled \in SUBSET Orders, NEW profits \in [Orders -> Int], NEW open \in Open,
         NEW working \in SUBSET Orders
  PROVE  /\ CatchUp(filled, profits, open, working) \in SUBSET Asks
         /\ \A w \in CatchUp(filled, profits, open, working) : Tightens(w, open)
  <1>1. DOMAIN open \subseteq Orders BY DEF Open
  <1>2. \A f : OcoSiblings(f, working) \subseteq Orders BY DEF OcoSiblings
  <1>3. \A c, p : BreakEvenMoves(c, p, open) \subseteq {o \in DOMAIN open : open[o] < Entry}
    BY DEF BreakEvenMoves
  <1>4. ASSUME NEW w \in CatchUp(filled, profits, open, working)
        PROVE  w \in Asks /\ Tightens(w, open)
    <2>1. CASE \E f \in filled : \E o \in OcoSiblings(f, working) : w = Ask("cancel", o, 0)
      BY <2>1, <1>2, AskTypes DEF Tightens
    <2>2. CASE \E c \in filled \ DOMAIN open :
                 \E o \in BreakEvenMoves(c, profits[c], open) : w = Ask("amend", o, Entry)
      BY <2>2, <1>1, <1>3, AskTypes DEF Tightens
    <2> QED BY <1>4, <2>1, <2>2 DEF CatchUp
  <1> QED BY <1>4

\* A new call knows the newest version the book heard of.
LEMMA NewCalls ==
  ASSUME NEW wanted \in SUBSET Asks, NEW now, NEW c \in Started(wanted, now) \ now
  PROVE  \E w \in wanted :
           /\ c.what = w.what /\ c.of = w.of /\ c.level = w.level /\ c.held = TRUE
           /\ c.stage \in {"out", "failed"} /\ c.answer = <<>>
           /\ c.from = IF w.of \in mixed' THEN 0 ELSE newest'[w.of]
           /\ newest' \in [Orders -> Nat] => c \in Call
  <1>1. PICK w \in wanted :
          c = [what |-> w.what, of |-> w.of, level |-> w.level, held |-> TRUE,
               stage |-> IF connected THEN "out" ELSE "failed",
               from |-> IF w.of \in mixed' THEN 0 ELSE newest'[w.of], answer |-> <<>>]
    BY DEF Started
  <1>2. w \in Asks OBVIOUS
  <1>3. newest' \in [Orders -> Nat] => c \in Call
    <2> SUFFICES ASSUME newest' \in [Orders -> Nat] PROVE c \in Call
      OBVIOUS
    <2>1. /\ w.what \in {"place", "close", "cancel", "amend"} /\ w.of \in Orders
          /\ w.level \in Stops
      BY <1>2 DEF Asks
    <2>2. (IF w.of \in mixed' THEN 0 ELSE newest'[w.of]) \in Nat BY <2>1
    <2>3. (IF connected THEN "out" ELSE "failed") \in {"out", "answered", "failed"}
      OBVIOUS
    <2>4. <<>> \in Seq(Event) OBVIOUS
    <2> QED BY <1>1, <2>1, <2>2, <2>3, <2>4 DEF Call
  <1> QED BY <1>1, <1>3

LEMMA StartedCalls ==
  ASSUME NEW wanted \in SUBSET Asks, NEW now \in SUBSET Call, newest' \in [Orders -> Nat],
         version' \in [Orders -> Nat],
         \A o \in Orders : newest'[o] <= version'[o],
         \A c \in now : CallTrue(c)',
         \A w \in wanted : w.what = "amend" /\ w.level = Entry =>
           \/ w.of \in mixed' /\ version'[w.of] >= 1
           \/ newest'[w.of] = version'[w.of] => stop'[w.of] < Entry
  PROVE  /\ Started(wanted, now) \in SUBSET Call
         /\ \A c \in Started(wanted, now) : CallTrue(c)'
  <1>1. ASSUME NEW c \in Started(wanted, now) PROVE c \in Call /\ CallTrue(c)'
    <2>1. CASE c \in now BY <2>1
    <2>2. CASE c \notin now
      <3>1. PICK w \in wanted :
           /\ c.what = w.what /\ c.of = w.of /\ c.level = w.level /\ c.held = TRUE
           /\ c.stage \in {"out", "failed"} /\ c.answer = <<>>
           /\ c.from = IF w.of \in mixed' THEN 0 ELSE newest'[w.of]
           /\ newest' \in [Orders -> Nat] => c \in Call
        BY <2>2, NewCalls
      <3>2. w.of \in Orders BY DEF Asks
      <3>3. c.from <= version'[c.of] BY <3>1, <3>2
      <3>4. c.what = "amend" /\ c.level = Entry /\ c.from = version'[c.of] => stop'[c.of] < Entry
        <4> SUFFICES ASSUME c.what = "amend", c.level = Entry, c.from = version'[c.of]
                     PROVE  stop'[c.of] < Entry
          OBVIOUS
        <4>1. \/ w.of \in mixed' /\ version'[w.of] >= 1
              \/ newest'[w.of] = version'[w.of] => stop'[w.of] < Entry
          BY <3>1
        <4>2. newest'[w.of] \in Nat /\ newest'[w.of] <= version'[w.of] BY <3>2
        <4>3. CASE w.of \in mixed'
          <5>1. c.from = 0 BY <3>1, <4>3
          <5> QED BY <3>1, <4>1, <4>2, <5>1
        <4>4. CASE w.of \notin mixed'
          <5>1. c.from = newest'[w.of] BY <3>1, <4>4
          <5> QED BY <3>1, <4>1, <4>4, <5>1
        <4> QED BY <4>3, <4>4
      <3>5. /\ c.stage = "answered" => c.answer # <<>>
            /\ \A i \in DOMAIN c.answer : MessageTrue(c.answer[i])'
        BY <3>1
      <3> QED BY <3>1, <3>3, <3>4, <3>5 DEF CallTrue
    <2> QED BY <2>1, <2>2
  <1> QED BY <1>1

\* A message stays true when the broker changes an order: the ones of that order are older.
LEMMA OlderStaysTrue ==
  ASSUME NEW m \in Event, MessageTrue(m), NEW o \in Orders,
         version \in [Orders -> Nat], version' = [version EXCEPT ![o] = version[o] + 1],
         at[o] \in Lived => at'[o] \in Lived,
         \A p \in Orders \ {o} : at'[p] = at[p] /\ stop'[p] = stop[p]
  PROVE  MessageTrue(m)'
  <1>1. m.of \in Orders /\ m.version \in Nat BY DEF Event
  <1>2. CASE m.of = o
    <2>1. m.version <= version[o] /\ version'[o] = version[o] + 1 /\ version[o] \in Nat
      BY <1>2 DEF MessageTrue
    <2>2. m.version < version'[m.of] BY <1>1, <1>2, <2>1
    <2>3. m.version <= version'[m.of] /\ m.version # version'[m.of] BY <1>1, <1>2, <2>1
    <2> QED BY <1>2, <2>3 DEF MessageTrue
  <1>3. CASE m.of # o
    <2>1. /\ version'[m.of] = version[m.of]
          /\ at'[m.of] = at[m.of] /\ stop'[m.of] = stop[m.of]
      BY <1>1, <1>3
    <2> QED BY <2>1 DEF MessageTrue
  <1> QED BY <1>2, <1>3

\* The messages of a change are true of what it left.
LEMMA NewIsTrue ==
  ASSUME NEW m, m.version = version'[m.of], version'[m.of] \in Nat,
         m.stop = stop'[m.of],
         m.position # "none" => at'[m.of] \in Lived,
         m.order # "none" /\ m.position = "none" => at'[m.of] \notin Lived
  PROVE  MessageTrue(m)'
  BY DEF MessageTrue

\* What a change of the broker leaves true of the account and of what is on its way.
LEMMA BrokerMoves ==
  ASSUME Inv, NEW o \in Orders,
         version' = [version EXCEPT ![o] = version[o] + 1],
         at[o] \in Lived => at'[o] \in Lived,
         \A p \in Orders \ {o} : at'[p] = at[p] /\ stop'[p] = stop[p]
  PROVE  /\ version' \in [Orders -> Nat] /\ LivedCounts'
         /\ UNCHANGED events => EventsTrue'
         /\ \A c \in calls : CallTrue(c)'
         /\ UNCHANGED <<positions, newest, mixed>> => BookTrue'
         /\ UNCHANGED reading => ReadingTrue'
  <1> USE DEF Inv
  <1>0. /\ version \in [Orders -> Nat] /\ newest \in [Orders -> Nat] /\ reading \in Readings
        /\ calls \in SUBSET Call /\ events \in Seq(Event)
    BY DEF TypeOK
  <1>1. /\ version' \in [Orders -> Nat] /\ version'[o] = version[o] + 1
        /\ \A p \in Orders \ {o} : version'[p] = version[p]
    BY <1>0
  <1>2. LivedCounts' BY <1>0, <1>1 DEF LivedCounts
  <1>3. \A m \in Event : MessageTrue(m) => MessageTrue(m)'
    BY <1>0, OlderStaysTrue
  <1>4. UNCHANGED events => EventsTrue'
    BY <1>0, <1>3 DEF EventsTrue
  <1>5. ASSUME NEW c \in calls PROVE CallTrue(c)'
    <2>1. CallTrue(c) BY DEF CallsTrue
    <2>2. c.of \in Orders /\ c.from \in Nat /\ c.answer \in Seq(Event) BY <1>0 DEF Call
    <2>3. c.from <= version[c.of] BY <2>1 DEF CallTrue
    <2>4. c.of = o => c.from < version'[c.of] BY <1>0, <1>1, <2>2, <2>3
    <2>5. c.of # o => version'[c.of] = version[c.of] /\ stop'[c.of] = stop[c.of]
      BY <1>1, <2>2
    <2>6. version'[c.of] \in Nat BY <1>1, <2>2
    <2>7. c.from <= version'[c.of] BY <2>2, <2>3, <2>4, <2>5, <2>6
    <2>8. c.what = "amend" /\ c.level = Entry /\ c.from = version'[c.of] => stop'[c.of] < Entry
      <3>1. CASE c.of = o BY <2>2, <2>4, <2>6, <3>1
      <3>2. CASE c.of # o BY <2>1, <2>5, <3>2 DEF CallTrue
      <3> QED BY <3>1, <3>2
    <2>9. \A i \in DOMAIN c.answer : MessageTrue(c.answer[i])'
      BY <1>3, <2>1, <2>2 DEF CallTrue
    <2> QED BY <2>1, <2>7, <2>8, <2>9 DEF CallTrue
  <1>6. \A p \in Orders : at[p] \in Lived => at'[p] \in Lived
    OBVIOUS
  <1>7. \A p \in Orders, n \in Nat : n <= version[p] =>
          n <= version'[p] /\ (n = version'[p] => p # o /\ n = version[p] /\ stop'[p] = stop[p])
    BY <1>0, <1>1
  <1>8. UNCHANGED <<positions, newest, mixed>> => BookTrue'
    <2> SUFFICES ASSUME UNCHANGED <<positions, newest, mixed>>, NEW p \in Orders
                 PROVE  /\ Known(positions, newest, p)'
                        /\ p \in DOMAIN positions \ mixed /\ newest[p] = version'[p] =>
                             positions[p] = stop'[p]
      BY DEF BookTrue
    <2>1. /\ Known(positions, newest, p)
          /\ p \in DOMAIN positions \ mixed /\ newest[p] = version[p] => positions[p] = stop[p]
      BY DEF BookTrue
    <2>2. newest[p] \in Nat /\ newest[p] <= version[p] BY <1>0, <2>1 DEF Known
    <2>3. Known(positions, newest, p)' BY <1>6, <1>7, <2>1, <2>2 DEF Known
    <2> QED BY <1>7, <2>1, <2>2, <2>3
  <1>9. UNCHANGED reading => ReadingTrue'
    <2> SUFFICES ASSUME UNCHANGED reading PROVE ReadingTrue'
      OBVIOUS
    <2>1. ASSUME NEW p \in Orders
          PROVE  /\ Known(reading.open, reading.versions, p)'
                 /\ p \in DOMAIN reading.open /\ reading.versions[p] = version'[p] =>
                      reading.open[p] = stop'[p]
      <3>1. /\ Known(reading.open, reading.versions, p)
            /\ p \in DOMAIN reading.open /\ reading.versions[p] = version[p] =>
                 reading.open[p] = stop[p]
        BY DEF ReadingTrue
      <3>2. reading.versions[p] \in Nat /\ reading.versions[p] <= version[p]
        BY <1>0, <3>1 DEF Known, Readings
      <3>3. Known(reading.open, reading.versions, p)' BY <1>6, <1>7, <3>1, <3>2 DEF Known
      <3> QED BY <1>7, <3>1, <3>2, <3>3
    <2> QED BY <2>1 DEF ReadingTrue
  <1> QED BY <1>1, <1>2, <1>4, <1>5, <1>8, <1>9

\* A message that is sent is one more that is true.
LEMMA Emitting ==
  ASSUME events \in Seq(Event), NEW e \in Event, MessageTrue(e)', EventsTrue,
         \A m \in Event : MessageTrue(m) => MessageTrue(m)', Emit(e)
  PROVE  events' \in Seq(Event) /\ EventsTrue'
  <1>0. \A i \in DOMAIN events : events[i] \in Event /\ MessageTrue(events[i])
    BY DEF EventsTrue
  <1>1. CASE connected
    <2>1. events' = Append(events, e) BY <1>1 DEF Emit
    <2>2. events' \in Seq(Event) BY <2>1
    <2>3. ASSUME NEW i \in DOMAIN events', NEW m \in Event, m = events'[i]
          PROVE  MessageTrue(m)'
      <3>1. (i \in DOMAIN events /\ m = events[i]) \/ m = e BY <2>1, <2>3
      <3> QED BY <1>0, <3>1
    <2>4. \A i \in DOMAIN events' : events'[i] \in Event BY <2>2
    <2> QED BY <2>2, <2>3, <2>4 DEF EventsTrue
  <1>2. CASE ~connected
    <2>1. events' = events BY <1>2 DEF Emit
    <2>2. ASSUME NEW i \in DOMAIN events', NEW m \in Event, m = events'[i]
          PROVE  MessageTrue(m)'
      BY <1>0, <2>1, <2>2
    <2>3. \A i \in DOMAIN events' : events'[i] \in Event BY <2>1
    <2> QED BY <2>1, <2>2, <2>3 DEF EventsTrue
  <1> QED BY <1>1, <1>2

\* What a message does to the book, and what is asked then.
LEMMA Executing ==
  ASSUME Inv, UNCHANGED brokerVars, NEW e \in Event, MessageTrue(e),
         NEW more \in SUBSET Asks, \A w \in more : w.what # "amend",
         NEW now \in SUBSET calls, OnExecution(e, more, now)
  PROVE  /\ positions' \in Open /\ orders' \subseteq Orders
         /\ newest' \in [Orders -> Nat] /\ mixed' \subseteq Orders /\ dropped' \subseteq Orders
         /\ calls' \in SUBSET Call /\ CallsTrue' /\ BookTrue'
  <1> USE DEF Inv
  <1>0. /\ version \in [Orders -> Nat] /\ newest \in [Orders -> Nat]
        /\ positions \in Open /\ orders \subseteq Orders /\ mixed \subseteq Orders
        /\ dropped \subseteq Orders /\ now \subseteq Call
        /\ e.of \in Orders /\ e.stop \in Stops /\ e.version \in Nat
        /\ e.position \in {"open", "closed", "trailed", "none"}
        /\ e.order \in {"working", "done", "none"}
    BY DEF TypeOK, Event
  <1>1. version' = version /\ at' = at /\ stop' = stop BY DEF brokerVars
  <1>2. /\ positions' = CASE e.position = "open"   -> Put(positions, e.of, e.stop)
                          [] e.position = "closed" -> Without(positions, e.of)
                          [] e.position = "trailed" /\ e.of \in DOMAIN positions ->
                               Put(positions, e.of, e.stop)
                          [] OTHER -> positions
        /\ orders' = CASE e.order = "working" -> orders \cup {e.of}
                       [] e.order = "done"    -> orders \ {e.of}
                       [] OTHER -> orders
    BY DEF OnExecution, Apply
  <1>3. /\ positions' \in Open
        /\ \A o \in Orders \ {e.of} : (o \in DOMAIN positions') = (o \in DOMAIN positions)
                                      /\ (o \in DOMAIN positions => positions'[o] = positions[o])
        /\ e.of \in DOMAIN positions' => \/ e.of \in DOMAIN positions \/ e.position = "open"
        /\ e.of \in DOMAIN positions' /\ e.position \in {"open", "trailed"} =>
             positions'[e.of] = e.stop
        /\ e.position = "closed" => e.of \notin DOMAIN positions'
        /\ e.position = "none" => positions' = positions
    <2> DEFINE put == Put(positions, e.of, e.stop)
               left == Without(positions, e.of)
    <2>0. /\ put \in Open /\ DOMAIN put = DOMAIN positions \cup {e.of} /\ put[e.of] = e.stop
          /\ \A o \in DOMAIN positions \ {e.of} : put[o] = positions[o]
          /\ left \in Open /\ DOMAIN left = DOMAIN positions \ {e.of}
          /\ \A o \in DOMAIN positions \ {e.of} : left[o] = positions[o]
      <3>1. positions \in Open /\ e.of \in Orders /\ e.stop \in Stops BY <1>0
      <3>2. put \in Open /\ left \in Open BY <3>1, OpenFunctions
      <3>3. DOMAIN put = DOMAIN positions \cup {e.of} /\ put[e.of] = e.stop
        BY DEF Put
      <3>4. \A o \in DOMAIN positions \ {e.of} : put[o] = positions[o] BY DEF Put
      <3>5. DOMAIN left = DOMAIN positions \ {e.of} BY <3>1, OpenFunctions
      <3>6. \A o \in DOMAIN positions \ {e.of} : left[o] = positions[o] BY <3>1, OpenFunctions
      <3> QED BY <3>2, <3>3, <3>4, <3>5, <3>6
    <2>1. CASE e.position = "open"
      <3>1. positions' = put BY <1>2, <2>1
      <3> HIDE DEF put
      <3> QED BY <2>0, <2>1, <3>1
    <2>2. CASE e.position = "closed"
      <3>1. positions' = left BY <1>2, <2>2
      <3> HIDE DEF left
      <3> QED BY <2>0, <2>2, <3>1
    <2>3. CASE e.position = "trailed" /\ e.of \in DOMAIN positions
      <3>1. positions' = put BY <1>2, <2>3
      <3> HIDE DEF put
      <3> QED BY <2>0, <2>3, <3>1
    <2>4. CASE e.position = "none" \/ (e.position = "trailed" /\ e.of \notin DOMAIN positions)
      BY <1>0, <1>2, <2>4
    <2> QED BY <1>0, <2>1, <2>2, <2>3, <2>4
  <1>4. orders' \subseteq Orders BY <1>0, <1>2
  <1>5. \/ e.position = "none" /\ e.order = "none" /\ newest' = newest /\ mixed' = mixed
        \/ /\ ~(e.position = "none" /\ e.order = "none")
           /\ newest' = [newest EXCEPT ![e.of] = Newer(newest[e.of], e.version)]
           /\ mixed' = IF e.version < newest[e.of] THEN mixed \cup {e.of} ELSE mixed
    BY DEF OnExecution, Remember
  <1>6. newest' \in [Orders -> Nat] /\ mixed' \subseteq Orders
    BY <1>0, <1>5 DEF Newer
  <1>7. BookTrue'
    <2> SUFFICES ASSUME NEW o \in Orders
                 PROVE  /\ Known(positions, newest, o)'
                        /\ o \in DOMAIN positions' \ mixed' /\ newest'[o] = version'[o] =>
                             positions'[o] = stop'[o]
      BY DEF BookTrue
    <2>1. /\ Known(positions, newest, o)
          /\ o \in DOMAIN positions \ mixed /\ newest[o] = version[o] => positions[o] = stop[o]
      BY DEF BookTrue
    <2>2. CASE o # e.of
      <3>1. newest'[o] = newest[o] /\ (o \in mixed' <=> o \in mixed) BY <1>0, <1>5, <2>2
      <3>2. /\ (o \in DOMAIN positions') = (o \in DOMAIN positions)
            /\ o \in DOMAIN positions => positions'[o] = positions[o]
        BY <1>3, <2>2
      <3>3. Known(positions, newest, o)' BY <1>1, <2>1, <3>1, <3>2 DEF Known
      <3> QED BY <1>1, <2>1, <3>1, <3>2, <3>3
    <2>3. CASE o = e.of /\ e.position = "none" /\ e.order = "none"
      <3>1. newest' = newest /\ mixed' = mixed /\ positions' = positions BY <1>3, <1>5, <2>3
      <3>2. Known(positions, newest, o)' BY <1>1, <2>1, <3>1 DEF Known
      <3> QED BY <1>1, <2>1, <3>1, <3>2
    <2>4. CASE o = e.of /\ ~(e.position = "none" /\ e.order = "none")
      <3>1. e.version <= version[o] /\ newest[o] <= version[o]
        BY <2>1, <2>4 DEF MessageTrue, Known
      <3>2. newest'[o] = Newer(newest[o], e.version) BY <1>0, <1>5, <2>4
      <3>3. newest'[o] <= version[o] BY <1>0, <3>1, <3>2 DEF Newer
      <3>4. o \in DOMAIN positions' => at[o] \in Lived
        <4>1. o \in DOMAIN positions => at[o] \in Lived BY <2>1 DEF Known
        <4>2. e.position = "open" => at[o] \in Lived BY <2>4 DEF MessageTrue
        <4> QED BY <1>3, <2>4, <4>1, <4>2
      <3>5. ASSUME o \in DOMAIN positions', o \notin mixed', newest'[o] = version'[o]
            PROVE  positions'[o] = stop'[o]
        <4>1. ~(e.version < newest[o])
          BY <1>5, <2>4, <3>5
        <4>2. e.version = version[o] BY <1>0, <1>1, <3>2, <3>5, <4>1 DEF Newer
        <4>3. /\ e.position \in {"open", "trailed"} => e.stop = stop[o]
              /\ e.order # "none" /\ e.position = "none" => at[o] \notin Lived
          BY <2>4, <4>2 DEF MessageTrue
        <4>4. e.position \in {"open", "trailed"} BY <1>0, <1>3, <2>4, <3>4, <3>5, <4>3
        <4> QED BY <1>1, <1>3, <2>4, <3>5, <4>3, <4>4
      <3>6. Known(positions, newest, o)' BY <1>1, <3>3, <3>4 DEF Known
      <3> QED BY <3>5, <3>6
    <2> QED BY <2>2, <2>3, <2>4
  <1> DEFINE wanted == Manage(e, positions', orders') \cup more
  <1>8. wanted \in SUBSET Asks /\ \A w \in wanted : Tightens(w, positions')
    BY <1>3, <1>4, ManageAsks DEF Tightens
  <1>9. /\ calls' = Started(wanted, now)
        /\ dropped' = dropped \cup {w.of : w \in {a \in wanted : IsTaken(a, now)}}
    BY DEF OnExecution
  <1>10. dropped' \subseteq Orders BY <1>0, <1>8, <1>9 DEF Asks
  <1>11. \A c \in now : CallTrue(c)' BY <1>1 DEF CallsTrue, CallTrue, MessageTrue
  <1>12. \A o \in Orders : /\ newest'[o] <= version'[o]
                           /\ o \in DOMAIN positions' => version'[o] >= 1
    BY <1>1, <1>7 DEF BookTrue, Known, LivedCounts
  <1>13. ASSUME NEW w \in wanted, w.what = "amend"
         PROVE  \/ w.of \in mixed' /\ version'[w.of] >= 1
                \/ newest'[w.of] = version'[w.of] => stop'[w.of] < Entry
    <2>1. w.of \in Orders /\ w.of \in DOMAIN positions' /\ positions'[w.of] < Entry
      BY <1>8, <1>13 DEF Tightens, Asks
    <2>2. w.of \in DOMAIN positions' \ mixed' /\ newest'[w.of] = version'[w.of] =>
            positions'[w.of] = stop'[w.of]
      BY <1>7, <2>1 DEF BookTrue
    <2> QED BY <1>12, <2>1, <2>2
  <1>14. version' \in [Orders -> Nat] BY <1>0, <1>1
  <1> HIDE DEF wanted
  <1>15. calls' \in SUBSET Call /\ CallsTrue'
    <2>1. /\ Started(wanted, now) \in SUBSET Call
          /\ \A c \in Started(wanted, now) : CallTrue(c)'
      BY <1>0, <1>6, <1>8, <1>11, <1>12, <1>13, <1>14, StartedCalls
    <2> QED BY <1>9, <2>1 DEF CallsTrue
  <1> QED BY <1>3, <1>4, <1>6, <1>7, <1>10, <1>15

LEMMA InitInv == Init => Inv
  <1> SUFFICES ASSUME Init PROVE Inv
    OBVIOUS
  <1> USE ConstantsAssumption DEF Init
  <1>0. /\ reading \in Readings /\ reading.missed = {}
        /\ DOMAIN reading.open = {} /\ reading.versions = [o \in Orders |-> 0]
        /\ positions \in Open /\ DOMAIN positions = {}
    <2>1. Nothing \in Open /\ DOMAIN Nothing = {} /\ Reading("none").open = Nothing
      BY ReadingType DEF Readings
    <2> QED BY <2>1, ReadingType
  <1>1. TypeOK
    <2>1. at \in [Orders -> Places] BY DEF Places
    <2>2. stop \in [Orders -> Stops] BY DEF Stops
    <2>3. /\ made \in [Orders -> Int] /\ version \in [Orders -> Nat] /\ newest \in [Orders -> Nat]
          /\ troubles \in 0 .. MaxTroubles
      OBVIOUS
    <2>4. /\ events \in Seq(Event) /\ queue \in Seq(Orders)
          /\ calls \in SUBSET Call /\ orders \subseteq Orders
          /\ mixed \subseteq Orders /\ dropped \subseteq Orders
          /\ status \in {"Loading", "Ready", "Failed"}
      OBVIOUS
    <2>5. /\ connected \in BOOLEAN /\ trader \in BOOLEAN
          /\ uncertain \in BOOLEAN /\ unread \in BOOLEAN
      OBVIOUS
    <2> QED BY <1>0, <2>1, <2>2, <2>3, <2>4, <2>5 DEF TypeOK
  <1>2. EventsTrue /\ CallsTrue BY DEF EventsTrue, CallsTrue
  <1>3. LivedCounts BY DEF LivedCounts, Lived
  <1>4. BookTrue
    <2> SUFFICES ASSUME NEW o \in Orders
                 PROVE  newest[o] <= version[o] /\ o \notin DOMAIN positions
      BY DEF BookTrue, Known
    <2>1. newest[o] = 0 /\ version[o] = 0 OBVIOUS
    <2>2. newest[o] <= version[o]
      <3> HIDE DEF Init
      <3> QED BY <2>1
    <2> QED BY <1>0, <2>2
  <1>5. ReadingTrue BY <1>0 DEF ReadingTrue, Known
  <1> QED BY <1>1, <1>2, <1>3, <1>4, <1>5 DEF Inv

\* A change of the broker, with what it says of it on its way.
LEMMA BrokerStep ==
  ASSUME Inv, NEW o \in Orders, Changed(o),
         at' \in [Orders -> Places], stop' \in [Orders -> Stops], made' \in [Orders -> Int],
         at[o] \in Lived => at'[o] \in Lived,
         \A p \in Orders \ {o} : at'[p] = at[p] /\ stop'[p] = stop[p],
         events' \in Seq(Event), EventsTrue', calls' \in SUBSET Call, CallsTrue',
         UNCHANGED <<connected, reading, accountVars, ghostVars>>,
         troubles' \in 0 .. MaxTroubles
  PROVE  Inv'
  <1> USE DEF Inv, Changed, accountVars, ghostVars
  <1>1. /\ version' \in [Orders -> Nat] /\ LivedCounts' /\ BookTrue' /\ ReadingTrue'
    BY BrokerMoves
  <1>2. TypeOK' BY <1>1 DEF TypeOK
  <1> QED BY <1>1, <1>2

\* A move of the market, whose event goes to the stream.
LEMMA MarketStep ==
  ASSUME Inv, NEW o \in Orders, Changed(o),
         at' \in [Orders -> Places], stop' \in [Orders -> Stops], made' \in [Orders -> Int],
         at[o] \in Lived => at'[o] \in Lived,
         \A p \in Orders \ {o} : at'[p] = at[p] /\ stop'[p] = stop[p],
         NEW e \in Event, MessageTrue(e)', Emit(e),
         UNCHANGED <<connected, calls, reading, accountVars, ghostVars>>,
         troubles' \in 0 .. MaxTroubles
  PROVE  Inv'
  <1> USE DEF Inv
  <1>1. version' = [version EXCEPT ![o] = version[o] + 1] BY DEF Changed
  <1>2. \A c \in calls : CallTrue(c)' BY <1>1, BrokerMoves
  <1>3. CallsTrue' /\ calls' \in SUBSET Call BY <1>2 DEF CallsTrue, TypeOK
  <1>4. events \in Seq(Event) /\ version \in [Orders -> Nat] BY DEF TypeOK
  <1>5. \A m \in Event : MessageTrue(m) => MessageTrue(m)' BY <1>1, <1>4, OlderStaysTrue
  <1>6. events' \in Seq(Event) /\ EventsTrue' BY <1>4, <1>5, Emitting
  <1> QED BY <1>3, <1>6, BrokerStep

LEMMA ProfitsAreInts == \A o : \A size \in Int : Profits(o, size) \subseteq Int
  BY DEF Profits

LEMMA TroubleType == TypeOK /\ (Trouble \/ UNCHANGED troubles) => troubles' \in 0 .. MaxTroubles
  BY ConstantsAssumption DEF TypeOK, Trouble

LEMMA MarketInv == Inv /\ Market => Inv'
  <1> SUFFICES ASSUME Inv, NEW o \in Orders,
                      Fill(o) \/ CloseThere(o) \/ ClosePart(o) \/ Trail(o) \/ Expire(o)
               PROVE  Inv'
    BY DEF Market
  <1>0. /\ at \in [Orders -> Places] /\ stop \in [Orders -> Stops] /\ made \in [Orders -> Int]
        /\ version \in [Orders -> Nat] /\ made[o] \in Int
    BY DEF Inv, TypeOK
  <1>1. troubles' \in 0 .. MaxTroubles
    BY TroubleType DEF Inv, Fill, CloseThere, ClosePart, Trail, Expire
  <1>2. Changed(o) /\ UNCHANGED <<connected, calls, reading, accountVars, ghostVars>>
    BY DEF Fill, CloseThere, ClosePart, Trail, Expire
  <1>3. version' \in [Orders -> Nat] BY <1>0, <1>2 DEF Changed
  <1> SUFFICES /\ at' \in [Orders -> Places] /\ stop' \in [Orders -> Stops]
               /\ made' \in [Orders -> Int]
               /\ at[o] \in Lived => at'[o] \in Lived
               /\ \A p \in Orders \ {o} : at'[p] = at[p] /\ stop'[p] = stop[p]
               /\ \E e \in Event : MessageTrue(e)' /\ Emit(e)
    BY <1>1, <1>2, MarketStep
  <1>4. CASE Fill(o)
    <2> DEFINE says == Message("filled", o, "done", "open", 0)
    <2>1. /\ at' = [at EXCEPT ![o] = "open"] /\ stop' = stop /\ made' = made /\ Emit(says)
      BY <1>4 DEF Fill
    <2>2. at' \in [Orders -> Places] /\ at'[o] \in Lived BY <1>0, <2>1 DEF Lived, Places
    <2>3. PICK e \in Event : e = says BY <1>0, <1>3, <2>1, MessageType
    <2>4. MessageTrue(e)' BY <1>3, <2>2, <2>3 DEF Message, MessageTrue
    <2> QED BY <1>0, <2>1, <2>2, <2>3, <2>4
  <1>5. CASE CloseThere(o)
    <2>1. PICK profit \in Profits(o, 1) :
            /\ at' = [at EXCEPT ![o] = "closed"] /\ made' = [made EXCEPT ![o] = made[o] + profit]
            /\ stop' = stop /\ Emit(Message("filled", o, "none", "closed", profit))
      BY <1>5 DEF CloseThere
    <2> DEFINE says == Message("filled", o, "none", "closed", profit)
    <2>2. profit \in Int BY ProfitsAreInts
    <2>3. at' \in [Orders -> Places] /\ at'[o] \in Lived BY <1>0, <2>1 DEF Lived, Places
    <2>4. made' \in [Orders -> Int] BY <1>0, <2>1, <2>2
    <2>5. PICK e \in Event : e = says BY <1>0, <1>3, <2>1, <2>2, MessageType
    <2>6. MessageTrue(e)' BY <1>3, <2>3, <2>5 DEF Message, MessageTrue
    <2> QED BY <1>0, <2>1, <2>3, <2>4, <2>5, <2>6
  <1>6. CASE ClosePart(o)
    <2>1. PICK profit \in Profits(o, 2) :
            /\ made' = [made EXCEPT ![o] = profit] /\ at' = at /\ stop' = stop
            /\ at[o] = "open" /\ Emit(Message("filled", o, "none", "open", profit))
      BY <1>6 DEF ClosePart
    <2> DEFINE says == Message("filled", o, "none", "open", profit)
    <2>2. profit \in Int BY ProfitsAreInts
    <2>3. at' \in [Orders -> Places] /\ at'[o] \in Lived BY <1>0, <2>1 DEF Lived, Places
    <2>4. made' \in [Orders -> Int] BY <1>0, <2>1, <2>2
    <2>5. PICK e \in Event : e = says BY <1>0, <1>3, <2>1, <2>2, MessageType
    <2>6. MessageTrue(e)' BY <1>3, <2>3, <2>5 DEF Message, MessageTrue
    <2> QED BY <1>0, <2>1, <2>3, <2>4, <2>5, <2>6
  <1>7. CASE Trail(o)
    <2> DEFINE says == Message("trailed", o, "none", "trailed", 0)
    <2>1. /\ stop' = [stop EXCEPT ![o] = 2] /\ at' = at /\ made' = made /\ Emit(says)
          /\ at[o] = "open"
      BY <1>7 DEF Trail
    <2>2. stop' \in [Orders -> Stops] BY <1>0, <2>1 DEF Stops
    <2>3. at' \in [Orders -> Places] /\ at'[o] \in Lived BY <1>0, <2>1 DEF Lived, Places
    <2>4. PICK e \in Event : e = says BY <1>3, <2>2, MessageType
    <2>5. MessageTrue(e)' BY <1>3, <2>3, <2>4 DEF Message, MessageTrue
    <2>6. \A p \in Orders \ {o} : stop'[p] = stop[p] BY <1>0, <2>1
    <2> QED BY <1>0, <2>1, <2>2, <2>3, <2>4, <2>5, <2>6
  <1>8. CASE Expire(o)
    <2> DEFINE says == Message("cancelled", o, "done", "none", 0)
    <2>1. /\ at' = [at EXCEPT ![o] = "gone"] /\ stop' = stop /\ made' = made /\ Emit(says)
          /\ at[o] = "working"
      BY <1>8 DEF Expire
    <2>2. at' \in [Orders -> Places] /\ at[o] \notin Lived /\ at'[o] \notin Lived
      BY <1>0, <2>1 DEF Lived, Places
    <2>3. PICK e \in Event : e = says BY <1>0, <1>3, <2>1, MessageType
    <2>4. MessageTrue(e)' BY <1>3, <2>2, <2>3 DEF Message, MessageTrue
    <2> QED BY <1>0, <2>1, <2>2, <2>3, <2>4
  <1> QED BY <1>4, <1>5, <1>6, <1>7, <1>8

LEMMA BrokerInv == Inv /\ Broker => Inv'
  <1> SUFFICES ASSUME Inv, NEW c \in calls, CarryOut(c) \/ Refuse(c) PROVE Inv'
    BY DEF Broker
  <1>0. /\ at \in [Orders -> Places] /\ stop \in [Orders -> Stops] /\ made \in [Orders -> Int]
        /\ version \in [Orders -> Nat] /\ events \in Seq(Event) /\ calls \in SUBSET Call
        /\ c \in Call /\ c.of \in Orders /\ c.level \in Stops /\ CallTrue(c)
        /\ c.what \in {"place", "close", "cancel", "amend"} /\ made[c.of] \in Int
    BY DEF Inv, TypeOK, CallsTrue, Call
  <1>1. CASE Refuse(c)
    <2> DEFINE d == [c EXCEPT !.stage = "failed"]
    <2>1. /\ calls' = (calls \ {c}) \cup {d} /\ troubles' \in 0 .. MaxTroubles
          /\ UNCHANGED <<brokerVars, connected, events, reading, accountVars, ghostVars>>
      BY <1>1, TroubleType DEF Refuse, Inv
    <2>2. d \in Call BY <1>0 DEF Call
    <2>3. CallTrue(d) BY <1>0 DEF CallTrue, Call
    <2>4. calls' \in SUBSET Call BY <1>0, <2>1, <2>2
    <2>5. TypeOK' BY <2>1, <2>4 DEF Inv, TypeOK, brokerVars, accountVars, ghostVars
    <2>6. \A d1 \in Call : CallTrue(d1) => CallTrue(d1)'
      BY <2>1 DEF CallTrue, MessageTrue, brokerVars
    <2>7. CallsTrue' BY <1>0, <2>1, <2>2, <2>3, <2>6 DEF Inv, CallsTrue
    <2>8. (EventsTrue /\ BookTrue /\ ReadingTrue /\ LivedCounts)'
      BY <2>1 DEF Inv, EventsTrue, BookTrue, ReadingTrue, LivedCounts, Known, MessageTrue,
                  brokerVars, accountVars, ghostVars
    <2> QED BY <2>5, <2>7, <2>8 DEF Inv
  <1>2. CASE CarryOut(c)
    <2> DEFINE o == c.of
    <2>1. /\ Changed(o) /\ Carries(c) /\ UNCHANGED troubles
          /\ UNCHANGED <<connected, reading, accountVars, ghostVars>>
      BY <1>2 DEF CarryOut
    <2>2. version' = [version EXCEPT ![o] = version[o] + 1] /\ version' \in [Orders -> Nat]
      BY <1>0, <2>1 DEF Changed
    <2>3. troubles' \in 0 .. MaxTroubles BY <2>1, TroubleType DEF Inv
    <2>4. ASSUME NEW e \in Event, Answers(c, e), MessageTrue(e)',
                 at[o] \in Lived => at'[o] \in Lived,
                 \A p \in Orders \ {o} : at'[p] = at[p] /\ stop'[p] = stop[p]
          PROVE  calls' \in SUBSET Call /\ CallsTrue'
      <3> DEFINE d == [c EXCEPT !.stage = "answered", !.answer = <<e>>]
      <3>1. calls' = (calls \ {c}) \cup {d} BY <2>4 DEF Answers
      <3>2. \A d1 \in calls : CallTrue(d1)' BY <1>0, <2>2, <2>4, BrokerMoves
      <3>3. /\ d \in Call /\ d.answer = <<e>> /\ d.from = c.from /\ d.of = c.of
            /\ d.what = c.what /\ d.level = c.level
        <4>1. <<e>> \in Seq(Event) OBVIOUS
        <4> QED BY <1>0, <4>1 DEF Call
      <3> HIDE DEF d
      <3>4. CallTrue(d)' BY <2>4, <3>2, <3>3 DEF CallTrue
      <3> QED BY <1>0, <3>1, <3>2, <3>3, <3>4 DEF CallsTrue
    <2>5. ASSUME at[o] \in Lived => at'[o] \in Lived,
                 \A p \in Orders \ {o} : at'[p] = at[p] /\ stop'[p] = stop[p],
                 at' \in [Orders -> Places], stop' \in [Orders -> Stops],
                 made' \in [Orders -> Int],
                 NEW e \in Event, Answers(c, e), MessageTrue(e)',
                 \/ UNCHANGED events
                 \/ \E m \in Event : MessageTrue(m)' /\ Emit(m)
          PROVE  Inv'
      <3>1. calls' \in SUBSET Call /\ CallsTrue' BY <2>4, <2>5
      <3>2. \A m \in Event : MessageTrue(m) => MessageTrue(m)'
        BY <1>0, <2>2, <2>5, OlderStaysTrue
      <3>3. events' \in Seq(Event) /\ EventsTrue'
        <4>1. CASE UNCHANGED events BY <1>0, <2>2, <2>5, <4>1, BrokerMoves
        <4>2. CASE \E m \in Event : MessageTrue(m)' /\ Emit(m)
          BY <1>0, <3>2, <4>2, Emitting DEF Inv
        <4> QED BY <2>5, <4>1, <4>2
      <3> QED BY <1>0, <2>1, <2>3, <2>5, <3>1, <3>3, BrokerStep
    <2>6. CASE c.what = "place"
      <3> DEFINE says == Message("accepted", o, "working", "none", 0)
      <3>1. /\ at' = [at EXCEPT ![o] = "working"] /\ stop' = stop /\ made' = made
            /\ UNCHANGED events /\ Answers(c, says) /\ at[o] = "new"
        BY <1>2, <2>1, <2>6 DEF CarryOut, Carries
      <3>2. at' \in [Orders -> Places] /\ at[o] \notin Lived /\ at'[o] \notin Lived
        BY <1>0, <3>1 DEF Lived, Places
      <3>3. PICK e \in Event : e = says
        <4>1. stop' \in [Orders -> Stops] /\ o \in Orders BY <1>0, <3>1
        <4>2. 0 \in Int OBVIOUS
        <4>3. says \in Event BY <2>2, <4>1, <4>2, MessageType, Zenon
        <4> QED BY <4>3
      <3>4. MessageTrue(e)' BY <1>0, <2>2, <3>2, <3>3 DEF Message, MessageTrue
      <3> QED BY <1>0, <2>5, <3>1, <3>2, <3>3, <3>4
    <2>7. CASE c.what = "cancel"
      <3> DEFINE says == Message("cancelled", o, "done", "none", 0)
      <3>1. /\ at' = [at EXCEPT ![o] = "gone"] /\ stop' = stop /\ made' = made
            /\ UNCHANGED events /\ Answers(c, says) /\ at[o] = "working"
        BY <1>2, <2>1, <2>7 DEF CarryOut, Carries
      <3>2. at' \in [Orders -> Places] /\ at[o] \notin Lived /\ at'[o] \notin Lived
        BY <1>0, <3>1 DEF Lived, Places
      <3>3. PICK e \in Event : e = says
        <4>1. stop' \in [Orders -> Stops] /\ o \in Orders BY <1>0, <3>1
        <4>2. 0 \in Int OBVIOUS
        <4>3. says \in Event BY <2>2, <4>1, <4>2, MessageType, Zenon
        <4> QED BY <4>3
      <3>4. MessageTrue(e)' BY <1>0, <2>2, <3>2, <3>3 DEF Message, MessageTrue
      <3> QED BY <1>0, <2>5, <3>1, <3>2, <3>3, <3>4
    <2>8. CASE c.what = "amend"
      <3> DEFINE says == Message("replaced", o, "none", "open", 0)
      <3>1. /\ stop' = [stop EXCEPT ![o] = c.level] /\ at' = at /\ made' = made
            /\ UNCHANGED events /\ Answers(c, says) /\ at[o] = "open"
        BY <1>2, <2>1, <2>8 DEF CarryOut, Carries
      <3>2. /\ stop' \in [Orders -> Stops] /\ at'[o] \in Lived
            /\ \A p \in Orders \ {o} : stop'[p] = stop[p]
        BY <1>0, <3>1 DEF Lived
      <3>3. PICK e \in Event : e = says
        <4>1. stop' \in [Orders -> Stops] /\ o \in Orders BY <1>0, <3>2
        <4>2. 0 \in Int OBVIOUS
        <4>3. says \in Event BY <2>2, <4>1, <4>2, MessageType, Zenon
        <4> QED BY <4>3
      <3>4. MessageTrue(e)' BY <1>0, <2>2, <3>2, <3>3 DEF Message, MessageTrue
      <3> QED BY <1>0, <2>5, <3>1, <3>2, <3>3, <3>4
    <2>9. CASE c.what = "close"
      <3>1. PICK profit \in Profits(o, 1) :
              /\ at' = [at EXCEPT ![o] = "closed"]
              /\ made' = [made EXCEPT ![o] = made[o] + profit] /\ UNCHANGED stop
              /\ LET closed == Message("filled", o, "none", "closed", profit) IN
                 \/ Answers(c, closed) /\ UNCHANGED events
                 \/ /\ Answers(c, [closed EXCEPT !.kind = "accepted", !.position = "none"])
                    /\ Emit(closed)
        BY <1>2, <2>1, <2>9 DEF CarryOut
      <3> DEFINE says == Message("filled", o, "none", "closed", profit)
      <3>2. profit \in Int BY ProfitsAreInts
      <3>3. at' \in [Orders -> Places] /\ at'[o] \in Lived BY <1>0, <3>1 DEF Lived, Places
      <3>4. made' \in [Orders -> Int] BY <1>0, <3>1, <3>2
      <3>5. PICK e \in Event : e = says BY <1>0, <2>2, <3>1, <3>2, MessageType
      <3>6. MessageTrue(e)' BY <1>0, <2>2, <3>3, <3>5 DEF Message, MessageTrue
      <3>7. CASE Answers(c, says) /\ UNCHANGED events
        BY <1>0, <2>5, <3>1, <3>3, <3>4, <3>5, <3>6, <3>7
      <3>8. CASE /\ Answers(c, [says EXCEPT !.kind = "accepted", !.position = "none"])
                 /\ Emit(says)
        <4>1. PICK a \in Event : a = [e EXCEPT !.kind = "accepted", !.position = "none"]
          BY DEF Event
        <4>2. /\ a.version = e.version /\ a.of = e.of /\ a.stop = e.stop
              /\ a.position = "none" /\ a.order = "none"
          BY <3>5, <4>1 DEF Event, Message
        <4>3. MessageTrue(a)' BY <3>6, <4>2 DEF MessageTrue
        <4> QED BY <1>0, <2>5, <3>1, <3>3, <3>4, <3>5, <3>6, <3>8, <4>1, <4>3
      <3> QED BY <3>1, <3>7, <3>8
    <2> QED BY <1>0, <2>6, <2>7, <2>8, <2>9
  <1> QED BY <1>1, <1>2

\* What a step that leaves the broker and the book as they are has to show.
LEMMA QuietStep ==
  ASSUME Inv, UNCHANGED <<at, stop, made, version>>,
         UNCHANGED <<positions, orders, newest, mixed, dropped>>,
         TypeOK', calls' \in SUBSET Call, \A c \in calls' : CallTrue(c),
         \A i \in DOMAIN events' : \E j \in DOMAIN events : events'[i] = events[j],
         \/ reading' = reading
         \/ reading'.missed = {} /\ DOMAIN reading'.open = {} /\ \A o \in Orders : reading'.versions[o] = 0
  PROVE  Inv'
  <1> USE DEF Inv
  <1>1. EventsTrue'
    <2>1. ASSUME NEW i \in DOMAIN events' PROVE MessageTrue(events'[i])
      BY DEF EventsTrue
    <2>2. \A m : MessageTrue(m) => MessageTrue(m)' BY DEF MessageTrue
    <2>3. ASSUME NEW i \in DOMAIN events', NEW m, m = events'[i] PROVE MessageTrue(m)'
      BY <2>1, <2>2, <2>3
    <2> QED BY <2>3 DEF EventsTrue
  <1>2. CallsTrue' BY DEF CallsTrue, CallTrue, MessageTrue
  <1>3. BookTrue' /\ LivedCounts' BY DEF BookTrue, Known, LivedCounts
  <1>4. ReadingTrue'
    <2>1. CASE reading' = reading BY <2>1 DEF ReadingTrue, Known
    <2>2. CASE reading'.missed = {} /\ DOMAIN reading'.open = {}
               /\ \A o \in Orders : reading'.versions[o] = 0
      <3>1. \A o \in Orders : reading'.versions[o] <= version'[o] BY <2>2 DEF TypeOK
      <3> QED BY <2>2, <3>1 DEF ReadingTrue, Known
    <2> QED BY <2>1, <2>2
  <1> QED BY <1>1, <1>2, <1>3, <1>4

\* A reading that starts again, or that failed, has nothing of the account yet.
LEMMA FreshReading ==
  ASSUME NEW stage \in {"none", "asked", "failed"}, reading' = Reading(stage)
  PROVE  /\ reading' \in Readings /\ reading'.missed = {} /\ DOMAIN reading'.open = {}
         /\ \A o \in Orders : reading'.versions[o] = 0
  BY ReadingType

LEMMA OnReadyFresh ==
  ASSUME TypeOK, OnReady
  PROVE  /\ reading' \in Readings /\ reading'.missed = {} /\ DOMAIN reading'.open = {}
         /\ \A o \in Orders : reading'.versions[o] = 0
         /\ status' \in {"Loading", "Ready", "Failed"}
  <1>1. \E stage \in {"none", "asked", "failed"} : reading' = Reading(stage) BY DEF OnReady
  <1>2. status' \in {"Loading", "Ready", "Failed"} BY DEF OnReady, TypeOK
  <1> QED BY <1>1, <1>2, FreshReading

\* A call that fails or is let go is as true as it was.
LEMMA LetGo ==
  ASSUME NEW c \in Call, CallTrue(c)
  PROVE  /\ [c EXCEPT !.held = FALSE] \in Call /\ CallTrue([c EXCEPT !.held = FALSE])
         /\ [c EXCEPT !.stage = "failed", !.answer = <<>>] \in Call
         /\ CallTrue([c EXCEPT !.stage = "failed", !.answer = <<>>])
  <1>1. <<>> \in Seq(Event) OBVIOUS
  <1>2. [c EXCEPT !.held = FALSE] \in Call /\ CallTrue([c EXCEPT !.held = FALSE])
    BY DEF Call, CallTrue
  <1>3. [c EXCEPT !.stage = "failed", !.answer = <<>>] \in Call BY <1>1 DEF Call
  <1>4. CallTrue([c EXCEPT !.stage = "failed", !.answer = <<>>]) BY <1>1 DEF Call, CallTrue
  <1> QED BY <1>2, <1>3, <1>4

LEMMA ConnectionInv ==
  ASSUME Inv,
         \/ Lose \/ Connect \/ BreakOff \/ FailReading
         \/ \E c \in calls : Fail(c) \/ GiveUp(c)
  PROVE  Inv'
  <1>0. /\ TypeOK /\ calls \in SUBSET Call /\ \A c \in calls : CallTrue(c)
    BY DEF Inv, TypeOK, CallsTrue
  <1> USE DEF brokerVars, accountVars, ghostVars
  <1>1. CASE Lose
    <2> DEFINE over(c) == [c EXCEPT !.stage = "failed", !.answer = <<>>]
    <2>1. /\ calls' = {over(c) : c \in calls} /\ events' = <<>> /\ connected' = FALSE
          /\ reading' = IF reading.stage \in {"asked", "listed"} THEN Reading("failed") ELSE reading
          /\ UNCHANGED <<brokerVars, accountVars, ghostVars>> /\ troubles' \in 0 .. MaxTroubles
      BY <1>0, <1>1, TroubleType DEF Lose
    <2>2. calls' \in SUBSET Call /\ \A c \in calls' : CallTrue(c)
      BY <1>0, <2>1, LetGo
    <2>3. reading' = reading \/ reading' = Reading("failed") BY <2>1
    <2>4. /\ reading' \in Readings
          /\ \/ reading' = reading
             \/ /\ reading'.missed = {} /\ DOMAIN reading'.open = {}
                /\ \A o \in Orders : reading'.versions[o] = 0
      <3>1. CASE reading' = reading BY <1>0, <3>1 DEF TypeOK
      <3>2. CASE reading' = Reading("failed") BY <3>2, FreshReading
      <3> QED BY <2>3, <3>1, <3>2
    <2>5. events' \in Seq(Event) /\ connected' \in BOOLEAN
      <3>1. <<>> \in Seq(Event) OBVIOUS
      <3> QED BY <2>1, <3>1
    <2> HIDE DEF over
    <2>6. TypeOK' BY <1>0, <2>1, <2>2, <2>4, <2>5 DEF TypeOK
    <2>7. \A i \in DOMAIN events' : \E j \in DOMAIN events : events'[i] = events[j] BY <2>1
    <2> QED BY <2>1, <2>2, <2>4, <2>6, <2>7, QuietStep
  <1>2. CASE Connect
    <2>1. /\ OnReady /\ connected' = TRUE /\ UNCHANGED <<events, calls, positions, orders, queue>>
          /\ UNCHANGED <<brokerVars, ghostVars, trader, uncertain, troubles>>
      BY <1>2 DEF Connect
    <2>2. TypeOK' BY <1>0, <2>1, OnReadyFresh DEF TypeOK
    <2> QED BY <1>0, <2>1, <2>2, OnReadyFresh, QuietStep
  <1>3. CASE BreakOff
    <2>1. /\ reading' = Reading("failed") /\ troubles' \in 0 .. MaxTroubles
          /\ UNCHANGED <<brokerVars, connected, events, calls, accountVars, ghostVars>>
      BY <1>0, <1>3, TroubleType DEF BreakOff
    <2>2. TypeOK' BY <1>0, <2>1, FreshReading DEF TypeOK
    <2> QED BY <1>0, <2>1, <2>2, FreshReading, QuietStep
  <1>4. CASE FailReading
    <2>1. /\ reading' = Reading("none") /\ status' = "Failed"
          /\ UNCHANGED <<brokerVars, connected, events, calls, positions, orders, queue, trader,
                         uncertain, troubles, ghostVars>>
      BY <1>4 DEF FailReading
    <2>2. TypeOK' BY <1>0, <2>1, FreshReading DEF TypeOK
    <2> QED BY <1>0, <2>1, <2>2, FreshReading, QuietStep
  <1>5. CASE \E c \in calls : Fail(c)
    <2> PICK c \in calls : Fail(c) BY <1>5
    <2>1. /\ calls' = calls \ {c} /\ OnReady /\ queue' \in {<<>>, queue}
          /\ UNCHANGED <<brokerVars, connected, events, positions, orders, trader, troubles, ghostVars>>
      BY DEF Fail
    <2>2. uncertain' \in BOOLEAN BY <1>0 DEF Fail, TypeOK
    <2>3. queue' \in Seq(Orders)
      <3>1. <<>> \in Seq(Orders) /\ queue \in Seq(Orders) BY <1>0 DEF TypeOK
      <3> QED BY <2>1, <3>1
    <2>4. calls' \in SUBSET Call /\ \A d \in calls' : CallTrue(d) BY <1>0, <2>1
    <2>5. TypeOK' BY <1>0, <2>1, <2>2, <2>3, <2>4, OnReadyFresh DEF TypeOK
    <2> QED BY <1>0, <2>1, <2>4, <2>5, OnReadyFresh, QuietStep
  <1>6. CASE \E c \in calls : GiveUp(c)
    <2> PICK c \in calls : GiveUp(c) BY <1>6
    <2>1. /\ calls' = (calls \ {c}) \cup {[c EXCEPT !.held = FALSE]} /\ OnReady /\ queue' = <<>>
          /\ uncertain' = TRUE
          /\ UNCHANGED <<brokerVars, connected, events, positions, orders, trader, ghostVars>>
      BY DEF GiveUp
    <2>2. troubles' \in 0 .. MaxTroubles BY <1>0, TroubleType DEF GiveUp
    <2>3. uncertain' \in BOOLEAN /\ queue' \in Seq(Orders) BY <2>1
    <2>4. calls' \in SUBSET Call /\ \A d \in calls' : CallTrue(d) BY <1>0, <2>1, LetGo
    <2>5. TypeOK' BY <1>0, <2>1, <2>2, <2>3, <2>4, OnReadyFresh DEF TypeOK
    <2> QED BY <1>0, <2>1, <2>4, <2>5, OnReadyFresh, QuietStep
  <1> QED BY <1>1, <1>2, <1>3, <1>4, <1>5, <1>6

LEMMA UserInv == Inv /\ User => Inv'
  <1> SUFFICES ASSUME Inv, User PROVE Inv'
    OBVIOUS
  <1>0. /\ TypeOK /\ calls \in SUBSET Call /\ \A c \in calls : CallTrue(c)
        /\ queue \in Seq(Orders) /\ DOMAIN positions \subseteq Orders /\ orders \subseteq Orders
    BY DEF Inv, TypeOK, CallsTrue, Open
  <1>1. ASSUME NEW a \in Asks, a.what = "amend" => a.level # Entry, Asking({a}),
               queue' \in Seq(Orders), Trouble
        PROVE  Inv'
    <2>1. /\ calls' = Started({a}, calls)
          /\ UNCHANGED ghostVars
          /\ UNCHANGED <<brokerVars, connected, events, reading, positions, orders, status, trader,
                         uncertain>>
      BY <1>1 DEF Asking
    <2>2. /\ newest' \in [Orders -> Nat] /\ version' \in [Orders -> Nat]
          /\ \A o \in Orders : newest'[o] <= version'[o]
      BY <2>1 DEF Inv, TypeOK, BookTrue, Known, ghostVars, brokerVars
    <2>3. \A c : CallTrue(c)' <=> CallTrue(c) BY <2>1 DEF CallTrue, MessageTrue, brokerVars
    <2>4. calls' \in SUBSET Call /\ \A c \in calls' : CallTrue(c)
      <3>1. /\ {a} \in SUBSET Asks
            /\ \A w \in {a} : w.what = "amend" /\ w.level = Entry =>
                 \/ w.of \in mixed' /\ version'[w.of] >= 1
                 \/ newest'[w.of] = version'[w.of] => stop'[w.of] < Entry
        BY <1>1
      <3>2. \A c \in calls : CallTrue(c)' BY <1>0, <2>3
      <3>3. /\ Started({a}, calls) \in SUBSET Call
            /\ \A c \in Started({a}, calls) : CallTrue(c)'
        BY <1>0, <2>2, <3>1, <3>2, StartedCalls
      <3> QED BY <2>1, <2>3, <3>3
    <2>5. troubles' \in 0 .. MaxTroubles BY <1>0, <1>1, TroubleType
    <2>6. TypeOK' BY <1>0, <1>1, <2>1, <2>4, <2>5 DEF TypeOK, brokerVars, ghostVars
    <2> QED BY <2>1, <2>4, <2>6, QuietStep DEF brokerVars, ghostVars
  <1>2. CASE SendPlan
    <2>1. Plan # <<>> /\ Plan \in Seq(Orders) BY <1>2, ConstantsAssumption DEF SendPlan
    <2>2. Head(Plan) \in Orders /\ Tail(Plan) \in Seq(Orders) BY <2>1
    <2>3. Ask("place", Head(Plan), 0) \in Asks /\ Ask("place", Head(Plan), 0).what = "place"
      BY <2>2, AskTypes
    <2> QED BY <1>1, <1>2, <2>2, <2>3 DEF SendPlan
  <1>3. ASSUME NEW o \in Orders, CloseIt(o) \/ CancelIt(o) \/ TimeStop(o) PROVE Inv'
    <2>1. Ask("close", o, 0) \in Asks /\ Ask("close", o, 0).what = "close" BY AskTypes
    <2>2. Ask("cancel", o, 0) \in Asks /\ Ask("cancel", o, 0).what = "cancel" BY AskTypes
    <2>3. CASE CloseIt(o) \/ TimeStop(o) BY <1>0, <1>1, <2>1, <2>3 DEF CloseIt, TimeStop
    <2>4. CASE CancelIt(o) BY <1>0, <1>1, <2>2, <2>4 DEF CancelIt
    <2> QED BY <1>3, <2>3, <2>4
  <1>4. ASSUME NEW o \in Orders, NEW level \in Stops \ {Entry}, MoveStop(o, level) PROVE Inv'
    <2>1. Ask("amend", o, level) \in Asks /\ Ask("amend", o, level).level = level BY AskTypes
    <2> QED BY <1>0, <1>1, <1>4, <2>1 DEF MoveStop
  <1> QED BY <1>2, <1>3, <1>4 DEF User

\* A message of the past reaches the book: the answer of a call, or an event of the stream.
LEMMA MessageStep ==
  ASSUME Inv, UNCHANGED <<brokerVars, connected, reading, status, trader, uncertain,
                          troubles, unread>>,
         NEW e \in Event, MessageTrue(e),
         NEW more \in SUBSET Asks, \A w \in more : w.what # "amend",
         NEW now \in SUBSET calls, OnExecution(e, more, now),
         queue' \in Seq(Orders), events' \in Seq(Event),
         \A i \in DOMAIN events' : \E j \in DOMAIN events : events'[i] = events[j]
  PROVE  Inv'
  <1> USE DEF Inv
  <1>1. /\ positions' \in Open /\ orders' \subseteq Orders
        /\ newest' \in [Orders -> Nat] /\ mixed' \subseteq Orders /\ dropped' \subseteq Orders
        /\ calls' \in SUBSET Call /\ CallsTrue' /\ BookTrue'
    BY Executing DEF brokerVars
  <1>2. TypeOK' BY <1>1 DEF TypeOK, brokerVars
  <1>3. ReadingTrue' /\ LivedCounts' BY DEF ReadingTrue, Known, LivedCounts, brokerVars
  <1>4. EventsTrue'
    <2>1. \A i \in DOMAIN events' : MessageTrue(events'[i]) BY DEF EventsTrue
    <2>2. \A m : MessageTrue(m) => MessageTrue(m)' BY DEF MessageTrue, brokerVars
    <2>3. ASSUME NEW i \in DOMAIN events', NEW m, m = events'[i] PROVE MessageTrue(m)'
      BY <2>1, <2>2, <2>3
    <2> QED BY <2>3 DEF EventsTrue
  <1> QED BY <1>1, <1>2, <1>3, <1>4

LEMMA MessagesInv == Inv /\ (OnEvent \/ \E c \in calls : Answer(c)) => Inv'
  <1> SUFFICES ASSUME Inv, OnEvent \/ \E c \in calls : Answer(c) PROVE Inv'
    OBVIOUS
  <1>0. /\ events \in Seq(Event) /\ calls \in SUBSET Call /\ queue \in Seq(Orders)
    BY DEF Inv, TypeOK
  <1>1. CASE OnEvent
    <2>1. /\ events # <<>> /\ events' = Tail(events)
          /\ UNCHANGED <<brokerVars, connected, reading, status, trader, uncertain,
                         troubles, unread>>
          /\ queue' = queue
      BY <1>1 DEF OnEvent
    <2>2. /\ 1 \in DOMAIN events /\ events[1] \in Event /\ Head(events) = events[1]
          /\ events' \in Seq(Event)
          /\ \A i \in DOMAIN events' : i + 1 \in DOMAIN events /\ events'[i] = events[i + 1]
      BY <1>0, <2>1
    <2>3. PICK e \in Event : e = events[1] BY <2>2
    <2>4. MessageTrue(e) BY <2>2, <2>3 DEF Inv, EventsTrue
    <2>5. OnExecution(e, {}, calls) BY <1>1, <2>2, <2>3 DEF OnEvent
    <2>6. \A i \in DOMAIN events' : \E j \in DOMAIN events : events'[i] = events[j] BY <2>2
    <2>7. {} \in SUBSET Asks /\ \A w \in {} : w.what # "amend" OBVIOUS
    <2>8. queue' \in Seq(Orders) /\ calls \in SUBSET calls BY <1>0, <2>1
    <2> QED BY <2>1, <2>2, <2>4, <2>5, <2>6, <2>7, <2>8, MessageStep
  <1>2. ASSUME NEW c \in calls, Answer(c) PROVE Inv'
    <2>1. /\ c.stage = "answered"
          /\ UNCHANGED <<brokerVars, connected, events, reading, status, trader, uncertain,
                         troubles, unread>>
      BY <1>2 DEF Answer
    <2>2. c.answer \in Seq(Event) /\ c.answer # <<>> /\ CallTrue(c)
      BY <1>0, <2>1 DEF Inv, CallsTrue, CallTrue, Call
    <2>3. 1 \in DOMAIN c.answer /\ c.answer[1] \in Event /\ Head(c.answer) = c.answer[1]
      BY <2>2
    <2>4. PICK e \in Event : e = c.answer[1] BY <2>3
    <2>5. MessageTrue(e) BY <2>2, <2>3, <2>4 DEF CallTrue
    <2>6. PICK sends : sends = (c.what = "place" /\ queue # <<>>
                                /\ ~\E d \in calls \ {c} : d.held /\ d.what = "place")
      OBVIOUS
    <2> DEFINE next == IF sends THEN {Ask("place", Head(queue), 0)} ELSE {}
    <2>7. OnExecution(e, next, calls \ {c}) /\ queue' = IF sends THEN Tail(queue) ELSE queue
      BY <1>2, <2>3, <2>4, <2>6 DEF Answer
    <2>8. queue # <<>> => Head(queue) \in Orders /\ Tail(queue) \in Seq(Orders) BY <1>0
    <2>9. next \in SUBSET Asks /\ \A w \in next : w.what # "amend"
      <3>1. CASE sends
        <4>1. Head(queue) \in Orders BY <2>6, <2>8, <3>1
        <4>2. Ask("place", Head(queue), 0) \in Asks /\ Ask("place", Head(queue), 0).what = "place"
          BY <4>1, AskTypes
        <4>3. next = {Ask("place", Head(queue), 0)} BY <3>1
        <4> HIDE DEF next
        <4> QED BY <4>2, <4>3
      <3>2. CASE ~sends BY <3>2
      <3> QED BY <3>1, <3>2
    <2>10. queue' \in Seq(Orders)
      <3>1. CASE sends BY <2>6, <2>7, <2>8, <3>1
      <3>2. CASE ~sends BY <1>0, <2>7, <3>2
      <3> QED BY <3>1, <3>2
    <2>11. /\ events' \in Seq(Event) /\ calls \ {c} \in SUBSET calls
           /\ \A i \in DOMAIN events' : \E j \in DOMAIN events : events'[i] = events[j]
      BY <1>0, <2>1
    <2> HIDE DEF next
    <2> QED BY <2>1, <2>5, <2>7, <2>9, <2>10, <2>11, MessageStep
  <1> QED BY <1>1, <1>2

LEMMA ReadInv == Inv /\ (ReadOpen \/ ReadPast \/ Reconcile) => Inv'
  <1> SUFFICES ASSUME Inv, ReadOpen \/ ReadPast \/ Reconcile PROVE Inv'
    OBVIOUS
  <1>0. /\ TypeOK /\ reading \in Readings /\ reading.open \in Open
        /\ reading.working \subseteq Orders /\ reading.missed \subseteq Asks
        /\ reading.versions \in [Orders -> Nat] /\ version \in [Orders -> Nat]
        /\ at \in [Orders -> Places] /\ stop \in [Orders -> Stops] /\ made \in [Orders -> Int]
        /\ reading.unread \in BOOLEAN /\ newest \in [Orders -> Nat]
        /\ calls \in SUBSET Call
    BY DEF Inv, TypeOK, Readings
  <1>1. CASE ReadOpen
    <2> DEFINE there == [o \in {p \in Orders : at[p] = "open"} |-> stop[o]]
               waits == {o \in Orders : at[o] = "working"}
    <2>1. /\ reading' = [reading EXCEPT !.stage = "listed", !.versions = version,
                           !.open = there, !.working = waits]
          /\ reading.stage = "asked"
          /\ UNCHANGED <<brokerVars, connected, events, calls, accountVars, troubles, ghostVars>>
      BY <1>1 DEF ReadOpen
    <2>2. there \in Open /\ waits \subseteq Orders
      <3>1. there \in [{p \in Orders : at[p] = "open"} -> Stops] BY <1>0
      <3> QED BY <3>1 DEF Open
    <2>3. DOMAIN there = {p \in Orders : at[p] = "open"} /\ \A o \in DOMAIN there : there[o] = stop[o]
      OBVIOUS
    <2> HIDE DEF there, waits
    <2>4. /\ reading'.stage = "listed" /\ reading'.versions = version /\ reading'.open = there
          /\ reading'.missed = reading.missed /\ reading' \in Readings
      BY <1>0, <2>1, <2>2 DEF Readings
    <2>5. reading'.missed = {} BY <2>1, <2>4 DEF Inv, ReadingTrue
    <2>6. TypeOK' BY <1>0, <2>1, <2>4 DEF TypeOK, brokerVars, accountVars, ghostVars
    <2>7. (EventsTrue /\ CallsTrue /\ BookTrue /\ LivedCounts)'
      BY <2>1 DEF Inv, EventsTrue, CallsTrue, CallTrue, BookTrue, LivedCounts, Known, MessageTrue,
                  brokerVars, accountVars, ghostVars
    <2>8. ReadingTrue'
      <3>1. version' = version /\ at' = at /\ stop' = stop BY <2>1 DEF brokerVars
      <3>2. \A o \in Orders : o \in DOMAIN there => at[o] \in Lived BY <2>3 DEF Lived
      <3>3. \A o \in Orders : version[o] <= version[o] BY <1>0
      <3> QED BY <2>3, <2>4, <2>5, <3>1, <3>2, <3>3 DEF ReadingTrue, Known
    <2> QED BY <2>6, <2>7, <2>8 DEF Inv
  <1>2. CASE ReadPast
    <2> DEFINE past == {o \in Orders : at[o] \in {"open", "closed"}}
               none == [o \in Orders |-> 0]
               found(profits) == CatchUp(past, profits, reading.open, reading.working)
    <2>0. past \in SUBSET Orders /\ none \in [Orders -> Int] OBVIOUS
    <2>1. PICK missed \in {found(made), {}, found(none)} :
            /\ \/ reading' = [reading EXCEPT !.stage = "whole", !.missed = missed]
               \/ reading' = [reading EXCEPT !.stage = "whole", !.missed = missed, !.unread = TRUE]
            /\ UNCHANGED <<brokerVars, connected, events, calls, accountVars, ghostVars>>
      BY <1>2 DEF ReadPast
    <2>2. troubles' \in 0 .. MaxTroubles BY <1>0, <1>2, TroubleType DEF ReadPast
    <2>3. missed \in SUBSET Asks /\ \A w \in missed : Tightens(w, reading.open)
      <3> HIDE DEF past, none
      <3>1. CASE missed = {} BY <3>1
      <3>2. CASE missed = found(made) BY <1>0, <2>0, <3>2, CatchUpAsks
      <3>3. CASE missed = found(none) BY <1>0, <2>0, <3>3, CatchUpAsks
      <3> QED BY <3>1, <3>2, <3>3
    <2> HIDE DEF found
    <2>4. /\ reading'.stage = "whole" /\ reading'.versions = reading.versions
          /\ reading'.open = reading.open /\ reading' \in Readings /\ reading'.missed = missed
      BY <1>0, <2>1, <2>3 DEF Readings
    <2>5. TypeOK' BY <1>0, <2>1, <2>2, <2>4 DEF TypeOK, brokerVars, accountVars, ghostVars
    <2>6. (EventsTrue /\ CallsTrue /\ BookTrue /\ LivedCounts)'
      BY <2>1 DEF Inv, EventsTrue, CallsTrue, CallTrue, BookTrue, LivedCounts, Known, MessageTrue,
                  brokerVars, accountVars, ghostVars
    <2>7. ReadingTrue'
      <3>1. version' = version /\ at' = at /\ stop' = stop BY <2>1 DEF brokerVars
      <3>2. \A w \in reading'.missed : Tightens(w, reading.open)
        BY <2>3, <2>4
      <3> QED BY <2>4, <3>1, <3>2 DEF Inv, ReadingTrue, Known, Tightens
    <2> QED BY <2>5, <2>6, <2>7 DEF Inv
  <1>3. CASE Reconcile
    <2>1. /\ reading' = Reading("none")
          /\ positions' = reading.open /\ orders' = reading.working
          /\ status' = "Ready" /\ trader' = TRUE /\ uncertain' = FALSE
          /\ newest' = [o \in Orders |-> Newer(newest[o], reading.versions[o])]
          /\ unread' = reading.unread
          /\ mixed' = {o \in Orders : reading.versions[o] < newest[o]}
          /\ calls' = Started(Missed, calls)
          /\ dropped' = dropped \cup {w.of : w \in {a \in Missed : IsTaken(a, calls)}}
          /\ UNCHANGED <<brokerVars, connected, events, queue, troubles>>
      BY <1>3 DEF Reconcile
    <2>2. version' = version /\ at' = at /\ stop' = stop BY <2>1 DEF brokerVars
    <2>3. ASSUME NEW o \in Orders
          PROVE  /\ newest'[o] \in Nat /\ newest'[o] <= version'[o]
                 /\ o \in DOMAIN positions' => at'[o] \in Lived /\ version'[o] >= 1
                 /\ o \in DOMAIN positions' \ mixed' /\ newest'[o] = version'[o] =>
                      positions'[o] = stop'[o]
      <3>1. /\ newest'[o] = Newer(newest[o], reading.versions[o])
            /\ o \notin mixed' => ~(reading.versions[o] < newest[o])
        BY <2>1
      <3>2. /\ newest[o] \in Nat /\ reading.versions[o] \in Nat /\ version[o] \in Nat
            /\ newest[o] <= version[o] /\ reading.versions[o] <= version[o]
        BY <1>0 DEF Inv, BookTrue, ReadingTrue, Known
      <3>3. /\ o \in DOMAIN reading.open => at[o] \in Lived
            /\ o \in DOMAIN reading.open /\ reading.versions[o] = version[o] =>
                 reading.open[o] = stop[o]
            /\ at[o] \in Lived => version[o] >= 1
        BY DEF Inv, ReadingTrue, Known, LivedCounts
      <3>4. newest'[o] \in Nat /\ newest'[o] <= version'[o] BY <2>2, <3>1, <3>2 DEF Newer
      <3>5. o \notin mixed' /\ newest'[o] = version'[o] => reading.versions[o] = version[o]
        BY <2>2, <3>1, <3>2 DEF Newer
      <3> QED BY <2>1, <2>2, <3>3, <3>4, <3>5
    <2>4. BookTrue' BY <2>3 DEF BookTrue, Known
    <2>5. newest' \in [Orders -> Nat] /\ mixed' \subseteq Orders BY <2>1, <2>3
    <2>6. Missed \in SUBSET Asks /\ \A w \in Missed : Tightens(w, reading.open)
      BY <1>0 DEF Inv, Missed, ReadingTrue, Tightens
    <2>7. dropped' \subseteq Orders BY <1>0, <2>1, <2>6 DEF TypeOK, Asks
    <2>8. calls' \in SUBSET Call /\ CallsTrue'
      <3>1. ASSUME NEW w \in Missed, w.what = "amend"
            PROVE  \/ w.of \in mixed' /\ version'[w.of] >= 1
                   \/ newest'[w.of] = version'[w.of] => stop'[w.of] < Entry
        <4>1. w.of \in Orders /\ w.of \in DOMAIN positions' /\ positions'[w.of] < Entry
          BY <2>1, <2>6, <3>1 DEF Tightens, Asks
        <4> QED BY <2>3, <4>1
      <3>2. \A c \in calls : CallTrue(c)'
        BY <2>2 DEF Inv, CallsTrue, CallTrue, MessageTrue
      <3>3. version' \in [Orders -> Nat] /\ \A o \in Orders : newest'[o] <= version'[o]
        BY <1>0, <2>2, <2>3
      <3>4. /\ Started(Missed, calls) \in SUBSET Call
            /\ \A c \in Started(Missed, calls) : CallTrue(c)'
        BY <1>0, <2>5, <2>6, <3>1, <3>2, <3>3, StartedCalls
      <3> QED BY <2>1, <3>4 DEF CallsTrue
    <2>9. /\ reading' \in Readings /\ reading'.missed = {} /\ DOMAIN reading'.open = {}
          /\ \A o \in Orders : reading'.versions[o] = 0
      BY <2>1, FreshReading
    <2>10. TypeOK' BY <1>0, <2>1, <2>5, <2>7, <2>8, <2>9 DEF TypeOK, brokerVars
    <2>11. (EventsTrue /\ LivedCounts)'
      BY <2>1 DEF Inv, EventsTrue, LivedCounts, MessageTrue, brokerVars
    <2>12. ReadingTrue'
      <3>1. \A o \in Orders : 0 <= version'[o] BY <1>0, <2>2
      <3> QED BY <2>9, <3>1 DEF ReadingTrue, Known
    <2> QED BY <2>4, <2>8, <2>10, <2>11, <2>12 DEF Inv
  <1> QED BY <1>1, <1>2, <1>3

LEMMA StepInv == Inv /\ [Next]_vars => Inv'
  <1> SUFFICES ASSUME Inv, [Next]_vars PROVE Inv'
    OBVIOUS
  <1>1. CASE UNCHANGED vars
    <2>1. UNCHANGED <<brokerVars, wireVars, accountVars, troubles, ghostVars>> BY <1>1 DEF vars
    <2> USE DEF brokerVars, wireVars, accountVars, ghostVars
    <2>2. TypeOK' BY <2>1 DEF Inv, TypeOK
    <2>3. (EventsTrue /\ CallsTrue)'
      BY <2>1 DEF Inv, EventsTrue, CallsTrue, CallTrue, MessageTrue
    <2>4. (BookTrue /\ ReadingTrue /\ LivedCounts)'
      BY <2>1 DEF Inv, BookTrue, ReadingTrue, Known, LivedCounts
    <2> QED BY <2>2, <2>3, <2>4 DEF Inv
  <1>2. CASE Next
    BY <1>2, MarketInv, UserInv, BrokerInv, MessagesInv, ReadInv, ConnectionInv
    DEF Next, Calls, Read
  <1> QED BY <1>1, <1>2

-----------------------------------------------------------------------------
(* Every variable keeps to what the account, the broker and the way between  *)
(* can hold (AccountBook, Account of the app and the messages of the broker).*)
THEOREM TypeCorrect == Spec => []TypeOK
  <1>1. Inv => TypeOK BY DEF Inv
  <1> QED BY <1>1, InitInv, StepInv, PTL DEF Spec

(* A stop that the app moves for a plan (plan.rs, break_even_moves and       *)
(* catch_up), asked when the book knew the broker's last word on the         *)
(* position, is never moved back, however many messages overtake others.     *)
THEOREM RuleTightens == Spec => RuleOnlyTightens
  <1>1. ASSUME Inv, [Next]_vars
        PROVE  [\A c \in calls :
                  (c.what = "amend" /\ c.level = Entry /\ c.from = version[c.of]
                   /\ c \notin calls') => stop'[c.of] >= stop[c.of]]_vars
    <2>1. Inv' BY <1>1, StepInv
    <2> SUFFICES ASSUME NEW c \in calls, c.what = "amend", c.level = Entry,
                        c.from = version[c.of]
                 PROVE  stop'[c.of] >= stop[c.of]
      OBVIOUS
    <2>2. c.of \in Orders BY <1>1 DEF Inv, TypeOK, Call
    <2>3. stop[c.of] \in Stops /\ stop'[c.of] \in Stops BY <1>1, <2>1, <2>2 DEF Inv, TypeOK
    <2>4. stop[c.of] < Entry BY <1>1 DEF Inv, CallsTrue, CallTrue
    <2> QED BY <2>3, <2>4 DEF Stops, Entry
  <1> QED BY <1>1, InitInv, StepInv, PTL DEF Spec, RuleOnlyTightens

-----------------------------------------------------------------------------
(* At rest the book is the broker's.  Of each order two things are followed, *)
(* its place among the working ones and its position: what the broker last   *)
(* did to either is in the book, or on its way to it, or in the reading that *)
(* will replace the book.                                                    *)

\* The messages on their way: the events, and the answers of the calls.
Way == {events[i] : i \in DOMAIN events}
       \cup {Head(c.answer) : c \in {d \in calls : d.answer # <<>>}}

\* What a message says of an order's place came to pass, and the newest is still so.
MessageHolds(m) ==
  /\ m.order = "working" => at[m.of] # "new"
  /\ m.order = "done" => at[m.of] \in {"open", "closed", "gone"}
  /\ m.position = "closed" => at[m.of] = "closed"
  /\ m.version = version[m.of] =>
       /\ m.order = "working" => at[m.of] = "working"
       /\ m.position \in {"open", "trailed"} => at[m.of] = "open"

\* Only an answered call has an answer, and no stop is trailed in answer to one.
CallHolds(c) == /\ c.stage # "answered" => c.answer = <<>>
                /\ c.answer # <<>> => Head(c.answer).position # "trailed"
WayHolds == (\A m \in Way : MessageHolds(m)) /\ (\A c \in calls : CallHolds(c))

\* The last word on the place of an order, and on its position.
TellsPlace(m, o) == m.of = o /\ m.order # "none"
IsStale(m) == m.order = "working" /\ at[m.of] # "working"
StaleAreOlder(o, v) == \A m \in Way : TellsPlace(m, o) /\ IsStale(m) => m.version < v
PlaceComes(o, after) == \E m \in Way :
  TellsPlace(m, o) /\ ~IsStale(m) /\ m.version > after /\ StaleAreOlder(o, m.version)
PlaceIn(o, working) == (o \in working) = (at[o] = "working")

PositionComes(o) == \E m \in Way : m.of = o /\ m.position # "none" /\ m.version = version[o]
PositionIn(o, open) == /\ (o \in DOMAIN open) = (at[o] = "open")
                       /\ o \in DOMAIN open => open[o] = stop[o]

\* A position is opened by an event ahead of those that trail its stop.
OpeningComes(o, after) == \E i \in DOMAIN events :
  /\ events[i].of = o /\ events[i].position = "open" /\ events[i].version > after
  /\ \A j \in DOMAIN events : events[j].of = o /\ events[j].position = "trailed" => i < j

\* What is heard of an order up to version v says what the broker holds, or newer
\* messages than `after' will.
Reaches(o, after, v, working, open) ==
  /\ PlaceComes(o, after) \/ (PlaceIn(o, working) /\ StaleAreOlder(o, v))
  /\ at[o] \in Lived => \/ version[o] > after /\ PositionComes(o)
                        \/ v = version[o] /\ PositionIn(o, open)
  /\ at[o] = "open" => o \in DOMAIN open \/ OpeningComes(o, after)

InStep(o) == o \in mixed \/ Reaches(o, -1, newest[o], orders, positions)
WillBeInStep(o) ==
  \/ newest[o] > reading.versions[o]
  \/ Reaches(o, reading.versions[o], reading.versions[o], reading.working, reading.open)

\* Once the account is read, until the connection is lost.
Followed == connected =>
  /\ reading.stage = "none" /\ status = "Ready" => \A o \in Orders : InStep(o)
  /\ reading.stage \in {"listed", "whole"} => \A o \in Orders : WillBeInStep(o)

Told == WayHolds /\ Followed

\* What is on its way is a message of the past.
LEMMA WayIsTrue ==
  ASSUME Inv
  PROVE  \A m \in Way : m \in Event /\ MessageTrue(m)
  <1>1. \A i \in DOMAIN events : events[i] \in Event /\ MessageTrue(events[i])
    BY DEF Inv, TypeOK, EventsTrue
  <1>2. ASSUME NEW c \in calls, c.answer # <<>>
        PROVE  Head(c.answer) \in Event /\ MessageTrue(Head(c.answer))
    <2>1. c.answer \in Seq(Event) /\ CallTrue(c) BY DEF Inv, TypeOK, CallsTrue, Call
    <2>2. 1 \in DOMAIN c.answer /\ Head(c.answer) = c.answer[1] BY <1>2, <2>1
    <2> QED BY <2>1, <2>2 DEF CallTrue
  <1> QED BY <1>1, <1>2 DEF Way

\* An event leaves the stream: an opening that comes still does, unless that was it.
LEMMA OpeningStays ==
  ASSUME Inv, NEW e,
         events' = events \/ (events # <<>> /\ events' = Tail(events) /\ e = events[1]),
         NEW o \in Orders, NEW after, OpeningComes(o, after),
         ~(e.of = o /\ e.version > after /\ e.position = "open")
  PROVE  OpeningComes(o, after)'
  <1>1. CASE events' = events BY <1>1 DEF OpeningComes
  <1>2. CASE events # <<>> /\ events' = Tail(events) /\ e = events[1]
    <2>1. PICK i \in DOMAIN events :
            /\ events[i].of = o /\ events[i].position = "open" /\ events[i].version > after
            /\ \A j \in DOMAIN events : events[j].of = o /\ events[j].position = "trailed" => i < j
      BY DEF OpeningComes
    <2>2. /\ Len(events) \in Nat /\ DOMAIN events = 1 .. Len(events)
          /\ DOMAIN events' = 1 .. (Len(events) - 1)
          /\ \A j \in DOMAIN events' : j + 1 \in DOMAIN events /\ events'[j] = events[j + 1]
      BY <1>2 DEF Inv, TypeOK
    <2>3. i # 1 BY <1>2, <2>1
    <2>4. i - 1 \in DOMAIN events' /\ events'[i - 1] = events[i] BY <2>2, <2>3
    <2>5. ASSUME NEW j \in DOMAIN events', events'[j].of = o, events'[j].position = "trailed"
          PROVE  i - 1 < j
      <3>1. i < j + 1 BY <2>1, <2>2, <2>5
      <3> QED BY <2>2, <3>1
    <2> QED BY <2>1, <2>4, <2>5 DEF OpeningComes
  <1> QED BY <1>1, <1>2

\* A message leaves the way: what is reached is still so, unless it was the one to come.
LEMMA OneLess ==
  ASSUME Inv, UNCHANGED brokerVars, NEW e, Way' \subseteq Way, Way \ {e} \subseteq Way',
         events' = events \/ (events # <<>> /\ events' = Tail(events) /\ e = events[1]),
         NEW o \in Orders, NEW after, NEW v, NEW working, NEW open,
         Reaches(o, after, v, working, open)
  PROVE  \/ Reaches(o, after, v, working, open)'
         \/ e.of = o /\ e.version > after /\ (e.order # "none" \/ e.position # "none")
  <1> SUFFICES ASSUME ~(e.of = o /\ e.version > after /\ (e.order # "none" \/ e.position # "none"))
               PROVE  Reaches(o, after, v, working, open)'
    OBVIOUS
  <1>1. at' = at /\ version' = version /\ stop' = stop BY DEF brokerVars
  <1>2. \A n : StaleAreOlder(o, n) => StaleAreOlder(o, n)'
    BY <1>1 DEF StaleAreOlder, TellsPlace, IsStale
  <1>3. PlaceComes(o, after) => PlaceComes(o, after)'
    BY <1>1, <1>2 DEF PlaceComes, TellsPlace, IsStale
  <1>4. PlaceIn(o, working) => PlaceIn(o, working)' BY <1>1 DEF PlaceIn
  <1>5. PositionIn(o, open) => PositionIn(o, open)' BY <1>1 DEF PositionIn
  <1>6. version[o] > after /\ PositionComes(o) => version'[o] > after /\ PositionComes(o)'
    BY <1>1 DEF PositionComes
  <1>7. OpeningComes(o, after) => OpeningComes(o, after)' BY OpeningStays
  <1>8. PlaceComes(o, after)' \/ (PlaceIn(o, working) /\ StaleAreOlder(o, v))'
    BY <1>2, <1>3, <1>4 DEF Reaches
  <1>9. at'[o] \in Lived => \/ (version[o] > after /\ PositionComes(o))'
                            \/ v = version'[o] /\ PositionIn(o, open)'
    BY <1>1, <1>5, <1>6 DEF Reaches
  <1>10. at'[o] = "open" => o \in DOMAIN open \/ OpeningComes(o, after)'
    BY <1>1, <1>7 DEF Reaches
  <1> QED BY <1>8, <1>9, <1>10 DEF Reaches

\* Nothing is lost of what is reached when a lower bound is asked of what comes.
LEMMA ReachesFrom ==
  ASSUME Inv, NEW o \in Orders, NEW after \in Int, NEW lower \in Int, lower <= after,
         NEW v, NEW working, NEW open, Reaches(o, after, v, working, open)
  PROVE  Reaches(o, lower, v, working, open)
  <1>1. \A m \in Way : m.version \in Nat BY WayIsTrue DEF Event
  <1>2. \A i \in DOMAIN events : events[i].version \in Nat
    <2>1. \A i \in DOMAIN events : events[i] \in Event BY DEF Inv, TypeOK
    <2> QED BY <2>1 DEF Event
  <1>3. version[o] \in Nat BY DEF Inv, TypeOK
  <1>4. PlaceComes(o, after) => PlaceComes(o, lower) BY <1>1 DEF PlaceComes
  <1>5. OpeningComes(o, after) => OpeningComes(o, lower) BY <1>2 DEF OpeningComes
  <1> QED BY <1>3, <1>4, <1>5 DEF Reaches

\* Where the broker takes an order, and what it says of its place and its position.
Goes(o, order, position) ==
  \/ at[o] = "new" /\ at'[o] = "working" /\ order = "working" /\ position = "none"
  \/ at[o] = "working" /\ at'[o] = "gone" /\ order = "done" /\ position = "none"
  \/ at[o] = "working" /\ at'[o] = "open" /\ order = "done" /\ position = "open"
  \/ at[o] = "open" /\ at'[o] = "open" /\ order = "none" /\ position \in {"open", "trailed"}
  \/ at[o] = "open" /\ at'[o] = "closed" /\ order = "none" /\ position = "closed"

\* The broker changes an order and says so: the news is what its book has to hear.
LEMMA NewsComes ==
  ASSUME Inv, Told, NEW o \in Orders, Changed(o), NEW m \in Event,
         m.of = o, m.version = version'[o], MessageHolds(m)',
         \A p \in Orders \ {o} : at'[p] = at[p] /\ stop'[p] = stop[p],
         UNCHANGED <<connected, reading, accountVars, newest, mixed>>,
         \A c \in calls' : CallHolds(c),
         connected => m \in Way' /\ Way \subseteq Way',
         \A x \in Way' \ Way : x = m \/ (x.of = o /\ x.order = "none" /\ x.position = "none"),
         events' = events \/ events' = Append(events, m),
         Goes(o, m.order, m.position),
         connected /\ m.position = "open" /\ m.order = "done" => events' = Append(events, m)
  PROVE  Told'
  <1>0. /\ version \in [Orders -> Nat] /\ newest \in [Orders -> Nat] /\ events \in Seq(Event)
        /\ Len(events) \in Nat /\ DOMAIN events = 1 .. Len(events)
    BY DEF Inv, TypeOK
  <1>1. /\ version'[o] = version[o] + 1 /\ version[o] \in Nat
        /\ \A p \in Orders \ {o} : version'[p] = version[p]
    BY <1>0 DEF Changed
  <1>2. \A x \in Way : x \in Event /\ MessageTrue(x) /\ x.of \in Orders /\ x.version \in Nat
                       /\ x.version <= version[x.of]
    BY WayIsTrue DEF Event, MessageTrue
  <1> USE DEF Goes
  <1>3. WayHolds'
    <2>1. ASSUME NEW x \in Way PROVE MessageHolds(x)'
      <3>1. MessageHolds(x) BY DEF Told, WayHolds
      <3>2. CASE x.of # o
        <4>1. at'[x.of] = at[x.of] /\ version'[x.of] = version[x.of] BY <1>1, <1>2, <3>2
        <4> QED BY <3>1, <4>1 DEF MessageHolds
      <3>3. CASE x.of = o
        <4>1. x.version # version'[o] BY <1>1, <1>2, <3>3
        <4> QED BY <3>1, <3>3, <4>1 DEF MessageHolds
      <3> QED BY <3>2, <3>3
    <2>2. ASSUME NEW x \in Way', x \notin Way PROVE MessageHolds(x)'
      <3>1. CASE x = m BY <3>1
      <3>2. CASE x.of = o /\ x.order = "none" /\ x.position = "none" BY <3>2 DEF MessageHolds
      <3> QED BY <2>2, <3>1, <3>2
    <2>3. \A c \in calls' : CallHolds(c)' BY DEF CallHolds
    <2> QED BY <2>1, <2>2, <2>3 DEF WayHolds
  <1> DEFINE Knows(p, after) == p = o => after <= version[o]
  <1>4. ASSUME connected, NEW p \in Orders, NEW after \in Int, NEW v, NEW working, NEW open,
               Knows(p, after), Reaches(p, after, v, working, open)
        PROVE  Reaches(p, after, v, working, open)'
    <2>0. m \in Way' /\ Way \subseteq Way' BY <1>4
    <2>1. \A x \in Way' : \/ x \in Way \/ x = m
                          \/ x.of = o /\ x.order = "none" /\ x.position = "none"
      OBVIOUS
    <2>2. OpeningComes(p, after) => OpeningComes(p, after)'
      <3>1. CASE events' = events BY <3>1 DEF OpeningComes
      <3>2. CASE events' = Append(events, m)
        <4>1. /\ DOMAIN events' = 1 .. (Len(events) + 1)
              /\ \A i \in DOMAIN events : i \in DOMAIN events' /\ events'[i] = events[i]
              /\ \A j \in DOMAIN events' : j \in DOMAIN events \/ j = Len(events) + 1
          BY <1>0, <3>2
        <4>2. \A i \in DOMAIN events : i < Len(events) + 1 BY <1>0
        <4> QED BY <4>1, <4>2 DEF OpeningComes
      <3> QED BY <3>1, <3>2
    <2>3. CASE p # o
      <3>1. at'[p] = at[p] /\ version'[p] = version[p] /\ stop'[p] = stop[p] BY <1>1, <2>3
      <3>2. \A x : x \in Way' /\ x.of = p => x \in Way BY <2>1, <2>3
      <3>3. \A x : x.of = p => (IsStale(x)' <=> IsStale(x)) BY <3>1 DEF IsStale
      <3>4. \A n : StaleAreOlder(p, n) => StaleAreOlder(p, n)'
        BY <3>2, <3>3 DEF StaleAreOlder, TellsPlace
      <3>5. PlaceComes(p, after) => PlaceComes(p, after)'
        BY <2>0, <3>3, <3>4 DEF PlaceComes, TellsPlace
      <3>6. /\ PlaceIn(p, working) => PlaceIn(p, working)'
            /\ PositionIn(p, open) => PositionIn(p, open)'
            /\ PositionComes(p) => PositionComes(p)'
        BY <2>0, <3>1 DEF PlaceIn, PositionIn, PositionComes
      <3> QED BY <1>4, <2>2, <3>1, <3>4, <3>5, <3>6 DEF Reaches
    <2>4. CASE p = o
      <3>0. after <= version[o] /\ version'[o] > after BY <1>1, <1>4, <2>4
      <3>1. PlaceComes(o, after)' \/ (PlaceIn(o, working) /\ StaleAreOlder(o, v))'
        <4>1. CASE m.order # "none"
          <5>1. TellsPlace(m, o) /\ ~IsStale(m)' /\ m.version > after
            BY <3>0, <4>1 DEF TellsPlace, IsStale
          <5>2. StaleAreOlder(o, m.version)'
            BY <1>1, <1>2, <2>1, <5>1 DEF StaleAreOlder, TellsPlace
          <5> QED BY <2>0, <5>1, <5>2 DEF PlaceComes, TellsPlace
        <4>2. CASE m.order = "none"
          <5>1. (at[o] = "working") = (at'[o] = "working") BY <4>2
          <5>2. \A x : x.of = o => (IsStale(x)' <=> IsStale(x)) BY <5>1 DEF IsStale
          <5>3. \A x : x \in Way' /\ TellsPlace(x, o) => x \in Way
            BY <2>1, <4>2 DEF TellsPlace
          <5>4. \A n : StaleAreOlder(o, n) => StaleAreOlder(o, n)'
            BY <5>2, <5>3 DEF StaleAreOlder, TellsPlace
          <5>5. PlaceComes(o, after) => PlaceComes(o, after)'
            BY <2>0, <5>2, <5>4 DEF PlaceComes, TellsPlace
          <5>6. PlaceIn(o, working) => PlaceIn(o, working)' BY <5>1 DEF PlaceIn
          <5> QED BY <1>4, <2>4, <5>4, <5>5, <5>6 DEF Reaches
        <4> QED BY <4>1, <4>2
      <3>2. at'[o] \in Lived => (version[o] > after /\ PositionComes(o))'
        BY <2>0, <3>0 DEF PositionComes, Lived
      <3>3. at'[o] = "open" => o \in DOMAIN open \/ OpeningComes(o, after)'
        <4>1. CASE at[o] = "open" BY <1>4, <2>2, <2>4, <4>1 DEF Reaches
        <4>2. CASE at[o] # "open" /\ at'[o] = "open"
          <5>1. events' = Append(events, m) /\ m.position = "open" /\ at[o] = "working"
            BY <1>4, <4>2
          <5>2. /\ DOMAIN events' = 1 .. (Len(events) + 1) /\ events'[Len(events) + 1] = m
                /\ \A j \in DOMAIN events' : j \in DOMAIN events \/ j = Len(events) + 1
                /\ \A j \in DOMAIN events : events'[j] = events[j]
            BY <1>0, <5>1
          <5>3. \A j \in DOMAIN events : events[j].of = o => events[j].position = "none"
            <6>1. \A j \in DOMAIN events : events[j] \in Way BY DEF Way
            <6> QED BY <1>2, <5>1, <6>1 DEF MessageTrue, Lived
          <5>4. \A j \in DOMAIN events' : events'[j].of = o => events'[j].position # "trailed"
            BY <5>1, <5>2, <5>3
          <5>5. Len(events) + 1 \in DOMAIN events' BY <1>0, <5>2
          <5> QED BY <3>0, <5>1, <5>2, <5>4, <5>5 DEF OpeningComes
        <4> QED BY <4>1, <4>2
      <3> QED BY <2>4, <3>1, <3>2, <3>3 DEF Reaches
    <2> QED BY <2>3, <2>4
  <1> HIDE DEF Knows
  <1>5. ASSUME connected, NEW p \in Orders, reading.stage = "none", status = "Ready"
        PROVE  InStep(p)'
    <2>1. PICK v, working, open : v = newest[p] /\ working = orders /\ open = positions
      OBVIOUS
    <2>2. CASE p \in mixed BY <2>2 DEF InStep
    <2>3. CASE Reaches(p, -1, v, working, open)
      <3>1. Knows(p, -1) /\ -1 \in Int BY <1>1 DEF Knows
      <3>2. Reaches(p, -1, v, working, open)' BY <1>4, <1>5, <2>3, <3>1
      <3> QED BY <2>1, <3>2 DEF InStep, accountVars
    <2> QED BY <1>5, <2>1, <2>2, <2>3 DEF Told, Followed, InStep
  <1>6. ASSUME connected, NEW p \in Orders, reading.stage \in {"listed", "whole"}
        PROVE  WillBeInStep(p)'
    <2>1. PICK v, working, open :
            v = reading.versions[p] /\ working = reading.working /\ open = reading.open
      OBVIOUS
    <2>2. CASE newest[p] > reading.versions[p] BY <2>2 DEF WillBeInStep
    <2>3. CASE Reaches(p, v, v, working, open)
      <3>1. Knows(p, v) /\ v \in Int
        BY <2>1 DEF Knows, Inv, ReadingTrue, Known, TypeOK, Readings
      <3>2. Reaches(p, v, v, working, open)' BY <1>4, <1>6, <2>3, <3>1
      <3> QED BY <2>1, <3>2 DEF WillBeInStep
    <2> QED BY <1>6, <2>1, <2>2, <2>3 DEF Told, Followed, WillBeInStep
  <1>7. Followed' BY <1>5, <1>6 DEF Followed, accountVars
  <1> QED BY <1>3, <1>7 DEF Told

\* What a message does to the positions and orders of the book.
LEMMA Applying ==
  ASSUME Inv, NEW e \in Event, Apply(e)
  PROVE  /\ \A o \in Orders \ {e.of} : /\ (o \in DOMAIN positions') = (o \in DOMAIN positions)
                                       /\ o \in DOMAIN positions => positions'[o] = positions[o]
                                       /\ (o \in orders') = (o \in orders)
         /\ \/ e.position = "open" \/ (e.position = "trailed" /\ e.of \in DOMAIN positions)
            => e.of \in DOMAIN positions' /\ positions'[e.of] = e.stop
         /\ e.position = "closed" => e.of \notin DOMAIN positions'
         /\ e.position \in {"none", "trailed"} =>
              (e.of \in DOMAIN positions') = (e.of \in DOMAIN positions)
         /\ e.position = "none" => positions' = positions
         /\ e.order = "working" => e.of \in orders'
         /\ e.order = "done" => e.of \notin orders'
         /\ e.order = "none" => orders' = orders
  <1>1. /\ positions' = CASE e.position = "open"   -> Put(positions, e.of, e.stop)
                          [] e.position = "closed" -> Without(positions, e.of)
                          [] e.position = "trailed" /\ e.of \in DOMAIN positions ->
                               Put(positions, e.of, e.stop)
                          [] OTHER -> positions
        /\ orders' = CASE e.order = "working" -> orders \cup {e.of}
                       [] e.order = "done"    -> orders \ {e.of}
                       [] OTHER -> orders
    BY DEF Apply
  <1>2. /\ e.of \in Orders /\ e.stop \in Stops /\ positions \in Open
        /\ e.position \in {"open", "closed", "trailed", "none"}
        /\ e.order \in {"working", "done", "none"}
    BY DEF Inv, TypeOK, Event
  <1> DEFINE put == Put(positions, e.of, e.stop)
             left == Without(positions, e.of)
  <1>3. /\ DOMAIN put = DOMAIN positions \cup {e.of} /\ put[e.of] = e.stop
        /\ \A o \in DOMAIN positions \ {e.of} : put[o] = positions[o]
        /\ DOMAIN left = DOMAIN positions \ {e.of}
        /\ \A o \in DOMAIN positions \ {e.of} : left[o] = positions[o]
    BY <1>2, OpenFunctions DEF Put, Without
  <1>4. CASE e.position = "open" \/ (e.position = "trailed" /\ e.of \in DOMAIN positions)
    <2>1. positions' = put BY <1>1, <1>4
    <2> HIDE DEF put, left
    <2> QED BY <1>1, <1>2, <1>3, <1>4, <2>1
  <1>5. CASE e.position = "closed"
    <2>1. positions' = left BY <1>1, <1>5
    <2> HIDE DEF put, left
    <2> QED BY <1>1, <1>2, <1>3, <1>5, <2>1
  <1>6. CASE e.position = "none" \/ (e.position = "trailed" /\ e.of \notin DOMAIN positions)
    <2>1. positions' = positions BY <1>1, <1>6
    <2> QED BY <1>1, <1>2, <1>6, <2>1
  <1> QED BY <1>2, <1>4, <1>5, <1>6

\* The news of an order that is not overtaken brings the book in step, or leaves it so.
LEMMA NewsIsHeard ==
  ASSUME Inv, UNCHANGED brokerVars, NEW e \in Event, e \in Way, MessageTrue(e), MessageHolds(e),
         Apply(e),
         Way' \subseteq Way, Way \ {e} \subseteq Way',
         \/ events' = events /\ e.position # "trailed"
         \/ events # <<>> /\ events' = Tail(events) /\ e = events[1],
         NEW o \in Orders, o = e.of, e.position # "none" \/ e.order # "none",
         NEW v \in Nat, v <= e.version, newest'[o] = e.version,
         Reaches(o, -1, v, orders, positions)
  PROVE  Reaches(o, -1, newest[o], orders, positions)'
  <1>0. /\ version[o] \in Nat /\ e.version \in Nat /\ e.version <= version[o]
        /\ e.position \in {"open", "closed", "trailed", "none"}
        /\ e.order \in {"working", "done", "none"}
    BY DEF Inv, TypeOK, Event, MessageTrue
  <1>1. at' = at /\ version' = version /\ stop' = stop BY DEF brokerVars
  <1>2. \A m \in Way : m.version \in Nat BY WayIsTrue DEF Event
  <1>3. \A n : StaleAreOlder(o, n) => StaleAreOlder(o, n)'
    BY <1>1 DEF StaleAreOlder, TellsPlace, IsStale
  <1>4. e.order # "none" /\ ~IsStale(e) => PlaceIn(o, orders)'
    BY <1>0, <1>1, Applying DEF MessageHolds, IsStale, PlaceIn
  <1>5. PlaceComes(o, -1)' \/ (PlaceIn(o, orders) /\ StaleAreOlder(o, newest[o]))'
    <2>1. CASE PlaceComes(o, -1)
      <3>1. PICK m \in Way : TellsPlace(m, o) /\ ~IsStale(m) /\ m.version > -1
                             /\ StaleAreOlder(o, m.version)
        BY <2>1 DEF PlaceComes
      <3>2. CASE m # e
        <4>1. StaleAreOlder(o, m.version)' BY <1>3, <3>1
        <4>2. m \in Way' /\ ~IsStale(m)' BY <1>1, <3>1, <3>2 DEF IsStale
        <4> QED BY <3>1, <4>1, <4>2 DEF PlaceComes, TellsPlace
      <3>3. CASE m = e
        <4>1. StaleAreOlder(o, e.version)' BY <1>3, <3>1, <3>3
        <4>2. PlaceIn(o, orders)' BY <1>4, <3>1, <3>3 DEF TellsPlace
        <4> QED BY <4>1, <4>2 DEF StaleAreOlder
      <3> QED BY <3>2, <3>3
    <2>2. CASE PlaceIn(o, orders) /\ StaleAreOlder(o, v)
      <3>1. \A m \in Way' : TellsPlace(m, o) /\ IsStale(m)' => m.version < e.version
        BY <1>0, <1>1, <1>2, <2>2 DEF StaleAreOlder, TellsPlace, IsStale
      <3>2. StaleAreOlder(o, newest[o])' BY <3>1 DEF StaleAreOlder, TellsPlace
      <3>3. PlaceIn(o, orders)'
        <4>1. CASE e.order = "none" BY <1>1, <2>2, <4>1, Applying DEF PlaceIn
        <4>2. CASE e.order # "none" /\ ~IsStale(e) BY <1>4, <4>2
        <4>3. CASE e.order # "none" /\ IsStale(e)
          <5>1. e.version < v BY <2>2, <4>3 DEF StaleAreOlder, TellsPlace
          <5> QED BY <1>0, <5>1
        <4> QED BY <4>1, <4>2, <4>3
      <3> QED BY <3>2, <3>3
    <2> QED BY <2>1, <2>2 DEF Reaches
  <1>6. ASSUME at[o] \in Lived
        PROVE  PositionComes(o)' \/ (newest[o] = version[o] /\ PositionIn(o, positions))'
    <2>1. CASE \E m \in Way \ {e} : m.of = o /\ m.position # "none" /\ m.version = version[o]
      BY <1>1, <2>1 DEF PositionComes
    <2>2. CASE e.version = version[o]
      <3>1. e.position # "none" BY <1>6, <2>2 DEF MessageTrue
      <3>2. CASE e.position = "closed"
        BY <1>1, <2>2, <3>2, Applying DEF MessageHolds, PositionIn
      <3>3. CASE e.position \in {"open", "trailed"}
        <4>1. at[o] = "open" /\ e.stop = stop[o]
          BY <2>2, <3>3 DEF MessageHolds, MessageTrue
        <4>2. e.position = "trailed" => o \in DOMAIN positions
          <5> SUFFICES ASSUME e.position = "trailed", o \notin DOMAIN positions
                       PROVE  FALSE
            OBVIOUS
          <5>1. OpeningComes(o, -1) BY <4>1 DEF Reaches
          <5>2. 1 \in DOMAIN events /\ events[1].of = o /\ events[1].position = "trailed"
            BY DEF Inv, TypeOK
          <5>3. DOMAIN events \subseteq Nat \ {0} BY DEF Inv, TypeOK
          <5> QED BY <5>1, <5>2, <5>3 DEF OpeningComes
        <4>3. o \in DOMAIN positions' /\ positions'[o] = stop[o] BY <3>3, <4>1, <4>2, Applying
        <4> QED BY <1>1, <2>2, <4>1, <4>3 DEF PositionIn
      <3> QED BY <1>0, <3>1, <3>2, <3>3
    <2>3. CASE v = version[o] BY <1>0, <2>2, <2>3
    <2>4. PositionComes(o) \/ v = version[o] BY <1>6 DEF Reaches
    <2> QED BY <2>1, <2>2, <2>3, <2>4 DEF PositionComes
  <1>7. ASSUME at[o] = "open"
        PROVE  (o \in DOMAIN positions \/ OpeningComes(o, -1))'
    <2>1. CASE o \in DOMAIN positions
      <3>1. e.position # "closed" BY <1>7 DEF MessageHolds
      <3> QED BY <1>0, <2>1, <3>1, Applying
    <2>2. CASE OpeningComes(o, -1) /\ e.position # "open" BY <2>2, OpeningStays
    <2>3. CASE e.position = "open" BY <2>3, Applying
    <2> QED BY <1>7, <2>1, <2>2, <2>3 DEF Reaches
  <1>8. (version[o] > -1)' BY <1>0, <1>1
  <1> QED BY <1>1, <1>5, <1>6, <1>7, <1>8 DEF Reaches

\* A message reaches the book, which is in step as long as none was overtaken.
LEMMA BookHears ==
  ASSUME Inv, Told, UNCHANGED brokerVars, NEW e \in Event, e \in Way, MessageTrue(e), MessageHolds(e),
         Apply(e), Remember(e),
         UNCHANGED <<connected, reading, status>>,
         Way' \subseteq Way, Way \ {e} \subseteq Way', \A c \in calls' : CallHolds(c),
         \/ events' = events /\ e.position # "trailed"
         \/ events # <<>> /\ events' = Tail(events) /\ e = events[1]
  PROVE  Told'
  <1>0. /\ version \in [Orders -> Nat] /\ newest \in [Orders -> Nat] /\ mixed \subseteq Orders
        /\ e.of \in Orders /\ e.version \in Nat
        /\ e.position \in {"open", "closed", "trailed", "none"}
        /\ e.order \in {"working", "done", "none"}
    BY DEF Inv, TypeOK, Event
  <1>1. at' = at /\ version' = version /\ stop' = stop BY DEF brokerVars
  <1>2. WayHolds'
    <2>1. \A m \in Way' : MessageHolds(m)' BY <1>1 DEF Told, WayHolds, MessageHolds
    <2>2. \A c \in calls' : CallHolds(c)' BY DEF CallHolds
    <2> QED BY <2>1, <2>2 DEF WayHolds
  <1>3. \/ e.position = "none" /\ e.order = "none" /\ newest' = newest /\ mixed' = mixed
        \/ /\ e.position # "none" \/ e.order # "none"
           /\ newest' = [newest EXCEPT ![e.of] = Newer(newest[e.of], e.version)]
           /\ mixed' = IF e.version < newest[e.of] THEN mixed \cup {e.of} ELSE mixed
    BY DEF Remember
  <1>4. ASSUME NEW o \in Orders, NEW after, NEW v, NEW working, NEW open,
               Reaches(o, after, v, working, open)
        PROVE  \/ Reaches(o, after, v, working, open)'
               \/ e.of = o /\ e.version > after /\ (e.order # "none" \/ e.position # "none")
    BY <1>4, OneLess
  <1>5. ASSUME NEW o \in Orders, WillBeInStep(o)
        PROVE  WillBeInStep(o)'
    <2>1. /\ newest'[o] >= newest[o]
          /\ e.of = o /\ (e.order # "none" \/ e.position # "none") => newest'[o] >= e.version
      BY <1>0, <1>3 DEF Newer
    <2>2. newest[o] \in Nat /\ newest'[o] \in Nat /\ reading.versions[o] \in Nat
      BY <1>0, <1>3 DEF Newer, Inv, TypeOK, Readings
    <2>3. PICK v, working, open :
            v = reading.versions[o] /\ working = reading.working /\ open = reading.open
      OBVIOUS
    <2>4. CASE newest[o] > v BY <2>1, <2>2, <2>3, <2>4 DEF WillBeInStep
    <2>5. CASE Reaches(o, v, v, working, open)
      <3>1. CASE Reaches(o, v, v, working, open)' BY <2>3, <3>1 DEF WillBeInStep
      <3>2. CASE e.of = o /\ e.version > v /\ (e.order # "none" \/ e.position # "none")
        BY <1>0, <2>1, <2>2, <2>3, <3>2 DEF WillBeInStep
      <3> QED BY <1>4, <2>5, <3>1, <3>2
    <2> QED BY <1>5, <2>3, <2>4, <2>5 DEF WillBeInStep
  <1>6. ASSUME NEW o \in Orders, InStep(o)
        PROVE  InStep(o)'
    <2>1. PICK v, working, open : v = newest[o] /\ working = orders /\ open = positions
      OBVIOUS
    <2>2. CASE o \in mixed BY <1>3, <2>2 DEF InStep
    <2>3. CASE Reaches(o, -1, v, working, open) /\ o # e.of
      <3>1. Reaches(o, -1, v, working, open)' BY <1>4, <2>3
      <3>2. /\ newest'[o] = v /\ (o \in orders') = (o \in working)
            /\ (o \in DOMAIN positions') = (o \in DOMAIN open)
            /\ o \in DOMAIN open => positions'[o] = open[o]
        BY <1>0, <1>3, <2>1, <2>3, Applying
      <3> QED BY <3>1, <3>2 DEF InStep, Reaches, PlaceIn, PositionIn
    <2>4. CASE Reaches(o, -1, v, working, open) /\ e.position = "none" /\ e.order = "none"
      <3>1. Reaches(o, -1, v, working, open)' BY <1>4, <2>4
      <3>2. newest' = newest /\ orders' = orders /\ positions' = positions
        BY <1>3, <2>4, Applying
      <3> QED BY <2>1, <3>1, <3>2 DEF InStep
    <2>5. CASE o = e.of /\ (e.position # "none" \/ e.order # "none") /\ e.version < newest[o]
      BY <1>3, <2>5 DEF InStep
    <2>6. CASE /\ Reaches(o, -1, v, working, open) /\ o = e.of
               /\ e.position # "none" \/ e.order # "none"
               /\ ~(e.version < newest[o])
      <3>1. v \in Nat /\ v <= e.version BY <1>0, <2>1, <2>6
      <3>2. newest'[o] = e.version BY <1>0, <1>3, <2>6, <3>1, <2>1 DEF Newer
      <3>3. Reaches(o, -1, v, orders, positions) BY <2>1, <2>6
      <3>4. Reaches(o, -1, newest[o], orders, positions)'
        BY <2>6, <3>1, <3>2, <3>3, NewsIsHeard
      <3> QED BY <3>4 DEF InStep
    <2> QED BY <1>0, <1>6, <2>1, <2>2, <2>3, <2>4, <2>5, <2>6 DEF InStep
  <1>7. Followed' BY <1>5, <1>6 DEF Told, Followed
  <1> QED BY <1>2, <1>7 DEF Told

\* An event that is sent is on its way, while there is a connection.
LEMMA EmitWay ==
  ASSUME Inv, NEW m, Emit(m)
  PROVE  /\ {events'[i] : i \in DOMAIN events'} =
              {events[i] : i \in DOMAIN events} \cup (IF connected THEN {m} ELSE {})
         /\ events' = IF connected THEN Append(events, m) ELSE events
  <1>1. CASE connected
    <2>1. events' = Append(events, m) /\ Len(events) \in Nat /\ DOMAIN events = 1 .. Len(events)
      BY <1>1 DEF Emit, Inv, TypeOK
    <2>2. /\ DOMAIN events' = 1 .. (Len(events) + 1) /\ events'[Len(events) + 1] = m
          /\ \A i \in DOMAIN events : i \in DOMAIN events' /\ events'[i] = events[i]
          /\ \A i \in DOMAIN events' : i \in DOMAIN events \/ i = Len(events) + 1
          /\ Len(events) + 1 \in DOMAIN events'
      BY <2>1 DEF Inv, TypeOK
    <2> QED BY <1>1, <2>1, <2>2
  <1>2. CASE ~connected BY <1>2 DEF Emit
  <1> QED BY <1>1, <1>2

LEMMA MarketTold == Inv /\ Told /\ Market => Told'
  <1> SUFFICES ASSUME Inv, Told, NEW o \in Orders,
                      Fill(o) \/ CloseThere(o) \/ ClosePart(o) \/ Trail(o) \/ Expire(o)
               PROVE  Told'
    BY DEF Market
  <1>0. /\ at \in [Orders -> Places] /\ stop \in [Orders -> Stops] /\ version \in [Orders -> Nat]
    BY DEF Inv, TypeOK
  <1>1. Changed(o) /\ UNCHANGED <<connected, calls, reading, accountVars, ghostVars>>
    BY DEF Fill, CloseThere, ClosePart, Trail, Expire
  <1>2. version' \in [Orders -> Nat] BY <1>0, <1>1 DEF Changed
  <1>3. ASSUME NEW kind \in {"filled", "cancelled", "trailed"}, NEW order \in {"done", "none"},
               NEW position \in {"open", "closed", "trailed", "none"}, NEW profit \in Int,
               Emit(Message(kind, o, order, position, profit)), Goes(o, order, position),
               \A p \in Orders \ {o} : at'[p] = at[p] /\ stop'[p] = stop[p],
               stop' \in [Orders -> Stops]
        PROVE  Told'
    <2>1. PICK m \in Event : m = Message(kind, o, order, position, profit)
      BY <1>2, <1>3, MessageType
    <2>2. m.of = o /\ m.version = version'[o] /\ m.order = order /\ m.position = position
      BY <2>1 DEF Message
    <2>3. MessageHolds(m)' BY <1>3, <2>2 DEF MessageHolds, Goes
    <2>4. /\ Way' = Way \cup (IF connected THEN {m} ELSE {})
          /\ events' = IF connected THEN Append(events, m) ELSE events
      BY <1>1, <1>3, <2>1, EmitWay DEF Way
    <2>5. \A c \in calls' : CallHolds(c) BY <1>1 DEF Told, WayHolds
    <2>6. UNCHANGED <<connected, reading, accountVars, newest, mixed>> BY <1>1 DEF ghostVars
    <2>7. Goes(o, m.order, m.position) BY <1>3, <2>2
    <2> QED BY <1>1, <1>3, <2>2, <2>3, <2>4, <2>5, <2>6, <2>7, NewsComes
  <1> USE DEF Goes
  <1>4. CASE Fill(o)
    <2>1. /\ Emit(Message("filled", o, "done", "open", 0)) /\ at[o] = "working"
          /\ at' = [at EXCEPT ![o] = "open"] /\ stop' = stop
      BY <1>4 DEF Fill
    <2> QED BY <1>0, <1>3, <2>1
  <1>5. CASE CloseThere(o)
    <2>1. PICK profit \in Profits(o, 1) :
            /\ at' = [at EXCEPT ![o] = "closed"] /\ stop' = stop /\ at[o] = "open"
            /\ Emit(Message("filled", o, "none", "closed", profit))
      BY <1>5 DEF CloseThere
    <2> QED BY <1>0, <1>3, <2>1, ProfitsAreInts
  <1>6. CASE ClosePart(o)
    <2>1. PICK profit \in Profits(o, 2) :
            /\ at' = at /\ stop' = stop /\ at[o] = "open"
            /\ Emit(Message("filled", o, "none", "open", profit))
      BY <1>6 DEF ClosePart
    <2> QED BY <1>0, <1>3, <2>1, ProfitsAreInts
  <1>7. CASE Trail(o)
    <2>1. /\ stop' = [stop EXCEPT ![o] = 2] /\ at' = at /\ at[o] = "open"
          /\ Emit(Message("trailed", o, "none", "trailed", 0))
      BY <1>7 DEF Trail
    <2>2. stop' \in [Orders -> Stops] BY <1>0, <2>1 DEF Stops
    <2>3. \A p \in Orders \ {o} : stop'[p] = stop[p] BY <1>0, <2>1
    <2> QED BY <1>0, <1>3, <2>1, <2>2, <2>3
  <1>8. CASE Expire(o)
    <2>1. /\ at' = [at EXCEPT ![o] = "gone"] /\ stop' = stop /\ at[o] = "working"
          /\ Emit(Message("cancelled", o, "done", "none", 0))
      BY <1>8 DEF Expire
    <2> QED BY <1>0, <1>3, <2>1
  <1> QED BY <1>4, <1>5, <1>6, <1>7, <1>8

\* What is on its way holds as long as the broker changes nothing.
LEMMA WayStays ==
  ASSUME Told, UNCHANGED brokerVars, Way' \subseteq Way, \A c \in calls' : CallHolds(c)
  PROVE  WayHolds'
  <1>1. \A m \in Way' : MessageHolds(m)' BY DEF Told, WayHolds, MessageHolds, brokerVars
  <1>2. \A c \in calls' : CallHolds(c)' BY DEF CallHolds
  <1> QED BY <1>1, <1>2 DEF WayHolds

\* What waits for a reading, or for the connection, may be out of step.
LEMMA NotYetTold ==
  ASSUME Told, UNCHANGED brokerVars, Way' \subseteq Way, \A c \in calls' : CallHolds(c),
         \/ ~connected' \/ reading'.stage \in {"asked", "failed"}
         \/ reading'.stage = "none" /\ status' = "Failed"
  PROVE  Told'
  BY WayStays DEF Told, Followed

\* What a step does not touch stays in step.
LEMMA NothingTold ==
  ASSUME Told, UNCHANGED brokerVars, Way' = Way, \A c \in calls' : CallHolds(c),
         UNCHANGED <<connected, status, positions, orders, newest, mixed, events>>,
         reading'.versions = reading.versions, reading'.working = reading.working,
         reading'.open = reading.open,
         reading'.stage = reading.stage \/ (reading.stage = "listed" /\ reading'.stage = "whole")
  PROVE  Told'
  <1>1. at' = at /\ version' = version /\ stop' = stop BY DEF brokerVars
  <1>2. WayHolds' BY WayStays
  <1>3. \A o, after, v, working, open :
          Reaches(o, after, v, working, open) => Reaches(o, after, v, working, open)'
    BY <1>1 DEF Reaches, PlaceComes, PlaceIn, StaleAreOlder, TellsPlace, IsStale,
                PositionComes, PositionIn, OpeningComes
  <1>4. \A o \in Orders : InStep(o) => InStep(o)'
    <2> SUFFICES ASSUME NEW o \in Orders, Reaches(o, -1, newest[o], orders, positions)
                 PROVE  Reaches(o, -1, newest[o], orders, positions)'
      BY DEF InStep
    <2>1. PICK v, working, open : v = newest[o] /\ working = orders /\ open = positions
      OBVIOUS
    <2>2. Reaches(o, -1, v, working, open)' BY <1>3, <2>1
    <2> QED BY <2>1, <2>2
  <1>5. \A o \in Orders : WillBeInStep(o) => WillBeInStep(o)'
    <2> SUFFICES ASSUME NEW o \in Orders, NEW v, NEW working, NEW open,
                        v = reading.versions[o], working = reading.working, open = reading.open,
                        Reaches(o, v, v, working, open)
                 PROVE  WillBeInStep(o)'
      BY DEF WillBeInStep
    <2>1. Reaches(o, v, v, working, open)' BY <1>3
    <2> QED BY <2>1 DEF WillBeInStep
  <1>6. Followed' BY <1>4, <1>5 DEF Told, Followed
  <1> QED BY <1>2, <1>6 DEF Told

\* A call that is answered, or that changes without one: what is on its way then.
LEMMA CallsWay ==
  ASSUME Inv, Told, NEW c \in calls, c.stage = "out", NEW d, calls' = (calls \ {c}) \cup {d},
         CallHolds(d)
  PROVE  /\ {Head(b.answer) : b \in {x \in calls' : x.answer # <<>>}} =
              {Head(b.answer) : b \in {x \in calls : x.answer # <<>>}}
              \cup (IF d.answer = <<>> THEN {} ELSE {Head(d.answer)})
         /\ \A b \in calls' : CallHolds(b)
  <1>1. c.answer = <<>> BY DEF Told, WayHolds, CallHolds
  <1>2. {x \in calls' : x.answer # <<>>} =
          {x \in calls : x.answer # <<>>} \cup (IF d.answer = <<>> THEN {} ELSE {d})
    BY <1>1
  <1>3. \A b \in calls' : CallHolds(b) BY DEF Told, WayHolds
  <1> QED BY <1>2, <1>3

LEMMA BrokerTold == Inv /\ Told /\ Broker => Told'
  <1> SUFFICES ASSUME Inv, Told, NEW c \in calls, CarryOut(c) \/ Refuse(c) PROVE Told'
    BY DEF Broker
  <1>0. /\ at \in [Orders -> Places] /\ stop \in [Orders -> Stops] /\ version \in [Orders -> Nat]
        /\ c \in Call /\ c.of \in Orders /\ c.level \in Stops /\ c.stage = "out"
        /\ c.what \in {"place", "close", "cancel", "amend"}
    BY DEF Inv, TypeOK, Call, CarryOut, Refuse
  <1>1. c.answer = <<>> BY <1>0 DEF Told, WayHolds, CallHolds
  <1>2. CASE Refuse(c)
    <2> DEFINE d == [c EXCEPT !.stage = "failed"]
    <2>1. /\ calls' = (calls \ {c}) \cup {d} /\ d.answer = <<>>
          /\ UNCHANGED <<brokerVars, connected, events, reading, accountVars, ghostVars>>
      BY <1>0, <1>1, <1>2 DEF Refuse, Call
    <2>2. CallHolds(d) BY <2>1 DEF CallHolds
    <2> HIDE DEF d
    <2>3. Way' = Way /\ \A b \in calls' : CallHolds(b) BY <1>0, <2>1, <2>2, CallsWay DEF Way
    <2>4. UNCHANGED <<connected, status, positions, orders, newest, mixed, events, reading>>
      BY <2>1 DEF accountVars, ghostVars
    <2>5. UNCHANGED brokerVars /\ Way' \subseteq Way BY <2>1, <2>3
    <2>6. /\ reading'.versions = reading.versions /\ reading'.working = reading.working
          /\ reading'.open = reading.open /\ reading'.stage = reading.stage
      BY <2>4
    <2>7. UNCHANGED <<connected, status, positions, orders, newest, mixed, events>> BY <2>4
    <2> QED BY <2>3, <2>5, <2>6, <2>7, NothingTold
  <1>3. CASE CarryOut(c)
    <2>1. /\ Changed(c.of) /\ Carries(c)
          /\ UNCHANGED <<connected, reading, accountVars, ghostVars>>
      BY <1>3 DEF CarryOut
    <2>2. version' \in [Orders -> Nat] BY <1>0, <2>1 DEF Changed
    <2>3. ASSUME NEW o \in Orders, o = c.of, NEW m \in Event, m.of = o, m.version = version'[o],
                 Goes(o, m.order, m.position), m.position \in {"none", "open", "closed"},
                 ~(m.order = "done" /\ m.position = "open"),
                 \A p \in Orders \ {o} : at'[p] = at[p] /\ stop'[p] = stop[p],
                 NEW e \in Event, Answers(c, e),
                 \/ e = m /\ UNCHANGED events
                 \/ e.of = o /\ e.order = "none" /\ e.position = "none" /\ Emit(m)
          PROVE  Told'
      <3> DEFINE d == [c EXCEPT !.stage = "answered", !.answer = <<e>>]
      <3>1. /\ calls' = (calls \ {c}) \cup {d} /\ d.answer = <<e>> /\ d.stage = "answered"
            /\ d.answer # <<>> /\ Head(d.answer) = e
        BY <1>0, <2>3 DEF Answers, Call
      <3>2. CallHolds(d) BY <2>3, <3>1 DEF CallHolds
      <3> HIDE DEF d
      <3>3. /\ {Head(b.answer) : b \in {x \in calls' : x.answer # <<>>}} =
                 {Head(b.answer) : b \in {x \in calls : x.answer # <<>>}} \cup {e}
            /\ \A b \in calls' : CallHolds(b)
        BY <1>0, <3>1, <3>2, CallsWay
      <3>4. /\ e = m \/ (e.of = o /\ e.order = "none" /\ e.position = "none")
            /\ connected => m \in Way'
            /\ Way \subseteq Way' /\ Way' \subseteq Way \cup {e, m}
            /\ events' = events \/ events' = Append(events, m)
        <4>1. CASE e = m /\ UNCHANGED events BY <3>3, <4>1 DEF Way
        <4>2. CASE e.of = o /\ e.order = "none" /\ e.position = "none" /\ Emit(m)
          <5>1. /\ {events'[i] : i \in DOMAIN events'} =
                     {events[i] : i \in DOMAIN events} \cup (IF connected THEN {m} ELSE {})
                /\ events' = IF connected THEN Append(events, m) ELSE events
            BY <4>2, EmitWay
          <5>2. Way' = Way \cup {e} \cup (IF connected THEN {m} ELSE {})
            BY <3>3, <5>1 DEF Way
          <5> QED BY <4>2, <5>1, <5>2
        <4> QED BY <2>3, <4>1, <4>2
      <3>5. MessageHolds(m)' BY <2>3 DEF MessageHolds, Goes
      <3>6. UNCHANGED <<connected, reading, accountVars, newest, mixed>> BY <2>1 DEF ghostVars
      <3>7. Changed(o) BY <2>1, <2>3
      <3>8. connected /\ m.position = "open" /\ m.order = "done" => events' = Append(events, m)
        BY <2>3
      <3>9. \A x \in Way' \ Way : x = m \/ (x.of = o /\ x.order = "none" /\ x.position = "none")
        BY <3>4
      <3> QED BY <2>3, <3>3, <3>4, <3>5, <3>6, <3>7, <3>8, <3>9, NewsComes
    <2>4. ASSUME NEW o \in Orders, o = c.of,
                 NEW kind \in {"accepted", "filled", "replaced", "cancelled"},
                 NEW order \in {"working", "done", "none"}, NEW position \in {"none", "open", "closed"},
                 NEW profit \in Int, Goes(o, order, position), ~(order = "done" /\ position = "open"),
                 \A p \in Orders \ {o} : at'[p] = at[p] /\ stop'[p] = stop[p],
                 stop' \in [Orders -> Stops],
                 LET m == Message(kind, o, order, position, profit) IN
                   \/ Answers(c, m) /\ UNCHANGED events
                   \/ /\ order = "none" /\ Emit(m)
                      /\ Answers(c, [m EXCEPT !.kind = "accepted", !.position = "none"])
          PROVE  Told'
      <3>1. PICK m \in Event : m = Message(kind, o, order, position, profit)
        BY <2>2, <2>4, MessageType
      <3>2. m.of = o /\ m.version = version'[o] /\ m.order = order /\ m.position = position
        BY <3>1 DEF Message
      <3>3. CASE Answers(c, m) /\ UNCHANGED events BY <2>3, <2>4, <3>2, <3>3
      <3>4. CASE /\ order = "none" /\ Emit(m)
                 /\ Answers(c, [m EXCEPT !.kind = "accepted", !.position = "none"])
        <4>1. PICK a \in Event : a = [m EXCEPT !.kind = "accepted", !.position = "none"]
          BY DEF Event
        <4>2. a.of = o /\ a.order = "none" /\ a.position = "none"
          BY <3>2, <3>4, <4>1 DEF Event
        <4> QED BY <2>3, <2>4, <3>2, <3>4, <4>1, <4>2
      <3> QED BY <2>4, <3>1, <3>3, <3>4
    <2> DEFINE o == c.of
    <2> USE DEF Goes
    <2>5. CASE c.what = "place"
      <3>1. /\ at' = [at EXCEPT ![o] = "working"] /\ stop' = stop /\ UNCHANGED events
            /\ Answers(c, Message("accepted", o, "working", "none", 0)) /\ at[o] = "new"
        BY <1>3, <2>1, <2>5 DEF CarryOut, Carries
      <3>2. /\ Goes(o, "working", "none") /\ 0 \in Int
            /\ \A p \in Orders \ {o} : at'[p] = at[p] /\ stop'[p] = stop[p]
        BY <1>0, <3>1
      <3>3. stop' \in [Orders -> Stops] BY <1>0, <3>1
      <3> HIDE DEF Goes
      <3> QED BY <1>0, <2>4, <3>1, <3>2, <3>3
    <2>6. CASE c.what = "cancel"
      <3>1. /\ at' = [at EXCEPT ![o] = "gone"] /\ stop' = stop /\ UNCHANGED events
            /\ Answers(c, Message("cancelled", o, "done", "none", 0)) /\ at[o] = "working"
        BY <1>3, <2>1, <2>6 DEF CarryOut, Carries
      <3>2. /\ Goes(o, "done", "none") /\ 0 \in Int
            /\ \A p \in Orders \ {o} : at'[p] = at[p] /\ stop'[p] = stop[p]
        BY <1>0, <3>1
      <3>3. stop' \in [Orders -> Stops] BY <1>0, <3>1
      <3> HIDE DEF Goes
      <3> QED BY <1>0, <2>4, <3>1, <3>2, <3>3
    <2>7. CASE c.what = "amend"
      <3>1. /\ stop' = [stop EXCEPT ![o] = c.level] /\ at' = at /\ UNCHANGED events
            /\ Answers(c, Message("replaced", o, "none", "open", 0)) /\ at[o] = "open"
        BY <1>3, <2>1, <2>7 DEF CarryOut, Carries
      <3>2. stop' \in [Orders -> Stops] /\ \A p \in Orders \ {o} : stop'[p] = stop[p]
        BY <1>0, <3>1
      <3>3. /\ Goes(o, "none", "open") /\ 0 \in Int
            /\ \A p \in Orders \ {o} : at'[p] = at[p] /\ stop'[p] = stop[p]
        BY <3>1, <3>2
      <3> HIDE DEF Goes
      <3> QED BY <1>0, <2>4, <3>1, <3>2, <3>3
    <2>8. CASE c.what = "close"
      <3>1. PICK profit \in Profits(o, 1) :
              /\ at' = [at EXCEPT ![o] = "closed"] /\ UNCHANGED stop /\ at[o] = "open"
              /\ LET closed == Message("filled", o, "none", "closed", profit) IN
                 \/ Answers(c, closed) /\ UNCHANGED events
                 \/ /\ Answers(c, [closed EXCEPT !.kind = "accepted", !.position = "none"])
                    /\ Emit(closed)
        BY <1>3, <2>1, <2>8 DEF CarryOut, Carries
      <3>2. profit \in Int BY ProfitsAreInts
      <3> QED BY <1>0, <2>4, <3>1, <3>2
    <2> QED BY <1>0, <2>5, <2>6, <2>7, <2>8
  <1> QED BY <1>2, <1>3

\* The calls that start have no answer yet.
LEMMA StartedHolds ==
  ASSUME NEW wanted, NEW now, \A c \in now : CallHolds(c)
  PROVE  /\ \A c \in Started(wanted, now) : CallHolds(c)
         /\ {Head(c.answer) : c \in {d \in Started(wanted, now) : d.answer # <<>>}} =
              {Head(c.answer) : c \in {d \in now : d.answer # <<>>}}
  <1>1. \A c \in Started(wanted, now) : c \in now \/ c.answer = <<>> BY DEF Started
  <1>2. now \subseteq Started(wanted, now) BY DEF Started
  <1>3. \A c : c.answer = <<>> => CallHolds(c) BY DEF CallHolds
  <1>4. {d \in Started(wanted, now) : d.answer # <<>>} = {d \in now : d.answer # <<>>}
    BY <1>1, <1>2
  <1> QED BY <1>1, <1>3, <1>4

LEMMA EventTold == Inv /\ Told /\ OnEvent => Told'
  <1> SUFFICES ASSUME Inv, Told, OnEvent PROVE Told'
    OBVIOUS
  <1>1. /\ events # <<>> /\ events' = Tail(events)
        /\ UNCHANGED <<brokerVars, connected, reading, status>>
        /\ OnExecution(Head(events), {}, calls)
    BY DEF OnEvent
  <1>2. /\ events \in Seq(Event) /\ 1 \in DOMAIN events /\ Head(events) = events[1]
        /\ \A i \in DOMAIN events' : i + 1 \in DOMAIN events /\ events'[i] = events[i + 1]
        /\ \A i \in DOMAIN events : i = 1 \/ (i - 1 \in DOMAIN events' /\ events'[i - 1] = events[i])
    BY <1>1 DEF Inv, TypeOK
  <1>3. PICK e \in Event : e = events[1] BY <1>2
  <1>4. e \in Way BY <1>2, <1>3 DEF Way
  <1>5. MessageTrue(e) /\ MessageHolds(e) BY <1>4, WayIsTrue DEF Told, WayHolds
  <1>6. PICK wanted : calls' = Started(wanted, calls)
    BY <1>1 DEF OnExecution
  <1>7. Apply(e) /\ Remember(e) BY <1>1, <1>2, <1>3 DEF OnExecution
  <1>8. /\ \A c \in calls' : CallHolds(c)
        /\ {Head(c.answer) : c \in {d \in calls' : d.answer # <<>>}} =
             {Head(c.answer) : c \in {d \in calls : d.answer # <<>>}}
    BY <1>6, StartedHolds DEF Told, WayHolds
  <1>9. /\ {events'[i] : i \in DOMAIN events'} \subseteq {events[i] : i \in DOMAIN events}
        /\ {events[i] : i \in DOMAIN events} \ {e} \subseteq {events'[i] : i \in DOMAIN events'}
    BY <1>2, <1>3
  <1>10. Way' \subseteq Way /\ Way \ {e} \subseteq Way' BY <1>8, <1>9 DEF Way
  <1>11. UNCHANGED brokerVars /\ UNCHANGED <<connected, reading, status>> BY <1>1
  <1> QED BY <1>1, <1>2, <1>3, <1>4, <1>5, <1>7, <1>8, <1>10, <1>11, BookHears

LEMMA AnswerTold ==
  ASSUME Inv, Told, NEW c \in calls, Answer(c)
  PROVE  Told'
  <1>1. /\ c.stage = "answered" /\ events' = events
        /\ UNCHANGED brokerVars /\ UNCHANGED <<connected, reading, status>>
    BY DEF Answer
  <1>2. c.answer # <<>> /\ c.answer \in Seq(Event) BY <1>1 DEF Inv, TypeOK, CallsTrue, CallTrue, Call
  <1>3. PICK e \in Event : e = Head(c.answer) BY <1>2
  <1>4. e \in Way /\ e.position # "trailed" BY <1>2, <1>3 DEF Way, Told, WayHolds, CallHolds
  <1>5. MessageTrue(e) /\ MessageHolds(e) BY <1>4, WayIsTrue DEF Told, WayHolds
  <1>6. PICK more : OnExecution(Head(c.answer), more, calls \ {c}) BY DEF Answer
  <1>7. Apply(e) /\ Remember(e) BY <1>3, <1>6 DEF OnExecution
  <1>8. PICK wanted : calls' = Started(wanted, calls \ {c}) BY <1>6 DEF OnExecution
  <1>9. /\ \A d \in calls' : CallHolds(d)
        /\ {Head(d.answer) : d \in {x \in calls' : x.answer # <<>>}} =
             {Head(d.answer) : d \in {x \in calls \ {c} : x.answer # <<>>}}
    BY <1>8, StartedHolds DEF Told, WayHolds
  <1>10. Way' \subseteq Way /\ Way \ {e} \subseteq Way' BY <1>1, <1>3, <1>9 DEF Way
  <1> QED BY <1>1, <1>4, <1>5, <1>7, <1>9, <1>10, BookHears

LEMMA UserTold == Inv /\ Told /\ User => Told'
  <1> SUFFICES ASSUME Told, NEW wanted, Asking(wanted) PROVE Told'
    BY DEF User, SendPlan, CloseIt, CancelIt, TimeStop, MoveStop
  <1>1. /\ calls' = Started(wanted, calls) /\ UNCHANGED brokerVars
        /\ UNCHANGED <<connected, status, positions, orders, newest, mixed, events>>
        /\ UNCHANGED reading
    BY DEF Asking, ghostVars
  <1>2. (\A c \in calls' : CallHolds(c)) /\ Way' = Way
    BY <1>1, StartedHolds DEF Told, WayHolds, Way
  <1>3. /\ reading'.versions = reading.versions /\ reading'.working = reading.working
        /\ reading'.open = reading.open /\ reading'.stage = reading.stage
    BY <1>1
  <1> QED BY <1>1, <1>2, <1>3, NothingTold

\* The connection is lost or comes back, and a call or a reading fails: the account is
\* read again before the book counts.
LEMMA ConnectionTold ==
  Inv /\ Told /\ (\/ Lose \/ Connect \/ BreakOff \/ FailReading
                  \/ \E c \in calls : Fail(c) \/ GiveUp(c)) => Told'
  <1> SUFFICES ASSUME Inv, Told,
                      \/ Lose \/ Connect \/ BreakOff \/ FailReading
                      \/ \E c \in calls : Fail(c) \/ GiveUp(c)
               PROVE  Told'
    OBVIOUS
  <1>0. calls \subseteq Call /\ \A c \in calls : CallHolds(c)
    BY DEF Inv, TypeOK, Told, WayHolds
  <1>1. CASE Lose
    <2>1. /\ connected' = FALSE /\ events' = <<>> /\ UNCHANGED brokerVars
          /\ calls' = {[c EXCEPT !.stage = "failed", !.answer = <<>>] : c \in calls}
      BY <1>1 DEF Lose
    <2>2. \A c \in calls' : c.answer = <<>> BY <1>0, <2>1 DEF Call
    <2>3. (\A c \in calls' : CallHolds(c)) BY <2>2 DEF CallHolds
    <2>4. Way' = {}
      <3>1. events' = <<>> BY <2>1
      <3>2. DOMAIN events' = {} BY <3>1
      <3> QED BY <2>2, <3>2 DEF Way
    <2>5. ~connected' /\ Way' \subseteq Way BY <2>1, <2>4
    <2> QED BY <2>1, <2>3, <2>5, NotYetTold
  <1>2. CASE Connect \/ BreakOff \/ FailReading
    <2>1. UNCHANGED brokerVars /\ UNCHANGED <<events, calls>>
      BY <1>2 DEF Connect, BreakOff, FailReading
    <2>2. Way' \subseteq Way BY <2>1 DEF Way
    <2>3. \/ reading'.stage \in {"asked", "failed"}
          \/ reading'.stage = "none" /\ status' = "Failed"
      BY <1>2, ReadingType DEF Connect, OnReady, BreakOff, FailReading
    <2>4. \A c \in calls' : CallHolds(c) BY <1>0, <2>1
    <2> QED BY <2>1, <2>2, <2>3, <2>4, NotYetTold
  <1>3. ASSUME NEW c \in calls, Fail(c) \/ GiveUp(c)
        PROVE  Told'
    <2> DEFINE d == [c EXCEPT !.held = FALSE]
    <2>1. d.answer = c.answer /\ d.stage = c.stage BY <1>0 DEF Call
    <2>2. CallHolds(d) BY <1>0, <2>1 DEF CallHolds
    <2>3. /\ calls' = calls \ {c} \/ calls' = (calls \ {c}) \cup {d}
          /\ UNCHANGED brokerVars /\ UNCHANGED events /\ OnReady
      BY <1>3 DEF Fail, GiveUp
    <2> HIDE DEF d
    <2>4. Way' \subseteq Way BY <2>1, <2>3 DEF Way
    <2>5. \A b \in calls' : CallHolds(b) BY <1>0, <2>2, <2>3
    <2>6. reading'.stage \in {"asked", "failed"} BY <2>3, ReadingType DEF OnReady
    <2> QED BY <2>3, <2>4, <2>5, <2>6, NotYetTold
  <1> QED BY <1>1, <1>2, <1>3

\* What a reading finds is the broker's, up to the versions it saw.
LEMMA ReadOpenTold == Inv /\ Told /\ ReadOpen => Told'
  <1> SUFFICES ASSUME Inv, Told, ReadOpen PROVE Told'
    OBVIOUS
  <1>1. PICK there, waits :
          /\ there = [o \in {p \in Orders : at[p] = "open"} |-> stop[o]]
          /\ waits = {o \in Orders : at[o] = "working"}
          /\ reading' = [reading EXCEPT !.stage = "listed", !.versions = version,
                           !.open = there, !.working = waits]
          /\ UNCHANGED brokerVars /\ UNCHANGED <<connected, events, calls>>
    BY DEF ReadOpen
  <1>2. /\ DOMAIN there = {p \in Orders : at[p] = "open"}
        /\ \A o \in DOMAIN there : there[o] = stop[o]
    BY <1>1
  <1>3. /\ reading'.stage = "listed" /\ reading'.versions = version
        /\ reading'.open = there /\ reading'.working = waits
    BY <1>1 DEF Inv, TypeOK, Readings
  <1>4. at' = at /\ version' = version /\ stop' = stop BY <1>1 DEF brokerVars
  <1>5. Way' = Way /\ \A c \in calls' : CallHolds(c) BY <1>1 DEF Way, Told, WayHolds
  <1>6. WayHolds' BY <1>1, <1>5, WayStays
  <1>7. ASSUME NEW o \in Orders PROVE WillBeInStep(o)'
    <2>0. PICK v : v = version[o] OBVIOUS
    <2>1. ASSUME NEW m \in Way, TellsPlace(m, o), IsStale(m)
          PROVE  m.version < v
      <3>1. m \in Event /\ MessageTrue(m) /\ MessageHolds(m) BY WayIsTrue DEF Told, WayHolds
      <3>2. m.version \in Nat /\ version[o] \in Nat BY <3>1 DEF Event, Inv, TypeOK
      <3>3. m.version # version[o] BY <2>1, <3>1 DEF MessageHolds, TellsPlace, IsStale
      <3>4. m.version <= version[o] BY <2>1, <3>1 DEF MessageTrue, TellsPlace
      <3> QED BY <2>0, <3>2, <3>3, <3>4
    <2>2. StaleAreOlder(o, v)'
      BY <1>4, <1>5, <2>1 DEF StaleAreOlder, TellsPlace, IsStale
    <2>3. PlaceIn(o, waits)' BY <1>1, <1>4 DEF PlaceIn
    <2>4. PositionIn(o, there)' BY <1>2, <1>4 DEF PositionIn
    <2>5. at'[o] = "open" => o \in DOMAIN there BY <1>2, <1>4
    <2>6. v = version'[o] BY <1>4, <2>0
    <2>7. Reaches(o, v, v, waits, there)' BY <2>2, <2>3, <2>4, <2>5, <2>6 DEF Reaches
    <2> QED BY <1>3, <1>4, <2>0, <2>7 DEF WillBeInStep
  <1> QED BY <1>3, <1>6, <1>7 DEF Told, Followed

LEMMA ReadPastTold == Inv /\ Told /\ ReadPast => Told'
  <1> SUFFICES ASSUME Inv, Told, ReadPast PROVE Told'
    OBVIOUS
  <1>1. /\ reading.stage = "listed" /\ UNCHANGED brokerVars
        /\ UNCHANGED <<connected, status, positions, orders, newest, mixed, events>>
        /\ UNCHANGED calls
        /\ \E missed : \/ reading' = [reading EXCEPT !.stage = "whole", !.missed = missed]
                       \/ reading' = [reading EXCEPT !.stage = "whole", !.missed = missed,
                                        !.unread = TRUE]
    BY DEF ReadPast, accountVars, ghostVars
  <1>2. /\ reading'.versions = reading.versions /\ reading'.working = reading.working
        /\ reading'.open = reading.open /\ reading'.stage = "whole"
    BY <1>1 DEF Inv, TypeOK, Readings
  <1>3. Way' = Way /\ \A c \in calls' : CallHolds(c) BY <1>1 DEF Way, Told, WayHolds
  <1> QED BY <1>1, <1>2, <1>3, NothingTold

\* The reading replaces the book: it says no less of an order than was heard of it, or
\* the order is one of those an older word came to.
LEMMA ReconcileTold == Inv /\ Told /\ Reconcile => Told'
  <1> SUFFICES ASSUME Inv, Told, Reconcile PROVE Told'
    OBVIOUS
  <1>1. /\ reading.stage = "whole" /\ reading' = Reading("none")
        /\ positions' = reading.open /\ orders' = reading.working
        /\ newest' = [o \in Orders |-> Newer(newest[o], reading.versions[o])]
        /\ mixed' = {o \in Orders : reading.versions[o] < newest[o]}
        /\ calls' = Started(Missed, calls)
        /\ UNCHANGED brokerVars /\ UNCHANGED <<connected, events>>
    BY DEF Reconcile
  <1>2. at' = at /\ version' = version /\ stop' = stop BY <1>1 DEF brokerVars
  <1>3. Way' = Way /\ \A c \in calls' : CallHolds(c)
    BY <1>1, StartedHolds DEF Told, WayHolds, Way
  <1>4. WayHolds' BY <1>1, <1>3, WayStays
  <1>5. ASSUME NEW o \in Orders, connected PROVE InStep(o)'
    <2>1. PICK v, working, open :
            v = reading.versions[o] /\ working = reading.working /\ open = reading.open
      OBVIOUS
    <2>2. v \in Nat /\ newest[o] \in Nat BY <2>1 DEF Inv, TypeOK, Readings
    <2>3. CASE v < newest[o] BY <1>1, <2>1, <2>3 DEF InStep
    <2>4. CASE ~(v < newest[o])
      <3>1. newest'[o] = v BY <1>1, <2>1, <2>2, <2>4 DEF Newer
      <3>2. Reaches(o, v, v, working, open)
        BY <1>1, <1>5, <2>1, <2>2, <2>4 DEF Told, Followed, WillBeInStep
      <3>3. Reaches(o, -1, v, working, open) BY <2>2, <3>2, ReachesFrom
      <3>4. Reaches(o, -1, v, working, open)'
        BY <1>1, <1>2, <1>3, <3>3 DEF Reaches, PlaceComes, PlaceIn, StaleAreOlder, TellsPlace,
                                     IsStale, PositionComes, PositionIn, OpeningComes
      <3> QED BY <1>1, <2>1, <3>1, <3>4 DEF InStep
    <2> QED BY <2>3, <2>4
  <1>6. reading'.stage = "none" BY <1>1, ReadingType
  <1> QED BY <1>1, <1>4, <1>5, <1>6 DEF Told, Followed

LEMMA InitTold == Init => Told
  BY DEF Init, Told, WayHolds, Followed, Way

LEMMA TellStep == Inv /\ Told /\ [Next]_vars => Told'
  <1> SUFFICES ASSUME Inv, Told, [Next]_vars PROVE Told'
    OBVIOUS
  <1>1. CASE UNCHANGED vars
    <2>1. /\ UNCHANGED brokerVars /\ UNCHANGED reading /\ UNCHANGED calls
          /\ UNCHANGED <<connected, status, positions, orders, newest, mixed, events>>
      BY <1>1 DEF vars, wireVars, accountVars, ghostVars
    <2>2. Way' = Way /\ \A c \in calls' : CallHolds(c) BY <2>1 DEF Way, Told, WayHolds
    <2>3. /\ reading'.versions = reading.versions /\ reading'.working = reading.working
          /\ reading'.open = reading.open /\ reading'.stage = reading.stage
      BY <2>1
    <2> QED BY <2>1, <2>2, <2>3, NothingTold
  <1>2. CASE Next
    BY <1>2, MarketTold, UserTold, BrokerTold, EventTold, AnswerTold, ReadOpenTold, ReadPastTold,
       ReconcileTold, ConnectionTold DEF Next, Calls, Read
  <1> QED BY <1>1, <1>2

\* At rest nothing is left to come: the book is in step.
LEMMA RestIsCurrent == Inv /\ Told => BookIsCurrent
  <1> SUFFICES ASSUME Inv, Told, AtRest, NEW o \in Orders \ mixed PROVE AgreesOn(o)
    BY DEF BookIsCurrent
  <1>1. Way = {} /\ DOMAIN events = {} BY DEF AtRest, Way
  <1>2. Reaches(o, -1, newest[o], orders, positions) BY DEF AtRest, Told, Followed, InStep
  <1>3. (o \in orders) = (at[o] = "working") BY <1>1, <1>2 DEF Reaches, PlaceComes, PlaceIn
  <1>4. CASE at[o] \in Lived
    BY <1>1, <1>2, <1>3, <1>4 DEF Reaches, PositionComes, PositionIn, AgreesOn
  <1>5. CASE at[o] \notin Lived
    BY <1>3, <1>5 DEF Inv, BookTrue, Known, Lived, AgreesOn
  <1> QED BY <1>4, <1>5

(* At rest the book says of every order and position what the broker does,   *)
(* unless a message that was overtaken was applied to it (AccountBook::apply *)
(* and reconcile, Account::on_event, on_ready and refresh): the answers, the *)
(* events and the readings leave nothing out and nothing behind, whatever    *)
(* was lost, refused or silent on the way.                                   *)
THEOREM BookCatchesUp == Spec => []BookIsCurrent
  <1>1. Init => Inv /\ Told BY InitInv, InitTold
  <1>2. (Inv /\ Told) /\ [Next]_vars => (Inv /\ Told)' BY StepInv, TellStep
  <1> QED BY <1>1, <1>2, RestIsCurrent, PTL DEF Spec
=============================================================================
