------------------------------ MODULE ChartHistory ------------------------------
(***************************************************************************)
(* The bars one chart holds (wyck-ui/src/chart/chart/history.rs, with the  *)
(* series of wyck-domain/src/chart/data.rs and the loads of wyck-app/src/  *)
(* market_data/load.rs): the first load, older pages, the gap after a lost *)
(* connection, and the live bars, on top of a session that comes and goes. *)
(*                                                                         *)
(* The history comes by requests, each in a task of its own, and the live  *)
(* bars by the events of the session, in order: the two are not ordered    *)
(* with each other, so an answer may be older or newer than the live bars  *)
(* around it.  An epoch says which requests are still of use.              *)
(*                                                                         *)
(* A symbol here is one at a timeframe of the server (Timeframe::Bars). A *)
(* bar is its time, a slot, and how many ticks it has, which the server    *)
(* only ever adds to; so a bar with fewer is an older state of it.  The    *)
(* series is kept sorted by time: it is a function of the slot, with 0 for *)
(* no bar.  Abstracted: prices, the view (any page may be near), grouped   *)
(* and tick-built timeframes, order flow, and replays.                     *)
(***************************************************************************)
EXTENDS Naturals, Sequences, FiniteSetsExt

CONSTANTS
  Symbols, NoSymbol,  \* what a chart can show, and nothing yet
  Page,               \* how many bars a load going back brings (load.rs WANT_BARS)
  Capacity,           \* how many bars a chart keeps (data.rs MAX_BARS)
  EventCapacity,      \* how many events wait for a reader (config.rs event_capacity)
  Traded,             \* bound: the symbols whose market is open
  Past,               \* bound: the slots that are over when the chart opens
  LastSlot,           \* bound: the time of the market stops here
  MaxTicks,           \* bound: the most ticks of a bar
  MaxEpoch,           \* bound: the user changes nothing more from this epoch on
  MaxDrops            \* bound: how often the connection or the account's session ends

ASSUME ChartAssumption ==
  /\ NoSymbol \notin Symbols /\ Traded \subseteq Symbols
  /\ {Page, Capacity, EventCapacity, MaxTicks} \subseteq Nat \ {0}
  /\ {Past, LastSlot, MaxEpoch, MaxDrops} \subseteq Nat /\ Past < LastSlot

VARIABLES
  shown, epoch, load, older, held,   \* the fields of Chart; held is its series
  requests,                          \* its loads, each in a task of its own
  events,                            \* what the session said and the chart has not seen
  link, signed, followed,            \* the connection, the account's session, the live bars sent
  now, made,                         \* the slot that is open, and the ticks of every bar
  drops,
  missed                             \* history: the bars that the code lets go

chartVars  == <<shown, epoch, load, older, held>>
netVars    == <<link, signed, followed, drops>>
marketVars == <<now, made>>
vars == <<chartVars, requests, events, netVars, marketVars, missed>>

Slots    == 1..LastSlot
Series   == [Slots -> 0..MaxTicks]
NoBars   == [t \in Slots |-> 0]
Times(bars) == {t \in Slots : bars[t] > 0}
Requests == [kind : {"initial", "older", "gap"}, epoch : Nat, of : Symbols,
             from : Slots, to : 0..LastSlot, state : {"asked", "answered", "failed"},
             bars : Series]
Events   == [kind : {"ready", "live"}, of : Symbols \cup {NoSymbol},
             slot : 0..LastSlot, ticks : 0..MaxTicks]
Ready    == [kind |-> "ready", of |-> NoSymbol, slot |-> 0, ticks |-> 0]

Init ==
  /\ shown = NoSymbol /\ epoch = 0 /\ load = "idle" /\ older = "idle" /\ held = NoBars
  /\ requests = {} /\ events = <<>>
  /\ link = TRUE /\ signed = TRUE /\ followed = NoSymbol /\ drops = 0
  /\ now = Past + 1
  /\ made = [c \in Symbols |-> [t \in Slots |-> IF t <= Past THEN 1 ELSE 0]]
  /\ missed = {}

-----------------------------------------------------------------------------
(* What the chart does with bars *)

\* Where the chart shows less than the market made.
Behind(bars, of) == IF of = NoSymbol THEN {} ELSE {t \in Slots : bars[t] < made[of][t]}

\* The slots a chart is to have all of: from its oldest bar on, or all when the market had none.
\* What is older comes with the pages the user asks for.
Accounted(bars) == {t \in Slots : bars = NoBars \/ \E u \in Times(bars) : u <= t}

\* The slots whose bar, as the market made it, no queued event tells.
Untold(queue) == {t \in Slots : \A i \in DOMAIN queue :
  queue[i] # [kind |-> "live", of |-> shown, slot |-> t, ticks |-> made[shown][t]]}

\* What the chart gives up joins what it missed; what was brought after all leaves it.
GiveUp(slots) == missed' = (missed \cup slots) \cap Behind(held', shown)

\* What the chart is not told of it misses; before its first load is in, the load is to bring it.
LoseSight(slots) ==
  missed' = missed \cup
    IF load = "ready" THEN slots \cap Accounted(held) \cap Behind(held, shown) \cap Untold(events') ELSE {}

\* A load is asked on the client of the moment; without one it fails at once.
Ask(kind, of, from, to, e) ==
  [kind |-> kind, epoch |-> e, of |-> of, from |-> from, to |-> to,
   state |-> IF link THEN "asked" ELSE "failed", bars |-> NoBars]

\* reload: everything held goes, and the symbol is loaded from scratch.
Reload(c) ==
  /\ shown' = c /\ epoch' = epoch + 1 /\ load' = "loading" /\ older' = "idle"
  /\ held' = NoBars /\ missed' = {}
  /\ requests' = requests \cup {Ask("initial", c, 1, now, epoch + 1)}

\* Slip: the gap is asked for from the bar after the newest one held.
RefillAfterTheNewest ==
  IF held = NoBars THEN Reload(shown)
  ELSE /\ requests' = requests \cup
            {Ask("gap", shown, IF Max(Times(held)) = LastSlot THEN LastSlot
                               ELSE Max(Times(held)) + 1, now, epoch)}
       /\ missed' = {t \in missed : t < Max(Times(held))}
       /\ UNCHANGED chartVars

\* refill: from the newest bar held, which may have been cut short, to now; so what was missed
\* there is to come after all.
Refill ==
  IF held = NoBars THEN Reload(shown)
  ELSE /\ requests' = requests \cup {Ask("gap", shown, Max(Times(held)), now, epoch)}
       /\ missed' = {t \in missed : t < Max(Times(held))}
       /\ UNCHANGED chartVars

\* merge_bars: of two states of a bar the one with more ticks is the fresher.
Merge(bars, fetched) == [t \in Slots |-> IF fetched[t] > bars[t] THEN fetched[t] ELSE bars[t]]

\* prepend_bars: only what is older than everything held.
Prepend(bars, page) ==
  [t \in Slots |-> IF t < Min(Times(bars)) THEN page[t] ELSE bars[t]]

\* trim_front: the oldest bars beyond the capacity go.
Trim(bars) ==
  [t \in Slots |-> IF Cardinality({u \in Times(bars) : u >= t}) <= Capacity THEN bars[t] ELSE 0]

\* apply_live_bar: a bar older than the first one held is dropped, any other takes its place.
ApplyLive(bars, slot, ticks) ==
  IF bars # NoBars /\ slot < Min(Times(bars)) THEN bars ELSE [bars EXCEPT ![slot] = ticks]

\* load_older_if_needed: asks for a page when the view is near the oldest bar held (or not: the
\* view is abstracted), and for none when the chart is full.
OlderIfNeeded(bars, idle, others) ==
  IF Cardinality(Times(bars)) >= Capacity
  THEN older' = "exhausted" /\ requests' = others
  ELSE \/ older' = idle /\ requests' = others
       \/ /\ bars # NoBars /\ older' = "loading"
          /\ requests' = others \cup {Ask("older", shown, 1, Min(Times(bars)) - 1, epoch)}

-----------------------------------------------------------------------------
(* The user *)

\* set_symbol, set_timeframe: nothing happens when it is the same.
Show(c) ==
  /\ epoch < MaxEpoch /\ c # shown /\ Reload(c)
  /\ UNCHANGED <<events, netVars, marketVars>>

Retry ==
  /\ epoch < MaxEpoch /\ load = "failed" /\ Reload(shown)
  /\ UNCHANGED <<events, netVars, marketVars>>

\* The user scrolls back; a load that failed is asked again after a while.
AskOlder ==
  /\ load = "ready" /\ older \in {"idle", "retry"} /\ held # NoBars
  /\ OlderIfNeeded(held, older, requests)
  /\ UNCHANGED <<shown, epoch, load, held, events, netVars, marketVars, missed>>

-----------------------------------------------------------------------------
(* The answers of the loads *)

Done(r)    == requests' = requests \ {r}
Current(r) == r.epoch = epoch

\* What comes for another epoch is dropped.
Outdated(r) ==
  /\ r.state # "asked" /\ ~Current(r) /\ Done(r)
  /\ UNCHANGED <<chartVars, events, netVars, marketVars, missed>>

\* Slip: the epoch is not asked.
AnyInitialLoaded(r) ==
  /\ r.kind = "initial" /\ r.state # "asked"
  /\ IF r.state = "answered"
     THEN /\ held' = r.bars /\ load' = "ready" /\ GiveUp(Accounted(held') \cap Untold(events))
          /\ OlderIfNeeded(held', older, requests \ {r})
     ELSE load' = "failed" /\ Done(r) /\ UNCHANGED <<held, older, missed>>
  /\ UNCHANGED <<shown, epoch, events, netVars, marketVars>>

\* initial_loaded: what the market did since the server read the bars, and the chart was told of
\* while it was loading (or not at all), is not in them, and nothing asks for it.
InitialLoaded(r) ==
  /\ r.kind = "initial" /\ r.state # "asked" /\ Current(r)
  /\ IF r.state = "answered"
     THEN /\ held' = r.bars /\ load' = "ready" /\ GiveUp(Accounted(held') \cap Untold(events))
          /\ OlderIfNeeded(held', older, requests \ {r})
     ELSE load' = "failed" /\ Done(r) /\ UNCHANGED <<held, older, missed>>
  /\ UNCHANGED <<shown, epoch, events, netVars, marketVars>>

\* gap_loaded: a gap that could not be filled is not asked for again.
GapLoaded(r) ==
  /\ r.kind = "gap" /\ r.state # "asked" /\ Current(r) /\ Done(r)
  /\ IF r.state = "answered"
     THEN held' = Merge(held, r.bars) /\ GiveUp({})
     ELSE UNCHANGED held /\ GiveUp(r.from..r.to)
  /\ UNCHANGED <<shown, epoch, load, older, events, netVars, marketVars>>

\* older_loaded: nothing new means that there is nothing older.
OlderLoaded(r) ==
  /\ r.kind = "older" /\ r.state # "asked" /\ Current(r)
  /\ IF r.state = "answered"
     THEN /\ held' = Prepend(held, r.bars)
          /\ IF held' = held THEN older' = "exhausted" /\ Done(r)
                            ELSE OlderIfNeeded(held', "idle", requests \ {r})
     ELSE older' = "retry" /\ Done(r) /\ UNCHANGED held
  /\ GiveUp({})
  /\ UNCHANGED <<shown, epoch, load, events, netVars, marketVars>>

-----------------------------------------------------------------------------
(* The events of the session *)

OnReady ==
  /\ events # <<>> /\ Head(events).kind = "ready" /\ events' = Tail(events)
  /\ CASE load = "failed" -> Reload(shown)
       [] load = "ready"  -> Refill
       [] OTHER           -> UNCHANGED <<chartVars, requests, missed>>
  /\ UNCHANGED <<netVars, marketVars>>

\* on_live: prices of another symbol, or while the chart loads, are not for the series.  A live bar
\* that an answer overtook takes the place of a fresher one, for good when no event behind it tells
\* the bar again; a bar that is trimmed while a page, or a gap that starts before it, is on its way
\* leaves a hole in what that brings.
OnLive ==
  /\ events # <<>> /\ Head(events).kind = "live" /\ events' = Tail(events)
  /\ LET e    == Head(events)
         next == ApplyLive(held, e.slot, e.ticks)
     IN  IF e.of = shown /\ load = "ready"
         THEN /\ held' = Trim(next)
              /\ GiveUp({t \in Untold(events') : next[t] < held[t]} \cup
                        {t \in Slots : held'[t] < next[t] /\ \E r \in requests :
                           Current(r) /\ (r.kind = "gap" => r.from <= t)})
         ELSE UNCHANGED <<held, missed>>
  /\ UNCHANGED <<shown, epoch, load, older, requests, netVars, marketVars>>

-----------------------------------------------------------------------------
(* The session and the hub (SessionSupervisor, LiveFeed), as the chart sees them *)

\* The broadcast of the session: a reader that lags loses the oldest event, and does not hear of it.
Emit(e) ==
  IF Len(events) < EventCapacity
  THEN events' = Append(events, e) /\ UNCHANGED missed
  ELSE /\ events' = Append(Tail(events), e)
       /\ LET lost == Head(events)
          IN  LoseSight({t \in Slots : lost.kind = "live" => lost.of = shown /\ lost.slot = t})

\* The waiters of a connection fail with it.
Drop ==
  /\ link /\ drops < MaxDrops /\ link' = FALSE /\ drops' = drops + 1
  /\ requests' = {IF r.state = "asked" THEN [r EXCEPT !.state = "failed"] ELSE r : r \in requests}
  /\ UNCHANGED <<chartVars, events, signed, followed, marketVars, missed>>

\* The registry is restored, and then Ready is told.
Reconnect ==
  /\ ~link /\ link' = TRUE /\ signed' = TRUE /\ Emit(Ready)
  /\ UNCHANGED <<chartVars, requests, followed, drops, marketVars>>

\* AccountDisconnected: the connection stays and sends no prices.
AccountOut ==
  /\ link /\ signed /\ drops < MaxDrops /\ signed' = FALSE /\ drops' = drops + 1
  /\ UNCHANGED <<chartVars, requests, events, link, followed, marketVars, missed>>

\* reauthorize_account: the subscriptions come back, but Ready is not told.
AccountBack ==
  /\ link /\ ~signed /\ signed' = TRUE
  /\ UNCHANGED <<chartVars, requests, events, link, followed, drops, marketVars>>
  /\ LoseSight(Slots)

\* The hub follows what the chart shows, after a while: what the server would have sent before is
\* not sent.  Without a connection the wish is recorded, and the next one is restored with it.
Follow ==
  /\ followed # shown /\ (link => signed) /\ followed' = shown
  /\ UNCHANGED <<chartVars, requests, events, link, signed, drops, marketVars>>
  /\ LoseSight(IF link THEN Slots ELSE {})

-----------------------------------------------------------------------------
(* The server *)

\* The newest bars of a page: those that open up to "to".
Newest(c, to) ==
  [t \in Slots |->
     IF t <= to /\ Cardinality({u \in Times(made[c]) : t <= u /\ u <= to}) <= Page
     THEN made[c][t] ELSE 0]

\* bars_forward: every bar of the range.
InRange(c, from, to) == [t \in Slots |-> IF from <= t /\ t <= to THEN made[c][t] ELSE 0]

End(r, state, bars) ==
  /\ r.state = "asked"
  /\ requests' = (requests \ {r}) \cup {[r EXCEPT !.state = state, !.bars = bars]}
  /\ UNCHANGED <<chartVars, events, netVars, marketVars, missed>>

Answer(r) ==
  /\ link /\ signed
  /\ End(r, "answered",
         IF r.kind = "gap" THEN InRange(r.of, r.from, r.to) ELSE Newest(r.of, r.to))

\* Refused, or not answered in time.
Refuse(r) == End(r, "failed", NoBars)

Sent(c) == link /\ signed /\ followed = c

\* The price moves: one more tick in the open bar, told as the bar it makes.
Trade(c) ==
  /\ made[c][now] < MaxTicks
  /\ made' = [made EXCEPT ![c][now] = @ + 1]
  /\ IF Sent(c)
     THEN Emit([kind |-> "live", of |-> c, slot |-> now, ticks |-> made'[c][now]])
     ELSE UNCHANGED <<events, missed>>
  /\ UNCHANGED <<chartVars, requests, netVars, now>>

NextBar ==
  /\ now < LastSlot /\ now' = now + 1
  /\ UNCHANGED <<chartVars, requests, events, netVars, made, missed>>

-----------------------------------------------------------------------------

Loaded(r) == Outdated(r) \/ InitialLoaded(r) \/ GapLoaded(r) \/ OlderLoaded(r)
OnEvent   == OnReady \/ OnLive
Server    == (\E r \in requests : Answer(r) \/ Refuse(r)) \/ (\E c \in Traded : Trade(c)) \/ NextBar
Network   == Drop \/ Reconnect \/ AccountOut \/ AccountBack \/ Follow
User      == (\E c \in Symbols : Show(c)) \/ Retry \/ AskOlder

Next == User \/ (\E r \in requests : Loaded(r)) \/ OnEvent \/ Network \/ Server

Spec == Init /\ [][Next]_vars

-----------------------------------------------------------------------------

\* The types of the variables.
TypeOK ==
  /\ shown \in Symbols \cup {NoSymbol} /\ epoch \in Nat
  /\ load \in {"idle", "loading", "ready", "failed"}
  /\ older \in {"idle", "loading", "retry", "exhausted"}
  /\ held \in Series /\ requests \subseteq Requests
  /\ events \in Seq(Events) /\ Len(events) <= EventCapacity
  /\ link \in BOOLEAN /\ signed \in BOOLEAN /\ followed \in Symbols \cup {NoSymbol}
  /\ now \in Slots /\ made \in [Symbols -> Series] /\ drops \in Nat
  /\ missed \subseteq Slots

\* What the chart shows are bars of what it shows, as the market made them or an earlier state of
\* them, whatever was asked for, and answered, before the user chose something else.
OnlyItsOwn == shown # NoSymbol => \A t \in Slots : held[t] <= made[shown][t]

\* The chart is loaded, nothing is on its way to it, and what it shows is being sent.
AtRest ==
  /\ load = "ready" /\ events = <<>> /\ ~\E r \in requests : Current(r)
  /\ link /\ signed /\ followed = shown

\* Once it is at rest, a chart has every bar from its oldest one on, none missing and none cut
\* short, however the connection came and went and however the answers and the live bars crossed:
\* but for the bars that the code lets go.  These are, of the slots the chart accounted for at the
\* time, the ones that lagged when its first load came, when a session was given back without a
\* Ready or the symbol was only then followed; the one that a lagging reader lost (all, with a
\* Ready); those of a gap that could not be fetched; one that an overtaken live bar replaced; and
\* one that was trimmed under a load.  None of them is let go that the queue still tells, or that
\* a later gap, a page or a live bar brings.
NothingIsMissing ==
  AtRest => \A t \in Accounted(held) : held[t] # made[shown][t] => t \in missed

=============================================================================
