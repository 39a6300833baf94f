-------------------------------- MODULE Alerts --------------------------------
(***************************************************************************)
(* The alerts (wyck-app/src/alerts.rs, with the rules of alerts/eval.rs    *)
(* and the book of alerts/model.rs): what judges an alert on a price event *)
(* or on bars that a task reads, what the user does to the alerts while a  *)
(* reading is under way, and the saved book that a start reads again.      *)
(*                                                                         *)
(* A handler runs alone.  What interleaves is when each runs: price events *)
(* (some are lost with the connection), the readings of the bars, each in  *)
(* a task of its own, the poll, the edits, and the delayed saves.          *)
(*                                                                         *)
(* One symbol and one timeframe.  Time is the number of the bar that is    *)
(* forming; a bar is its close, and the price is that of the bar that is   *)
(* forming.  An indicator is a series over the bars, the closes here.      *)
(* Abstracted: what is compared with a drawing or another series (the      *)
(* level is a number), spreads and profits (judged as a price is, on their *)
(* own readings), texts and sounds.                                        *)
(***************************************************************************)
EXTENDS Integers, Sequences, FiniteSets

CONSTANTS
  Values,       \* the prices, and the values of an indicator
  Offered,      \* what the user sets an alert to
  Limit,        \* how many alerts the user keeps (preferences().limits.alerts)
  Share,        \* the share of itself, in percent, a value moves by (Alert::amount)
  Window,       \* and the bars it may take (Alert::minutes)
  MaxBars,      \* bound: the market stops at this bar
  MaxEdits,     \* bound: how often the user changes the alerts
  MaxStarts     \* bound: how often the app starts again

Conditions == {"crossing up", "crossing down", "crossing", "above", "below",
               "enters", "exits", "moves", "direction"}
Triggers   == {"once", "every time", "once per bar", "bar close"}
Settings   == [source : {"price", "indicator"}, condition : Conditions,
               trigger : Triggers, price : Values, upper : Values]

\* What the editor lets the user set (AlertEditor::conditions and its triggers).
Editable(s) ==
  /\ s.source = "indicator" => s.condition # "moves" /\ s.trigger # "once per bar"
  /\ s.source = "price" => s.condition # "direction"

ASSUME AlertsAssumption ==
  /\ Values \subseteq Nat \ {0} /\ Offered \subseteq {s \in Settings : Editable(s)}
  /\ {Limit, Share} \subseteq Nat \ {0}
  /\ {Window, MaxBars, MaxEdits, MaxStarts} \subseteq Nat /\ MaxBars >= 4

VARIABLES
  book, last, moves,        \* the fields of Alerts: the book, what each alert saw last
  fresh, reading,           \* whether its bars are fresh, and the task that reads them
  scheduled, disk,          \* the book given to the saver, and the one it wrote
  bars,                     \* the market: the closes, the last one still forming
  edits, starts,
  told,                     \* what fired in the last step (AlertsEvent::Fired)
  fired, life,              \* history: what fired, and how often a crash took a change back
  prior, early, outrun      \* history: what each alert saw last of a time since it is as it is
                            \* set, those that saw bars read before that, and those set anew
                            \* since the bars of the reading under way were read

sightVars == <<prior, early, outrun>>
alertVars == <<book, last, moves, scheduled, sightVars>>
loadVars  == <<fresh, reading>>
pastVars  == <<edits, starts, life>>
allAlertVars == <<alertVars, loadVars, pastVars, disk, bars, told, fired>>

Empty         == [a \in {} |-> 0]
Put(f, a, v)  == [b \in DOMAIN f \cup {a} |-> IF b = a THEN v ELSE f[b]]
Without(f, S) == [a \in DOMAIN f \ S |-> f[a]]
Over(f, g)    == [a \in DOMAIN f \cup DOMAIN g |-> IF a \in DOMAIN f THEN f[a] ELSE g[a]]

lastBar  == Len(bars)
Idle     == [state |-> "none", bars |-> <<>>]
\* As in the code, with the number of its edition, as history.
NewAlert == [set : Settings, active : BOOLEAN, made : Nat, expires_at : Nat,
             snoozed_until : Nat, bar_key : Nat, edition : Nat]
Readings == [value : Values, level : Values, upper : Values]

AlertsInit ==
  /\ book = [alerts |-> Empty, next_id |-> 1] /\ last = Empty /\ moves = Empty
  /\ fresh = FALSE /\ reading = Idle
  /\ scheduled = book /\ disk = book
  /\ \E v \in Values : bars = <<v, v, v, v>>
  /\ edits = 0 /\ starts = 0
  /\ told = {} /\ fired = {} /\ life = 0
  /\ prior = Empty /\ early = {} /\ outrun = {}

-----------------------------------------------------------------------------
(* The rules of eval.rs *)

Reading(s, v) == [value |-> v, level |-> s.price, upper |-> s.upper]

\* Reading::inside: the sides of a zone may be given either way round.
Inside(r) == \/ r.level <= r.value /\ r.value <= r.upper
             \/ r.upper <= r.value /\ r.value <= r.level

\* Whether a value, and the level with it, went over what is between them.
Rises(before, r) == before.value < before.level /\ r.value >= r.level
Falls(before, r) == before.value > before.level /\ r.value <= r.level

Fired(condition, before, r) ==
  \/ condition \in {"crossing up", "crossing"} /\ Rises(before, r)
  \/ condition \in {"crossing down", "crossing"} /\ Falls(before, r)
  \/ condition = "above" /\ before.value <= before.level /\ r.value > r.level
  \/ condition = "below" /\ before.value >= before.level /\ r.value < r.level
  \/ condition = "enters" /\ ~Inside(before) /\ Inside(r)
  \/ condition = "exits" /\ Inside(before) /\ ~Inside(r)

\* A value is `Share' percent away from what it was.
MovedBy(then, v) == (IF v > then THEN v - then ELSE then - v) * 100 >= Share * then

\* eval::moved, over what is remembered of the window.
Moved(history, v) == \E m \in history : MovedBy(m.value, v)

\* eval::direction_changed
Turned(a, b, c) == (b > a /\ c < b) \/ (b < a /\ c > b)

\* Whether an alert is judged on bars, and on those that closed.
NeedsBars(s) == s.source = "indicator" \/ s.trigger = "bar close" \/ s.condition = "direction"
OnClosed(s)  == s.trigger = "bar close" \/ s.condition = "direction"

IsExpired(a) == a.expires_at # 0 /\ lastBar >= a.expires_at
Live(a)      == a.active /\ lastBar >= a.snoozed_until /\ ~IsExpired(a)

-----------------------------------------------------------------------------
(* What every handler ends with *)

\* Slip: the book is given to the saver before the bar is noted in it.
FireUnnoted(hits, bar) ==
  LET stops(a) == a \in hits /\ book.alerts[a].set.trigger = "once" IN
  /\ scheduled' = IF hits = {} THEN scheduled
                  ELSE [book EXCEPT !.alerts = [a \in DOMAIN @ |-> [@[a] EXCEPT !.active = @ /\ ~stops(a)]]]
  /\ book' = [book EXCEPT !.alerts =
                [a \in DOMAIN @ |-> [@[a] EXCEPT !.bar_key = IF a \in hits THEN bar[a] ELSE @,
                                               !.active = @ /\ ~stops(a)]]]
  /\ told' = {[alert |-> a, edition |-> book.alerts[a].edition, life |-> life, bar |-> bar[a]] : a \in hits}
  /\ fired' = fired \cup told'

\* Alerts::fire for each of `hits', once they are all known: the book counts it and
\* is saved.  The bar of each is kept for the triggers by bar.
Fire(hits, bar) ==
  /\ book' = [book EXCEPT !.alerts =
                [a \in DOMAIN book.alerts |->
                   IF a \notin hits THEN book.alerts[a]
                   ELSE [book.alerts[a] EXCEPT !.bar_key = bar[a],
                                               !.active = @ /\ book.alerts[a].set.trigger # "once"]]]
  /\ scheduled' = IF hits = {} THEN scheduled ELSE book'
  /\ told' = {[alert |-> a, edition |-> book.alerts[a].edition, life |-> life, bar |-> bar[a]] : a \in hits}
  /\ fired' = fired \cup told'

\* AlertBook::expire
Expired(b) ==
  [b EXCEPT !.alerts = [a \in DOMAIN b.alerts |->
                          [b.alerts[a] EXCEPT !.active = @ /\ ~IsExpired(b.alerts[a])]]]
Waiting(b) == \E a \in DOMAIN b.alerts : Live(b.alerts[a]) /\ NeedsBars(b.alerts[a].set)

\* Alerts::poll, from the book b: bars that nothing waits for are forgotten, and those
\* that are not fresh are read, unless they are being read.
Poll(b) ==
  /\ book' = Expired(b)
  /\ fresh' = (fresh /\ Waiting(book'))
  /\ reading' = IF Waiting(book') /\ ~fresh /\ reading.state = "none"
                THEN [reading EXCEPT !.state = "asked"] ELSE reading
  /\ told' = {} /\ UNCHANGED fired

-----------------------------------------------------------------------------
(* The user.  Every change goes through Alerts::edit. *)

\* What the alerts `own' saw is of before they are set as they are now, and so is what a reading
\* brings that was answered by now.
SetAnew(own) ==
  /\ prior' = Without(prior, own) /\ early' = early \ own
  /\ outrun' = IF reading.state = "answered" THEN outrun \cup own ELSE outrun

\* Slip: what the alerts saw is kept.
EditKeeps(b, own) ==
  /\ edits < MaxEdits /\ edits' = edits + 1
  /\ UNCHANGED <<last, moves>>
  /\ SetAnew(own)
  /\ Poll(b)
  /\ scheduled' = book'
  /\ UNCHANGED <<disk, bars, starts, life>>

\* Alerts::edit: what every alert saw is forgotten, the book is saved, and the bars are
\* read; a reading that is under way is not stopped.
Edit(b, own) ==
  /\ edits < MaxEdits /\ edits' = edits + 1
  /\ last' = Empty /\ moves' = Empty
  /\ SetAnew(own)
  /\ Poll(b)
  /\ scheduled' = book'
  /\ UNCHANGED <<disk, bars, starts, life>>

Changed(a, alert) == Edit([book EXCEPT !.alerts[a] = alert], {a})

Made(s) ==
  [set |-> s, active |-> TRUE, made |-> lastBar, expires_at |-> 0, snoozed_until |-> 0,
   bar_key |-> 0, edition |-> edits + 1]
Added(s) == [alerts |-> Put(book.alerts, book.next_id, Made(s)), next_id |-> book.next_id + 1]

\* AlertBook::insert: at the limit nothing is added.
Add(s) == IF Cardinality(DOMAIN book.alerts) >= Limit THEN Edit(book, {})
          ELSE Edit(Added(s), {book.next_id})

\* AlertEditor::save: the draft replaces the alert, which keeps when it was made.
Save(a, s, expires) ==
  Changed(a, [book.alerts[a] EXCEPT !.set = s, !.active = TRUE, !.snoozed_until = 0, !.bar_key = 0,
                                    !.expires_at = IF expires THEN lastBar + 1 ELSE 0,
                                    !.edition = edits + 1])

\* The line of an alert, which those on a price at a level have, is dragged.
MoveLine(a, price) ==
  LET set == book.alerts[a].set IN
  /\ book.alerts[a].active /\ set.source = "price" /\ set.condition # "moves"
  /\ set.price # price
  /\ Changed(a, [book.alerts[a] EXCEPT !.set.price = price])

Snooze(a) == Changed(a, [book.alerts[a] EXCEPT !.snoozed_until = lastBar + 1])

TurnOff(a) == book.alerts[a].active /\ Changed(a, [book.alerts[a] EXCEPT !.active = FALSE])

Remove(a) == Edit([book EXCEPT !.alerts = Without(@, {a})], {a})

UserActs ==
  \/ \E s \in Offered : Add(s)
  \/ \E a \in DOMAIN book.alerts :
       \/ \E s \in Offered, expires \in BOOLEAN : Save(a, s, expires)
       \/ \E price \in Values : MoveLine(a, price)
       \/ Snooze(a) \/ TurnOff(a) \/ Remove(a)

-----------------------------------------------------------------------------
(* The market and its events (external) *)

PriceMoves ==
  /\ \E v \in Values \ {bars[lastBar]} : bars' = [bars EXCEPT ![lastBar] = v]
  /\ told' = {}
  /\ UNCHANGED <<alertVars, loadVars, pastVars, disk, fired>>

BarOpens ==
  /\ lastBar < MaxBars
  /\ \E v \in Values : bars' = Append(bars, v)
  /\ told' = {}
  /\ UNCHANGED <<alertVars, loadVars, pastVars, disk, fired>>

\* Alerts::on_spot, for a price event that comes: the alerts that follow the price
\* are judged against what they saw before, and those that it hits fire.
OnSpot ==
  LET v == bars[lastBar]
      judged == {a \in DOMAIN book.alerts : Live(book.alerts[a]) /\ ~NeedsBars(book.alerts[a].set)}
      set(a) == book.alerts[a].set
      seen   == [a \in judged |-> Reading(set(a), v)]
      window == [a \in {b \in judged : set(b).condition = "moves"} |->
                   {m \in (IF a \in DOMAIN moves THEN moves[a] ELSE {}) \cup {[at |-> lastBar, value |-> v]} :
                      lastBar - m.at <= Window}]
      hit(a) == IF set(a).condition = "moves" THEN Moved(window[a], v)
                ELSE a \in DOMAIN last /\ Fired(set(a).condition, last[a], seen[a])
      hits == {a \in judged : hit(a) /\ ~(set(a).trigger = "once per bar" /\ book.alerts[a].bar_key = lastBar)}
  IN /\ last' = Over(seen, last) /\ prior' = Over(seen, prior)
     /\ moves' = Without(Over(window, moves), hits)
     /\ Fire(hits, [a \in hits |-> lastBar])
     /\ UNCHANGED <<early, outrun, loadVars, pastVars, disk, bars>>

-----------------------------------------------------------------------------
(* The bars *)

\* The bar a reading of n bars is judged on: the last one that closed, or the one
\* that is forming.
Judges(s, n) == IF OnClosed(s) THEN n - 1 ELSE n

\* eval::judge_bars, over the bars s that a reading brought, for an alert that saw
\* `before' the last time.
HitOn(alert, s, seen, before) ==
  LET at == Judges(alert.set, Len(s))
      r(i) == Reading(alert.set, s[i])
  IN /\ IF alert.set.condition = "direction" THEN Turned(s[at - 2], s[at - 1], s[at])
        ELSE IF OnClosed(alert.set) THEN Fired(alert.set.condition, r(at - 1), r(at))
        ELSE seen /\ Fired(alert.set.condition, before, r(at))
     /\ OnClosed(alert.set) \/ alert.set.trigger = "once per bar" => alert.bar_key # at
     /\ OnClosed(alert.set) => at + 1 > alert.made

LoadAnswers ==
  /\ reading.state = "asked"
  /\ reading' = [reading EXCEPT !.state = "answered", !.bars = bars]
  /\ told' = {}
  /\ UNCHANGED <<alertVars, fresh, pastVars, disk, bars, fired>>

LoadFails ==
  /\ reading.state = "asked"
  /\ reading' = [reading EXCEPT !.state = "failed"]
  /\ told' = {}
  /\ UNCHANGED <<alertVars, fresh, pastVars, disk, bars, fired>>

\* Slip: a reading that failed is still taken for one under way.
LoadLost ==
  /\ reading.state = "failed" /\ told' = {}
  /\ UNCHANGED <<alertVars, loadVars, pastVars, disk, bars, fired>>

LoadFailed ==
  /\ reading.state = "failed" /\ reading' = Idle
  /\ told' = {}
  /\ UNCHANGED <<alertVars, fresh, pastVars, disk, bars, fired>>

\* The end of a reading that succeeded, and Alerts::judge_bars: the alerts that
\* need bars now are judged, whatever needed them when the reading started.
LoadDone ==
  LET s == reading.bars
      judged == {a \in DOMAIN book.alerts : Live(book.alerts[a]) /\ NeedsBars(book.alerts[a].set)}
      at   == [a \in judged |-> Judges(book.alerts[a].set, Len(s))]
      seen == [a \in judged |-> Reading(book.alerts[a].set, s[at[a]])]
      hits == {a \in judged : HitOn(book.alerts[a], s, a \in DOMAIN last, IF a \in DOMAIN last THEN last[a] ELSE seen[a])}
  IN /\ reading.state = "answered" /\ reading' = Idle /\ fresh' = TRUE
     /\ last' = Over(seen, last)
     /\ prior' = Over([a \in judged \ outrun |-> seen[a]], prior)
     /\ early' = (early \ judged) \cup (judged \cap outrun) /\ outrun' = {}
     /\ Fire(hits, [a \in hits |-> at[a]])
     /\ UNCHANGED <<moves, pastVars, disk, bars>>

\* Almost fifteen seconds after they were read.
BarsAge ==
  /\ fresh /\ fresh' = FALSE
  /\ told' = {}
  /\ UNCHANGED <<alertVars, reading, pastVars, disk, bars, fired>>

\* Every fifteen seconds.
PollTimer ==
  /\ Poll(book)
  /\ scheduled' = IF book' # book THEN book' ELSE scheduled
  /\ UNCHANGED <<last, moves, sightVars, pastVars, disk, bars>>

-----------------------------------------------------------------------------
(* The saver, and the ends and starts of the app *)

SaverWrites ==
  /\ disk # scheduled /\ disk' = scheduled
  /\ told' = {}
  /\ UNCHANGED <<alertVars, loadVars, pastVars, bars, fired>>

\* Alerts::new, with what the disk holds.
Starts(saved) ==
  /\ starts < MaxStarts /\ starts' = starts + 1
  /\ book' = saved /\ disk' = saved /\ scheduled' = saved
  /\ last' = Empty /\ moves' = Empty /\ prior' = Empty /\ early' = {} /\ outrun' = {}
  /\ fresh' = FALSE /\ reading' = Idle
  /\ told' = {} /\ UNCHANGED <<fired, bars, edits>>

\* The app quits, which flushes the saver, and starts again; or it crashes.
Restart == Starts(scheduled) /\ UNCHANGED life
Crash   == Starts(disk) /\ life' = IF disk = book THEN life ELSE life + 1

-----------------------------------------------------------------------------
AlertsNext ==
  \/ UserActs
  \/ PriceMoves \/ BarOpens \/ OnSpot
  \/ LoadAnswers \/ LoadFails \/ LoadFailed \/ LoadDone \/ BarsAge \/ PollTimer
  \/ SaverWrites \/ Restart \/ Crash

AlertsSpec == AlertsInit /\ [][AlertsNext]_allAlertVars

\* The timer of the poll runs, bars grow old, a reading ends, and one that is asked
\* for again and again is answered in the end (the session comes back).
AlertsFairSpec ==
  /\ AlertsSpec
  /\ WF_allAlertVars(PollTimer) /\ WF_allAlertVars(BarsAge)
  /\ SF_allAlertVars(LoadAnswers) /\ WF_allAlertVars(LoadFailed) /\ WF_allAlertVars(LoadDone)

-----------------------------------------------------------------------------
(* Properties *)

\* Every variable has its type.
AlertsTypeOK ==
  /\ DOMAIN book.alerts \subseteq 1 .. book.next_id - 1
  /\ \A a \in DOMAIN book.alerts : book.alerts[a] \in NewAlert
  /\ \A a \in DOMAIN last : last[a] \in Readings
  /\ DOMAIN moves \subseteq DOMAIN last /\ fresh \in BOOLEAN
  /\ reading.state \in {"none", "asked", "answered", "failed"}
  /\ Cardinality(DOMAIN book.alerts) <= Limit

\* An alert that fires once, or once for a bar, does not fire again: not after a start,
\* nor when it is snoozed, dragged or judged on the same bars again.  Only the editor arms
\* it anew, and a crash may take the firing back (Trigger: "Once, then it stops", "At most
\* once for each bar").
FiresAtMostOnce ==
  [][\A f \in told' :
       LET trigger == book.alerts[f.alert].set.trigger IN
       trigger # "every time" =>
         \A g \in fired : g.alert = f.alert /\ g.edition = f.edition /\ g.life = f.life =>
                            trigger # "once" /\ g.bar # f.bar]_allAlertVars

\* What an alert saw the last time, and sees now, both of a time since it is as it is set, meets
\* its condition.
MetSince(a) == a \in DOMAIN prior /\ Fired(book.alerts[a].set.condition, prior[a], prior'[a])

\* An alert that is judged against what it saw fires on what it saw since it is as it is set: no
\* crossing is made up of a level it had before, or of a price or of bars of before (edit: "What an
\* alert saw belongs to how it was set: it starts again").  But for one that, since then, was
\* last judged on bars read before: those of a reading that was under way when it was set.  One
\* that is judged on closed bars fires for none that had closed when it was made; an edit and a
\* drag leave that time as it was, so a bar that closed before them may fire it.
FiresOnWhatItSaw ==
  [][\A f \in told' :
       LET alert == book.alerts[f.alert] IN
       IF OnClosed(alert.set) THEN f.bar >= alert.made
       ELSE alert.set.condition # "moves" => f.alert \in early \/ MetSince(f.alert)]_allAlertVars

\* As long as an alert needs bars they are read again, however many readings fail
\* ("the bars of the alert's timeframe, which are read again every few seconds").
BarsAreRead == Waiting(book) ~> ~Waiting(book) \/ reading.state = "answered"
=============================================================================
