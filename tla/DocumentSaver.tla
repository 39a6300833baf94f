----------------------------- MODULE DocumentSaver -----------------------------
(***************************************************************************)
(* A document of the app and its saver (crates/wyck-app/src/saver.rs), down *)
(* to the steps of atomic_write (crates/wyck-storage/src/fs_util.rs): the  *)
(* timers of the changes, the threads that write, and what a close, a      *)
(* crash or a power cut leaves for the next start.                         *)
(*                                                                         *)
(* A document is the number of the change that made it; 0 is the default,  *)
(* of an app that saved nothing, and also a file without contents.  One    *)
(* document stands for each: savers share nothing.                         *)
(***************************************************************************)
EXTENDS Naturals

CONSTANT MaxEdits   \* bound: the changes of the document over all the starts

ASSUME EditsAssumption == MaxEdits \in Nat

Values == 0..MaxEdits

\* Who may write: the blocking task of the timer of a change, or the app's own thread.
Threads == 0..MaxEdits
App     == 0

VARIABLES
  app,         \* "running", "closing", "closed" (it went by itself) or "off"
  doc, made,   \* the document on the screen, and how many changes were made
  counting,    \* schedule: the value is there, its generation is not yet
  pending,     \* Inner.pending; 0 for None
  generation,  \* Inner.generation
  timers,      \* the generations whose quiet time runs
  at, hand,    \* per thread: where its flush is, and the value it took
  file,        \* what a reader of the document finds
  onDisk,      \* what the file may turn out to be after a power cut ...
  whole,       \* ... if its contents were flushed
  aside,       \* what name.toml.bad holds
  lost         \* history: values whose write failed or that an older write replaced

threadVars == <<at, hand>>
diskVars   == <<file, onDisk, whole, aside>>
saverVars  == <<counting, pending, generation, timers>>
vars == <<app, doc, made, saverVars, threadVars, diskVars, lost>>

Stages == {"idle", "asked", "holds", "written", "renamed"}

Init ==
  /\ app = "running" /\ doc = 0 /\ made = 0
  /\ counting = FALSE /\ pending = 0 /\ generation = 0 /\ timers = {}
  /\ at = [t \in Threads |-> "idle"] /\ hand = [t \in Threads |-> 0]
  /\ file = 0 /\ onDisk = {0} /\ whole = {0} /\ aside = 0
  /\ lost = {}

-----------------------------------------------------------------------------
(* The app's own thread *)

Free == app = "running" /\ ~counting /\ at[App] = "idle"

\* schedule: the value replaces the one that waits ...
Schedule ==
  /\ Free /\ made < MaxEdits
  /\ made' = made + 1 /\ doc' = made + 1 /\ pending' = made + 1
  /\ counting' = TRUE
  /\ UNCHANGED <<app, generation, timers, threadVars, diskVars, lost>>

\* ... and its quiet time starts.
Count ==
  /\ app = "running" /\ counting
  /\ counting' = FALSE
  /\ generation' = generation + 1 /\ timers' = timers \cup {generation + 1}
  /\ UNCHANGED <<app, doc, made, pending, threadVars, diskVars, lost>>

\* flush, asked for by a page (a backup, an update, a move of the folders).
FlushNow ==
  /\ Free /\ at' = [at EXCEPT ![App] = "asked"]
  /\ UNCHANGED <<app, doc, made, saverVars, hand, diskVars, lost>>

\* on_app_quit: the app flushes, then goes.
Close ==
  /\ Free /\ app' = "closing" /\ at' = [at EXCEPT ![App] = "asked"]
  /\ UNCHANGED <<doc, made, saverVars, hand, diskVars, lost>>

-----------------------------------------------------------------------------
(* The timers and the threads *)

\* Slip: the comparison is the wrong way round: a timer that was overtaken asks for a flush, and
\* that of the newest change does not.
TimerForgets(g) ==
  /\ app \in {"running", "closing"} /\ g \in timers
  /\ timers' = timers \ {g}
  /\ at' = IF g < generation THEN [at EXCEPT ![g] = "asked"] ELSE at
  /\ UNCHANGED <<app, doc, made, counting, pending, generation, hand, diskVars, lost>>

\* The quiet time of a change ends: unless a newer change came, a thread will flush.
TimerEnds(g) ==
  /\ app \in {"running", "closing"} /\ g \in timers
  /\ timers' = timers \ {g}
  /\ at' = IF g = generation THEN [at EXCEPT ![g] = "asked"] ELSE at
  /\ UNCHANGED <<app, doc, made, counting, pending, generation, hand, diskVars, lost>>

\* Inner::flush takes the value, under the lock; the rest is done without it.
Take(t) ==
  /\ at[t] = "asked" /\ pending' = 0
  /\ at' = [at EXCEPT ![t] = IF pending = 0 THEN "idle" ELSE "holds"]
  /\ hand' = [hand EXCEPT ![t] = pending]
  /\ UNCHANGED <<app, doc, made, counting, generation, timers, diskVars, lost>>

\* Slip: the temporary file is left to the cache of the system.
WriteUnsynced(t) ==
  /\ at[t] = "holds" /\ at' = [at EXCEPT ![t] = "written"]
  /\ UNCHANGED <<app, doc, made, saverVars, hand, diskVars, lost>>

\* atomic_write: the value is in a temporary file, flushed ...
WriteTemp(t) ==
  /\ at[t] = "holds" /\ at' = [at EXCEPT ![t] = "written"]
  /\ whole' = whole \cup {hand[t]}
  /\ UNCHANGED <<app, doc, made, saverVars, hand, file, onDisk, aside, lost>>

\* Slip: the value that waited is forgotten once the document is written.
RenameAndForget(t) ==
  /\ at[t] = "written" /\ at' = [at EXCEPT ![t] = "renamed"]
  /\ file' = hand[t] /\ onDisk' = onDisk \cup {hand[t]} /\ pending' = 0
  /\ lost' = IF file > hand[t] THEN lost \cup {file} ELSE lost
  /\ UNCHANGED <<app, doc, made, counting, generation, timers, hand, whole, aside>>

\* ... which takes the place of the document ...
Rename(t) ==
  /\ at[t] = "written" /\ at' = [at EXCEPT ![t] = "renamed"]
  /\ file' = hand[t] /\ onDisk' = onDisk \cup {hand[t]}
  /\ lost' = IF file > hand[t] THEN lost \cup {file} ELSE lost
  /\ UNCHANGED <<app, doc, made, saverVars, hand, whole, aside>>

\* ... for good if the directory can be flushed.
SyncDir(t) ==
  /\ at[t] = "renamed" /\ at' = [at EXCEPT ![t] = "idle"]
  /\ onDisk' \in {onDisk, {file}}
  /\ UNCHANGED <<app, doc, made, saverVars, hand, file, whole, aside, lost>>

\* The write fails and the temporary file goes: a warning is all there is.
WriteFails(t) ==
  /\ at[t] \in {"holds", "written"} /\ at' = [at EXCEPT ![t] = "idle"]
  /\ lost' = lost \cup {hand[t]}
  /\ UNCHANGED <<app, doc, made, saverVars, hand, diskVars>>

-----------------------------------------------------------------------------
(* The end of the app and the next start *)

\* What is in memory goes with the process, its threads wherever they are.
Gone ==
  /\ counting' = FALSE /\ pending' = 0 /\ generation' = 0 /\ timers' = {}
  /\ at' = [t \in Threads |-> "idle"] /\ hand' = [t \in Threads |-> 0]

Exit ==
  /\ app = "closing" /\ at[App] = "idle"
  /\ app' = "closed" /\ Gone
  /\ UNCHANGED <<doc, made, diskVars, lost>>

Crash ==
  /\ app \in {"running", "closing"} /\ app' = "off" /\ Gone
  /\ UNCHANGED <<doc, made, diskVars, lost>>

\* The disk keeps one of the renames it was given, contents flushed or not.
PowerCut ==
  /\ app' = "off" /\ Gone
  /\ \E v \in onDisk : file' = IF v \in whole THEN v ELSE 0
  /\ onDisk' = {file'}
  /\ UNCHANGED <<doc, made, whole, aside, lost>>

\* load_or_default: a document that cannot be read is set aside, if it can be.
Start ==
  /\ app \in {"closed", "off"} /\ app' = "running"
  /\ \/ doc' = file /\ UNCHANGED diskVars
     \/ doc' = 0 /\ file # 0 /\ aside' = file /\ file' = 0 /\ onDisk' = {0} /\ UNCHANGED whole
     \/ doc' = 0 /\ file # 0 /\ UNCHANGED diskVars
  /\ UNCHANGED <<made, saverVars, threadVars, lost>>

-----------------------------------------------------------------------------
Flush(t) == Take(t) \/ WriteTemp(t) \/ Rename(t) \/ SyncDir(t) \/ WriteFails(t)
Own      == Schedule \/ Count \/ FlushNow \/ Close
Process  == Exit \/ Crash \/ PowerCut \/ Start

Next == Own \/ Process \/ \E t \in Threads : Flush(t) \/ TimerEnds(t)

Spec == Init /\ [][Next]_vars

\* The threads run and the clock goes on; nothing says that the app ever closes.
FairSpec ==
  Spec /\ WF_vars(Count) /\ \A t \in Threads : WF_vars(Flush(t)) /\ WF_vars(TimerEnds(t))

-----------------------------------------------------------------------------
(* Properties *)

\* Every variable has its type.
TypeOK ==
  /\ app \in {"running", "closing", "closed", "off"}
  /\ doc \in Values /\ made \in Values /\ counting \in BOOLEAN /\ pending \in Values
  /\ generation \in Values /\ timers \subseteq Values
  /\ at \in [Threads -> Stages] /\ hand \in [Threads -> Values]
  /\ file \in Values /\ onDisk \subseteq Values /\ whole \subseteq Values
  /\ aside \in Values /\ lost \subseteq Values

Running  == app \in {"running", "closing"}
InHand   == {hand[t] : t \in {u \in Threads : at[u] \in {"holds", "written"}}}
Saving   == \E t \in Threads : at[t] = "asked"

\* While the app runs, the change on the screen is waiting to be written, being written
\* or in the file, unless its write failed or an older one replaced it (Saver: "a change
\* is never lost to the delay").
NewestIsKept ==
  Running => doc \in {0, pending, file} \cup InHand \cup lost

\* What waits to be written has someone coming for it: the timer of the newest change,
\* which no other can stand in for, or a flush (schedule and its generation).
WaitingIsAwaited ==
  Running /\ pending # 0 => counting \/ generation \in timers \/ Saving

\* An app that closes leaves nothing waiting: its change is in the file, or a thread
\* that took it before the close is still writing it (on_app_quit).
ClosingWaitsForNothing ==
  [][Exit => pending = 0 /\ doc \in {0, file} \cup InHand \cup lost]_vars

\* A change that stays on the screen of a running app gets into the file.
SavedInTheEnd ==
  \A v \in Values \ {0} :
    app = "running" /\ doc = v ~> v \in {file} \cup lost \/ doc # v \/ app # "running"

\* Whatever stops the app, and when, the next start finds a whole document that was
\* once on the screen (atomic_write: "never half of one"; load_or_default).
Document == INSTANCE DurableDocument
              WITH Fresh <- 0, shown <- 0..made, kept <- onDisk
IsDurable == Document!Spec
=============================================================================
