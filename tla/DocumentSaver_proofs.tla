------------------------- MODULE DocumentSaver_proofs -------------------------
(***************************************************************************)
(* Proofs about DocumentSaver: where the newest change is, for any number  *)
(* of changes and of threads that write at once, and that the saver with   *)
(* atomic_write keeps what DurableDocument promises.                       *)
(***************************************************************************)
EXTENDS DocumentSaver, TLAPS

\* A value in memory is never newer than the one on the screen.
Order ==
  /\ doc <= made /\ generation <= made /\ (counting => generation < made)
  /\ pending <= doc /\ \A t \in Threads : hand[t] <= doc

\* What may be found on the disk was written whole, and once on the screen.
Disk ==
  /\ file \in onDisk /\ onDisk \subseteq whole /\ 0 \in whole /\ whole \subseteq 0..made
  /\ \A t \in Threads : at[t] = "written" => hand[t] \in whole

\* The timer of a change has its thread to itself, and only a running app has any.
Timing ==
  /\ \A t \in Threads : t \in timers \/ t > generation => at[t] = "idle"
  /\ \A g \in timers : 0 < g /\ g <= generation
  /\ ~Running => pending = 0 /\ \A t \in Threads : at[t] = "idle" /\ hand[t] = 0
  /\ app = "closing" => pending = 0 \/ at[App] = "asked"
  /\ counting => at[App] = "idle" /\ app # "closing"

Inv == TypeOK /\ Order /\ Disk /\ Timing /\ NewestIsKept /\ WaitingIsAwaited

LEMMA Zero == 0 \in Values /\ App \in Threads
  BY EditsAssumption DEF Values, Threads, App

LEMMA InitInv == Init => Inv
  <1> SUFFICES ASSUME Init PROVE Inv
    OBVIOUS
  <1> USE EditsAssumption DEF Init
  <1>1. TypeOK BY Zero DEF TypeOK, Stages
  <1>2. Order /\ Disk BY DEF Order, Disk
  <1>3. Timing BY DEF Timing, Running, Threads, App
  <1>4. NewestIsKept /\ WaitingIsAwaited BY DEF NewestIsKept, WaitingIsAwaited
  <1> QED BY <1>1, <1>2, <1>3, <1>4 DEF Inv

LEMMA StepInv == Inv /\ [Next]_vars => Inv'
  <1> SUFFICES ASSUME Inv, [Next]_vars PROVE Inv'
    OBVIOUS
  <1> USE EditsAssumption DEF Inv, Running
  <1>1. CASE Own
    <2> USE DEF Free, threadVars, diskVars, saverVars
    <2>1. CASE Schedule
      <3>0. made + 1 \in Values /\ generation < made + 1 /\ doc < made + 1
        BY <2>1 DEF Schedule, TypeOK, Values, Order
      <3>1. TypeOK' BY <2>1, <3>0 DEF Schedule, TypeOK
      <3>20. \A t \in Threads : hand[t] <= made + 1
        BY <3>0 DEF TypeOK, Values, Order
      <3>21. made + 1 <= made + 1 /\ generation <= made + 1
        BY <3>0 DEF TypeOK, Values
      <3>2. Order' BY <2>1, <3>0, <3>20, <3>21 DEF Schedule, Order
      <3>22. Disk' BY <2>1 DEF Schedule, Disk, TypeOK, Values
      <3>3. Timing' BY <2>1 DEF Schedule, Timing, App
      <3>4. NewestIsKept' /\ WaitingIsAwaited'
        BY <2>1 DEF Schedule, NewestIsKept, WaitingIsAwaited
      <3> QED BY <3>1, <3>2, <3>22, <3>3, <3>4
    <2>2. CASE Count
      <3>0. generation + 1 \in Values /\ generation + 1 <= made
        BY <2>2 DEF Count, TypeOK, Values, Order
      <3>1. TypeOK' BY <2>2, <3>0 DEF Count, TypeOK
      <3>2. Order' BY <2>2, <3>0 DEF Count, Order
      <3>22. Disk' BY <2>2 DEF Count, Disk
      <3>3. Timing' BY <2>2 DEF Count, Timing, TypeOK, Values, Threads
      <3>4. NewestIsKept' /\ WaitingIsAwaited'
        BY <2>2 DEF Count, NewestIsKept, WaitingIsAwaited, InHand
      <3> QED BY <3>1, <3>2, <3>22, <3>3, <3>4
    <2>3. CASE FlushNow \/ Close
      <3>1. TypeOK' BY <2>3 DEF FlushNow, Close, TypeOK, Stages
      <3>2. Order' BY <2>3 DEF FlushNow, Close, Order
      <3>22. Disk' BY <2>3 DEF FlushNow, Close, Disk, TypeOK
      <3>30. App \notin timers /\ ~(App > generation)
        BY DEF Timing, App, TypeOK, Values
      <3>3. Timing' BY <2>3, <3>30, Zero DEF FlushNow, Close, Timing, TypeOK
      <3>4. InHand' = InHand
        BY <2>3 DEF FlushNow, Close, InHand, TypeOK, Threads, App
      <3>5. NewestIsKept' BY <2>3, <3>4 DEF FlushNow, Close, NewestIsKept
      <3>6. Saving' BY <2>3 DEF FlushNow, Close, Saving, TypeOK, Threads, App
      <3>7. WaitingIsAwaited' BY <3>6 DEF WaitingIsAwaited
      <3> QED BY <3>1, <3>2, <3>22, <3>3, <3>5, <3>7
    <2> QED BY <1>1, <2>1, <2>2, <2>3 DEF Own
  <1>2. ASSUME NEW t \in Threads, Flush(t) PROVE Inv'
    <2> USE DEF threadVars, diskVars, saverVars
    <2>0. Running /\ at[t] # "idle"
      BY <1>2 DEF Flush, Take, WriteTemp, Rename, SyncDir, WriteFails, Timing
    <2>1. CASE Take(t)
      <3>1. TypeOK' BY <2>1, Zero DEF Take, TypeOK, Stages
      <3>20. 0 <= doc BY DEF TypeOK, Values
      <3>2. Order' BY <2>1, <3>20 DEF Take, Order, TypeOK
      <3>22. Disk' BY <2>1 DEF Take, Disk, Order, TypeOK, Values
      <3>3. Timing' BY <2>1, <2>0 DEF Take, Timing, TypeOK
      <3>4. InHand \subseteq InHand' BY <2>1 DEF Take, InHand, TypeOK
      <3>5. pending # 0 => pending \in InHand' BY <2>1 DEF Take, InHand, TypeOK
      <3>6. NewestIsKept' BY <2>1, <3>4, <3>5 DEF Take, NewestIsKept
      <3>7. WaitingIsAwaited' BY <2>1 DEF Take, WaitingIsAwaited
      <3> QED BY <3>1, <3>2, <3>22, <3>3, <3>6, <3>7
    <2>2. CASE WriteTemp(t)
      <3>1. TypeOK' BY <2>2, Zero DEF WriteTemp, TypeOK, Stages
      <3>2. Order' BY <2>2 DEF WriteTemp, Order
      <3>21. hand[t] \in 0..made BY DEF Order, TypeOK, Values
      <3>22. Disk' BY <2>2, <3>21 DEF WriteTemp, Disk, TypeOK
      <3>3. Timing' BY <2>2, <2>0 DEF WriteTemp, Timing, TypeOK
      <3>4. InHand' = InHand BY <2>2 DEF WriteTemp, InHand, TypeOK
      <3>5. NewestIsKept' BY <2>2, <3>4 DEF WriteTemp, NewestIsKept
      <3>6. WaitingIsAwaited' BY <2>2 DEF WriteTemp, WaitingIsAwaited, Saving, TypeOK
      <3> QED BY <3>1, <3>2, <3>22, <3>3, <3>5, <3>6
    <2>3. CASE Rename(t)
      <3>1. TypeOK' BY <2>3, Zero DEF Rename, TypeOK, Stages
      <3>2. Order' BY <2>3 DEF Rename, Order
      <3>22. Disk' BY <2>3 DEF Rename, Disk, Order, TypeOK, Values
      <3>3. Timing' BY <2>3, <2>0 DEF Rename, Timing, TypeOK
      <3>4. InHand \subseteq InHand' \cup {hand[t]} BY <2>3 DEF Rename, InHand, TypeOK
      <3>5. doc = file => doc \in {file'} \cup lost'
        BY <2>3 DEF Rename, Order, TypeOK, Values
      <3>6. NewestIsKept' BY <2>3, <3>4, <3>5 DEF Rename, NewestIsKept
      <3>7. WaitingIsAwaited' BY <2>3 DEF Rename, WaitingIsAwaited, Saving, TypeOK
      <3> QED BY <3>1, <3>2, <3>22, <3>3, <3>6, <3>7
    <2>4. CASE SyncDir(t)
      <3>1. TypeOK' BY <2>4, Zero DEF SyncDir, TypeOK, Stages
      <3>2. Order' BY <2>4 DEF SyncDir, Order
      <3>22. Disk' BY <2>4 DEF SyncDir, Disk, Order, TypeOK, Values
      <3>3. Timing' BY <2>4, <2>0 DEF SyncDir, Timing, TypeOK
      <3>4. InHand' = InHand BY <2>4 DEF SyncDir, InHand, TypeOK
      <3>5. NewestIsKept' BY <2>4, <3>4 DEF SyncDir, NewestIsKept
      <3>6. WaitingIsAwaited' BY <2>4 DEF SyncDir, WaitingIsAwaited, Saving, TypeOK
      <3> QED BY <3>1, <3>2, <3>22, <3>3, <3>5, <3>6
    <2>5. CASE WriteFails(t)
      <3>1. TypeOK' BY <2>5, Zero DEF WriteFails, TypeOK, Stages
      <3>2. Order' BY <2>5 DEF WriteFails, Order
      <3>22. Disk' BY <2>5 DEF WriteFails, Disk, Order, TypeOK, Values
      <3>3. Timing' BY <2>5, <2>0 DEF WriteFails, Timing, TypeOK
      <3>4. InHand \subseteq InHand' \cup {hand[t]} BY <2>5 DEF WriteFails, InHand, TypeOK
      <3>5. NewestIsKept' BY <2>5, <3>4 DEF WriteFails, NewestIsKept
      <3>6. WaitingIsAwaited' BY <2>5 DEF WriteFails, WaitingIsAwaited, Saving, TypeOK
      <3> QED BY <3>1, <3>2, <3>22, <3>3, <3>5, <3>6
    <2> QED BY <1>2, <2>1, <2>2, <2>3, <2>4, <2>5 DEF Flush
  <1>3. ASSUME NEW g \in Threads, TimerEnds(g) PROVE Inv'
    <2> USE <1>3 DEF TimerEnds, diskVars
    <2>1. TypeOK' BY DEF TypeOK, Stages, Threads
    <2>2. g # App /\ at[g] = "idle" BY DEF Timing, App
    <2>3. Order' /\ Disk' BY <2>2 DEF Order, Disk, TypeOK
    <2>4. Timing' BY <2>2 DEF Timing, TypeOK, Threads, App, Values
    <2>5. InHand' = InHand BY <2>2 DEF InHand, TypeOK, Threads
    <2>6. NewestIsKept' BY <2>5 DEF NewestIsKept
    <2>7. Saving => Saving' BY <2>2 DEF Saving, TypeOK, Threads
    <2>8. g = generation => Saving' BY DEF Saving, TypeOK, Threads
    <2>9. WaitingIsAwaited' BY <2>7, <2>8 DEF WaitingIsAwaited
    <2> QED BY <2>1, <2>3, <2>4, <2>6, <2>9
  <1>4. CASE Process
    <2> USE DEF Gone, threadVars, diskVars, saverVars
    <2>1. CASE Exit \/ Crash
      <3>1. TypeOK' BY <2>1, Zero DEF Exit, Crash, TypeOK, Stages
      <3>20. 0 <= made /\ 0 <= doc BY DEF TypeOK, Values
      <3>2. Order' BY <2>1, <3>20 DEF Exit, Crash, Order
      <3>22. Disk' BY <2>1 DEF Exit, Crash, Disk
      <3>3. Timing' BY <2>1 DEF Exit, Crash, Timing, App, Threads
      <3>4. NewestIsKept' /\ WaitingIsAwaited'
        BY <2>1 DEF Exit, Crash, NewestIsKept, WaitingIsAwaited
      <3> QED BY <3>1, <3>2, <3>22, <3>3, <3>4
    <2>2. CASE PowerCut
      <3>0. PICK v \in onDisk : file' = IF v \in whole THEN v ELSE 0
        BY <2>2 DEF PowerCut
      <3>00. file' = v /\ v \in Values BY <3>0 DEF Disk, TypeOK
      <3>1. TypeOK' BY <2>2, <3>00, Zero DEF PowerCut, TypeOK, Stages
      <3>20. 0 <= made /\ 0 <= doc BY DEF TypeOK, Values
      <3>2. Order' BY <2>2, <3>20 DEF PowerCut, Order
      <3>22. Disk' BY <2>2, <3>00 DEF PowerCut, Disk
      <3>3. Timing' BY <2>2 DEF PowerCut, Timing, App, Threads
      <3>4. NewestIsKept' /\ WaitingIsAwaited'
        BY <2>2 DEF PowerCut, NewestIsKept, WaitingIsAwaited
      <3> QED BY <3>1, <3>2, <3>22, <3>3, <3>4
    <2>3. CASE Start
      <3>1. TypeOK' BY <2>3, Zero DEF Start, TypeOK
      <3>2. pending = 0 /\ \A t \in Threads : at[t] = "idle" /\ hand[t] = 0
        BY <2>3 DEF Start, Timing
      <3>30. 0 <= made /\ 0 <= file /\ file <= made /\ 0 <= 0
        BY DEF TypeOK, Values, Disk
      <3>3. Order' BY <2>3, <3>2, <3>30 DEF Start, Order
      <3>33. Disk' BY <2>3 DEF Start, Disk
      <3>4. Timing' BY <2>3 DEF Start, Timing
      <3>5. NewestIsKept' /\ WaitingIsAwaited'
        BY <2>3, <3>2 DEF Start, NewestIsKept, WaitingIsAwaited
      <3> QED BY <3>1, <3>3, <3>33, <3>4, <3>5
    <2> QED BY <1>4, <2>1, <2>2, <2>3 DEF Process
  <1>5. CASE UNCHANGED vars
    <2> USE <1>5 DEF vars, saverVars, threadVars, diskVars
    <2>1. TypeOK' /\ Order' /\ Disk' BY DEF TypeOK, Order, Disk
    <2>2. Timing' BY DEF Timing
    <2>3. NewestIsKept' /\ WaitingIsAwaited'
      BY DEF NewestIsKept, WaitingIsAwaited, InHand, Saving
    <2> QED BY <2>1, <2>2, <2>3
  <1> QED BY <1>1, <1>2, <1>3, <1>4, <1>5 DEF Next

LEMMA Invariance == Spec => []Inv
  <1> QED BY InitInv, StepInv, PTL DEF Spec

-----------------------------------------------------------------------------
\* Every variable has its type, with any number of changes.
THEOREM TypeCorrect == Spec => []TypeOK
  <1>1. Inv => TypeOK BY DEF Inv
  <1> QED BY <1>1, Invariance, PTL

\* While the app runs the change on the screen is waiting, being written or in the file
\* unless its write failed or an older one replaced it, whatever threads write at once.
THEOREM NewestStays == Spec => []NewestIsKept
  <1>1. Inv => NewestIsKept BY DEF Inv
  <1> QED BY <1>1, Invariance, PTL

\* What waits to be written always has a timer or a thread coming for it.
THEOREM SomeoneComes == Spec => []WaitingIsAwaited
  <1>1. Inv => WaitingIsAwaited BY DEF Inv
  <1> QED BY <1>1, Invariance, PTL

\* The app closes with nothing waiting to be written (on_app_quit).
THEOREM NothingWaits == Spec => ClosingWaitsForNothing
  <1>1. Inv /\ [Next]_vars =>
          [Exit => pending = 0 /\ doc \in {0, file} \cup InHand \cup lost]_vars
    BY DEF Inv, Exit, Timing, NewestIsKept, Running
  <1> QED BY <1>1, Invariance, PTL DEF Spec, ClosingWaitsForNothing

-----------------------------------------------------------------------------
(* The saver implements DurableDocument *)

LEMMA InitMaps == Init => Document!Init
  BY DEF Init, Document!Init

LEMMA StepMaps == Inv /\ [Next]_vars => [Document!Next]_(Document!vars)
  <1> SUFFICES ASSUME Inv, [Next]_vars PROVE [Document!Next]_(Document!vars)
    OBVIOUS
  <1> USE EditsAssumption DEF Inv
  <1> USE DEF Document!vars, threadVars, diskVars, saverVars
  <1>1. CASE Schedule
    <2>1. made' \in Values \ 0..made /\ 0..made' = 0..made \cup {made'}
      BY <1>1 DEF Schedule, TypeOK, Values
    <2>2. Document!Edit BY <1>1, <2>1 DEF Schedule, Document!Edit
    <2> QED BY <2>2 DEF Document!Next
  <1>2. CASE Count \/ FlushNow \/ Close
    BY <1>2 DEF Count, FlushNow, Close
  <1>3. ASSUME NEW t \in Threads, Take(t) \/ WriteTemp(t) \/ WriteFails(t)
        PROVE UNCHANGED Document!vars
    BY <1>3 DEF Take, WriteTemp, WriteFails
  <1>4. ASSUME NEW t \in Threads, Rename(t) PROVE Document!Next
    <2>1. hand[t] \in 0..made BY <1>4 DEF Order, TypeOK, Values
    <2>2. Document!Write BY <1>4, <2>1 DEF Rename, Document!Write
    <2> QED BY <2>2 DEF Document!Next
  <1>5. ASSUME NEW t \in Threads, SyncDir(t) PROVE [Document!Next]_(Document!vars)
    <2>1. onDisk' = {file} => Document!Settle
      BY <1>5 DEF SyncDir, Document!Settle, Disk
    <2> QED BY <1>5, <2>1 DEF SyncDir, Document!Next
  <1>6. ASSUME NEW g \in Threads, TimerEnds(g) PROVE UNCHANGED Document!vars
    BY <1>6 DEF TimerEnds
  <1>7. CASE Exit \/ Crash
    BY <1>7 DEF Exit, Crash
  <1>8. CASE PowerCut
    <2>1. PICK v \in onDisk : file' = v BY <1>8 DEF PowerCut, Disk
    <2>2. Document!Settle BY <1>8, <2>1 DEF PowerCut, Document!Settle
    <2> QED BY <2>2 DEF Document!Next
  <1>9. CASE Start
    <2>1. Document!Open \/ Document!SetAside
      BY <1>9 DEF Start, Document!Open, Document!SetAside, Disk
    <2> QED BY <2>1 DEF Document!Next
  <1>10. CASE UNCHANGED vars
    BY <1>10 DEF vars
  <1> QED
    BY <1>1, <1>2, <1>3, <1>4, <1>5, <1>6, <1>7, <1>8, <1>9, <1>10
    DEF Next, Own, Process, Flush

\* Every start finds a whole document that was once on the screen, whatever stopped the
\* app before: the saver and atomic_write implement DurableDocument.
THEOREM Durable == Spec => IsDurable
  <1> QED
    BY InitMaps, StepMaps, Invariance, PTL DEF Spec, IsDurable, Document!Spec
=============================================================================
