---------------------------- MODULE LiveFeed_proofs ----------------------------
(***************************************************************************)
(* Proofs about LiveFeed, for every set of owners, symbols and bars and    *)
(* every server: types, that the registry holds only what is wanted, that  *)
(* what it holds is not lost, and that nothing else is followed.           *)
(***************************************************************************)
EXTENDS LiveFeed, TLAPS

-----------------------------------------------------------------------------
(* The registry holds nothing that nobody wants *)

\* The hub's variables have their types.
HubTypes ==
  /\ wishes \in [Owners -> SUBSET Feeds]
  /\ hub \in {"rest", "applying", "recorded", "calling"}
  /\ current \subseteq Feeds /\ want \subseteq Feeds

\* While a plan is applied, what is recorded and not wanted has its step to come, and
\* what is still to be recorded is wanted.
Pending ==
  hub # "rest" =>
    /\ \A f \in registry :
         f \in want \/ \E step \in todo : Unsubscribes(step) /\ f \in step.feeds
    /\ \A step \in todo : ~Unsubscribes(step) => step.feeds \subseteq want

WantedInv == HubTypes /\ Pending /\ RecordedIsWanted

\* What the owners want are feeds.
LEMMA WantedAreFeeds == HubTypes => Wanted \subseteq Feeds
  BY DEF HubTypes, Wanted

\* A plan unsubscribes everything it has and does not aim at, and subscribes to
\* nothing but its aim.
LEMMA PlanCovers ==
  ASSUME NEW have \in SUBSET Feeds, NEW aim \in SUBSET Feeds
  PROVE  /\ \A f \in have \ aim :
              \E step \in Plan(have, aim) : Unsubscribes(step) /\ f \in step.feeds
         /\ \A step \in Plan(have, aim) : ~Unsubscribes(step) => step.feeds \subseteq aim
  <1>1. ASSUME NEW f \in have \ aim
        PROVE  \E step \in Plan(have, aim) : Unsubscribes(step) /\ f \in step.feeds
    <2>1. CASE f \in Bars
      <3>1. [turn |-> 1, feeds |-> {f}] \in Plan(have, aim)
        BY <1>1, <2>1 DEF Plan, Each
      <3>2. QED
        BY <3>1 DEF Unsubscribes
    <2>2. CASE f \in Symbols
      <3> DEFINE dropped == (have \ aim) \cap Symbols
      <3>1. f \in dropped
        BY <1>1, <2>2
      <3>2. [turn |-> 2, feeds |-> dropped] \in Plan(have, aim)
        BY <3>1 DEF Plan, Batch
      <3>3. QED
        BY <3>1, <3>2 DEF Unsubscribes
    <2>3. QED
      BY <1>1, <2>1, <2>2 DEF Feeds
  <1>2. ASSUME NEW step \in Plan(have, aim), ~Unsubscribes(step)
        PROVE  step.feeds \subseteq aim
    BY <1>2 DEF Plan, Each, Batch, Unsubscribes
  <1>3. QED
    BY <1>1, <1>2

\* A plan that begins has a step for whatever is recorded and not its aim.
LEMMA BeginKeeps ==
  ASSUME WantedInv, hub = "rest", NEW aim \in SUBSET Feeds, Begin(aim), UNCHANGED wishes
  PROVE  WantedInv'
  <1>1. registry \subseteq current /\ current \in SUBSET Feeds
    BY DEF WantedInv, HubTypes, RecordedIsWanted
  <1>2. HubTypes'
    BY DEF WantedInv, HubTypes, Begin, Feeds
  <1>3. Pending'
    BY <1>1, PlanCovers DEF Pending, Begin, Unsubscribes
  <1>4. RecordedIsWanted'
    BY <1>1 DEF RecordedIsWanted, Begin
  <1>5. QED
    BY <1>2, <1>3, <1>4 DEF WantedInv

\* A call is recorded: its own step is done, and every other one is still to come.
LEMMA RecordKeeps ==
  ASSUME WantedInv, Record
  PROVE  WantedInv'
  <1>1. PICK step \in todo :
          /\ todo' = todo \ {step}
          /\ registry' = Recorded(step)
    BY DEF Record, Upcoming
  <1>2. hub = "applying" /\ hub' \in {"applying", "recorded"} /\ UNCHANGED <<wishes, current, want>>
    BY DEF Record, hubVars
  <1>3. ~Unsubscribes(step) => step.feeds \subseteq want
    BY <1>2 DEF WantedInv, Pending
  <1>4. HubTypes'
    BY <1>2 DEF WantedInv, HubTypes, Feeds
  <1>5. Pending'
    BY <1>1, <1>2, <1>3 DEF WantedInv, Pending, Recorded, Unsubscribes
  <1>6. RecordedIsWanted'
    BY <1>1, <1>2, <1>3 DEF WantedInv, RecordedIsWanted, Recorded
  <1>7. QED
    BY <1>4, <1>5, <1>6 DEF WantedInv

\* Every step keeps what is recorded within what is wanted.
LEMMA WantedStep == WantedInv /\ [Next]_vars => WantedInv'
  <1> SUFFICES ASSUME WantedInv, [Next]_vars
               PROVE  WantedInv'
    OBVIOUS
  <1>1. CASE Apply
    BY <1>1, WantedAreFeeds, BeginKeeps DEF Apply, WantedInv
  <1>2. CASE Leave
    BY <1>2, BeginKeeps DEF Leave, hubVars
  <1>3. CASE Applied
    <2>1. registry \subseteq want
      BY <1>3 DEF Applied, WantedInv, Pending
    <2>2. QED
      BY <1>3, <2>1 DEF Applied, WantedInv, HubTypes, Pending, RecordedIsWanted, hubVars, Feeds
  <1>4. CASE Record
    BY <1>4, RecordKeeps
  <1>5. CASE Call
    BY <1>5 DEF Call, WantedInv, HubTypes, Pending, RecordedIsWanted, hubVars, Feeds, Unsubscribes
  <1>6. CASE Settle
    <2>1. registry' \subseteq registry /\ hub = "calling" /\ hub' = "applying"
          /\ UNCHANGED <<wishes, current, want, todo>>
      BY <1>6 DEF Settle, hubVars
    <2>2. QED
      BY <2>1 DEF WantedInv, HubTypes, Pending, RecordedIsWanted, Feeds, Unsubscribes
  <1>7. ASSUME NEW o \in Owners, NEW wish \in Wishes, Set(o, wish)
        PROVE  WantedInv'
    <2>1. wish \subseteq Feeds
      BY FeedAssumption DEF Wishes, Feeds
    <2>2. wishes' = [wishes EXCEPT ![o] = wish] /\ UNCHANGED <<hub, current, want, todo, registry>>
      BY <1>7 DEF Set, taskVars
    <2>3. wishes' \in [Owners -> SUBSET Feeds]
      BY <2>1, <2>2 DEF WantedInv, HubTypes, Feeds
    <2>4. QED
      BY <2>2, <2>3 DEF WantedInv, HubTypes, Pending, RecordedIsWanted, Feeds, Unsubscribes
  <1>8. CASE DropHub
    BY <1>8 DEF DropHub, taskVars, WantedInv, HubTypes, Pending, RecordedIsWanted, Feeds, Unsubscribes
  <1>9. CASE Supervise \/ Network \/ UNCHANGED vars
    <2>1. UNCHANGED <<wishes, hub, current, want, todo, registry>>
      BY <1>9 DEF Supervise, Connect, CopyRegistry, RestoreNext, RestoreAnswered, Restored,
                  Disconnected, AccountDisconnected, Reauthorized, Network, Drop, EndAccount,
                  Serve, vars, hubVars, taskVars
    <2>2. QED
      BY <2>1 DEF WantedInv, HubTypes, Pending, RecordedIsWanted, Feeds, Unsubscribes
  <1>10. QED
    BY <1>1, <1>2, <1>3, <1>4, <1>5, <1>6, <1>7, <1>8, <1>9 DEF Next, HubTask, Interface

\* The registry, which restores copy, holds nothing that no owner wants, whatever wishes,
\* refusals, failures and reconnects there are.  What is followed may be more: see
\* FollowedStaysRecorded.
THEOREM RegistryIsWanted == Spec => []RecordedIsWanted
  <1>1. Init => WantedInv
    BY DEF Init, WantedInv, HubTypes, Pending, RecordedIsWanted, Feeds
  <1>2. WantedInv => RecordedIsWanted
    BY DEF WantedInv
  <1>3. QED
    BY <1>1, <1>2, WantedStep, PTL DEF Spec
-----------------------------------------------------------------------------
(* Types, and that a request that waits is on its way *)

\* A plan and a restore are made of steps of the four kinds, none of them empty.
LEMMA PlanType ==
  ASSUME NEW have \in SUBSET Feeds, NEW aim \in SUBSET Feeds
  PROVE  Plan(have, aim) \subseteq Steps /\ RestorePlan(have) \subseteq Steps
  <1>1. ASSUME NEW turn \in 1..4, NEW feeds \in SUBSET Feeds
        PROVE  Batch(turn, feeds) \subseteq Steps /\ Each(turn, feeds) \subseteq Steps
    <2>1. \A some \in SUBSET Feeds : some # {} => [turn |-> turn, feeds |-> some] \in Steps
      <3>1. ASSUME NEW some \in SUBSET Feeds, some # {}
            PROVE  [turn |-> turn, feeds |-> some] \in Steps
        <4>1. some \in (SUBSET Feeds) \ {{}}
          BY <3>1, Zenon
        <4>2. QED
          BY <4>1 DEF Steps
      <3>2. QED
        BY <3>1
    <2>2. \A f \in feeds : {f} \in SUBSET Feeds /\ {f} # {}
      OBVIOUS
    <2>3. QED
      BY <2>1, <2>2 DEF Batch, Each
  <1>2. 1 \in 1..4 /\ 2 \in 1..4 /\ 3 \in 1..4 /\ 4 \in 1..4
    OBVIOUS
  <1>3. QED
    BY <1>1, <1>2 DEF Plan, RestorePlan, Feeds

\* The request of a caller is answered or on its way.
Awaited(caller) == answer[caller] # "none" \/ \E i \in 1..Len(pipe) : pipe[i] = caller

\* A request goes behind those that wait, or is answered at once.
LEMMA AskType ==
  ASSUME TypeOK, NEW caller \in Callers, Ask(caller)
  PROVE  /\ pipe' \in Seq(Callers) /\ answer' \in [Callers -> Answers]
         /\ \A c \in Callers : c = caller \/ Awaited(c) => Awaited(c)'
  <1>1. pipe \in Seq(Callers) /\ Len(pipe) \in Nat /\ answer \in [Callers -> Answers]
    BY DEF TypeOK
  <1>2. CASE link
    <2>1. pipe' = Append(pipe, caller) /\ UNCHANGED answer
      BY <1>2 DEF Ask
    <2>2. /\ Len(pipe') = Len(pipe) + 1 /\ pipe'[Len(pipe) + 1] = caller
          /\ \A i \in 1..Len(pipe) : i \in 1..Len(pipe') /\ pipe'[i] = pipe[i]
      BY <1>1, <2>1
    <2>3. Len(pipe) + 1 \in 1..Len(pipe')
      BY <1>1, <2>2
    <2>4. QED
      BY <1>1, <2>1, <2>2, <2>3 DEF Awaited
  <1>3. CASE ~link
    BY <1>1, <1>3 DEF Ask, Awaited, Answers
  <1>4. QED
    BY <1>2, <1>3

\* The head of the pipe is answered, and the others wait on.
LEMMA ServeType ==
  ASSUME TypeOK, Serve
  PROVE  /\ pipe' \in Seq(Callers) /\ answer' \in [Callers -> Answers] /\ server' \subseteq Feeds
         /\ \A c \in Callers : Awaited(c) => Awaited(c)'
  <1>1. /\ pipe \in Seq(Callers) /\ Len(pipe) \in Nat /\ answer \in [Callers -> Answers]
        /\ pipe # <<>> /\ asked \in [Callers -> Steps \cup {NoStep}] /\ server \subseteq Feeds
    BY DEF TypeOK, Serve
  <1>2. PICK verdict \in {"ok", "already", "refused", "lost"} :
          /\ answer' = [answer EXCEPT ![Head(pipe)] = verdict]
          /\ server' = Outcome(asked[Head(pipe)], verdict)
    BY DEF Serve, Verdict
  <1>3. /\ Head(pipe) \in Callers /\ Head(pipe) = pipe[1]
        /\ pipe' = Tail(pipe) /\ pipe' \in Seq(Callers) /\ Len(pipe') = Len(pipe) - 1
        /\ \A i \in 1..Len(pipe') : pipe'[i] = pipe[i + 1]
    BY <1>1 DEF Serve
  <1>4. asked[Head(pipe)].feeds \subseteq Feeds
    BY <1>1, <1>3 DEF Steps, NoStep
  <1>5. server' \subseteq Feeds
    BY <1>1, <1>2, <1>4 DEF Outcome
  <1>6. ASSUME NEW c \in Callers, Awaited(c)
        PROVE  Awaited(c)'
    <2>1. CASE c = Head(pipe)
      BY <1>1, <1>2, <1>3, <2>1 DEF Awaited
    <2>2. CASE c # Head(pipe) /\ answer[c] # "none"
      BY <1>1, <1>2, <1>3, <2>2 DEF Awaited
    <2>3. CASE c # Head(pipe) /\ \E i \in 1..Len(pipe) : pipe[i] = c
      <3>1. PICK i \in 1..Len(pipe) : pipe[i] = c
        BY <2>3
      <3>2. i # 1
        BY <1>3, <2>3, <3>1
      <3>3. i - 1 \in 1..Len(pipe') /\ pipe'[i - 1] = c
        BY <1>1, <1>3, <3>1, <3>2
      <3>4. QED
        BY <3>3 DEF Awaited
    <2>4. QED
      BY <1>6, <2>1, <2>2, <2>3 DEF Awaited
  <1>7. answer' \in [Callers -> Answers]
    BY <1>1, <1>2, <1>3 DEF Answers
  <1>8. QED
    BY <1>3, <1>5, <1>6, <1>7

\* A call of the hub is written down.
LEMMA RecordType ==
  ASSUME TypeOK, Record
  PROVE  TypeOK'
  <1>1. PICK step \in todo :
          LET feeds == IF Unsubscribes(step) THEN step.feeds \cap registry
                       ELSE step.feeds \ registry
          IN /\ todo' = todo \ {step}
             /\ registry' = Recorded(step)
             /\ IF feeds = {} THEN UNCHANGED <<hub, asked>>
                ELSE /\ hub' = "recorded"
                     /\ asked' = [asked EXCEPT !["hub"] = [step EXCEPT !.feeds = feeds]]
    BY DEF Record, Upcoming
  <1>2. step \in Steps /\ step.feeds \subseteq Feeds
    BY DEF TypeOK, Steps
  <1>3. ASSUME NEW feeds \in SUBSET Feeds, feeds # {}
        PROVE  [step EXCEPT !.feeds = feeds] \in Steps
    <2>1. feeds \in (SUBSET Feeds) \ {{}}
      BY <1>3, Zenon
    <2>2. QED
      BY <1>2, <2>1 DEF Steps
  <1>4. registry' \subseteq Feeds
    BY <1>1, <1>2 DEF Recorded, TypeOK
  <1>5. asked' \in [Callers -> Steps \cup {NoStep}] /\ hub' \in {"applying", "recorded"}
    <2>1. "hub" \in Callers /\ hub = "applying" /\ registry \subseteq Feeds
          /\ asked \in [Callers -> Steps \cup {NoStep}]
      BY DEF Callers, Record, TypeOK
    <2>2. CASE UNCHANGED <<hub, asked>>
      BY <2>1, <2>2
    <2>3. ASSUME NEW feeds \in SUBSET Feeds, feeds # {},
                 asked' = [asked EXCEPT !["hub"] = [step EXCEPT !.feeds = feeds]]
          PROVE  asked' \in [Callers -> Steps \cup {NoStep}]
      <3>1. [step EXCEPT !.feeds = feeds] \in Steps \cup {NoStep}
        BY <1>3, <2>3
      <3>2. QED
        BY <2>1, <2>3, <3>1
    <2>4. step.feeds \cap registry \in SUBSET Feeds /\ step.feeds \ registry \in SUBSET Feeds
      BY <1>2
    <2>5. CASE Unsubscribes(step)
      BY <1>1, <2>1, <2>2, <2>3, <2>4, <2>5
    <2>6. CASE ~Unsubscribes(step)
      BY <1>1, <2>1, <2>2, <2>3, <2>4, <2>6
    <2>7. QED
      BY <2>5, <2>6
  <1>6. astray' \subseteq Feeds /\ UNCHANGED denied
    <2>1. /\ UNCHANGED denied
          /\ \E other \in todo : astray' \subseteq astray \cup (other.feeds \cap registry)
      BY DEF Record, Upcoming
    <2>2. QED
      BY <2>1 DEF TypeOK
  <1>7. QED
    BY <1>1, <1>4, <1>5, <1>6 DEF Record, TypeOK, hubVars, supVars, netVars

LEMMA TypeStep == TypeOK /\ [Next]_vars => TypeOK'
  <1> SUFFICES ASSUME TypeOK, [Next]_vars
               PROVE  TypeOK'
    OBVIOUS
  <1> "hub" \in Callers /\ "supervisor" \in Callers
    BY DEF Callers
  <1>1. ASSUME NEW aim \in SUBSET Feeds, Begin(aim), hub = "rest", UNCHANGED wishes,
               open' \in BOOLEAN, changed' \in BOOLEAN
        PROVE  TypeOK'
    <2>1. todo' \subseteq Steps
      BY <1>1, PlanType DEF Begin, TypeOK
    <2>2. QED
      BY <1>1, <2>1 DEF Begin, TypeOK, supVars, callVars, netVars, ghosts
  <1>2. CASE Apply
    <2>1. Wanted \subseteq Feeds
      BY DEF TypeOK, Wanted
    <2>2. Wanted \in SUBSET Feeds /\ Begin(Wanted) /\ hub = "rest" /\ UNCHANGED <<wishes, open>> /\ changed' = FALSE
      BY <1>2, <2>1 DEF Apply
    <2>3. open' \in BOOLEAN /\ changed' \in BOOLEAN
      BY <2>2 DEF TypeOK
    <2>4. QED
      BY <1>1, <2>2, <2>3
  <1>3. CASE Leave
    BY <1>1, <1>3 DEF Leave, hubVars, TypeOK
  <1>4. CASE Applied
    BY <1>4 DEF Applied, TypeOK, hubVars, supVars, callVars, netVars, ghosts
  <1>5. CASE Record
    BY <1>5, RecordType
  <1>6. CASE Call
    <2>1. CASE Reachable
      <3>1. Ask("hub") /\ hub' = "calling"
        BY <1>6, <2>1 DEF Call
      <3>2. pipe' \in Seq(Callers) /\ answer' \in [Callers -> Answers] /\ Awaited("hub")'
        BY <3>1, AskType
      <3>3. QED
        BY <1>6, <2>1, <3>1, <3>2 DEF Call, Awaited, TypeOK, hubVars, supVars, ghosts
    <2>2. CASE ~Reachable
      BY <1>6, <2>2 DEF Call, TypeOK, hubVars, supVars, ghosts
    <2>3. QED
      BY <2>1, <2>2
  <1>7. CASE Settle
    <2>1. registry' \subseteq registry /\ astray' \subseteq astray \cup asked["hub"].feeds
      BY <1>7 DEF Settle
    <2>2. asked["hub"].feeds \subseteq Feeds
      BY DEF TypeOK, Steps, NoStep
    <2>3. QED
      BY <1>7, <2>1, <2>2 DEF Settle, TypeOK, Answers, hubVars, supVars, netVars
  <1>8. ASSUME NEW o \in Owners, NEW wish \in Wishes, Set(o, wish)
        PROVE  TypeOK'
    <2>1. wish \in SUBSET Feeds
      BY FeedAssumption DEF Wishes, Feeds
    <2>2. wishes' \in [Owners -> SUBSET Feeds]
      BY <1>8, <2>1 DEF Set, TypeOK
    <2>3. changed' \in BOOLEAN
      BY <1>8 DEF Set, TypeOK
    <2>4. QED
      BY <1>8, <2>2, <2>3 DEF Set, TypeOK, taskVars, supVars, callVars, netVars, ghosts
  <1>9. CASE DropHub
    BY <1>9 DEF DropHub, TypeOK, taskVars, supVars, callVars, netVars, ghosts
  <1>10. CASE Connect \/ Restored \/ Disconnected \/ AccountDisconnected \/ Reauthorized
    BY <1>10 DEF Connect, Restored, Disconnected, AccountDisconnected, Reauthorized, TypeOK,
                 hubVars, taskVars, supVars, callVars, netVars, ghosts
  <1>11. CASE CopyRegistry
    <2>1. restore' \subseteq Steps
      BY <1>11, PlanType DEF CopyRegistry, TypeOK
    <2>2. QED
      BY <1>11, <2>1 DEF CopyRegistry, TypeOK, hubVars, taskVars, callVars, netVars
  <1>12. CASE RestoreNext
    <2>1. /\ pipe' \in Seq(Callers) /\ answer' \in [Callers -> Answers]
          /\ Awaited("hub") => Awaited("hub")'
      BY <1>12, AskType DEF RestoreNext
    <2>2. restore' \subseteq Steps /\ asked' \in [Callers -> Steps \cup {NoStep}]
      BY <1>12 DEF RestoreNext, Upcoming, TypeOK
    <2>3. hub' = "calling" => Awaited("hub")'
      BY <1>12, <2>1 DEF RestoreNext, Awaited, TypeOK, taskVars
    <2>4. QED
      BY <1>12, <2>1, <2>2, <2>3 DEF RestoreNext, Awaited, TypeOK, hubVars, taskVars, ghosts
  <1>13. CASE RestoreAnswered
    BY <1>13 DEF RestoreAnswered, TypeOK, Answers, hubVars, taskVars, supVars, netVars, ghosts
  <1>14. CASE Drop
    <2>1. <<>> \in Seq(Callers)
      OBVIOUS
    <2>2. answer' \in [Callers -> Answers] /\ (Awaited("hub") => answer'["hub"] # "none")
      BY <1>14 DEF Drop, Awaited, Answers, TypeOK
    <2>3. QED
      BY <1>14, <2>1, <2>2 DEF Drop, Awaited, TypeOK, hubVars, taskVars, supVars
  <1>15. CASE EndAccount
    BY <1>15 DEF EndAccount, TypeOK, hubVars, taskVars, supVars, callVars
  <1>16. CASE Serve
    <2>1. /\ pipe' \in Seq(Callers) /\ answer' \in [Callers -> Answers] /\ server' \subseteq Feeds
          /\ Awaited("hub") => Awaited("hub")'
      BY <1>16, ServeType
    <2>2. hub' = "calling" => Awaited("hub")'
      BY <1>16, <2>1 DEF Serve, Awaited, TypeOK, taskVars
    <2>3. denied' \subseteq Feeds /\ astray' \subseteq Feeds
      <3>1. Head(pipe) \in Callers
        BY <1>16 DEF TypeOK, Serve
      <3>2. asked[Head(pipe)].feeds \subseteq Feeds
        BY <3>1 DEF TypeOK, Steps, NoStep
      <3>3. /\ denied' \subseteq denied \cup asked[Head(pipe)].feeds
            /\ astray' \subseteq astray \cup asked[Head(pipe)].feeds
        BY <1>16 DEF Serve, Denied
      <3>4. QED
        BY <3>2, <3>3 DEF TypeOK
    <2>4. QED
      BY <1>16, <2>1, <2>2, <2>3 DEF Serve, Awaited, TypeOK, hubVars, taskVars, supVars
  <1>17. CASE UNCHANGED vars
    BY <1>17 DEF TypeOK, vars, hubVars, taskVars, supVars, callVars, netVars, ghosts
  <1>18. QED
    BY <1>2, <1>3, <1>4, <1>5, <1>6, <1>7, <1>8, <1>9, <1>10, <1>11, <1>12, <1>13, <1>14,
       <1>15, <1>16, <1>17 DEF Next, HubTask, Interface, Supervise, Network

\* Every variable keeps its type, and no call of the hub waits for an answer that is
\* not on its way: the server or the end of the connection gives it (finish).
THEOREM TypeCorrect == Spec => []TypeOK
  <1>1. Init => TypeOK
    <2>1. <<>> \in Seq(Callers) /\ {} \in SUBSET Feeds /\ {} \in SUBSET Steps
      OBVIOUS
    <2>2. [o \in Owners |-> {}] \in [Owners -> SUBSET Feeds]
      BY <2>1
    <2>3. /\ [c \in Callers |-> NoStep] \in [Callers -> Steps \cup {NoStep}]
          /\ [c \in Callers |-> "none"] \in [Callers -> Answers]
      BY DEF Answers
    <2>4. QED
      BY <2>1, <2>2, <2>3 DEF Init, TypeOK
  <1>2. QED
    BY <1>1, TypeStep, PTL DEF Spec
-----------------------------------------------------------------------------
(* Nothing that is recorded stays lost.  The hub's plans and the restore of  *)
(* the supervisor each have their order, and a request that waits is answered*)
(* once; from those, whatever the registry holds is at the server, denied by *)
(* it, still to be restored, or of the hub's call under way.                 *)

Closed(feeds) == \A b \in feeds \cap Bars : SymbolOf[b] \in feeds
Shaped(step)  == /\ step.turn = 3 => step.feeds \subseteq Symbols
                 /\ step.turn = 4 => step.feeds \subseteq Bars

\* Bars are wanted with their prices, and prices that are to be subscribed to are those
\* of no recorded bars.
PlansAreOrdered ==
  /\ \A o \in Owners : Closed(wishes[o])
  /\ Closed(current) /\ Closed(want)
  /\ \A step \in todo : /\ Shaped(step)
                        /\ step.turn = 3 => \A b \in registry \cap Bars : SymbolOf[b] \notin step.feeds

\* A restore subscribes to prices, then to bars.
RestoreIsOrdered ==
  /\ sup # "restoring" => restore = {} /\ asked["supervisor"] = NoStep
  /\ \A step \in restore : step.turn \in {3, 4} /\ Shaped(step)
  /\ asked["supervisor"] # NoStep => asked["supervisor"].turn \in {3, 4} /\ Shaped(asked["supervisor"])
  /\ asked["supervisor"].turn = 4 => \A step \in restore : step.turn = 4

\* Who has a request on its way has one, without an answer.
Waits(caller) == \E i \in 1..Len(pipe) : pipe[i] = caller
OnceInPipe    == \A i, j \in 1..Len(pipe) : pipe[i] = pipe[j] => i = j

RequestsAreAnsweredOnce ==
  /\ client = (sup # "down")
  /\ hub \in {"rest", "applying"} => asked["hub"] = NoStep
  /\ hub # "calling" => answer["hub"] = "none" /\ ~Waits("hub")
  /\ asked["supervisor"] = NoStep => answer["supervisor"] = "none" /\ ~Waits("supervisor")
  /\ \A c \in Callers : Waits(c) => answer[c] = "none"
  /\ OnceInPipe
  /\ Unsubscribes(asked["hub"]) => asked["hub"].feeds \cap registry = {}

\* The hub subscribes to prices or to bars, and to prices only of no recorded bars.
HubsCallIsOrdered ==
  /\ Shaped(asked["hub"])
  /\ asked["hub"].turn = 3 => \A b \in registry \cap Bars : SymbolOf[b] \notin asked["hub"].feeds

\* The restore will still ask for the feed.
Due(f) == \/ \E step \in restore : f \in step.feeds
          \/ f \in asked["supervisor"].feeds /\ answer["supervisor"] = "none"

\* The hub's call for the feed is not done, or is about to be taken back.
Asking(f) == f \in asked["hub"].feeds /\ answer["hub"] \in {"none", "refused"}

\* Bars whose symbol is not followed, and that the restore will not ask for.
Stranded(b) == b \in Bars /\ SymbolOf[b] \notin server /\ ~Due(SymbolOf[b])

Alive == link /\ signed /\ sup \in {"restoring", "ready"}
Kept  == Alive => \A f \in registry \ denied : f \in server \/ Due(f) \/ Asking(f) \/ Stranded(f)

\* The plans of the hub are in order, for an aim that has the prices of its bars.
LEMMA PlanIsOrdered ==
  ASSUME NEW have, NEW aim, Closed(have)
  PROVE  \A step \in Plan(have, aim) :
           /\ Shaped(step)
           /\ step.turn = 3 => \A b \in have \cap Bars : SymbolOf[b] \notin step.feeds
  <1>1. \A step \in Plan(have, aim) :
          /\ step.turn \in 1..4
          /\ step.turn = 3 => step.feeds = (aim \ have) \cap Symbols
          /\ step.turn = 4 => step.feeds \subseteq Bars
    BY DEF Plan, Batch, Each
  <1>2. QED
    BY <1>1 DEF Shaped, Closed

\* What is upcoming comes before the rest.
LEMMA UpcomingFirst ==
  ASSUME NEW steps \in SUBSET Steps, NEW step \in Upcoming(steps)
  PROVE  /\ step \in steps
         /\ step.turn = 4 => \A other \in steps : other.turn = 4
  BY DEF Upcoming, Steps

\* The hub's plans stay in order: what is recorded when one begins has its prices.
LEMMA OrderStep ==
  TypeOK /\ WantedInv /\ PlansAreOrdered /\ [Next]_vars => PlansAreOrdered'
  <1> SUFFICES ASSUME TypeOK, WantedInv, PlansAreOrdered, [Next]_vars
               PROVE  PlansAreOrdered'
    OBVIOUS
  <1>1. ASSUME UNCHANGED <<wishes, current, want, todo>>, registry' \subseteq registry
        PROVE  PlansAreOrdered'
    BY <1>1 DEF PlansAreOrdered, Closed, Shaped
  <1>2. ASSUME NEW aim, Closed(aim), hub = "rest", Begin(aim), UNCHANGED wishes
        PROVE  PlansAreOrdered'
    <2>1. registry \subseteq current
      BY <1>2 DEF WantedInv, RecordedIsWanted
    <2>2. \A step \in todo' :
            /\ Shaped(step)
            /\ step.turn = 3 => \A b \in current \cap Bars : SymbolOf[b] \notin step.feeds
      BY <1>2, PlanIsOrdered DEF Begin, PlansAreOrdered
    <2>3. QED
      BY <1>2, <2>1, <2>2 DEF Begin, PlansAreOrdered, Closed, Shaped
  <1>3. CASE Apply
    <2>1. Closed(Wanted)
      BY DEF PlansAreOrdered, Closed, Wanted
    <2>2. QED
      BY <1>2, <1>3, <2>1 DEF Apply
  <1>4. CASE Leave
    BY <1>2, <1>4 DEF Leave, hubVars, Closed
  <1>5. CASE Applied
    BY <1>5 DEF Applied, hubVars, PlansAreOrdered, Closed, Shaped
  <1>6. CASE Record
    <2>1. PICK step \in Upcoming(todo) : todo' = todo \ {step} /\ registry' = Recorded(step)
      BY <1>6 DEF Record
    <2>2. UNCHANGED <<wishes, current, want>>
      BY <1>6 DEF Record, hubVars
    <2>3. /\ step \in todo /\ Shaped(step) /\ step.turn \in 1..4
          /\ step.turn = 4 => \A other \in todo : other.turn = 4
      <3>1. todo \in SUBSET Steps
        BY DEF TypeOK
      <3>2. step \in todo /\ (step.turn = 4 => \A other \in todo : other.turn = 4)
        BY <2>1, <3>1, UpcomingFirst
      <3>3. QED
        BY <3>1, <3>2 DEF PlansAreOrdered, Steps
    <2>4. CASE step.turn = 4
      BY <2>1, <2>2, <2>3, <2>4 DEF PlansAreOrdered, Closed, Shaped
    <2>5. CASE step.turn # 4
      <3>1. registry' \cap Bars \subseteq registry
        BY <2>1, <2>3, <2>5, FeedAssumption DEF Recorded, Unsubscribes, Shaped
      <3>2. QED
        BY <2>1, <2>2, <3>1 DEF PlansAreOrdered, Closed, Shaped
    <2>6. QED
      BY <2>4, <2>5
  <1>7. CASE Call
    BY <1>1, <1>7 DEF Call, hubVars
  <1>8. CASE Settle
    BY <1>1, <1>8 DEF Settle, hubVars
  <1>9. ASSUME NEW o \in Owners, NEW wish \in Wishes, Set(o, wish)
        PROVE  PlansAreOrdered'
    <2>1. Closed(wish)
      BY FeedAssumption DEF Wishes, Closed
    <2>2. wishes' = [wishes EXCEPT ![o] = wish] /\ UNCHANGED <<current, want, todo, registry>>
      BY <1>9 DEF Set, taskVars
    <2>3. \A p \in Owners : Closed(wishes'[p])
      BY <2>1, <2>2 DEF PlansAreOrdered, TypeOK
    <2>4. QED
      BY <2>2, <2>3 DEF PlansAreOrdered, Closed, Shaped
  <1>10. CASE DropHub \/ Supervise \/ Network \/ UNCHANGED vars
    <2>1. UNCHANGED <<wishes, current, want, todo, registry>>
      BY <1>10 DEF DropHub, Supervise, Connect, CopyRegistry, RestoreNext, RestoreAnswered, Restored,
                   Disconnected, AccountDisconnected, Reauthorized, Network, Drop, EndAccount,
                   Serve, vars, hubVars, taskVars
    <2>2. QED
      BY <1>1, <2>1
  <1>11. QED
    BY <1>3, <1>4, <1>5, <1>6, <1>7, <1>8, <1>9, <1>10 DEF Next, HubTask, Interface

\* So does the restore.
LEMMA RestoreStep ==
  TypeOK /\ RestoreIsOrdered /\ [Next]_vars => RestoreIsOrdered'
  <1> SUFFICES ASSUME TypeOK, RestoreIsOrdered, [Next]_vars
               PROVE  RestoreIsOrdered'
    OBVIOUS
  <1>1. /\ asked \in [Callers -> Steps \cup {NoStep}] /\ "hub" \in Callers /\ "supervisor" \in Callers
        /\ restore \subseteq Steps
    BY DEF TypeOK, Callers
  <1>2. ASSUME UNCHANGED restore, asked'["supervisor"] = asked["supervisor"],
               sup' = sup \/ (sup # "restoring" /\ sup' # "restoring")
        PROVE  RestoreIsOrdered'
    BY <1>2 DEF RestoreIsOrdered, Shaped
  <1>3. CASE HubTask
    <2>1. UNCHANGED supVars /\ (UNCHANGED asked \/ \E step : asked' = [asked EXCEPT !["hub"] = step])
      BY <1>3 DEF HubTask, Apply, Leave, Begin, Applied, Record, Call, Settle, callVars
    <2>2. QED
      BY <1>1, <1>2, <2>1 DEF supVars
  <1>4. CASE Interface \/ Network \/ UNCHANGED vars
    BY <1>2, <1>4 DEF Interface, DropHub, Set, Network, Drop, EndAccount, Serve, vars, supVars, callVars
  <1>5. CASE Connect \/ Disconnected \/ AccountDisconnected \/ Reauthorized
    BY <1>2, <1>5 DEF Connect, Disconnected, AccountDisconnected, Reauthorized, callVars
  <1>6. CASE CopyRegistry
    <2>1. \A step \in RestorePlan(registry) : step.turn \in {3, 4} /\ Shaped(step)
      BY DEF RestorePlan, Batch, Each, Shaped
    <2>2. QED
      BY <1>6, <2>1 DEF CopyRegistry, RestoreIsOrdered, callVars, NoStep
  <1>7. CASE RestoreNext
    <2>1. PICK step \in Upcoming(restore) :
            restore' = restore \ {step} /\ asked' = [asked EXCEPT !["supervisor"] = step]
      BY <1>7 DEF RestoreNext
    <2>2. step \in restore /\ (step.turn = 4 => \A other \in restore : other.turn = 4)
      BY <1>1, <2>1, UpcomingFirst
    <2>3. asked'["supervisor"] = step /\ sup' = "restoring"
      BY <1>1, <1>7, <2>1 DEF RestoreNext
    <2>4. QED
      BY <2>1, <2>2, <2>3 DEF RestoreIsOrdered, Shaped
  <1>8. CASE RestoreAnswered
    <2>1. asked'["supervisor"] = NoStep /\ UNCHANGED <<sup, restore>>
      BY <1>1, <1>8 DEF RestoreAnswered, supVars
    <2>2. QED
      BY <2>1 DEF RestoreIsOrdered, NoStep, Shaped
  <1>9. CASE Restored
    BY <1>9 DEF Restored, callVars, RestoreIsOrdered, Shaped
  <1>10. QED
    BY <1>3, <1>4, <1>5, <1>6, <1>7, <1>8, <1>9 DEF Next, Supervise

\* A request goes behind those that wait, and a caller that had none has one there.
LEMMA AskWaits ==
  ASSUME TypeOK, RequestsAreAnsweredOnce, NEW caller \in Callers, Ask(caller),
         ~Waits(caller), answer[caller] = "none"
  PROVE  /\ OnceInPipe'
         /\ \A c \in Callers : Waits(c)' => answer'[c] = "none"
         /\ \A c \in Callers \ {caller} : (Waits(c)' <=> Waits(c)) /\ answer'[c] = answer[c]
         /\ link => answer' = answer
  <1>1. pipe \in Seq(Callers) /\ Len(pipe) \in Nat /\ answer \in [Callers -> Answers]
    BY DEF TypeOK
  <1>2. CASE link
    <2>1. pipe' = Append(pipe, caller) /\ UNCHANGED answer
      BY <1>2 DEF Ask
    <2>2. /\ Len(pipe') = Len(pipe) + 1 /\ pipe'[Len(pipe) + 1] = caller
          /\ \A i \in 1..Len(pipe) : pipe'[i] = pipe[i]
      BY <1>1, <2>1
    <2>3. 1..Len(pipe') = 1..Len(pipe) \cup {Len(pipe) + 1} /\ Len(pipe) + 1 \notin 1..Len(pipe)
      BY <1>1, <2>2
    <2>4. OnceInPipe'
      BY <2>2, <2>3 DEF OnceInPipe, Waits, RequestsAreAnsweredOnce
    <2>5. \A c \in Callers \ {caller} : Waits(c)' <=> Waits(c)
      BY <2>2, <2>3 DEF Waits
    <2>6. QED
      BY <1>2, <2>1, <2>4, <2>5 DEF RequestsAreAnsweredOnce
  <1>3. CASE ~link
    <2>1. UNCHANGED pipe /\ answer' = [answer EXCEPT ![caller] = "lost"]
      BY <1>3 DEF Ask
    <2>2. QED
      BY <1>1, <1>3, <2>1 DEF RequestsAreAnsweredOnce, OnceInPipe, Waits
  <1>4. QED
    BY <1>2, <1>3

\* The head of the pipe is answered and waits no more.
LEMMA ServeOnce ==
  ASSUME TypeOK, RequestsAreAnsweredOnce, Serve
  PROVE  /\ Head(pipe) \in Callers /\ Waits(Head(pipe)) /\ answer[Head(pipe)] = "none"
         /\ OnceInPipe'
         /\ \A h : h = Head(pipe) => ~Waits(h)'
         /\ \A c \in Callers : Waits(c)' => Waits(c)
         /\ \A c \in Callers \ {Head(pipe)} : answer'[c] = answer[c]
         /\ \A c \in Callers : Waits(c)' => answer'[c] = "none"
  <1>1. /\ pipe \in Seq(Callers) /\ Len(pipe) \in Nat /\ answer \in [Callers -> Answers]
        /\ pipe # <<>>
    BY DEF TypeOK, Serve
  <1>2. /\ Head(pipe) \in Callers /\ Head(pipe) = pipe[1] /\ 1 \in 1..Len(pipe)
        /\ pipe' = Tail(pipe) /\ Len(pipe') = Len(pipe) - 1
        /\ \A i \in 1..Len(pipe') : pipe'[i] = pipe[i + 1] /\ i + 1 \in 1..Len(pipe) /\ i + 1 # 1
    BY <1>1 DEF Serve
  <1>3. \A h : h = Head(pipe) => ~Waits(h)'
    <2> SUFFICES ASSUME NEW i \in 1..Len(pipe'), pipe'[i] = Head(pipe)
                 PROVE  FALSE
      BY DEF Waits
    <2>1. pipe[i + 1] = pipe[1] /\ i + 1 \in 1..Len(pipe) /\ i + 1 # 1
      BY <1>2
    <2>2. QED
      BY <1>2, <2>1 DEF RequestsAreAnsweredOnce, OnceInPipe
  <1>4. OnceInPipe'
    <2> SUFFICES ASSUME NEW i \in 1..Len(pipe'), NEW j \in 1..Len(pipe'), pipe'[i] = pipe'[j]
                 PROVE  i = j
      BY DEF OnceInPipe
    <2>1. i + 1 = j + 1
      BY <1>2 DEF RequestsAreAnsweredOnce, OnceInPipe
    <2>2. QED
      BY <2>1
  <1>5. \A c \in Callers : Waits(c)' => Waits(c)
    BY <1>2 DEF Waits
  <1>6. \A c \in Callers \ {Head(pipe)} : answer'[c] = answer[c]
    BY <1>1 DEF Serve
  <1>7. QED
    BY <1>2, <1>3, <1>4, <1>5, <1>6 DEF RequestsAreAnsweredOnce, Waits

\* Every step leaves each caller one request at most, answered once.
LEMMA RequestsStep ==
  TypeOK /\ RestoreIsOrdered /\ RequestsAreAnsweredOnce /\ [Next]_vars => RequestsAreAnsweredOnce'
  <1> SUFFICES ASSUME TypeOK, RestoreIsOrdered, RequestsAreAnsweredOnce, [Next]_vars
               PROVE  RequestsAreAnsweredOnce'
    OBVIOUS
  <1>1. /\ asked \in [Callers -> Steps \cup {NoStep}] /\ answer \in [Callers -> Answers]
        /\ Callers = {"hub", "supervisor"} /\ pipe \in Seq(Callers)
        /\ hub \in {"rest", "applying", "recorded", "calling"}
    BY DEF TypeOK, Callers
  <1>2. ASSUME UNCHANGED <<pipe, answer, asked>>, registry' \subseteq registry,
               client' = (sup' # "down"), hub' = hub \/ (hub # "calling" /\ asked["hub"] = NoStep)
        PROVE  RequestsAreAnsweredOnce'
    BY <1>2 DEF RequestsAreAnsweredOnce, Waits, OnceInPipe, Unsubscribes
  <1>3. CASE Apply \/ Leave \/ Applied
    <2>1. /\ UNCHANGED <<pipe, answer, asked, registry, client, sup>> /\ hub \in {"rest", "applying"}
      BY <1>3 DEF Apply, Leave, Begin, Applied, supVars, callVars, netVars
    <2>2. QED
      BY <1>2, <2>1 DEF RequestsAreAnsweredOnce
  <1>4. CASE Record
    <2>1. /\ hub = "applying" /\ UNCHANGED <<pipe, answer, client, sup>>
          /\ asked["hub"] = NoStep
      BY <1>4 DEF Record, supVars, netVars, RequestsAreAnsweredOnce
    <2>2. PICK step \in todo :
            LET feeds == IF Unsubscribes(step) THEN step.feeds \cap registry
                         ELSE step.feeds \ registry
            IN /\ registry' = Recorded(step)
               /\ IF feeds = {} THEN UNCHANGED <<hub, asked>>
                  ELSE /\ hub' = "recorded"
                       /\ asked' = [asked EXCEPT !["hub"] = [step EXCEPT !.feeds = feeds]]
      BY <1>4 DEF Record, Upcoming
    <2>3. step \in Steps
      BY DEF TypeOK
    <2>4. CASE UNCHANGED <<hub, asked>>
      BY <2>1, <2>4 DEF RequestsAreAnsweredOnce, Waits, OnceInPipe, NoStep, Unsubscribes
    <2>5. ASSUME NEW feeds, hub' = "recorded",
                 asked' = [asked EXCEPT !["hub"] = [step EXCEPT !.feeds = feeds]],
                 Unsubscribes(step) => feeds \subseteq step.feeds
          PROVE  RequestsAreAnsweredOnce'
      <3>1. asked'["hub"].feeds = feeds /\ asked'["hub"].turn = step.turn
            /\ asked'["supervisor"] = asked["supervisor"]
        BY <1>1, <2>3, <2>5 DEF Steps
      <3>2. Unsubscribes(asked'["hub"]) => asked'["hub"].feeds \cap registry' = {}
        BY <2>2, <2>5, <3>1 DEF Unsubscribes, Recorded
      <3>3. QED
        BY <1>1, <2>1, <2>5, <3>1, <3>2 DEF RequestsAreAnsweredOnce, Waits, OnceInPipe, Unsubscribes
    <2>6. CASE Unsubscribes(step)
      BY <2>2, <2>4, <2>5, <2>6
    <2>7. CASE ~Unsubscribes(step)
      BY <2>2, <2>4, <2>5, <2>7
    <2>8. QED
      BY <2>6, <2>7
  <1>5. CASE Call
    <2>1. /\ hub = "recorded" /\ UNCHANGED <<registry, client, sup>>
      BY <1>5 DEF Call, supVars
    <2>2. CASE Reachable
      <3>1. hub' = "calling" /\ Ask("hub") /\ UNCHANGED asked
        BY <1>5, <2>2 DEF Call
      <3>2. answer["hub"] = "none" /\ ~Waits("hub")
        BY <2>1 DEF RequestsAreAnsweredOnce
      <3>3. QED
        BY <1>1, <2>1, <3>1, <3>2, AskWaits DEF RequestsAreAnsweredOnce, Unsubscribes
    <2>3. CASE ~Reachable
      <3>1. /\ hub' = "applying" /\ asked' = [asked EXCEPT !["hub"] = NoStep] /\ UNCHANGED <<answer, pipe>>
        BY <1>5, <2>3 DEF Call
      <3>2. QED
        BY <1>1, <2>1, <3>1 DEF RequestsAreAnsweredOnce, Waits, OnceInPipe, NoStep, Unsubscribes
    <2>4. QED
      BY <2>2, <2>3
  <1>6. CASE Settle
    <2>1. /\ hub = "calling" /\ hub' = "applying" /\ answer["hub"] # "none"
          /\ asked' = [asked EXCEPT !["hub"] = NoStep] /\ answer' = [answer EXCEPT !["hub"] = "none"]
          /\ UNCHANGED <<client, sup, pipe>>
      BY <1>6 DEF Settle, supVars, netVars
    <2>2. ~Waits("hub")
      BY <1>1, <2>1 DEF RequestsAreAnsweredOnce
    <2>3. QED
      BY <1>1, <2>1, <2>2 DEF RequestsAreAnsweredOnce, Waits, OnceInPipe, NoStep, Unsubscribes
  <1>7. CASE Interface \/ UNCHANGED vars
    BY <1>2, <1>7 DEF Interface, Set, DropHub, taskVars, supVars, callVars, netVars, vars,
                      RequestsAreAnsweredOnce
  <1>8. CASE Connect \/ CopyRegistry \/ Restored \/ Disconnected \/ AccountDisconnected \/ Reauthorized
    <2>1. UNCHANGED <<pipe, answer, asked, registry, hub>> /\ client' = (sup' # "down")
      BY <1>8 DEF Connect, CopyRegistry, Restored, Disconnected, AccountDisconnected, Reauthorized,
                  taskVars, callVars, netVars, RequestsAreAnsweredOnce
    <2>2. QED
      BY <1>2, <2>1
  <1>9. CASE RestoreNext
    <2>1. PICK step \in restore : asked' = [asked EXCEPT !["supervisor"] = step]
      BY <1>9 DEF RestoreNext, Upcoming
    <2>2. /\ asked["supervisor"] = NoStep /\ Ask("supervisor") /\ sup = "restoring"
          /\ UNCHANGED <<hub, registry, client, sup>>
      BY <1>9 DEF RestoreNext, taskVars
    <2>3. step \in Steps /\ step # NoStep
      BY DEF TypeOK, Steps, NoStep
    <2>4. answer["supervisor"] = "none" /\ ~Waits("supervisor")
      BY <2>2 DEF RequestsAreAnsweredOnce
    <2>5. asked'["supervisor"] = step /\ asked'["hub"] = asked["hub"]
      BY <1>1, <2>1
    <2>6. QED
      BY <1>1, <2>2, <2>3, <2>4, <2>5, AskWaits DEF RequestsAreAnsweredOnce, Unsubscribes
  <1>10. CASE RestoreAnswered
    <2>1. /\ asked' = [asked EXCEPT !["supervisor"] = NoStep] /\ answer["supervisor"] # "none"
          /\ answer' = [answer EXCEPT !["supervisor"] = "none"]
          /\ UNCHANGED <<hub, registry, client, sup, pipe>>
      BY <1>10 DEF RestoreAnswered, taskVars, supVars, netVars
    <2>2. ~Waits("supervisor")
      BY <1>1, <2>1 DEF RequestsAreAnsweredOnce
    <2>3. QED
      BY <1>1, <2>1, <2>2 DEF RequestsAreAnsweredOnce, Waits, OnceInPipe, NoStep, Unsubscribes
  <1>11. CASE Drop
    <2>1. pipe' = <<>> /\ Len(pipe') = 0 /\ UNCHANGED <<hub, registry, client, sup, asked>>
      BY <1>11 DEF Drop, taskVars, supVars
    <2>2. \A c \in Callers : ~Waits(c)' /\ (~Waits(c) => answer'[c] = answer[c])
      BY <1>1, <1>11, <2>1 DEF Drop, Waits
    <2>3. OnceInPipe'
      BY <2>1 DEF OnceInPipe
    <2>4. QED
      BY <1>1, <2>1, <2>2, <2>3 DEF RequestsAreAnsweredOnce, Unsubscribes
  <1>12. CASE EndAccount
    BY <1>2, <1>12 DEF EndAccount, taskVars, supVars, callVars, RequestsAreAnsweredOnce
  <1>13. CASE Serve
    <2>1. UNCHANGED <<hub, registry, client, sup, asked>>
      BY <1>13 DEF Serve, taskVars, supVars
    <2>2. QED
      BY <1>1, <1>13, <2>1, ServeOnce DEF RequestsAreAnsweredOnce, Unsubscribes
  <1>14. QED
    BY <1>3, <1>4, <1>5, <1>6, <1>7, <1>8, <1>9, <1>10, <1>11, <1>12, <1>13
       DEF Next, HubTask, Supervise, Network

\* The hub's call stays in order while it is under way.
LEMMA HubsCallStep ==
  TypeOK /\ PlansAreOrdered /\ RequestsAreAnsweredOnce /\ HubsCallIsOrdered /\ [Next]_vars
    => HubsCallIsOrdered'
  <1> SUFFICES ASSUME TypeOK, PlansAreOrdered, RequestsAreAnsweredOnce, HubsCallIsOrdered, [Next]_vars
               PROVE  HubsCallIsOrdered'
    OBVIOUS
  <1>1. asked \in [Callers -> Steps \cup {NoStep}] /\ Callers = {"hub", "supervisor"}
    BY DEF TypeOK, Callers
  <1>2. ASSUME asked'["hub"] \in {asked["hub"], NoStep}, registry' \subseteq registry
        PROVE  HubsCallIsOrdered'
    BY <1>2 DEF HubsCallIsOrdered, Shaped, NoStep
  <1>3. CASE Record
    <2>1. PICK step \in todo :
            LET feeds == IF Unsubscribes(step) THEN step.feeds \cap registry
                         ELSE step.feeds \ registry
            IN /\ registry' = Recorded(step)
               /\ IF feeds = {} THEN UNCHANGED <<hub, asked>>
                  ELSE /\ hub' = "recorded"
                       /\ asked' = [asked EXCEPT !["hub"] = [step EXCEPT !.feeds = feeds]]
      BY <1>3 DEF Record, Upcoming
    <2>2. step \in Steps /\ Shaped(step) /\ asked["hub"] = NoStep
          /\ (step.turn = 3 => \A b \in registry \cap Bars : SymbolOf[b] \notin step.feeds)
      BY <1>3 DEF Record, TypeOK, PlansAreOrdered, RequestsAreAnsweredOnce
    <2>3. CASE UNCHANGED asked
      BY <2>2, <2>3 DEF HubsCallIsOrdered, Shaped, NoStep
    <2>4. ASSUME NEW feeds, feeds \subseteq step.feeds,
                 asked' = [asked EXCEPT !["hub"] = [step EXCEPT !.feeds = feeds]]
          PROVE  HubsCallIsOrdered'
      <3>1. asked'["hub"].feeds = feeds /\ asked'["hub"].turn = step.turn
        BY <1>1, <2>2, <2>4 DEF Steps
      <3>2. step.turn = 3 => registry' \cap Bars \subseteq registry
        BY <2>1, <2>2, FeedAssumption DEF Recorded, Shaped
      <3>3. QED
        BY <2>2, <2>4, <3>1, <3>2 DEF HubsCallIsOrdered, Shaped
    <2>5. CASE Unsubscribes(step)
      BY <2>1, <2>3, <2>4, <2>5
    <2>6. CASE ~Unsubscribes(step)
      BY <2>1, <2>3, <2>4, <2>6
    <2>7. QED
      BY <2>5, <2>6
  <1>4. CASE Apply \/ Leave \/ Applied \/ Interface \/ Network \/ UNCHANGED vars
    BY <1>2, <1>4 DEF Apply, Leave, Begin, Applied, Interface, DropHub, Set, Network, Drop, EndAccount,
                      Serve, vars, callVars, taskVars
  <1>5. CASE Call \/ Settle
    <2>1. /\ (UNCHANGED asked \/ asked' = [asked EXCEPT !["hub"] = NoStep])
          /\ registry' \subseteq registry
      BY <1>5 DEF Call, Settle
    <2>2. QED
      BY <1>1, <1>2, <2>1
  <1>6. CASE Supervise
    <2>1. /\ (UNCHANGED asked \/ \E step : asked' = [asked EXCEPT !["supervisor"] = step])
          /\ UNCHANGED registry
      BY <1>6 DEF Supervise, Connect, CopyRegistry, RestoreNext, RestoreAnswered, Restored, Disconnected,
                  AccountDisconnected, Reauthorized, callVars
    <2>2. QED
      BY <1>1, <1>2, <2>1
  <1>7. QED
    BY <1>3, <1>4, <1>5, <1>6 DEF Next, HubTask

\* A subscription is written down: what is new to the registry is asked for.
LEMMA RecordKeepsFeeds ==
  ASSUME TypeOK, RequestsAreAnsweredOnce, Kept, Record
  PROVE  Kept'
  <1>1. PICK step \in todo :
          LET feeds == IF Unsubscribes(step) THEN step.feeds \cap registry
                       ELSE step.feeds \ registry
          IN /\ registry' = Recorded(step)
             /\ IF feeds = {} THEN UNCHANGED <<hub, asked>>
                ELSE /\ hub' = "recorded"
                     /\ asked' = [asked EXCEPT !["hub"] = [step EXCEPT !.feeds = feeds]]
    BY DEF Record, Upcoming
  <1>2. /\ UNCHANGED <<link, signed, sup, restore, answer, server, denied>>
        /\ asked["hub"] = NoStep /\ answer["hub"] = "none"
    BY DEF Record, supVars, netVars, RequestsAreAnsweredOnce
  <1>3. /\ asked \in [Callers -> Steps \cup {NoStep}] /\ "hub" \in Callers /\ step \in Steps
        /\ asked'["supervisor"] = asked["supervisor"]
    BY <1>1 DEF TypeOK, Callers
  <1>4. \A f : (Due(f)' <=> Due(f)) /\ (Stranded(f)' <=> Stranded(f)) /\ ~Asking(f)
    BY <1>2, <1>3 DEF Due, Stranded, Asking, NoStep
  <1>5. ASSUME NEW f \in registry' \ registry
        PROVE  Asking(f)'
    <2>1. ~Unsubscribes(step) /\ f \in step.feeds \ registry
      BY <1>1, <1>5 DEF Recorded
    <2>2. asked' = [asked EXCEPT !["hub"] = [step EXCEPT !.feeds = step.feeds \ registry]]
      BY <1>1, <2>1
    <2>3. asked'["hub"].feeds = step.feeds \ registry
      BY <1>3, <2>2 DEF Steps
    <2>4. QED
      BY <1>2, <2>1, <2>3 DEF Asking
  <1>6. QED
    BY <1>2, <1>4, <1>5 DEF Kept, Alive

\* What a served subscription asks for is sent, or denied, or it is of bars whose symbol
\* is not followed; and nothing is sent that was not asked for.
LEMMA ServeSends ==
  ASSUME NEW step, NEW verdict, signed, ~Unsubscribes(step)
  PROVE  /\ server \subseteq Outcome(step, verdict)
         /\ Outcome(step, verdict) \subseteq server \cup step.feeds
         /\ \A f \in step.feeds \ Denied(step, verdict, Outcome(step, verdict)) :
              \/ f \in Outcome(step, verdict)
              \/ f \in Bars /\ SymbolOf[f] \notin Outcome(step, verdict) /\ verdict # "lost"
  BY DEF Outcome, Denied

\* The restore's own request is served: the prices are asked for before the bars that
\* need them.
LEMMA ServeRestores ==
  ASSUME TypeOK, RestoreIsOrdered, RequestsAreAnsweredOnce, Kept, Serve,
         Head(pipe) = "supervisor"
  PROVE  Kept'
  <1>1. /\ UNCHANGED <<link, signed, sup, restore, registry, asked>>
        /\ answer["supervisor"] = "none" /\ asked["supervisor"] # NoStep
        /\ answer'["hub"] = answer["hub"]
    BY ServeOnce DEF Serve, taskVars, supVars, Callers, RequestsAreAnsweredOnce
  <1> DEFINE step == asked["supervisor"]
  <1>2. step \in Steps /\ step.turn \in {3, 4} /\ Shaped(step) /\ ~Unsubscribes(step)
    BY <1>1 DEF TypeOK, RestoreIsOrdered, Callers, Unsubscribes
  <1>3. PICK verdict : /\ server' = Outcome(step, verdict)
                       /\ answer' = [answer EXCEPT !["supervisor"] = verdict]
                       /\ denied' = (denied \ step.feeds) \cup Denied(step, verdict, server')
                       /\ verdict # "none"
    <2>1. \A verdict \in {Verdict(step)} \cup (IF "limit" \in Faults THEN {"lost"} ELSE {}) : verdict # "none"
      BY DEF Verdict
    <2>2. QED
      BY <1>2, <2>1 DEF Serve
  <1> SUFFICES ASSUME Alive, NEW f \in registry \ denied'
               PROVE  (f \in server \/ Due(f) \/ Asking(f) \/ Stranded(f))'
    BY <1>1 DEF Kept, Alive
  <1>4. server \subseteq server' /\ server' \subseteq server \cup step.feeds
    BY <1>2, <1>3, ServeSends DEF Alive
  <1>5. \A g : Due(g)' => Due(g)
    BY <1>1 DEF Due
  <1>6. \A g : Due(g) /\ g \notin step.feeds => Due(g)'
    BY <1>1 DEF Due
  <1>7. \A g : g \in step.feeds => Due(g)
    BY <1>1 DEF Due
  <1>8. CASE f \notin step.feeds
    <2>1. f \in server \/ Due(f) \/ Asking(f) \/ Stranded(f)
      BY <1>3, <1>8 DEF Kept
    <2>2. CASE Stranded(f)
      BY <1>4, <1>5, <1>7, <2>2 DEF Stranded
    <2>3. QED
      BY <1>1, <1>4, <1>6, <1>8, <2>1, <2>2 DEF Asking
  <1>9. CASE f \in step.feeds /\ f \notin server'
    <2>1. f \notin Denied(step, verdict, server')
      BY <1>3
    <2>2. f \in Bars /\ SymbolOf[f] \notin server'
      BY <1>2, <1>3, <1>9, <2>1, ServeSends DEF Alive
    <2>3. step.turn = 4 /\ step.feeds \subseteq Bars
      BY <1>2, <1>9, <2>2, FeedAssumption DEF Shaped
    <2>4. \A other \in restore : other.feeds \subseteq Bars
      BY <2>3 DEF RestoreIsOrdered, Shaped
    <2>5. ~Due(SymbolOf[f])
      BY <2>2, <2>3, <2>4, FeedAssumption DEF Due
    <2>6. QED
      BY <1>5, <2>2, <2>5 DEF Stranded
  <1>10. QED
    BY <1>8, <1>9

\* The hub's own request is served: it takes nothing away that is recorded, and what it
\* asks for is sent, denied or refused.
LEMMA ServeAnswersHub ==
  ASSUME TypeOK, RequestsAreAnsweredOnce, HubsCallIsOrdered, Kept, Serve, Head(pipe) = "hub"
  PROVE  Kept'
  <1>1. /\ UNCHANGED <<link, signed, sup, restore, registry, asked>>
        /\ answer["hub"] = "none" /\ answer'["supervisor"] = answer["supervisor"]
    BY ServeOnce DEF Serve, taskVars, supVars, Callers
  <1> DEFINE step == asked["hub"]
  <1>2. step \in Steps \cup {NoStep} /\ answer \in [Callers -> Answers] /\ "hub" \in Callers
    BY DEF TypeOK, Callers
  <1> SUFFICES ASSUME Alive, NEW f \in registry \ denied'
               PROVE  (f \in server \/ Due(f) \/ Asking(f) \/ Stranded(f))'
    BY <1>1 DEF Kept, Alive
  <1>3. PICK verdict \in {Verdict(step), "lost"} :
           /\ server' = Outcome(step, verdict)
           /\ answer' = [answer EXCEPT !["hub"] = verdict]
           /\ denied' = IF Unsubscribes(step) THEN denied
                        ELSE (denied \ step.feeds) \cup Denied(step, verdict, server')
    BY DEF Serve
  <1>4. f \in Symbols \cup Bars /\ signed
    BY DEF TypeOK, Feeds, Alive
  <1>5. \A g : Due(g)' <=> Due(g)
    BY <1>1 DEF Due
  <1>6. CASE Unsubscribes(step)
    <2>1. f \notin step.feeds /\ server \ step.feeds \subseteq server' /\ server' \subseteq server
      BY <1>3, <1>6 DEF RequestsAreAnsweredOnce, Outcome
    <2>2. f \in server \/ Due(f) \/ Stranded(f)
      BY <1>3, <1>6, <2>1 DEF Kept, Asking
    <2>3. QED
      BY <1>5, <2>1, <2>2 DEF Stranded
  <1>7. CASE ~Unsubscribes(step) /\ f \notin step.feeds
    <2>1. f \in server \/ Due(f) \/ Stranded(f)
      BY <1>3, <1>7 DEF Kept, Asking
    <2>2. server \subseteq server' /\ server' \subseteq server \cup step.feeds
      BY <1>3, <1>4, <1>7, ServeSends
    <2>3. CASE Stranded(f)
      <3>1. SymbolOf[f] \in Symbols /\ f \in Bars
        BY <2>3, FeedAssumption DEF Stranded
      <3>2. step.turn \in {3, 4}
        BY <1>2, <1>7 DEF Steps, NoStep, Unsubscribes
      <3>3. SymbolOf[f] \notin step.feeds
        BY <3>1, <3>2, FeedAssumption DEF HubsCallIsOrdered, Shaped
      <3>4. QED
        BY <1>5, <2>2, <2>3, <3>3 DEF Stranded
    <2>4. QED
      BY <1>5, <2>1, <2>2, <2>3
  <1>8. CASE ~Unsubscribes(step) /\ f \in step.feeds /\ f \notin server'
    <2>1. f \notin Denied(step, verdict, server')
      BY <1>3, <1>8
    <2>2. f \in Bars /\ SymbolOf[f] \notin server' /\ verdict # "lost"
      BY <1>3, <1>4, <1>8, <2>1, ServeSends
    <2>3. SymbolOf[f] \notin server
      BY <1>3, <1>4, <1>8, <2>2, ServeSends
    <2>4. verdict = "refused"
      BY <1>3, <1>4, <1>8, <2>2, <2>3 DEF Verdict
    <2>5. QED
      BY <1>1, <1>2, <1>3, <1>8, <2>4 DEF Asking
  <1>9. QED
    BY <1>6, <1>7, <1>8

\* Every step keeps what is recorded followed, denied, still to come, or of the call under
\* way.
LEMMA KeptStep ==
  TypeOK /\ RestoreIsOrdered /\ RequestsAreAnsweredOnce /\ HubsCallIsOrdered /\ Kept /\ [Next]_vars
    => Kept'
  <1> SUFFICES ASSUME TypeOK, RestoreIsOrdered, RequestsAreAnsweredOnce, HubsCallIsOrdered, Kept,
                      [Next]_vars
               PROVE  Kept'
    OBVIOUS
  <1>1. /\ asked \in [Callers -> Steps \cup {NoStep}] /\ answer \in [Callers -> Answers]
        /\ Callers = {"hub", "supervisor"}
    BY DEF TypeOK, Callers
  <1>2. ASSUME UNCHANGED <<registry, restore, asked, answer, link, signed, server, denied>>,
               sup' = sup \/ (sup = "restoring" /\ sup' = "ready")
        PROVE  Kept'
    BY <1>2 DEF Kept, Alive, Due, Asking, Stranded
  <1>3. CASE Apply \/ Leave \/ Applied \/ Interface \/ Restored \/ UNCHANGED vars
    BY <1>2, <1>3 DEF Apply, Leave, Begin, Applied, Interface, DropHub, Set, Restored, vars,
                      taskVars, supVars, callVars, netVars, ghosts
  <1>4. CASE Record
    BY <1>4, RecordKeepsFeeds
  <1>5. CASE Call
    <2>1. hub = "recorded" /\ UNCHANGED <<registry, sup, restore, link, signed, server, denied>>
      BY <1>5 DEF Call, supVars, ghosts
    <2>2. CASE Reachable /\ link
      <3>1. UNCHANGED <<asked, answer>>
        BY <1>5, <2>2 DEF Call, Ask
      <3>2. QED
        BY <1>2, <2>1, <3>1
    <2>3. CASE ~Reachable \/ ~link
      BY <2>1, <2>3 DEF Kept, Alive, Reachable, RequestsAreAnsweredOnce
    <2>4. QED
      BY <2>2, <2>3
  <1>6. CASE Settle
    <2>1. /\ answer["hub"] # "none" /\ UNCHANGED <<sup, restore, link, signed, server, denied>>
          /\ asked'["supervisor"] = asked["supervisor"] /\ answer'["supervisor"] = answer["supervisor"]
          /\ registry' = IF ~Unsubscribes(asked["hub"]) /\ answer["hub"] = "refused"
                         THEN registry \ asked["hub"].feeds ELSE registry
      BY <1>1, <1>6 DEF Settle, supVars, netVars
    <2>2. \A f \in registry' : f \in registry /\ ~Asking(f)
      BY <2>1 DEF Asking, RequestsAreAnsweredOnce
    <2>3. \A f : (Due(f)' <=> Due(f)) /\ (Stranded(f)' <=> Stranded(f))
      BY <2>1 DEF Due, Stranded
    <2>4. QED
      BY <2>1, <2>2, <2>3 DEF Kept, Alive
  <1>7. CASE Connect \/ Disconnected \/ AccountDisconnected \/ Reauthorized \/ Drop \/ EndAccount
    BY <1>7 DEF Connect, Disconnected, AccountDisconnected, Reauthorized, Drop, EndAccount, Kept, Alive
  <1>8. CASE CopyRegistry
    <2>1. restore' = RestorePlan(registry) /\ registry' = registry
      BY <1>8 DEF CopyRegistry
    <2>2. \A f \in registry : Due(f)'
      <3> SUFFICES ASSUME NEW f \in registry
                   PROVE  \E step \in RestorePlan(registry) : f \in step.feeds
        BY <2>1 DEF Due
      <3>1. CASE f \in Symbols
        <4>1. [turn |-> 3, feeds |-> registry \cap Symbols] \in RestorePlan(registry)
          BY <3>1 DEF RestorePlan, Batch
        <4>2. QED
          BY <3>1, <4>1
      <3>2. CASE f \in Bars
        <4>1. [turn |-> 4, feeds |-> {f}] \in RestorePlan(registry)
          BY <3>2 DEF RestorePlan, Each
        <4>2. QED
          BY <4>1
      <3>3. QED
        BY <3>1, <3>2 DEF TypeOK, Feeds
    <2>3. QED
      BY <2>1, <2>2 DEF Kept
  <1>9. CASE RestoreNext
    <2>1. PICK step \in Upcoming(restore) :
            restore' = restore \ {step} /\ asked' = [asked EXCEPT !["supervisor"] = step]
      BY <1>9 DEF RestoreNext
    <2>2. /\ asked["supervisor"] = NoStep /\ answer["supervisor"] = "none" /\ Ask("supervisor")
          /\ UNCHANGED <<registry, sup, link, signed, server, denied>>
      BY <1>9 DEF RestoreNext, taskVars, ghosts, RequestsAreAnsweredOnce
    <2>3. asked'["supervisor"] = step /\ asked'["hub"] = asked["hub"]
      BY <1>1, <2>1
    <2>4. CASE link
      <3>1. answer' = answer
        BY <2>2, <2>4 DEF Ask
      <3>2. step \in restore
        BY <2>1 DEF Upcoming
      <3>3. \A f : Due(f)' <=> Due(f)
        BY <2>1, <2>2, <2>3, <3>1, <3>2 DEF Due, NoStep
      <3>4. \A f : (Stranded(f)' <=> Stranded(f)) /\ (Asking(f)' <=> Asking(f))
        BY <2>2, <2>3, <3>1, <3>3 DEF Stranded, Asking
      <3>5. QED
        BY <2>2, <3>3, <3>4 DEF Kept, Alive
    <2>5. CASE ~link
      BY <2>2, <2>5 DEF Kept, Alive
    <2>6. QED
      BY <2>4, <2>5
  <1>10. CASE RestoreAnswered
    <2>1. /\ answer["supervisor"] # "none"
          /\ UNCHANGED <<registry, sup, restore, link, signed, server, denied>>
          /\ asked'["hub"] = asked["hub"] /\ answer'["hub"] = answer["hub"]
          /\ asked'["supervisor"] = NoStep
      BY <1>1, <1>10 DEF RestoreAnswered, taskVars, supVars, netVars, ghosts
    <2>2. \A f : Due(f)' <=> Due(f)
      BY <2>1 DEF Due, NoStep
    <2>3. \A f : (Stranded(f)' <=> Stranded(f)) /\ (Asking(f)' <=> Asking(f))
      BY <2>1, <2>2 DEF Stranded, Asking
    <2>4. QED
      BY <2>1, <2>2, <2>3 DEF Kept, Alive
  <1>11. CASE Serve
    <2>1. Head(pipe) \in Callers
      BY <1>11, ServeOnce
    <2>2. QED
      BY <1>1, <1>11, <2>1, ServeRestores, ServeAnswersHub
  <1>12. QED
    BY <1>3, <1>4, <1>5, <1>6, <1>7, <1>8, <1>9, <1>10, <1>11
       DEF Next, HubTask, Supervise, Network

\* A session that starts.
LEMMA InitHolds ==
  Init => /\ TypeOK /\ WantedInv /\ PlansAreOrdered /\ RestoreIsOrdered
          /\ RequestsAreAnsweredOnce /\ HubsCallIsOrdered /\ Kept
  <1> SUFFICES ASSUME Init
               PROVE  /\ TypeOK /\ WantedInv /\ PlansAreOrdered /\ RestoreIsOrdered
                      /\ RequestsAreAnsweredOnce /\ HubsCallIsOrdered /\ Kept
    OBVIOUS
  <1>1. TypeOK /\ WantedInv
    <2>1. <<>> \in Seq(Callers) /\ {} \in SUBSET Feeds /\ {} \in SUBSET Steps
      OBVIOUS
    <2>2. /\ [o \in Owners |-> {}] \in [Owners -> SUBSET Feeds]
          /\ [c \in Callers |-> NoStep] \in [Callers -> Steps \cup {NoStep}]
          /\ [c \in Callers |-> "none"] \in [Callers -> Answers]
      BY <2>1 DEF Answers
    <2>3. QED
      BY <2>1, <2>2 DEF Init, TypeOK, WantedInv, HubTypes, Pending, RecordedIsWanted
  <1>2. PlansAreOrdered /\ RestoreIsOrdered /\ HubsCallIsOrdered /\ Kept
    BY DEF Init, PlansAreOrdered, Closed, RestoreIsOrdered, HubsCallIsOrdered, Shaped, NoStep, Callers,
           Kept, Alive
  <1>3. \A c : ~Waits(c)
    BY DEF Init, Waits
  <1>4. OnceInPipe
    BY DEF Init, OnceInPipe
  <1>5. /\ \A c \in Callers : asked[c] = NoStep /\ answer[c] = "none"
        /\ registry = {} /\ client = FALSE /\ sup = "down"
    BY DEF Init
  <1>6. RequestsAreAnsweredOnce
    BY <1>3, <1>4, <1>5 DEF RequestsAreAnsweredOnce, Callers
  <1>7. QED
    BY <1>1, <1>2, <1>6

\* While the session is ready, everything in the registry is followed but the feeds of
\* the call under way, and what the server denied when it was last asked: no change of the
\* wishes, no loss of the connection or of the account's session, and no call that comes
\* while the supervisor restores leaves a feed behind.  Nothing is assumed of the server.
THEOREM NothingStaysLost == Spec => []NothingLost
  <1>1. Init => /\ TypeOK /\ WantedInv /\ PlansAreOrdered /\ RestoreIsOrdered
                /\ RequestsAreAnsweredOnce /\ HubsCallIsOrdered /\ Kept
    BY InitHolds
  <1>2. TypeOK /\ RestoreIsOrdered /\ RequestsAreAnsweredOnce /\ HubsCallIsOrdered /\ Kept => NothingLost
    <2> SUFFICES ASSUME TypeOK, RestoreIsOrdered, RequestsAreAnsweredOnce, HubsCallIsOrdered, Kept,
                        sup = "ready", link, signed, NEW f \in Obtainable, f \notin asked["hub"].feeds
                 PROVE  f \in server
      BY DEF NothingLost
    <2>1. \A g : ~Due(g)
      BY DEF Due, RestoreIsOrdered, NoStep
    <2>2. f \in server \/ Stranded(f)
      BY <2>1 DEF Kept, Alive, Asking, Obtainable
    <2>3. CASE Stranded(f)
      <3>1. /\ f \in registry \cap Bars /\ SymbolOf[f] \in registry \ denied
            /\ SymbolOf[f] \in Symbols /\ SymbolOf[f] \notin Bars /\ SymbolOf[f] \notin server
        BY <2>3, FeedAssumption DEF Stranded, Obtainable
      <3>2. Asking(SymbolOf[f])
        BY <2>1, <3>1 DEF Kept, Alive, Stranded
      <3>3. asked["hub"] \in Steps \cup {NoStep} /\ SymbolOf[f] \in asked["hub"].feeds
        BY <3>2 DEF TypeOK, Callers, Asking
      <3>4. ~Unsubscribes(asked["hub"])
        BY <3>1, <3>3 DEF RequestsAreAnsweredOnce
      <3>5. asked["hub"].turn \in {3, 4}
        BY <3>3, <3>4 DEF Steps, NoStep, Unsubscribes
      <3>6. FALSE
        BY <3>1, <3>3, <3>5 DEF HubsCallIsOrdered, Shaped
      <3>7. QED
        BY <3>6
    <2>4. QED
      BY <2>2, <2>3
  <1>3. QED
    BY <1>1, <1>2, TypeStep, WantedStep, OrderStep, RestoreStep, RequestsStep, HubsCallStep, KeptStep,
       PTL DEF Spec
-----------------------------------------------------------------------------
(* What is followed is recorded.  A restore may ask for what the registry    *)
(* forgot since it was copied, so what it has is recorded or astray.         *)

FollowedInv ==
  /\ FollowedIsRecorded
  /\ ~link \/ ~signed => server = {}
  /\ sup = "down" => ~link
  /\ link /\ signed => Copied \subseteq registry \cup astray
  /\ ~Unsubscribes(asked["hub"]) => asked["hub"].feeds \subseteq registry
  /\ Unsubscribes(asked["hub"]) /\ answer["hub"] # "none"
       => asked["hub"].feeds \cap server \subseteq astray

\* A call is written down: what it forgets is asked to stop, and astray while a restore
\* has it.
LEMMA RecordFollows ==
  ASSUME TypeOK, RequestsAreAnsweredOnce, FollowedInv, Record
  PROVE  FollowedInv'
  <1>1. PICK step \in todo :
          LET feeds == IF Unsubscribes(step) THEN step.feeds \cap registry
                       ELSE step.feeds \ registry
          IN /\ registry' = Recorded(step)
             /\ astray' = IF Unsubscribes(step) THEN astray \cup (feeds \cap Copied) ELSE astray \ feeds
             /\ IF feeds = {} THEN UNCHANGED <<hub, asked>>
                ELSE /\ hub' = "recorded"
                     /\ asked' = [asked EXCEPT !["hub"] = [step EXCEPT !.feeds = feeds]]
    BY DEF Record, Upcoming
  <1>2. /\ UNCHANGED <<link, signed, sup, restore, answer, server>>
        /\ asked["hub"] = NoStep /\ answer["hub"] = "none"
    BY DEF Record, supVars, netVars, RequestsAreAnsweredOnce
  <1>3. /\ asked \in [Callers -> Steps \cup {NoStep}] /\ "hub" \in Callers /\ step \in Steps
        /\ asked'["supervisor"] = asked["supervisor"]
    BY <1>1 DEF TypeOK, Callers
  <1>4. Copied' = Copied
    BY <1>2, <1>3 DEF Copied
  <1>5. \A feeds : asked' = [asked EXCEPT !["hub"] = [step EXCEPT !.feeds = feeds]]
          => asked'["hub"].feeds = feeds /\ asked'["hub"].turn = step.turn
    BY <1>3 DEF Steps
  <1>6. /\ Unsubscribes(step) => step.feeds \cap registry = asked'["hub"].feeds
        /\ ~Unsubscribes(step) => step.feeds \ registry = asked'["hub"].feeds
        /\ asked'["hub"].feeds # {} => asked'["hub"].turn = step.turn
    <2>1. CASE UNCHANGED asked
      BY <1>1, <1>2, <1>5, <2>1 DEF NoStep
    <2>2. CASE ~UNCHANGED asked
      BY <1>1, <1>5, <2>2
    <2>3. QED
      BY <2>1, <2>2
  <1>7. CASE Unsubscribes(step)
    <2>1. registry' = registry \ step.feeds /\ astray' = astray \cup (step.feeds \cap registry \cap Copied)
      BY <1>1, <1>7 DEF Recorded
    <2>2. ~Unsubscribes(asked'["hub"]) => asked'["hub"].feeds = {}
      BY <1>6, <1>7 DEF Unsubscribes
    <2>3. QED
      BY <1>2, <1>4, <1>6, <1>7, <2>1, <2>2 DEF FollowedInv, FollowedIsRecorded, NoStep
  <1>8. CASE ~Unsubscribes(step)
    <2>1. registry' = registry \cup step.feeds /\ astray' = astray \ (step.feeds \ registry)
      BY <1>1, <1>8 DEF Recorded
    <2>2. QED
      BY <1>2, <1>4, <1>6, <1>8, <2>1 DEF FollowedInv, FollowedIsRecorded, NoStep
  <1>9. QED
    BY <1>7, <1>8

\* What is served was asked for by the hub, or by a restore, which had it from the registry.
LEMMA ServeFollows ==
  ASSUME TypeOK, RequestsAreAnsweredOnce, FollowedInv, Serve
  PROVE  FollowedInv'
  <1>1. /\ UNCHANGED <<link, signed, sup, restore, registry, asked>> /\ link
        /\ Head(pipe) \in Callers
    BY ServeOnce DEF Serve, taskVars, supVars
  <1> DEFINE step == asked[Head(pipe)]
  <1>2. PICK verdict : /\ server' = Outcome(step, verdict)
                       /\ answer' = [answer EXCEPT ![Head(pipe)] = verdict]
                       /\ astray' = IF Unsubscribes(step) THEN astray \cup (step.feeds \cap server')
                                    ELSE astray
    BY DEF Serve
  <1>3. /\ ~signed => server' = server
        /\ Unsubscribes(step) => server' \subseteq server
        /\ server' \subseteq server \cup step.feeds
        /\ astray \subseteq astray'
    BY <1>2 DEF Outcome
  <1>4. Copied' = Copied
    BY <1>1 DEF Copied
  <1>5. /\ ~link \/ ~signed => server' = {}
        /\ link /\ signed => Copied \subseteq registry \cup astray'
        /\ ~Unsubscribes(asked["hub"]) => asked["hub"].feeds \subseteq registry
    BY <1>1, <1>3 DEF FollowedInv
  <1>6. CASE Head(pipe) = "hub"
    <2>1. FollowedIsRecorded'
      BY <1>1, <1>3, <1>6 DEF FollowedInv, FollowedIsRecorded
    <2>2. Unsubscribes(asked["hub"]) => asked["hub"].feeds \cap server' \subseteq astray'
      BY <1>2, <1>6
    <2>3. QED
      BY <1>1, <1>4, <1>5, <2>1, <2>2 DEF FollowedInv
  <1>7. CASE Head(pipe) = "supervisor"
    <2>1. signed => step.feeds \subseteq registry \cup astray
      BY <1>1, <1>7 DEF FollowedInv, Copied
    <2>2. FollowedIsRecorded'
      BY <1>1, <1>3, <2>1 DEF FollowedInv, FollowedIsRecorded
    <2>3. answer'["hub"] = answer["hub"]
      BY <1>7, ServeOnce DEF Callers
    <2>4. Unsubscribes(asked["hub"]) /\ answer["hub"] # "none"
            => asked["hub"].feeds \cap server' \subseteq astray'
      BY <1>3, <2>1 DEF FollowedInv, RequestsAreAnsweredOnce
    <2>5. QED
      BY <1>1, <1>4, <1>5, <2>2, <2>3, <2>4 DEF FollowedInv
  <1>8. QED
    BY <1>1, <1>6, <1>7 DEF Callers

\* Every step keeps what is followed recorded, astray, or of the call under way.
LEMMA FollowedStep ==
  TypeOK /\ RestoreIsOrdered /\ RequestsAreAnsweredOnce /\ FollowedInv /\ [Next]_vars => FollowedInv'
  <1> SUFFICES ASSUME TypeOK, RestoreIsOrdered, RequestsAreAnsweredOnce, FollowedInv, [Next]_vars
               PROVE  FollowedInv'
    OBVIOUS
  <1>1. /\ asked \in [Callers -> Steps \cup {NoStep}] /\ answer \in [Callers -> Answers]
        /\ Callers = {"hub", "supervisor"}
    BY DEF TypeOK, Callers
  <1>2. ASSUME UNCHANGED <<registry, restore, asked, answer, link, signed, server, astray>>,
               sup' = "down" => sup = "down" \/ ~link
        PROVE  FollowedInv'
    BY <1>2 DEF FollowedInv, FollowedIsRecorded, Copied
  <1>3. CASE Apply \/ Leave \/ Applied \/ Interface \/ Restored \/ Disconnected \/ AccountDisconnected
             \/ UNCHANGED vars
    BY <1>2, <1>3 DEF Apply, Leave, Begin, Applied, Interface, DropHub, Set, Restored, Disconnected,
                      AccountDisconnected, vars, taskVars, supVars, callVars, netVars, ghosts
  <1>4. CASE Record
    BY <1>4, RecordFollows
  <1>5. CASE Call
    <2>1. hub = "recorded" /\ UNCHANGED <<registry, sup, restore, link, signed, server, astray>>
      BY <1>5 DEF Call, supVars, ghosts
    <2>2. CASE Reachable /\ link
      <3>1. UNCHANGED <<asked, answer>>
        BY <1>5, <2>2 DEF Call, Ask
      <3>2. QED
        BY <1>2, <2>1, <3>1
    <2>3. CASE ~link
      <3>1. server = {} /\ asked'["supervisor"] = asked["supervisor"]
            /\ asked'["hub"] \in {asked["hub"], NoStep}
        BY <1>1, <1>5, <2>3 DEF Call, FollowedInv
      <3>2. QED
        BY <2>1, <2>3, <3>1 DEF FollowedInv, FollowedIsRecorded, NoStep
    <2>4. ~Reachable => ~link
      BY DEF Reachable, RequestsAreAnsweredOnce, FollowedInv
    <2>5. QED
      BY <2>2, <2>3, <2>4
  <1>6. CASE Settle
    <2>1. /\ answer["hub"] # "none" /\ UNCHANGED <<sup, restore, link, signed, server>>
          /\ asked'["supervisor"] = asked["supervisor"] /\ asked'["hub"] = NoStep
          /\ answer'["hub"] = "none"
      BY <1>1, <1>6 DEF Settle, supVars, netVars
    <2>2. PICK refused \in SUBSET asked["hub"].feeds :
            /\ registry' = registry \ refused
            /\ astray' = astray \cup (refused \cap (server \cup Copied))
      BY <1>6 DEF Settle
    <2>3. Copied' = Copied
      BY <2>1 DEF Copied
    <2>4. asked["hub"].feeds \cap server \subseteq registry \cup astray
      BY <2>1 DEF FollowedInv
    <2>5. QED
      BY <2>1, <2>2, <2>3, <2>4 DEF FollowedInv, FollowedIsRecorded, NoStep
  <1>7. CASE Connect \/ Reauthorized
    <2>1. /\ UNCHANGED <<registry, restore, asked, answer, server, astray>>
          /\ sup # "restoring" /\ sup' = "connected"
      BY <1>7 DEF Connect, Reauthorized, callVars, ghosts
    <2>2. Copied' = {}
      BY <2>1 DEF RestoreIsOrdered, Copied, NoStep
    <2>3. link' /\ signed'
      BY <1>7 DEF Connect, Reauthorized
    <2>4. QED
      BY <2>1, <2>2, <2>3 DEF FollowedInv, FollowedIsRecorded
  <1>8. CASE CopyRegistry
    <2>1. /\ UNCHANGED <<registry, asked, answer, server, astray, link, signed>>
          /\ restore' = RestorePlan(registry) /\ asked["supervisor"] = NoStep /\ sup' = "restoring"
      BY <1>8 DEF CopyRegistry, callVars, netVars, RestoreIsOrdered
    <2>2. Copied' \subseteq registry
      BY <2>1 DEF Copied, NoStep, RestorePlan, Batch, Each
    <2>3. QED
      BY <2>1, <2>2 DEF FollowedInv, FollowedIsRecorded
  <1>9. CASE RestoreNext \/ RestoreAnswered
    <2>1. /\ UNCHANGED <<registry, server, astray, link, signed, sup>>
          /\ asked'["hub"] = asked["hub"] /\ answer'["hub"] = answer["hub"]
      BY <1>1, <1>9 DEF RestoreNext, Ask, RestoreAnswered, supVars, netVars, ghosts
    <2>2. Copied' \subseteq Copied
      <3>1. CASE RestoreNext
        <4>1. PICK step \in restore :
                restore' = restore \ {step} /\ asked' = [asked EXCEPT !["supervisor"] = step]
          BY <3>1 DEF RestoreNext, Upcoming
        <4>2. asked'["supervisor"] = step
          BY <1>1, <4>1
        <4>3. QED
          BY <4>1, <4>2 DEF Copied
      <3>2. CASE RestoreAnswered
        <4>1. asked'["supervisor"] = NoStep /\ UNCHANGED restore
          BY <1>1, <3>2 DEF RestoreAnswered, supVars
        <4>2. QED
          BY <4>1 DEF Copied, NoStep
      <3>3. QED
        BY <1>9, <3>1, <3>2
    <2>3. QED
      BY <2>1, <2>2 DEF FollowedInv, FollowedIsRecorded
  <1>10. CASE Drop \/ EndAccount
    <2>1. /\ UNCHANGED <<registry, asked, sup>> /\ server' = {} /\ ~(link' /\ signed')
      BY <1>10 DEF Drop, EndAccount, supVars, callVars, FollowedInv
    <2>2. sup' = "down" => ~link'
      BY <1>10, <2>1 DEF Drop, EndAccount, FollowedInv
    <2>3. QED
      BY <2>1, <2>2 DEF FollowedInv, FollowedIsRecorded
  <1>11. CASE Serve
    BY <1>11, ServeFollows
  <1>12. QED
    BY <1>3, <1>4, <1>5, <1>6, <1>7, <1>8, <1>9, <1>10, <1>11
       DEF Next, HubTask, Supervise, Network

\* Nothing is followed that the registry does not hold, but the feeds of the call under
\* way and what is astray: what was unsubscribed, or its subscription refused, while a
\* restore had it in its copy, and what the server sends though it refused to or was asked
\* not to.
THEOREM FollowedStaysRecorded == Spec => []FollowedIsRecorded
  <1>1. Init => TypeOK /\ RestoreIsOrdered /\ RequestsAreAnsweredOnce /\ FollowedInv
    <2>1. Init => FollowedInv
      BY DEF Init, FollowedInv, FollowedIsRecorded, Copied, Callers, NoStep
    <2>2. QED
      BY <2>1, InitHolds
  <1>2. FollowedInv => FollowedIsRecorded
    BY DEF FollowedInv
  <1>3. QED
    BY <1>1, <1>2, TypeStep, RestoreStep, RequestsStep, FollowedStep, PTL DEF Spec
=============================================================================
