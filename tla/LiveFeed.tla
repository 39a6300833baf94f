-------------------------------- MODULE LiveFeed --------------------------------
(***************************************************************************)
(* Which prices and live bars are followed: the hub that turns the wishes  *)
(* of the charts and of the account into calls (wyck-app/src/market_data/  *)
(* live.rs), the calls of the session with the registry they keep          *)
(* (wyck-ctrader/src/session.rs), and the supervisor that brings the       *)
(* registry back on a new connection (session/supervisor.rs).              *)
(*                                                                         *)
(* Three tasks meet here: the user interface states wishes, the hub's task *)
(* makes its calls one after the other, and the supervisor connects and    *)
(* restores.  The registry has a lock and the client another, so what a    *)
(* call does to each is a step of its own.                                 *)
(*                                                                         *)
(* A feed is a symbol (its prices) or the bars of a symbol at a period.    *)
(* Abstracted: the order books, which no caller of the application follows,*)
(* why a connection ends, and the session's end (SessionSupervisor).       *)
(***************************************************************************)
EXTENDS Naturals, Sequences

CONSTANTS
  Owners,          \* the charts, the header and the account
  Symbols, Bars,   \* the feeds
  SymbolOf,        \* SymbolOf[b]: the symbol that the bars b are of
  Unknown,         \* symbols that the server refuses
  Partial,         \* whether the server does what it can of a request it refuses
  Faults           \* what else the server does: "limit", "account"

ASSUME FeedAssumption ==
  /\ Symbols \cap Bars = {} /\ SymbolOf \in [Bars -> Symbols]
  /\ Unknown \subseteq Symbols /\ Partial \in BOOLEAN
  /\ Faults \subseteq {"limit", "account"}

VARIABLES
  wishes, open,          \* LiveHub.wishes, and whether the hub is still there
  changed,               \* the task of the hub has not seen the last union of the wishes
  hub, current, want,    \* that task: where it is, and its two variables
  todo,                  \* the steps of its plan that are left
  registry, client,      \* Shared.registry, and whether Shared.client is some
  sup, restore,          \* the supervisor: where it is, the steps left of a restore
  asked, answer,         \* per caller: the request that waits and its answer
  link, signed,          \* whether the connection is up, and the account signed in on it
  told,                  \* the server's notice that it ended the account's session
  pipe,                  \* whose requests are on their way, in order
  server,                \* the feeds the server sends
  denied,                \* kept to be told of: what the server was asked for since the last
                         \* restore began and did not begin to send
  astray                 \* kept to be told of: what the registry forgot, and the server
                         \* sends or is still to be asked for

hubVars  == <<wishes, open, changed>>
taskVars == <<hub, current, want, todo>>
supVars  == <<sup, restore>>
callVars == <<asked, answer>>
netVars  == <<link, signed, told, pipe, server>>
ghosts   == <<denied, astray>>
vars == <<hubVars, taskVars, registry, client, supVars, callVars, netVars, ghosts>>

Feeds   == Symbols \cup Bars
Callers == {"hub", "supervisor"}
NoStep  == [turn |-> 0, feeds |-> {}]
Steps   == [turn : 1..4, feeds : (SUBSET Feeds) \ {{}}]
Answers == {"none", "ok", "already", "refused", "lost"}

\* What one owner may want: prices of symbols, or the bars of one with its prices.
Wishes == (SUBSET Symbols) \cup {{b, SymbolOf[b]} : b \in Bars}

Init ==
  /\ wishes = [o \in Owners |-> {}] /\ open = TRUE /\ changed = FALSE
  /\ hub = "rest" /\ current = {} /\ want = {} /\ todo = {}
  /\ registry = {} /\ client = FALSE
  /\ sup = "down" /\ restore = {}
  /\ asked = [c \in Callers |-> NoStep] /\ answer = [c \in Callers |-> "none"]
  /\ link = FALSE /\ signed = FALSE /\ told = FALSE /\ pipe = <<>> /\ server = {}
  /\ denied = {} /\ astray = {}

-----------------------------------------------------------------------------
(* LiveHub *)

Wanted == UNION {wishes[o] : o \in Owners}

\* Slip: a wish that changes while a plan is applied wakes nobody.
SetWhileAtRest(o, wish) ==
  /\ open
  /\ wishes' = [wishes EXCEPT ![o] = wish]
  /\ changed' = (changed \/ (Wanted' # Wanted /\ hub = "rest"))
  /\ UNCHANGED <<open, taskVars, registry, client, supVars, callVars, netVars, ghosts>>

Set(o, wish) ==
  /\ open
  /\ wishes' = [wishes EXCEPT ![o] = wish]
  /\ changed' = (changed \/ Wanted' # Wanted)
  /\ UNCHANGED <<open, taskVars, registry, client, supVars, callVars, netVars, ghosts>>

DropHub ==
  /\ open /\ open' = FALSE
  /\ UNCHANGED <<wishes, changed, taskVars, registry, client, supVars, callVars, netVars, ghosts>>

Batch(turn, feeds) == IF feeds = {} THEN {} ELSE {[turn |-> turn, feeds |-> feeds]}
Each(turn, feeds)  == {[turn |-> turn, feeds |-> {f}] : f \in feeds}

Unsubscribes(step) == step.turn <= 2

\* Slip: only the live bars are left when the hub goes.
PlanForBars(have, aim) ==
  Each(1, (have \ aim) \cap Bars)
  \cup Batch(2, IF aim = {} THEN {} ELSE (have \ aim) \cap Symbols)
  \cup Batch(3, (aim \ have) \cap Symbols) \cup Each(4, (aim \ have) \cap Bars)

\* plan: bars go before the prices they ride on, and come after them.
Plan(have, aim) ==
  Each(1, (have \ aim) \cap Bars) \cup Batch(2, (have \ aim) \cap Symbols)
  \cup Batch(3, (aim \ have) \cap Symbols) \cup Each(4, (aim \ have) \cap Bars)

Upcoming(steps) == {s \in steps : \A t \in steps : s.turn <= t.turn}

Begin(aim) ==
  /\ want' = aim /\ todo' = Plan(current, aim) /\ hub' = "applying"
  /\ UNCHANGED <<current, registry, client, supVars, callVars, netVars, ghosts>>

\* The task sees the latest union.
Apply == hub = "rest" /\ changed /\ changed' = FALSE /\ Begin(Wanted) /\ UNCHANGED <<wishes, open>>

\* Every owner is gone: nothing stays subscribed.
Leave == hub = "rest" /\ ~changed /\ ~open /\ current # {} /\ Begin({}) /\ UNCHANGED hubVars

Applied ==
  /\ hub = "applying" /\ todo = {}
  /\ current' = want /\ hub' = "rest"
  /\ UNCHANGED <<hubVars, want, todo, registry, client, supVars, callVars, netVars, ghosts>>

-----------------------------------------------------------------------------
(* Session::subscribe_*, unsubscribe_*: one call of the hub's task *)

\* What the registry holds once a step is written down.
Recorded(step) ==
  IF Unsubscribes(step) THEN registry \ step.feeds ELSE registry \cup step.feeds

\* What a restore under way has copied and may still ask for.
Copied == UNION {step.feeds : step \in restore \cup {asked["supervisor"]}}

\* Under the lock of the registry: what is new to it, or was in it, is to be asked.
Record ==
  /\ hub = "applying"
  /\ \E step \in Upcoming(todo) :
       LET feeds == IF Unsubscribes(step) THEN step.feeds \cap registry
                    ELSE step.feeds \ registry
       IN /\ todo' = todo \ {step}
          /\ registry' = Recorded(step)
          /\ astray' = IF Unsubscribes(step) THEN astray \cup (feeds \cap Copied) ELSE astray \ feeds
          /\ IF feeds = {} THEN UNCHANGED <<hub, asked>>
             ELSE /\ hub' = "recorded"
                  /\ asked' = [asked EXCEPT !["hub"] = [step EXCEPT !.feeds = feeds]]
  /\ UNCHANGED <<hubVars, current, want, client, supVars, answer, netVars, denied>>

\* Slip: the call is made once the session says it is ready.
OnceReady == sup = "ready"

\* Whether there is a client to ask.
Reachable == client

\* A request goes out on the connection; one that is down fails it at once.
Ask(caller) ==
  IF link THEN pipe' = Append(pipe, caller) /\ UNCHANGED answer
  ELSE answer' = [answer EXCEPT ![caller] = "lost"] /\ UNCHANGED pipe

\* Without a client the call is done: the registry has it for when one is back.
Call ==
  /\ hub = "recorded"
  /\ IF Reachable
     THEN hub' = "calling" /\ Ask("hub") /\ UNCHANGED asked
     ELSE /\ hub' = "applying" /\ asked' = [asked EXCEPT !["hub"] = NoStep]
          /\ UNCHANGED <<answer, pipe>>
  /\ UNCHANGED <<hubVars, current, want, todo, registry, client, supVars,
                 link, signed, told, server, ghosts>>

\* settle: a subscription that was refused is not kept; one that was lost is.
Settle ==
  /\ hub = "calling" /\ answer["hub"] # "none"
  /\ LET refused == IF ~Unsubscribes(asked["hub"]) /\ answer["hub"] = "refused"
                    THEN asked["hub"].feeds ELSE {}
     IN /\ registry' = registry \ refused
        /\ astray' = astray \cup (refused \cap (server \cup Copied))
  /\ hub' = "applying"
  /\ asked' = [asked EXCEPT !["hub"] = NoStep]
  /\ answer' = [answer EXCEPT !["hub"] = "none"]
  /\ UNCHANGED <<hubVars, current, want, todo, client, supVars, netVars, denied>>

-----------------------------------------------------------------------------
(* The supervisor *)

\* Connected and signed in: the client is there before the subscriptions are.
Connect ==
  /\ sup = "down"
  /\ link' = TRUE /\ signed' = TRUE /\ told' = FALSE
  /\ client' = TRUE
  /\ sup' = "connected"
  /\ UNCHANGED <<hubVars, taskVars, registry, restore, callVars, pipe, server, ghosts>>

\* restore_subscriptions works on a copy of the registry.
RestorePlan(feeds) == Batch(3, feeds \cap Symbols) \cup Each(4, feeds \cap Bars)

CopyRegistry ==
  /\ sup = "connected"
  /\ restore' = RestorePlan(registry)
  /\ sup' = "restoring"
  /\ denied' = {}
  /\ UNCHANGED <<hubVars, taskVars, registry, client, callVars, netVars, astray>>

RestoreNext ==
  /\ sup = "restoring" /\ asked["supervisor"] = NoStep
  /\ \E step \in Upcoming(restore) :
       /\ restore' = restore \ {step}
       /\ asked' = [asked EXCEPT !["supervisor"] = step]
  /\ Ask("supervisor")
  /\ UNCHANGED <<hubVars, taskVars, registry, client, sup, link, signed, told, server, ghosts>>

\* A refusal is reported, no more.
RestoreAnswered ==
  /\ asked["supervisor"] # NoStep /\ answer["supervisor"] # "none"
  /\ asked' = [asked EXCEPT !["supervisor"] = NoStep]
  /\ answer' = [answer EXCEPT !["supervisor"] = "none"]
  /\ UNCHANGED <<hubVars, taskVars, registry, client, supVars, netVars, ghosts>>

Restored ==
  /\ sup = "restoring" /\ restore = {} /\ asked["supervisor"] = NoStep
  /\ sup' = "ready"
  /\ UNCHANGED <<hubVars, taskVars, registry, client, restore, callVars, netVars, ghosts>>

\* The connection ended: the client is withdrawn before the next attempt.
Disconnected ==
  /\ sup \in {"ready", "signing"} /\ ~link
  /\ client' = FALSE /\ sup' = "down"
  /\ UNCHANGED <<hubVars, taskVars, registry, restore, callVars, netVars, ghosts>>

\* The notice is read: the account signs in again on the same connection ...
AccountDisconnected ==
  /\ sup = "ready" /\ link /\ told
  /\ told' = FALSE /\ sup' = "signing"
  /\ UNCHANGED <<hubVars, taskVars, registry, client, restore, callVars, link, signed, pipe, server, ghosts>>

\* ... and everything is subscribed again.
Reauthorized ==
  /\ sup = "signing" /\ link
  /\ signed' = TRUE /\ sup' = "connected"
  /\ UNCHANGED <<hubVars, taskVars, registry, client, restore, callVars, link, told, pipe, server, ghosts>>

-----------------------------------------------------------------------------
(* The connection and the server *)

\* finish: the end of a connection answers every request that waits.
Drop ==
  /\ link
  /\ link' = FALSE /\ signed' = FALSE /\ told' = FALSE /\ server' = {}
  /\ denied' = {} /\ astray' = {}
  /\ pipe' = <<>>
  /\ answer' = [c \in Callers |-> IF \E i \in 1..Len(pipe) : pipe[i] = c THEN "lost" ELSE answer[c]]
  /\ UNCHANGED <<hubVars, taskVars, registry, client, supVars, asked>>

EndAccount ==
  /\ "account" \in Faults /\ link /\ signed
  /\ signed' = FALSE /\ told' = TRUE /\ server' = {}
  /\ denied' = {} /\ astray' = {}
  /\ UNCHANGED <<hubVars, taskVars, registry, client, supVars, callVars, link, pipe>>

\* What the server says to a request, in the words the code knows.
Verdict(step) ==
  LET feeds == step.feeds IN
  CASE ~signed -> "refused"
    [] signed /\ Unsubscribes(step) -> IF feeds \subseteq server THEN "ok" ELSE "refused"
    [] OTHER -> IF feeds \cap Unknown # {} \/ \E b \in feeds \cap Bars : SymbolOf[b] \notin server
                THEN "refused"
                ELSE IF feeds \cap server # {} THEN "already" ELSE "ok"

\* What it sends from then on.
Outcome(step, verdict) ==
  IF verdict = "lost" \/ ~signed \/ (verdict # "ok" /\ ~Partial) THEN server
  ELSE IF Unsubscribes(step) THEN server \ step.feeds
  ELSE server \cup {f \in step.feeds : f \notin Unknown /\ (f \in Bars => SymbolOf[f] \in server)}

\* What it was asked to send and does not, though it has the prices that bars need.
Denied(step, verdict, sent) ==
  {f \in step.feeds \ sent : signed /\ (f \in Bars => verdict = "lost" \/ SymbolOf[f] \in sent)}

Serve ==
  LET step == asked[Head(pipe)] IN
  /\ link /\ pipe # <<>>
  /\ \E verdict \in {Verdict(step)} \cup (IF "limit" \in Faults THEN {"lost"} ELSE {}) :
       /\ answer' = [answer EXCEPT ![Head(pipe)] = verdict]
       /\ server' = Outcome(step, verdict)
       /\ denied' = IF Unsubscribes(step) THEN denied
                    ELSE (denied \ step.feeds) \cup Denied(step, verdict, server')
       /\ astray' = IF Unsubscribes(step) THEN astray \cup (step.feeds \cap server') ELSE astray
  /\ pipe' = Tail(pipe)
  /\ UNCHANGED <<hubVars, taskVars, registry, client, supVars, asked, link, signed, told>>

-----------------------------------------------------------------------------
HubTask   == Apply \/ Leave \/ Applied \/ Record \/ Call \/ Settle
Interface == DropHub \/ \E o \in Owners, wish \in Wishes : Set(o, wish)
Supervise == Connect \/ CopyRegistry \/ RestoreNext \/ RestoreAnswered \/ Restored
             \/ Disconnected \/ AccountDisconnected \/ Reauthorized
Network   == Drop \/ EndAccount \/ Serve

Next == HubTask \/ Interface \/ Supervise \/ Network

Spec == Init /\ [][Next]_vars

\* The hub's task runs and its requests end: the server answers them, or the
\* connection's request timeout does.
FairSpec == Spec /\ WF_vars(HubTask) /\ WF_vars(Serve)

-----------------------------------------------------------------------------
(* Properties *)

\* Every variable has its type, and what is on its way is a request that waits for
\* its answer, which it gets from the server or from the end of the connection.
TypeOK ==
  /\ wishes \in [Owners -> SUBSET Feeds] /\ open \in BOOLEAN /\ changed \in BOOLEAN
  /\ hub \in {"rest", "applying", "recorded", "calling"}
  /\ current \subseteq Feeds /\ want \subseteq Feeds /\ todo \subseteq Steps
  /\ registry \subseteq Feeds /\ client \in BOOLEAN
  /\ sup \in {"down", "connected", "restoring", "ready", "signing"} /\ restore \subseteq Steps
  /\ asked \in [Callers -> Steps \cup {NoStep}] /\ answer \in [Callers -> Answers]
  /\ link \in BOOLEAN /\ signed \in BOOLEAN /\ told \in BOOLEAN
  /\ pipe \in Seq(Callers) /\ server \subseteq Feeds
  /\ denied \subseteq Feeds /\ astray \subseteq Feeds
  /\ hub = "calling" => \/ answer["hub"] # "none"
                        \/ \E i \in 1..Len(pipe) : pipe[i] = "hub"

\* What the server can be expected to send: not what it denied, nor bars without their
\* symbol.
Obtainable == {f \in registry \ denied : f \in Bars => SymbolOf[f] \in registry \ denied}

\* While the session is ready everything in the registry is followed, whatever was lost and
\* restored before and whoever subscribed in the meantime: only the feeds of the call under
\* way may still be missing, and what the server denied when it was last asked (an unknown
\* symbol, the rest of a request it refused, or one that it let time out).
NothingLost ==
  sup = "ready" /\ link /\ signed => Obtainable \ asked["hub"].feeds \subseteq server

\* Only what is in the registry is followed, or of the call under way, with three exceptions
\* (`astray'): what was unsubscribed, or its subscription refused, while a restore had it in
\* its copy; what the server sends of a request it refused; and what it keeps sending though
\* it was asked not to.
FollowedIsRecorded == server \subseteq registry \cup asked["hub"].feeds \cup astray

\* The registry, which every restore copies, holds nothing that no owner wants: at rest
\* nothing outside what the hub applied.
RecordedIsWanted ==
  /\ hub = "rest" => registry \subseteq current
  /\ registry \subseteq current \cup want

\* The hub always reaches the latest wish: what is wanted changes again and again, or
\* it is what the hub applied, or the hub goes.
CatchesUp ==
  []<><<Wanted' # Wanted>>_vars \/ []<>(current = Wanted \/ ~open)

\* When every owner is gone the registry empties.
LeavesNothing == ~open ~> hub = "rest" /\ registry = {}

=============================================================================
