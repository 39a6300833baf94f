------------------------------- MODULE Connection -------------------------------
(***************************************************************************)
(* One connection to the Open API (crates/wyck-ctrader/src/connection.rs   *)
(* and connection/task.rs): the requests of its clients, each waiting for  *)
(* an answer of its own, the task that owns the socket, and the end of the *)
(* connection, which has to reach every request that waits.                *)
(*                                                                         *)
(* A request is a call of the client: it may be sent again when it was     *)
(* refused for its rate, each time under an identifier of its own.  The    *)
(* table of the waiters has a lock; whatever one thread does to it between *)
(* two other operations is a step.                                         *)
(*                                                                         *)
(* Abstracted: the rate limiters (a request may always be let through),    *)
(* what a message says beyond being an answer, a refusal for the rate or   *)
(* something that follows the answer, and the readers of the events.       *)
(***************************************************************************)
EXTENDS Naturals, Sequences

CONSTANTS
  Requests,    \* the calls made on the connection; each holds a clone of the client
  Retries,     \* rate_limit_retries
  Capacity,    \* OUTGOING_QUEUE
  Follows      \* bound: messages with the identifier of a request after its answer

ASSUME ConnectionAssumption ==
  /\ Retries \in Nat /\ Capacity \in Nat \ {0} /\ Follows \in Nat

VARIABLES
  at, tries, result,  \* per request: where its call is, its retries, what it returned
  rx,                 \* per request: what its oneshot receiver holds
  holds,              \* the requests whose clone of the client is still there
  pending, closed, shutdown,  \* Shared.pending, Shared.closed, Shared.shutdown
  outgoing,           \* the queue to the task
  task,               \* where the task is
  due,                \* the messages that the server has yet to send, per identifier
  lost                \* history: identifiers of messages that reached neither their
                      \* request nor the readers of the events

callVars == <<at, tries, result, rx, holds>>
vars == <<callVars, pending, closed, shutdown, outgoing, task, due, lost>>

Ids   == Requests \X (0..Retries)
Id(r) == <<r, tries[r]>>

Places  == {"idle", "registering", "registered", "sending", "waiting", "leaving", "pausing", "done"}
Results == {"none", "answer", "refused", "closed", "timeout", "cancelled"}

Init ==
  /\ at = [r \in Requests |-> "idle"] /\ tries = [r \in Requests |-> 0]
  /\ result = [r \in Requests |-> "none"] /\ rx = [r \in Requests |-> "empty"]
  /\ holds = Requests
  /\ pending = {} /\ closed = FALSE /\ shutdown = FALSE
  /\ outgoing = <<>> /\ task = "loop"
  /\ due = [i \in Ids |-> 0]
  /\ lost = {}

-----------------------------------------------------------------------------
(* exchange: one attempt of a call *)

Returns(r, how) == at' = [at EXCEPT ![r] = "done"] /\ result' = [result EXCEPT ![r] = how]
Goes(r, place)  == at' = [at EXCEPT ![r] = place] /\ UNCHANGED result

\* A connection that has ended is noticed before anything else.
Begin(r) ==
  /\ at[r] \in {"idle", "pausing"} /\ r \in holds
  /\ tries' = [tries EXCEPT ![r] = IF at[r] = "pausing" THEN @ + 1 ELSE @]
  /\ IF closed THEN Returns(r, "closed") ELSE Goes(r, "registering")
  /\ UNCHANGED <<rx, holds, pending, closed, shutdown, outgoing, task, due, lost>>

\* The rate limiter let the request through: its waiter goes into the table.
Register(r) ==
  /\ at[r] = "registering"
  /\ pending' = pending \cup {Id(r)}
  /\ rx' = [rx EXCEPT ![r] = "empty"]
  /\ Goes(r, "registered")
  /\ UNCHANGED <<tries, holds, closed, shutdown, outgoing, task, due, lost>>

\* Slip: the end of the connection is only looked for before registering.
SendUnchecked(r) ==
  /\ at[r] = "registered"
  /\ Goes(r, "sending")
  /\ UNCHANGED <<tries, rx, holds, pending, closed, shutdown, outgoing, task, due, lost>>

\* "A connection that ended between the check above and now": look again.
Recheck(r) ==
  /\ at[r] = "registered"
  /\ IF closed THEN Returns(r, "closed") /\ pending' = pending \ {Id(r)}
     ELSE Goes(r, "sending") /\ UNCHANGED pending
  /\ UNCHANGED <<tries, rx, holds, closed, shutdown, outgoing, task, due, lost>>

\* The request is queued once there is room, while the task still reads the queue.
Send(r) ==
  /\ at[r] = "sending"
  /\ \/ /\ task # "ended" /\ Len(outgoing) < Capacity
        /\ outgoing' = Append(outgoing, Id(r)) /\ Goes(r, "waiting")
        /\ UNCHANGED pending
     \/ /\ task = "ended"
        /\ Returns(r, "closed") /\ pending' = pending \ {Id(r)}
        /\ UNCHANGED outgoing
  /\ UNCHANGED <<tries, rx, holds, closed, shutdown, task, due, lost>>

\* Slip: one retry too few.
ReceiveEarly(r) ==
  /\ at[r] = "waiting" /\ rx[r] # "empty"
  /\ pending' = pending \ {Id(r)}
  /\ IF rx[r] = "refused" /\ tries[r] + 1 < Retries THEN Goes(r, "pausing")
     ELSE Returns(r, rx[r])
  /\ UNCHANGED <<tries, rx, holds, closed, shutdown, outgoing, task, due, lost>>

\* The answer is there; a refusal for the rate is tried again after a pause.
Receive(r) ==
  /\ at[r] = "waiting" /\ rx[r] # "empty"
  /\ pending' = pending \ {Id(r)}
  /\ IF rx[r] = "refused" /\ tries[r] < Retries THEN Goes(r, "pausing")
     ELSE Returns(r, rx[r])
  /\ UNCHANGED <<tries, rx, holds, closed, shutdown, outgoing, task, due, lost>>

\* The timeout of a send or of an answer fires, or the caller drops the call at any of
\* its awaits: the receiver goes first ...
GiveUp(r, how) ==
  /\ \/ at[r] = "sending"
     \/ at[r] = "waiting" /\ (how = "timeout" => rx[r] = "empty")
     \/ at[r] \in {"registering", "pausing"} /\ how = "cancelled"
  /\ at' = [at EXCEPT ![r] = "leaving"] /\ result' = [result EXCEPT ![r] = how]
  /\ UNCHANGED <<tries, rx, holds, pending, closed, shutdown, outgoing, task, due, lost>>

\* Slip: the waiter of a call that gave up stays in the table.
LeaveTheWaiter(r) ==
  /\ at[r] = "leaving"
  /\ at' = [at EXCEPT ![r] = "done"]
  /\ UNCHANGED <<tries, result, rx, holds, pending, closed, shutdown, outgoing, task, due, lost>>

\* ... then PendingRequest takes the waiter out of the table.
Leave(r) ==
  /\ at[r] = "leaving"
  /\ at' = [at EXCEPT ![r] = "done"]
  /\ pending' = pending \ {Id(r)}
  /\ UNCHANGED <<tries, result, rx, holds, closed, shutdown, outgoing, task, due, lost>>

-----------------------------------------------------------------------------
(* The clones of the client *)

\* Slip: a clone that goes counts for nothing.
DropQuietly(r) ==
  /\ r \in holds /\ at[r] \in {"idle", "done"}
  /\ holds' = holds \ {r}
  /\ UNCHANGED <<at, tries, result, rx, pending, closed, shutdown, outgoing, task, due, lost>>

\* Drop: the last clone asks the task to close.
DropClient(r) ==
  /\ r \in holds /\ at[r] \in {"idle", "done"}
  /\ holds' = holds \ {r}
  /\ shutdown' = (shutdown \/ holds' = {})
  /\ UNCHANGED <<at, tries, result, rx, pending, closed, outgoing, task, due, lost>>

Close ==
  /\ holds # {} /\ ~closed /\ ~shutdown
  /\ shutdown' = TRUE
  /\ UNCHANGED <<callVars, pending, closed, outgoing, task, due, lost>>

-----------------------------------------------------------------------------
(* run: the task of the socket *)

\* A queued request is taken and written; the server will answer, and may have more
\* to say of it.
Write ==
  /\ task = "loop" /\ outgoing # <<>>
  /\ outgoing' = Tail(outgoing)
  /\ \E messages \in 1..1 + Follows : due' = [due EXCEPT ![Head(outgoing)] = messages]
  /\ UNCHANGED <<callVars, pending, closed, shutdown, task, lost>>

\* route: a message goes to the request that waits for it, which may have dropped
\* its receiver just before, or becomes an event.
Route(id, what) ==
  /\ pending' = pending \ {id}
  /\ \/ /\ id \in pending /\ at[id[1]] # "leaving"
        /\ rx' = [rx EXCEPT ![id[1]] = what] /\ UNCHANGED lost
     \/ /\ id \in pending /\ at[id[1]] = "leaving"
        /\ lost' = lost \cup {id} /\ UNCHANGED rx
     \/ id \notin pending /\ UNCHANGED <<rx, lost>>

\* A frame is read.
Read ==
  /\ task = "loop"
  /\ \E id \in Ids, what \in {"answer", "refused"} :
       /\ due[id] > 0
       /\ due' = [due EXCEPT ![id] = IF what = "refused" THEN 0 ELSE @ - 1]
       /\ Route(id, what)
  /\ UNCHANGED <<at, tries, result, holds, closed, shutdown, outgoing, task>>

\* The heartbeat is due; its ping is written to its end, whatever happens meanwhile.
Beat ==
  /\ task = "loop" /\ task' = "pinging"
  /\ UNCHANGED <<callVars, pending, closed, shutdown, outgoing, due, lost>>

Pinged ==
  /\ task = "pinging" /\ task' = "loop"
  /\ UNCHANGED <<callVars, pending, closed, shutdown, outgoing, due, lost>>

\* The client closes, and takes its leave of the server.
Stop ==
  /\ task = "loop" /\ shutdown /\ task' = "ending"
  /\ UNCHANGED <<callVars, pending, closed, shutdown, outgoing, due, lost>>

\* The server ends it, says nothing for too long, or a read or write fails.
Break ==
  /\ task \in {"loop", "pinging"} /\ task' = "ending"
  /\ UNCHANGED <<callVars, pending, closed, shutdown, outgoing, due, lost>>

\* finish: the connection is marked as closed ...
MarkClosed ==
  /\ task = "ending" /\ task' = "closing"
  /\ closed' = TRUE
  /\ UNCHANGED <<callVars, pending, shutdown, outgoing, due, lost>>

\* Slip: nobody is told; the calls have their timeouts.
DrainSilently ==
  /\ task = "closing" /\ task' = "ended"
  /\ pending' = {} /\ outgoing' = <<>>
  /\ UNCHANGED <<callVars, closed, shutdown, due, lost>>

\* ... then every waiter in the table is failed, the end is published and the queue
\* goes with the task.
Drain ==
  /\ task = "closing" /\ task' = "ended"
  /\ pending' = {} /\ outgoing' = <<>>
  /\ rx' = [r \in Requests |->
              IF Id(r) \in pending /\ at[r] # "leaving" THEN "closed" ELSE rx[r]]
  /\ UNCHANGED <<at, tries, result, holds, closed, shutdown, due, lost>>

-----------------------------------------------------------------------------
Exchange(r) == Begin(r) \/ Register(r) \/ Recheck(r) \/ Send(r) \/ Receive(r) \/ Leave(r)
Caller(r)   == DropClient(r) \/ \E how \in {"timeout", "cancelled"} : GiveUp(r, how)
Socket      == Beat \/ Pinged \/ Write \/ Read \/ Stop \/ Break \/ MarkClosed \/ Drain

Next == Close \/ Socket \/ \E r \in Requests : Exchange(r) \/ Caller(r)

Spec == Init /\ [][Next]_vars

(***************************************************************************)
(* The threads run, a write ends (the ping has no timeout of its own, the  *)
(* socket has) and a stop is taken before what is queued and what arrived: *)
(* the select of the task is biased that way.  No timeout of a call is     *)
(* assumed to fire.                                                        *)
(***************************************************************************)
FairSpec ==
  /\ Spec
  /\ \A r \in Requests : WF_vars(Exchange(r))
  /\ WF_vars(Pinged) /\ WF_vars(MarkClosed) /\ WF_vars(Drain) /\ SF_vars(Stop)

-----------------------------------------------------------------------------
(* Properties *)

\* Every variable has its type, and the queue is bounded.
TypeOK ==
  /\ at \in [Requests -> Places] /\ tries \in [Requests -> 0..Retries]
  /\ result \in [Requests -> Results]
  /\ rx \in [Requests -> {"empty", "answer", "refused", "closed"}]
  /\ holds \subseteq Requests /\ pending \subseteq Ids
  /\ closed \in BOOLEAN /\ shutdown \in BOOLEAN
  /\ outgoing \in Seq(Ids) /\ Len(outgoing) <= Capacity
  /\ task \in {"loop", "pinging", "ending", "closing", "ended"}
  /\ due \in [Ids -> 0..1 + Follows]
  /\ lost \subseteq Ids

InTheTable == {"registered", "sending", "waiting", "leaving"}

\* The table holds no waiter of a call that is over, however it ended: the waiters
\* are those of the attempts being made (PendingRequest).
NoWaiterIsLeft == \A id \in pending : tries[id[1]] = id[2] /\ at[id[1]] \in InTheTable

\* A call that waits can still be told: it has its answer, its waiter is in the table
\* of a task that will answer it or fail it, or it finds out by itself that the
\* connection ended (exchange: no waiter is left "alone forever").
NobodyWaitsAlone ==
  \A r \in Requests :
    at[r] \in {"registered", "sending", "waiting"} =>
      \/ rx[r] # "empty"
      \/ Id(r) \in pending /\ task # "ended"
      \/ closed /\ at[r] = "registered"

\* What the server says of a request reaches the call or the readers of the events,
\* unless the call gave up.
OnlyGivenUpIsLost == \A id \in lost : result[id[1]] \in {"timeout", "cancelled"}

\* What the callers see of the connection: a call that left is over, whatever is still in
\* the table, and a receiver that nobody reads any more holds nothing.
PhaseOf(r) ==
  IF at[r] = "idle" THEN "idle" ELSE IF at[r] \in {"leaving", "done"} THEN "over" ELSE "asked"
AttemptOf(r) ==
  IF PhaseOf(r) # "asked" THEN 0 ELSE IF at[r] = "pausing" THEN tries[r] + 1 ELSE tries[r]
ToldOf(r) ==
  IF at[r] \in {"registered", "sending", "waiting"} /\ rx[r] \in {"answer", "refused"}
  THEN rx[r] ELSE "nothing"

Channel == INSTANCE RequestChannel WITH
  phase <- [r \in Requests |-> PhaseOf(r)], attempt <- [r \in Requests |-> AttemptOf(r)],
  told <- [r \in Requests |-> ToldOf(r)], outcome <- result, ended <- closed

\* However the answers, the retries, the timeouts and the end cross each other, each call
\* returns once: with an answer of its own, with a refusal after the last retry, with the
\* end of the connection only when it ended, or because it gave up.
IsChannel == Channel!Spec

\* Once a connection ended every call on it ends, without any timeout.
ClosedEndsCalls == \A r \in Requests : closed /\ at[r] # "idle" ~> at[r] = "done"

\* A connection that was asked to close, or whose last client is gone, ends.
ClosesInTheEnd == (shutdown \/ holds = {}) ~> closed
=============================================================================
