---------------------------- MODULE Session_proofs ----------------------------
(***************************************************************************)
(* Proofs about the two tasks below a session, which share nothing but the *)
(* server: first the connection, for every number of requests and retries  *)
(* and every capacity of the queue; then the supervisor, for every limit   *)
(* on the attempts.  Each property is strengthened to an invariant that    *)
(* every step preserves; those of the supervisor are small and share only  *)
(* the types.                                                              *)
(***************************************************************************)
EXTENDS Connection, SessionSupervisor, TLAPS

\* The identifier of the attempt a call is making is one.
LEMMA IdIsAnId == TypeOK => \A r \in Requests : Id(r) \in Ids
  BY ConnectionAssumption DEF TypeOK, Id, Ids

-----------------------------------------------------------------------------
(* Types and the bound of the queue *)

\* A call pauses only while it has a retry left.
RetryIsLeft == \A r \in Requests : at[r] = "pausing" => tries[r] < Retries

Types == TypeOK /\ RetryIsLeft

\* The steps of a call keep the types; Send alone fills the queue, while there is room.
LEMMA ExchangeTypes ==
  ASSUME Types, NEW r \in Requests, Exchange(r) PROVE Types'
  <1> USE ConnectionAssumption
  <1>1. CASE Begin(r)
    <2>1. tries' \in [Requests -> 0..Retries]
      BY <1>1 DEF Begin, TypeOK, Types, RetryIsLeft
    <2>2. QED
      BY <1>1, <2>1 DEF Begin, TypeOK, Types, RetryIsLeft, Returns, Goes, Places, Results
  <1>2. CASE Register(r)
    BY <1>2, IdIsAnId DEF Register, TypeOK, Types, RetryIsLeft, Goes, Places, Results
  <1>3. CASE Recheck(r)
    BY <1>3, IdIsAnId DEF Recheck, TypeOK, Types, RetryIsLeft, Returns, Goes, Places, Results
  <1>4. CASE Send(r)
    <2>1. Id(r) \in Ids /\ outgoing \in Seq(Ids) /\ Len(outgoing) <= Capacity
      BY IdIsAnId DEF Types, TypeOK
    <2>2. ASSUME outgoing' = Append(outgoing, Id(r)), Len(outgoing) < Capacity
          PROVE  outgoing' \in Seq(Ids) /\ Len(outgoing') <= Capacity
      BY <2>1, <2>2
    <2>3. \/ outgoing' = Append(outgoing, Id(r)) /\ Len(outgoing) < Capacity
          \/ outgoing' = outgoing
      BY <1>4 DEF Send
    <2>4. outgoing' \in Seq(Ids) /\ Len(outgoing') <= Capacity
      BY <2>1, <2>2, <2>3
    <2>5. QED
      BY <1>4, <2>4 DEF Send, TypeOK, Types, RetryIsLeft, Returns, Goes, Places, Results
  <1>5. CASE Receive(r)
    BY <1>5 DEF Receive, TypeOK, Types, RetryIsLeft, Returns, Goes, Places, Results
  <1>6. CASE Leave(r)
    BY <1>6 DEF Leave, TypeOK, Types, RetryIsLeft, Places
  <1>7. QED
    BY <1>1, <1>2, <1>3, <1>4, <1>5, <1>6 DEF Exchange

\* The clones of the client keep the types.
LEMMA CallerTypes ==
  ASSUME Types, NEW r \in Requests, Caller(r) PROVE Types'
  <1>1. CASE DropClient(r)
    BY <1>1 DEF DropClient, TypeOK, Types, RetryIsLeft
  <1>2. ASSUME NEW how \in {"timeout", "cancelled"}, GiveUp(r, how) PROVE Types'
    BY <1>2 DEF GiveUp, TypeOK, Types, RetryIsLeft, Places, Results
  <1>3. QED
    BY <1>1, <1>2 DEF Caller

\* The task of the socket keeps the types.
LEMMA SocketTypes == ASSUME Types, Socket PROVE Types'
  <1> USE ConnectionAssumption
  <1>1. CASE Beat \/ Pinged \/ Stop \/ Break \/ MarkClosed
    BY <1>1 DEF Beat, Pinged, Stop, Break, MarkClosed, callVars, TypeOK, Types, RetryIsLeft
  <1>2. CASE Write
    <2>1. outgoing' \in Seq(Ids) /\ Len(outgoing') <= Capacity /\ Head(outgoing) \in Ids
      BY <1>2 DEF Write, TypeOK, Types, RetryIsLeft
    <2>2. due' \in [Ids -> 0..1 + Follows]
      BY <1>2, <2>1 DEF Write, TypeOK, Types, RetryIsLeft
    <2>3. QED
      BY <1>2, <2>1, <2>2 DEF Write, TypeOK, Types, RetryIsLeft, callVars
  <1>3. CASE Read
    <2>1. PICK id \in Ids, what \in {"answer", "refused"} :
            /\ due[id] > 0
            /\ due' = [due EXCEPT ![id] = IF what = "refused" THEN 0 ELSE @ - 1]
            /\ Route(id, what)
      BY <1>3 DEF Read
    <2>2. due' \in [Ids -> 0..1 + Follows]
      BY <2>1 DEF TypeOK, Types, RetryIsLeft
    <2>3. id[1] \in Requests
      BY DEF Ids
    <2>4. /\ rx' \in [Requests -> {"empty", "answer", "refused", "closed"}]
          /\ pending' \subseteq Ids /\ lost' \subseteq Ids
      BY <2>1, <2>3 DEF TypeOK, Types, RetryIsLeft, Route
    <2>5. QED
      BY <1>3, <2>2, <2>4 DEF Read, TypeOK, Types, RetryIsLeft
  <1>4. CASE Drain
    BY <1>4 DEF Drain, TypeOK, Types, RetryIsLeft
  <1>5. QED
    BY <1>1, <1>2, <1>3, <1>4 DEF Socket

\* Every step keeps the types.
LEMMA TypeStep == Types /\ [Next]_vars => Types'
  <1>1. ASSUME Types, Close PROVE Types'
    BY <1>1 DEF Close, callVars, TypeOK, Types, RetryIsLeft
  <1>2. ASSUME Types, UNCHANGED vars PROVE Types'
    BY <1>2 DEF vars, callVars, TypeOK, Types, RetryIsLeft
  <1>3. QED
    BY <1>1, <1>2, ExchangeTypes, CallerTypes, SocketTypes DEF Next

\* The initial state has the types.
LEMMA InitialTypes == ASSUME Init PROVE Types
  <1>1. outgoing \in Seq(Ids) /\ Len(outgoing) <= Capacity
    BY ConnectionAssumption DEF Init
  <1>2. tries \in [Requests -> 0..Retries] /\ due \in [Ids -> 0..1 + Follows]
    BY ConnectionAssumption DEF Init
  <1>3. QED
    BY <1>1, <1>2 DEF Init, Types, TypeOK, RetryIsLeft, Places, Results

\* Every variable keeps its type, and no more than Capacity requests are queued.
THEOREM ConnectionTypes == Spec => []TypeOK
  <1>1. Types => TypeOK
    BY DEF Types
  <1>2. QED
    BY <1>1, InitialTypes, TypeStep, PTL DEF Spec

-----------------------------------------------------------------------------
(* The table of the waiters *)

\* The end of the connection was marked before its task ended.
EndedIsClosed == task \in {"closing", "ended"} => closed

\* A call that gave up is over once it left the table.
GivenUpIsOver ==
  \A r \in Requests :
    /\ at[r] = "leaving" => result[r] \in {"timeout", "cancelled"}
    /\ result[r] \in {"timeout", "cancelled"} => at[r] \in {"leaving", "done"}

TableInv ==
  /\ Types /\ EndedIsClosed /\ GivenUpIsOver
  /\ NoWaiterIsLeft /\ NobodyWaitsAlone /\ OnlyGivenUpIsLost

\* A step of one call, given what it did to its own place and to its own waiter,
\* disturbs no other call.
LEMMA OtherCalls ==
  ASSUME TableInv, NEW r \in Requests, Types',
         NEW place, at' = [at EXCEPT ![r] = place],
         \A q \in Requests \ {r} : tries'[q] = tries[q] /\ rx'[q] = rx[q] /\ result'[q] = result[q],
         UNCHANGED <<lost, task>>, closed => closed',
         \A id \in pending' : id \in pending \/ id[1] = r,
         \A id \in pending : id \in pending' \/ id[1] = r,
         \A id \in pending' : id[1] = r => tries'[r] = id[2] /\ place \in InTheTable,
         place \in {"registered", "sending", "waiting"} =>
           \/ rx'[r] # "empty"
           \/ Id(r)' \in pending' /\ task # "ended"
           \/ closed /\ place = "registered",
         place = "leaving" => result'[r] \in {"timeout", "cancelled"},
         result'[r] \in {"timeout", "cancelled"} => place \in {"leaving", "done"},
         result[r] \in {"timeout", "cancelled"} => result'[r] = result[r]
  PROVE  TableInv'
  <1>1. at'[r] = place /\ \A q \in Requests \ {r} : at'[q] = at[q]
    BY DEF TableInv, Types, TypeOK
  <1>2. \A q \in Requests \ {r} : Id(q)' = Id(q)
    BY DEF Id
  <1>3. NoWaiterIsLeft'
    <2>1. ASSUME NEW id \in pending', id[1] # r
          PROVE  tries'[id[1]] = id[2] /\ at'[id[1]] \in InTheTable
      <3>1. id \in pending /\ id[1] \in Requests
        BY <2>1 DEF TableInv, Types, TypeOK, Ids
      <3>2. QED
        BY <1>1, <2>1, <3>1 DEF TableInv, NoWaiterIsLeft
    <2>2. QED
      BY <1>1, <2>1 DEF NoWaiterIsLeft, InTheTable
  <1>4. NobodyWaitsAlone'
    <2>1. ASSUME NEW q \in Requests, q # r, at'[q] \in {"registered", "sending", "waiting"}
          PROVE  \/ rx'[q] # "empty"
                 \/ Id(q)' \in pending' /\ task' # "ended"
                 \/ closed' /\ at'[q] = "registered"
      <3>1. \/ rx[q] # "empty"
            \/ Id(q) \in pending /\ task # "ended"
            \/ closed /\ at[q] = "registered"
        BY <1>1, <2>1 DEF TableInv, NobodyWaitsAlone
      <3>2. Id(q)[1] # r
        BY <2>1 DEF Id
      <3>3. QED
        BY <1>1, <1>2, <2>1, <3>1, <3>2
    <2>2. QED
      BY <1>1, <2>1 DEF NobodyWaitsAlone
  <1>5. EndedIsClosed'
    BY DEF TableInv, EndedIsClosed
  <1>6. GivenUpIsOver'
    BY <1>1 DEF TableInv, GivenUpIsOver
  <1>7. OnlyGivenUpIsLost'
    BY DEF TableInv, OnlyGivenUpIsLost, Types, TypeOK, Ids
  <1>8. QED
    BY <1>3, <1>4, <1>5, <1>6, <1>7 DEF TableInv

\* The steps of a call keep the table.
LEMMA ExchangeKeeps ==
  ASSUME TableInv, NEW r \in Requests, Exchange(r) PROVE TableInv'
  <1> USE DEF Returns, Goes, InTheTable
  <1>0. Types'
    BY ExchangeTypes DEF TableInv
  <1>t. /\ at \in [Requests -> Places] /\ tries \in [Requests -> 0..Retries]
        /\ result \in [Requests -> Results] /\ DOMAIN rx = Requests
        /\ \A id \in pending : id = <<id[1], id[2]>>
    BY DEF TableInv, Types, TypeOK, Ids
  <1>w. \A id \in pending : id[1] = r => tries[r] = id[2] /\ at[r] \in InTheTable
    BY DEF TableInv, NoWaiterIsLeft
  <1>g. /\ result[r] \in {"timeout", "cancelled"} => at[r] \in {"leaving", "done"}
        /\ at[r] \in {"registered", "sending", "waiting"} =>
             \/ rx[r] # "empty"
             \/ Id(r) \in pending /\ task # "ended"
             \/ closed /\ at[r] = "registered"
        /\ task = "ended" => closed
    BY DEF TableInv, GivenUpIsOver, NobodyWaitsAlone, EndedIsClosed
  <1>1. CASE Begin(r)
    <2>1. Id(r)[1] = r /\ \A id \in pending : id[1] # r
      BY <1>1, <1>w DEF Begin, Id
    <2>2. CASE closed
      BY <1>0, <1>1, <1>t, <1>g, <2>1, <2>2, OtherCalls DEF Begin
    <2>3. CASE ~closed
      BY <1>0, <1>1, <1>t, <1>g, <2>1, <2>3, OtherCalls DEF Begin
    <2>4. QED
      BY <2>2, <2>3
  <1>2. CASE Register(r)
    <2>1. Id(r)' = Id(r) /\ Id(r)[1] = r /\ Id(r)[2] = tries[r]
      BY <1>2 DEF Register, Id
    <2>2. /\ at' = [at EXCEPT ![r] = "registered"] /\ rx' = [rx EXCEPT ![r] = "empty"]
          /\ pending' = pending \cup {Id(r)}
          /\ UNCHANGED <<tries, result, closed, lost, task>>
      BY <1>2 DEF Register
    <2>3. \A id \in pending : id[1] # r
      BY <1>2, <1>w DEF Register
    <2>4. result[r] \notin {"timeout", "cancelled"}
      BY <1>2, <1>g DEF Register
    <2>5. \A q \in Requests \ {r} :
            tries'[q] = tries[q] /\ rx'[q] = rx[q] /\ result'[q] = result[q]
      BY <1>t, <2>2
    <2>6. /\ \A id \in pending' : id \in pending \/ id[1] = r
          /\ \A id \in pending : id \in pending'
          /\ \A id \in pending' : id[1] = r => tries'[r] = id[2]
      BY <2>1, <2>2, <2>3
    <2>7. (Id(r)' \in pending' /\ task # "ended") \/ closed
      BY <1>g, <2>1, <2>2
    <2>8. result'[r] \notin {"timeout", "cancelled"}
      BY <2>2, <2>4
    <2>9. /\ at' = [at EXCEPT ![r] = "registered"]
          /\ UNCHANGED <<lost, task>> /\ (closed => closed')
          /\ result[r] \in {"timeout", "cancelled"} => result'[r] = result[r]
      BY <2>2
    \* From here on: the premises of OtherCalls for this place, as they stand there.
    <2>10. "registered" \in {"registered", "sending", "waiting"} =>
           \/ rx'[r] # "empty"
           \/ Id(r)' \in pending' /\ task # "ended"
           \/ closed /\ "registered" = "registered"
      BY <2>7
    <2>11. "registered" = "leaving" => result'[r] \in {"timeout", "cancelled"}
      OBVIOUS
    <2>12. result'[r] \in {"timeout", "cancelled"} => "registered" \in {"leaving", "done"}
      BY <2>8
    <2>13. \A id \in pending' : id[1] = r => tries'[r] = id[2] /\ "registered" \in InTheTable
      BY <2>6
    <2>14. QED
      BY <1>0, <2>5, <2>6, <2>9, <2>10, <2>11, <2>12, <2>13, OtherCalls, Zenon
  <1>3. CASE Recheck(r)
    <2>1. Id(r)' = Id(r) /\ Id(r)[1] = r /\ Id(r)[2] = tries[r]
      BY <1>3 DEF Recheck, Id
    <2>2. \A id \in pending : id[1] = r => id = Id(r)
      BY <1>t, <1>w DEF Id
    <2>3. CASE closed
      BY <1>0, <1>3, <1>t, <1>w, <1>g, <2>1, <2>2, <2>3, OtherCalls DEF Recheck
    <2>4. CASE ~closed
      BY <1>0, <1>3, <1>t, <1>w, <1>g, <2>1, <2>4, OtherCalls DEF Recheck
    <2>5. QED
      BY <2>3, <2>4
  <1>4. CASE Send(r)
    <2>1. Id(r)' = Id(r) /\ Id(r)[1] = r /\ Id(r)[2] = tries[r]
      BY <1>4 DEF Send, Id
    <2>2. \A id \in pending : id[1] = r => id = Id(r)
      BY <1>t, <1>w DEF Id
    <2>3. CASE task # "ended"
      BY <1>0, <1>4, <1>t, <1>w, <1>g, <2>1, <2>3, OtherCalls DEF Send
    <2>4. CASE task = "ended"
      BY <1>0, <1>4, <1>t, <1>w, <1>g, <2>1, <2>2, <2>4, OtherCalls DEF Send
    <2>5. QED
      BY <2>3, <2>4
  <1>5. CASE Receive(r)
    <2>1. Id(r)' = Id(r) /\ Id(r)[1] = r /\ Id(r)[2] = tries[r]
      BY <1>5 DEF Receive, Id
    <2>2. \A id \in pending : id[1] = r => id = Id(r)
      BY <1>t, <1>w DEF Id
    <2>3. rx[r] \in {"answer", "refused", "closed"}
      BY <1>5 DEF Receive, TableInv, Types, TypeOK
    <2>4. CASE rx[r] = "refused" /\ tries[r] < Retries
      BY <1>0, <1>5, <1>t, <1>w, <1>g, <2>1, <2>2, <2>4, OtherCalls DEF Receive
    <2>5. CASE ~(rx[r] = "refused" /\ tries[r] < Retries)
      BY <1>0, <1>5, <1>t, <1>w, <1>g, <2>1, <2>2, <2>3, <2>5, OtherCalls DEF Receive
    <2>6. QED
      BY <2>4, <2>5
  <1>6. CASE Leave(r)
    <2>1. Id(r)' = Id(r) /\ Id(r)[1] = r /\ Id(r)[2] = tries[r]
      BY <1>6 DEF Leave, Id
    <2>2. \A id \in pending : id[1] = r => id = Id(r)
      BY <1>t, <1>w DEF Id
    <2>3. /\ at' = [at EXCEPT ![r] = "done"] /\ pending' = pending \ {Id(r)}
          /\ UNCHANGED <<tries, result, rx, closed, lost, task>>
      BY <1>6 DEF Leave
    <2>4. QED
      BY <1>0, <2>1, <2>2, <2>3, OtherCalls
  <1>7. QED
    BY <1>1, <1>2, <1>3, <1>4, <1>5, <1>6 DEF Exchange

\* Neither a call that gives up nor a clone that goes disturbs the table.
LEMMA CallerKeeps ==
  ASSUME TableInv, NEW r \in Requests, Caller(r) PROVE TableInv'
  <1>0. Types'
    BY CallerTypes DEF TableInv
  <1>1. CASE DropClient(r)
    BY <1>0, <1>1 DEF DropClient, TableInv, NoWaiterIsLeft, NobodyWaitsAlone, EndedIsClosed,
                      GivenUpIsOver, OnlyGivenUpIsLost, Id
  <1>2. ASSUME NEW how \in {"timeout", "cancelled"}, GiveUp(r, how) PROVE TableInv'
    <2>1. /\ at \in [Requests -> Places] /\ result \in [Requests -> Results]
          /\ \A id \in lost : id[1] \in Requests /\ \A id2 \in pending : id2[1] \in Requests
      BY DEF TableInv, Types, TypeOK, Ids
    <2>2. /\ at' = [at EXCEPT ![r] = "leaving"] /\ result' = [result EXCEPT ![r] = how]
          /\ UNCHANGED <<tries, rx, pending, closed, task, lost>>
      BY <1>2 DEF GiveUp
    <2>3. NoWaiterIsLeft' /\ NobodyWaitsAlone'
      BY <2>1, <2>2 DEF TableInv, NoWaiterIsLeft, NobodyWaitsAlone, InTheTable, Id, Types,
                        TypeOK, Ids
    <2>4. EndedIsClosed' /\ GivenUpIsOver' /\ OnlyGivenUpIsLost'
      BY <2>1, <2>2 DEF TableInv, EndedIsClosed, GivenUpIsOver, OnlyGivenUpIsLost
    <2>5. QED
      BY <1>0, <2>3, <2>4 DEF TableInv
  <1>3. QED
    BY <1>1, <1>2 DEF Caller

\* A frame takes at most its own waiter out of the table, and gives it its answer
\* unless the call gave up.
LEMMA ReadKeeps == ASSUME TableInv, Read PROVE TableInv'
  <1>0. Types'
    BY SocketTypes DEF TableInv, Socket
  <1>1. PICK id \in Ids, what \in {"answer", "refused"} : Route(id, what)
    BY DEF Read
  <1>2. /\ UNCHANGED <<at, tries, result, closed, task>>
        /\ rx \in [Requests -> {"empty", "answer", "refused", "closed"}]
        /\ id[1] \in Requests
    BY DEF Read, TableInv, Types, TypeOK, Ids
  <1>3. \A q \in Requests : Id(q)' = Id(q) /\ Id(q)[1] = q
    BY <1>2 DEF Id
  <1>4. /\ pending' = pending \ {id}
        /\ \A q \in Requests : rx[q] # "empty" => rx'[q] # "empty"
        /\ id \in pending /\ at[id[1]] # "leaving" => rx'[id[1]] # "empty"
    BY <1>1, <1>2 DEF Route
  <1>5. NoWaiterIsLeft'
    BY <1>2, <1>4 DEF TableInv, NoWaiterIsLeft
  <1>6. NobodyWaitsAlone'
    <2>1. ASSUME NEW q \in Requests, at'[q] \in {"registered", "sending", "waiting"}
          PROVE  \/ rx'[q] # "empty"
                 \/ Id(q)' \in pending' /\ task' # "ended"
                 \/ closed' /\ at'[q] = "registered"
      <3>1. CASE Id(q) = id /\ Id(q) \in pending
        BY <1>2, <1>3, <1>4, <2>1, <3>1
      <3>2. CASE Id(q) # id \/ Id(q) \notin pending
        BY <1>2, <1>3, <1>4, <2>1, <3>2 DEF TableInv, NobodyWaitsAlone
      <3>3. QED
        BY <3>1, <3>2
    <2>2. QED
      BY <2>1 DEF NobodyWaitsAlone
  <1>7. EndedIsClosed' /\ GivenUpIsOver'
    BY <1>2 DEF TableInv, EndedIsClosed, GivenUpIsOver
  <1>8. OnlyGivenUpIsLost'
    <2>1. lost' = lost \/ (lost' = lost \cup {id} /\ at[id[1]] = "leaving")
      BY <1>1 DEF Route
    <2>2. QED
      BY <1>2, <2>1 DEF TableInv, OnlyGivenUpIsLost, GivenUpIsOver
  <1>9. QED
    BY <1>0, <1>5, <1>6, <1>7, <1>8 DEF TableInv

\* The end reaches every waiter: of the calls that wait, those in the table are told and
\* the others look for themselves.
LEMMA DrainKeeps == ASSUME TableInv, Drain PROVE TableInv'
  <1>0. Types'
    BY SocketTypes DEF TableInv, Socket
  <1>1. /\ task = "closing" /\ pending' = {} /\ UNCHANGED <<at, tries, result, closed, lost>>
        /\ rx' = [r \in Requests |->
                    IF Id(r) \in pending /\ at[r] # "leaving" THEN "closed" ELSE rx[r]]
    BY DEF Drain
  <1>2. closed
    BY <1>1 DEF TableInv, EndedIsClosed
  <1>3. NoWaiterIsLeft'
    BY <1>1 DEF NoWaiterIsLeft
  <1>4. NobodyWaitsAlone'
    <2>1. ASSUME NEW r \in Requests, at[r] \in {"registered", "sending", "waiting"}
          PROVE  rx'[r] # "empty" \/ (closed /\ at[r] = "registered")
      BY <1>1, <2>1 DEF TableInv, NobodyWaitsAlone
    <2>2. QED
      BY <1>1, <2>1 DEF NobodyWaitsAlone
  <1>5. EndedIsClosed' /\ GivenUpIsOver' /\ OnlyGivenUpIsLost'
    BY <1>1, <1>2 DEF TableInv, EndedIsClosed, GivenUpIsOver, OnlyGivenUpIsLost
  <1>6. QED
    BY <1>0, <1>3, <1>4, <1>5 DEF TableInv

\* Every step keeps the table.
LEMMA TableStep == TableInv /\ [Next]_vars => TableInv'
  <1> SUFFICES ASSUME TableInv, [Next]_vars PROVE TableInv'
    OBVIOUS
  <1>0. Types'
    BY TypeStep DEF TableInv
  <1>1. CASE Write \/ Beat \/ Pinged \/ Stop \/ Break \/ MarkClosed
    <2>1. /\ UNCHANGED <<at, tries, result, rx, pending, lost>>
          /\ task # "ended" /\ task' # "ended" /\ (closed => closed')
          /\ task' = "closing" => closed'
      BY <1>1 DEF Write, Beat, Pinged, Stop, Break, MarkClosed, callVars, TableInv, EndedIsClosed
    <2>2. NoWaiterIsLeft' /\ GivenUpIsOver' /\ OnlyGivenUpIsLost' /\ EndedIsClosed'
      BY <2>1 DEF TableInv, NoWaiterIsLeft, GivenUpIsOver, OnlyGivenUpIsLost, EndedIsClosed
    <2>3. NobodyWaitsAlone'
      BY <2>1 DEF TableInv, NobodyWaitsAlone, Id
    <2>4. QED
      BY <1>0, <2>2, <2>3 DEF TableInv
  <1>2. CASE Close \/ UNCHANGED vars
    BY <1>0, <1>2 DEF Close, vars, callVars, TableInv, NoWaiterIsLeft, NobodyWaitsAlone,
                      EndedIsClosed, GivenUpIsOver, OnlyGivenUpIsLost, Id
  <1>3. QED
    BY <1>1, <1>2, ExchangeKeeps, CallerKeeps, ReadKeeps, DrainKeeps DEF Next, Socket

\* The invariant holds from the start.
LEMMA TableAlways == Spec => []TableInv
  <1>1. Init => TableInv
    BY InitialTypes DEF Init, TableInv, NoWaiterIsLeft, NobodyWaitsAlone, EndedIsClosed,
                        GivenUpIsOver, OnlyGivenUpIsLost
  <1>2. QED
    BY <1>1, TableStep, PTL DEF Spec

\* However a call ends, no waiter of it stays in the table.
THEOREM NoWaiterStays == Spec => []NoWaiterIsLeft
  <1>1. TableInv => NoWaiterIsLeft
    BY DEF TableInv
  <1>2. QED
    BY <1>1, TableAlways, PTL

\* No call ever waits for an answer that nobody can give it.
THEOREM EveryWaitCanEnd == Spec => []NobodyWaitsAlone
  <1>1. TableInv => NobodyWaitsAlone
    BY DEF TableInv
  <1>2. QED
    BY <1>1, TableAlways, PTL

\* Only a message to a call that gave up is lost.
THEOREM OnlyLateIsLost == Spec => []OnlyGivenUpIsLost
  <1>1. TableInv => OnlyGivenUpIsLost
    BY DEF TableInv
  <1>2. QED
    BY <1>1, TableAlways, PTL

-----------------------------------------------------------------------------
(* The connection implements RequestChannel *)

\* What the receivers hold: nothing while the waiter is in the table, the end of the
\* connection only after it.
Receivers ==
  \A r \in Requests :
    /\ rx[r] = "closed" => closed
    /\ Id(r) \in pending => rx[r] = "empty"
    /\ at[r] = "idle" => tries[r] = 0
    /\ at[r] \in {"registered", "sending"} => rx[r] \notin {"answer", "refused"}

\* Nothing is queued for the server, or expected of it, under an identifier that was not sent.
IsOut(id) == due[id] > 0 \/ \E i \in 1..Len(outgoing) : outgoing[i] = id

SentIsOut ==
  \A r \in Requests, n \in 0..Retries : IsOut(<<r, n>>) =>
    n < tries[r] \/ (n = tries[r] /\ at[r] \in {"waiting", "leaving", "pausing", "done"})

ChannelInv == TableInv /\ Receivers /\ SentIsOut

\* A step of one call, given what it did to its own receiver, keeps the others'.
LEMMA OtherReceivers ==
  ASSUME ChannelInv, NEW r \in Requests, closed => closed',
         \A q \in Requests \ {r} :
           at'[q] = at[q] /\ tries'[q] = tries[q] /\ rx'[q] = rx[q],
         \A q \in Requests \ {r} : <<q, tries[q]>> \in pending' => <<q, tries[q]>> \in pending,
         rx'[r] = "closed" => closed',
         <<r, tries'[r]>> \in pending' => rx'[r] = "empty",
         at'[r] = "idle" => tries'[r] = 0,
         at'[r] \in {"registered", "sending"} => rx'[r] \notin {"answer", "refused"}
  PROVE  Receivers'
  BY DEF ChannelInv, Receivers, Id

LEMMA ReceiversStep == ChannelInv /\ [Next]_vars => Receivers'
  <1> SUFFICES ASSUME ChannelInv, [Next]_vars PROVE Receivers'
    OBVIOUS
  <1>t. /\ at \in [Requests -> Places] /\ tries \in [Requests -> 0..Retries]
        /\ DOMAIN rx = Requests /\ result \in [Requests -> Results]
    BY DEF ChannelInv, TableInv, Types, TypeOK
  <1> USE DEF Returns, Goes
  <1>1. ASSUME NEW r \in Requests, Begin(r) PROVE Receivers'
    <2>1. at[r] \notin InTheTable BY <1>1 DEF Begin, InTheTable
    <2>2. \A n \in 0..Retries : <<r, n>> \notin pending
      BY <2>1 DEF ChannelInv, TableInv, NoWaiterIsLeft
    <2>3. \A id \in pending : id[1] # r
      BY <2>1 DEF ChannelInv, TableInv, NoWaiterIsLeft
    <2>4. <<r, tries'[r]>> \notin pending' BY <1>1, <2>3 DEF Begin
    <2>5. at'[r] \notin {"idle", "registered", "sending"} /\ rx' = rx /\ closed' = closed
      BY <1>1, <1>t DEF Begin
    <2>6. \A q \in Requests \ {r} : at'[q] = at[q] /\ tries'[q] = tries[q]
      BY <1>1, <1>t DEF Begin
    <2>7. pending' = pending /\ (rx[r] = "closed" => closed)
      BY <1>1 DEF Begin, ChannelInv, Receivers
    <2> QED BY <2>4, <2>5, <2>6, <2>7, OtherReceivers
  <1>2. ASSUME NEW r \in Requests, Register(r) PROVE Receivers'
    <2>1. rx'[r] = "empty" /\ at'[r] # "idle" /\ tries' = tries /\ closed' = closed
      BY <1>2, <1>t DEF Register
    <2>2. \A q \in Requests \ {r} : at'[q] = at[q] /\ rx'[q] = rx[q]
      BY <1>2, <1>t DEF Register
    <2>3. \A q \in Requests \ {r} : <<q, tries[q]>> \in pending' => <<q, tries[q]>> \in pending
      BY <1>2 DEF Register, Id
    <2> QED BY <2>1, <2>2, <2>3, OtherReceivers
  <1>3. ASSUME NEW r \in Requests,
               Recheck(r) \/ Send(r) \/ Receive(r) \/ Leave(r)
               \/ \E how \in {"timeout", "cancelled"} : GiveUp(r, how)
        PROVE  Receivers'
    <2>1. UNCHANGED <<tries, rx, closed>> /\ pending' \subseteq pending
      BY <1>3 DEF Recheck, Send, Receive, Leave, GiveUp
    <2>2. at'[r] # "idle" /\ \A q \in Requests \ {r} : at'[q] = at[q]
      BY <1>3, <1>t DEF Recheck, Send, Receive, Leave, GiveUp
    <2>3. at'[r] \in {"registered", "sending"} => at[r] \in {"registered", "sending"}
      BY <1>3, <1>t DEF Recheck, Send, Receive, Leave, GiveUp
    <2> QED BY <2>1, <2>2, <2>3 DEF ChannelInv, Receivers, Id
  <1>4. ASSUME NEW r \in Requests, DropClient(r) PROVE Receivers'
    BY <1>4 DEF DropClient, ChannelInv, Receivers, Id
  <1>5. CASE Read
    <2>1. PICK id \in Ids, what \in {"answer", "refused"} : due[id] > 0 /\ Route(id, what)
      BY <1>5 DEF Read
    <2>2. UNCHANGED <<at, tries, closed>> /\ pending' = pending \ {id} BY <1>5, <2>1 DEF Read, Route
    <2>3. PICK r \in Requests, n \in 0..Retries : id = <<r, n>> BY DEF Ids
    <2>4. \A q \in Requests \ {r} : rx'[q] = rx[q] BY <1>t, <2>1, <2>3 DEF Route
    <2>5. rx'[r] = rx[r] \/ (id \in pending /\ rx'[r] = what)
      BY <1>t, <2>1, <2>3 DEF Route
    <2>6. id \in pending => tries[r] = n
      BY <2>3 DEF ChannelInv, TableInv, NoWaiterIsLeft
    <2>7. <<r, tries'[r]>> \in pending' => rx'[r] = "empty"
      BY <2>2, <2>3, <2>5, <2>6 DEF ChannelInv, Receivers, Id
    <2>8. rx'[r] = "closed" => closed' BY <2>2, <2>5 DEF ChannelInv, Receivers
    <2>9. at'[r] = "idle" => tries'[r] = 0 BY <2>2 DEF ChannelInv, Receivers
    <2>11. id \in pending => at[r] \notin {"registered", "sending"}
      BY <2>1, <2>3, <2>6, <1>t DEF ChannelInv, SentIsOut, IsOut
    <2>12. at'[r] \in {"registered", "sending"} => rx'[r] \notin {"answer", "refused"}
      BY <2>2, <2>5, <2>11 DEF ChannelInv, Receivers
    <2> QED BY <2>2, <2>4, <2>7, <2>8, <2>9, <2>12, OtherReceivers
  <1>6. CASE Drain
    <2>1. closed /\ closed' BY <1>6 DEF Drain, ChannelInv, TableInv, EndedIsClosed
    <2>2. pending' = {} /\ UNCHANGED <<at, tries>> BY <1>6 DEF Drain
    <2>3. \A r \in Requests : rx'[r] \in {rx[r], "closed"} BY <1>6 DEF Drain
    <2> QED BY <2>1, <2>2, <2>3 DEF ChannelInv, Receivers, Id
  <1>7. CASE Close \/ Beat \/ Pinged \/ Write \/ Stop \/ Break \/ MarkClosed \/ UNCHANGED vars
    <2>1. UNCHANGED <<at, tries, rx, pending>> /\ (closed => closed')
      BY <1>7 DEF Close, Beat, Pinged, Write, Stop, Break, MarkClosed, vars, callVars
    <2> QED BY <2>1 DEF ChannelInv, Receivers, Id
  <1> QED BY <1>1, <1>2, <1>3, <1>4, <1>5, <1>6, <1>7 DEF Next, Exchange, Caller, Socket

\* What is out stays what was sent.
LEMMA SentStep == ChannelInv /\ [Next]_vars => SentIsOut'
  <1> SUFFICES ASSUME ChannelInv, [Next]_vars PROVE SentIsOut'
    OBVIOUS
  <1>t. /\ at \in [Requests -> Places] /\ tries \in [Requests -> 0..Retries]
        /\ result \in [Requests -> Results] /\ Retries \in Nat
        /\ outgoing \in Seq(Ids) /\ due \in [Ids -> 0..1 + Follows] /\ 1 + Follows \in Nat
    BY ConnectionAssumption DEF ChannelInv, TableInv, Types, TypeOK
  <1> USE DEF Returns, Goes
  <1>1. ASSUME \A id \in Ids : IsOut(id)' => IsOut(id),
               \A r \in Requests : tries'[r] = tries[r]
                 /\ (at[r] \in {"waiting", "leaving", "pausing", "done"} =>
                     at'[r] \in {"waiting", "leaving", "pausing", "done"})
        PROVE SentIsOut'
    <2> SUFFICES ASSUME NEW r \in Requests, NEW n \in 0..Retries, IsOut(<<r, n>>)'
                 PROVE  n < tries'[r] \/ (n = tries'[r] /\ at'[r] \in {"waiting", "leaving", "pausing", "done"})
      BY DEF SentIsOut
    <2>1. <<r, n>> \in Ids BY DEF Ids
    <2>2. IsOut(<<r, n>>) BY <1>1, <2>1
    <2>3. n < tries[r] \/ (n = tries[r] /\ at[r] \in {"waiting", "leaving", "pausing", "done"})
      BY <2>2 DEF ChannelInv, SentIsOut
    <2> QED BY <1>1, <2>3
  <1>2. ASSUME NEW r \in Requests, Begin(r) PROVE SentIsOut'
    <2>1. \A id \in Ids : IsOut(id)' = IsOut(id) BY <1>2 DEF Begin, IsOut
    <2>2. \A q \in Requests \ {r} : at'[q] = at[q] /\ tries'[q] = tries[q] BY <1>2, <1>t DEF Begin
    <2>3. ASSUME NEW n \in 0..Retries, IsOut(<<r, n>>) PROVE n < tries'[r]
      <3>1. n < tries[r] \/ (n = tries[r] /\ at[r] = "pausing")
        BY <1>2, <2>3 DEF ChannelInv, SentIsOut, Begin
      <3>2. tries'[r] = IF at[r] = "pausing" THEN tries[r] + 1 ELSE tries[r]
        BY <1>2, <1>t DEF Begin
      <3>3. tries[r] \in Nat /\ n \in Nat BY <1>t
      <3>4. CASE at[r] = "pausing" BY <3>1, <3>2, <3>3, <3>4
      <3> QED BY <3>1, <3>2, <3>4
    <2>4. \A q \in Requests, n \in 0..Retries : <<q, n>> \in Ids BY DEF Ids
    <2> QED BY <2>1, <2>2, <2>3, <2>4 DEF ChannelInv, SentIsOut
  <1>3. ASSUME NEW r \in Requests,
               Register(r) \/ Recheck(r) \/ Receive(r) \/ Leave(r) \/ DropClient(r)
               \/ \E how \in {"timeout", "cancelled"} : GiveUp(r, how)
        PROVE  SentIsOut'
    <2>1. UNCHANGED <<tries, outgoing, due>>
      BY <1>3 DEF Register, Recheck, Receive, Leave, DropClient, GiveUp
    <2>2. \A q \in Requests \ {r} : at'[q] = at[q]
      BY <1>3, <1>t DEF Register, Recheck, Receive, Leave, DropClient, GiveUp
    <2>3. at[r] \in {"waiting", "leaving", "pausing", "done"} =>
          at'[r] \in {"waiting", "leaving", "pausing", "done"}
      BY <1>3, <1>t DEF Register, Recheck, Receive, Leave, DropClient, GiveUp
    <2>4. \A id \in Ids : IsOut(id)' = IsOut(id) BY <2>1 DEF IsOut
    <2> QED BY <1>1, <2>1, <2>2, <2>3, <2>4
  <1>4. ASSUME NEW r \in Requests, Send(r) PROVE SentIsOut'
    <2>1. UNCHANGED <<tries, due>> /\ at[r] = "sending" /\ at'[r] \in {"waiting", "done"}
      BY <1>4, <1>t DEF Send
    <2>2. \A q \in Requests \ {r} : at'[q] = at[q] BY <1>4, <1>t DEF Send
    <2>3. outgoing' = outgoing \/ outgoing' = Append(outgoing, Id(r)) BY <1>4 DEF Send
    <2>4. Id(r) \in Ids BY IdIsAnId DEF ChannelInv, TableInv, Types
    <2>5. \A i \in 1..Len(outgoing') :
            outgoing'[i] = Id(r) \/ (i \in 1..Len(outgoing) /\ outgoing'[i] = outgoing[i])
      BY <1>t, <2>3, <2>4
    <2>6. ASSUME NEW q \in Requests, NEW n \in 0..Retries, IsOut(<<q, n>>)'
          PROVE  <<q, n>> = Id(r) \/ IsOut(<<q, n>>)
      BY <2>1, <2>5, <2>6 DEF IsOut
    <2>7. ASSUME NEW q \in Requests, NEW n \in 0..Retries, IsOut(<<q, n>>)'
          PROVE  n < tries'[q] \/ (n = tries'[q] /\ at'[q] \in {"waiting", "leaving", "pausing", "done"})
      <3>1. CASE <<q, n>> = Id(r)
        <4>1. q = r /\ n = tries[r] BY <3>1 DEF Id
        <4> QED BY <2>1, <4>1
      <3>2. CASE IsOut(<<q, n>>)
        <4>1. n < tries[q] \/ (n = tries[q] /\ at[q] \in {"waiting", "leaving", "pausing", "done"})
          BY <3>2 DEF ChannelInv, SentIsOut
        <4> QED BY <2>1, <2>2, <4>1
      <3> QED BY <2>6, <2>7, <3>1, <3>2
    <2> QED BY <2>7 DEF SentIsOut
  <1>5. CASE Write
    <2>1. UNCHANGED <<at, tries>> /\ outgoing # <<>> /\ outgoing' = Tail(outgoing) BY <1>5 DEF Write, callVars
    <2>2. PICK m \in 1..1 + Follows : due' = [due EXCEPT ![Head(outgoing)] = m] BY <1>5 DEF Write
    <2>3. 1 \in 1..Len(outgoing) /\ Head(outgoing) = outgoing[1] BY <1>t, <2>1
    <2>4. \A i \in 1..Len(outgoing') : i + 1 \in 1..Len(outgoing) /\ outgoing'[i] = outgoing[i + 1]
      BY <1>t, <2>1
    <2>5. ASSUME NEW id \in Ids, IsOut(id)' PROVE IsOut(id)
      <3>1. CASE id = Head(outgoing) BY <2>3, <3>1 DEF IsOut
      <3>2. CASE id # Head(outgoing)
        <4>1. due'[id] = due[id] BY <1>t, <2>2, <3>2
        <4>2. CASE due'[id] > 0 BY <4>1, <4>2 DEF IsOut
        <4>3. CASE \E i \in 1..Len(outgoing') : outgoing'[i] = id
          BY <2>4, <4>3 DEF IsOut
        <4> QED BY <2>5, <4>2, <4>3 DEF IsOut
      <3> QED BY <3>1, <3>2
    <2> QED BY <1>1, <2>1, <2>5
  <1>6. CASE Read
    <2>1. PICK i \in Ids, w \in {"answer", "refused"} :
            due[i] > 0 /\ due' = [due EXCEPT ![i] = IF w = "refused" THEN 0 ELSE @ - 1]
      BY <1>6 DEF Read
    <2>2. UNCHANGED <<at, tries, outgoing>> BY <1>6 DEF Read
    <2>3. \A id \in Ids : due'[id] > 0 => due[id] > 0 BY <1>t, <2>1
    <2>4. \A id \in Ids : IsOut(id)' => IsOut(id) BY <2>2, <2>3 DEF IsOut
    <2> QED BY <1>1, <2>2, <2>4
  <1>7. CASE Drain
    <2>1. UNCHANGED <<at, tries, due>> /\ outgoing' = <<>> BY <1>7 DEF Drain
    <2>2. \A id \in Ids : IsOut(id)' => IsOut(id) BY <2>1 DEF IsOut
    <2> QED BY <1>1, <2>1, <2>2
  <1>8. CASE Close \/ Beat \/ Pinged \/ Stop \/ Break \/ MarkClosed \/ UNCHANGED vars
    <2>1. UNCHANGED <<at, tries, outgoing, due>>
      BY <1>8 DEF Close, Beat, Pinged, Stop, Break, MarkClosed, vars, callVars
    <2>2. \A id \in Ids : IsOut(id)' => IsOut(id) BY <2>1 DEF IsOut
    <2> QED BY <1>1, <2>1, <2>2
  <1> QED BY <1>2, <1>3, <1>4, <1>5, <1>6, <1>7, <1>8 DEF Next, Exchange, Caller, Socket

LEMMA ChannelAlways == Spec => []ChannelInv
  <1>1. Init => ChannelInv
    <2>1. Init => TableInv
      BY InitialTypes DEF Init, TableInv, NoWaiterIsLeft, NobodyWaitsAlone, EndedIsClosed,
                          GivenUpIsOver, OnlyGivenUpIsLost
    <2>2. Init => SentIsOut
      <3>1. \A r \in Requests, n \in 0..Retries : <<r, n>> \in Ids BY DEF Ids
      <3> QED BY <3>1 DEF Init, SentIsOut, IsOut
    <2> QED BY <2>1, <2>2 DEF Init, ChannelInv, Receivers
  <1>2. ChannelInv /\ [Next]_vars => ChannelInv'
    BY TableStep, ReceiversStep, SentStep DEF ChannelInv
  <1> QED BY <1>1, <1>2, PTL DEF Spec

\* A step of one call, as its caller sees it.
LEMMA OneCall ==
  ASSUME NEW r \in Requests,
         \A q \in Requests \ {r} :
           at'[q] = at[q] /\ tries'[q] = tries[q] /\ rx'[q] = rx[q]
  PROVE  /\ [q \in Requests |-> PhaseOf(q)]' = [[q \in Requests |-> PhaseOf(q)] EXCEPT ![r] = PhaseOf(r)']
         /\ [q \in Requests |-> AttemptOf(q)]' = [[q \in Requests |-> AttemptOf(q)] EXCEPT ![r] = AttemptOf(r)']
         /\ [q \in Requests |-> ToldOf(q)]' = [[q \in Requests |-> ToldOf(q)] EXCEPT ![r] = ToldOf(r)']
  <1>1. \A q \in Requests \ {r} : PhaseOf(q)' = PhaseOf(q) /\ AttemptOf(q)' = AttemptOf(q) /\ ToldOf(q)' = ToldOf(q)
    BY DEF PhaseOf, AttemptOf, ToldOf
  <1> QED BY <1>1

LEMMA SameCalls ==
  ASSUME \A q \in Requests : PhaseOf(q)' = PhaseOf(q) /\ AttemptOf(q)' = AttemptOf(q) /\ ToldOf(q)' = ToldOf(q)
  PROVE  /\ [q \in Requests |-> PhaseOf(q)]' = [q \in Requests |-> PhaseOf(q)]
         /\ [q \in Requests |-> AttemptOf(q)]' = [q \in Requests |-> AttemptOf(q)]
         /\ [q \in Requests |-> ToldOf(q)]' = [q \in Requests |-> ToldOf(q)]
  OBVIOUS

LEMMA InitMaps == Init => Channel!Init
  BY DEF Init, Channel!Init, PhaseOf, AttemptOf, ToldOf

LEMMA StepMaps == ChannelInv /\ [Next]_vars => [Channel!Next]_(Channel!vars)
  <1> SUFFICES ASSUME ChannelInv, [Next]_vars PROVE [Channel!Next]_(Channel!vars)
    OBVIOUS
  <1>t. /\ at \in [Requests -> Places] /\ tries \in [Requests -> 0..Retries]
        /\ DOMAIN rx = Requests /\ result \in [Requests -> Results] /\ Retries \in Nat
    BY ConnectionAssumption DEF ChannelInv, TableInv, Types, TypeOK
  <1>s. ASSUME \A q \in Requests : PhaseOf(q)' = PhaseOf(q) /\ AttemptOf(q)' = AttemptOf(q) /\ ToldOf(q)' = ToldOf(q),
               result' = result, closed' = closed
        PROVE  UNCHANGED Channel!vars
    BY <1>s, SameCalls DEF Channel!vars
  <1> USE DEF Returns, Goes
  <1>1. ASSUME NEW r \in Requests, Begin(r) PROVE Channel!Next \/ UNCHANGED Channel!vars
    <2>1. \A q \in Requests \ {r} : at'[q] = at[q] /\ tries'[q] = tries[q] /\ rx'[q] = rx[q]
      BY <1>1, <1>t DEF Begin
    <2>2. at[r] = "idle" => tries[r] = 0 BY DEF ChannelInv, Receivers
    <2>3. CASE closed
      <3>1. at'[r] = "done" /\ result' = [result EXCEPT ![r] = "closed"] /\ closed' = closed
        BY <1>1, <1>t, <2>3 DEF Begin
      <3>2. PhaseOf(r) # "over" /\ ToldOf(r) = "nothing" /\ PhaseOf(r)' = "over"
            /\ AttemptOf(r)' = 0 /\ ToldOf(r)' = "nothing"
        BY <1>1, <3>1 DEF Begin, PhaseOf, AttemptOf, ToldOf
      <3>3. Channel!Closed(r) BY <2>1, <2>3, <3>1, <3>2, OneCall DEF Channel!Closed, Channel!Return
      <3> QED BY <3>3 DEF Channel!Next
    <2>4. CASE ~closed /\ at[r] = "idle"
      <3>1. at'[r] = "registering" /\ tries'[r] = 0 /\ result' = result /\ closed' = closed
        BY <1>1, <1>t, <2>2, <2>4 DEF Begin
      <3>2. PhaseOf(r) = "idle" /\ PhaseOf(r)' = "asked"
            /\ AttemptOf(r)' = AttemptOf(r) /\ ToldOf(r)' = ToldOf(r)
        BY <2>4, <3>1 DEF PhaseOf, AttemptOf, ToldOf
      <3>3. Channel!Ask(r)
        BY <2>1, <3>1, <3>2, OneCall DEF Channel!Ask
      <3> QED BY <3>3 DEF Channel!Next
    <2>5. CASE ~closed /\ at[r] = "pausing"
      <3>1. at'[r] = "registering" /\ tries'[r] = tries[r] + 1 /\ result' = result /\ closed' = closed
        BY <1>1, <1>t, <2>5 DEF Begin
      <3>2. PhaseOf(r)' = PhaseOf(r) /\ AttemptOf(r)' = AttemptOf(r) /\ ToldOf(r)' = ToldOf(r)
        BY <2>5, <3>1 DEF PhaseOf, AttemptOf, ToldOf
      <3>3. \A q \in Requests : PhaseOf(q)' = PhaseOf(q) /\ AttemptOf(q)' = AttemptOf(q) /\ ToldOf(q)' = ToldOf(q)
        BY <2>1, <3>2 DEF PhaseOf, AttemptOf, ToldOf
      <3> QED BY <1>s, <3>1, <3>3
    <2> QED BY <1>1, <2>3, <2>4, <2>5 DEF Begin
  <1>2. ASSUME NEW r \in Requests, Register(r) PROVE UNCHANGED Channel!vars
    <2>1. at[r] = "registering" /\ at'[r] = "registered" /\ rx'[r] = "empty" /\ tries' = tries
          /\ result' = result /\ closed' = closed
      BY <1>2, <1>t DEF Register
    <2>2. \A q \in Requests \ {r} : at'[q] = at[q] /\ rx'[q] = rx[q]
      BY <1>2, <1>t DEF Register
    <2>3. \A q \in Requests : PhaseOf(q)' = PhaseOf(q) /\ AttemptOf(q)' = AttemptOf(q) /\ ToldOf(q)' = ToldOf(q)
      BY <2>1, <2>2 DEF PhaseOf, AttemptOf, ToldOf
    <2> QED BY <1>s, <2>1, <2>3
  <1>3. ASSUME NEW r \in Requests, Recheck(r) \/ Send(r) PROVE Channel!Next \/ UNCHANGED Channel!vars
    <2>1. /\ \A q \in Requests \ {r} : at'[q] = at[q]
          /\ at[r] \in {"registered", "sending"} /\ UNCHANGED <<tries, rx, closed>>
      BY <1>3, <1>t DEF Recheck, Send
    <2>2. CASE at'[r] \in {"sending", "waiting"} /\ result' = result
      <3>1. \A q \in Requests : PhaseOf(q)' = PhaseOf(q) /\ AttemptOf(q)' = AttemptOf(q) /\ ToldOf(q)' = ToldOf(q)
        BY <2>1, <2>2 DEF PhaseOf, AttemptOf, ToldOf
      <3> QED BY <1>s, <2>1, <2>2, <3>1
    <2>3. CASE at'[r] = "done" /\ result' = [result EXCEPT ![r] = "closed"] /\ closed
      <3>1. rx[r] \notin {"answer", "refused"} BY <2>1 DEF ChannelInv, Receivers
      <3>2. PhaseOf(r) # "over" /\ ToldOf(r) = "nothing" /\ PhaseOf(r)' = "over"
            /\ AttemptOf(r)' = 0 /\ ToldOf(r)' = "nothing"
        BY <2>1, <2>3, <3>1 DEF PhaseOf, AttemptOf, ToldOf
      <3>3. Channel!Closed(r) BY <2>1, <2>3, <3>2, OneCall DEF Channel!Closed, Channel!Return
      <3> QED BY <3>3 DEF Channel!Next
    <2>4. (at'[r] \in {"sending", "waiting"} /\ result' = result)
          \/ (at'[r] = "done" /\ result' = [result EXCEPT ![r] = "closed"] /\ closed)
      BY <1>3, <1>t DEF Recheck, Send, ChannelInv, TableInv, EndedIsClosed
    <2> QED BY <2>2, <2>3, <2>4
  <1>4. ASSUME NEW r \in Requests, Receive(r) PROVE Channel!Next \/ UNCHANGED Channel!vars
    <2>1. /\ \A q \in Requests \ {r} : at'[q] = at[q]
          /\ at[r] = "waiting" /\ UNCHANGED <<tries, rx, closed>> /\ rx[r] \in {"answer", "refused", "closed"}
      BY <1>4, <1>t DEF Receive, ChannelInv, TableInv, Types, TypeOK
    <2>2. PhaseOf(r) = "asked" /\ AttemptOf(r) = tries[r] BY <2>1 DEF PhaseOf, AttemptOf
    <2>3. CASE rx[r] = "refused" /\ tries[r] < Retries
      <3>1. at'[r] = "pausing" /\ result' = result BY <1>4, <1>t, <2>3 DEF Receive
      <3>2. PhaseOf(r)' = "asked" /\ AttemptOf(r)' = tries[r] + 1 /\ ToldOf(r)' = "nothing" /\ ToldOf(r) = "refused"
        BY <2>1, <2>3, <3>1 DEF PhaseOf, AttemptOf, ToldOf
      <3>3. [q \in Requests |-> PhaseOf(q)]' = [q \in Requests |-> PhaseOf(q)]
        BY <2>1, <2>2, <3>2 DEF PhaseOf
      <3>4. Channel!AskAgain(r)
        BY <2>1, <2>2, <2>3, <3>1, <3>2, <3>3, OneCall DEF Channel!AskAgain
      <3> QED BY <3>4 DEF Channel!Next
    <2>4. CASE ~(rx[r] = "refused" /\ tries[r] < Retries)
      <3>1. at'[r] = "done" /\ result' = [result EXCEPT ![r] = rx[r]] BY <1>4, <1>t, <2>4 DEF Receive
      <3>2. PhaseOf(r)' = "over" /\ AttemptOf(r)' = 0 /\ ToldOf(r)' = "nothing"
        BY <3>1 DEF PhaseOf, AttemptOf, ToldOf
      <3>3. CASE rx[r] = "closed"
        <4>1. closed /\ ToldOf(r) = "nothing" BY <2>1, <3>3 DEF ToldOf, ChannelInv, Receivers
        <4>2. Channel!Closed(r)
          BY <2>1, <2>2, <3>1, <3>2, <3>3, <4>1, OneCall DEF Channel!Closed, Channel!Return
        <4> QED BY <4>2 DEF Channel!Next
      <3>4. CASE rx[r] # "closed"
        <4>1. ToldOf(r) = rx[r] BY <2>1, <3>4 DEF ToldOf
        <4>2. rx[r] = "refused" => tries[r] = Retries BY <1>t, <2>4
        <4>3. Channel!Answered(r)
          BY <2>1, <2>2, <3>1, <3>2, <3>4, <4>1, <4>2, OneCall DEF Channel!Answered, Channel!Return
        <4> QED BY <4>3 DEF Channel!Next
      <3> QED BY <3>3, <3>4
    <2> QED BY <2>3, <2>4
  <1>5. ASSUME NEW r \in Requests, NEW how \in {"timeout", "cancelled"}, GiveUp(r, how)
        PROVE  Channel!Next \/ UNCHANGED Channel!vars
    <2>1. /\ \A q \in Requests \ {r} : at'[q] = at[q]
          /\ at'[r] = "leaving" /\ UNCHANGED <<tries, rx, closed>>
          /\ result' = [result EXCEPT ![r] = how]
      BY <1>5, <1>t DEF GiveUp
    <2>2. PhaseOf(r) = "asked" BY <1>5 DEF GiveUp, PhaseOf
    <2>3. PhaseOf(r)' = "over" /\ AttemptOf(r)' = 0 /\ ToldOf(r)' = "nothing"
      BY <2>1 DEF PhaseOf, AttemptOf, ToldOf
    <2>4. how = "timeout" => ToldOf(r) = "nothing"
      BY <1>5 DEF GiveUp, ToldOf, ChannelInv, Receivers
    <2>5. Channel!GaveUp(r)
      BY <2>1, <2>2, <2>3, <2>4, OneCall DEF Channel!GaveUp, Channel!Return
    <2> QED BY <2>5 DEF Channel!Next
  <1>6. ASSUME NEW r \in Requests, Leave(r) \/ DropClient(r) PROVE UNCHANGED Channel!vars
    <2>1. /\ UNCHANGED <<tries, rx, result, closed>>
          /\ \A q \in Requests : at'[q] = at[q] \/ (at[q] = "leaving" /\ at'[q] = "done")
      BY <1>6, <1>t DEF Leave, DropClient
    <2>2. \A q \in Requests : PhaseOf(q)' = PhaseOf(q) /\ AttemptOf(q)' = AttemptOf(q) /\ ToldOf(q)' = ToldOf(q)
      BY <2>1 DEF PhaseOf, AttemptOf, ToldOf
    <2> QED BY <1>s, <2>1, <2>2
  <1>7. CASE Read
    <2>1. PICK id \in Ids, what \in {"answer", "refused"} : Route(id, what) BY <1>7 DEF Read
    <2>2. UNCHANGED <<at, tries, result, closed>> BY <1>7 DEF Read
    <2>3. PICK r \in Requests, n \in 0..Retries : id = <<r, n>> BY DEF Ids
    <2>4. \A q \in Requests \ {r} : rx'[q] = rx[q] BY <1>t, <2>1, <2>3 DEF Route
    <2>5. CASE rx' = rx
      <3>1. \A q \in Requests : PhaseOf(q)' = PhaseOf(q) /\ AttemptOf(q)' = AttemptOf(q) /\ ToldOf(q)' = ToldOf(q)
        BY <2>2, <2>5 DEF PhaseOf, AttemptOf, ToldOf
      <3> QED BY <1>s, <2>2, <3>1
    <2>6. CASE rx'[r] = what /\ id \in pending /\ at[r] # "leaving"
      <3>1. tries[r] = n /\ at[r] \in {"registered", "sending", "waiting"}
        BY <2>3, <2>6 DEF ChannelInv, TableInv, NoWaiterIsLeft, InTheTable
      <3>2. rx[r] = "empty" BY <2>3, <2>6, <3>1 DEF ChannelInv, Receivers, Id
      <3>3. PhaseOf(r) = "asked" /\ PhaseOf(r)' = PhaseOf(r) /\ AttemptOf(r)' = AttemptOf(r)
        BY <2>2, <3>1 DEF PhaseOf, AttemptOf
      <3>4. ToldOf(r) = "nothing" /\ ToldOf(r)' = what
        BY <2>2, <2>6, <3>1, <3>2 DEF ToldOf
      <3>5. /\ [q \in Requests |-> PhaseOf(q)]' = [q \in Requests |-> PhaseOf(q)]
            /\ [q \in Requests |-> AttemptOf(q)]' = [q \in Requests |-> AttemptOf(q)]
        BY <2>2, <3>3 DEF PhaseOf, AttemptOf
      <3>6. Channel!Tell(r)
        BY <2>2, <2>4, <3>3, <3>4, <3>5, OneCall DEF Channel!Tell
      <3> QED BY <3>6 DEF Channel!Next
    <2>7. rx' = rx \/ (rx'[r] = what /\ id \in pending /\ at[r] # "leaving")
      BY <1>t, <2>1, <2>3 DEF Route
    <2> QED BY <2>5, <2>6, <2>7
  <1>8. CASE MarkClosed
    <2>1. UNCHANGED <<at, tries, rx, result>> /\ closed' = TRUE BY <1>8 DEF MarkClosed, callVars
    <2>2. \A q \in Requests : PhaseOf(q)' = PhaseOf(q) /\ AttemptOf(q)' = AttemptOf(q) /\ ToldOf(q)' = ToldOf(q)
      BY <2>1 DEF PhaseOf, AttemptOf, ToldOf
    <2>3. Channel!End BY <2>1, <2>2, SameCalls DEF Channel!End
    <2> QED BY <2>3 DEF Channel!Next
  <1>9. CASE Drain
    <2>1. UNCHANGED <<at, tries, result, closed>> BY <1>9 DEF Drain
    <2>2. \A q \in Requests : rx'[q] = rx[q] \/ (rx[q] = "empty" /\ rx'[q] = "closed")
      BY <1>9 DEF Drain, ChannelInv, Receivers
    <2>3. \A q \in Requests : PhaseOf(q)' = PhaseOf(q) /\ AttemptOf(q)' = AttemptOf(q) /\ ToldOf(q)' = ToldOf(q)
      BY <2>1, <2>2 DEF PhaseOf, AttemptOf, ToldOf
    <2> QED BY <1>s, <2>1, <2>3
  <1>10. CASE Close \/ Beat \/ Pinged \/ Write \/ Stop \/ Break \/ UNCHANGED vars
    <2>1. UNCHANGED <<at, tries, rx, result, closed>>
      BY <1>10 DEF Close, Beat, Pinged, Write, Stop, Break, vars, callVars
    <2>2. \A q \in Requests : PhaseOf(q)' = PhaseOf(q) /\ AttemptOf(q)' = AttemptOf(q) /\ ToldOf(q)' = ToldOf(q)
      BY <2>1 DEF PhaseOf, AttemptOf, ToldOf
    <2> QED BY <1>s, <2>1, <2>2
  <1> QED
    BY <1>1, <1>2, <1>3, <1>4, <1>5, <1>6, <1>7, <1>8, <1>9, <1>10
    DEF Next, Exchange, Caller, Socket

\* Every call on a connection returns once, as RequestChannel says, however its answer, its
\* retries, its timeout and the end of the connection cross each other.
THEOREM AnswersOnce == Spec => IsChannel
  <1> QED
    BY InitMaps, StepMaps, ChannelAlways, PTL DEF Spec, IsChannel, Channel!Spec

-----------------------------------------------------------------------------
(* The supervisor: strengthenings *)

\* Where the next attempt is not counted yet, one more is still within the limit.
Within == Limit # Unlimited /\ pc \in {"top", "waiting"} => attempt <= Limit

\* The attempts run ahead of the failures by the one being made and by the one
\* a stable connection is worth.
Counted ==
  /\ pc \in {"top", "waiting"} => failures <= attempt /\ attempt <= failures + 1
  /\ pc \notin {"top", "waiting", "ended"} => failures + 1 <= attempt /\ attempt <= failures + 2
  /\ gave_up => pc = "ended"

\* A forced refresh that is still to come is already paid for, and none is to come
\* once a connection is attempted.
Spent ==
  /\ forced + (IF force_refresh THEN 1 ELSE 0) <= (IF refreshed_for_invalid THEN 2 ELSE 1)
  /\ \/ pc \in {"connecting", "restoring", "serving", "reauthorizing"}
     \/ pc \in {"refreshing", "saving"} /\ ahead
     => ~force_refresh
  /\ client => forced = 0

\* The type invariant and what each of the others adds to it.
TypeInv   == SessionTypeOK /\ Within
PairInv   == NewestPairInUse /\ PairIsKept
GiveUpInv == TypeInv /\ Counted /\ GivesUpInTime
ForcedInv == SessionTypeOK /\ ClientIsServed /\ Spent

-----------------------------------------------------------------------------
(* Every step preserves each of them *)

\* Steps go from await to await, and flags stay flags.
LEMMA ShapeStep == Phases /\ Flags /\ [SessionNext]_sessionVars => (Phases /\ Flags)'
  <1> SUFFICES ASSUME Phases /\ Flags, [SessionNext]_sessionVars
               PROVE  (Phases /\ Flags)'
    OBVIOUS
  <1> USE DEF Phases, Flags, Awaits, States
  <1>1. CASE Attempt
    BY <1>1 DEF Attempt, pastVars
  <1>2. CASE StopAtTop
    BY <1>2 DEF StopAtTop, End, outVars, pastVars
  <1>3. CASE Refreshed
    BY <1>3 DEF Refreshed, outVars
  <1>4. CASE Saved
    BY <1>4 DEF Saved, End, ServeOnRenewed
  <1>5. CASE RefreshFailed
    BY <1>5 DEF RefreshFailed, End, WaitAfterFailure, GivesUp, outVars
  <1>6. CASE Connected
    BY <1>6 DEF Connected, outVars
  <1>7. CASE ConnectInvalid
    BY <1>7 DEF ConnectInvalid, End, outVars, pastVars
  <1>8. CASE ConnectFails
    BY <1>8 DEF ConnectFails, End, WaitAfterFailure, GivesUp, outVars
  <1>9. CASE StopCuts
    BY <1>9 DEF StopCuts, End, outVars, pastVars
  <1>10. CASE Restored
    BY <1>10 DEF Restored, outVars, pastVars
  <1>11. CASE WaitEnds
    BY <1>11 DEF WaitEnds, sharedVars, outVars, pastVars
  <1>12. CASE ServeStops
    BY <1>12 DEF ServeStops, End, outVars, pastVars
  <1>13. CASE RefreshDue
    BY <1>13 DEF RefreshDue, sharedVars, pastVars
  <1>14. CASE TokensInvalid
    BY <1>14 DEF TokensInvalid, outVars
  <1>15. CASE ServeDisconnects
    BY <1>15 DEF ServeDisconnects, Disconnected, End, WaitAfterFailure, GivesUp, outVars
  <1>16. CASE AccountDisconnected
    BY <1>16 DEF AccountDisconnected, sharedVars, outVars, pastVars
  <1>17. CASE Reauthorized
    BY <1>17 DEF Reauthorized, Disconnected, End, WaitAfterFailure, GivesUp, sharedVars, outVars, pastVars
  <1>18. CASE StopSession
    BY <1>18 DEF StopSession, taskVars, outVars, pastVars
  <1>19. CASE Forget
    BY <1>19 DEF Forget, taskVars
  <1>20. CASE Endpoint
    BY <1>20 DEF Endpoint, taskVars, sharedVars, pastVars
  <1>21. CASE UNCHANGED sessionVars
    BY <1>21 DEF sessionVars, taskVars, sharedVars, outVars, pastVars
  <1>22. QED
    BY <1>1, <1>2, <1>3, <1>4, <1>5, <1>6, <1>7, <1>8, <1>9, <1>10,
       <1>11, <1>12, <1>13, <1>14, <1>15, <1>16, <1>17, <1>18, <1>19, <1>20, <1>21
    DEF SessionNext, Supervise, Serve

\* No attempt is counted past one of the limit: a wait comes only within it.
LEMMA CountStep == Counts /\ Within /\ [SessionNext]_sessionVars => (Counts /\ Within)'
  <1> SUFFICES ASSUME Counts /\ Within, [SessionNext]_sessionVars
               PROVE  (Counts /\ Within)'
    OBVIOUS
  <1> USE LimitAssumption DEF Counts, Within
  <1>1. CASE Attempt
    BY <1>1 DEF Attempt, pastVars
  <1>2. CASE StopAtTop
    BY <1>2 DEF StopAtTop, End, outVars, pastVars
  <1>3. CASE Refreshed
    BY <1>3 DEF Refreshed, outVars
  <1>4. CASE Saved
    BY <1>4 DEF Saved, End, ServeOnRenewed
  <1>5. CASE RefreshFailed
    BY <1>5 DEF RefreshFailed, End, WaitAfterFailure, GivesUp, outVars
  <1>6. CASE Connected
    BY <1>6 DEF Connected, outVars
  <1>7. CASE ConnectInvalid
    BY <1>7 DEF ConnectInvalid, End, outVars, pastVars
  <1>8. CASE ConnectFails
    BY <1>8 DEF ConnectFails, End, WaitAfterFailure, GivesUp, outVars
  <1>9. CASE StopCuts
    BY <1>9 DEF StopCuts, End, outVars, pastVars
  <1>10. CASE Restored
    BY <1>10 DEF Restored, outVars, pastVars
  <1>11. CASE WaitEnds
    BY <1>11 DEF WaitEnds, sharedVars, outVars, pastVars
  <1>12. CASE ServeStops
    BY <1>12 DEF ServeStops, End, outVars, pastVars
  <1>13. CASE RefreshDue
    BY <1>13 DEF RefreshDue, sharedVars, pastVars
  <1>14. CASE TokensInvalid
    BY <1>14 DEF TokensInvalid, outVars
  <1>15. CASE ServeDisconnects
    BY <1>15 DEF ServeDisconnects, Disconnected, End, WaitAfterFailure, GivesUp, outVars
  <1>16. CASE AccountDisconnected
    BY <1>16 DEF AccountDisconnected, sharedVars, outVars, pastVars
  <1>17. CASE Reauthorized
    BY <1>17 DEF Reauthorized, Disconnected, End, WaitAfterFailure, GivesUp, sharedVars, outVars, pastVars
  <1>18. CASE StopSession
    BY <1>18 DEF StopSession, taskVars, outVars, pastVars
  <1>19. CASE Forget
    BY <1>19 DEF Forget, taskVars
  <1>20. CASE Endpoint
    BY <1>20 DEF Endpoint, taskVars, sharedVars, pastVars
  <1>21. CASE UNCHANGED sessionVars
    BY <1>21 DEF sessionVars, taskVars, sharedVars, outVars, pastVars
  <1>22. QED
    BY <1>1, <1>2, <1>3, <1>4, <1>5, <1>6, <1>7, <1>8, <1>9, <1>10,
       <1>11, <1>12, <1>13, <1>14, <1>15, <1>16, <1>17, <1>18, <1>19, <1>20, <1>21
    DEF SessionNext, Supervise, Serve

\* The two together.
LEMMA SessionTypeStep == TypeInv /\ [SessionNext]_sessionVars => TypeInv'
  BY ShapeStep, CountStep DEF TypeInv, SessionTypeOK

\* It holds at the start.
LEMMA SessionTypeInit == SessionInit => TypeInv
  <1> SUFFICES ASSUME SessionInit PROVE TypeInv
    OBVIOUS
  <1>1. Phases
    BY DEF SessionInit, Phases, Awaits, States
  <1>2. Flags
    BY DEF SessionInit, Flags
  <1>3. Counts /\ Within
    BY LimitAssumption DEF SessionInit, Counts, Within
  <1>4. QED
    BY <1>1, <1>2, <1>3 DEF TypeInv, SessionTypeOK

\* A pair is received, saved and taken over in this order, and nothing leaves in between.
LEMMA PairStep == PairInv /\ [SessionNext]_sessionVars => PairInv'
  <1> SUFFICES ASSUME PairInv, [SessionNext]_sessionVars
               PROVE  PairInv'
    OBVIOUS
  <1> USE DEF PairInv, NewestPairInUse, PairIsKept
  <1>1. CASE Attempt
    BY <1>1 DEF Attempt, pastVars
  <1>2. CASE StopAtTop
    BY <1>2 DEF StopAtTop, End, outVars, pastVars
  <1>3. CASE Refreshed
    BY <1>3 DEF Refreshed, outVars
  <1>4. CASE Saved
    BY <1>4 DEF Saved, End, ServeOnRenewed
  <1>5. CASE RefreshFailed
    BY <1>5 DEF RefreshFailed, End, WaitAfterFailure, GivesUp, outVars
  <1>6. CASE Connected
    BY <1>6 DEF Connected, outVars
  <1>7. CASE ConnectInvalid
    BY <1>7 DEF ConnectInvalid, End, outVars, pastVars
  <1>8. CASE ConnectFails
    BY <1>8 DEF ConnectFails, End, WaitAfterFailure, GivesUp, outVars
  <1>9. CASE StopCuts
    BY <1>9 DEF StopCuts, End, outVars, pastVars
  <1>10. CASE Restored
    BY <1>10 DEF Restored, outVars, pastVars
  <1>11. CASE WaitEnds
    BY <1>11 DEF WaitEnds, sharedVars, outVars, pastVars
  <1>12. CASE ServeStops
    BY <1>12 DEF ServeStops, End, outVars, pastVars
  <1>13. CASE RefreshDue
    BY <1>13 DEF RefreshDue, sharedVars, pastVars
  <1>14. CASE TokensInvalid
    BY <1>14 DEF TokensInvalid, outVars
  <1>15. CASE ServeDisconnects
    BY <1>15 DEF ServeDisconnects, Disconnected, End, WaitAfterFailure, GivesUp, outVars
  <1>16. CASE AccountDisconnected
    BY <1>16 DEF AccountDisconnected, sharedVars, outVars, pastVars
  <1>17. CASE Reauthorized
    BY <1>17 DEF Reauthorized, Disconnected, End, WaitAfterFailure, GivesUp, sharedVars, outVars, pastVars
  <1>18. CASE StopSession
    BY <1>18 DEF StopSession, taskVars, outVars, pastVars
  <1>19. CASE Forget
    BY <1>19 DEF Forget, taskVars
  <1>20. CASE Endpoint
    BY <1>20 DEF Endpoint, taskVars, sharedVars, pastVars
  <1>21. CASE UNCHANGED sessionVars
    BY <1>21 DEF sessionVars, taskVars, sharedVars, outVars, pastVars
  <1>22. QED
    BY <1>1, <1>2, <1>3, <1>4, <1>5, <1>6, <1>7, <1>8, <1>9, <1>10,
       <1>11, <1>12, <1>13, <1>14, <1>15, <1>16, <1>17, <1>18, <1>19, <1>20, <1>21
    DEF SessionNext, Supervise, Serve

\* The client is shared when the sign-in succeeds and withdrawn where the connection is left.
LEMMA ClientStep == ClientIsServed /\ [SessionNext]_sessionVars => ClientIsServed'
  <1> SUFFICES ASSUME ClientIsServed, [SessionNext]_sessionVars
               PROVE  ClientIsServed'
    OBVIOUS
  <1> USE DEF ClientIsServed
  <1>1. CASE Attempt
    BY <1>1 DEF Attempt, pastVars
  <1>2. CASE StopAtTop
    BY <1>2 DEF StopAtTop, End, outVars, pastVars
  <1>3. CASE Refreshed
    BY <1>3 DEF Refreshed, outVars
  <1>4. CASE Saved
    BY <1>4 DEF Saved, End, ServeOnRenewed
  <1>5. CASE RefreshFailed
    BY <1>5 DEF RefreshFailed, End, WaitAfterFailure, GivesUp, outVars
  <1>6. CASE Connected
    BY <1>6 DEF Connected, outVars
  <1>7. CASE ConnectInvalid
    BY <1>7 DEF ConnectInvalid, End, outVars, pastVars
  <1>8. CASE ConnectFails
    BY <1>8 DEF ConnectFails, End, WaitAfterFailure, GivesUp, outVars
  <1>9. CASE StopCuts
    BY <1>9 DEF StopCuts, End, outVars, pastVars
  <1>10. CASE Restored
    BY <1>10 DEF Restored, outVars, pastVars
  <1>11. CASE WaitEnds
    BY <1>11 DEF WaitEnds, sharedVars, outVars, pastVars
  <1>12. CASE ServeStops
    BY <1>12 DEF ServeStops, End, outVars, pastVars
  <1>13. CASE RefreshDue
    BY <1>13 DEF RefreshDue, sharedVars, pastVars
  <1>14. CASE TokensInvalid
    BY <1>14 DEF TokensInvalid, outVars
  <1>15. CASE ServeDisconnects
    BY <1>15 DEF ServeDisconnects, Disconnected, End, WaitAfterFailure, GivesUp, outVars
  <1>16. CASE AccountDisconnected
    BY <1>16 DEF AccountDisconnected, sharedVars, outVars, pastVars
  <1>17. CASE Reauthorized
    BY <1>17 DEF Reauthorized, Disconnected, End, WaitAfterFailure, GivesUp, sharedVars, outVars, pastVars
  <1>18. CASE StopSession
    BY <1>18 DEF StopSession, taskVars, outVars, pastVars
  <1>19. CASE Forget
    BY <1>19 DEF Forget, taskVars
  <1>20. CASE Endpoint
    BY <1>20 DEF Endpoint, taskVars, sharedVars, pastVars
  <1>21. CASE UNCHANGED sessionVars
    BY <1>21 DEF sessionVars, taskVars, sharedVars, outVars, pastVars
  <1>22. QED
    BY <1>1, <1>2, <1>3, <1>4, <1>5, <1>6, <1>7, <1>8, <1>9, <1>10,
       <1>11, <1>12, <1>13, <1>14, <1>15, <1>16, <1>17, <1>18, <1>19, <1>20, <1>21
    DEF SessionNext, Supervise, Serve

\* A failure and the attempt it ends are counted together.
LEMMA GiveUpStep == GiveUpInv /\ [SessionNext]_sessionVars => Counted' /\ GivesUpInTime'
  <1> SUFFICES ASSUME GiveUpInv, [SessionNext]_sessionVars
               PROVE  Counted' /\ GivesUpInTime'
    OBVIOUS
  <1> USE LimitAssumption DEF GiveUpInv, TypeInv, SessionTypeOK, Counts, Within, Counted, GivesUpInTime
  <1>1. CASE Attempt
    BY <1>1 DEF Attempt, pastVars
  <1>2. CASE StopAtTop
    BY <1>2 DEF StopAtTop, End, outVars, pastVars
  <1>3. CASE Refreshed
    BY <1>3 DEF Refreshed, outVars
  <1>4. CASE Saved
    BY <1>4 DEF Saved, End, ServeOnRenewed
  <1>5. CASE RefreshFailed
    BY <1>5 DEF RefreshFailed, End, WaitAfterFailure, GivesUp, outVars
  <1>6. CASE Connected
    BY <1>6 DEF Connected, outVars
  <1>7. CASE ConnectInvalid
    BY <1>7 DEF ConnectInvalid, End, outVars, pastVars
  <1>8. CASE ConnectFails
    BY <1>8 DEF ConnectFails, End, WaitAfterFailure, GivesUp, outVars
  <1>9. CASE StopCuts
    BY <1>9 DEF StopCuts, End, outVars, pastVars
  <1>10. CASE Restored
    BY <1>10 DEF Restored, outVars, pastVars
  <1>11. CASE WaitEnds
    BY <1>11 DEF WaitEnds, sharedVars, outVars, pastVars
  <1>12. CASE ServeStops
    BY <1>12 DEF ServeStops, End, outVars, pastVars
  <1>13. CASE RefreshDue
    BY <1>13 DEF RefreshDue, sharedVars, pastVars
  <1>14. CASE TokensInvalid
    BY <1>14 DEF TokensInvalid, outVars
  <1>15. CASE ServeDisconnects
    BY <1>15 DEF ServeDisconnects, Disconnected, End, WaitAfterFailure, GivesUp, outVars
  <1>16. CASE AccountDisconnected
    BY <1>16 DEF AccountDisconnected, sharedVars, outVars, pastVars
  <1>17. CASE Reauthorized
    BY <1>17 DEF Reauthorized, Disconnected, End, WaitAfterFailure, GivesUp, sharedVars, outVars, pastVars
  <1>18. CASE StopSession
    BY <1>18 DEF StopSession, taskVars, outVars, pastVars
  <1>19. CASE Forget
    BY <1>19 DEF Forget, taskVars
  <1>20. CASE Endpoint
    BY <1>20 DEF Endpoint, taskVars, sharedVars, pastVars
  <1>21. CASE UNCHANGED sessionVars
    BY <1>21 DEF sessionVars, taskVars, sharedVars, outVars, pastVars
  <1>22. QED
    BY <1>1, <1>2, <1>3, <1>4, <1>5, <1>6, <1>7, <1>8, <1>9, <1>10,
       <1>11, <1>12, <1>13, <1>14, <1>15, <1>16, <1>17, <1>18, <1>19, <1>20, <1>21
    DEF SessionNext, Supervise, Serve

\* A refresh is forced when the connection tells, or once by a sign-in.
LEMMA ForcedStep == ForcedInv /\ [SessionNext]_sessionVars => Spent'
  <1> SUFFICES ASSUME ForcedInv, [SessionNext]_sessionVars
               PROVE  Spent'
    OBVIOUS
  <1> USE DEF ForcedInv, SessionTypeOK, Counts, ClientIsServed, Spent
  <1>1. CASE Attempt
    BY <1>1 DEF Attempt, pastVars
  <1>2. CASE StopAtTop
    BY <1>2 DEF StopAtTop, End, outVars, pastVars
  <1>3. CASE Refreshed
    BY <1>3 DEF Refreshed, outVars
  <1>4. CASE Saved
    BY <1>4 DEF Saved, End, ServeOnRenewed
  <1>5. CASE RefreshFailed
    BY <1>5 DEF RefreshFailed, End, WaitAfterFailure, GivesUp, outVars
  <1>6. CASE Connected
    BY <1>6 DEF Connected, outVars
  <1>7. CASE ConnectInvalid
    BY <1>7 DEF ConnectInvalid, End, outVars, pastVars
  <1>8. CASE ConnectFails
    BY <1>8 DEF ConnectFails, End, WaitAfterFailure, GivesUp, outVars
  <1>9. CASE StopCuts
    BY <1>9 DEF StopCuts, End, outVars, pastVars
  <1>10. CASE Restored
    BY <1>10 DEF Restored, outVars, pastVars
  <1>11. CASE WaitEnds
    BY <1>11 DEF WaitEnds, sharedVars, outVars, pastVars
  <1>12. CASE ServeStops
    BY <1>12 DEF ServeStops, End, outVars, pastVars
  <1>13. CASE RefreshDue
    BY <1>13 DEF RefreshDue, sharedVars, pastVars
  <1>14. CASE TokensInvalid
    BY <1>14 DEF TokensInvalid, outVars
  <1>15. CASE ServeDisconnects
    BY <1>15 DEF ServeDisconnects, Disconnected, End, WaitAfterFailure, GivesUp, outVars
  <1>16. CASE AccountDisconnected
    BY <1>16 DEF AccountDisconnected, sharedVars, outVars, pastVars
  <1>17. CASE Reauthorized
    <2>1. UNCHANGED <<force_refresh, refreshed_for_invalid, ahead, forced>>
      BY <1>17 DEF Reauthorized, Disconnected, pastVars
    <2>2. pc = "reauthorizing" /\ pc' \in {"serving", "waiting", "ended"} /\ (client' => client)
      BY <1>17 DEF Reauthorized, Disconnected, End, WaitAfterFailure, sharedVars
    <2>3. QED
      BY <2>1, <2>2
  <1>18. CASE StopSession
    BY <1>18 DEF StopSession, taskVars, outVars, pastVars
  <1>19. CASE Forget
    BY <1>19 DEF Forget, taskVars
  <1>20. CASE Endpoint
    BY <1>20 DEF Endpoint, taskVars, sharedVars, pastVars
  <1>21. CASE UNCHANGED sessionVars
    BY <1>21 DEF sessionVars, taskVars, sharedVars, outVars, pastVars
  <1>22. QED
    BY <1>1, <1>2, <1>3, <1>4, <1>5, <1>6, <1>7, <1>8, <1>9, <1>10,
       <1>11, <1>12, <1>13, <1>14, <1>15, <1>16, <1>17, <1>18, <1>19, <1>20, <1>21
    DEF SessionNext, Supervise, Serve

-----------------------------------------------------------------------------
(* The properties *)

\* Every variable has its type, and the attempts stay within one of the limit.
THEOREM SessionTypes == SessionSpec => []SessionTypeOK
  <1>1. TypeInv => SessionTypeOK
    BY DEF TypeInv
  <1>2. QED
    BY <1>1, SessionTypeInit, SessionTypeStep, PTL DEF SessionSpec

\* What is used is the newest pair that was received.
THEOREM NewestPair == SessionSpec => []NewestPairInUse
  <1>1. SessionInit => PairInv
    BY DEF SessionInit, PairInv, NewestPairInUse, PairIsKept
  <1>2. PairInv => NewestPairInUse
    BY DEF PairInv
  <1>3. QED
    BY <1>1, <1>2, PairStep, PTL DEF SessionSpec

\* A pair that was received is stored before anything else is done.
THEOREM PairKept == SessionSpec => []PairIsKept
  <1>1. SessionInit => PairInv
    BY DEF SessionInit, PairInv, NewestPairInUse, PairIsKept
  <1>2. PairInv => PairIsKept
    BY DEF PairInv
  <1>3. QED
    BY <1>1, <1>2, PairStep, PTL DEF SessionSpec

\* The callers reach a client exactly while its connection is served.
THEOREM ClientServed == SessionSpec => []ClientIsServed
  <1>1. SessionInit => ClientIsServed
    BY DEF SessionInit, ClientIsServed
  <1>2. QED
    BY <1>1, ClientStep, PTL DEF SessionSpec

\* The session gives up at the limit or one failure past it, never before.
THEOREM GivingUp == SessionSpec => []GivesUpInTime
  <1>1. SessionInit => GiveUpInv
    <2>1. ASSUME SessionInit PROVE Counted
      <3>1. pc = "top" /\ attempt = 0 /\ failures = 0 /\ ~gave_up
        BY <2>1 DEF SessionInit
      <3>2. QED
        BY <3>1 DEF Counted
    <2>2. SessionInit => GivesUpInTime
      BY DEF SessionInit, GivesUpInTime
    <2>3. QED
      BY <2>1, <2>2, SessionTypeInit DEF GiveUpInv
  <1>2. GiveUpInv /\ [SessionNext]_sessionVars => GiveUpInv'
    BY SessionTypeStep, GiveUpStep DEF GiveUpInv
  <1>3. GiveUpInv => GivesUpInTime
    BY DEF GiveUpInv
  <1>4. QED
    BY <1>1, <1>2, <1>3, PTL DEF SessionSpec

\* No more than two refreshes are forced without a sign-in between them.
THEOREM ForcedRefreshesAreFew == SessionSpec => []ForcedRefreshesEnd
  <1>1. SessionInit => TypeInv /\ ForcedInv
    <2>1. SessionInit => ClientIsServed /\ Spent
      BY DEF SessionInit, ClientIsServed, Spent
    <2>2. QED
      BY <2>1, SessionTypeInit DEF TypeInv, ForcedInv
  <1>2. TypeInv /\ ForcedInv /\ [SessionNext]_sessionVars => (TypeInv /\ ForcedInv)'
    BY SessionTypeStep, ClientStep, ForcedStep DEF TypeInv, ForcedInv
  <1>3. ForcedInv => ForcedRefreshesEnd
    BY DEF ForcedInv, SessionTypeOK, Counts, Spent, ForcedRefreshesEnd
  <1>4. QED
    BY <1>1, <1>2, <1>3, PTL DEF SessionSpec
=============================================================================
