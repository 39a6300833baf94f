--------------------------- MODULE SessionSupervisor ---------------------------
(***************************************************************************)
(* The task behind a session (crates/wyck-ctrader/src/session/             *)
(* supervisor.rs): it refreshes the tokens, connects, serves, renews the   *)
(* tokens ahead of time, waits after a failure and starts over, until it   *)
(* is told to stop or nothing can be done.                                 *)
(*                                                                         *)
(* A step of the model is what the task does between two awaits; `pc' says *)
(* which await it is at.  Token pairs are numbered in the order the        *)
(* endpoint issues them; the refresh token of a pair stops working once    *)
(* the next one is issued.                                                 *)
(*                                                                         *)
(* Abstracted: the lengths of the waits, the clock (a pair may always be   *)
(* about to expire), the events that are only forwarded, and what is       *)
(* subscribed (LiveFeed).                                                  *)
(***************************************************************************)
EXTENDS Naturals

CONSTANTS
  Limit,       \* SessionConfig::max_reconnect_attempts
  Unlimited,   \* its None
  MaxPairs,    \* bound: the endpoint issues no pair past this one
  MaxTries     \* bound: no wait after this many attempts

ASSUME LimitAssumption ==
  /\ Unlimited \notin Nat /\ Limit \in Nat \cup {Unlimited}
  /\ MaxPairs \in Nat /\ MaxTries \in Nat

VARIABLES
  pc,                     \* the await the task is at
  attempt, force_refresh, refreshed_for_invalid,
  tokens,                 \* the pair of the task
  held,                   \* Shared.tokens
  stop, state, client,    \* Shared.stop, Shared.state, whether Shared.client is some
  ahead,                  \* the refresh is one of a connection that is up
  request,                \* what the token endpoint did with the request in flight
  issued,                 \* the newest pair the endpoint issued
  stored,                 \* the pair in the TokenStore, 0 for none
  \* history: the newest pair whose answer arrived, whether its saving failed,
  \* the forced refreshes since a sign-in, the failures in a row, whether the
  \* task gave up, and whether the user removed the sign-in
  received, unsaved, forced, failures, gave_up, forgotten

taskVars   == <<pc, attempt, force_refresh, refreshed_for_invalid, tokens, ahead>>
sharedVars == <<held, stop, state, client>>
outVars    == <<request, issued, stored>>
pastVars   == <<received, unsaved, forced, failures, gave_up, forgotten>>
sessionVars == <<taskVars, sharedVars, outVars, pastVars>>

Awaits == {"top", "refreshing", "saving", "connecting", "restoring", "serving",
           "reauthorizing", "waiting", "ended"}
States == {"connecting", "ready", "waiting", "stopped", "failed"}

SessionInit ==
  /\ pc = "top" /\ attempt = 0
  /\ force_refresh = FALSE /\ refreshed_for_invalid = FALSE
  /\ tokens = 1 /\ held = 1 /\ issued = 1 /\ stored = 1 /\ received = 1
  /\ stop = FALSE /\ state = "connecting" /\ client = FALSE
  /\ ahead = FALSE /\ request = "none"
  /\ unsaved = FALSE /\ forced = 0 /\ failures = 0 /\ gave_up = FALSE /\ forgotten = FALSE

-----------------------------------------------------------------------------
(* How a step of the task goes on *)

\* The loop is left: the client is forgotten and the end is announced.
End(how) == pc' = "ended" /\ state' = how /\ client' = FALSE

GivesUp(tried) == Limit # Unlimited /\ tried > Limit

\* Slip: one attempt more than the limit is let through.
WaitOnceMore(tried) ==
  \/ /\ Limit # Unlimited /\ tried > Limit + 1
     /\ End("failed")
     /\ gave_up' = TRUE
  \/ /\ ~(Limit # Unlimited /\ tried > Limit + 1) /\ tried <= MaxTries
     /\ pc' = "waiting" /\ state' = "waiting" /\ client' = FALSE
     /\ UNCHANGED gave_up

\* wait_after_failure, up to its sleep.
WaitAfterFailure(tried) ==
  \/ /\ GivesUp(tried)
     /\ End("failed")
     /\ gave_up' = TRUE
  \/ /\ ~GivesUp(tried) /\ tried <= MaxTries
     /\ pc' = "waiting" /\ state' = "waiting" /\ client' = FALSE
     /\ UNCHANGED gave_up

-----------------------------------------------------------------------------
(* The loop of supervise *)

\* A new attempt: refresh the tokens first when they are bad or expire soon.
Attempt ==
  /\ pc = "top" /\ ~stop
  /\ attempt' = attempt + 1
  /\ state' = "connecting"
  /\ \/ /\ pc' = "refreshing"
        /\ ahead' = FALSE /\ request' = "none"
     \/ /\ ~force_refresh
        /\ pc' = "connecting"
        /\ UNCHANGED <<ahead, request>>
  /\ UNCHANGED <<force_refresh, refreshed_for_invalid, tokens, held, stop, client,
                 issued, stored, pastVars>>

StopAtTop ==
  /\ pc = "top" /\ stop
  /\ End("stopped")
  /\ UNCHANGED <<attempt, force_refresh, refreshed_for_invalid, tokens, held, stop, ahead,
                 outVars, pastVars>>

\* Slip: a stop cuts the refresh short, as it does the connection attempt.
RefreshedUnlessStopped ==
  /\ pc = "refreshing" /\ request = "pair"
  /\ received' = issued
  /\ IF stop THEN End("stopped") /\ UNCHANGED held
     ELSE held' = issued /\ pc' = "saving" /\ UNCHANGED <<state, client>>
  /\ UNCHANGED <<attempt, force_refresh, refreshed_for_invalid, tokens, ahead, stop,
                 outVars, unsaved, forced, failures, gave_up, forgotten>>

\* refresh: the answer is kept in memory, then its saving is awaited.
Refreshed ==
  /\ pc = "refreshing" /\ request = "pair"
  /\ held' = issued /\ received' = issued
  /\ pc' = "saving"
  /\ UNCHANGED <<attempt, force_refresh, refreshed_for_invalid, tokens, ahead, stop, state,
                 client, outVars, unsaved, forced, failures, gave_up, forgotten>>

\* Slip: a pair renewed ahead is not the one the next sign-in uses.
ServeOnOldPair ==
  /\ ahead
  /\ pc' = "serving"
  /\ UNCHANGED <<tokens, state, client, force_refresh, forced>>

\* The connection goes on, the task with the pair renewed ahead.
ServeOnRenewed ==
  /\ ahead
  /\ tokens' = held
  /\ pc' = "serving"
  /\ UNCHANGED <<state, client, force_refresh, forced>>

\* The pair is saved or not (the store failed, or took too long): TokensRefreshed
\* or TokensNotSaved.  Before a connection a stop ends the session now.
Saved ==
  /\ pc = "saving"
  /\ \/ stored' = held /\ unsaved' = FALSE
     \/ UNCHANGED stored /\ unsaved' = TRUE
  /\ \/ /\ ~ahead /\ stop
        /\ End("stopped")
        /\ UNCHANGED <<tokens, force_refresh, forced>>
     \/ /\ ~ahead /\ ~stop
        /\ tokens' = held
        /\ force_refresh' = FALSE
        /\ forced' = IF force_refresh THEN forced + 1 ELSE forced
        /\ pc' = "connecting"
        /\ UNCHANGED <<state, client>>
     \/ ServeOnRenewed
  /\ UNCHANGED <<attempt, refreshed_for_invalid, ahead, held, stop, request, issued,
                 received, failures, gave_up, forgotten>>

\* classify_refresh_error: a refusal ends the session, an endpoint that could not
\* be reached is tried again.  On a connection that is up it is only put off.
RefreshFailed ==
  /\ pc = "refreshing" /\ request \in {"refused", "unreachable"}
  /\ \/ /\ ~ahead /\ stop
        /\ End("stopped")
        /\ UNCHANGED <<failures, gave_up>>
     \/ /\ ~ahead /\ ~stop /\ request = "refused"
        /\ End("failed")
        /\ UNCHANGED <<failures, gave_up>>
     \/ /\ ~ahead /\ ~stop /\ request = "unreachable"
        /\ failures' = failures + 1
        /\ WaitAfterFailure(attempt)
     \/ /\ ahead
        /\ pc' = "serving"
        /\ UNCHANGED <<state, client, failures, gave_up>>
  /\ UNCHANGED <<attempt, force_refresh, refreshed_for_invalid, tokens, ahead, held, stop,
                 outVars, received, unsaved, forced, forgotten>>

\* Slip: the tokens are refreshed again each time a sign-in finds them invalid.
ConnectInvalidAgain ==
  /\ pc = "connecting"
  /\ force_refresh' = TRUE /\ attempt' = IF attempt = 0 THEN 0 ELSE attempt - 1
  /\ pc' = "top"
  /\ UNCHANGED <<refreshed_for_invalid, tokens, ahead, sharedVars, outVars, pastVars>>

\* The sign-in found the tokens invalid: refresh once, else the session ends.
ConnectInvalid ==
  /\ pc = "connecting"
  /\ IF refreshed_for_invalid
     THEN /\ End("failed")
          /\ UNCHANGED <<attempt, force_refresh, refreshed_for_invalid>>
     ELSE /\ refreshed_for_invalid' = TRUE
          /\ force_refresh' = TRUE
          /\ attempt' = IF attempt = 0 THEN 0 ELSE attempt - 1
          /\ pc' = "top"
          /\ UNCHANGED <<state, client>>
  /\ UNCHANGED <<tokens, ahead, held, stop, outVars, pastVars>>

\* connect failed for a reason that may pass, or for one that will not (classify).
ConnectFails ==
  /\ pc = "connecting"
  /\ \/ /\ failures' = failures + 1
        /\ WaitAfterFailure(attempt)
     \/ /\ End("failed")
        /\ UNCHANGED <<failures, gave_up>>
  /\ UNCHANGED <<attempt, force_refresh, refreshed_for_invalid, tokens, ahead, held, stop,
                 outVars, received, unsaved, forced, forgotten>>

\* Signed in: the client is there for everyone before the subscriptions are.
Connected ==
  /\ pc = "connecting"
  /\ refreshed_for_invalid' = FALSE
  /\ forced' = 0
  /\ client' = TRUE
  /\ pc' = "restoring"
  /\ UNCHANGED <<attempt, force_refresh, tokens, ahead, held, stop, state, outVars,
                 received, unsaved, failures, gave_up, forgotten>>

\* or_stop and sleep_or_stop: a stop drops what the task waits for.
StopCuts ==
  /\ pc \in {"connecting", "restoring", "waiting"} /\ stop
  /\ End("stopped")
  /\ UNCHANGED <<attempt, force_refresh, refreshed_for_invalid, tokens, ahead, held, stop,
                 outVars, pastVars>>

Restored ==
  /\ pc = "restoring"
  /\ pc' = "serving" /\ state' = "ready"
  /\ UNCHANGED <<attempt, force_refresh, refreshed_for_invalid, tokens, ahead, held, stop,
                 client, outVars, pastVars>>

\* The wait is over.
WaitEnds ==
  /\ pc = "waiting"
  /\ pc' = "top"
  /\ UNCHANGED <<attempt, force_refresh, refreshed_for_invalid, tokens, ahead, sharedVars,
                 outVars, pastVars>>

-----------------------------------------------------------------------------
(* serve, and what supervise does with how it ended *)

\* Slip: what a connection that is up waits for does not include the stop.
ServeOn ==
  /\ pc = "serving" /\ stop
  /\ UNCHANGED sessionVars

ServeStops ==
  /\ pc = "serving" /\ stop
  /\ End("stopped")
  /\ UNCHANGED <<attempt, force_refresh, refreshed_for_invalid, tokens, ahead, held, stop,
                 outVars, pastVars>>

\* The tokens are renewed ahead of time, while the connection is up.
RefreshDue ==
  /\ pc = "serving"
  /\ pc' = "refreshing" /\ ahead' = TRUE /\ request' = "none"
  /\ UNCHANGED <<attempt, force_refresh, refreshed_for_invalid, tokens, sharedVars,
                 issued, stored, pastVars>>

\* Served::TokensInvalid: reconnect at once with fresh tokens.
TokensInvalid ==
  /\ pc = "serving"
  /\ pc' = "top" /\ client' = FALSE
  /\ force_refresh' = TRUE /\ attempt' = 0
  /\ failures' = 0
  /\ UNCHANGED <<refreshed_for_invalid, tokens, ahead, held, stop, state, outVars,
                 received, unsaved, forced, gave_up, forgotten>>

\* Served::Disconnected, of a connection that was stable or not.
Disconnected ==
  \E stable \in BOOLEAN :
    /\ attempt' = IF stable THEN 1 ELSE attempt
    /\ failures' = IF stable THEN 0 ELSE failures + 1
    /\ WaitAfterFailure(attempt')
    /\ UNCHANGED <<force_refresh, refreshed_for_invalid, tokens, ahead, held, stop,
                   outVars, received, unsaved, forced, forgotten>>

ServeDisconnects == pc = "serving" /\ Disconnected

\* The server ended just this account's session: reauthorize_account, which
\* nothing cuts short.
AccountDisconnected ==
  /\ pc = "serving"
  /\ pc' = "reauthorizing"
  /\ UNCHANGED <<attempt, force_refresh, refreshed_for_invalid, tokens, ahead, sharedVars,
                 outVars, pastVars>>

Reauthorized ==
  /\ pc = "reauthorizing"
  /\ \/ /\ pc' = "serving"
        /\ UNCHANGED <<attempt, force_refresh, refreshed_for_invalid, tokens, ahead,
                       sharedVars, outVars, pastVars>>
     \/ Disconnected

-----------------------------------------------------------------------------
(* The program and the token endpoint *)

\* Session::stop, or the last Session dropped.
StopSession ==
  /\ ~stop
  /\ stop' = TRUE
  /\ UNCHANGED <<taskVars, held, state, client, outVars, pastVars>>

\* The user disconnects: the session is told to stop, and the saved sign-in is
\* removed without waiting for its end (app_view.rs).
Forget ==
  /\ ~forgotten
  /\ stop' = TRUE /\ stored' = 0 /\ forgotten' = TRUE
  /\ UNCHANGED <<taskVars, held, state, client, request, issued,
                 received, unsaved, forced, failures, gave_up>>

\* The endpoint issues a pair for the newest refresh token, refuses it, or is
\* not reached; its answer may be lost on the way back.
Endpoint ==
  /\ pc = "refreshing" /\ request = "none"
  /\ \/ /\ tokens = issued /\ issued < MaxPairs
        /\ issued' = issued + 1
        /\ request' \in {"pair", "unreachable"}
     \/ /\ request' \in {"refused", "unreachable"}
        /\ UNCHANGED issued
  /\ UNCHANGED <<taskVars, sharedVars, stored, pastVars>>

-----------------------------------------------------------------------------
Serve == ServeStops \/ RefreshDue \/ TokensInvalid \/ ServeDisconnects \/ AccountDisconnected

Supervise ==
  \/ Attempt \/ StopAtTop
  \/ Refreshed \/ Saved \/ RefreshFailed
  \/ Connected \/ ConnectInvalid \/ ConnectFails \/ StopCuts
  \/ Restored \/ WaitEnds
  \/ Serve \/ Reauthorized

SessionNext == Supervise \/ StopSession \/ Forget \/ Endpoint

SessionSpec == SessionInit /\ [][SessionNext]_sessionVars

(***************************************************************************)
(* Every await of the task ends: the connection, the token endpoint, the   *)
(* store and the requests have timeouts.  A connection that is up may stay *)
(* up for ever, and a stop it finds together with events is taken in the   *)
(* end, since tokio::select picks among what is ready at random.           *)
(***************************************************************************)
Fairness ==
  /\ WF_sessionVars(Endpoint)
  /\ WF_sessionVars(Attempt \/ StopAtTop \/ Refreshed \/ Saved \/ RefreshFailed
             \/ Connected \/ ConnectInvalid \/ ConnectFails \/ StopCuts
             \/ Restored \/ WaitEnds \/ Reauthorized)
  /\ SF_sessionVars(ServeStops)

SessionFairSpec == SessionSpec /\ Fairness

-----------------------------------------------------------------------------
(* Properties *)

Phases ==
  /\ pc \in Awaits /\ state \in States
  /\ request \in {"none", "pair", "refused", "unreachable"}

Flags ==
  /\ force_refresh \in BOOLEAN /\ refreshed_for_invalid \in BOOLEAN
  /\ stop \in BOOLEAN /\ client \in BOOLEAN /\ ahead \in BOOLEAN
  /\ unsaved \in BOOLEAN /\ gave_up \in BOOLEAN /\ forgotten \in BOOLEAN

Counts ==
  /\ attempt \in Nat /\ (Limit # Unlimited => attempt <= Limit + 1)
  /\ tokens \in Nat /\ held \in Nat /\ issued \in Nat /\ stored \in Nat /\ received \in Nat
  /\ forced \in Nat /\ failures \in Nat

\* Every variable has its type; the attempts stay within one of the limit.
SessionTypeOK == Phases /\ Flags /\ Counts

\* The session signs in, re-authorizes and refreshes with the newest pair it was
\* given, whatever the store, a stop or a failure did in between: no refresh
\* token that was retired to its knowledge is used again.
NewestPairInUse ==
  /\ held = received
  /\ pc \notin {"saving", "ended"} => tokens = received

\* A pair that was received is in the store before it is used and whatever stops
\* the session, unless the store itself failed or the user removed the sign-in
\* (supervise: "so a stop cannot discard a pair already received").
PairIsKept == pc # "saving" /\ ~unsaved /\ ~forgotten => stored = received

\* A sign-in that keeps finding the tokens invalid ends the session: no more than
\* two refreshes are forced without a sign-in between them.
ForcedRefreshesEnd == forced <= 2

\* The session gives up within one failure of the limit, never before the limit
\* and never without one (wait_after_failure).
GivesUpInTime ==
  /\ gave_up => /\ Limit # Unlimited
                /\ failures \in {Limit, Limit + 1}
  /\ pc = "waiting" /\ Limit # Unlimited => failures <= Limit

\* The callers reach a client exactly while its connection is served, and "ready"
\* is told of no other session, but for the step that starts the next attempt.
ClientIsServed ==
  /\ client <=> \/ pc \in {"restoring", "serving", "reauthorizing"}
                \/ pc \in {"refreshing", "saving"} /\ ahead
  /\ state = "ready" => client \/ pc = "top"

\* A stop ends the session.
StopEnds == stop ~> pc = "ended"

=============================================================================
