---------------------------- MODULE Reachability ----------------------------
(***************************************************************************)
(* How a chat held because its model could not be dialled is released:     *)
(* the retry of internal/web/reachability.go, the health lamp of           *)
(* internal/web/connection_health.go, and their two sides, the model       *)
(* requests that fail (publishModelUnreachable, called by a run and by a    *)
(* budget measurement) and the holds of the scheduler (HoldModel, finish,   *)
(* ReleaseModel).                                                           *)
(*                                                                         *)
(* A run is what it does to the holds: it dials, it fails over once to the  *)
(* connection's fallback, it publishes the failure and it finishes.  The    *)
(* back-off delays are left out: a timer fires some time after it is armed. *)
(* Amber lamps are "ready": both release.                                   *)
(***************************************************************************)
EXTENDS Integers, FiniteSets

CONSTANTS
    Session,       \* chats
    Connection,    \* connection ids
    Fallback,      \* Fallback[c]: the connection's fallback, or NoConnection
    NoConnection,
    State,         \* addresses of retry states; bound: retry states alive at once
    NoState,
    Probe          \* bound: probes and connection tests in flight at once

ASSUME FallbackAssumption ==
    /\ NoConnection \notin Connection
    /\ Fallback \in [Connection -> Connection \cup {NoConnection}]

ASSUME StateAssumption == NoState \notin State

\* Goroutines that may find a model unreachable: the run of a chat, and a budget
\* measurement of the chat asked for by a handler or after a run.
Thread == Session \X {"run", "measure"}

VARIABLES
    up,            \* connections whose server answers
    configured,    \* the connections of the configuration
    connectionOf,  \* the connection each chat runs on
    phase,         \* where a thread is
    dialled,       \* the connection a thread uses
    unreachable,   \* chats the scheduler holds
    retry,         \* retry[c]: the entry of the reachability map, or NoState
    of,            \* of[g]: the connection retry state g was made for
    timer,         \* timer[g]: its timer; "fired": the callback waits for the lock
    at,            \* at[p]: where probe p is
    on,            \* on[p]: the connection it is about
    lamp           \* the health lamp of a connection

vars == <<up, configured, connectionOf, phase, dialled, unreachable, retry, of, timer,
          at, on, lamp>>

Phase == {"idle", "dial", "held", "scheduled", "failed"}
Stage == {"free", "look", "check", "read", "release"}

TypeOK ==
    /\ up \subseteq Connection
    /\ configured \subseteq Connection
    /\ connectionOf \in [Session -> Connection]
    /\ phase \in [Thread -> Phase]
    /\ dialled \in [Thread -> Connection]
    /\ unreachable \subseteq Session
    /\ retry \in [Connection -> State \cup {NoState}]
    /\ of \in [State -> Connection]
    /\ timer \in [State -> {"none", "armed", "fired"}]
    /\ at \in [Probe -> Stage]
    /\ on \in [Probe -> Connection]
    /\ lamp \in [Connection -> {"ready", "alarm"}]

\* A start with every lamp lit by the first health check.
Init ==
    /\ up = Connection
    /\ configured = Connection
    /\ connectionOf \in [Session -> Connection]
    /\ \E c \in Connection :
         /\ dialled = [t \in Thread |-> c]
         /\ of = [g \in State |-> c]
         /\ on = [p \in Probe |-> c]
    /\ phase = [t \in Thread |-> "idle"]
    /\ unreachable = {}
    /\ retry = [c \in Connection |-> NoState]
    /\ timer = [g \in State |-> "none"]
    /\ at = [p \in Probe |-> "free"]
    /\ lamp = [c \in Connection |-> "ready"]

-----------------------------------------------------------------------------
(* The retry map, under reachabilityMu. *)

\* A retry state no map entry and no callback refers to.
Unused(g) == timer[g] = "none" /\ \A c \in Connection : retry[c] # g

\* scheduleReachabilityProbe.
Schedule(c) ==
    \/ /\ retry[c] = NoState
       /\ \E g \in State :
            /\ Unused(g)
            /\ retry' = [retry EXCEPT ![c] = g]
            /\ of' = [of EXCEPT ![g] = c]
            /\ timer' = [timer EXCEPT ![g] = "armed"]
    \/ /\ retry[c] # NoState
       /\ timer' = [timer EXCEPT ![retry[c]] = IF @ = "none" THEN "armed" ELSE @]
       /\ UNCHANGED <<retry, of>>

\* Mutant: the timer of a retry that is over goes on.
ForgetKeepsTimer(c) ==
    /\ retry' = [retry EXCEPT ![c] = NoState]
    /\ UNCHANGED <<of, timer>>

\* Mutant: a probe that succeeded leaves its retry in the map.
ForgetKeepsState(c) ==
    /\ timer' = [g \in State |-> IF g = retry[c] /\ timer[g] = "armed" THEN "none"
                                                                       ELSE timer[g]]
    /\ UNCHANGED <<retry, of>>

\* completeReachabilityProbe with success, and clearReachabilityProbe: the timer
\* is stopped, unless it has fired, and the state leaves the map.
Forget(c) ==
    /\ timer' = [g \in State |-> IF g = retry[c] /\ timer[g] = "armed" THEN "none"
                                                                       ELSE timer[g]]
    /\ retry' = [retry EXCEPT ![c] = NoState]
    /\ UNCHANGED of

\* Mutant: a failed probe is the last one.
RetryNever(c) == UNCHANGED <<retry, of, timer>>

\* completeReachabilityProbe with failure.
Retry(c) ==
    /\ timer' = [g \in State |-> IF g = retry[c] /\ timer[g] = "none" THEN "armed"
                                                                      ELSE timer[g]]
    /\ UNCHANGED <<retry, of>>

-----------------------------------------------------------------------------
(* Requests to a model. *)

Moves(t, p, q) ==
    /\ phase[t] = p
    /\ phase' = [phase EXCEPT ![t] = q]

\* A run starts, or a measurement; a queued run starts although its chat is held.
Dial(t) ==
    /\ connectionOf[t[1]] \in configured
    /\ Moves(t, "idle", "dial")
    /\ dialled' = [dialled EXCEPT ![t] = connectionOf[t[1]]]
    /\ UNCHANGED <<up, configured, connectionOf, unreachable, retry, of, timer, at, on, lamp>>

\* The server answers: SetModelAnswered lights the lamp of a run's connection; the
\* run goes on with another turn, or ends.
Answers(t) ==
    /\ dialled[t] \in up
    /\ \/ Moves(t, "dial", "idle")
       \/ t[2] = "run" /\ Moves(t, "dial", "dial")
    /\ lamp' = IF t[2] = "run" THEN [lamp EXCEPT ![dialled[t]] = "ready"] ELSE lamp
    /\ UNCHANGED <<up, configured, connectionOf, dialled, unreachable, retry, of, timer,
                   at, on>>

\* Any other end of the request: cancelled, or an answer with an error.
Gives(t) ==
    /\ Moves(t, "dial", "idle")
    /\ UNCHANGED <<up, configured, connectionOf, dialled, unreachable, retry, of, timer,
                   at, on, lamp>>

\* A run that dials in vain may go on, once, on the connection's fallback.
CanFallBack(t) ==
    /\ t[2] = "run"
    /\ dialled[t] = connectionOf[t[1]]
    /\ Fallback[dialled[t]] \in configured \ {dialled[t]}

\* beginFallback.
BeginFallback(t) ==
    /\ phase[t] = "dial"
    /\ dialled[t] \notin up
    /\ CanFallBack(t)
    /\ dialled' = [dialled EXCEPT ![t] = Fallback[dialled[t]]]
    /\ UNCHANGED <<up, configured, connectionOf, phase, unreachable, retry, of, timer, at,
                   on, lamp>>

\* publishModelUnreachable, first HoldModel ...
HoldModel(t) ==
    /\ dialled[t] \notin up
    /\ ~ CanFallBack(t)
    /\ Moves(t, "dial", "held")
    /\ unreachable' = unreachable \cup {t[1]}
    /\ UNCHANGED <<up, configured, connectionOf, dialled, retry, of, timer, at, on, lamp>>

\* ... then scheduleReachabilityProbe ...
ScheduleProbe(t) ==
    /\ Moves(t, "held", "scheduled")
    /\ Schedule(dialled[t])
    /\ UNCHANGED <<up, configured, connectionOf, dialled, unreachable, at, on, lamp>>

\* ... then setConnectionHealth.
RaiseAlarm(t) ==
    /\ Moves(t, "scheduled", IF t[2] = "run" THEN "failed" ELSE "idle")
    /\ lamp' = [lamp EXCEPT ![dialled[t]] = "alarm"]
    /\ UNCHANGED <<up, configured, connectionOf, dialled, unreachable, retry, of, timer,
                   at, on>>

\* finish of a run that stopped with model_unreachable: it holds the chat, unless
\* the run was stopped by the operator.
Finish(t) ==
    /\ Moves(t, "failed", "idle")
    /\ unreachable' = unreachable \cup {t[1]} \/ UNCHANGED unreachable
    /\ UNCHANGED <<up, configured, connectionOf, dialled, retry, of, timer, at, on, lamp>>

-----------------------------------------------------------------------------
(* Probes. *)

\* The timer's callback starts.
Fire(g) ==
    /\ timer[g] = "armed"
    /\ timer' = [timer EXCEPT ![g] = "fired"]
    /\ UNCHANGED <<up, configured, connectionOf, phase, dialled, unreachable, retry, of, at,
                   on, lamp>>

\* The callback's state is still the one in the map.
IsCurrent(g) == retry[of[g]] = g

\* The callback under the lock: it gives up if its state was replaced or removed.
Callback(g, p) ==
    /\ timer[g] = "fired"
    /\ at[p] = "free"
    /\ timer' = [timer EXCEPT ![g] = "none"]
    /\ IF IsCurrent(g)
         THEN /\ at' = [at EXCEPT ![p] = "look"]
              /\ on' = [on EXCEPT ![p] = of[g]]
         ELSE UNCHANGED <<at, on>>
    /\ UNCHANGED <<up, configured, connectionOf, phase, dialled, unreachable, retry, of, lamp>>

\* The retry of a connection that is gone is cleared.
LookUp(p) ==
    /\ at[p] = "look"
    /\ \/ /\ on[p] \in configured
          /\ at' = [at EXCEPT ![p] = "check"]
          /\ UNCHANGED <<retry, of, timer>>
       \/ /\ on[p] \notin configured
          /\ Forget(on[p])
          /\ at' = [at EXCEPT ![p] = "free"]
    /\ UNCHANGED <<up, configured, connectionOf, phase, dialled, unreachable, on, lamp>>

\* The lamp a health check sets: the model list was answered, or not.
Checked(c) == [lamp EXCEPT ![c] = IF c \in up THEN "ready" ELSE "alarm"]

\* checkConnectionHealth of a probe ...
Check(p) ==
    /\ at[p] = "check"
    /\ at' = [at EXCEPT ![p] = "read"]
    /\ lamp' = Checked(on[p])
    /\ UNCHANGED <<up, configured, connectionOf, phase, dialled, unreachable, retry, of,
                   timer, on>>

\* ... and of the health ticker.
HealthCheck(c) ==
    /\ c \in configured
    /\ lamp' = Checked(c)
    /\ UNCHANGED <<up, configured, connectionOf, phase, dialled, unreachable, retry, of,
                   timer, at, on>>

\* The probe reads the lamp, which others set too, and completes.
ReadLamp(p) ==
    /\ at[p] = "read"
    /\ \/ /\ lamp[on[p]] # "alarm"
          /\ Forget(on[p])
          /\ at' = [at EXCEPT ![p] = "release"]
       \/ /\ lamp[on[p]] = "alarm"
          /\ Retry(on[p])
          /\ at' = [at EXCEPT ![p] = "free"]
    /\ UNCHANGED <<up, configured, connectionOf, phase, dialled, unreachable, on, lamp>>

\* The operator's connection test, the model having answered.
TestConnection(c, p) ==
    /\ c \in up \cap configured
    /\ at[p] = "free"
    /\ Forget(c)
    /\ at' = [at EXCEPT ![p] = "release"]
    /\ on' = [on EXCEPT ![p] = c]
    /\ UNCHANGED <<up, configured, connectionOf, phase, dialled, unreachable, lamp>>

\* Mutant: the release stops at the first chat.
ReleaseFirst(p) ==
    /\ at[p] = "release"
    /\ LET mine == {s \in unreachable : connectionOf[s] = on[p]} IN
         \/ mine = {} /\ UNCHANGED unreachable
         \/ \E s \in mine : unreachable' = unreachable \ {s}
    /\ at' = [at EXCEPT ![p] = "free"]
    /\ UNCHANGED <<up, configured, connectionOf, phase, dialled, retry, of, timer, on, lamp>>

\* ReleaseModel: the held chats that run on the connection now.
ReleaseModel(p) ==
    /\ at[p] = "release"
    /\ unreachable' = {s \in unreachable : connectionOf[s] # on[p]}
    /\ at' = [at EXCEPT ![p] = "free"]
    /\ UNCHANGED <<up, configured, connectionOf, phase, dialled, retry, of, timer, on, lamp>>

-----------------------------------------------------------------------------
(* The configuration and the servers. *)

\* Registry.SetConnection: the chat is idle.
SetConnection(s, c) ==
    /\ phase[<<s, "run">>] = "idle"
    /\ c \in configured \ {connectionOf[s]}
    /\ connectionOf' = [connectionOf EXCEPT ![s] = c]
    /\ UNCHANGED <<up, configured, phase, dialled, unreachable, retry, of, timer, at, on, lamp>>

\* Deleting a connection: no chat runs on it and it is not the last one.
DeleteConnection(c) ==
    /\ c \in configured
    /\ configured # {c}
    /\ \A s \in Session : connectionOf[s] # c
    /\ configured' = configured \ {c}
    /\ UNCHANGED <<up, connectionOf, phase, dialled, unreachable, retry, of, timer, at, on,
                   lamp>>

\* A model server goes down or comes back.
Toggle(c) ==
    /\ up' = IF c \in up THEN up \ {c} ELSE up \cup {c}
    /\ UNCHANGED <<configured, connectionOf, phase, dialled, unreachable, retry, of, timer,
                   at, on, lamp>>

-----------------------------------------------------------------------------
\* A request, once it was sent.
Request(t) ==
    \/ Answers(t) \/ Gives(t) \/ BeginFallback(t) \/ HoldModel(t) \/ ScheduleProbe(t)
    \/ RaiseAlarm(t) \/ Finish(t)

ProbeStep(p) == LookUp(p) \/ Check(p) \/ ReadLamp(p) \/ ReleaseModel(p)

CallbackStep(g) == \E p \in Probe : Callback(g, p)

Probing ==
    \/ \E g \in State : Fire(g) \/ CallbackStep(g)
    \/ \E p \in Probe : ProbeStep(p)
    \/ \E c \in Connection : HealthCheck(c)

Testing == \E c \in Connection, p \in Probe : TestConnection(c, p)

Servers == \E c \in Connection : Toggle(c)

Next ==
    \/ \E t \in Thread : Dial(t) \/ Request(t)
    \/ Probing
    \/ Testing
    \/ \E s \in Session, c \in Connection : SetConnection(s, c)
    \/ \E c \in Connection : DeleteConnection(c)
    \/ Servers

Spec == Init /\ [][Next]_vars

\* Only budget measurements find a model unreachable; connections and the routing of
\* chats stay as they are.
Measuring == \E s \in Session : LET t == <<s, "measure">> IN Dial(t) \/ Request(t)

MeasureNext == Measuring \/ Probing \/ Testing \/ Servers

MeasureSpec == Init /\ [][MeasureNext]_vars

-----------------------------------------------------------------------------
(* Correctness. *)

\* A retry that is in the map goes on: its timer is set or a probe of its
\* connection is under way, which sets it again or ends the retry.  Otherwise a
\* failing model would never be asked again, for scheduleReachabilityProbe does
\* not replace an entry (scheduleReachabilityProbeLocked, completeReachabilityProbe).
RetryAlive ==
    \A c \in Connection :
        retry[c] # NoState =>
            \/ timer[retry[c]] # "none"
            \/ \E p \in Probe : at[p] \in {"look", "check", "read"} /\ on[p] = c

\* Only the retry in the map has a timer that is going to fire, so a connection is
\* never probed on two schedules at once, however requests, probes, callbacks
\* that come late and connection tests interleave.
OneSchedule ==
    \A g \in State : timer[g] = "armed" => retry[of[g]] = g

\* A retry state is in the map under the connection it was made for.
StateOwned == \A c \in Connection : retry[c] # NoState => of[retry[c]] = c

\* The inductive invariant behind the retries.
RetryInv == TypeOK /\ StateOwned /\ OneSchedule /\ RetryAlive

\* Somebody is going to release chat s: its hold was made but the probe not yet
\* asked for, its connection is retried, or a release of it is under way.
Watched(s) ==
    \/ \E t \in Thread : t[1] = s /\ phase[t] = "held"
    \/ retry[connectionOf[s]] # NoState
    \/ \E p \in Probe : at[p] = "release" /\ on[p] = connectionOf[s]

\* scheduler.go, HoldModel, "so submissions wait for the same recovery event as an
\* in-run dial failure": a held chat has a recovery event to wait for.
HeldIsWatched == \A s \in unreachable : Watched(s)

-----------------------------------------------------------------------------
(* Liveness.  Goroutines are scheduled, a timer that is set fires and a      *)
(* health check is bounded by its timeout; a request is bounded by the       *)
(* connection's timeout, but nothing is assumed of the operator.             *)

Fairness ==
    /\ \A t \in Thread : WF_vars(Request(t))
    /\ \A g \in State : WF_vars(Fire(g)) /\ WF_vars(CallbackStep(g))
    /\ \A p \in Probe : WF_vars(ProbeStep(p))

\* Once the server of a connection answers for good, the connection is no longer
\* probed after some time: the retry ends by itself.
RetryEnds ==
    \A c \in Connection :
        <>[](c \in up) => []<>(retry[c] = NoState)

\* Once every server answers for good, a chat held by a failed measurement is
\* released, without the operator doing anything.
HoldEnds ==
    <>[](up = Connection) => \A s \in Session : s \in unreachable ~> s \notin unreachable
=============================================================================
