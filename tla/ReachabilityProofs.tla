------------------------- MODULE ReachabilityProofs -------------------------
(***************************************************************************)
(* For any chats, connections and fallbacks: a retry that is in the map    *)
(* goes on until its connection answers, and a connection is probed on one  *)
(* schedule.  The invariant is RetryInv; StateOwned is what it adds, for    *)
(* a callback finds its retry through the connection it was made for.       *)
(* Where only measurements hold a chat, its hold is watched (HeldInv).      *)
(***************************************************************************)
EXTENDS Reachability, TLAPS

RetryVars == <<retry, of, timer, at, on>>

\* What the retry map does on its own: the three operations under reachabilityMu
\* keep the types and StateOwned.
LEMMA ScheduleOwned ==
    ASSUME TypeOK, StateOwned, OneSchedule, NEW c \in Connection, Schedule(c)
    PROVE  /\ retry' \in [Connection -> State \cup {NoState}]
           /\ of' \in [State -> Connection]
           /\ timer' \in [State -> {"none", "armed", "fired"}]
           /\ StateOwned' /\ OneSchedule'
           /\ \A d \in Connection : retry'[d] # NoState =>
                 \/ timer'[retry'[d]] # "none"
                 \/ retry'[d] = retry[d] /\ timer'[retry[d]] = timer[retry[d]]
<1>1. CASE /\ retry[c] = NoState
           /\ \E g \in State :
                /\ Unused(g)
                /\ retry' = [retry EXCEPT ![c] = g]
                /\ of' = [of EXCEPT ![g] = c]
                /\ timer' = [timer EXCEPT ![g] = "armed"]
  <2>1. PICK g \in State :
                /\ Unused(g)
                /\ retry' = [retry EXCEPT ![c] = g]
                /\ of' = [of EXCEPT ![g] = c]
                /\ timer' = [timer EXCEPT ![g] = "armed"]
    BY <1>1
  <2>2. /\ retry' \in [Connection -> State \cup {NoState}]
        /\ of' \in [State -> Connection]
        /\ timer' \in [State -> {"none", "armed", "fired"}]
    BY <2>1 DEF TypeOK
  <2>3. \A d \in Connection : d # c => retry'[d] = retry[d] /\ retry[d] # g
    BY <2>1 DEF Unused, TypeOK
  <2>4. retry'[c] = g /\ of'[g] = c /\ timer'[g] = "armed"
    BY <2>1 DEF TypeOK
  <2>5. \A h \in State : h # g => of'[h] = of[h] /\ timer'[h] = timer[h]
    BY <2>1 DEF TypeOK
  <2>6. StateOwned'
    BY <2>3, <2>4, <2>5 DEF StateOwned, TypeOK
  <2>7. OneSchedule'
    BY <1>1, <2>3, <2>4, <2>5, StateAssumption DEF OneSchedule, TypeOK
  <2>8. \A d \in Connection : retry'[d] # NoState =>
             \/ timer'[retry'[d]] # "none"
             \/ retry'[d] = retry[d] /\ timer'[retry[d]] = timer[retry[d]]
    BY <2>3, <2>4, <2>5 DEF TypeOK
  <2>. QED BY <2>2, <2>6, <2>7, <2>8
<1>2. CASE /\ retry[c] # NoState
           /\ timer' = [timer EXCEPT ![retry[c]] = IF @ = "none" THEN "armed" ELSE @]
           /\ UNCHANGED <<retry, of>>
  <2>1. retry[c] \in State /\ of[retry[c]] = c
    BY <1>2 DEF TypeOK, StateOwned
  <2>2. timer' \in [State -> {"none", "armed", "fired"}]
    BY <1>2, <2>1 DEF TypeOK
  <2>3. \A h \in State : h # retry[c] => timer'[h] = timer[h]
    BY <1>2 DEF TypeOK
  <2>4. timer'[retry[c]] # "none"
    BY <1>2, <2>1 DEF TypeOK
  <2>5. StateOwned' /\ OneSchedule'
    BY <1>2, <2>1, <2>3 DEF StateOwned, OneSchedule, TypeOK
  <2>6. \A d \in Connection : retry'[d] # NoState =>
             \/ timer'[retry'[d]] # "none"
             \/ retry'[d] = retry[d] /\ timer'[retry[d]] = timer[retry[d]]
    BY <1>2, <2>3, <2>4 DEF TypeOK
  <2>. QED BY <1>2, <2>2, <2>5, <2>6 DEF TypeOK
<1>. QED BY <1>1, <1>2 DEF Schedule

\* Ending the retry of c disturbs no other retry.
LEMMA ForgetOwned ==
    ASSUME TypeOK, StateOwned, OneSchedule, NEW c \in Connection, Forget(c)
    PROVE  /\ retry' \in [Connection -> State \cup {NoState}]
           /\ of' = of
           /\ timer' \in [State -> {"none", "armed", "fired"}]
           /\ StateOwned' /\ OneSchedule'
           /\ \A d \in Connection : retry'[d] # NoState =>
                 d # c /\ retry'[d] = retry[d] /\ timer'[retry[d]] = timer[retry[d]]
<1>1. /\ retry' = [retry EXCEPT ![c] = NoState]
      /\ timer' = [g \in State |-> IF g = retry[c] /\ timer[g] = "armed" THEN "none"
                                                                         ELSE timer[g]]
      /\ of' = of
  BY DEF Forget
<1>2. retry' \in [Connection -> State \cup {NoState}]
      /\ timer' \in [State -> {"none", "armed", "fired"}]
  BY <1>1 DEF TypeOK
<1>3. \A d \in Connection : retry'[d] # NoState => d # c /\ retry'[d] = retry[d]
                                                   /\ retry[d] \in State
  BY <1>1 DEF TypeOK
<1>4. \A d \in Connection : retry'[d] # NoState => retry[d] # retry[c]
  BY <1>3 DEF StateOwned
<1>5. \A d \in Connection : retry'[d] # NoState => timer'[retry[d]] = timer[retry[d]]
  BY <1>1, <1>3, <1>4
<1>6. StateOwned'
  BY <1>1, <1>3 DEF StateOwned
<1>7. OneSchedule'
  <2>1. SUFFICES ASSUME NEW g \in State, timer'[g] = "armed"
                 PROVE  retry'[of[g]] = g
    BY <1>1 DEF OneSchedule
  <2>2. g # retry[c] /\ timer[g] = "armed"
    BY <1>1, <2>1
  <2>3. retry[of[g]] = g /\ of[g] # c
    BY <2>2 DEF OneSchedule
  <2>. QED BY <1>1, <2>3 DEF TypeOK
<1>. QED BY <1>1, <1>2, <1>3, <1>5, <1>6, <1>7

\* A failed probe of c arms the timer of c and no other.
LEMMA RetryOwned ==
    ASSUME TypeOK, StateOwned, OneSchedule, NEW c \in Connection, Retry(c)
    PROVE  /\ retry' = retry /\ of' = of
           /\ timer' \in [State -> {"none", "armed", "fired"}]
           /\ StateOwned' /\ OneSchedule'
           /\ \A d \in Connection : retry[d] # NoState =>
                 timer'[retry[d]] # "none" \/ (d # c /\ timer'[retry[d]] = timer[retry[d]])
<1>1. /\ timer' = [g \in State |-> IF g = retry[c] /\ timer[g] = "none" THEN "armed"
                                                                        ELSE timer[g]]
      /\ retry' = retry /\ of' = of
  BY DEF Retry
<1>2. timer' \in [State -> {"none", "armed", "fired"}]
  BY <1>1 DEF TypeOK
<1>3. StateOwned'
  BY <1>1 DEF StateOwned
<1>4. OneSchedule'
  BY <1>1, StateAssumption DEF OneSchedule, StateOwned, TypeOK
<1>5. ASSUME NEW d \in Connection, retry[d] # NoState
      PROVE  timer'[retry[d]] # "none" \/ (d # c /\ timer'[retry[d]] = timer[retry[d]])
  <2>1. retry[d] \in State
    BY <1>5 DEF TypeOK
  <2>2. CASE retry[d] = retry[c]
    <3>1. timer'[retry[d]] = IF timer[retry[d]] = "none" THEN "armed" ELSE timer[retry[d]]
      BY <1>1, <2>1, <2>2
    <3>2. timer'[retry[d]] # "none"
      BY <3>1
    <3>. QED BY <3>2
  <2>3. CASE retry[d] # retry[c]
    BY <1>1, <2>1, <2>3
  <2>. QED BY <2>2, <2>3
<1>. QED BY <1>1, <1>2, <1>3, <1>4, <1>5

\* The invariant holds at the start.
LEMMA InitRetry == Init => RetryInv
<1>1. SUFFICES ASSUME Init PROVE RetryInv
  OBVIOUS
<1>2. TypeOK
  BY <1>1 DEF Init, TypeOK, Phase, Stage
<1>3. StateOwned /\ OneSchedule /\ RetryAlive
  BY <1>1 DEF Init, StateOwned, OneSchedule, RetryAlive
<1>. QED BY <1>2, <1>3 DEF RetryInv

\* A step that leaves the retry map, its timers and the probes alone.
LEMMA MapUntouched ==
    ASSUME RetryInv, TypeOK', UNCHANGED RetryVars
    PROVE  RetryInv'
BY DEF RetryInv, RetryVars, StateOwned, OneSchedule, RetryAlive

\* Every step keeps the invariant.
LEMMA NextRetry == RetryInv /\ [Next]_vars => RetryInv'
<1>1. SUFFICES ASSUME RetryInv, [Next]_vars PROVE RetryInv'
  OBVIOUS
<1>. USE DEF RetryInv
<1>2. ASSUME NEW t \in Thread, Dial(t) PROVE RetryInv'
  <2>1. TypeOK'
    BY <1>1, <1>2 DEF TypeOK, Dial, Moves, Thread, Phase
  <2>. QED BY <1>1, <1>2, <2>1, MapUntouched DEF Dial, RetryVars
<1>3. ASSUME NEW t \in Thread, Answers(t) PROVE RetryInv'
  <2>1. TypeOK'
    BY <1>1, <1>3 DEF TypeOK, Answers, Moves, Thread, Phase
  <2>. QED BY <1>1, <1>3, <2>1, MapUntouched DEF Answers, RetryVars
<1>4. ASSUME NEW t \in Thread, Gives(t) PROVE RetryInv'
  <2>1. TypeOK'
    BY <1>1, <1>4 DEF TypeOK, Gives, Moves, Thread, Phase
  <2>. QED BY <1>1, <1>4, <2>1, MapUntouched DEF Gives, RetryVars
<1>5. ASSUME NEW t \in Thread, BeginFallback(t) PROVE RetryInv'
  <2>1. TypeOK'
    BY <1>1, <1>5 DEF TypeOK, BeginFallback, CanFallBack, Thread
  <2>. QED BY <1>1, <1>5, <2>1, MapUntouched DEF BeginFallback, RetryVars
<1>6. ASSUME NEW t \in Thread, HoldModel(t) PROVE RetryInv'
  <2>1. TypeOK'
    BY <1>1, <1>6 DEF TypeOK, HoldModel, Moves, Thread, Phase
  <2>. QED BY <1>1, <1>6, <2>1, MapUntouched DEF HoldModel, RetryVars
<1>7. ASSUME NEW t \in Thread, ScheduleProbe(t) PROVE RetryInv'
  <2>1. dialled[t] \in Connection /\ Schedule(dialled[t]) /\ at' = at /\ on' = on
    BY <1>1, <1>7 DEF ScheduleProbe, TypeOK
  <2>2. /\ retry' \in [Connection -> State \cup {NoState}]
        /\ of' \in [State -> Connection]
        /\ timer' \in [State -> {"none", "armed", "fired"}]
        /\ StateOwned' /\ OneSchedule'
        /\ \A d \in Connection : retry'[d] # NoState =>
              \/ timer'[retry'[d]] # "none"
              \/ retry'[d] = retry[d] /\ timer'[retry[d]] = timer[retry[d]]
    BY <1>1, <2>1, ScheduleOwned
  <2>3. TypeOK'
    BY <1>1, <1>7, <2>2 DEF TypeOK, ScheduleProbe, Moves, Thread, Phase
  <2>4. RetryAlive'
    BY <1>1, <2>1, <2>2 DEF RetryAlive
  <2>. QED BY <2>2, <2>3, <2>4
<1>8. ASSUME NEW t \in Thread, RaiseAlarm(t) PROVE RetryInv'
  <2>1. TypeOK'
    BY <1>1, <1>8 DEF TypeOK, RaiseAlarm, Moves, Thread, Phase
  <2>. QED BY <1>1, <1>8, <2>1, MapUntouched DEF RaiseAlarm, RetryVars
<1>9. ASSUME NEW t \in Thread, Finish(t) PROVE RetryInv'
  <2>1. TypeOK'
    BY <1>1, <1>9 DEF TypeOK, Finish, Moves, Thread, Phase
  <2>. QED BY <1>1, <1>9, <2>1, MapUntouched DEF Finish, RetryVars
<1>10. ASSUME NEW g \in State, Fire(g) PROVE RetryInv'
  <2>1. TypeOK'
    BY <1>1, <1>10 DEF TypeOK, Fire
  <2>2. StateOwned' /\ OneSchedule' /\ RetryAlive'
    BY <1>1, <1>10 DEF Fire, StateOwned, OneSchedule, RetryAlive, TypeOK
  <2>. QED BY <2>1, <2>2
<1>11. ASSUME NEW g \in State, NEW p \in Probe, Callback(g, p) PROVE RetryInv'
  <2>1. TypeOK'
    BY <1>1, <1>11 DEF TypeOK, Callback, Stage
  <2>2. timer' = [timer EXCEPT ![g] = "none"] /\ of' = of /\ timer[g] = "fired"
        /\ retry' = retry /\ at[p] = "free" /\ of[g] \in Connection
    BY <1>1, <1>11 DEF Callback, TypeOK
  <2>3. StateOwned' /\ OneSchedule'
    BY <1>1, <2>2 DEF StateOwned, OneSchedule, TypeOK
  <2>4. ASSUME NEW d \in Connection, retry[d] # NoState
        PROVE  \/ timer'[retry[d]] # "none"
               \/ \E q \in Probe : at'[q] \in {"look", "check", "read"} /\ on'[q] = d
    <3>1. CASE retry[d] = g
      <4>1. of[g] = d /\ IsCurrent(g)
        BY <1>1, <2>4, <3>1 DEF StateOwned, IsCurrent
      <4>2. at'[p] = "look" /\ on'[p] = d
        BY <1>1, <1>11, <4>1 DEF Callback, TypeOK
      <4>. QED BY <4>2
    <3>2. CASE retry[d] # g
      <4>1. timer'[retry[d]] = timer[retry[d]]
        BY <1>1, <2>2, <2>4, <3>2 DEF TypeOK
      <4>2. \A q \in Probe : at[q] \in {"look", "check", "read"} =>
                                at'[q] = at[q] /\ on'[q] = on[q]
        BY <1>1, <1>11 DEF Callback, TypeOK
      <4>. QED BY <1>1, <2>4, <4>1, <4>2 DEF RetryAlive
    <3>. QED BY <3>1, <3>2
  <2>5. RetryAlive'
    BY <2>2, <2>4 DEF RetryAlive
  <2>. QED BY <2>1, <2>3, <2>5
<1>12. ASSUME NEW p \in Probe, LookUp(p) PROVE RetryInv'
  <2>1. on[p] \in Connection /\ on' = on
    BY <1>1, <1>12 DEF LookUp, TypeOK
  <2>2. CASE at' = [at EXCEPT ![p] = "check"] /\ UNCHANGED <<retry, of, timer>>
    <3>1. TypeOK'
      BY <1>1, <1>12, <2>2 DEF LookUp, TypeOK, Stage
    <3>2. StateOwned' /\ OneSchedule'
      BY <1>1, <2>2 DEF StateOwned, OneSchedule
    <3>3. RetryAlive'
      BY <1>1, <2>1, <2>2 DEF RetryAlive, TypeOK
    <3>. QED BY <3>1, <3>2, <3>3
  <2>3. CASE Forget(on[p]) /\ at' = [at EXCEPT ![p] = "free"]
    <3>1. TypeOK'
      BY <1>1, <1>12, <2>1, <2>3, ForgetOwned DEF LookUp, TypeOK, Stage
    <3>2. StateOwned' /\ OneSchedule'
      BY <1>1, <2>1, <2>3, ForgetOwned
    <3>3. \A d \in Connection : retry'[d] # NoState =>
             d # on[p] /\ retry'[d] = retry[d] /\ timer'[retry[d]] = timer[retry[d]]
      BY <1>1, <2>1, <2>3, ForgetOwned
    <3>4. \A q \in Probe : q # p => at'[q] = at[q]
      BY <1>1, <2>3 DEF TypeOK
    <3>5. RetryAlive'
      BY <1>1, <2>1, <3>3, <3>4 DEF RetryAlive
    <3>. QED BY <3>1, <3>2, <3>5
  <2>. QED BY <1>12, <2>2, <2>3 DEF LookUp
<1>13. ASSUME NEW p \in Probe, Check(p) PROVE RetryInv'
  <2>1. TypeOK'
    BY <1>1, <1>13 DEF TypeOK, Check, Checked, Stage
  <2>2. StateOwned' /\ OneSchedule'
    BY <1>1, <1>13 DEF Check, StateOwned, OneSchedule
  <2>3. RetryAlive'
    BY <1>1, <1>13 DEF Check, RetryAlive, TypeOK
  <2>. QED BY <2>1, <2>2, <2>3
<1>14. ASSUME NEW c \in Connection, HealthCheck(c) PROVE RetryInv'
  <2>1. TypeOK'
    BY <1>1, <1>14 DEF TypeOK, HealthCheck, Checked
  <2>. QED BY <1>1, <1>14, <2>1, MapUntouched DEF HealthCheck, RetryVars
<1>15. ASSUME NEW p \in Probe, ReadLamp(p) PROVE RetryInv'
  <2>1. on[p] \in Connection /\ on' = on
    BY <1>1, <1>15 DEF ReadLamp, TypeOK
  <2>2. CASE Forget(on[p]) /\ at' = [at EXCEPT ![p] = "release"]
    <3>1. TypeOK'
      BY <1>1, <1>15, <2>1, <2>2, ForgetOwned DEF ReadLamp, TypeOK, Stage
    <3>2. StateOwned' /\ OneSchedule'
      BY <1>1, <2>1, <2>2, ForgetOwned
    <3>3. \A d \in Connection : retry'[d] # NoState =>
             d # on[p] /\ retry'[d] = retry[d] /\ timer'[retry[d]] = timer[retry[d]]
      BY <1>1, <2>1, <2>2, ForgetOwned
    <3>4. \A q \in Probe : q # p => at'[q] = at[q]
      BY <1>1, <2>2 DEF TypeOK
    <3>5. RetryAlive'
      BY <1>1, <2>1, <3>3, <3>4 DEF RetryAlive
    <3>. QED BY <3>1, <3>2, <3>5
  <2>3. CASE Retry(on[p]) /\ at' = [at EXCEPT ![p] = "free"]
    <3>1. retry' = retry /\ StateOwned' /\ OneSchedule'
          /\ \A d \in Connection : retry[d] # NoState =>
               timer'[retry[d]] # "none" \/ (d # on[p] /\ timer'[retry[d]] = timer[retry[d]])
      BY <1>1, <2>1, <2>3, RetryOwned
    <3>2. TypeOK'
      BY <1>1, <1>15, <2>1, <2>3, RetryOwned DEF ReadLamp, TypeOK, Stage
    <3>3. \A q \in Probe : q # p => at'[q] = at[q]
      BY <1>1, <2>3 DEF TypeOK
    <3>4. RetryAlive'
      BY <1>1, <2>1, <3>1, <3>3 DEF RetryAlive
    <3>. QED BY <3>1, <3>2, <3>4
  <2>. QED BY <1>15, <2>2, <2>3 DEF ReadLamp
<1>16. ASSUME NEW c \in Connection, NEW p \in Probe, TestConnection(c, p) PROVE RetryInv'
  <2>1. /\ Forget(c) /\ at[p] = "free"
        /\ at' = [at EXCEPT ![p] = "release"]
        /\ on' = [on EXCEPT ![p] = c]
    BY <1>16 DEF TestConnection
  <2>2. TypeOK'
    BY <1>1, <1>16, <2>1, ForgetOwned DEF TestConnection, TypeOK, Stage
  <2>3. StateOwned' /\ OneSchedule'
    BY <1>1, <2>1, ForgetOwned
  <2>4. \A d \in Connection : retry'[d] # NoState =>
           d # c /\ retry'[d] = retry[d] /\ timer'[retry[d]] = timer[retry[d]]
    BY <1>1, <2>1, ForgetOwned
  <2>5. \A q \in Probe : at[q] \in {"look", "check", "read"} => at'[q] = at[q] /\ on'[q] = on[q]
    BY <1>1, <2>1 DEF TypeOK
  <2>6. RetryAlive'
    BY <1>1, <2>4, <2>5 DEF RetryAlive
  <2>. QED BY <2>2, <2>3, <2>6
<1>17. ASSUME NEW p \in Probe, ReleaseModel(p) PROVE RetryInv'
  <2>1. TypeOK'
    BY <1>1, <1>17 DEF TypeOK, ReleaseModel, Stage
  <2>2. StateOwned' /\ OneSchedule'
    BY <1>1, <1>17 DEF ReleaseModel, StateOwned, OneSchedule
  <2>3. RetryAlive'
    BY <1>1, <1>17 DEF ReleaseModel, RetryAlive, TypeOK
  <2>. QED BY <2>1, <2>2, <2>3
<1>18. ASSUME NEW s \in Session, NEW c \in Connection, SetConnection(s, c) PROVE RetryInv'
  <2>1. TypeOK'
    BY <1>1, <1>18 DEF TypeOK, SetConnection
  <2>. QED BY <1>1, <1>18, <2>1, MapUntouched DEF SetConnection, RetryVars
<1>19. ASSUME NEW c \in Connection, DeleteConnection(c) PROVE RetryInv'
  <2>1. TypeOK'
    BY <1>1, <1>19 DEF TypeOK, DeleteConnection
  <2>. QED BY <1>1, <1>19, <2>1, MapUntouched DEF DeleteConnection, RetryVars
<1>20. ASSUME NEW c \in Connection, Toggle(c) PROVE RetryInv'
  <2>1. TypeOK'
    BY <1>1, <1>20 DEF TypeOK, Toggle
  <2>. QED BY <1>1, <1>20, <2>1, MapUntouched DEF Toggle, RetryVars
<1>21. CASE UNCHANGED vars
  <2>1. TypeOK'
    BY <1>1, <1>21 DEF TypeOK, vars
  <2>. QED BY <1>1, <1>21, <2>1, MapUntouched DEF vars, RetryVars
<1>. QED
  BY <1>1, <1>2, <1>3, <1>4, <1>5, <1>6, <1>7, <1>8, <1>9, <1>10, <1>11, <1>12, <1>13, <1>14,
     <1>15, <1>16, <1>17, <1>18, <1>19, <1>20, <1>21
     DEF Next, Request, Probing, CallbackStep, ProbeStep, Testing, Servers

\* The inductive invariant holds in every reachable state, whatever the chats,
\* the connections, their fallbacks and the probes in flight.
THEOREM RetryInvHolds == Spec => []RetryInv
BY InitRetry, NextRetry, PTL DEF Spec

\* A retry in the map of internal/web/reachability.go is never left without a
\* timer or a probe: a model that failed is asked again until it answers.
THEOREM RetriesGoOn == Spec => []RetryAlive
<1>1. RetryInv => RetryAlive
  BY DEF RetryInv
<1>. QED BY <1>1, RetryInvHolds, PTL

\* A connection is probed on one schedule: a timer that is set belongs to the
\* entry of the map, however late callbacks, tests and failures interleave.
THEOREM OneScheduleEach == Spec => []OneSchedule
<1>1. RetryInv => OneSchedule
  BY DEF RetryInv
<1>. QED BY <1>1, RetryInvHolds, PTL

-----------------------------------------------------------------------------
(* Holds, when only measurements make them. *)

\* Every thread that is not idle is a measurement, of the connection its chat runs on, and
\* no connection is deleted.
MeasuresOnly ==
    /\ configured = Connection
    /\ \A t \in Thread :
          phase[t] # "idle" => /\ t[2] = "measure" /\ phase[t] # "failed"
                              /\ dialled[t] = connectionOf[t[1]]

\* HeldIsWatched is inductive with MeasuresOnly: the probe a hold asks for is of the
\* connection whose release ends the hold.
HeldInv == TypeOK /\ MeasuresOnly /\ HeldIsWatched

\* A step of a thread is one of a measurement.
LEMMA OnlyMeasures ==
    ASSUME HeldInv, NEW s \in Session, NEW t \in Thread, t = <<s, "measure">>,
           Dial(t) \/ Request(t)
    PROVE  TypeOK' => HeldInv'
<1>1. /\ t[1] = s /\ t[2] = "measure" /\ configured' = configured
      /\ connectionOf' = connectionOf /\ at' = at /\ on' = on
  BY DEF Dial, Request, Answers, Gives, BeginFallback, HoldModel, ScheduleProbe, RaiseAlarm, Finish
<1>2. SUFFICES ASSUME TypeOK' PROVE MeasuresOnly' /\ HeldIsWatched'
  BY DEF HeldInv
<1>3. CASE Dial(t)
  BY <1>1, <1>3 DEF Dial, Moves, HeldInv, TypeOK, MeasuresOnly, HeldIsWatched, Watched
<1>4. CASE Answers(t) \/ Gives(t)
  BY <1>1, <1>4 DEF Answers, Gives, Moves, HeldInv, TypeOK, MeasuresOnly, HeldIsWatched, Watched
<1>5. CASE BeginFallback(t) \/ Finish(t)
  BY <1>1, <1>5 DEF BeginFallback, CanFallBack, Finish, Moves, HeldInv, TypeOK, MeasuresOnly
<1>6. CASE HoldModel(t)
  <2>1. MeasuresOnly'
    BY <1>1, <1>6 DEF HoldModel, Moves, HeldInv, TypeOK, MeasuresOnly
  <2>2. Watched(s)'
    BY <1>1, <1>6 DEF HoldModel, Moves, HeldInv, TypeOK, Watched
  <2>3. ASSUME NEW u \in unreachable PROVE Watched(u)'
    BY <1>1, <1>6, <2>3 DEF HoldModel, Moves, HeldInv, TypeOK, HeldIsWatched, Watched
  <2> QED
    BY <1>1, <1>6, <2>1, <2>2, <2>3 DEF HoldModel, HeldIsWatched
<1>7. CASE ScheduleProbe(t)
  <2>1. /\ phase[t] = "held" /\ phase' = [phase EXCEPT ![t] = "scheduled"]
        /\ dialled' = dialled /\ unreachable' = unreachable /\ Schedule(dialled[t])
    BY <1>7 DEF ScheduleProbe, Moves
  <2>2. dialled[t] = connectionOf[s] /\ dialled[t] \in Connection
    BY <1>1, <2>1 DEF HeldInv, MeasuresOnly, TypeOK
  <2>3. /\ retry'[dialled[t]] # NoState
        /\ \A c \in Connection : retry[c] # NoState => retry'[c] # NoState
    BY <2>1, <2>2, StateAssumption DEF Schedule, HeldInv, TypeOK
  <2>4. MeasuresOnly'
    BY <1>1, <2>1 DEF HeldInv, TypeOK, MeasuresOnly
  <2>5. ASSUME NEW u \in unreachable PROVE Watched(u)'
    <3>1. CASE u = s
      BY <1>1, <2>2, <2>3, <3>1 DEF Watched
    <3>2. CASE u # s
      BY <1>1, <2>1, <2>3, <2>5, <3>2 DEF HeldInv, TypeOK, HeldIsWatched, Watched
    <3> QED
      BY <3>1, <3>2
  <2> QED
    BY <2>1, <2>4, <2>5 DEF HeldIsWatched
<1>8. CASE RaiseAlarm(t)
  <2>1. /\ phase[t] = "scheduled" /\ phase' = [phase EXCEPT ![t] = "idle"]
        /\ dialled' = dialled /\ unreachable' = unreachable /\ retry' = retry
    BY <1>1, <1>8 DEF RaiseAlarm, Moves
  <2>2. MeasuresOnly'
    BY <1>1, <2>1 DEF HeldInv, TypeOK, MeasuresOnly
  <2>3. ASSUME NEW u \in unreachable PROVE Watched(u)'
    BY <1>1, <2>1, <2>3 DEF HeldInv, TypeOK, HeldIsWatched, Watched
  <2> QED
    BY <2>1, <2>2, <2>3 DEF HeldIsWatched
<1> QED
  BY <1>3, <1>4, <1>5, <1>6, <1>7, <1>8 DEF Request

\* A retry is forgotten only where a release begins.
LEMMA ForgottenIsReleased ==
    ASSUME HeldInv, NEW c \in Connection, NEW p \in Probe, Forget(c), at[p] # "release",
           at' = [at EXCEPT ![p] = "release"], on' = [on EXCEPT ![p] = c],
           UNCHANGED <<configured, connectionOf, phase, dialled, unreachable>>
    PROVE  MeasuresOnly' /\ HeldIsWatched'
<1>1. MeasuresOnly'
  BY DEF HeldInv, MeasuresOnly
<1>2. ASSUME NEW s \in unreachable PROVE Watched(s)'
  <2>1. CASE connectionOf[s] = c
    BY <2>1 DEF HeldInv, TypeOK, Watched
  <2>2. CASE connectionOf[s] # c
    BY <1>2, <2>2 DEF Forget, HeldInv, TypeOK, HeldIsWatched, Watched
  <2> QED
    BY <2>1, <2>2
<1> QED
  BY <1>1, <1>2 DEF HeldIsWatched

\* The steps of the timers, the probes, the tests and the servers.
LEMMA ProbesRelease ==
    ASSUME HeldInv, Probing \/ Testing \/ Servers \/ UNCHANGED vars
    PROVE  MeasuresOnly' /\ HeldIsWatched'
<1>1. ASSUME NEW g \in State, Fire(g) PROVE MeasuresOnly' /\ HeldIsWatched'
  BY <1>1 DEF Fire, HeldInv, MeasuresOnly, HeldIsWatched, Watched
<1>2. ASSUME NEW g \in State, NEW p \in Probe, Callback(g, p) PROVE MeasuresOnly' /\ HeldIsWatched'
  BY <1>2 DEF Callback, HeldInv, TypeOK, MeasuresOnly, HeldIsWatched, Watched
<1>3. ASSUME NEW p \in Probe, LookUp(p) \/ Check(p) PROVE MeasuresOnly' /\ HeldIsWatched'
  BY <1>3 DEF LookUp, Check, HeldInv, TypeOK, MeasuresOnly, HeldIsWatched, Watched
<1>4. ASSUME NEW p \in Probe, ReadLamp(p) PROVE MeasuresOnly' /\ HeldIsWatched'
  <2>1. CASE lamp[on[p]] # "alarm"
    <3>1. on' = [on EXCEPT ![p] = on[p]] /\ on[p] \in Connection
      BY <1>4 DEF ReadLamp, HeldInv, TypeOK
    <3> QED
      BY <1>4, <2>1, <3>1, ForgottenIsReleased DEF ReadLamp
  <2>2. CASE lamp[on[p]] = "alarm"
    BY <1>4, <2>2 DEF ReadLamp, Retry, HeldInv, TypeOK, MeasuresOnly, HeldIsWatched, Watched
  <2> QED
    BY <2>1, <2>2
<1>5. ASSUME NEW p \in Probe, ReleaseModel(p) PROVE MeasuresOnly' /\ HeldIsWatched'
  BY <1>5 DEF ReleaseModel, HeldInv, TypeOK, MeasuresOnly, HeldIsWatched, Watched
<1>6. ASSUME NEW c \in Connection, NEW p \in Probe, TestConnection(c, p)
      PROVE  MeasuresOnly' /\ HeldIsWatched'
  BY <1>6, ForgottenIsReleased DEF TestConnection
<1>7. CASE Servers \/ (\E c \in Connection : HealthCheck(c)) \/ UNCHANGED vars
  BY <1>7 DEF Servers, Toggle, HealthCheck, vars, HeldInv, MeasuresOnly, HeldIsWatched, Watched
<1> QED
  BY <1>1, <1>2, <1>3, <1>4, <1>5, <1>6, <1>7 DEF Probing, CallbackStep, ProbeStep, Testing

\* While only budget measurements find a model unreachable, every held chat has a
\* recovery event to wait for: the failed measurement is about to ask for the probe, its
\* connection is retried, or a release of it is under way (HoldModel,
\* scheduleReachabilityProbe, completeReachabilityProbe, ReleaseModel).  Runs, whose end
\* holds the chat again, and re-routed chats break it.
THEOREM HeldChatsAreWatched == MeasureSpec => []HeldIsWatched
<1>1. Init => RetryInv /\ HeldInv
  <2>1. Init => MeasuresOnly /\ HeldIsWatched
    BY DEF Init, MeasuresOnly, HeldIsWatched
  <2> QED
    BY <2>1, InitRetry DEF RetryInv, HeldInv
<1>2. RetryInv /\ HeldInv /\ [MeasureNext]_vars => (RetryInv /\ HeldInv)'
  <2>1. SUFFICES ASSUME RetryInv, HeldInv, [MeasureNext]_vars PROVE RetryInv' /\ HeldInv'
    OBVIOUS
  <2>2. [Next]_vars
    BY <2>1 DEF MeasureNext, Measuring, Next, Thread
  <2>3. RetryInv' /\ TypeOK'
    BY <2>1, <2>2, NextRetry DEF RetryInv
  <2>4. CASE Measuring
    <3>1. PICK s \in Session : Dial(<<s, "measure">>) \/ Request(<<s, "measure">>)
      BY <2>4 DEF Measuring
    <3>2. <<s, "measure">> \in Thread
      BY DEF Thread
    <3> QED
      BY <2>1, <2>3, <3>1, <3>2, OnlyMeasures
  <2>5. CASE Probing \/ Testing \/ Servers \/ UNCHANGED vars
    BY <2>1, <2>3, <2>5, ProbesRelease DEF HeldInv
  <2> QED
    BY <2>1, <2>3, <2>4, <2>5 DEF MeasureNext
<1>3. HeldInv => HeldIsWatched
  BY DEF HeldInv
<1> QED
  BY <1>1, <1>2, <1>3, PTL DEF MeasureSpec
=============================================================================
