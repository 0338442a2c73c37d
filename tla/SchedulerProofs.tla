-------------------------- MODULE SchedulerProofs --------------------------
(***************************************************************************)
(* What holds of Scheduler for every set of chats, connections and calls,  *)
(* every limit and every bound.                                            *)
(***************************************************************************)
EXTENDS Scheduler, FiniteSetTheorems, WellFoundedInduction, TLAPS

-----------------------------------------------------------------------------
(* Least and greatest ids. *)

\* The smallest message of a non-empty waiting list exists: Least picks one of it.
LEMMA LeastIn ==
    ASSUME NEW S \in SUBSET Nat, S # {}
    PROVE  Least(S) \in S /\ \A n \in S : Least(S) <= n
<1> DEFINE Less == {ss \in Nat \X Nat : ss[1] < ss[2]}
<1>1. PICK m \in S : \A n \in S : ~ (<<n, m>> \in Less)
  <2>1. IsWellFoundedOn(Less, Nat)
    BY NatLessThanWellFounded, Zenon DEF OpToRel
  <2> QED
    BY <2>1, WFMin, Zenon
<1>2. ASSUME NEW n \in S PROVE m <= n
  <2>1. n \in Nat /\ m \in Nat
    OBVIOUS
  <2>2. CASE n < m
    <3>1. <<n, m>> \in Less
      BY <2>1, <2>2
    <3> QED
      BY <3>1, <1>1
  <2> QED
    BY <2>1, <2>2
<1> QED
  BY <1>2 DEF Least

\* A non-empty set of bounded naturals has a greatest element: the last run of a
\* drain, the longest prefix of the list of waiters.
LEMMA GreatestExists ==
    ASSUME NEW N \in Nat, NEW S \in SUBSET (0..N), S # {}
    PROVE  \E m \in S : \A n \in S : n <= m
<1> DEFINE T == {t \in Nat : N - t \in S}
<1>1. \A n \in S : n \in Int /\ 0 <= n /\ n <= N
  OBVIOUS
<1>2. T # {}
  <2>1. PICK n \in S : TRUE
    OBVIOUS
  <2>2. N - n \in Nat /\ N - (N - n) = n
    BY <1>1
  <2> QED
    BY <2>2
<1>3. Least(T) \in T /\ \A u \in T : Least(T) <= u
  BY <1>2, LeastIn
<1>4. ASSUME NEW n \in S PROVE n <= N - Least(T)
  <2>1. N - n \in Nat /\ N - (N - n) = n
    BY <1>1
  <2>2. Least(T) <= N - n
    BY <1>3, <2>1
  <2> QED
    BY <1>1, <1>3, <2>2
<1> QED
  BY <1>3, <1>4
-----------------------------------------------------------------------------
(* The operators of admission and of the drain. *)

ActiveType == [Session -> Run \cup {NoRun}]

\* Started keeps the runs of the chats D says nothing about, and gives the others
\* one of their own runs in D.
LEMMA StartedFacts ==
    ASSUME NEW act \in ActiveType, NEW of, NEW D \in SUBSET Run
    PROVE  /\ Started(act, of, D) \in ActiveType
           /\ \A s \in Session :
                \/ Started(act, of, D)[s] = act[s] /\ \A r \in D : of[r] # s
                \/ Started(act, of, D)[s] \in D /\ of[Started(act, of, D)[s]] = s
<1> DEFINE mine(s) == {r \in D : of[r] = s}
           last(s) == CHOOSE r \in mine(s) : \A x \in mine(s) : x <= r
<1>1. ASSUME NEW s \in Session, mine(s) # {} PROVE last(s) \in mine(s)
  <2>1. mine(s) \in SUBSET (0..MaxRun) /\ MaxRun \in Nat
    <3>1. MaxRun \in Nat
      BY BoundAssumption
    <3>2. \A r \in Run : r \in 0..MaxRun
      BY <3>1 DEF Run
    <3>3. mine(s) \subseteq Run
      OBVIOUS
    <3> QED
      BY <3>1, <3>2, <3>3
  <2>2. \E m \in mine(s) : \A n \in mine(s) : n <= m
    BY <1>1, <2>1, GreatestExists
  <2> QED
    BY <2>2
<1>2. Started(act, of, D) = [s \in Session |-> IF mine(s) = {} THEN act[s] ELSE last(s)]
  BY DEF Started
<1>3. ASSUME NEW s \in Session
      PROVE  /\ Started(act, of, D)[s] \in Run \cup {NoRun}
             /\ \/ Started(act, of, D)[s] = act[s] /\ \A r \in D : of[r] # s
                \/ Started(act, of, D)[s] \in D /\ of[Started(act, of, D)[s]] = s
  <2>1. CASE mine(s) = {}
    <3>1. Started(act, of, D)[s] = act[s]
      BY <1>2, <2>1
    <3> QED
      BY <3>1, <2>1 DEF ActiveType
  <2>2. CASE mine(s) # {}
    <3>1. Started(act, of, D)[s] = last(s)
      BY <1>2, <2>2
    <3>2. last(s) \in D /\ of[last(s)] = s
      BY <1>1, <2>2
    <3> HIDE DEF last
    <3> QED
      BY <3>1, <3>2
  <2> QED
    BY <2>1, <2>2
<1>4. Started(act, of, D) = [s \in Session |-> Started(act, of, D)[s]]
  BY <1>2
<1> HIDE DEF mine, last
<1> QED
  BY <1>3, <1>4 DEF ActiveType

\* What a drain may change: it takes waiters from the list and runs from the queue,
\* and the runs it takes are launched and become the runs of their chats.
Drained(act, pau, res, q, of) ==
    /\ active' \in ActiveType
    /\ queue' \subseteq q
    /\ paused' \subseteq pau
    /\ resuming' \subseteq res
    /\ ready' = ready \cup (res \ resuming') /\ ready' \subseteq Waiter
    /\ launched' = launched \cup (q \ queue') /\ launched' \subseteq Run
    /\ \A s \in Session : \/ active'[s] = act[s]
                          \/ active'[s] \in q \ queue' /\ of[active'[s]] = s

\* The arguments a caller of drainLocked passes.
DrainArgs(act, pau, res, q) ==
    act \in ActiveType /\ pau \subseteq Session /\ res \subseteq Waiter /\ q \subseteq Run

\* A drain changes nothing else.
LEMMA DrainFacts ==
    ASSUME NEW act, NEW pau, NEW res, NEW q, NEW ah, NEW of, TypeOK,
           DrainArgs(act, pau, res, q), Drain(act, pau, res, ah, q, of)
    PROVE  Drained(act, pau, res, q, of)
<1>0. act \in ActiveType /\ pau \subseteq Session /\ res \subseteq Waiter /\ q \subseteq Run
  BY DEF DrainArgs
<1>1. PICK W \in SUBSET res, D \in SUBSET q :
         /\ resuming' = res \ W
         /\ ready' = ready \cup W
         /\ paused' = pau \ ChatsOf(of, W)
         /\ queue' = q \ D
         /\ launched' = launched \cup D
         /\ active' = Started(act, of, D)
  BY DEF Drain
<1>2. D = q \ queue' /\ W = res \ resuming'
  BY <1>1
<1>3. /\ active' \in ActiveType
      /\ \A s \in Session : \/ active'[s] = act[s]
                            \/ active'[s] \in D /\ of[active'[s]] = s
  <2>1. D \in SUBSET Run
    BY <1>0
  <2> QED
    BY <1>0, <1>1, <2>1, StartedFacts
<1>4. ready \subseteq Waiter /\ launched \subseteq Run
  BY DEF TypeOK
<1> QED
  BY <1>0, <1>1, <1>2, <1>3, <1>4 DEF Drained

\* The statuses of a drained scheduler are statuses.
LEMMA StatusType ==
    ASSUME NEW st \in [Session -> Status], NEW of
    PROVE  StatusAfterDrain(st, of) \in [Session -> Status]
BY DEF StatusAfterDrain, Status

-----------------------------------------------------------------------------
(* Types, and what the scheduler knows of its runs. *)

BaseInv == TypeOK /\ RunsKnown

\* Ids stay within their bounds.
LEMMA IdFacts ==
    /\ \A n \in 0..MaxMessage : n < MaxMessage => n + 1 \in Message /\ n + 1 \in 0..MaxMessage
    /\ \A n \in 0..MaxRun : n < MaxRun => n + 1 \in Run /\ n + 1 \in 0..MaxRun
    /\ \A r \in Run : r \in Nat /\ r # NoRun
    /\ NoRun \notin Run
    /\ \A n \in 0..MaxRun : n \in Nat /\ ~ (n + 1 <= n)
BY BoundAssumption DEF Message, Run, NoRun

\* A waiter is a call of a run.
LEMMA WaiterFacts ==
    \A w \in Waiter : w[1] \in Run /\ w[2] \in Call /\ w = <<w[1], w[2]>>
BY DEF Waiter

\* The phases of a run that do not end it.
LEMMA RunStepBase ==
    ASSUME BaseInv, NEW r \in Run,
           BoundaryStops(r) \/ CheckContext(r) \/ TakeQueuedAtBoundary(r) \/ TurnAgain(r) \/ TurnEndsRun(r) \/ HoldInRun(r) \/ ReturnActiveMessage(r) \/ EndTurn(r) \/ WallClock(r) \/ StopReturns(r)
    PROVE  BaseInv'
<1>1. CASE BoundaryStops(r)
  BY <1>1, IdFacts DEF BoundaryStops, Moves, UnchangedButPc, BaseInv, TypeOK, RunsKnown, Phase, CallState, Decision, Status, schedulerVars, runVars, gateVars, sessionVars
<1>2. CASE CheckContext(r)
  BY <1>2, IdFacts DEF CheckContext, Moves, UnchangedButPc, BaseInv, TypeOK, RunsKnown, Phase, CallState, Decision, Status, schedulerVars, runVars, gateVars, sessionVars
<1>3. CASE TakeQueuedAtBoundary(r)
  BY <1>3, IdFacts DEF TakeQueuedAtBoundary, Moves, UnchangedButPc, Takes, Current, BaseInv, TypeOK, RunsKnown, Phase, CallState, Decision, Status, schedulerVars, runVars, gateVars, sessionVars
<1>4. CASE TurnAgain(r)
  BY <1>4, IdFacts DEF TurnAgain, Moves, UnchangedButPc, BaseInv, TypeOK, RunsKnown, Phase, CallState, Decision, Status, schedulerVars, runVars, gateVars, sessionVars
<1>5. CASE TurnEndsRun(r)
  BY <1>5, IdFacts DEF TurnEndsRun, Moves, UnchangedButPc, BaseInv, TypeOK, RunsKnown, Phase, CallState, Decision, Status, schedulerVars, runVars, gateVars, sessionVars
<1>6. CASE HoldInRun(r)
  BY <1>6, IdFacts DEF HoldInRun, Moves, UnchangedButPc, BaseInv, TypeOK, RunsKnown, Phase, CallState, Decision, Status, schedulerVars, runVars, gateVars, sessionVars
<1>7. CASE ReturnActiveMessage(r)
  BY <1>7, IdFacts DEF ReturnActiveMessage, Moves, UnchangedButPc, BaseInv, TypeOK, RunsKnown, Phase, CallState, Decision, Status, schedulerVars, runVars, gateVars, sessionVars
<1>8. CASE EndTurn(r)
  BY <1>8, IdFacts, WaiterFacts DEF EndTurn, Moves, UnchangedButPc, BaseInv, TypeOK, RunsKnown, Phase, CallState, Decision, Status, schedulerVars, runVars, gateVars, sessionVars
<1>9. CASE WallClock(r)
  BY <1>9, IdFacts DEF WallClock, BaseInv, TypeOK, RunsKnown, Phase, CallState, Decision, Status, schedulerVars, runVars, gateVars, sessionVars
<1>10. CASE StopReturns(r)
  BY <1>10, IdFacts DEF StopReturns, BaseInv, TypeOK, RunsKnown, Phase, CallState, Decision, Status, schedulerVars, runVars, gateVars, sessionVars
<1> QED
  BY <1>1, <1>2, <1>3, <1>4, <1>5, <1>6, <1>7, <1>8, <1>9, <1>10

\* The steps of a tool call that hand on no slot.
LEMMA CallStepBase ==
    ASSUME BaseInv, NEW w \in Waiter,
           FinishCall(w) \/ BeginWait(w) \/ Dismiss(w) \/ Resume(w) \/ ResumeCancelled(w) \/ EndWait(w)
    PROVE  BaseInv'
<1>1. CASE FinishCall(w)
  BY <1>1, IdFacts DEF FinishCall, BaseInv, TypeOK, RunsKnown, Phase, CallState, Decision, Status, schedulerVars, runVars, gateVars, sessionVars
<1>2. CASE BeginWait(w)
  BY <1>2, IdFacts DEF BeginWait, Supersede, BaseInv, TypeOK, RunsKnown, Phase, CallState, Decision, Status, schedulerVars, runVars, gateVars, sessionVars
<1>3. CASE Dismiss(w)
  BY <1>3, IdFacts DEF Dismiss, Uncard, BaseInv, TypeOK, RunsKnown, Phase, CallState, Decision, Status, schedulerVars, runVars, gateVars, sessionVars
<1>4. CASE Resume(w)
  BY <1>4, IdFacts DEF Resume, BaseInv, TypeOK, RunsKnown, Phase, CallState, Decision, Status, schedulerVars, runVars, gateVars, sessionVars
<1>5. CASE ResumeCancelled(w)
  BY <1>5, IdFacts DEF ResumeCancelled, Uncard, LeaveList, BaseInv, TypeOK, RunsKnown, Phase, CallState, Decision, Status, schedulerVars, runVars, gateVars, sessionVars
<1>6. CASE EndWait(w)
  BY <1>6, SMTT(30) DEF EndWait, Uncard, LeaveList, BaseInv, TypeOK, RunsKnown, Phase, CallState, Decision, Status, schedulerVars, runVars, gateVars, sessionVars
<1> QED
  BY <1>1, <1>2, <1>3, <1>4, <1>5, <1>6

\* Submissions, holds and the operations on a chat.
LEMMA ChatStepBase ==
    ASSUME BaseInv, NEW s \in Session,
           SubmitHeld(s) \/ SubmitBehind(s) \/ SubmitStart(s) \/ SubmitQueue(s) \/ HoldModel(s) \/ Close(s) \/ Reopen(s) \/ Reset(s) \/ DropLastMessage(s) \/ Decide(s) \/ SubmitRefused(s)
    PROVE  BaseInv'
<1>1. CASE SubmitHeld(s)
  BY <1>1, IdFacts DEF SubmitHeld, Post, BaseInv, TypeOK, RunsKnown, Phase, CallState, Decision, Status, schedulerVars, runVars, gateVars, sessionVars
<1>2. CASE SubmitBehind(s)
  BY <1>2, IdFacts DEF SubmitBehind, Post, BaseInv, TypeOK, RunsKnown, Phase, CallState, Decision, Status, schedulerVars, runVars, gateVars, sessionVars
<1>3. CASE SubmitStart(s)
  BY <1>3, IdFacts DEF SubmitStart, Post, NewRun, BaseInv, TypeOK, RunsKnown, Phase, CallState, Decision, Status, schedulerVars, runVars, gateVars, sessionVars
<1>4. CASE SubmitQueue(s)
  BY <1>4, IdFacts DEF SubmitQueue, Post, NewRun, BaseInv, TypeOK, RunsKnown, Phase, CallState, Decision, Status, schedulerVars, runVars, gateVars, sessionVars
<1>5. CASE HoldModel(s)
  BY <1>5, IdFacts DEF HoldModel, BaseInv, TypeOK, RunsKnown, Phase, CallState, Decision, Status, schedulerVars, runVars, gateVars, sessionVars
<1>6. CASE Close(s)
  BY <1>6, IdFacts DEF Close, BaseInv, TypeOK, RunsKnown, Phase, CallState, Decision, Status, schedulerVars, runVars, gateVars, sessionVars
<1>7. CASE Reopen(s)
  BY <1>7, IdFacts DEF Reopen, BaseInv, TypeOK, RunsKnown, Phase, CallState, Decision, Status, schedulerVars, runVars, gateVars, sessionVars
<1>8. CASE Reset(s)
  BY <1>8, IdFacts DEF Reset, BaseInv, TypeOK, RunsKnown, Phase, CallState, Decision, Status, schedulerVars, runVars, gateVars, sessionVars
<1>9. CASE DropLastMessage(s)
  BY <1>9, IdFacts DEF DropLastMessage, BaseInv, TypeOK, RunsKnown, Phase, CallState, Decision, Status, schedulerVars, runVars, gateVars, sessionVars
<1>10. CASE Decide(s)
  BY <1>10, IdFacts DEF Decide, BaseInv, TypeOK, RunsKnown, Phase, CallState, Decision, Status, schedulerVars, runVars, gateVars, sessionVars
<1>11. CASE SubmitRefused(s)
  BY <1>11, IdFacts DEF SubmitRefused, BaseInv, TypeOK, RunsKnown, runVars, gateVars
<1> QED
  BY <1>1, <1>2, <1>3, <1>4, <1>5, <1>6, <1>7, <1>8, <1>9, <1>10, <1>11

\* The model asks for tool calls.
LEMMA AnswerToolsBase ==
    ASSUME BaseInv, NEW r \in Run, NEW C \in SUBSET Call, AnswerTools(r, C)
    PROVE  BaseInv'
BY WaiterFacts, SMTT(20) DEF AnswerTools, Moves, BaseInv, TypeOK, RunsKnown, Phase, CallState,
   schedulerVars, runVars, gateVars, sessionVars

\* Stopping cancels active runs and ends queued ones.
LEMMA StopBase ==
    ASSUME BaseInv, NEW target \in SUBSET Session, NEW all \in BOOLEAN, Stop(target, all)
    PROVE  BaseInv'
<1>1. TypeOK'
  <2>1. {active[s] : s \in {t \in target : active[t] # NoRun}} \subseteq Run
    BY DEF BaseInv, TypeOK
  <2> QED
    BY <2>1 DEF Stop, BaseInv, TypeOK, Status, gateVars
<1>2. RunsKnown'
  BY DEF Stop, BaseInv, TypeOK, RunsKnown, gateVars
<1> QED
  BY <1>1, <1>2 DEF BaseInv

\* A release gives every chat it releases a run id of its own.
LEMMA ReleasedFacts ==
    ASSUME BaseInv, NEW k \in Connection, ids + Cardinality(Released(k)) <= MaxRun
    PROVE  /\ Released(k) \subseteq Session
           /\ Cardinality(Released(k)) \in Nat
           /\ Fresh(k) \subseteq Run
           /\ \A r \in Fresh(k) : r \in Nat /\ r > ids /\ r <= ids + Cardinality(Released(k))
<1>1. Released(k) \subseteq Session
  BY DEF Released, OnConnection, BaseInv, TypeOK
<1>2. Cardinality(Released(k)) \in Nat
  BY <1>1, ConnectionAssumption, FS_Subset, FS_CardinalityType
<1>3. ids \in Nat
  BY BoundAssumption DEF BaseInv, TypeOK
<1>4. ASSUME NEW r \in Fresh(k)
      PROVE  r \in Run /\ r \in Nat /\ r > ids /\ r <= ids + Cardinality(Released(k))
  <2>1. r \in Int /\ ids + 1 <= r /\ r <= ids + Cardinality(Released(k))
    BY <1>2, <1>3 DEF Fresh
  <2> QED
    BY <2>1, <1>2, <1>3, BoundAssumption DEF Run
<1> QED
  BY <1>1, <1>2, <1>4

\* Released chats get runs with fresh ids.
LEMMA ReleaseModelBase ==
    ASSUME BaseInv, NEW k \in Connection, ReleaseModel(k)
    PROVE  BaseInv'
<1> DEFINE chats == Released(k)
           fresh == Fresh(k)
<1>1. /\ ids + Cardinality(chats) <= MaxRun
      /\ unreachable' = unreachable \ OnConnection(unreachable, k)
      /\ ids' = ids + Cardinality(chats)
      /\ pending' = [s \in Session |-> IF s \in chats THEN {} ELSE pending[s]]
      /\ UNCHANGED <<paused, resuming, ahead, ready, stoppedRuns, stopReason, stopWait, cancelled,
                     pc, answered, gateVars, closed, transcript, posted>>
  BY DEF ReleaseModel
<1>2. PICK run \in [chats -> fresh], now \in SUBSET chats : StartReleased(k, run, now)
  BY DEF ReleaseModel
<1> DEFINE owner == [r \in fresh |-> CHOOSE s \in chats : run[s] = r]
<1>3. /\ \A s, t \in chats : s # t => run[s] # run[t]
      /\ \A r \in fresh : \E s \in chats : run[s] = r
      /\ active' = [s \in Session |-> IF s \in now THEN run[s] ELSE active[s]]
      /\ launched' = launched \cup {run[s] : s \in now}
      /\ queue' = queue \cup {run[s] : s \in chats \ now}
      /\ status' = [s \in Session |-> IF s \in now THEN "running"
                                      ELSE IF s \in chats THEN "queued" ELSE status[s]]
      /\ runSession' = [r \in Run |-> IF r \in fresh THEN owner[r] ELSE runSession[r]]
      /\ userMessage' = [r \in Run |-> IF r \in fresh THEN Least(pending[owner[r]])
                                       ELSE userMessage[r]]
  BY <1>2, Zenon DEF StartReleased
<1>4. /\ chats \subseteq Session
      /\ Cardinality(chats) \in Nat
      /\ fresh \subseteq Run
      /\ \A r \in fresh : r \in Nat /\ r > ids /\ r <= ids + Cardinality(chats)
  BY <1>1, ReleasedFacts
<1>5. ASSUME NEW r \in fresh PROVE owner[r] \in chats /\ run[owner[r]] = r
  <2>1. \E s \in chats : run[s] = r
    BY <1>3
  <2> HIDE DEF chats, fresh
  <2> QED
    BY <2>1
<1>6. ASSUME NEW s \in chats PROVE owner[run[s]] = s
  <2>1. run[s] \in fresh
    BY <1>2
  <2>2. owner[run[s]] \in chats /\ run[owner[run[s]]] = run[s]
    BY <2>1, <1>5
  <2> HIDE DEF owner, chats, fresh
  <2> QED
    BY <2>2, <1>3
<1>7. \A s \in chats : Least(pending[s]) \in Message
  <2>1. \A s \in chats : pending[s] \in SUBSET Message /\ pending[s] # {}
    BY <1>4 DEF BaseInv, TypeOK, Released
  <2>2. Message \subseteq Nat
    BY BoundAssumption DEF Message
  <2> QED
    BY <2>1, <2>2, LeastIn
<1>8. pc' = pc /\ call' = call
  BY <1>1 DEF gateVars
<1>9. \A s \in chats : run[s] \in fresh
  BY <1>2
<1>10. ids' \in 0..MaxRun /\ ids <= ids'
  BY <1>1, <1>4, BoundAssumption DEF BaseInv, TypeOK
<1> HIDE DEF chats, fresh, owner
<1>11. TypeOK'
  BY <1>1, <1>3, <1>4, <1>5, <1>7, <1>8, <1>9, <1>10 DEF BaseInv, TypeOK, Status, gateVars
<1>12. RunsKnown'
  <2>1. ASSUME NEW r \in queue' \cup launched'
        PROVE  r <= ids' /\ runSession'[r] \in Session
    <3>1. r \in queue \cup launched \/ r \in fresh
      BY <1>3, <1>9
    <3>2. CASE r \in fresh
      BY <3>2, <1>1, <1>3, <1>4, <1>5
    <3>3. CASE r \in queue \cup launched /\ r \notin fresh
      <4>1. r <= ids /\ runSession[r] \in Session /\ r \in Run
        BY <3>3 DEF BaseInv, RunsKnown, TypeOK
      <4>2. r \in Int /\ ids \in Int /\ ids' \in Int
        BY <4>1, <1>10, BoundAssumption DEF BaseInv, TypeOK, Run
      <4> QED
        BY <4>1, <4>2, <3>3, <1>3, <1>10
    <3> QED
      BY <3>1, <3>2, <3>3
  <2>2. \A s \in Session : active'[s] # NoRun => active'[s] \in launched'
                                                 /\ runSession'[active'[s]] = s
    <3>1. ASSUME NEW s \in Session, s \in now
          PROVE  active'[s] \in launched' /\ runSession'[active'[s]] = s
      BY <3>1, <1>3, <1>4, <1>6, <1>9
    <3>2. ASSUME NEW s \in Session, s \notin now, active[s] # NoRun
          PROVE  active'[s] = active[s] /\ active[s] \in launched'
                 /\ runSession'[active[s]] = s
      <4>1. active[s] \in launched /\ active[s] <= ids /\ runSession[active[s]] = s
            /\ active[s] \in Run
        BY <3>2 DEF BaseInv, RunsKnown, TypeOK
      <4>2. active[s] \notin fresh
        BY <4>1, <1>4, IdFacts DEF BaseInv, TypeOK
      <4> QED
        BY <3>2, <4>1, <4>2, <1>3
    <3> QED
      BY <3>1, <3>2, <1>3
  <2>3. \A w \in Waiter : call'[w] # "idle" => w[1] \in launched' /\ pc'[w[1]] = "tools"
    BY <1>3, <1>8 DEF BaseInv, RunsKnown, gateVars
  <2> QED
    BY <2>1, <2>2, <2>3, <1>1, <1>3, <1>8 DEF BaseInv, RunsKnown
<1> QED
  BY <1>11, <1>12 DEF BaseInv

\* A drain whose caller passes known runs leaves known runs.
LEMMA DrainKnown ==
    ASSUME NEW act, NEW pau, NEW res, NEW q, NEW of, Drained(act, pau, res, q, of),
           \A s \in Session : act[s] # NoRun => act[s] \in launched /\ of[act[s]] = s,
           \A r \in q \cup launched : of[r] \in Session
    PROVE  /\ \A r \in queue' \cup launched' : of[r] \in Session /\ r \in q \cup launched
           /\ \A s \in Session : active'[s] # NoRun => active'[s] \in launched'
                                                      /\ of[active'[s]] = s
           /\ launched \subseteq launched'
BY DEF Drained

\* A call pauses on a card: the slot of its run is handed on.
LEMMA ReleaseForCardBase ==
    ASSUME BaseInv, NEW w \in Waiter, ReleaseForCard(w)
    PROVE  BaseInv'
<1> DEFINE s == runSession[w[1]]
<1>1. w[1] \in launched /\ s \in Session /\ call' = [call EXCEPT ![w] = "waiting"]
      /\ w \notin resuming /\ w \notin ready /\ pc[w[1]] = "tools"
  BY DEF ReleaseForCard, BaseInv, TypeOK, RunsKnown
<1>2. CASE ~ (w[1] \notin cancelled /\ Current(w[1]) /\ s \notin paused)
  BY <1>1, <1>2 DEF ReleaseForCard, BaseInv, TypeOK, RunsKnown, CallState
<1>3. CASE w[1] \notin cancelled /\ Current(w[1]) /\ s \notin paused
  <2>1. /\ Drain(active, paused \cup {s}, resuming, ahead, queue, runSession)
        /\ status' = StatusAfterDrain(status, runSession)
        /\ UNCHANGED <<pending, unreachable, ahead, stoppedRuns, ids, runSession, userMessage,
                       stopReason, stopWait, cancelled, pc, answered, card, decision, closed,
                       transcript, posted>>
    BY <1>3 DEF ReleaseForCard
  <2>2. DrainArgs(active, paused \cup {s}, resuming, queue) /\ status \in [Session -> Status]
        /\ TypeOK
    BY <1>1 DEF BaseInv, TypeOK, ActiveType, DrainArgs
  <2>3. Drained(active, paused \cup {s}, resuming, queue, runSession)
    BY <2>1, <2>2, DrainFacts
  <2>4. /\ \A r \in queue' \cup launched' : runSession[r] \in Session /\ r \in queue \cup launched
        /\ \A t \in Session : active'[t] # NoRun => active'[t] \in launched'
                                                   /\ runSession[active'[t]] = t
        /\ launched \subseteq launched'
    BY <2>3, DrainKnown DEF BaseInv, RunsKnown
  <2>5. status' \in [Session -> Status]
    BY <2>1, <2>2, StatusType
  <2>6. TypeOK'
    BY <2>1, <2>3, <2>5, <1>1 DEF Drained, BaseInv, TypeOK, ActiveType, CallState
  <2>7. RunsKnown'
    BY <2>1, <2>3, <2>4, <1>1 DEF Drained, BaseInv, TypeOK, RunsKnown
  <2> QED
    BY <2>6, <2>7 DEF BaseInv
<1> QED
  BY <1>2, <1>3

\* An answered call takes a slot back, or waits for one.
LEMMA ReacquireBase ==
    ASSUME BaseInv, NEW w \in Waiter, Reacquire(w)
    PROVE  BaseInv'
<1> DEFINE s == runSession[w[1]]
           behind == [ahead EXCEPT ![w] = resuming]
<1>1. /\ w[1] \in launched /\ s \in Session /\ pc[w[1]] = "tools"
      /\ call[w] = "waiting" /\ w \notin resuming /\ w \notin ready
  BY DEF Reacquire, BaseInv, TypeOK, RunsKnown
<1>2. CASE ~ Current(w[1]) \/ s \notin paused
  BY <1>1, <1>2 DEF Reacquire, BaseInv, TypeOK, RunsKnown, CallState
<1>3. CASE /\ Current(w[1]) /\ s \in paused
           /\ resuming = {} /\ Admits(Using(active, paused), s)
  BY <1>1, <1>3 DEF Reacquire, BaseInv, TypeOK, RunsKnown, CallState
<1>4. CASE /\ Current(w[1]) /\ s \in paused
           /\ ~ (resuming = {} /\ Admits(Using(active, paused), s))
  <2>1. /\ Drain(active, paused, resuming \cup {w}, behind, queue, runSession)
        /\ ahead' = behind
        /\ IF w \in ready'
             THEN /\ call' = [call EXCEPT ![w] = "resumed"]
                  /\ status' = StatusAfterDrain(status, runSession)
             ELSE /\ call' = [call EXCEPT ![w] = "resuming"]
                  /\ status' = [StatusAfterDrain(status, runSession) EXCEPT ![s] = "queued"]
        /\ UNCHANGED <<pending, unreachable, stoppedRuns, ids, runSession, userMessage,
                       stopReason, stopWait, cancelled, pc, answered, card, decision, closed,
                       transcript, posted>>
    BY <1>4, Zenon DEF Reacquire
  <2>2. DrainArgs(active, paused, resuming \cup {w}, queue) /\ status \in [Session -> Status]
        /\ TypeOK
    BY DEF BaseInv, TypeOK, ActiveType, DrainArgs
  <2>3. Drained(active, paused, resuming \cup {w}, queue, runSession)
    BY <2>1, <2>2, DrainFacts
  <2>4. /\ \A r \in queue' \cup launched' : runSession[r] \in Session /\ r \in queue \cup launched
        /\ \A t \in Session : active'[t] # NoRun => active'[t] \in launched'
                                                   /\ runSession[active'[t]] = t
        /\ launched \subseteq launched'
    BY <2>3, DrainKnown DEF BaseInv, RunsKnown
  <2>5. status' \in [Session -> Status]
    <3>1. StatusAfterDrain(status, runSession) \in [Session -> Status]
      BY <2>2, StatusType
    <3> QED
      BY <3>1, <2>1 DEF Status
  <2>6. call' \in [Waiter -> CallState] /\ ahead' \in [Waiter -> SUBSET Waiter]
    BY <2>1 DEF BaseInv, TypeOK, CallState
  <2>7. TypeOK'
    BY <2>1, <2>3, <2>5, <2>6 DEF Drained, BaseInv, TypeOK, ActiveType
  <2>8. RunsKnown'
    <3>1. \A v \in resuming' : call'[v] = "resuming" /\ v \notin ready'
      BY <2>1, <2>3, <1>1 DEF Drained, BaseInv, TypeOK, RunsKnown
    <3>2. \A v \in ready' : call'[v] \in {"resuming", "resumed"}
      BY <2>1, <2>3, <1>1 DEF Drained, BaseInv, TypeOK, RunsKnown
    <3>3. \A v \in Waiter : call'[v] # "idle" => v[1] \in launched' /\ pc'[v[1]] = "tools"
      BY <2>1, <2>4, <1>1 DEF BaseInv, TypeOK, RunsKnown
    <3> QED
      BY <2>1, <2>4, <3>1, <3>2, <3>3 DEF BaseInv, RunsKnown
  <2> QED
    BY <2>7, <2>8 DEF BaseInv
<1> QED
  BY <1>2, <1>3, <1>4

\* What freeing a slot leaves behind, with q the queue and `of' the chats of the runs
\* by then.
SlotFreed(q, of) ==
    /\ active' \in ActiveType /\ queue' \subseteq Run /\ paused' \subseteq Session
    /\ resuming' \subseteq resuming /\ ready' \subseteq Waiter
    /\ ready' \subseteq ready \cup resuming /\ ready' \cap resuming' = {}
    /\ launched' \subseteq Run /\ launched \subseteq launched'
    /\ stoppedRuns' \subseteq Run /\ status' \in [Session -> Status]
    /\ ahead' = ahead
    /\ \A x \in queue' \cup launched' : of[x] \in Session /\ x \in q \cup launched
    /\ \A t \in Session : active'[t] # NoRun => active'[t] \in launched'
                                               /\ of[active'[t]] = t

\* A slot is freed for run r, the run of chat s.
LEMMA FreeSlotBase ==
    ASSUME BaseInv, NEW r \in Run, NEW s \in Session, NEW q \in SUBSET Run, NEW of,
           FreeSlot(r, s, q, of),
           \A t \in Session : active[t] # NoRun => of[active[t]] = t,
           \A x \in q \cup launched : of[x] \in Session
    PROVE  SlotFreed(q, of)
<1> DEFINE act == [active EXCEPT ![s] = NoRun]
           res == ForgetWaiter(resuming, s)
<1>1. /\ Drain(act, paused \ {s}, res, ahead, q, of)
      /\ stoppedRuns' = stoppedRuns \cup {r}
      /\ status' = StatusAfterDrain([status EXCEPT ![s] = "idle"], of)
      /\ ahead' = ahead
  BY DEF FreeSlot
<1>2. DrainArgs(act, paused \ {s}, res, q) /\ res \subseteq resuming /\ TypeOK
  BY DEF DrainArgs, ForgetWaiter, ActiveType, BaseInv, TypeOK
<1>3. \A t \in Session : act[t] # NoRun => act[t] \in launched /\ of[act[t]] = t
  BY DEF BaseInv, TypeOK, RunsKnown
<1>4. [status EXCEPT ![s] = "idle"] \in [Session -> Status]
  BY DEF BaseInv, TypeOK, Status
<1> HIDE DEF act, res
<1>5. Drained(act, paused \ {s}, res, q, of)
  BY <1>1, <1>2, DrainFacts
<1>6. /\ \A x \in queue' \cup launched' : of[x] \in Session /\ x \in q \cup launched
      /\ \A t \in Session : active'[t] # NoRun => active'[t] \in launched'
                                                 /\ of[active'[t]] = t
      /\ launched \subseteq launched'
  BY <1>3, <1>5, DrainKnown
<1>7. status' \in [Session -> Status]
  BY <1>1, <1>4, StatusType
<1>8. ready \cap resuming = {}
  BY DEF BaseInv, RunsKnown
<1> QED
  BY <1>1, <1>2, <1>5, <1>6, <1>7, <1>8 DEF SlotFreed, Drained, BaseInv, TypeOK

\* The end of a run: a late one changes nothing but its own records, the chat's run
\* frees its slot, and messages that waited behind it become a run with a fresh id.
LEMMA FinishBase ==
    ASSUME BaseInv, NEW r \in Run, Finish(r)
    PROVE  BaseInv'
<1> DEFINE s == runSession[r]
           held == IF pc[r] = "unreachable" /\ r \notin stopReason
                     THEN unreachable \cup {s} ELSE unreachable
<1>1. /\ r \in launched /\ s \in Session /\ pc[r] # "tools"
      /\ pc' = [pc EXCEPT ![r] = "ended"]
      /\ stopReason' = stopReason \ {r}
      /\ cancelled' = cancelled \ {r}
      /\ answered' = answered \ {r}
      /\ UNCHANGED <<stopWait, gateVars, closed, transcript, posted>>
  BY DEF Finish, BaseInv, RunsKnown
<1>2. call' = call /\ card' = card /\ decision' = decision /\ stopWait' = stopWait
  BY <1>1 DEF gateVars
<1>3. \A w \in Waiter : call'[w] # "idle" => w[1] \in launched /\ pc'[w[1]] = "tools"
  BY <1>1, <1>2, WaiterFacts DEF BaseInv, TypeOK, RunsKnown
<1>4. /\ pc' \in [Run -> Phase] /\ stopReason' \subseteq Run /\ cancelled' \subseteq Run
      /\ answered' \subseteq Run /\ stopWait' \subseteq Run
      /\ call' \in [Waiter -> CallState] /\ card' \in [Session -> Waiter \cup {NoCard}]
      /\ decision' \in [Waiter -> Decision] /\ closed' \subseteq Session
      /\ transcript' \in [Session -> SUBSET Message] /\ posted' \in 0..MaxMessage
  BY <1>1, <1>2 DEF BaseInv, TypeOK, Phase
<1>5. held \subseteq Session
  BY <1>1 DEF BaseInv, TypeOK
<1>6. CASE ~ Current(r)
  <2>1. UNCHANGED <<schedulerVars, runSession, userMessage, launched, status>>
    BY <1>6 DEF Finish
  <2> QED
    BY <2>1, <1>2, <1>3, <1>4 DEF BaseInv, TypeOK, RunsKnown, schedulerVars
<1>7. CASE Current(r) /\ ~ Continues(r, held)
  <2>1. /\ unreachable' = held
        /\ FreeSlot(r, s, queue, runSession)
        /\ UNCHANGED <<ids, runSession, userMessage, pending>>
    BY <1>7 DEF Finish
  <2>2. /\ queue \in SUBSET Run
        /\ \A t \in Session : active[t] # NoRun => runSession[active[t]] = t
        /\ \A x \in queue \cup launched : runSession[x] \in Session
    BY DEF BaseInv, TypeOK, RunsKnown
  <2> HIDE DEF held, s
  <2>3. SlotFreed(queue, runSession)
    BY <2>1, <2>2, <1>1, FreeSlotBase
  <2>4. TypeOK'
    BY <2>1, <2>3, <1>2, <1>4, <1>5 DEF SlotFreed, BaseInv, TypeOK, ActiveType
  <2>5. RunsKnown'
    BY <2>1, <2>3, <1>2, <1>3 DEF SlotFreed, BaseInv, TypeOK, RunsKnown
  <2> QED
    BY <2>4, <2>5 DEF BaseInv
<1>8. CASE Current(r) /\ Continues(r, held)
  <2>1. /\ unreachable' = held
        /\ ids < MaxRun
        /\ ids' = ids + 1
        /\ runSession' = [runSession EXCEPT ![ids'] = s]
        /\ userMessage' = [userMessage EXCEPT ![ids'] = Least(pending[s])]
        /\ pending' = [pending EXCEPT ![s] = {}]
        /\ FreeSlot(r, s, queue \cup {ids'}, runSession')
    BY <1>8 DEF Finish
  <2>2. ids' \in Run /\ ids' \in 0..MaxRun /\ ids <= ids'
    BY <2>1, IdFacts DEF BaseInv, TypeOK
  <2>3. Least(pending[s]) \in Message
    <3>1. pending[s] \in SUBSET Message /\ pending[s] # {}
      BY <1>1, <1>8 DEF BaseInv, TypeOK, Continues
    <3>2. Message \subseteq Nat
      BY BoundAssumption DEF Message
    <3> QED
      BY <3>1, <3>2, LeastIn
  <2>4. \A x \in queue \cup launched : x \in Run /\ x <= ids /\ x # ids'
    <3>1. \A x \in queue \cup launched : x \in Run /\ x <= ids
      BY DEF BaseInv, TypeOK, RunsKnown
    <3> QED
      BY <3>1, <2>1, IdFacts DEF BaseInv, TypeOK
  <2>5. /\ queue \cup {ids'} \in SUBSET Run
        /\ \A t \in Session : active[t] # NoRun => runSession'[active[t]] = t
        /\ \A x \in queue \cup {ids'} \cup launched : runSession'[x] \in Session
    BY <2>1, <2>2, <2>4, <1>1 DEF BaseInv, TypeOK, RunsKnown
  <2>6. /\ runSession' \in [Run -> Session \cup {NoSession}]
        /\ userMessage' \in [Run -> Message \cup {NoMessage}]
        /\ pending' \in [Session -> SUBSET Message]
    BY <2>1, <2>2, <2>3, <1>1 DEF BaseInv, TypeOK
  <2> HIDE DEF held, s
  <2>7. SlotFreed(queue \cup {ids'}, runSession')
    BY <2>1, <2>5, <1>1, FreeSlotBase, ZenonT(30)
  <2>8. TypeOK'
    BY <2>1, <2>2, <2>6, <2>7, <1>2, <1>4, <1>5 DEF SlotFreed, BaseInv, TypeOK, ActiveType
  <2>9. RunsKnown'
    <3>1. \A x \in queue' \cup launched' : x <= ids' /\ runSession'[x] \in Session
      <4>1. \A x \in queue \cup {ids'} \cup launched : x <= ids'
        BY <2>2, <2>4, BoundAssumption DEF BaseInv, TypeOK, Run
      <4> QED
        BY <4>1, <2>7 DEF SlotFreed
    <3> QED
      BY <3>1, <2>7, <1>2, <1>3 DEF SlotFreed, BaseInv, TypeOK, RunsKnown
  <2> QED
    BY <2>8, <2>9 DEF BaseInv
<1> QED
  BY <1>6, <1>7, <1>8

\* A forced finish.
LEMMA ForceFinishBase ==
    ASSUME BaseInv, NEW r \in Run, ForceFinish(r)
    PROVE  BaseInv'
<1> DEFINE s == runSession[r]
<1>1. /\ stopWait' \subseteq stopWait
      /\ UNCHANGED <<pending, unreachable, ids, runSession, userMessage, stopReason, cancelled,
                     pc, answered, gateVars, closed, transcript, posted>>
  BY DEF ForceFinish, BaseInv, TypeOK
<1>2. call' = call /\ card' = card /\ decision' = decision
  BY <1>1 DEF gateVars
<1>3. CASE ~ Current(r)
  <2>1. UNCHANGED <<active, queue, paused, resuming, ahead, ready, stoppedRuns, launched, status>>
    BY <1>3 DEF ForceFinish
  <2> QED
    BY <2>1, <1>1, <1>2 DEF BaseInv, TypeOK, RunsKnown
<1>4. CASE Current(r)
  <2>1. FreeSlot(r, s, queue, runSession)
    BY <1>4 DEF ForceFinish
  <2>2. /\ queue \in SUBSET Run
        /\ \A t \in Session : active[t] # NoRun => runSession[active[t]] = t
        /\ \A x \in queue \cup launched : runSession[x] \in Session
    BY DEF BaseInv, TypeOK, RunsKnown
  <2>3. s \in Session
    BY DEF ForceFinish, BaseInv, RunsKnown
  <2> HIDE DEF s
  <2>4. SlotFreed(queue, runSession)
    BY <2>1, <2>2, <2>3, FreeSlotBase
  <2>5. TypeOK'
    BY <2>4, <1>1, <1>2 DEF SlotFreed, BaseInv, TypeOK, ActiveType
  <2>6. RunsKnown'
    BY <2>4, <1>1, <1>2 DEF SlotFreed, BaseInv, TypeOK, RunsKnown
  <2> QED
    BY <2>5, <2>6 DEF BaseInv
<1> QED
  BY <1>3, <1>4

\* The initial state has no run, no waiter and no call.
LEMMA InitBase == Init => BaseInv
BY BoundAssumption DEF Init, BaseInv, TypeOK, RunsKnown, Phase, CallState, Decision, Status,
   NoRun, Message, Run

\* Every step keeps the types and what is known of the runs.
LEMMA NextBase ==
    ASSUME BaseInv, [Next]_vars
    PROVE  BaseInv'
<1>1. CASE UNCHANGED vars
  BY <1>1 DEF vars, schedulerVars, runVars, gateVars, sessionVars, BaseInv, TypeOK, RunsKnown
<1>2. ASSUME NEW s \in Session, Submission(s) \/ ChatOperation(s) \/ HoldModel(s) \/ Decide(s)
      PROVE  BaseInv'
  BY <1>2, ChatStepBase DEF Submission, ChatOperation
<1>3. CASE Stopping
  <2>1. CASE Stop(Session, TRUE)
    BY <2>1, StopBase
  <2>2. ASSUME NEW s \in Session, Stop({s}, FALSE) PROVE BaseInv'
    BY <2>2, StopBase
  <2> QED
    BY <1>3, <2>1, <2>2 DEF Stopping
<1>4. ASSUME NEW r \in Run, RunStep(r) \/ WallClock(r) \/ StopReturns(r) \/ ForceFinish(r)
      PROVE  BaseInv'
  BY <1>4, RunStepBase, AnswerToolsBase, FinishBase, ForceFinishBase DEF RunStep
<1>5. ASSUME NEW w \in Waiter, CallStep(w) PROVE BaseInv'
  BY <1>5, CallStepBase, ReleaseForCardBase, ReacquireBase DEF CallStep
<1>6. CASE Outage
  BY <1>6, <1>2, RunStepBase, ReleaseModelBase DEF Outage
<1> QED
  BY <1>1, <1>2, <1>3, <1>4, <1>5, <1>6 DEF Next, Running, Carding

-----------------------------------------------------------------------------
(* The theorems. *)

\* In every reachable state the scheduler, the gate and the chats hold values of
\* their types: statuses are declared, ids are in range, a slot belongs to a run.
THEOREM TypeCorrect == Spec => []TypeOK
<1>1. BaseInv /\ [Next]_vars => BaseInv'
  BY NextBase
<1>2. BaseInv => TypeOK
  BY DEF BaseInv
<1> QED
  BY InitBase, <1>1, <1>2, PTL DEF Spec


-----------------------------------------------------------------------------
(* The end of a run: it is published once, and its pause does not outlive it. *)

endVars == <<active, queue, paused, launched, stoppedRuns, ids>>

Ends == RunsDistinct /\ StoppedNeverRuns /\ PauseEndsWithRun

\* A step that touches neither list of runs, nor a pause, ends nothing.
LEMMA SameEnds ==
    ASSUME Ends, UNCHANGED endVars
    PROVE  Ends'
BY DEF endVars, Ends, RunsDistinct, StoppedNeverRuns, PauseEndsWithRun

\* The steps of the goroutine of a run before its end.
LEMMA RunStepSame ==
    ASSUME NEW r \in Run,
           \/ BoundaryStops(r) \/ CheckContext(r) \/ TakeQueuedAtBoundary(r)
           \/ TurnAgain(r) \/ TurnEndsRun(r) \/ HoldInRun(r) \/ ReturnActiveMessage(r)
           \/ EndTurn(r) \/ WallClock(r) \/ StopReturns(r)
           \/ \E C \in SUBSET Call : AnswerTools(r, C)
    PROVE  UNCHANGED endVars
BY DEF BoundaryStops, CheckContext, TakeQueuedAtBoundary, TurnAgain, TurnEndsRun, HoldInRun,
   ReturnActiveMessage, EndTurn, WallClock, StopReturns, AnswerTools, Moves, UnchangedButPc,
   schedulerVars, endVars

\* The steps of a call that hand on no slot.
LEMMA CallStepSame ==
    ASSUME NEW w \in Waiter,
           \/ FinishCall(w) \/ BeginWait(w) \/ Dismiss(w) \/ Resume(w) \/ ResumeCancelled(w)
           \/ EndWait(w)
    PROVE  UNCHANGED endVars
BY DEF FinishCall, BeginWait, Dismiss, Resume, ResumeCancelled, EndWait, schedulerVars, runVars,
   endVars

\* The operations of a chat that create no run.
LEMMA ChatStepSame ==
    ASSUME NEW s \in Session,
           \/ SubmitHeld(s) \/ SubmitBehind(s) \/ HoldModel(s) \/ Close(s) \/ Reopen(s)
           \/ Reset(s) \/ DropLastMessage(s) \/ Decide(s) \/ SubmitRefused(s)
    PROVE  UNCHANGED endVars
BY DEF SubmitHeld, SubmitBehind, SubmitRefused, HoldModel, Close, Reopen, Reset, DropLastMessage, Decide,
   schedulerVars, runVars, endVars

\* What a caller of drainLocked passes: the runs of chats are launched and not ended,
\* queued runs are neither, and a paused chat has a run.
EndsArgs(act, pau, q) ==
    /\ q \cap launched = {}
    /\ stoppedRuns' \cap q = {}
    /\ \A s \in Session : act[s] # NoRun => act[s] \in launched
    /\ \A s \in Session : act[s] \notin stoppedRuns'
    /\ \A s \in pau : s \in Session /\ act[s] # NoRun

\* A drain starts runs that were not launched before and were not ended.
LEMMA DrainEnds ==
    ASSUME NEW act, NEW pau, NEW res, NEW q, NEW of, Drained(act, pau, res, q, of),
           q \subseteq Run, EndsArgs(act, pau, q)
    PROVE  queue' \cap launched' = {} /\ StoppedNeverRuns' /\ PauseEndsWithRun'
<1>1. queue' \cap launched' = {}
  BY DEF Drained, EndsArgs
<1>2. StoppedNeverRuns'
  BY DEF Drained, EndsArgs, StoppedNeverRuns
<1>3. PauseEndsWithRun'
  BY IdFacts DEF Drained, EndsArgs, PauseEndsWithRun
<1> QED
  BY <1>1, <1>2, <1>3

\* A new run has an id above every queued, launched and ended one.
LEMMA FreshId ==
    ASSUME BaseInv, Ends, ids < MaxRun
    PROVE  /\ ids + 1 \notin queue \cup launched \cup stoppedRuns
           /\ \A r \in stoppedRuns : r <= ids + 1
           /\ ids + 1 # NoRun /\ ids + 1 \in Run
<1>1. \A r \in queue \cup launched \cup stoppedRuns : r \in Run /\ r <= ids
  BY DEF BaseInv, TypeOK, RunsKnown, Ends, RunsDistinct
<1>2. \A r \in Run : r \in Nat
  BY IdFacts
<1>3. ids \in Nat
  BY IdFacts DEF BaseInv, TypeOK
<1> QED
  BY <1>1, <1>2, <1>3, IdFacts DEF BaseInv, TypeOK

\* A submission to an idle chat.
LEMMA SubmitEnds ==
    ASSUME BaseInv, Ends, NEW s \in Session, SubmitStart(s) \/ SubmitQueue(s)
    PROVE  Ends'
<1>1. /\ active[s] = NoRun /\ ids < MaxRun /\ ids' = ids + 1
      /\ paused' = paused /\ stoppedRuns' = stoppedRuns
  BY DEF SubmitStart, SubmitQueue, NewRun
<1>2. /\ ids' \notin queue \cup launched \cup stoppedRuns
      /\ \A r \in stoppedRuns : r <= ids'
      /\ ids' # NoRun
  BY <1>1, FreshId
<1>3. CASE SubmitStart(s)
  BY <1>1, <1>2, <1>3 DEF SubmitStart, BaseInv, TypeOK, Ends, RunsDistinct, StoppedNeverRuns,
     PauseEndsWithRun
<1>4. CASE SubmitQueue(s)
  BY <1>1, <1>2, <1>4 DEF SubmitQueue, Ends, RunsDistinct, StoppedNeverRuns, PauseEndsWithRun
<1> QED
  BY <1>3, <1>4

\* Stopping ends queued runs, which no chat has as its run.
LEMMA StopEnds ==
    ASSUME BaseInv, Ends, NEW target \in SUBSET Session, NEW all \in BOOLEAN, Stop(target, all)
    PROVE  Ends'
<1>1. /\ active' = active /\ launched' = launched /\ paused' = paused /\ ids' = ids
      /\ queue' \subseteq queue /\ stoppedRuns' = stoppedRuns \cup (queue \ queue')
  BY DEF Stop
<1>2. \A s \in Session : active[s] \notin queue
  BY IdFacts DEF BaseInv, TypeOK, RunsKnown, Ends, RunsDistinct
<1> QED
  BY <1>1, <1>2 DEF BaseInv, RunsKnown, Ends, RunsDistinct, StoppedNeverRuns, PauseEndsWithRun

\* A release gives fresh ids, to chats without a run.
LEMMA ReleaseModelEnds ==
    ASSUME BaseInv, Ends, NEW k \in Connection, ReleaseModel(k)
    PROVE  Ends'
<1> DEFINE chats == Released(k)
           fresh == Fresh(k)
<1>1. /\ ids + Cardinality(chats) <= MaxRun
      /\ ids' = ids + Cardinality(chats)
      /\ paused' = paused /\ stoppedRuns' = stoppedRuns
  BY DEF ReleaseModel
<1>2. PICK run \in [chats -> fresh], now \in SUBSET chats : StartReleased(k, run, now)
  BY DEF ReleaseModel
<1>3. /\ \A s, t \in chats : s # t => run[s] # run[t]
      /\ active' = [s \in Session |-> IF s \in now THEN run[s] ELSE active[s]]
      /\ launched' = launched \cup {run[s] : s \in now}
      /\ queue' = queue \cup {run[s] : s \in chats \ now}
  BY <1>2, Zenon DEF StartReleased
<1>4. /\ fresh \subseteq Run /\ Cardinality(chats) \in Nat
      /\ \A r \in fresh : r \in Nat /\ r > ids
  BY <1>1, ReleasedFacts
<1>5. \A r \in queue \cup launched \cup stoppedRuns : r \in Nat /\ r <= ids
  BY IdFacts DEF BaseInv, TypeOK, RunsKnown, Ends, RunsDistinct
<1>6. ids \in Nat /\ \A r \in stoppedRuns : r <= ids'
  BY <1>1, <1>4, <1>5, IdFacts DEF BaseInv, TypeOK
<1>7. \A r \in fresh : r \notin queue \cup launched \cup stoppedRuns /\ r # NoRun
  BY <1>4, <1>5, <1>6, IdFacts
<1>8. \A s \in chats : run[s] \in fresh
  BY <1>2
<1> HIDE DEF chats, fresh
<1>9. queue' \cap launched' = {}
  BY <1>3, <1>7, <1>8 DEF Ends, RunsDistinct
<1>10. StoppedNeverRuns'
  BY <1>1, <1>3, <1>7, <1>8 DEF Ends, StoppedNeverRuns
<1>11. PauseEndsWithRun'
  BY <1>1, <1>3, <1>7, <1>8 DEF Ends, PauseEndsWithRun, BaseInv, TypeOK
<1> QED
  BY <1>1, <1>6, <1>9, <1>10, <1>11 DEF Ends, RunsDistinct

\* A card pauses the chat's run.
LEMMA ReleaseForCardEnds ==
    ASSUME BaseInv, Ends, NEW w \in Waiter, ReleaseForCard(w)
    PROVE  Ends'
<1> DEFINE s == runSession[w[1]]
<1>1. w[1] \in launched /\ s \in Session /\ w[1] \in Run
  BY DEF ReleaseForCard, BaseInv, TypeOK, RunsKnown
<1>2. CASE ~ (w[1] \notin cancelled /\ Current(w[1]) /\ s \notin paused)
  <2>1. UNCHANGED endVars
    BY <1>2 DEF ReleaseForCard, endVars
  <2> QED
    BY <2>1, SameEnds
<1>3. CASE w[1] \notin cancelled /\ Current(w[1]) /\ s \notin paused
  <2>1. /\ Drain(active, paused \cup {s}, resuming, ahead, queue, runSession)
        /\ stoppedRuns' = stoppedRuns /\ ids' = ids
    BY <1>3 DEF ReleaseForCard
  <2>2. DrainArgs(active, paused \cup {s}, resuming, queue) /\ TypeOK /\ queue \subseteq Run
    BY <1>1 DEF BaseInv, TypeOK, ActiveType, DrainArgs
  <2>3. Drained(active, paused \cup {s}, resuming, queue, runSession)
    BY <2>1, <2>2, DrainFacts
  <2>4. active[s] # NoRun
    BY <1>1, <1>3, IdFacts DEF Current
  <2>5. EndsArgs(active, paused \cup {s}, queue)
    BY <2>1, <2>2, <2>4, <1>1 DEF EndsArgs, DrainArgs, BaseInv, RunsKnown, Ends, RunsDistinct,
       StoppedNeverRuns, PauseEndsWithRun
  <2>6. queue' \cap launched' = {} /\ StoppedNeverRuns' /\ PauseEndsWithRun'
    BY <2>2, <2>3, <2>5, DrainEnds
  <2> QED
    BY <2>1, <2>6 DEF Ends, RunsDistinct
<1> QED
  BY <1>2, <1>3

\* An answered call takes a slot back, or waits for one.
LEMMA ReacquireEnds ==
    ASSUME BaseInv, Ends, NEW w \in Waiter, Reacquire(w)
    PROVE  Ends'
<1> DEFINE s == runSession[w[1]]
           behind == [ahead EXCEPT ![w] = resuming]
<1>1. stoppedRuns' = stoppedRuns /\ ids' = ids
  BY DEF Reacquire
<1>2. CASE UNCHANGED <<active, queue, launched>> /\ paused' \subseteq paused
  BY <1>1, <1>2 DEF Ends, RunsDistinct, StoppedNeverRuns, PauseEndsWithRun
<1>3. CASE Drain(active, paused, resuming \cup {w}, behind, queue, runSession)
  <2>1. DrainArgs(active, paused, resuming \cup {w}, queue) /\ TypeOK /\ queue \subseteq Run
    BY DEF BaseInv, TypeOK, ActiveType, DrainArgs
  <2>2. Drained(active, paused, resuming \cup {w}, queue, runSession)
    BY <1>3, <2>1, DrainFacts
  <2>3. EndsArgs(active, paused, queue)
    BY <1>1, <2>1 DEF EndsArgs, DrainArgs, BaseInv, RunsKnown, Ends, RunsDistinct,
       StoppedNeverRuns, PauseEndsWithRun
  <2>4. queue' \cap launched' = {} /\ StoppedNeverRuns' /\ PauseEndsWithRun'
    BY <2>1, <2>2, <2>3, DrainEnds
  <2> QED
    BY <1>1, <2>4 DEF Ends, RunsDistinct
<1> QED
  BY <1>2, <1>3 DEF Reacquire

\* The slot of a chat is freed; q holds the queued runs and perhaps the next one.
LEMMA FreeSlotEnds ==
    ASSUME BaseInv, Ends, NEW r \in Run, NEW s \in Session, NEW q \in SUBSET Run, NEW of,
           FreeSlot(r, s, q, of), r \in launched, active[s] = r,
           q \cap launched = {}, q \cap stoppedRuns = {}
    PROVE  queue' \cap launched' = {} /\ StoppedNeverRuns' /\ PauseEndsWithRun'
           /\ stoppedRuns' = stoppedRuns \cup {r}
<1> DEFINE act == [active EXCEPT ![s] = NoRun]
           res == ForgetWaiter(resuming, s)
<1>1. /\ Drain(act, paused \ {s}, res, ahead, q, of)
      /\ stoppedRuns' = stoppedRuns \cup {r}
  BY DEF FreeSlot
<1>2. DrainArgs(act, paused \ {s}, res, q) /\ TypeOK
  BY DEF DrainArgs, ForgetWaiter, ActiveType, BaseInv, TypeOK
<1>3. EndsArgs(act, paused \ {s}, q)
  <2>1. \A t \in Session : act[t] # NoRun => act[t] = active[t] /\ t # s
    BY DEF BaseInv, TypeOK
  <2>2. \A t \in Session : act[t] # NoRun => act[t] \in launched /\ runSession[act[t]] = t
    BY <2>1 DEF BaseInv, RunsKnown
  <2>3. runSession[r] = s
    BY IdFacts DEF BaseInv, RunsKnown
  <2>4. \A t \in Session : act[t] \notin stoppedRuns'
    <3>1. NoRun \notin stoppedRuns'
      BY <1>1, IdFacts DEF BaseInv, TypeOK
    <3> QED
      BY <3>1, <2>1, <2>2, <2>3, <1>1 DEF Ends, StoppedNeverRuns
  <2>5. stoppedRuns' \cap q = {}
    BY <1>1
  <2>6. \A t \in paused \ {s} : t \in Session /\ act[t] # NoRun
    BY DEF BaseInv, TypeOK, Ends, PauseEndsWithRun
  <2> QED
    BY <2>2, <2>4, <2>5, <2>6 DEF EndsArgs
<1> HIDE DEF act, res
<1>4. Drained(act, paused \ {s}, res, q, of)
  BY <1>1, <1>2, DrainFacts
<1> QED
  BY <1>1, <1>3, <1>4, DrainEnds

\* A run ends: only the chat's run frees a slot, and its next run has a fresh id.
LEMMA FinishEnds ==
    ASSUME BaseInv, Ends, NEW r \in Run, Finish(r) \/ ForceFinish(r)
    PROVE  Ends'
<1> DEFINE s == runSession[r]
<1>1. r \in launched /\ s \in Session /\ queue \in SUBSET Run /\ r <= ids
  BY DEF Finish, ForceFinish, BaseInv, TypeOK, RunsKnown
<1>2. queue \cap launched = {} /\ queue \cap stoppedRuns = {}
  BY DEF Ends, RunsDistinct, StoppedNeverRuns
<1>3. CASE ~ Current(r)
  <2>1. UNCHANGED endVars
    BY <1>3 DEF Finish, ForceFinish, schedulerVars, endVars
  <2> QED
    BY <2>1, SameEnds
<1>4. CASE Current(r) /\ FreeSlot(r, s, queue, runSession) /\ ids' = ids
  <2>1. active[s] = r
    BY <1>4 DEF Current
  <2> HIDE DEF s
  <2>2. queue' \cap launched' = {} /\ StoppedNeverRuns' /\ PauseEndsWithRun'
        /\ stoppedRuns' = stoppedRuns \cup {r}
    BY <1>1, <1>2, <1>4, <2>1, FreeSlotEnds
  <2> QED
    BY <2>2, <1>1, <1>4 DEF Ends, RunsDistinct
<1>5. CASE /\ Current(r) /\ ids < MaxRun /\ ids' = ids + 1
           /\ FreeSlot(r, s, queue \cup {ids'}, runSession')
  <2>1. active[s] = r
    BY <1>5 DEF Current
  <2>2. /\ ids' \notin queue \cup launched \cup stoppedRuns /\ ids' \in Run
        /\ \A x \in stoppedRuns : x <= ids'
    BY <1>5, FreshId
  <2>3. r <= ids'
    BY <1>1, <1>5, IdFacts DEF BaseInv, TypeOK
  <2>4. /\ queue \cup {ids'} \in SUBSET Run /\ (queue \cup {ids'}) \cap launched = {}
        /\ (queue \cup {ids'}) \cap stoppedRuns = {}
    BY <2>2, <1>1, <1>2
  <2> HIDE DEF s
  <2>5. queue' \cap launched' = {} /\ StoppedNeverRuns' /\ PauseEndsWithRun'
        /\ stoppedRuns' = stoppedRuns \cup {r}
    BY <1>1, <1>5, <2>1, <2>4, FreeSlotEnds
  <2> QED
    BY <2>2, <2>3, <2>5 DEF Ends, RunsDistinct
<1>6. CASE Finish(r)
  BY <1>3, <1>4, <1>5, <1>6 DEF Finish
<1>7. CASE ForceFinish(r)
  BY <1>3, <1>4, <1>7 DEF ForceFinish
<1> QED
  BY <1>6, <1>7

\* Every step keeps the inductive invariant.
LEMMA NextEnds ==
    ASSUME EndInv, [Next]_vars
    PROVE  EndInv'
<1>1. BaseInv /\ Ends
  BY DEF EndInv, BaseInv, Ends
<1>2. Ends'
  <2>1. CASE UNCHANGED vars
    <3>1. UNCHANGED endVars
      BY <2>1 DEF vars, schedulerVars, runVars, endVars
    <3> QED
      BY <1>1, <3>1, SameEnds
  <2>2. ASSUME NEW s \in Session, Submission(s) \/ ChatOperation(s) \/ HoldModel(s) \/ Decide(s)
        PROVE  Ends'
    BY <1>1, <2>2, ChatStepSame, SubmitEnds, SameEnds DEF Submission, ChatOperation
  <2>3. CASE Stopping
    <3>1. CASE Stop(Session, TRUE)
      BY <1>1, <3>1, StopEnds
    <3>2. ASSUME NEW s \in Session, Stop({s}, FALSE) PROVE Ends'
      BY <1>1, <3>2, StopEnds
    <3> QED
      BY <2>3, <3>1, <3>2 DEF Stopping
  <2>4. ASSUME NEW r \in Run,
               RunStep(r) \/ WallClock(r) \/ StopReturns(r) \/ ForceFinish(r) \/ HoldInRun(r)
        PROVE  Ends'
    BY <1>1, <2>4, RunStepSame, SameEnds, FinishEnds DEF RunStep
  <2>5. ASSUME NEW w \in Waiter, CallStep(w) PROVE Ends'
    BY <1>1, <2>5, CallStepSame, SameEnds, ReleaseForCardEnds, ReacquireEnds DEF CallStep
  <2>6. CASE Outage
    BY <1>1, <2>6, <2>2, <2>4, ReleaseModelEnds DEF Outage
  <2> QED
    BY <2>1, <2>2, <2>3, <2>4, <2>5, <2>6 DEF Next, Running, Carding
<1>3. BaseInv'
  BY <1>1, NextBase
<1> QED
  BY <1>2, <1>3 DEF EndInv, BaseInv, Ends

\* The initial state satisfies it.
LEMMA InitEnds == Init => EndInv
<1>1. Init => BaseInv
  BY InitBase
<1>2. Init => Ends
  BY DEF Init, Ends, RunsDistinct, StoppedNeverRuns, PauseEndsWithRun
<1> QED
  BY <1>1, <1>2 DEF EndInv, BaseInv, Ends

-----------------------------------------------------------------------------
(* Late goroutines. *)

\* The goroutine of run r, or one of its tool calls, takes a step.
Moved(r) == pc'[r] # pc[r] \/ \E c \in Call : call'[<<r, c>>] # call[<<r, c>>]

chatVars == <<active, queue, pending, paused>>

\* Only a step of a run or of a call moves a run.
LEMMA OthersMoveNothing ==
    ASSUME NEW r \in Run, UNCHANGED <<pc, call>>
    PROVE  ~ Moved(r)
BY DEF Moved

\* The goroutine of a run moves that run only, and leaves the chat of a late one alone.
LEMMA LateRunStep ==
    ASSUME BaseInv, NEW r \in launched, ~ Current(r), Moved(r), NEW x \in Run,
           RunStep(x) \/ HoldInRun(x)
    PROVE  UNCHANGED chatVars
<1>1. r \in Run /\ pc \in [Run -> Phase] /\ call \in [Waiter -> CallState]
  BY DEF BaseInv, TypeOK
<1>2. CASE \E C \in SUBSET Call : AnswerTools(x, C)
  BY <1>2 DEF AnswerTools, schedulerVars, chatVars
<1>3. CASE Finish(x)
  <2>1. x = r
    BY <1>1, <1>3 DEF Finish, gateVars, Moved
  <2> QED
    BY <1>3, <2>1 DEF Finish, schedulerVars, chatVars
<1>4. CASE TakeQueuedAtBoundary(x)
  <2>1. x = r
    BY <1>1, <1>4 DEF TakeQueuedAtBoundary, Moves, gateVars, Moved
  <2> QED
    BY <1>4, <2>1 DEF TakeQueuedAtBoundary, Takes, chatVars
<1>5. CASE \/ BoundaryStops(x) \/ CheckContext(x) \/ TurnAgain(x) \/ TurnEndsRun(x)
           \/ HoldInRun(x) \/ ReturnActiveMessage(x) \/ EndTurn(x)
  BY <1>5 DEF BoundaryStops, CheckContext, TurnAgain, TurnEndsRun, HoldInRun,
     ReturnActiveMessage, EndTurn, schedulerVars, chatVars
<1> QED
  BY <1>2, <1>3, <1>4, <1>5 DEF RunStep

\* A tool call moves its run only, and a call of a late run gives up and takes no slot.
LEMMA LateCallStep ==
    ASSUME BaseInv, NEW r \in launched, ~ Current(r), Moved(r), NEW w \in Waiter, CallStep(w)
    PROVE  UNCHANGED chatVars
<1>1. CASE \/ FinishCall(w) \/ BeginWait(w) \/ Dismiss(w) \/ Resume(w) \/ ResumeCancelled(w)
           \/ EndWait(w)
  BY <1>1 DEF FinishCall, BeginWait, Dismiss, Resume, ResumeCancelled, EndWait, schedulerVars,
     chatVars
<1>2. CASE ReleaseForCard(w) \/ Reacquire(w)
  <2>1. pc' = pc /\ \E v : call' = [call EXCEPT ![w] = v]
    BY <1>2 DEF ReleaseForCard, Reacquire
  <2>2. r \in Run /\ call \in [Waiter -> CallState]
    BY DEF BaseInv, TypeOK
  <2>3. PICK c \in Call : call'[<<r, c>>] # call[<<r, c>>]
    BY <2>1 DEF Moved
  <2>4. <<r, c>> = w
    BY <2>1, <2>2, <2>3 DEF Waiter
  <2>5. w[1] = r
    BY <2>4
  <2> QED
    BY <1>2, <2>5 DEF ReleaseForCard, Reacquire, chatVars
<1> QED
  BY <1>1, <1>2 DEF CallStep

\* Every step that a late run takes leaves the chat alone.
LEMMA LateStep ==
    ASSUME BaseInv, NEW r \in launched, ~ Current(r), Moved(r), [Next]_vars
    PROVE  UNCHANGED chatVars
<1>0. r \in Run
  BY DEF BaseInv, TypeOK
<1>1. ~ UNCHANGED <<pc, call>>
  BY <1>0, OthersMoveNothing
<1>2. CASE UNCHANGED vars
  BY <1>1, <1>2 DEF vars, runVars, gateVars
<1>3. ASSUME NEW s \in Session, Submission(s) \/ ChatOperation(s) \/ HoldModel(s) \/ Decide(s)
      PROVE  FALSE
  BY <1>1, <1>3 DEF Submission, SubmitHeld, SubmitBehind, SubmitStart, SubmitQueue, NewRun,
     SubmitRefused, ChatOperation, Close, Reopen, Reset, DropLastMessage, HoldModel, Decide,
     runVars, gateVars
<1>4. CASE Stopping
  BY <1>1, <1>4 DEF Stopping, Stop, gateVars
<1>5. ASSUME NEW x \in Run, RunStep(x) \/ HoldInRun(x) PROVE UNCHANGED chatVars
  BY <1>5, LateRunStep
<1>6. ASSUME NEW x \in Run, WallClock(x) \/ StopReturns(x) \/ ForceFinish(x) PROVE FALSE
  BY <1>1, <1>6 DEF WallClock, StopReturns, ForceFinish, gateVars
<1>7. ASSUME NEW w \in Waiter, CallStep(w) PROVE UNCHANGED chatVars
  BY <1>7, LateCallStep
<1>8. ASSUME NEW k \in Connection, ReleaseModel(k) PROVE FALSE
  BY <1>1, <1>8 DEF ReleaseModel, gateVars
<1> QED
  BY <1>2, <1>3, <1>4, <1>5, <1>6, <1>7, <1>8 DEF Next, Running, Carding, Outage

-----------------------------------------------------------------------------
(* Runs for held chats. *)

\* A chat that gets a run id has a model that is not held.
StartsUnheld == \A r \in (ids + 1)..ids' : runSession'[r] \notin unreachable'

\* No id is given out.
LEMMA NoNewId ==
    ASSUME BaseInv, ids' = ids
    PROVE  StartsUnheld
<1>1. ids \in Nat
  BY IdFacts DEF BaseInv, TypeOK
<1> QED
  BY <1>1 DEF StartsUnheld

\* One id is given out, to a chat that is not held.
LEMMA OneNewId ==
    ASSUME BaseInv, ids < MaxRun, ids' = ids + 1, NEW s,
           runSession' = [runSession EXCEPT ![ids'] = s], s \notin unreachable'
    PROVE  StartsUnheld
<1>1. ids \in Nat /\ ids' \in Run
  BY IdFacts DEF BaseInv, TypeOK
<1>2. \A r \in (ids + 1)..ids' : r = ids'
  BY <1>1
<1>3. runSession'[ids'] = s
  BY <1>1 DEF BaseInv, TypeOK
<1> QED
  BY <1>2, <1>3 DEF StartsUnheld

\* A release gives ids to chats it has released.
LEMMA ReleaseUnheld ==
    ASSUME BaseInv, NEW k \in Connection, ReleaseModel(k)
    PROVE  StartsUnheld
<1> DEFINE chats == Released(k)
           fresh == Fresh(k)
<1>1. /\ ids + Cardinality(chats) <= MaxRun
      /\ ids' = ids + Cardinality(chats)
      /\ unreachable' = unreachable \ OnConnection(unreachable, k)
  BY DEF ReleaseModel
<1>2. PICK run \in [chats -> fresh], now \in SUBSET chats : StartReleased(k, run, now)
  BY DEF ReleaseModel
<1> DEFINE owner == [r \in fresh |-> CHOOSE s \in chats : run[s] = r]
<1>3. /\ \A r \in fresh : \E s \in chats : run[s] = r
      /\ runSession' = [r \in Run |-> IF r \in fresh THEN owner[r] ELSE runSession[r]]
  BY <1>2, Zenon DEF StartReleased
<1>4. fresh \subseteq Run /\ (ids + 1)..ids' = fresh
  BY <1>1, ReleasedFacts DEF Fresh
<1>5. \A r \in fresh : owner[r] \in chats
  BY <1>3
<1>6. \A s \in chats : s \notin unreachable'
  BY <1>1 DEF Released
<1> HIDE DEF chats, fresh, owner
<1> QED
  BY <1>3, <1>4, <1>5, <1>6 DEF StartsUnheld

\* Every step gives ids to chats that are not held.
LEMMA NextUnheld ==
    ASSUME BaseInv, [Next]_vars
    PROVE  StartsUnheld
<1>1. CASE UNCHANGED vars
  BY <1>1, NoNewId DEF vars, schedulerVars
<1>2. ASSUME NEW s \in Session, Submission(s) \/ ChatOperation(s) \/ HoldModel(s) \/ Decide(s)
      PROVE  StartsUnheld
  <2>1. CASE \/ SubmitHeld(s) \/ SubmitBehind(s) \/ HoldModel(s) \/ Close(s) \/ Reopen(s)
             \/ Reset(s) \/ DropLastMessage(s) \/ Decide(s) \/ SubmitRefused(s)
    BY <2>1, ChatStepSame, NoNewId DEF endVars
  <2>2. CASE SubmitStart(s) \/ SubmitQueue(s)
    <3>1. /\ ids < MaxRun /\ ids' = ids + 1 /\ s \notin unreachable'
          /\ runSession' = [runSession EXCEPT ![ids'] = s]
      BY <2>2 DEF SubmitStart, SubmitQueue, NewRun
    <3> QED
      BY <3>1, OneNewId
  <2> QED
    BY <1>2, <2>1, <2>2 DEF Submission, ChatOperation
<1>3. CASE Stopping
  BY <1>3, NoNewId DEF Stopping, Stop
<1>4. ASSUME NEW r \in Run,
             RunStep(r) \/ WallClock(r) \/ StopReturns(r) \/ ForceFinish(r) \/ HoldInRun(r)
      PROVE  StartsUnheld
  <2>1. CASE Finish(r)
    <3>1. CASE ids' = ids
      BY <3>1, NoNewId
    <3>2. CASE /\ ids < MaxRun /\ ids' = ids + 1 /\ runSession[r] \notin unreachable'
               /\ runSession' = [runSession EXCEPT ![ids'] = runSession[r]]
      BY <3>2, OneNewId
    <3> QED
      BY <2>1, <3>1, <3>2 DEF Finish, Continues, schedulerVars
  <2>2. CASE ForceFinish(r)
    BY <2>2, NoNewId DEF ForceFinish
  <2>3. CASE ~ Finish(r) /\ ~ ForceFinish(r)
    BY <1>4, <2>3, RunStepSame, NoNewId DEF RunStep, endVars
  <2> QED
    BY <2>1, <2>2, <2>3
<1>5. ASSUME NEW w \in Waiter, CallStep(w) PROVE StartsUnheld
  <2>1. CASE ReleaseForCard(w) \/ Reacquire(w)
    BY <2>1, NoNewId DEF ReleaseForCard, Reacquire
  <2> QED
    BY <1>5, <2>1, CallStepSame, NoNewId DEF CallStep, endVars
<1>6. CASE Outage
  BY <1>6, <1>2, <1>4, ReleaseUnheld DEF Outage
<1> QED
  BY <1>1, <1>2, <1>3, <1>4, <1>5, <1>6 DEF Next, Running, Carding

-----------------------------------------------------------------------------
(* The theorems. *)

\* The inductive invariant of the runs holds in every reachable state.
THEOREM EndInvHolds == Spec => []EndInv
<1>1. EndInv /\ [Next]_vars => EndInv'
  BY NextEnds
<1> QED
  BY InitEnds, <1>1, PTL DEF Spec

\* A goroutine that was given up, and its tool calls, change nothing of the chat's later
\* runs: finish, takeQueued, releaseForCard and reacquireAfterCard ask whether the run
\* is still the chat's run before they touch the slot, the queue, the waiting messages or
\* the pause.
THEOREM LateRunsAreFenced == Spec => LateRunFenced
<1>1. EndInv /\ [Next]_vars =>
        [\A r \in launched : ~ Current(r) /\ Moved(r) => UNCHANGED chatVars]_vars
  BY LateStep DEF EndInv, BaseInv
<1>2. [\A r \in launched : ~ Current(r) /\ Moved(r) => UNCHANGED chatVars]_vars =>
        [\A r \in launched :
            /\ active[runSession[r]] # r
            /\ pc'[r] # pc[r] \/ \E c \in Call : call'[<<r, c>>] # call[<<r, c>>]
            => UNCHANGED <<active, queue, pending, paused>>]_vars
  BY DEF Current, Moved, chatVars
<1> QED
  BY EndInvHolds, <1>1, <1>2, PTL DEF Spec, LateRunFenced

\* A chat whose model is held gets no run: submitAttachmentsFrom, finish and ReleaseModel
\* give out run ids only to chats they find, or make, unheld.
THEOREM HeldChatsWait == Spec => HeldStartsNothing
<1>1. EndInv /\ [Next]_vars => [StartsUnheld]_vars
  BY NextUnheld DEF EndInv, BaseInv
<1> QED
  BY EndInvHolds, <1>1, PTL DEF Spec, HeldStartsNothing, StartsUnheld

\* A run whose run.stopped was published is never the run of a chat or in the queue
\* again, however stops, forced finishes and late goroutines interleave: its end is
\* published once.
THEOREM StoppedForGood == Spec => []StoppedNeverRuns
<1>1. EndInv /\ [Next]_vars => EndInv'
  BY NextEnds
<1>2. EndInv => StoppedNeverRuns
  BY DEF EndInv
<1> QED
  BY InitEnds, <1>1, <1>2, PTL DEF Spec

\* No pause outlives the run that paused: a later run of the chat is counted against
\* the limits of its connection.
THEOREM PausesEnd == Spec => []PauseEndsWithRun
<1>1. EndInv /\ [Next]_vars => EndInv'
  BY NextEnds
<1>2. EndInv => PauseEndsWithRun
  BY DEF EndInv
<1> QED
  BY InitEnds, <1>1, <1>2, PTL DEF Spec

=============================================================================
