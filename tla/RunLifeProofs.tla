--------------------------- MODULE RunLifeProofs ---------------------------
(***************************************************************************)
(* The lives of the runs of Scheduler, for every value of the constants:   *)
(* the scheduler implements RunLife, starts runs in their order, shows     *)
(* every undecided card and strands no message.                            *)
(***************************************************************************)
EXTENDS SlotProofs

\* Every run id that was given out is the id of a run that waits, was started or has
\* ended.
RunsAccounted == \A r \in Run : r <= ids => r \in queue \cup launched \cup stoppedRuns

\* What a step does to the runs: none is forgotten, none goes back, new runs have new
\* ids, and a run that starts gets its chat, which another run may have paused.
Lived ==
    /\ ids <= ids'
    /\ launched \subseteq launched'
    /\ stoppedRuns \subseteq stoppedRuns'
    /\ queue \subseteq queue' \cup launched' \cup stoppedRuns'
    /\ stoppedRuns' \subseteq stoppedRuns \cup queue \cup launched
    /\ \A r \in queue' : r \in queue \/ r > ids
    /\ \A r \in launched' : r \in launched \cup queue \/ r > ids
    /\ \A r \in Run : r > ids /\ r <= ids' => r \in queue' \cup launched'
    /\ \A r \in Run : r <= ids => runSession'[r] = runSession[r]
    /\ \A r \in launched' \ launched :
          /\ active'[runSession'[r]] # NoRun
          /\ runSession'[r] \in paused' =>
                \E q \in launched \ stoppedRuns' : runSession'[q] = runSession'[r]

lifeVars == <<active, queue, paused, launched, stoppedRuns, ids, runSession>>

\* Ids are numbers.
LEMMA IdsNat ==
    ASSUME BaseInv
    PROVE  ids \in Nat /\ \A r \in Run : r \in Nat /\ r # NoRun
BY IdFacts DEF BaseInv, TypeOK

\* A step that leaves the runs alone.
LEMMA SameLived ==
    ASSUME BaseInv, UNCHANGED lifeVars
    PROVE  Lived
<1>1. /\ ids' = ids /\ launched' = launched /\ stoppedRuns' = stoppedRuns /\ queue' = queue
      /\ runSession' = runSession
  BY DEF lifeVars
<1>2. \A r \in Run : ~ (r > ids /\ r <= ids)
  BY IdsNat
<1> QED
  BY <1>1, <1>2, IdsNat DEF Lived

\* The steps of the goroutine of a run before its end.
LEMMA RunStepLives ==
    ASSUME BaseInv, NEW r \in Run,
           \/ BoundaryStops(r) \/ CheckContext(r) \/ TakeQueuedAtBoundary(r)
           \/ TurnAgain(r) \/ TurnEndsRun(r) \/ HoldInRun(r) \/ ReturnActiveMessage(r)
           \/ EndTurn(r) \/ WallClock(r) \/ StopReturns(r)
           \/ \E C \in SUBSET Call : AnswerTools(r, C)
    PROVE  Lived
<1>1. runSession' = runSession
  BY DEF BoundaryStops, CheckContext, TakeQueuedAtBoundary, TurnAgain, TurnEndsRun, HoldInRun,
     ReturnActiveMessage, EndTurn, WallClock, StopReturns, AnswerTools, UnchangedButPc
<1> QED
  BY <1>1, RunStepSame, SameLived DEF endVars, lifeVars

\* The steps of a call that hand on no slot.
LEMMA CallStepLives ==
    ASSUME BaseInv, NEW w \in Waiter,
           \/ FinishCall(w) \/ BeginWait(w) \/ Dismiss(w) \/ Resume(w) \/ ResumeCancelled(w)
           \/ EndWait(w)
    PROVE  Lived
<1>1. runSession' = runSession
  BY DEF FinishCall, BeginWait, Dismiss, Resume, ResumeCancelled, EndWait, runVars
<1> QED
  BY <1>1, CallStepSame, SameLived DEF endVars, lifeVars

\* The operations of a chat that create no run.
LEMMA ChatStepLives ==
    ASSUME BaseInv, NEW s \in Session,
           \/ SubmitHeld(s) \/ SubmitBehind(s) \/ HoldModel(s) \/ Close(s) \/ Reopen(s)
           \/ Reset(s) \/ DropLastMessage(s) \/ Decide(s) \/ SubmitRefused(s)
    PROVE  Lived
<1>1. runSession' = runSession
  BY DEF SubmitHeld, SubmitBehind, SubmitRefused, HoldModel, Close, Reopen, Reset,
     DropLastMessage, Decide, runVars
<1> QED
  BY <1>1, ChatStepSame, SameLived DEF endVars, lifeVars

\* A submission to an idle chat: the new run has the next id and an unpaused chat.
LEMMA SubmitLives ==
    ASSUME BaseInv, Ends, NEW s \in Session, SubmitStart(s) \/ SubmitQueue(s)
    PROVE  Lived
<1>1. /\ active[s] = NoRun /\ ids < MaxRun /\ ids' = ids + 1
      /\ runSession' = [runSession EXCEPT ![ids'] = s]
      /\ paused' = paused /\ stoppedRuns' = stoppedRuns
  BY DEF SubmitStart, SubmitQueue, NewRun
<1>2. ids' \in Run /\ ids' # NoRun /\ s \notin paused
  BY <1>1, FreshId DEF Ends, PauseEndsWithRun
<1>3. /\ ids <= ids' /\ ids' > ids
      /\ \A r \in Run : r <= ids => r # ids'
      /\ \A r \in Run : r > ids /\ r <= ids' => r = ids'
  BY <1>1, IdsNat
<1>4. runSession'[ids'] = s /\ \A r \in Run : r <= ids => runSession'[r] = runSession[r]
  BY <1>1, <1>2, <1>3 DEF BaseInv, TypeOK
<1>5. CASE SubmitStart(s)
  <2>1. /\ active' = [active EXCEPT ![s] = ids'] /\ launched' = launched \cup {ids'}
        /\ queue' = queue
    BY <1>5 DEF SubmitStart
  <2>2. active'[s] = ids'
    BY <2>1 DEF BaseInv, TypeOK
  <2> QED
    BY <1>1, <1>2, <1>3, <1>4, <2>1, <2>2 DEF Lived
<1>6. CASE SubmitQueue(s)
  <2>1. launched' = launched /\ queue' = queue \cup {ids'}
    BY <1>6 DEF SubmitQueue
  <2> QED
    BY <1>1, <1>2, <1>3, <1>4, <2>1 DEF Lived
<1> QED
  BY <1>5, <1>6

\* Stopping ends queued runs.
LEMMA StopLives ==
    ASSUME BaseInv, NEW target \in SUBSET Session, NEW all \in BOOLEAN, Stop(target, all)
    PROVE  Lived
<1>1. /\ active' = active /\ launched' = launched /\ paused' = paused /\ ids' = ids
      /\ queue' \subseteq queue /\ stoppedRuns' = stoppedRuns \cup (queue \ queue')
      /\ runSession' = runSession
  BY DEF Stop
<1>2. \A r \in Run : ~ (r > ids /\ r <= ids)
  BY IdsNat
<1> QED
  BY <1>1, <1>2, IdsNat DEF Lived

-----------------------------------------------------------------------------
(* The drain. *)

\* What a caller of drainLocked passes: old runs or the next one, of chats, and chats
\* paused by a launched run that is not ended.
LifeArgs(act, pau, q, of) ==
    /\ \A r \in q : of[r] \in Session
    /\ \A s \in pau : \E r \in launched \ stoppedRuns' : of[r] = s

\* A drain gives every run it starts its chat; a chat that stays paused had a run.
LEMMA DrainLives ==
    ASSUME NEW act, NEW pau, NEW res, NEW ah, NEW q, NEW of, TypeOK,
           DrainArgs(act, pau, res, q), Drain(act, pau, res, ah, q, of), LifeArgs(act, pau, q, of)
    PROVE  /\ queue' \subseteq q
           /\ launched' = launched \cup (q \ queue')
           /\ \A r \in launched' \ launched :
                 /\ active'[of[r]] # NoRun
                 /\ of[r] \in paused' => \E x \in launched \ stoppedRuns' : of[x] = of[r]
<1>0. act \in ActiveType /\ q \subseteq Run
  BY DEF DrainArgs
<1>1. PICK W \in SUBSET res, D \in SUBSET q :
         /\ paused' = pau \ ChatsOf(of, W)
         /\ queue' = q \ D
         /\ launched' = launched \cup D
         /\ active' = Started(act, of, D)
  BY DEF Drain
<1>2. D = q \ queue' /\ D \in SUBSET Run
  BY <1>0, <1>1
<1>3. \A s \in Session :
         \/ active'[s] = act[s] /\ \A r \in D : of[r] # s
         \/ active'[s] \in D /\ of[active'[s]] = s
  BY <1>0, <1>1, <1>2, StartedFacts
<1>4. ASSUME NEW r \in launched' \ launched
      PROVE  /\ active'[of[r]] # NoRun
             /\ of[r] \in paused' => \E x \in launched \ stoppedRuns' : of[x] = of[r]
  <2>1. r \in D /\ of[r] \in Session
    BY <1>1 DEF LifeArgs
  <2>2. active'[of[r]] \in D
    BY <1>3, <2>1
  <2>3. active'[of[r]] # NoRun
    BY <1>2, <2>2, IdFacts
  <2> QED
    BY <1>1, <2>3 DEF LifeArgs
<1> QED
  BY <1>1, <1>2, <1>4

\* A card pauses the chat's run.
LEMMA ReleaseForCardLives ==
    ASSUME BaseInv, Ends, NEW w \in Waiter, ReleaseForCard(w)
    PROVE  Lived
<1> DEFINE s == runSession[w[1]]
<1>1. w[1] \in launched /\ s \in Session /\ w[1] \in Run
  BY DEF ReleaseForCard, BaseInv, TypeOK, RunsKnown
<1>2. ids' = ids /\ stoppedRuns' = stoppedRuns /\ runSession' = runSession
  BY DEF ReleaseForCard
<1>3. CASE ~ (w[1] \notin cancelled /\ Current(w[1]) /\ s \notin paused)
  <2>1. UNCHANGED lifeVars
    BY <1>2, <1>3 DEF ReleaseForCard, lifeVars
  <2> QED
    BY <2>1, SameLived
<1>4. CASE w[1] \notin cancelled /\ Current(w[1]) /\ s \notin paused
  <2>1. Drain(active, paused \cup {s}, resuming, ahead, queue, runSession)
    BY <1>4 DEF ReleaseForCard
  <2>2. DrainArgs(active, paused \cup {s}, resuming, queue) /\ TypeOK
    BY <1>1 DEF BaseInv, TypeOK, ActiveType, DrainArgs
  <2>3. \A t \in paused \cup {s} : t \in Session /\ active[t] # NoRun
    BY <1>1, <1>4, IdFacts DEF Current, Ends, PauseEndsWithRun, BaseInv, TypeOK
  <2>4. LifeArgs(active, paused \cup {s}, queue, runSession)
    BY <1>2, <2>3 DEF LifeArgs, BaseInv, RunsKnown, Ends, StoppedNeverRuns
  <2>5. /\ queue' \subseteq queue
        /\ launched' = launched \cup (queue \ queue')
        /\ \A r \in launched' \ launched :
              /\ active'[runSession[r]] # NoRun
              /\ runSession[r] \in paused' =>
                    \E x \in launched \ stoppedRuns' : runSession[x] = runSession[r]
    BY <2>1, <2>2, <2>4, DrainLives
  <2> QED
    BY <1>2, <2>5, IdsNat DEF Lived
<1> QED
  BY <1>3, <1>4

\* An answered call takes a slot back, or waits for one.
LEMMA ReacquireLives ==
    ASSUME BaseInv, Ends, NEW w \in Waiter, Reacquire(w)
    PROVE  Lived
<1> DEFINE behind == [ahead EXCEPT ![w] = resuming]
<1>1. stoppedRuns' = stoppedRuns /\ ids' = ids /\ runSession' = runSession
  BY DEF Reacquire
<1>2. CASE UNCHANGED <<active, queue, launched>>
  <2>1. \A r \in Run : ~ (r > ids /\ r <= ids)
    BY IdsNat
  <2> QED
    BY <1>1, <1>2, <2>1, IdsNat DEF Lived
<1>3. CASE Drain(active, paused, resuming \cup {w}, behind, queue, runSession)
  <2>1. DrainArgs(active, paused, resuming \cup {w}, queue) /\ TypeOK
    BY DEF BaseInv, TypeOK, ActiveType, DrainArgs
  <2>2. LifeArgs(active, paused, queue, runSession)
    BY <1>1 DEF LifeArgs, BaseInv, TypeOK, RunsKnown, Ends, StoppedNeverRuns, PauseEndsWithRun
  <2> HIDE DEF behind
  <2>3. /\ queue' \subseteq queue
        /\ launched' = launched \cup (queue \ queue')
        /\ \A r \in launched' \ launched :
              /\ active'[runSession[r]] # NoRun
              /\ runSession[r] \in paused' =>
                    \E x \in launched \ stoppedRuns' : runSession[x] = runSession[r]
    BY <1>3, <2>1, <2>2, DrainLives
  <2> QED
    BY <1>1, <2>3, IdsNat DEF Lived
<1> QED
  BY <1>2, <1>3 DEF Reacquire

\* q holds the queued runs and perhaps the chat's next one, and `of' differs from
\* runSession in that one only.
EndArgs(q, of) ==
    /\ \A y \in q : of[y] \in Session
    /\ \A y \in launched : of[y] = runSession[y]

\* What the end of run r does to the runs.
EndedRun(r, q, of) ==
    /\ stoppedRuns' = stoppedRuns \cup {r}
    /\ queue' \subseteq q
    /\ launched' = launched \cup (q \ queue')
    /\ \A y \in launched' \ launched :
          /\ active'[of[y]] # NoRun
          /\ of[y] \in paused' => \E z \in launched \ stoppedRuns' : of[z] = of[y]

\* The slot of a chat is freed.
LEMMA FreeSlotLives ==
    ASSUME BaseInv, Ends, NEW r \in launched, NEW s \in Session, NEW q \in SUBSET Run, NEW of,
           FreeSlot(r, s, q, of), active[s] = r, EndArgs(q, of)
    PROVE  EndedRun(r, q, of)
<1> DEFINE act == [active EXCEPT ![s] = NoRun]
           res == ForgetWaiter(resuming, s)
<1>1. /\ Drain(act, paused \ {s}, res, ahead, q, of)
      /\ stoppedRuns' = stoppedRuns \cup {r}
  BY DEF FreeSlot
<1>2. DrainArgs(act, paused \ {s}, res, q) /\ TypeOK
  BY DEF DrainArgs, ForgetWaiter, ActiveType, BaseInv, TypeOK
<1>3. LifeArgs(act, paused \ {s}, q, of)
  <2>1. ASSUME NEW t \in paused \ {s}
        PROVE  \E y \in launched \ stoppedRuns' : of[y] = t
    <3>1. t \in Session /\ active[t] # NoRun
      BY DEF BaseInv, TypeOK, Ends, PauseEndsWithRun
    <3>2. active[t] \in launched /\ runSession[active[t]] = t /\ active[t] \notin stoppedRuns
      BY <3>1 DEF BaseInv, RunsKnown, Ends, StoppedNeverRuns
    <3>3. runSession[r] = s
      BY <3>1, IdsNat DEF BaseInv, TypeOK, RunsKnown
    <3>4. active[t] # r
      BY <3>2, <3>3
    <3> QED
      BY <1>1, <3>2, <3>4 DEF EndArgs
  <2> QED
    BY <2>1 DEF LifeArgs, EndArgs
<1> HIDE DEF act, res
<1> QED
  BY <1>1, <1>2, <1>3, DrainLives DEF EndedRun

\* A run ends; the messages that waited behind it may become the chat's next run.
LEMMA FinishLives ==
    ASSUME BaseInv, Ends, NEW r \in Run, Finish(r) \/ ForceFinish(r)
    PROVE  Lived
<1> DEFINE s == runSession[r]
<1>1. r \in launched /\ s \in Session /\ queue \in SUBSET Run
  BY DEF Finish, ForceFinish, BaseInv, TypeOK, RunsKnown
<1>2. \A y \in queue : runSession[y] \in Session
  BY DEF BaseInv, RunsKnown
<1>3. CASE ~ Current(r)
  <2>1. UNCHANGED lifeVars
    BY <1>3 DEF Finish, ForceFinish, schedulerVars, lifeVars
  <2> QED
    BY <2>1, SameLived
<1>4. CASE /\ Current(r) /\ FreeSlot(r, s, queue, runSession)
           /\ ids' = ids /\ runSession' = runSession
  <2>1. active[s] = r
    BY <1>4 DEF Current
  <2> HIDE DEF s
  <2>0. EndArgs(queue, runSession)
    BY <1>2 DEF EndArgs
  <2>2. EndedRun(r, queue, runSession)
    BY <1>1, <1>4, <2>0, <2>1, FreeSlotLives
  <2>3. /\ \A y \in Run : ~ (y > ids /\ y <= ids)
        /\ ids <= ids
    BY IdsNat
  <2>4. \A y \in launched' : y \in launched \cup queue
    BY <2>2 DEF EndedRun
  <2>5. /\ launched \subseteq launched' /\ stoppedRuns \subseteq stoppedRuns'
        /\ queue \subseteq queue' \cup launched'
        /\ stoppedRuns' \subseteq stoppedRuns \cup launched
    BY <1>1, <2>2 DEF EndedRun
  <2> QED
    BY <1>4, <2>2, <2>3, <2>4, <2>5 DEF Lived, EndedRun
<1>5. CASE /\ Current(r) /\ ids < MaxRun /\ ids' = ids + 1
           /\ runSession' = [runSession EXCEPT ![ids'] = s]
           /\ FreeSlot(r, s, queue \cup {ids'}, runSession')
  <2>1. active[s] = r
    BY <1>5 DEF Current
  <2>2. ids' \in Run
    BY <1>5, FreshId
  <2>3. /\ ids <= ids' /\ ids' > ids
        /\ \A y \in Run : y <= ids => y # ids'
        /\ \A y \in Run : y > ids /\ y <= ids' => y = ids'
    BY <1>5, IdsNat
  <2>4. runSession'[ids'] = s /\ \A y \in Run : y <= ids => runSession'[y] = runSession[y]
    BY <1>5, <2>2, <2>3 DEF BaseInv, TypeOK
  <2>5. \A y \in queue \cup launched : y \in Run /\ y <= ids
    BY DEF BaseInv, TypeOK, RunsKnown
  <2>6. queue \cup {ids'} \in SUBSET Run /\ EndArgs(queue \cup {ids'}, runSession')
    BY <1>1, <1>2, <2>2, <2>4, <2>5 DEF EndArgs
  <2> HIDE DEF s
  <2>7. EndedRun(r, queue \cup {ids'}, runSession')
    BY <1>1, <1>5, <2>1, <2>6, FreeSlotLives
  <2>8. /\ \A y \in queue' : y \in queue \/ y = ids'
        /\ \A y \in launched' : y \in launched \cup queue \/ y = ids'
        /\ ids' \in queue' \cup launched'
    BY <2>7 DEF EndedRun
  <2>9. /\ launched \subseteq launched' /\ stoppedRuns \subseteq stoppedRuns'
        /\ queue \subseteq queue' \cup launched'
        /\ stoppedRuns' \subseteq stoppedRuns \cup launched
    BY <1>1, <2>7 DEF EndedRun
  <2> QED
    BY <2>3, <2>4, <2>7, <2>8, <2>9 DEF Lived, EndedRun
<1>6. CASE Finish(r)
  BY <1>3, <1>4, <1>5, <1>6 DEF Finish
<1>7. CASE ForceFinish(r)
  BY <1>3, <1>4, <1>7 DEF ForceFinish
<1> QED
  BY <1>6, <1>7

\* A release gives fresh ids, to chats without a run and so without a pause.
LEMMA ReleaseModelLives ==
    ASSUME BaseInv, Ends, NEW k \in Connection, ReleaseModel(k)
    PROVE  Lived
<1> DEFINE chats == Released(k)
           fresh == Fresh(k)
<1>1. /\ ids + Cardinality(chats) <= MaxRun
      /\ ids' = ids + Cardinality(chats)
      /\ paused' = paused /\ stoppedRuns' = stoppedRuns
  BY DEF ReleaseModel
<1>2. PICK run \in [chats -> fresh], now \in SUBSET chats : StartReleased(k, run, now)
  BY DEF ReleaseModel
<1> DEFINE owner == [r \in fresh |-> CHOOSE s \in chats : run[s] = r]
<1>3. /\ \A s, t \in chats : s # t => run[s] # run[t]
      /\ \A r \in fresh : \E s \in chats : run[s] = r
      /\ active' = [s \in Session |-> IF s \in now THEN run[s] ELSE active[s]]
      /\ launched' = launched \cup {run[s] : s \in now}
      /\ queue' = queue \cup {run[s] : s \in chats \ now}
      /\ runSession' = [r \in Run |-> IF r \in fresh THEN owner[r] ELSE runSession[r]]
  BY <1>2, Zenon DEF StartReleased
<1>4. /\ fresh \subseteq Run /\ Cardinality(chats) \in Nat /\ chats \subseteq Session
      /\ \A r \in fresh : r \in Nat /\ r > ids
  BY <1>1, ReleasedFacts
<1>5. ids <= ids' /\ \A r \in Run : r > ids /\ r <= ids' => r \in fresh
  <2>1. ids' = ids + Cardinality(chats) /\ Cardinality(chats) \in Nat
    BY <1>1, <1>4
  <2>2. ids \in Nat /\ \A r \in Run : r \in Nat
    BY IdsNat
  <2> HIDE DEF chats
  <2>3. fresh = (ids + 1)..(ids + Cardinality(chats))
    BY DEF Fresh, chats
  <2> QED
    BY <2>1, <2>2, <2>3
<1>6. \A r \in fresh : run[owner[r]] = r /\ owner[r] \in chats
  BY <1>3
<1>7. \A s \in chats : run[s] \in fresh /\ owner[run[s]] = s
  BY <1>2, <1>3, <1>6
<1>8. \A s \in chats : s \notin paused /\ s \in Session
  BY <1>4 DEF Released, Ends, PauseEndsWithRun
<1> HIDE DEF chats, fresh, owner
<1>9. \A r \in Run : r <= ids => r \notin fresh
  BY <1>4, IdsNat
<1>10. \A r \in Run : r <= ids => runSession'[r] = runSession[r]
  BY <1>3, <1>9
<1>11. ASSUME NEW r \in launched' \ launched
       PROVE  active'[runSession'[r]] # NoRun /\ runSession'[r] \notin paused'
  <2>1. PICK s \in now : r = run[s]
    BY <1>3
  <2>2. s \in chats /\ s \in Session /\ s \notin paused /\ r \in fresh /\ r \in Run
    BY <1>2, <1>4, <1>7, <1>8, <2>1
  <2>3. runSession'[r] = s
    BY <1>3, <1>7, <2>1, <2>2
  <2>4. active'[s] = r
    BY <1>3, <2>1, <2>2
  <2> QED
    BY <1>1, <2>2, <2>3, <2>4, IdFacts
<1>12. /\ \A r \in queue' : r \in queue \/ r > ids
       /\ \A r \in launched' : r \in launched \/ r > ids
       /\ \A r \in fresh : r \in queue' \cup launched'
  BY <1>2, <1>3, <1>4, <1>7
<1>13. launched \subseteq launched' /\ queue \subseteq queue'
  BY <1>3
<1> QED
  BY <1>1, <1>5, <1>10, <1>11, <1>12, <1>13 DEF Lived

\* Every step of the scheduler.
LEMMA NextLives ==
    ASSUME BaseInv, Ends, [Next]_vars
    PROVE  Lived
<1>1. CASE UNCHANGED vars
  <2>1. UNCHANGED lifeVars
    BY <1>1 DEF vars, schedulerVars, runVars, lifeVars
  <2> QED
    BY <2>1, SameLived
<1>2. ASSUME NEW s \in Session, Submission(s) \/ ChatOperation(s) \/ HoldModel(s) \/ Decide(s)
      PROVE  Lived
  BY <1>2, ChatStepLives, SubmitLives DEF Submission, ChatOperation
<1>3. CASE Stopping
  <2>1. CASE Stop(Session, TRUE)
    BY <2>1, StopLives
  <2>2. ASSUME NEW s \in Session, Stop({s}, FALSE) PROVE Lived
    BY <2>2, StopLives
  <2> QED
    BY <1>3, <2>1, <2>2 DEF Stopping
<1>4. ASSUME NEW r \in Run,
             RunStep(r) \/ WallClock(r) \/ StopReturns(r) \/ ForceFinish(r) \/ HoldInRun(r)
      PROVE  Lived
  BY <1>4, RunStepLives, FinishLives DEF RunStep
<1>5. ASSUME NEW w \in Waiter, CallStep(w) PROVE Lived
  BY <1>5, CallStepLives, ReleaseForCardLives, ReacquireLives DEF CallStep
<1>6. CASE Outage
  BY <1>6, <1>2, <1>4, ReleaseModelLives DEF Outage
<1> QED
  BY <1>1, <1>2, <1>3, <1>4, <1>5, <1>6 DEF Next, Running, Carding

-----------------------------------------------------------------------------
(* The refinement. *)

\* RunLife counts as Scheduler does.
LEMMA SameCardinality == \A S : Life!Cardinality(S) = Cardinality(S)
BY DEF Life!Cardinality, Cardinality

\* Where a run is in its life.
LEMMA LifeOfFacts ==
    ASSUME NEW r \in Run
    PROVE  /\ r \in stoppedRuns => LifeOf[r] = "stopped"
           /\ r \notin stoppedRuns /\ r \in queue => LifeOf[r] = "queued"
           /\ r \notin stoppedRuns /\ r \notin queue /\ r \in launched => LifeOf[r] = "running"
           /\ r \notin stoppedRuns /\ r \notin queue /\ r \notin launched => LifeOf[r] = "none"
BY DEF LifeOf

\* And after a step.
LEMMA LifeOfNext ==
    ASSUME NEW r \in Run
    PROVE  /\ r \in stoppedRuns' => LifeOf'[r] = "stopped"
           /\ r \notin stoppedRuns' /\ r \in queue' => LifeOf'[r] = "queued"
           /\ r \notin stoppedRuns' /\ r \notin queue' /\ r \in launched' => LifeOf'[r] = "running"
           /\ r \notin stoppedRuns' /\ r \notin queue' /\ r \notin launched' => LifeOf'[r] = "none"
BY DEF LifeOf

\* No run id is lost.
LEMMA NextAccounted ==
    ASSUME BaseInv, RunsAccounted, Lived
    PROVE  RunsAccounted'
<1>1. ASSUME NEW r \in Run, r <= ids' PROVE r \in queue' \cup launched' \cup stoppedRuns'
  <2>1. CASE r <= ids
    BY <2>1 DEF RunsAccounted, Lived
  <2>2. CASE r > ids
    BY <1>1, <2>2 DEF Lived
  <2> QED
    BY <2>1, <2>2, IdsNat
<1> QED
  BY <1>1 DEF RunsAccounted

\* A life only goes on.
LEMMA LivesGoOn ==
    ASSUME EndInv, EndInv', Lived, NEW r \in Run
    PROVE  LifeOf'[r] \in Life!Onward(LifeOf[r])
<1>1. /\ launched \subseteq launched' /\ stoppedRuns \subseteq stoppedRuns'
      /\ queue \subseteq queue' \cup launched' \cup stoppedRuns'
      /\ stoppedRuns' \subseteq stoppedRuns \cup queue \cup launched
  BY DEF Lived
<1>2. queue \cap launched = {} /\ queue' \cap launched' = {}
  BY DEF EndInv, RunsDistinct
<1>3. CASE r \in stoppedRuns
  BY <1>1, <1>3, LifeOfFacts, LifeOfNext DEF Life!Onward
<1>4. CASE r \notin stoppedRuns /\ r \in queue
  BY <1>1, <1>4, LifeOfFacts, LifeOfNext DEF Life!Onward
<1>5. CASE r \notin stoppedRuns /\ r \notin queue /\ r \in launched
  BY <1>1, <1>2, <1>5, LifeOfFacts, LifeOfNext DEF Life!Onward
<1>6. CASE r \notin stoppedRuns /\ r \notin queue /\ r \notin launched
  BY <1>1, <1>6, LifeOfFacts, LifeOfNext DEF Life!Onward
<1> QED
  BY <1>3, <1>4, <1>5, <1>6

\* The ids given out are the runs begun, in order.
LEMMA BegunAreIds ==
    ASSUME EndInv, RunsAccounted
    PROVE  Life!Begun(LifeOf) = 1..ids /\ Cardinality(Life!Begun(LifeOf)) = ids
<1>1. ids \in 0..MaxRun /\ ids \in Nat /\ MaxRun \in Nat
  BY BoundAssumption DEF EndInv, TypeOK
<1>2. Life!Run = Run
  BY DEF Life!Run, Run
<1>3. \A r \in Run : r \in queue \cup launched \cup stoppedRuns <=> r <= ids
  BY DEF EndInv, TypeOK, RunsKnown, RunsDistinct, RunsAccounted
<1>4. \A r \in Run : LifeOf[r] # "none" <=> r <= ids
  BY <1>3, LifeOfFacts
<1>5. Life!Begun(LifeOf) = {r \in Run : r <= ids}
  BY <1>2, <1>4 DEF Life!Begun
<1>6. {r \in Run : r <= ids} = 1..ids
  BY <1>1 DEF Run
<1>7. Cardinality(1..ids) = ids
  BY <1>1, FS_Interval
<1> QED
  BY <1>5, <1>6, <1>7

\* A run that starts alone in its chat holds a model.
LEMMA StartHolds ==
    ASSUME EndInv, EndInv', Lived, NEW r \in Run,
           LifeOf[r] # "running", LifeOf'[r] = "running",
           \A q \in Run : runSession'[q] = runSession'[r] /\ q # r => LifeOf'[q] # "running"
    PROVE  runSession'[r] \in Using(active', paused')
<1>1. r \in launched' \ launched
  BY LifeOfFacts, LifeOfNext DEF EndInv, RunsDistinct, Lived
<1>2. runSession'[r] \in Session
  BY <1>1 DEF EndInv, RunsKnown
<1>3. active'[runSession'[r]] # NoRun
  BY <1>1 DEF Lived
<1>4. runSession'[r] \notin paused'
  <2>1. SUFFICES ASSUME runSession'[r] \in paused' PROVE FALSE
    OBVIOUS
  <2>2. PICK q \in launched \ stoppedRuns' : runSession'[q] = runSession'[r]
    BY <1>1, <2>1 DEF Lived
  <2>3. q \in Run /\ q \in launched' /\ q # r
    BY <1>1 DEF EndInv, TypeOK, Lived
  <2>4. q \notin queue'
    BY <2>3 DEF EndInv, RunsDistinct
  <2>5. LifeOf'[q] = "running"
    BY <2>2, <2>3, <2>4, LifeOfNext
  <2> QED
    BY <2>2, <2>3, <2>5
<1> QED
  BY <1>2, <1>3, <1>4 DEF Using

HoldersRun ==
    \A s \in Using(active, paused) :
        \E r \in Run : runSession[r] = s /\ LifeOf[r] = "running"

\* A chat holds a model for its run, which has started and not ended.
LEMMA HolderRuns == EndInv => HoldersRun
<1> SUFFICES ASSUME EndInv, NEW s \in Using(active, paused)
             PROVE  \E r \in Run : runSession[r] = s /\ LifeOf[r] = "running"
  BY DEF HoldersRun
<1>1. s \in Session /\ active[s] # NoRun
  BY DEF Using
<1>2. active[s] \in launched /\ runSession[active[s]] = s /\ active[s] \in Run
  BY <1>1 DEF EndInv, TypeOK, RunsKnown
<1>3. active[s] \notin stoppedRuns /\ active[s] \notin queue
  BY <1>1, <1>2 DEF EndInv, RunsDistinct, StoppedNeverRuns
<1> QED
  BY <1>2, <1>3, LifeOfFacts

\* The invariant of the refinement.
LifeInv == EndInv /\ SlotInv /\ RunsAccounted

\* Every step is a step of RunLife.
LEMMA StepLives ==
    ASSUME LifeInv, LifeInv', Lived
    PROVE  Life!LifeStep
<1>1. Life!Run = Run
  BY DEF Life!Run, Run
<1>2. \A r \in Run : LifeOf'[r] \in Life!Onward(LifeOf[r])
  BY LivesGoOn DEF LifeInv
<1>3. Life!Begun(LifeOf') = 1..Cardinality(Life!Begun(LifeOf'))
  <2>1. (Life!Begun(LifeOf) = 1..ids /\ Cardinality(Life!Begun(LifeOf)) = ids)'
    BY BegunAreIds, PTL DEF LifeInv
  <2> QED
    BY <2>1
<1>4. \A r \in Life!Begun(LifeOf) : runSession'[r] = runSession[r]
  <2>1. Life!Begun(LifeOf) = 1..ids
    BY BegunAreIds DEF LifeInv
  <2>2. \A r \in 1..ids : r \in Run /\ r <= ids
    BY BoundAssumption DEF LifeInv, EndInv, TypeOK, Run
  <2> QED
    BY <2>1, <2>2 DEF Lived
<1>5. \A r \in Run :
         /\ LifeOf[r] # "running" /\ LifeOf'[r] = "running"
         /\ \A q \in Run : runSession'[q] = runSession'[r] /\ q # r => LifeOf'[q] # "running"
         => runSession'[r] \in Using(active', paused')
  BY StartHolds DEF LifeInv
<1>6. \A s \in Using(active', paused') :
         \E r \in Run : runSession'[r] = s /\ LifeOf'[r] = "running"
  <2>1. HoldersRun'
    BY HolderRuns, PTL DEF LifeInv
  <2> QED
    BY <2>1 DEF HoldersRun, Using
<1>7. Life!WithinLimits(Using(active', paused'))
  <2>1. Using(active', paused') = {s \in Session : active'[s] # NoRun /\ s \notin paused'}
    BY DEF Using
  <2>2. SlotLimits'
    BY DEF LifeInv, SlotInv
  <2>3. /\ Cardinality(Using(active', paused')) <= MaxConcurrent
        /\ \A k \in Connection :
              Cardinality({s \in Using(active', paused') : ConnectionOf[s] = k})
                <= ConnectionLimit[k]
    BY <2>1, <2>2 DEF SlotLimits
  <2> QED
    BY <2>3, SameCardinality DEF Life!WithinLimits
<1>8. Life!Begun(LifeOf') = 1..Life!Cardinality(Life!Begun(LifeOf'))
  BY <1>3, SameCardinality
<1>9. Using(active, paused)' = Using(active', paused')
  BY DEF Using
<1> QED
  BY <1>1, <1>2, <1>4, <1>5, <1>6, <1>7, <1>8, <1>9, Zenon DEF Life!LifeStep

\* The scheduler implements RunLife: whatever submissions, cards, answers, stops,
\* deadlines and late goroutines do, a run gets the next id, starts at most once, ends
\* at most once and for good, holds a model when it starts alone in its chat, and no
\* more chats hold one than the limits allow.
THEOREM RunsLeadOneLife == Spec => ImplementsRunLife
<1>1. Init => RunsAccounted
  <2>1. Init => ids = 0
    BY DEF Init
  <2>2. \A r \in Run : ~ (r <= 0)
    BY BoundAssumption DEF Run
  <2> QED
    BY <2>1, <2>2 DEF RunsAccounted
<1>2. EndInv => BaseInv /\ Ends
  BY DEF EndInv, BaseInv, Ends
<1>3. EndInv /\ [Next]_vars => Lived
  BY <1>2, NextLives
<1>4. EndInv /\ RunsAccounted /\ [Next]_vars => RunsAccounted'
  BY <1>2, <1>3, NextAccounted
<1>5. Spec => []LifeInv
  <2>1. EndInv /\ [Next]_vars => EndInv'
    BY NextEnds
  <2>2. Spec => [](EndInv /\ RunsAccounted)
    BY <1>1, <1>4, <2>1, InitEnds, PTL DEF Spec
  <2> QED
    BY <2>2, SlotInvHolds, PTL DEF LifeInv
<1>6. Init => Life!LifeInit
  <2>1. ASSUME Init PROVE LifeOf = [r \in Life!Run |-> "none"] /\ Using(active, paused) = {}
    BY <2>1 DEF Init, LifeOf, Using, Life!Run, Run
  <2> QED
    BY <2>1 DEF Life!LifeInit
<1>7. LifeInv /\ LifeInv' /\ [Next]_vars => [Life!LifeStep]_(Life!runLifeVars)
  BY <1>3, StepLives DEF LifeInv
<1> QED
  BY <1>5, <1>6, <1>7, PTL DEF Spec, ImplementsRunLife, Life!LifeSpec

-----------------------------------------------------------------------------
(* The order in which runs start. *)

\* A run starts before the runs of its connection that go on waiting, and not while an
\* answered call of its connection waits.
InOrder(of) ==
    /\ \A r \in launched' \ launched, x \in queue' :
          ConnectionOf[of[r]] = ConnectionOf[of[x]] => r < x
    /\ \A r \in launched' \ launched, w \in resuming' :
          ConnectionOf[of[r]] # ConnectionOf[of[w[1]]]

\* A chat is admitted with fewer chats at work, and so is every other chat of its
\* connection.
LEMMA AdmittedToo ==
    ASSUME NEW v \in SUBSET Session, NEW u \in SUBSET v, NEW s \in Session, NEW t \in Session,
           Admits(v, s), ConnectionOf[s] = ConnectionOf[t]
    PROVE  Admits(u, t)
<1>1. Admits(v, t)
  BY DEF Admits
<1> QED
  BY <1>1, StillFull

\* The runs and the waiters of a drain belong to chats.
OrderArgs(act, res, q, of) ==
    /\ act \in ActiveType /\ q \in SUBSET Run /\ res \in SUBSET Waiter
    /\ \A r \in q : of[r] \in Session
    /\ \A w \in res : of[w[1]] \in Session

\* A drain starts runs in the order of the queue and after the answered calls.
LEMMA DrainInOrder ==
    ASSUME NEW act, NEW pau, NEW res, NEW ah, NEW q, NEW of, OrderArgs(act, res, q, of),
           Drain(act, pau, res, ah, q, of)
    PROVE  InOrder(of)
<1>0. /\ act \in ActiveType /\ q \in SUBSET Run /\ res \in SUBSET Waiter
      /\ \A r \in q : of[r] \in Session
      /\ \A w \in res : of[w[1]] \in Session
  BY DEF OrderArgs
<1>1. PICK W \in SUBSET res, D \in SUBSET q :
        /\ TakesWaiters(act, pau, res, ah, of, W)
        /\ TakesQueued(act, pau \ ChatsOf(of, W), q, of, D)
        /\ resuming' = res \ W
        /\ queue' = q \ D
        /\ launched' = launched \cup D
  BY DEF Drain
<1> DEFINE left == pau \ ChatsOf(of, W)
           Before(r) == {x \in D : x < r}
           use(r) == Using(Started(act, of, Before(r)), left)
<1>2. \A r \in q : of[r] \in Session /\ (r \in D <=> Admits(use(r), of[r]))
  BY <1>0, <1>1 DEF TakesQueued
<1>3. \A r : use(r) \in SUBSET Session
  BY UsingType
<1>4. ASSUME NEW r \in launched' \ launched, NEW x \in queue',
             ConnectionOf[of[r]] = ConnectionOf[of[x]]
      PROVE  r < x
  <2>1. /\ r \in D /\ x \in q \ D /\ r \in Nat /\ x \in Nat /\ r # x
        /\ of[r] \in Session /\ of[x] \in Session
    BY <1>0, <1>1, IdFacts
  <2>2. SUFFICES ASSUME x < r PROVE FALSE
    BY <2>1
  <2>3. Before(x) \in SUBSET Before(r) /\ Before(r) \in SUBSET Run
    <3>1. \A y \in D : y \in Run /\ y \in Nat
      BY <1>0, IdFacts
    <3>2. \A y \in D : y < x => y < r
      BY <3>1, <2>1, <2>2
    <3> QED
      BY <3>1, <3>2
  <2>4. use(x) \in SUBSET use(r)
    BY <1>0, <2>3, StartedGrows
  <2>5. Admits(use(r), of[r]) /\ ~ Admits(use(x), of[x])
    BY <1>2, <2>1
  <2> HIDE DEF use
  <2> QED
    BY <1>3, <1>4, <2>1, <2>4, <2>5, AdmittedToo
<1>5. ASSUME NEW r \in launched' \ launched, NEW w \in resuming',
             ConnectionOf[of[r]] = ConnectionOf[of[w[1]]]
      PROVE  FALSE
  <2> DEFINE u == Using(act, pau \ ChatsOf(of, W \cap ah[w]))
  <2>1. r \in D /\ of[r] \in Session /\ of[w[1]] \in Session /\ ~ Admits(u, of[w[1]])
    BY <1>0, <1>1 DEF TakesWaiters
  <2>2. Admits(use(r), of[r])
    BY <1>2, <2>1
  <2>3. u \in SUBSET use(r)
    <3>1. u \in SUBSET Using(act, left)
      BY DEF Using, ChatsOf
    <3>2. Before(r) \in SUBSET Run
      BY <1>0
    <3>3. \A s \in Session : \/ Started(act, of, Before(r))[s] = act[s]
                             \/ Started(act, of, Before(r))[s] \in Run
      BY <1>0, <3>2, StartedFacts
    <3>4. Using(act, left) \in SUBSET use(r)
      <4> HIDE DEF Before, left
      <4> QED
        BY <3>3, IdFacts DEF Using
    <3> HIDE DEF u, use
    <3> QED
      BY <3>1, <3>4
  <2> HIDE DEF use, u
  <2> QED
    BY <1>3, <1>5, <2>1, <2>2, <2>3, AdmittedToo
<1> QED
  BY <1>4, <1>5 DEF InOrder

\* A step that starts no run.
LEMMA NoStart ==
    ASSUME launched' = launched
    PROVE  InOrder(runSession')
BY DEF InOrder

\* A submission starts a run only when nobody of its connection waits.
LEMMA SubmitInOrder ==
    ASSUME BaseInv, Slots, NEW s \in Session, SubmitStart(s) \/ SubmitQueue(s)
    PROVE  InOrder(runSession')
<1>1. CASE SubmitQueue(s)
  BY <1>1, NoStart DEF SubmitQueue
<1>2. CASE SubmitStart(s)
  <2>1. /\ ids < MaxRun /\ ids' = ids + 1 /\ runSession' = [runSession EXCEPT ![ids'] = s]
        /\ queue' = queue /\ resuming' = resuming /\ launched' = launched \cup {ids'}
        /\ Admits(InUse, s)
    BY <1>2 DEF SubmitStart, NewRun, InUse
  <2>2. runSession'[ids'] = s
    BY <2>1, IdFacts DEF BaseInv, TypeOK
  <2>3. \A r \in queue \cup launched : r # ids' /\ runSession'[r] = runSession[r]
    <3>1. \A r \in queue \cup launched : r \in Run /\ r <= ids
      BY DEF BaseInv, TypeOK, RunsKnown
    <3>2. \A r \in queue \cup launched : r # ids'
      BY <2>1, <3>1, IdFacts DEF BaseInv, TypeOK
    <3> QED
      BY <2>1, <3>1, <3>2 DEF BaseInv, TypeOK
  <2>4. \A w \in resuming : w[1] \in launched
    BY DEF BaseInv, TypeOK, RunsKnown
  <2>5. ASSUME NEW t \in Session, ~ Admits(InUse, t) PROVE ConnectionOf[s] # ConnectionOf[t]
    BY <2>1, <2>5 DEF Admits
  <2>6. /\ \A r \in queue' : ConnectionOf[s] # ConnectionOf[runSession'[r]]
        /\ \A w \in resuming' : ConnectionOf[s] # ConnectionOf[runSession'[w[1]]]
    BY <2>1, <2>3, <2>4, <2>5, WaiterChats DEF Slots, Waits
  <2> QED
    BY <2>1, <2>2, <2>6 DEF InOrder
<1> QED
  BY <1>1, <1>2

\* A card and an answer drain the lists.
LEMMA CardsInOrder ==
    ASSUME BaseInv, NEW w \in Waiter, ReleaseForCard(w) \/ Reacquire(w)
    PROVE  InOrder(runSession')
<1> DEFINE s == runSession[w[1]]
           behind == [ahead EXCEPT ![w] = resuming]
<1>1. s \in Session /\ runSession' = runSession
  BY DEF ReleaseForCard, Reacquire, BaseInv, TypeOK, RunsKnown
<1>2. /\ OrderArgs(active, resuming, queue, runSession)
      /\ OrderArgs(active, resuming \cup {w}, queue, runSession)
  BY <1>1, WaiterChats DEF OrderArgs, BaseInv, TypeOK, ActiveType
<1>3. CASE launched' = launched
  BY <1>3, NoStart
<1> HIDE DEF s, behind
<1>4. CASE Drain(active, paused \cup {s}, resuming, ahead, queue, runSession)
  BY <1>1, <1>2, <1>4, DrainInOrder
<1>5. CASE Drain(active, paused, resuming \cup {w}, behind, queue, runSession)
  BY <1>1, <1>2, <1>5, DrainInOrder
<1> QED
  BY <1>3, <1>4, <1>5 DEF ReleaseForCard, Reacquire, s, behind

\* A run ends and its slot goes to the first that can take it.
LEMMA FinishInOrder ==
    ASSUME BaseInv, NEW r \in Run, Finish(r) \/ ForceFinish(r)
    PROVE  InOrder(runSession')
<1> DEFINE s == runSession[r]
           act == [active EXCEPT ![s] = NoRun]
           res == ForgetWaiter(resuming, s)
<1>1. s \in Session /\ queue \in SUBSET Run /\ act \in ActiveType /\ res \subseteq resuming
      /\ res \in SUBSET Waiter
  BY DEF Finish, ForceFinish, BaseInv, TypeOK, RunsKnown, ActiveType, ForgetWaiter
<1>2. /\ \A x \in queue : x \in Run /\ x <= ids /\ runSession[x] \in Session
      /\ \A w \in resuming : w[1] \in Run /\ w[1] <= ids /\ runSession[w[1]] \in Session
  BY WaiterChats, WaiterFacts DEF BaseInv, TypeOK, RunsKnown
<1>3. CASE launched' = launched
  BY <1>3, NoStart
<1>4. CASE FreeSlot(r, s, queue, runSession) /\ runSession' = runSession
  <2>1. Drain(act, paused \ {s}, res, ahead, queue, runSession)
    BY <1>4 DEF FreeSlot
  <2>2. OrderArgs(act, res, queue, runSession)
    BY <1>1, <1>2 DEF OrderArgs
  <2> HIDE DEF s, act, res
  <2> QED
    BY <1>4, <2>1, <2>2, DrainInOrder
<1>5. CASE /\ ids < MaxRun /\ ids' = ids + 1 /\ runSession' = [runSession EXCEPT ![ids'] = s]
           /\ FreeSlot(r, s, queue \cup {ids'}, runSession')
  <2>1. Drain(act, paused \ {s}, res, ahead, queue \cup {ids'}, runSession')
    BY <1>5 DEF FreeSlot
  <2>2. ids' \in Run /\ \A x \in Run : x <= ids => x # ids'
    BY <1>5, IdFacts DEF BaseInv, TypeOK
  <2>3. runSession'[ids'] = s /\ \A x \in Run : x <= ids => runSession'[x] = runSession[x]
    BY <1>5, <2>2 DEF BaseInv, TypeOK
  <2> HIDE DEF s, act, res
  <2>4. OrderArgs(act, res, queue \cup {ids'}, runSession')
    BY <1>1, <1>2, <2>2, <2>3 DEF OrderArgs
  <2> QED
    BY <2>1, <2>4, DrainInOrder
<1>6. CASE Finish(r)
  BY <1>3, <1>4, <1>5, <1>6 DEF Finish
<1>7. CASE ForceFinish(r)
  BY <1>3, <1>4, <1>7 DEF ForceFinish
<1> QED
  BY <1>6, <1>7

\* Released chats start before the ones that are queued after them, and only when
\* nobody of their connection waited already.
LEMMA ReleaseInOrder ==
    ASSUME BaseInv, Slots, NEW k \in Connection, ReleaseModel(k)
    PROVE  InOrder(runSession')
<1> DEFINE chats == Released(k)
           fresh == Fresh(k)
<1>1. /\ ids + Cardinality(chats) <= MaxRun
      /\ paused' = paused /\ resuming' = resuming
  BY DEF ReleaseModel
<1>2. PICK run \in [chats -> fresh], now \in SUBSET chats : StartReleased(k, run, now)
  BY DEF ReleaseModel
<1> DEFINE owner == [r \in fresh |-> CHOOSE s \in chats : run[s] = r]
           upto(s) == [t \in Session |-> IF t \in now /\ run[t] < run[s]
                                           THEN run[t] ELSE active[t]]
           use(s) == Using(upto(s), paused)
<1>3. /\ \A s, t \in chats : s # t => run[s] # run[t]
      /\ \A s \in chats : s \in now <=> Admits(use(s), s)
      /\ launched' = launched \cup {run[s] : s \in now}
      /\ queue' = queue \cup {run[s] : s \in chats \ now}
      /\ runSession' = [r \in Run |-> IF r \in fresh THEN owner[r] ELSE runSession[r]]
  BY <1>2, Zenon DEF StartReleased
<1>4. /\ chats \subseteq Session /\ fresh \subseteq Run
      /\ \A r \in fresh : r \in Nat /\ r > ids /\ r # NoRun
  BY <1>1, ReleasedFacts, IdFacts
<1>5. \A s \in chats : run[s] \in fresh /\ run[s] \in Nat /\ s \in Session
  BY <1>2, <1>4
<1>6. ASSUME NEW s \in chats PROVE runSession'[run[s]] = s
  <2>1. owner[run[s]] \in chats /\ run[owner[run[s]]] = run[s]
    <3>1. \E t \in chats : run[t] = run[s]
      OBVIOUS
    <3>2. run[s] \in fresh
      BY <1>5
    <3> HIDE DEF chats, fresh
    <3> QED
      BY <3>1, <3>2
  <2> HIDE DEF owner, chats, fresh
  <2> QED
    BY <2>1, <1>3, <1>4, <1>5
<1>7. \A r \in queue \cup launched : r \in Run /\ r \notin fresh
  <2>1. \A r \in queue \cup launched : r \in Run /\ r <= ids
    BY DEF BaseInv, TypeOK, RunsKnown
  <2> QED
    BY <2>1, <1>4, IdFacts DEF BaseInv, TypeOK
<1>8. /\ \A r \in queue : runSession'[r] = runSession[r]
      /\ \A w \in resuming : runSession'[w[1]] = runSession[w[1]]
  <2>1. \A w \in resuming : w[1] \in launched
    BY DEF BaseInv, TypeOK, RunsKnown
  <2> HIDE DEF chats, fresh, owner
  <2> QED
    BY <2>1, <1>3, <1>7
<1>9. \A s \in chats : use(s) \in SUBSET Session /\ InUse \in SUBSET use(s)
  <2> HIDE DEF chats, fresh
  <2> QED
    BY <1>2, <1>4, <1>5 DEF InUse, Using
<1>10. \A s, t \in chats : run[s] < run[t] => use(s) \in SUBSET use(t)
  <2>1. ASSUME NEW s \in chats, NEW t \in chats, run[s] < run[t], NEW v \in use(s)
        PROVE  v \in use(t)
    <3>1. v \in Session /\ v \notin paused /\ upto(s)[v] # NoRun
      BY DEF Using
    <3>2. v \in now => run[v] \in Nat /\ run[v] # NoRun
      BY <1>4, <1>5
    <3>3. upto(t)[v] # NoRun
      BY <1>5, <2>1, <3>1, <3>2
    <3> QED
      BY <3>1, <3>3 DEF Using
  <2> QED
    BY <2>1
<1> HIDE DEF chats, fresh, owner, upto, use
<1>11. ASSUME NEW r \in launched' \ launched
       PROVE  /\ \A x \in queue' :
                    ConnectionOf[runSession'[r]] = ConnectionOf[runSession'[x]] => r < x
              /\ \A w \in resuming' :
                    ConnectionOf[runSession'[r]] # ConnectionOf[runSession'[w[1]]]
  <2>1. PICK s \in now : r = run[s]
    BY <1>3
  <2>2. s \in chats /\ s \in Session /\ Admits(use(s), s) /\ runSession'[r] = s
    BY <1>2, <1>3, <1>5, <1>6, <2>1
  <2>3. ASSUME NEW t \in Session, ~ Admits(InUse, t) PROVE ConnectionOf[s] # ConnectionOf[t]
    BY <1>9, <2>2, <2>3, AdmittedToo
  <2>4. \A x \in queue : ConnectionOf[s] # ConnectionOf[runSession'[x]]
    BY <1>8, <2>3, WaiterChats DEF Slots, Waits
  <2>5. \A w \in resuming : ConnectionOf[s] # ConnectionOf[runSession'[w[1]]]
    BY <1>8, <2>3, WaiterChats DEF Slots, Waits
  <2>6. ASSUME NEW t \in chats \ now, ConnectionOf[s] = ConnectionOf[t] PROVE run[s] < run[t]
    <3>1. ~ Admits(use(t), t) /\ t \in Session /\ t # s
      BY <1>3, <1>5
    <3>2. ~ (use(t) \in SUBSET use(s))
      BY <1>9, <2>2, <2>6, <3>1, AdmittedToo
    <3>3. ~ (run[t] < run[s])
      BY <1>10, <2>2, <3>2
    <3>4. run[t] # run[s] /\ run[t] \in Nat /\ run[s] \in Nat
      BY <1>3, <1>5, <2>2, <3>1
    <3> QED
      BY <3>3, <3>4
  <2>7. ASSUME NEW x \in queue', ConnectionOf[s] = ConnectionOf[runSession'[x]] PROVE r < x
    <3>1. x \notin queue
      BY <2>4, <2>7
    <3>2. PICK t \in chats \ now : x = run[t]
      BY <1>3, <3>1
    <3>3. runSession'[x] = t
      BY <1>6, <3>2
    <3> QED
      BY <2>1, <2>6, <2>7, <3>2, <3>3
  <2> QED
    BY <1>1, <2>2, <2>5, <2>7
<1> QED
  BY <1>11 DEF InOrder

\* Every step starts runs in order.
LEMMA NextInOrder ==
    ASSUME BaseInv, Slots, [Next]_vars
    PROVE  InOrder(runSession')
<1>1. CASE UNCHANGED vars
  BY <1>1, NoStart DEF vars, runVars
<1>2. ASSUME NEW s \in Session, Submission(s) \/ ChatOperation(s) \/ HoldModel(s) \/ Decide(s)
      PROVE  InOrder(runSession')
  BY <1>2, ChatStepSame, NoStart, SubmitInOrder DEF Submission, ChatOperation, endVars
<1>3. CASE Stopping
  BY <1>3, NoStart DEF Stopping, Stop
<1>4. ASSUME NEW r \in Run,
             RunStep(r) \/ WallClock(r) \/ StopReturns(r) \/ ForceFinish(r) \/ HoldInRun(r)
      PROVE  InOrder(runSession')
  BY <1>4, RunStepSame, NoStart, FinishInOrder DEF RunStep, endVars
<1>5. ASSUME NEW w \in Waiter, CallStep(w) PROVE InOrder(runSession')
  BY <1>5, CallStepSame, NoStart, CardsInOrder DEF CallStep, endVars
<1>6. CASE Outage
  BY <1>6, <1>2, <1>4, ReleaseInOrder DEF Outage
<1> QED
  BY <1>1, <1>2, <1>3, <1>4, <1>5, <1>6 DEF Next, Running, Carding

\* Runs of one connection start in the order they were queued, and a run that never
\* queued does not pass one that did: the queue is walked from its head, and a
\* submission or a release is admitted only where nobody waits.
THEOREM StartsInOrder == Spec => FirstComeFirstServed
<1> DEFINE I == BaseInv /\ Slots /\ List
<1>1. I /\ [Next]_vars => I'
  BY NextSlots
<1>2. Init => I
  BY InitSlots
<1>3. I /\ [Next]_vars =>
        [\A r \in launched' \ launched, x \in queue' :
            ConnectionOf[runSession'[r]] = ConnectionOf[runSession'[x]] => r < x]_vars
  BY NextInOrder DEF InOrder
<1> HIDE DEF I
<1> QED
  BY <1>1, <1>2, <1>3, PTL DEF Spec, FirstComeFirstServed

\* An answered call takes a slot back before any run starts on its connection: the first
\* loop of drainLocked comes before the second, and every other place that starts a run
\* finds the connection full while a call waits for it.
THEOREM AnsweredFirst == Spec => ResumeFirst
<1> DEFINE I == BaseInv /\ Slots /\ List
<1>1. I /\ [Next]_vars => I'
  BY NextSlots
<1>2. Init => I
  BY InitSlots
<1>3. I /\ [Next]_vars =>
        [\A r \in launched' \ launched, w \in resuming' :
            ConnectionOf[runSession'[r]] # ConnectionOf[runSession'[w[1]]]]_vars
  BY NextInOrder DEF InOrder
<1> HIDE DEF I
<1> QED
  BY <1>1, <1>2, <1>3, PTL DEF Spec, ResumeFirst

-----------------------------------------------------------------------------
(* Cards. *)

\* A card belongs to a call that has asked and has not gone on.
CardHasCall ==
    \A w \in Waiter : decision[w] # "none" => call[w] \in {"carded", "waiting", "resuming", "resumed"}

\* The run of a card keeps its chat.
LEMMA CardKeepsChat ==
    ASSUME BaseInv, CardHasCall, Lived, NEW w \in Waiter, decision[w] # "none"
    PROVE  runSession'[w[1]] = runSession[w[1]]
<1>1. w[1] \in launched /\ w[1] \in Run
  BY WaiterFacts DEF CardHasCall, BaseInv, RunsKnown
<1>2. w[1] <= ids
  BY <1>1 DEF BaseInv, RunsKnown
<1> QED
  BY <1>1, <1>2 DEF Lived

Carded == OpenCardIsShown /\ CardHasCall

\* A step that opens, answers and closes no card.
LEMMA SameCards ==
    ASSUME BaseInv, Carded, Lived, UNCHANGED gateVars
    PROVE  Carded'
<1>1. call' = call /\ card' = card /\ decision' = decision
  BY DEF gateVars
<1>2. OpenCardIsShown'
  BY <1>1, CardKeepsChat DEF Carded, OpenCardIsShown
<1> QED
  BY <1>1, <1>2 DEF Carded, CardHasCall

\* New tool calls start when every call of the run has returned.
LEMMA AnswerToolsCards ==
    ASSUME BaseInv, Carded, Lived, NEW r \in Run, NEW C \in SUBSET Call, AnswerTools(r, C)
    PROVE  Carded'
<1>1. /\ pc[r] = "turn" /\ card' = card /\ decision' = decision
      /\ call' = [w \in Waiter |-> IF w \in {r} \X C THEN "work" ELSE call[w]]
  BY DEF AnswerTools, Moves
<1>2. \A w \in {r} \X C : w[1] = r
  OBVIOUS
<1>3. \A w \in Waiter : w \in {r} \X C => call[w] = "idle"
  BY <1>1, <1>2 DEF BaseInv, RunsKnown
<1>4. CardHasCall'
  BY <1>1, <1>3 DEF Carded, CardHasCall
<1>5. OpenCardIsShown'
  BY <1>1, CardKeepsChat DEF Carded, OpenCardIsShown
<1> QED
  BY <1>4, <1>5 DEF Carded

\* A card is opened in the place of the one its chat showed, which is superseded.
LEMMA BeginWaitCards ==
    ASSUME BaseInv, Carded, NEW w \in Waiter, BeginWait(w)
    PROVE  Carded'
<1> DEFINE s == runSession[w[1]]
<1>1. /\ call[w] = "work" /\ call' = [call EXCEPT ![w] = "carded"]
      /\ card' = [card EXCEPT ![s] = w] /\ decision' = Supersede(w)
      /\ runSession' = runSession
  BY DEF BeginWait, runVars
<1>2. s \in Session /\ card'[s] = w /\ \A t \in Session : t # s => card'[t] = card[t]
  BY <1>1 DEF BaseInv, TypeOK, RunsKnown
<1>3. /\ \A v \in Waiter : v # w => call'[v] = call[v]
      /\ call'[w] = "carded"
  BY <1>1 DEF BaseInv, TypeOK
<1>4. ASSUME NEW v \in Waiter, v # w
      PROVE  \/ decision'[v] = decision[v] /\ ~ (v = card[s] /\ decision[v] = "open")
             \/ decision'[v] = "superseded" /\ decision[v] = "open"
  BY <1>1, <1>4 DEF Supersede
<1>5. CardHasCall'
  BY <1>3, <1>4 DEF Carded, CardHasCall
<1>6. ASSUME NEW v \in Waiter, decision'[v] = "open" PROVE card'[runSession'[v[1]]] = v
  <2>1. CASE v = w
    BY <1>1, <1>2, <2>1
  <2>2. CASE v # w
    <3>1. decision[v] = "open" /\ v # card[s]
      BY <1>4, <1>6, <2>2
    <3>2. card[runSession[v[1]]] = v
      BY <3>1 DEF Carded, OpenCardIsShown
    <3>3. runSession[v[1]] \in Session
      BY <3>1 DEF Carded, CardHasCall, BaseInv, RunsKnown
    <3>4. runSession[v[1]] # s
      BY <3>1, <3>2
    <3> QED
      BY <1>1, <1>2, <3>2, <3>3, <3>4
  <2> QED
    BY <2>1, <2>2
<1> QED
  BY <1>5, <1>6 DEF Carded, OpenCardIsShown

\* A wait that returns takes its own card away.
LEMMA UncardCards ==
    ASSUME BaseInv, Carded, NEW w \in Waiter, Uncard(w), runSession' = runSession,
           NEW v, call' = [call EXCEPT ![w] = v]
    PROVE  Carded'
<1>1. /\ card' = [s \in Session |-> IF card[s] = w THEN NoCard ELSE card[s]]
      /\ decision' = [decision EXCEPT ![w] = "none"]
  BY DEF Uncard
<1>2. decision'[w] = "none" /\ \A u \in Waiter : u # w => decision'[u] = decision[u] /\ call'[u] = call[u]
  BY <1>1 DEF BaseInv, TypeOK
<1>3. CardHasCall'
  BY <1>2 DEF Carded, CardHasCall
<1>4. ASSUME NEW u \in Waiter, decision'[u] = "open" PROVE card'[runSession'[u[1]]] = u
  <2>1. u # w /\ decision[u] = "open"
    BY <1>2, <1>4
  <2>2. card[runSession[u[1]]] = u /\ runSession[u[1]] \in Session
    BY <2>1 DEF Carded, OpenCardIsShown, CardHasCall, BaseInv, RunsKnown
  <2> QED
    BY <1>1, <2>1, <2>2
<1> QED
  BY <1>3, <1>4 DEF Carded, OpenCardIsShown

\* The other steps of a tool call and the operator's answer open no card.
LEMMA CallCards ==
    ASSUME BaseInv, Carded, NEW w \in Waiter,
           FinishCall(w) \/ ReleaseForCard(w) \/ Reacquire(w) \/ Resume(w)
    PROVE  Carded'
<1>1. card' = card /\ decision' = decision /\ runSession' = runSession
  BY DEF FinishCall, ReleaseForCard, Reacquire, Resume, runVars
<1>2. \A v \in Waiter : v # w => call'[v] = call[v]
  BY DEF FinishCall, ReleaseForCard, Reacquire, Resume, BaseInv, TypeOK
<1>3. CardHasCall'
  <2>1. CASE FinishCall(w)
    BY <1>1, <1>2, <2>1 DEF FinishCall, Carded, CardHasCall
  <2>2. CASE ~ FinishCall(w)
    <3>1. call'[w] \in {"waiting", "resuming", "resumed"}
      BY <2>2 DEF ReleaseForCard, Reacquire, Resume, BaseInv, TypeOK
    <3> QED
      BY <1>1, <1>2, <3>1 DEF Carded, CardHasCall
  <2> QED
    BY <2>1, <2>2
<1>4. OpenCardIsShown'
  BY <1>1 DEF Carded, OpenCardIsShown
<1> QED
  BY <1>3, <1>4 DEF Carded

\* Every step shows the undecided cards.
LEMMA NextCards ==
    ASSUME BaseInv, Carded, Lived, [Next]_vars
    PROVE  Carded'
<1>1. CASE UNCHANGED vars
  BY <1>1, SameCards DEF vars
<1>2. ASSUME NEW s \in Session, Submission(s) \/ ChatOperation(s) \/ HoldModel(s) PROVE Carded'
  <2>1. UNCHANGED gateVars
    BY <1>2 DEF Submission, SubmitHeld, SubmitBehind, SubmitStart, SubmitQueue, NewRun,
       SubmitRefused, ChatOperation, Close, Reopen, Reset, DropLastMessage, HoldModel
  <2> QED
    BY <2>1, SameCards
<1>3. CASE Stopping
  BY <1>3, SameCards DEF Stopping, Stop
<1>4. ASSUME NEW r \in Run,
             RunStep(r) \/ WallClock(r) \/ StopReturns(r) \/ ForceFinish(r) \/ HoldInRun(r)
      PROVE  Carded'
  <2>1. CASE \E C \in SUBSET Call : AnswerTools(r, C)
    BY <2>1, AnswerToolsCards
  <2>2. CASE ~ \E C \in SUBSET Call : AnswerTools(r, C)
    <3>1. UNCHANGED gateVars
      BY <1>4, <2>2 DEF RunStep, BoundaryStops, CheckContext, TakeQueuedAtBoundary, TurnAgain,
         TurnEndsRun, HoldInRun, ReturnActiveMessage, EndTurn, Finish, WallClock, StopReturns,
         ForceFinish
    <3> QED
      BY <3>1, SameCards
  <2> QED
    BY <2>1, <2>2
<1>5. ASSUME NEW w \in Waiter, CallStep(w) PROVE Carded'
  <2>1. CASE Dismiss(w) \/ ResumeCancelled(w) \/ EndWait(w)
    <3>1. Uncard(w) /\ runSession' = runSession /\ \E v : call' = [call EXCEPT ![w] = v]
      BY <2>1 DEF Dismiss, ResumeCancelled, EndWait, runVars
    <3> QED
      BY <3>1, UncardCards
  <2> QED
    BY <1>5, <2>1, BeginWaitCards, CallCards DEF CallStep
<1>6. ASSUME NEW s \in Session, Decide(s) PROVE Carded'
  <2>1. /\ decision[card[s]] = "open" /\ decision' = [decision EXCEPT ![card[s]] = "decided"]
        /\ call' = call /\ card' = card /\ runSession' = runSession
    BY <1>6 DEF Decide, runVars
  <2>2. \A w \in Waiter : \/ decision'[w] = decision[w]
                          \/ decision[w] = "open" /\ decision'[w] = "decided"
    BY <2>1 DEF BaseInv, TypeOK
  <2> QED
    BY <2>1, <2>2 DEF Carded, OpenCardIsShown, CardHasCall
<1>7. ASSUME NEW k \in Connection, ReleaseModel(k) PROVE Carded'
  BY <1>7, SameCards DEF ReleaseModel
<1> QED
  BY <1>1, <1>2, <1>3, <1>4, <1>5, <1>6, <1>7 DEF Next, Running, Carding, Outage

\* A card nobody has decided is the one its chat shows, so the operator can answer it,
\* and a chat has at most one: beginWait supersedes the card it replaces, and cleanup
\* takes away only the card of the wait that returned.
THEOREM OpenCardsAreShown == Spec => []OpenCardIsShown
<1>1. Init => Carded
  BY DEF Init, Carded, OpenCardIsShown, CardHasCall
<1>2. EndInv => BaseInv /\ Ends
  BY DEF EndInv, BaseInv, Ends
<1>3. EndInv /\ Carded /\ [Next]_vars => Carded'
  BY <1>2, NextLives, NextCards
<1>4. Carded => OpenCardIsShown
  BY DEF Carded
<1> QED
  BY EndInvHolds, <1>1, <1>3, <1>4, PTL DEF Spec

-----------------------------------------------------------------------------
(* Waiting messages, while no run is stopped and no call asks for a card. *)

\* Nobody stops a run.
NoStops == stopReason = {} /\ stopWait = {}

Attended == NoStops /\ BusyHasRun /\ NothingStranded

\* A step that takes no run from a chat, shows no idle chat as busy, and adds no message
\* to a chat without a run or a held model.
LEMMA StaysAttended ==
    ASSUME Attended, stopReason' = stopReason, stopWait' = stopWait,
           \A s \in Session : ActiveOrQueued(s) => ActiveOrQueued(s)',
           \A s \in Session : status'[s] # "idle" => status[s] # "idle" \/ ActiveOrQueued(s)',
           \A s \in Session : pending'[s] # {} =>
               \/ s \in unreachable' \/ ActiveOrQueued(s)'
               \/ pending[s] # {} /\ (s \in unreachable => s \in unreachable')
    PROVE  Attended'
<1>1. BusyHasRun'
  BY DEF Attended, BusyHasRun, IsRunning
<1>2. NothingStranded'
  BY DEF Attended, NothingStranded
<1> QED
  BY <1>1, <1>2 DEF Attended, NoStops

\* The phases of a run before its end, and the operations of a chat.
LEMMA QuietAttended ==
    ASSUME BaseInv, Attended,
           \/ \E r \in Run :
                \/ BoundaryStops(r) \/ CheckContext(r) \/ TakeQueuedAtBoundary(r)
                \/ TurnAgain(r) \/ TurnEndsRun(r) \/ HoldInRun(r) \/ EndTurn(r) \/ WallClock(r)
                \/ \E C \in SUBSET Call : AnswerTools(r, C)
           \/ \E s \in Session : HoldModel(s) \/ ChatOperation(s) \/ SubmitRefused(s)
           \/ UNCHANGED vars
    PROVE  Attended'
<1>1. /\ stopReason' = stopReason /\ stopWait' = stopWait /\ status' = status
      /\ active' = active /\ queue' = queue /\ runSession' = runSession
      /\ unreachable \subseteq unreachable'
  BY DEF BoundaryStops, CheckContext, TakeQueuedAtBoundary, TurnAgain, TurnEndsRun, HoldInRun,
     EndTurn, WallClock, AnswerTools, HoldModel, ChatOperation, Close, Reopen, Reset,
     DropLastMessage, SubmitRefused, Moves, UnchangedButPc, schedulerVars, runVars, sessionVars,
     vars
<1>2. \A s \in Session : pending'[s] # {} => pending[s] # {}
  BY DEF BoundaryStops, CheckContext, TakeQueuedAtBoundary, TurnAgain, TurnEndsRun, HoldInRun,
     EndTurn, WallClock, AnswerTools, HoldModel, ChatOperation, Close, Reopen, Reset,
     DropLastMessage, SubmitRefused, schedulerVars, vars, BaseInv, TypeOK
<1>3. \A s \in Session : ActiveOrQueued(s)' <=> ActiveOrQueued(s)
  BY <1>1 DEF ActiveOrQueued
<1> QED
  BY <1>1, <1>2, <1>3, StaysAttended

\* The message of a failed run goes back; its chat is still the chat of that run.
LEMMA ReturnAttended ==
    ASSUME BaseInv, Attended, NEW r \in Run, ReturnActiveMessage(r)
    PROVE  Attended'
<1>1. /\ stopReason' = stopReason /\ stopWait' = stopWait /\ pending' = pending
      /\ active' = active /\ queue' = queue /\ runSession' = runSession
      /\ unreachable' = unreachable
  BY DEF ReturnActiveMessage, UnchangedButPc, schedulerVars
<1>2. \A s \in Session : ActiveOrQueued(s)' <=> ActiveOrQueued(s)
  BY <1>1 DEF ActiveOrQueued
<1>3. ASSUME NEW s \in Session, status'[s] # "idle"
      PROVE  status[s] # "idle" \/ ActiveOrQueued(s)
  <2>1. CASE status'[s] = status[s]
    BY <1>3, <2>1
  <2>2. CASE status'[s] # status[s]
    <3>1. Current(r) /\ s = runSession[r]
      BY <2>2 DEF ReturnActiveMessage, BaseInv, TypeOK
    <3> QED
      BY <3>1, IdFacts DEF Current, ActiveOrQueued
  <2> QED
    BY <2>1, <2>2
<1> QED
  BY <1>1, <1>2, <1>3, StaysAttended

\* A message that waits is posted behind a run, or to a held chat.
LEMMA PostAttended ==
    ASSUME BaseInv, Attended, NEW s \in Session, SubmitHeld(s) \/ SubmitBehind(s)
    PROVE  Attended'
<1>1. /\ stopReason' = stopReason /\ stopWait' = stopWait
      /\ active' = active /\ queue' = queue /\ runSession' = runSession
      /\ unreachable' = unreachable
  BY DEF SubmitHeld, SubmitBehind, runVars
<1>2. \A t \in Session : /\ status'[t] # "idle" => status[t] # "idle"
                         /\ t # s => pending'[t] = pending[t]
  BY DEF SubmitHeld, SubmitBehind, BaseInv, TypeOK
<1>3. \A t \in Session : ActiveOrQueued(t)' <=> ActiveOrQueued(t)
  BY <1>1 DEF ActiveOrQueued
<1>4. s \in unreachable \/ ActiveOrQueued(s)
  BY DEF SubmitHeld, SubmitBehind, ActiveOrQueued, Attended, BusyHasRun
<1> QED
  BY <1>1, <1>2, <1>3, <1>4, StaysAttended

\* A new run takes the messages that waited.
LEMMA NewRunAttended ==
    ASSUME BaseInv, Attended, NEW s \in Session, SubmitStart(s) \/ SubmitQueue(s)
    PROVE  Attended'
<1>1. /\ stopReason' = stopReason /\ stopWait' = stopWait /\ unreachable' = unreachable
      /\ ids < MaxRun /\ ids' = ids + 1 /\ runSession' = [runSession EXCEPT ![ids'] = s]
      /\ pending' = [pending EXCEPT ![s] = {}]
  BY DEF SubmitStart, SubmitQueue, NewRun
<1>2. ids' \in Run /\ ids' # NoRun /\ runSession'[ids'] = s
  BY <1>1, IdFacts DEF BaseInv, TypeOK
<1>3. \A r \in queue : runSession'[r] = runSession[r]
  <2>1. \A r \in queue : r \in Run /\ r <= ids
    BY DEF BaseInv, TypeOK, RunsKnown
  <2>2. \A r \in queue : r # ids'
    BY <1>1, <2>1, IdFacts DEF BaseInv, TypeOK
  <2> QED
    BY <1>1, <2>1, <2>2 DEF BaseInv, TypeOK
<1>4. ActiveOrQueued(s)'
  BY <1>2 DEF SubmitStart, SubmitQueue, ActiveOrQueued, BaseInv, TypeOK
<1>5. \A t \in Session : ActiveOrQueued(t) => ActiveOrQueued(t)'
  <2>1. \A t \in Session : t # s => active'[t] = active[t]
    BY DEF SubmitStart, SubmitQueue, BaseInv, TypeOK
  <2>2. queue \subseteq queue'
    BY DEF SubmitStart, SubmitQueue
  <2> QED
    BY <1>3, <1>4, <2>1, <2>2 DEF ActiveOrQueued
<1>6. \A t \in Session : t # s => status'[t] = status[t] /\ pending'[t] = pending[t]
  BY <1>1 DEF SubmitStart, SubmitQueue, BaseInv, TypeOK
<1> QED
  BY <1>1, <1>4, <1>5, <1>6, StaysAttended

\* A drain leaves a run to every chat that had one or had one queued.
LEMMA DrainAttends ==
    ASSUME NEW act, NEW pau, NEW res, NEW ah, NEW q, NEW of, NEW st,
           act \in ActiveType, q \in SUBSET Run, Drain(act, pau, res, ah, q, of),
           NEW s \in Session
    PROVE  /\ act[s] # NoRun \/ (\E x \in q : of[x] = s) =>
                active'[s] # NoRun \/ \E x \in queue' : of[x] = s
           /\ StatusAfterDrain(st, of)[s] # st[s] => active'[s] # NoRun
<1>1. PICK D \in SUBSET q :
         queue' = q \ D /\ launched' = launched \cup D /\ active' = Started(act, of, D)
  BY DEF Drain
<1>2. D \in SUBSET Run
  BY <1>1
<1>3. \/ active'[s] = act[s] /\ \A r \in D : of[r] # s
      \/ active'[s] \in D /\ of[active'[s]] = s
  BY <1>1, <1>2, StartedFacts
<1>4. ASSUME \E r \in launched' \ launched : of[r] = s PROVE active'[s] # NoRun
  BY <1>1, <1>2, <1>3, <1>4, IdFacts
<1>5. StatusAfterDrain(st, of)[s] # st[s] => \E r \in launched' \ launched : of[r] = s
  BY DEF StatusAfterDrain
<1> QED
  BY <1>1, <1>2, <1>3, <1>4, <1>5, IdFacts

\* q holds the queue of before, and no run of it changed its chat.
ExtendsQueue(q) ==
    /\ q \in SUBSET Run
    /\ queue \subseteq q
    /\ \A x \in queue : runSession'[x] = runSession[x]

\* The slot of chat s is freed: every other chat keeps its run, and chat s is shown as
\* busy only if it got one.
LEMMA FreeSlotAttends ==
    ASSUME BaseInv, NEW r \in Run, NEW s \in Session, NEW q, ExtendsQueue(q),
           FreeSlot(r, s, q, runSession'), NEW t \in Session
    PROVE  /\ t # s /\ ActiveOrQueued(t) => ActiveOrQueued(t)'
           /\ t # s /\ status'[t] # "idle" => status[t] # "idle" \/ ActiveOrQueued(t)'
           /\ status'[s] # "idle" => ActiveOrQueued(s)'
<1> DEFINE of == runSession'
<1> DEFINE act == [active EXCEPT ![s] = NoRun]
           st  == [status EXCEPT ![s] = "idle"]
<1>1. /\ Drain(act, paused \ {s}, ForgetWaiter(resuming, s), ahead, q, of)
      /\ status' = StatusAfterDrain(st, of)
  BY DEF FreeSlot
<1>2. act \in ActiveType /\ st[s] = "idle"
      /\ (t # s => act[t] = active[t] /\ st[t] = status[t])
  BY DEF BaseInv, TypeOK, ActiveType
<1>3. q \in SUBSET Run /\ \A v \in Session : ActiveOrQueued(v) =>
                              active[v] # NoRun \/ \E x \in q : of[x] = v
  BY DEF ExtendsQueue, ActiveOrQueued
<1>4. \A v \in Session : ActiveOrQueued(v)' <=>
         active'[v] # NoRun \/ \E x \in queue' : of[x] = v
  BY DEF ActiveOrQueued
<1> HIDE DEF act, st, of
<1>5. ASSUME NEW v \in Session
      PROVE  /\ act[v] # NoRun \/ (\E x \in q : of[x] = v) =>
                  active'[v] # NoRun \/ \E x \in queue' : of[x] = v
             /\ status'[v] # st[v] => active'[v] # NoRun
  BY <1>1, <1>2, <1>3, DrainAttends
<1> QED
  BY <1>2, <1>5, <1>3, <1>4

\* What waits behind the run of chat s is taken or the model is held.
TakesWaiting(s) ==
    /\ unreachable \subseteq unreachable'
    /\ \A t \in Session : t # s => pending'[t] = pending[t]
    /\ pending'[s] # {} => s \in unreachable'

\* With its slot freed and what waited behind it taken, no chat is left unattended.
LEMMA FreeSlotAttended ==
    ASSUME BaseInv, Attended, NoStops', NEW r \in Run, NEW s \in Session, NEW q,
           ExtendsQueue(q), FreeSlot(r, s, q, runSession'), TakesWaiting(s)
    PROVE  Attended'
<1>1. ASSUME NEW t \in Session
      PROVE  /\ t # s /\ ActiveOrQueued(t) => ActiveOrQueued(t)'
             /\ t # s /\ status'[t] # "idle" => status[t] # "idle" \/ ActiveOrQueued(t)'
             /\ status'[s] # "idle" => ActiveOrQueued(s)'
  BY FreeSlotAttends
<1>2. ASSUME NEW t \in Session, status'[t] # "idle" PROVE ActiveOrQueued(t)'
  <2>1. status[t] # "idle" => ActiveOrQueued(t)
    BY DEF Attended, BusyHasRun, IsRunning
  <2> QED
    BY <1>1, <1>2, <2>1
<1>3. BusyHasRun'
  BY <1>2 DEF BusyHasRun, IsRunning
<1>4. NothingStranded'
  BY <1>1 DEF Attended, NothingStranded, TakesWaiting
<1> QED
  BY <1>3, <1>4 DEF Attended

\* A run ends: the messages behind it become the chat's next run, or wait for the model.
LEMMA FinishAttended ==
    ASSUME BaseInv, Attended, NEW r \in Run, Finish(r)
    PROVE  Attended'
<1> DEFINE s    == runSession[r]
           held == IF pc[r] = "unreachable" /\ r \notin stopReason
                     THEN unreachable \cup {s} ELSE unreachable
<1>1. /\ stopReason' = {} /\ stopWait' = {} /\ stopReason = {} /\ stopWait = {}
      /\ s \in Session /\ queue \in SUBSET Run
  BY DEF Finish, Attended, NoStops, BaseInv, TypeOK, RunsKnown
<1>2. CASE ~ Current(r)
  <2>1. /\ active' = active /\ queue' = queue /\ runSession' = runSession /\ status' = status
        /\ pending' = pending /\ unreachable' = unreachable
    BY <1>2 DEF Finish, schedulerVars
  <2>2. \A t \in Session : ActiveOrQueued(t)' <=> ActiveOrQueued(t)
    BY <2>1 DEF ActiveOrQueued
  <2> QED
    BY <1>1, <2>1, <2>2, StaysAttended
<1>3. ASSUME NEW q, ExtendsQueue(q), FreeSlot(r, s, q, runSession'), TakesWaiting(s)
      PROVE  Attended'
  <2> HIDE DEF s
  <2> QED
    BY <1>1, <1>3, FreeSlotAttended DEF NoStops
<1>4. CASE /\ Current(r) /\ Continues(r, held) /\ unreachable' = held
           /\ ids < MaxRun /\ ids' = ids + 1 /\ runSession' = [runSession EXCEPT ![ids'] = s]
           /\ pending' = [pending EXCEPT ![s] = {}]
           /\ FreeSlot(r, s, queue \cup {ids'}, runSession')
  <2>1. ids' \in Run /\ queue \cup {ids'} \in SUBSET Run
    BY <1>1, <1>4, IdFacts DEF BaseInv, TypeOK
  <2>2. \A x \in queue : runSession'[x] = runSession[x]
    <3>1. \A x \in queue : x \in Run /\ x <= ids
      BY DEF BaseInv, TypeOK, RunsKnown
    <3>2. \A x \in queue : x # ids'
      BY <1>4, <3>1, IdFacts DEF BaseInv, TypeOK
    <3> QED
      BY <1>4, <3>1, <3>2 DEF BaseInv, TypeOK
  <2>3. /\ \A t \in Session : t # s => pending'[t] = pending[t]
        /\ pending'[s] = {} /\ unreachable \subseteq unreachable'
    BY <1>1, <1>4 DEF BaseInv, TypeOK
  <2>4. ExtendsQueue(queue \cup {ids'}) /\ TakesWaiting(s)
    BY <2>1, <2>2, <2>3 DEF ExtendsQueue, TakesWaiting
  <2> HIDE DEF s, held
  <2> QED
    BY <1>3, <1>4, <2>4
<1>5. CASE /\ Current(r) /\ ~ Continues(r, held) /\ unreachable' = held
           /\ FreeSlot(r, s, queue, runSession)
           /\ runSession' = runSession /\ pending' = pending
  <2>1. unreachable \subseteq unreachable'
    BY <1>5
  <2>2. pending'[s] # {} => s \in unreachable'
    BY <1>1, <1>5 DEF Continues
  <2>3. ExtendsQueue(queue) /\ TakesWaiting(s)
    BY <1>1, <1>5, <2>1, <2>2 DEF ExtendsQueue, TakesWaiting
  <2> HIDE DEF s, held
  <2> QED
    BY <1>3, <1>5, <2>3
<1> QED
  BY <1>2, <1>4, <1>5 DEF Finish

\* A release turns the waiting messages of every held chat into a run, unless the chat
\* has one.
LEMMA ReleaseAttended ==
    ASSUME BaseInv, Attended, NEW k \in Connection, ReleaseModel(k)
    PROVE  Attended'
<1> DEFINE chats == Released(k)
           fresh == Fresh(k)
<1>1. /\ ids + Cardinality(chats) <= MaxRun
      /\ unreachable' = unreachable \ OnConnection(unreachable, k)
      /\ stopReason' = stopReason /\ stopWait' = stopWait
      /\ pending' = [s \in Session |-> IF s \in chats THEN {} ELSE pending[s]]
  BY DEF ReleaseModel
<1>2. PICK run \in [chats -> fresh], now \in SUBSET chats : StartReleased(k, run, now)
  BY DEF ReleaseModel
<1> DEFINE owner == [r \in fresh |-> CHOOSE s \in chats : run[s] = r]
<1>3. /\ \A s, t \in chats : s # t => run[s] # run[t]
      /\ active' = [s \in Session |-> IF s \in now THEN run[s] ELSE active[s]]
      /\ queue' = queue \cup {run[s] : s \in chats \ now}
      /\ status' = [s \in Session |-> IF s \in now THEN "running"
                                      ELSE IF s \in chats THEN "queued" ELSE status[s]]
      /\ runSession' = [r \in Run |-> IF r \in fresh THEN owner[r] ELSE runSession[r]]
  BY <1>2, Zenon DEF StartReleased
<1>4. /\ chats \subseteq Session /\ fresh \subseteq Run
      /\ \A r \in fresh : r \in Nat /\ r > ids /\ r # NoRun
  BY <1>1, ReleasedFacts, IdFacts
<1>5. \A s \in chats : run[s] \in fresh
  BY <1>2
<1>6. ASSUME NEW s \in chats PROVE runSession'[run[s]] = s
  <2>1. owner[run[s]] \in chats /\ run[owner[run[s]]] = run[s]
    <3>1. \E t \in chats : run[t] = run[s]
      OBVIOUS
    <3>2. run[s] \in fresh
      BY <1>5
    <3> HIDE DEF chats, fresh
    <3> QED
      BY <3>1, <3>2
  <2> HIDE DEF owner, chats, fresh
  <2> QED
    BY <2>1, <1>3, <1>4, <1>5
<1>7. \A r \in queue : runSession'[r] = runSession[r]
  <2>1. \A r \in queue : r \in Run /\ r <= ids
    BY DEF BaseInv, TypeOK, RunsKnown
  <2>2. \A r \in queue : r \notin fresh
    BY <2>1, <1>4, IdFacts DEF BaseInv, TypeOK
  <2> HIDE DEF chats, fresh, owner
  <2> QED
    BY <2>1, <2>2, <1>3
<1>8. \A s \in Session : s \notin chats /\ pending[s] # {} /\ s \in OnConnection(unreachable, k)
                           => active[s] # NoRun
  BY DEF Released
<1> HIDE DEF chats, fresh, owner
<1>9. \A s \in chats : ActiveOrQueued(s)'
  <2>1. ASSUME NEW s \in now PROVE active'[s] # NoRun
    BY <1>2, <1>3, <1>4, <1>5
  <2>2. ASSUME NEW s \in chats, s \notin now PROVE \E x \in queue' : runSession'[x] = s
    <3>1. run[s] \in queue'
      BY <1>3, <2>2
    <3> QED
      BY <1>6, <2>2, <3>1
  <2> QED
    BY <2>1, <2>2 DEF ActiveOrQueued
<1>10. \A s \in Session : ActiveOrQueued(s) => ActiveOrQueued(s)'
  <2>1. ASSUME NEW s \in Session, s \notin chats, ActiveOrQueued(s) PROVE ActiveOrQueued(s)'
    BY <1>2, <1>3, <1>7, <2>1 DEF ActiveOrQueued
  <2> QED
    BY <1>9, <2>1
<1>11. \A s \in Session : status'[s] # "idle" => status[s] # "idle" \/ ActiveOrQueued(s)'
  BY <1>2, <1>3, <1>9
<1>12. \A s \in Session : active[s] # NoRun => ActiveOrQueued(s)
  BY DEF ActiveOrQueued
<1>13. ASSUME NEW s \in Session, pending'[s] # {}
       PROVE  \/ ActiveOrQueued(s)'
              \/ pending[s] # {} /\ (s \in unreachable => s \in unreachable')
  <2>1. s \notin chats /\ pending[s] # {}
    BY <1>1, <1>13
  <2>2. CASE s \in OnConnection(unreachable, k)
    BY <1>8, <1>10, <1>12, <2>1, <2>2
  <2>3. CASE s \notin OnConnection(unreachable, k)
    BY <1>1, <2>1, <2>3
  <2> QED
    BY <2>2, <2>3
<1> QED
  BY <1>1, <1>10, <1>11, <1>13, StaysAttended

\* Every step without a stop and without a card.
LEMMA NextAttended ==
    ASSUME BaseInv, Attended, [UnstoppedNext]_vars
    PROVE  Attended'
<1>1. ASSUME NEW s \in Session, Submission(s) \/ ChatOperation(s) \/ HoldModel(s) PROVE Attended'
  BY <1>1, QuietAttended, PostAttended, NewRunAttended DEF Submission
<1>2. ASSUME NEW r \in Run,
             RunStep(r) \/ WallClock(r) \/ StopReturns(r) \/ ForceFinish(r) \/ HoldInRun(r)
      PROVE  Attended'
  <2>1. ~ StopReturns(r) /\ ~ ForceFinish(r)
    BY DEF StopReturns, ForceFinish, Attended, NoStops
  <2> QED
    BY <1>2, <2>1, QuietAttended, ReturnAttended, FinishAttended DEF RunStep
<1>3. CASE UNCHANGED vars
  BY <1>3, QuietAttended
<1> QED
  BY <1>1, <1>2, <1>3, ReleaseAttended DEF UnstoppedNext, Submitting, Running, Outage

\* While no run is stopped and no call asks for a card, no message waits for something
\* that will not come: its chat has a run, a queued run, or a model that may come back.
\* `finish' continues with what waits, ReleaseModel passes over a chat only when it has a
\* run, and a chat without a run is never shown as busy.
THEOREM MessagesAreAttended == ChatOutageSpec => []NothingStranded
<1>1. Init => BaseInv
  BY InitBase
<1>2. Init => Attended
  BY DEF Init, Attended, NoStops, BusyHasRun, IsRunning, NothingStranded
<1>3. [UnstoppedNext]_vars => [Next]_vars
  BY DEF UnstoppedNext, Submitting, Next
<1>4. BaseInv /\ [UnstoppedNext]_vars => BaseInv'
  BY <1>3, NextBase
<1>5. BaseInv /\ Attended /\ [UnstoppedNext]_vars => Attended'
  BY NextAttended
<1>6. Attended => NothingStranded
  BY DEF Attended
<1> QED
  BY <1>1, <1>2, <1>4, <1>5, <1>6, PTL DEF ChatOutageSpec

=============================================================================
