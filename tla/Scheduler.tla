----------------------------- MODULE Scheduler -----------------------------
(***************************************************************************)
(* The run scheduler of internal/agent/scheduler.go together with the      *)
(* state it shares: the run status and the transcript of a chat            *)
(* (internal/session), the goroutine that executes a run                   *)
(* (internal/agent/run_phases.go) and the approval cards on which a tool   *)
(* call pauses (internal/agent/gate.go).                                   *)
(*                                                                         *)
(* Every action is one critical section of Scheduler.mu, Gate.mu or        *)
(* Session.mu, or one step of a run between two of them.                   *)
(*                                                                         *)
(* Abstractions of data.  Run ids and message ids are allocated under      *)
(* Scheduler.mu, in the same critical section that appends to s.queue or   *)
(* s.pending[id], so both slices are always in id order: a set of ids is   *)
(* the slice.  The list s.resuming is not in id order; the set `ahead'     *)
(* keeps, for each waiter, the waiters that entered the list before it.    *)
(* Registry entries are never deleted and the routing of chats to          *)
(* connections and every limit stay as they are.                           *)
(***************************************************************************)
EXTENDS Integers, FiniteSets

CONSTANTS
    Session,          \* chats
    Connection,       \* model connections
    ConnectionOf,     \* the connection each chat runs on (Session.ConnectionID)
    ConnectionLimit,  \* connectionLimit: override, probed capacity, or 1
    MaxConcurrent,    \* config run.max_concurrent
    QueueDepth,       \* config run.queue_depth; 0 is no bound
    Desktop,          \* chats whose messages are typed at the desktop: role b,
                      \* not scheduled, source not "phone"
    Call,             \* the tool calls a turn may run side by side
    NoSession,        \* the chat of a run id not given out yet
    NoCard,           \* no card on display
    MaxRun,           \* bound: run ids
    MaxMessage        \* bound: messages posted

ASSUME ConnectionAssumption ==
    /\ IsFiniteSet(Session)
    /\ IsFiniteSet(Call)
    /\ ConnectionOf \in [Session -> Connection]
    /\ ConnectionLimit \in [Connection -> Nat \ {0}]

ASSUME LimitAssumption ==
    /\ MaxConcurrent \in Nat \ {0}
    /\ QueueDepth \in Nat
    /\ Desktop \subseteq Session

\* Every run is started by a message of its own, so with at least as many run ids
\* as messages the guards that bound `ids' never disable an action.
ASSUME BoundAssumption ==
    /\ MaxRun \in Nat
    /\ MaxMessage \in Nat
    /\ MaxMessage <= MaxRun

ASSUME NoneAssumption ==
    /\ NoSession \notin Session
    /\ NoCard \notin (1..MaxRun) \X Call

VARIABLES
    (* struct Scheduler *)
    active,       \* active[s]: the run in s.active, or NoRun
    queue,        \* runs admitted to s.queue, in id order
    pending,      \* pending[s]: messages waiting behind the chat's run
    unreachable,  \* chats held because their model cannot be dialled
    paused,       \* chats whose run gave up its slot for a card
    resuming,     \* answered calls waiting to take a slot back
    ahead,        \* ahead[w]: the waiters before w in s.resuming
    ready,        \* waiters whose ready channel is closed
    stoppedRuns,  \* runs whose run.stopped was published
    ids,          \* last run id given out
    (* struct activeRun and queuedRun, by run id *)
    runSession,   \* the chat of a run, or NoSession
    userMessage,  \* the message that starts it, or NoMessage
    stopReason,   \* runs an operator, a deadline or a host stopped
    stopWait,     \* runs a Stop call waits for
    (* the goroutine of a run *)
    launched,     \* runs whose goroutine was started
    cancelled,    \* runs whose context is done
    pc,           \* where the goroutine of a run is
    answered,     \* runs the model has answered at least once
    call,         \* call[<<r, c>>]: where tool call c of run r is
    (* struct Gate *)
    card,         \* card[s]: the call in pendingBySession, or NoCard
    decision,     \* decision[w]: what became of the card of w
    (* struct Session *)
    status,       \* Run.Status
    closed,       \* chats with Closed set
    transcript,   \* transcript[s]: the user messages in Messages
    posted        \* last message id given out

schedulerVars == <<active, queue, pending, unreachable, paused, resuming, ahead,
                   ready, stoppedRuns, ids>>
runVars       == <<runSession, userMessage, stopReason, stopWait, launched,
                   cancelled, pc, answered>>
gateVars      == <<call, card, decision>>
sessionVars   == <<status, closed, transcript, posted>>
vars          == <<schedulerVars, runVars, gateVars, sessionVars>>

Run       == 1..MaxRun
Message   == 1..MaxMessage
NoRun     == 0
NoMessage == 0
Waiter    == Run \X Call

Status    == {"idle", "queued", "running", "paused", "stopping"}

\* boundary, checked (the context was found live at the boundary), turn (the
\* request is built, sent and read) and tools are the phases of run_phases.go; held
\* is between HoldModel and the return of the message; unreachable and returned are after Runner.Run returned (model_unreachable, or
\* any other reason) and before finish.
Phase     == {"boundary", "checked", "turn", "tools", "held", "unreachable", "returned",
              "ended"}
CallState == {"idle", "work", "carded", "waiting", "resuming", "resumed"}
Decision  == {"none", "open", "decided", "superseded"}

TypeOK ==
    /\ active \in [Session -> Run \cup {NoRun}]
    /\ queue \subseteq Run
    /\ pending \in [Session -> SUBSET Message]
    /\ unreachable \subseteq Session
    /\ paused \subseteq Session
    /\ resuming \subseteq Waiter
    /\ ahead \in [Waiter -> SUBSET Waiter]
    /\ ready \subseteq Waiter
    /\ stoppedRuns \subseteq Run
    /\ ids \in 0..MaxRun
    /\ runSession \in [Run -> Session \cup {NoSession}]
    /\ userMessage \in [Run -> Message \cup {NoMessage}]
    /\ stopReason \subseteq Run
    /\ stopWait \subseteq Run
    /\ launched \subseteq Run
    /\ cancelled \subseteq Run
    /\ pc \in [Run -> Phase]
    /\ answered \subseteq Run
    /\ call \in [Waiter -> CallState]
    /\ card \in [Session -> Waiter \cup {NoCard}]
    /\ decision \in [Waiter -> Decision]
    /\ status \in [Session -> Status]
    /\ closed \subseteq Session
    /\ transcript \in [Session -> SUBSET Message]
    /\ posted \in 0..MaxMessage

Init ==
    /\ active = [s \in Session |-> NoRun]
    /\ queue = {}
    /\ pending = [s \in Session |-> {}]
    /\ unreachable = {}
    /\ paused = {}
    /\ resuming = {}
    /\ ahead = [w \in Waiter |-> {}]
    /\ ready = {}
    /\ stoppedRuns = {}
    /\ ids = 0
    /\ runSession = [r \in Run |-> NoSession]
    /\ userMessage = [r \in Run |-> NoMessage]
    /\ stopReason = {}
    /\ stopWait = {}
    /\ launched = {}
    /\ cancelled = {}
    /\ pc = [r \in Run |-> "boundary"]
    /\ answered = {}
    /\ call = [w \in Waiter |-> "idle"]
    /\ card = [s \in Session |-> NoCard]
    /\ decision = [w \in Waiter |-> "none"]
    /\ status = [s \in Session |-> "idle"]
    /\ closed = {}
    /\ transcript = [s \in Session |-> {}]
    /\ posted = 0

-----------------------------------------------------------------------------
(* Admission. *)

\* Session.IsRunning: every status but idle.
IsRunning(s) == status[s] # "idle"

\* Mutant: any run of the chat passes for r.
CurrentChat(r) == active[runSession[r]] # NoRun

\* s.active still holds run r: the check that keeps a late goroutine out.
Current(r) == active[runSession[r]] = r

\* The chats whose run uses a model slot: every active run not paused on a card.
Using(act, pau) == {s \in Session : act[s] # NoRun} \ pau

OnConnection(chats, k) == {s \in chats : ConnectionOf[s] = k}

\* Mutant: a connection serves one run more than its limit.
AdmitsOneMore(using, s) ==
    /\ Cardinality(using) < MaxConcurrent
    /\ Cardinality(OnConnection(using, ConnectionOf[s])) <= ConnectionLimit[ConnectionOf[s]]

\* admitLocked, for chats already using a slot.
Admits(using, s) ==
    /\ Cardinality(using) < MaxConcurrent
    /\ Cardinality(OnConnection(using, ConnectionOf[s])) < ConnectionLimit[ConnectionOf[s]]

\* Of the runs D, the last one started for a chat is the one s.active holds.
Started(act, of, D) ==
    [s \in Session |->
        LET mine == {r \in D : of[r] = s}
        IN  IF mine = {} THEN act[s] ELSE CHOOSE r \in mine : \A x \in mine : x <= r]

\* The chats of the waiters W.
ChatsOf(of, W) == {of[w[1]] : w \in W}

\* Mutant: the first loop is missing.
TakesNoWaiter(act, pau, res, ah, of, W) == W = {}

\* drainLocked, first loop: W are the waiters that get a slot, taken in list
\* order, each admitted against the ones taken before it.
TakesWaiters(act, pau, res, ah, of, W) ==
    \A w \in res :
        w \in W <=> Admits(Using(act, pau \ ChatsOf(of, W \cap ah[w])), of[w[1]])

\* Mutant: the queue is served newest first.
TakesNewest(act, pau, q, of, D) ==
    \A r \in q :
        r \in D <=> Admits(Using(Started(act, of, {x \in D : x > r}), pau), of[r])

\* drainLocked, second loop: D are the queued runs that start, in queue order.
TakesQueued(act, pau, q, of, D) ==
    \A r \in q :
        r \in D <=> Admits(Using(Started(act, of, {x \in D : x < r}), pau), of[r])

\* Mutant: only answered calls are served; the queue waits for the next one.
DrainWaitersOnly(act, pau, res, ah, q, of) ==
    \E W \in SUBSET res :
        /\ TakesWaiters(act, pau, res, ah, of, W)
        /\ resuming' = res \ W
        /\ ready' = ready \cup W
        /\ paused' = pau \ ChatsOf(of, W)
        /\ queue' = q
        /\ launched' = launched
        /\ active' = act

\* drainLocked on the values the caller has already computed under the lock.
Drain(act, pau, res, ah, q, of) ==
    \E W \in SUBSET res, D \in SUBSET q :
        /\ TakesWaiters(act, pau, res, ah, of, W)
        /\ TakesQueued(act, pau \ ChatsOf(of, W), q, of, D)
        /\ resuming' = res \ W
        /\ ready' = ready \cup W
        /\ paused' = pau \ ChatsOf(of, W)
        /\ queue' = q \ D
        /\ launched' = launched \cup D
        /\ active' = Started(act, of, D)

\* Mutant: startLocked sets a status nobody knows.
StatusUndeclared(st, of) ==
    [s \in Session |->
        IF \E r \in launched' \ launched : of[r] = s THEN "started" ELSE st[s]]

\* Run.Status after the drain: startLocked sets running.
StatusAfterDrain(st, of) ==
    [s \in Session |->
        IF \E r \in launched' \ launched : of[r] = s THEN "running" ELSE st[s]]

\* forgetPausedLocked: the first waiter of the chat leaves the list.
ForgetWaiter(res, s) ==
    LET mine == {w \in res : runSession[w[1]] = s}
    IN  res \ {w \in mine : ahead[w] \cap mine = {}}

\* No waiter is behind one that has left the list.
LeaveList(w) == [x \in Waiter |-> IF x = w THEN {} ELSE ahead[x] \ {w}]

Least(S) == CHOOSE m \in S : \A n \in S : m <= n

-----------------------------------------------------------------------------
(* Submission: submitAttachmentsFrom, an action for each of its outcomes. *)

\* BeginSubmission reopens a closed chat; the message joins the transcript.
Post(s) ==
    /\ posted < MaxMessage
    /\ posted' = posted + 1
    /\ closed' = closed \ {s}

\* The chat's model cannot be dialled: the message waits for it.
SubmitHeld(s) ==
    /\ s \in unreachable
    /\ Post(s)
    /\ pending' = [pending EXCEPT ![s] = @ \cup {posted'}]
    /\ transcript' = [transcript EXCEPT ![s] = @ \cup {posted'}]
    /\ status' = [status EXCEPT ![s] = "idle"]
    /\ UNCHANGED <<active, queue, unreachable, paused, resuming, ahead, ready,
                   stoppedRuns, ids, runVars, gateVars>>

\* The chat's waiting list is not full.
HasRoom(s) == QueueDepth > 0 => Cardinality(pending[s]) < QueueDepth

\* The chat has a run: the message waits behind it, unless that run is being
\* stopped, when returnPendingLocked hands everything back to the composer.
SubmitBehind(s) ==
    /\ s \notin unreachable
    /\ active[s] # NoRun \/ IsRunning(s)
    /\ HasRoom(s)
    /\ Post(s)
    /\ IF active[s] \in stopReason
         THEN /\ pending' = [pending EXCEPT ![s] = {}]
              /\ transcript' = [transcript EXCEPT ![s] = @ \ pending[s]]
         ELSE /\ pending' = [pending EXCEPT ![s] = @ \cup {posted'}]
              /\ transcript' = [transcript EXCEPT ![s] = @ \cup {posted'}]
    /\ UNCHANGED <<active, queue, unreachable, paused, resuming, ahead, ready,
                   stoppedRuns, ids, runVars, gateVars, status>>

\* A new run for an idle chat; messages still waiting go back to the composer.
NewRun(s) ==
    /\ s \notin unreachable
    /\ active[s] = NoRun /\ ~ IsRunning(s)
    /\ Post(s)
    /\ pending' = [pending EXCEPT ![s] = {}]
    /\ transcript' = [transcript EXCEPT ![s] = (@ \ pending[s]) \cup {posted'}]
    /\ ids < MaxRun
    /\ ids' = ids + 1
    /\ runSession' = [runSession EXCEPT ![ids'] = s]
    /\ userMessage' = [userMessage EXCEPT ![ids'] = posted']
    /\ UNCHANGED <<unreachable, paused, resuming, ahead, ready, stoppedRuns,
                   stopReason, stopWait, cancelled, pc, answered, gateVars>>

SubmitStart(s) ==
    /\ Admits(Using(active, paused), s)
    /\ NewRun(s)
    /\ active' = [active EXCEPT ![s] = ids']
    /\ launched' = launched \cup {ids'}
    /\ status' = [status EXCEPT ![s] = "running"]
    /\ UNCHANGED queue

SubmitQueue(s) ==
    /\ ~ Admits(Using(active, paused), s)
    /\ NewRun(s)
    /\ queue' = queue \cup {ids'}
    /\ status' = [status EXCEPT ![s] = "queued"]
    /\ UNCHANGED <<active, launched>>

\* A submission that posts nothing: the message is already waiting, the queue is
\* full, or the connection is unknown.  The last is noticed for an idle chat only
\* after its waiting messages went back to the composer.
SubmitRefused(s) ==
    /\ closed' = closed \ {s}
    /\ IF s \notin unreachable /\ active[s] = NoRun /\ ~ IsRunning(s)
         THEN /\ pending' = [pending EXCEPT ![s] = {}]
              /\ transcript' = [transcript EXCEPT ![s] = @ \ pending[s]]
         ELSE UNCHANGED <<pending, transcript>>
    /\ UNCHANGED <<active, queue, unreachable, paused, resuming, ahead, ready,
                   stoppedRuns, ids, runVars, gateVars, status, posted>>

-----------------------------------------------------------------------------
(* The goroutine of a run, phase by phase. *)

\* run r is at phase p and its goroutine goes on to phase q.
Moves(r, p, q) ==
    /\ r \in launched
    /\ pc[r] = p
    /\ pc' = [pc EXCEPT ![r] = q]

UnchangedButPc == UNCHANGED <<runSession, userMessage, stopReason, stopWait, launched,
                              cancelled, answered>>

\* The run stops before the turn: cancelled, stopped by the mailbox, no usable
\* workspace or connection.
BoundaryStops(r) ==
    /\ Moves(r, "boundary", "returned")
    /\ UnchangedButPc
    /\ UNCHANGED <<schedulerVars, gateVars, sessionVars>>

\* turnBoundary finds the context live; it may be cancelled right after.
CheckContext(r) ==
    /\ r \notin cancelled
    /\ Moves(r, "boundary", "checked")
    /\ UnchangedButPc
    /\ UNCHANGED <<schedulerVars, gateVars, sessionVars>>

\* takeQueued delivers to run r: it is the chat's run, it is not being stopped
\* and its model is not held.
Takes(r) == /\ Current(r)
            /\ r \notin stopReason
            /\ runSession[r] \notin unreachable

\* takeQueuedAtBoundary and deliverPendingLocked.
TakeQueuedAtBoundary(r) ==
    /\ Moves(r, "checked", "turn")
    /\ pending' = IF Takes(r) THEN [pending EXCEPT ![runSession[r]] = {}] ELSE pending
    /\ UnchangedButPc
    /\ UNCHANGED <<active, queue, unreachable, paused, resuming, ahead, ready,
                   stoppedRuns, ids, gateVars, sessionVars>>

\* A compacted, repaired, refused or rerouted request starts the turn again.
TurnAgain(r) ==
    /\ Moves(r, "turn", "boundary")
    /\ UnchangedButPc
    /\ UNCHANGED <<schedulerVars, gateVars, sessionVars>>

\* The model's answer ends the run, or the request could not be built, or the
\* call was cancelled.
TurnEndsRun(r) ==
    /\ Moves(r, "turn", "returned")
    /\ UnchangedButPc
    /\ UNCHANGED <<schedulerVars, gateVars, sessionVars>>

\* The model asks for the tool calls C, which run side by side.
AnswerTools(r, C) ==
    /\ Moves(r, "turn", "tools")
    /\ answered' = answered \cup {r}
    /\ call' = [w \in Waiter |-> IF w \in {r} \X C THEN "work" ELSE call[w]]
    /\ UNCHANGED <<schedulerVars, sessionVars, card, decision, runSession, userMessage,
                   stopReason, stopWait, launched, cancelled>>

\* publishModelUnreachable calls HoldModel.  A failed measurement returns at
\* once; a failed call may first hand its message back.
HoldInRun(r) ==
    /\ r \notin cancelled
    /\ \/ Moves(r, "turn", "unreachable")
       \/ Moves(r, "turn", "held")
    /\ unreachable' = unreachable \cup {runSession[r]}
    /\ UnchangedButPc
    /\ UNCHANGED <<active, queue, pending, paused, resuming, ahead, ready, stoppedRuns,
                   ids, gateVars, sessionVars>>

\* returnActiveMessage, then Runner.Run returns.
ReturnActiveMessage(r) ==
    LET s == runSession[r] IN
    /\ \/ Moves(r, "held", "unreachable")
       \/ r \notin cancelled /\ Moves(r, "turn", "returned")
    /\ IF r \notin answered /\ Current(r) /\ s \in Desktop
         THEN /\ status' = [status EXCEPT ![s] = "stopping"]
              /\ transcript' = [transcript EXCEPT ![s] = @ \ {userMessage[r]}]
         ELSE UNCHANGED <<status, transcript>>
    /\ UnchangedButPc
    /\ UNCHANGED <<schedulerVars, gateVars, closed, posted>>

\* A tool call returns its result.
FinishCall(w) ==
    /\ call[w] = "work"
    /\ call' = [call EXCEPT ![w] = "idle"]
    /\ UNCHANGED <<schedulerVars, runVars, card, decision, sessionVars>>

\* wait.Wait: the turn ends when every call has returned; a cancelled context
\* or a guard ends the run.
EndTurn(r) ==
    /\ \A c \in Call : call[<<r, c>>] = "idle"
    /\ \/ r \notin cancelled /\ Moves(r, "tools", "boundary")
       \/ Moves(r, "tools", "returned")
    /\ UnchangedButPc
    /\ UNCHANGED <<schedulerVars, gateVars, sessionVars>>

\* The wall-clock backstop of a run.
WallClock(r) ==
    /\ r \in launched \ cancelled
    /\ pc[r] \notin {"unreachable", "returned", "ended"}
    /\ cancelled' = cancelled \cup {r}
    /\ UNCHANGED <<schedulerVars, gateVars, sessionVars, runSession, userMessage,
                   stopReason, stopWait, launched, pc, answered>>

-----------------------------------------------------------------------------
(* Cards: beginWait and awaitDecision of the gate, releaseForCard and      *)
(* reacquireAfterCard of the scheduler.                                    *)

\* Mutant: the card on display is replaced without telling the call behind it.
ReplaceCard(w) == [decision EXCEPT ![w] = "open"]

\* An undecided card of the same chat is superseded.
Supersede(w) ==
    [x \in Waiter |-> IF x = w THEN "open"
                      ELSE IF x = card[runSession[w[1]]] /\ decision[x] = "open"
                             THEN "superseded"
                      ELSE decision[x]]

\* beginWait.
BeginWait(w) ==
    LET s == runSession[w[1]] IN
    /\ call[w] = "work"
    /\ call' = [call EXCEPT ![w] = "carded"]
    /\ card' = [card EXCEPT ![s] = w]
    /\ decision' = Supersede(w)
    /\ status' = [status EXCEPT ![s] = "paused"]
    /\ UNCHANGED <<schedulerVars, runVars, closed, transcript, posted>>

\* The operator, or the phone's mailbox, answers the card on display.
Decide(s) ==
    /\ card[s] # NoCard
    /\ decision[card[s]] = "open"
    /\ decision' = [decision EXCEPT ![card[s]] = "decided"]
    /\ UNCHANGED <<schedulerVars, runVars, call, card, sessionVars>>

\* The gate calls releaseForCard unless the run is already cancelled.
ReleaseForCard(w) ==
    LET r == w[1]  s == runSession[r] IN
    /\ call[w] = "carded"
    /\ call' = [call EXCEPT ![w] = "waiting"]
    /\ IF r \notin cancelled /\ Current(r) /\ s \notin paused
         THEN /\ Drain(active, paused \cup {s}, resuming, ahead, queue, runSession)
              /\ status' = StatusAfterDrain(status, runSession)
         ELSE UNCHANGED <<active, queue, paused, resuming, ready, launched, status>>
    /\ UNCHANGED <<pending, unreachable, ahead, stoppedRuns, ids, runSession, userMessage,
                   stopReason, stopWait, cancelled, pc, answered, card, decision, closed,
                   transcript, posted>>

\* cleanup, when the wait of w returns.
Uncard(w) ==
    /\ card' = [s \in Session |-> IF card[s] = w THEN NoCard ELSE card[s]]
    /\ decision' = [decision EXCEPT ![w] = "none"]

\* The context ends before a decision: the card is dismissed.
Dismiss(w) ==
    /\ call[w] = "waiting"
    /\ w[1] \in cancelled
    /\ decision[w] = "open"
    /\ call' = [call EXCEPT ![w] = "idle"]
    /\ Uncard(w)
    /\ UNCHANGED <<schedulerVars, runVars, sessionVars>>

\* reacquireAfterCard takes a slot at once, or joins the waiters and drains.
Reacquire(w) ==
    LET r == w[1]
        s == runSession[r]
        behind == [ahead EXCEPT ![w] = resuming]
    IN
    /\ call[w] = "waiting"
    /\ decision[w] \in {"decided", "superseded"}
    /\ \/ /\ ~ Current(r) \/ s \notin paused
          /\ call' = [call EXCEPT ![w] = "resumed"]
          /\ UNCHANGED <<active, queue, paused, resuming, ahead, ready, launched, status>>
       \/ /\ Current(r) /\ s \in paused
          /\ resuming = {} /\ Admits(Using(active, paused), s)
          /\ paused' = paused \ {s}
          /\ call' = [call EXCEPT ![w] = "resumed"]
          /\ UNCHANGED <<active, queue, resuming, ahead, ready, launched, status>>
       \/ /\ Current(r) /\ s \in paused
          /\ ~ (resuming = {} /\ Admits(Using(active, paused), s))
          /\ Drain(active, paused, resuming \cup {w}, behind, queue, runSession)
          /\ ahead' = behind
          /\ IF w \in ready'
               THEN /\ call' = [call EXCEPT ![w] = "resumed"]
                    /\ status' = StatusAfterDrain(status, runSession)
               ELSE /\ call' = [call EXCEPT ![w] = "resuming"]
                    /\ status' = [StatusAfterDrain(status, runSession) EXCEPT ![s] = "queued"]
    /\ UNCHANGED <<pending, unreachable, stoppedRuns, ids, runSession, userMessage,
                   stopReason, stopWait, cancelled, pc, answered, card, decision, closed,
                   transcript, posted>>

\* The ready channel is closed: the call goes on.
Resume(w) ==
    /\ call[w] = "resuming"
    /\ w \in ready
    /\ call' = [call EXCEPT ![w] = "resumed"]
    /\ status' = [status EXCEPT ![runSession[w[1]]] = "running"]
    /\ UNCHANGED <<schedulerVars, runVars, card, decision, closed, transcript, posted>>

\* The context ends first: the waiter leaves the list and the call is canceled.
ResumeCancelled(w) ==
    /\ call[w] = "resuming"
    /\ w[1] \in cancelled
    /\ resuming' = resuming \ {w}
    /\ ready' = ready \ {w}
    /\ ahead' = LeaveList(w)
    /\ call' = [call EXCEPT ![w] = "idle"]
    /\ Uncard(w)
    /\ UNCHANGED <<active, queue, pending, unreachable, paused, stoppedRuns, ids, runVars,
                   sessionVars>>

\* awaitDecision returns: a superseded call fails, any other goes on.
EndWait(w) ==
    /\ call[w] = "resumed"
    /\ IF decision[w] = "superseded"
         THEN call' = [call EXCEPT ![w] = "idle"] /\ UNCHANGED status
         ELSE /\ call' = [call EXCEPT ![w] = "work"]
              /\ status' = [status EXCEPT ![runSession[w[1]]] = "running"]
    /\ ready' = ready \ {w}
    /\ ahead' = LeaveList(w)
    /\ Uncard(w)
    /\ UNCHANGED <<active, queue, pending, unreachable, paused, resuming, stoppedRuns, ids,
                   runVars, closed, transcript, posted>>

-----------------------------------------------------------------------------
(* The end of a run. *)

\* Mutant: the run stays in s.active.
FreeSlotKeepsRun(r, s, q, of) ==
    /\ stoppedRuns' = stoppedRuns \cup {r}
    /\ Drain(active, paused \ {s}, ForgetWaiter(resuming, s), ahead, q, of)
    /\ status' = StatusAfterDrain([status EXCEPT ![s] = "idle"], of)
    /\ UNCHANGED ahead

\* Mutant: the pause of the ended run is not forgotten.
FreeSlotKeepsPause(r, s, q, of) ==
    /\ stoppedRuns' = stoppedRuns \cup {r}
    /\ Drain([active EXCEPT ![s] = NoRun], paused, ForgetWaiter(resuming, s), ahead, q, of)
    /\ status' = StatusAfterDrain([status EXCEPT ![s] = "idle"], of)
    /\ UNCHANGED ahead

\* The slot of chat s is freed: the run leaves s.active, its pause and its wait
\* for a slot are dropped, run.stopped is published, the chat is set idle and the
\* lists are drained.  q is the queue and `of' the chat of every run by then.
FreeSlot(r, s, q, of) ==
    /\ stoppedRuns' = stoppedRuns \cup {r}
    /\ Drain([active EXCEPT ![s] = NoRun], paused \ {s}, ForgetWaiter(resuming, s),
             ahead, q, of)
    /\ status' = StatusAfterDrain([status EXCEPT ![s] = "idle"], of)
    /\ UNCHANGED ahead

\* Mutant: finish leaves the waiting messages where they are.
NeverContinues(r, held) == FALSE

\* Mutant: finish starts the next run although the model is held.
ContinuesHeld(r, held) ==
    /\ pending[runSession[r]] # {}
    /\ r \notin stopReason

\* Messages that waited behind run r become the chat's next run.
Continues(r, held) ==
    /\ pending[runSession[r]] # {}
    /\ runSession[r] \notin held
    /\ r \notin stopReason

\* finish: the goroutine of r reports, and is ignored unless s.active still
\* holds r.  What was recorded of r alone goes with its activeRun.
Finish(r) ==
    LET s    == runSession[r]
        held == IF pc[r] = "unreachable" /\ r \notin stopReason
                  THEN unreachable \cup {s} ELSE unreachable
    IN
    /\ r \in launched
    /\ pc[r] \in {"returned", "unreachable"}
    /\ pc' = [pc EXCEPT ![r] = "ended"]
    /\ stopReason' = stopReason \ {r}
    /\ cancelled' = cancelled \ {r}
    /\ answered' = answered \ {r}
    /\ \/ /\ ~ Current(r)
          /\ UNCHANGED <<schedulerVars, runSession, userMessage, launched, status>>
       \/ /\ Current(r) /\ Continues(r, held)
          /\ unreachable' = held
          /\ ids < MaxRun
          /\ ids' = ids + 1
          /\ runSession' = [runSession EXCEPT ![ids'] = s]
          /\ userMessage' = [userMessage EXCEPT ![ids'] = Least(pending[s])]
          /\ pending' = [pending EXCEPT ![s] = {}]
          /\ FreeSlot(r, s, queue \cup {ids'}, runSession')
       \/ /\ Current(r) /\ ~ Continues(r, held)
          /\ unreachable' = held
          /\ FreeSlot(r, s, queue, runSession)
          /\ UNCHANGED <<ids, runSession, userMessage, pending>>
    /\ UNCHANGED <<stopWait, gateVars, closed, transcript, posted>>

\* stopReason, under the lock: active runs are cancelled and awaited, queued
\* ones are ended before dispatch, waiting messages go back to the composer.
Stop(target, all) ==
    LET stoppedActive == {s \in target : active[s] # NoRun}
        stoppedQueued == {r \in queue : runSession[r] \in target}
        dequeued      == {runSession[r] : r \in stoppedQueued}
        emptied       == stoppedActive \cup dequeued
                           \cup (IF all THEN {} ELSE {s \in target : active[s] = NoRun})
        runs          == {active[s] : s \in stoppedActive}
    IN
    /\ stopReason' = stopReason \cup runs
    /\ cancelled' = cancelled \cup runs
    /\ stopWait' = stopWait \cup runs
    /\ queue' = queue \ stoppedQueued
    /\ stoppedRuns' = stoppedRuns \cup stoppedQueued
    /\ pending' = [s \in Session |-> IF s \in emptied THEN {} ELSE pending[s]]
    /\ transcript' = [s \in Session |->
                        IF s \in emptied THEN transcript[s] \ pending[s] ELSE transcript[s]]
    /\ status' = [s \in Session |-> IF s \in dequeued THEN "idle"
                                    ELSE IF s \in stoppedActive THEN "stopping"
                                    ELSE status[s]]
    /\ UNCHANGED <<active, unreachable, paused, resuming, ahead, ready, ids, runSession,
                   userMessage, launched, pc, answered, gateVars, closed, posted>>

\* stopReason, after the lock: the goroutine closed its done channel ...
StopReturns(r) ==
    /\ r \in stopWait
    /\ pc[r] = "ended"
    /\ stopWait' = stopWait \ {r}
    /\ UNCHANGED <<schedulerVars, gateVars, sessionVars, runSession, userMessage, stopReason,
                   launched, cancelled, pc, answered>>

\* ... or cancellationBound passed first: forceFinish.
ForceFinish(r) ==
    LET s == runSession[r] IN
    /\ r \in stopWait
    /\ stopWait' = stopWait \ {r}
    /\ \/ /\ ~ Current(r)
          /\ UNCHANGED <<active, queue, paused, resuming, ahead, ready, stoppedRuns, launched,
                         status>>
       \/ /\ Current(r)
          /\ FreeSlot(r, s, queue, runSession)
    /\ UNCHANGED <<pending, unreachable, ids, runSession, userMessage, stopReason, cancelled,
                   pc, answered, gateVars, closed, transcript, posted>>

-----------------------------------------------------------------------------
(* Holds on an unreachable model. *)

\* HoldModel from a budget measurement outside a run.
HoldModel(s) ==
    /\ unreachable' = unreachable \cup {s}
    /\ UNCHANGED <<active, queue, pending, paused, resuming, ahead, ready, stoppedRuns, ids,
                   runVars, gateVars, sessionVars>>

\* The chats of connection k whose waiting messages a release turns into runs.
Released(k) == {s \in OnConnection(unreachable, k) : pending[s] # {} /\ active[s] = NoRun}

\* The run ids they get.
Fresh(k) == (ids + 1)..(ids + Cardinality(Released(k)))

\* They get their runs in the order the map is walked; `now' are the ones admitted,
\* each against the ones admitted before it, and the others are queued.
StartReleased(k, run, now) ==
    LET chats == Released(k)
        owner == [r \in Fresh(k) |-> CHOOSE s \in chats : run[s] = r]
    IN
    /\ \A s, t \in chats : s # t => run[s] # run[t]
    /\ \A r \in Fresh(k) : \E s \in chats : run[s] = r
    /\ \A s \in chats :
         s \in now <=>
           Admits(Using([t \in Session |-> IF t \in now /\ run[t] < run[s]
                                             THEN run[t] ELSE active[t]], paused), s)
    /\ active' = [s \in Session |-> IF s \in now THEN run[s] ELSE active[s]]
    /\ launched' = launched \cup {run[s] : s \in now}
    /\ queue' = queue \cup {run[s] : s \in chats \ now}
    /\ status' = [s \in Session |-> IF s \in now THEN "running"
                                    ELSE IF s \in chats THEN "queued" ELSE status[s]]
    /\ runSession' = [r \in Run |-> IF r \in Fresh(k) THEN owner[r] ELSE runSession[r]]
    /\ userMessage' = [r \in Run |-> IF r \in Fresh(k) THEN Least(pending[owner[r]])
                                     ELSE userMessage[r]]

\* ReleaseModel: every held chat of the connection is released.
ReleaseModel(k) ==
    /\ OnConnection(unreachable, k) # {}
    /\ ids + Cardinality(Released(k)) <= MaxRun
    /\ unreachable' = unreachable \ OnConnection(unreachable, k)
    /\ \E run \in [Released(k) -> Fresh(k)], now \in SUBSET Released(k) :
         StartReleased(k, run, now)
    /\ ids' = ids + Cardinality(Released(k))
    /\ pending' = [s \in Session |-> IF s \in Released(k) THEN {} ELSE pending[s]]
    /\ UNCHANGED <<paused, resuming, ahead, ready, stoppedRuns, stopReason, stopWait, cancelled,
                   pc, answered, gateVars, closed, transcript, posted>>

-----------------------------------------------------------------------------
(* The chat's own operations that depend on its run. *)

Close(s) ==
    /\ s \notin closed
    /\ ~ IsRunning(s)
    /\ closed' = closed \cup {s}
    /\ UNCHANGED <<schedulerVars, runVars, gateVars, status, transcript, posted>>

Reopen(s) ==
    /\ s \in closed
    /\ closed' = closed \ {s}
    /\ UNCHANGED <<schedulerVars, runVars, gateVars, status, transcript, posted>>

\* Scheduler.Active.
ActiveOrQueued(s) == active[s] # NoRun \/ \E r \in queue : runSession[r] = s

\* The reset handler and Registry.Reset.
Reset(s) ==
    /\ ~ ActiveOrQueued(s)
    /\ ~ IsRunning(s)
    /\ s \notin closed
    /\ transcript' = [transcript EXCEPT ![s] = {}]
    /\ UNCHANGED <<schedulerVars, runVars, gateVars, status, closed, posted>>

\* Registry.DropLastMessage, when the last message is the user's.
DropLastMessage(s) ==
    /\ ~ IsRunning(s)
    /\ s \notin closed
    /\ transcript[s] # {}
    /\ transcript' = [transcript EXCEPT
                        ![s] = @ \ {CHOOSE m \in @ : \A n \in @ : n <= m}]
    /\ UNCHANGED <<schedulerVars, runVars, gateVars, status, closed, posted>>

-----------------------------------------------------------------------------
Submission(s) ==
    \/ SubmitHeld(s) \/ SubmitBehind(s) \/ SubmitStart(s) \/ SubmitQueue(s)
    \/ SubmitRefused(s)

Stopping == Stop(Session, TRUE) \/ \E s \in Session : Stop({s}, FALSE)

ChatOperation(s) == Close(s) \/ Reopen(s) \/ Reset(s) \/ DropLastMessage(s)

Outage ==
    \/ \E r \in Run : HoldInRun(r)
    \/ \E s \in Session : HoldModel(s)
    \/ \E k \in Connection : ReleaseModel(k)

\* The goroutine of run r, but for a failed dial.
RunStep(r) ==
    \/ BoundaryStops(r) \/ CheckContext(r) \/ TakeQueuedAtBoundary(r)
    \/ TurnAgain(r) \/ TurnEndsRun(r) \/ ReturnActiveMessage(r)
    \/ \E C \in SUBSET Call : AnswerTools(r, C)
    \/ EndTurn(r) \/ Finish(r)

\* The goroutine of tool call w.
CallStep(w) ==
    \/ FinishCall(w) \/ BeginWait(w) \/ ReleaseForCard(w) \/ Dismiss(w)
    \/ Reacquire(w) \/ Resume(w) \/ ResumeCancelled(w) \/ EndWait(w)

\* The runs, their deadlines and the Stop calls that wait for them.
Running == \E r \in Run : RunStep(r) \/ WallClock(r) \/ StopReturns(r) \/ ForceFinish(r)

Carding == (\E w \in Waiter : CallStep(w)) \/ (\E s \in Session : Decide(s))

Next ==
    \/ \E s \in Session : Submission(s)
    \/ Stopping
    \/ Running
    \/ Carding
    \/ Outage
    \/ \E s \in Session : ChatOperation(s)

Spec == Init /\ [][Next]_vars

Submitting == \E s \in Session : Submission(s)

\* The scheduler while no run is stopped and no call asks for a card.
UnstoppedNext ==
    \/ Submitting \/ Running \/ Outage
    \/ \E s \in Session : ChatOperation(s)

ChatOutageSpec == Init /\ [][UnstoppedNext]_vars

-----------------------------------------------------------------------------
(* Correctness. *)

\* No more runs than run.max_concurrent use a model, and no more on a connection
\* than its limit, whatever mix of submissions, continuations, releases, cards
\* and answers admitted them (admitLocked).
SlotLimits ==
    LET using == {s \in Session : active[s] # NoRun /\ s \notin paused} IN
    /\ Cardinality(using) <= MaxConcurrent
    /\ \A k \in Connection :
         Cardinality({s \in using : ConnectionOf[s] = k}) <= ConnectionLimit[k]

\* Whenever Scheduler.mu is free, every queued run and every answered call waiting
\* for a slot really has to wait: a slot freed by a finish, a forced finish or a
\* card was handed on before the lock was released (drainLocked).
WorkConserving ==
    LET using == {s \in Session : active[s] # NoRun /\ s \notin paused}
        Full(s) == \/ Cardinality(using) >= MaxConcurrent
                   \/ Cardinality({t \in using : ConnectionOf[t] = ConnectionOf[s]})
                        >= ConnectionLimit[ConnectionOf[s]]
    IN  /\ \A r \in queue : Full(runSession[r])
        /\ \A w \in resuming : Full(runSession[w[1]])

\* Runs of one connection start in the order they were queued, and a run that
\* never queued does not pass one that did (s.queue, drainLocked, ReleaseModel).
FirstComeFirstServed ==
    [][\A r \in launched' \ launched, x \in queue' :
          ConnectionOf[runSession'[r]] = ConnectionOf[runSession'[x]] => r < x]_vars

\* A run is never started on a connection while an answered call still waits for
\* a slot of that connection: answered runs come first (drainLocked, first loop).
ResumeFirst ==
    [][\A r \in launched' \ launched, w \in resuming' :
          ConnectionOf[runSession'[r]] # ConnectionOf[runSession'[w[1]]]]_vars

\* A run whose run.stopped was published is never dispatched or active again, so
\* its end is published once (publishRunStoppedLocked, forceFinish, finish).
StoppedNeverRuns ==
    /\ stoppedRuns \cap queue = {}
    /\ \A s \in Session : active[s] \notin stoppedRuns

\* A goroutine whose run is no longer the chat's run, forcibly finished or
\* superseded, and its tool calls change nothing of the chat's later runs: not their slot, their
\* place in the queue, their waiting messages or their pause.
LateRunFenced ==
    [][\A r \in launched :
          /\ active[runSession[r]] # r
          /\ pc'[r] # pc[r] \/ \E c \in Call : call'[<<r, c>>] # call[<<r, c>>]
          => UNCHANGED <<active, queue, pending, paused>>]_vars

\* A chat whose model is held gets no run: its messages wait for the model
\* (submitAttachmentsFrom, finish, ReleaseModel).
HeldStartsNothing ==
    [][\A r \in (ids + 1)..ids' : runSession'[r] \notin unreachable']_vars

\* No message is left waiting for something that will not come: while messages of
\* a chat wait, the chat has a run to wait for or a model to come back.
NothingStranded ==
    \A s \in Session :
        pending[s] # {} => s \in unreachable \/ ActiveOrQueued(s)

\* A chat shown as busy is busy: no chat is left stuck in a run status after its
\* run ended, where every later message would wait for ever (IsRunning).
BusyHasRun ==
    \A s \in Session : IsRunning(s) => ActiveOrQueued(s)

\* A chat's waiting list never exceeds run.queue_depth, and a positive depth is a
\* cap for every way in (submitAttachmentsFrom).
QueueBounded ==
    QueueDepth > 0 => \A s \in Session : Cardinality(pending[s]) <= QueueDepth

\* A pause never outlives its run: the chat's next run would use a model without
\* being counted against its limits (forgetPausedLocked, connectionRunsLocked).
PauseEndsWithRun ==
    \A s \in paused : active[s] # NoRun

\* An undecided card is the one its chat shows, so it can still be answered, and
\* a chat has at most one, however its calls and late calls interleave
\* (beginWait, pendingBySession).
OpenCardIsShown ==
    \A w \in Waiter : decision[w] = "open" => card[runSession[w[1]]] = w

\* What every step relies on about runs and calls: a run known to the scheduler
\* belongs to a chat, only a launched run is awaited by a Stop, the run of a chat is
\* a launched run of that chat, tool calls belong to a
\* launched run in its tools phase, and only a call that asked waits for a slot or
\* has been handed one.
RunsKnown ==
    /\ \A r \in queue \cup launched : r <= ids /\ runSession[r] \in Session
    /\ stopWait \subseteq launched
    /\ \A s \in Session : active[s] # NoRun => active[s] \in launched
                                             /\ runSession[active[s]] = s
    /\ \A w \in Waiter : call[w] # "idle" => w[1] \in launched /\ pc[w[1]] = "tools"
    /\ \A w \in resuming : call[w] = "resuming" /\ w \notin ready
    /\ \A w \in ready : call[w] \in {"resuming", "resumed"}

\* `ahead' orders the waiters of s.resuming like the list does: a strict total
\* order, in which a call that asks again goes to the end.
ListOrdered ==
    /\ \A v, w \in resuming : v # w => v \in ahead[w] \/ w \in ahead[v]
    /\ \A w \in resuming : w \notin ahead[w]
    /\ \A u, v, w \in resuming : u \in ahead[v] /\ v \in ahead[w] => u \in ahead[w]
    /\ \A v, w \in Waiter : w \in ahead[v] => call[w] \in {"resuming", "resumed"}

\* The inductive invariant behind the limits and the handing-on of slots.
SlotInv == TypeOK /\ RunsKnown /\ ListOrdered /\ SlotLimits /\ WorkConserving

\* A run waits in the queue or was launched, never both, and an ended run has an id
\* that was given out.
RunsDistinct ==
    /\ queue \cap launched = {}
    /\ \A r \in stoppedRuns : r <= ids

\* The inductive invariant behind the end of runs and of their pauses.
EndInv == TypeOK /\ RunsKnown /\ RunsDistinct /\ StoppedNeverRuns /\ PauseEndsWithRun

-----------------------------------------------------------------------------
(* Liveness.  The goroutine of a run and of a tool call is scheduled, the   *)
(* wall-clock limit of a run (at least one second) expires, and a Stop call *)
(* waits no longer than cancellationBound.  A tool call asks for a bounded  *)
(* number of cards, so it returns if it goes on often enough.  Nothing is   *)
(* assumed of the operator, who may leave every card unanswered.            *)

Fairness ==
    /\ \A r \in Run : /\ WF_vars(RunStep(r))
                      /\ WF_vars(WallClock(r))
                      /\ WF_vars(StopReturns(r) \/ ForceFinish(r))
    /\ \A w \in Waiter : WF_vars(CallStep(w)) /\ SF_vars(FinishCall(w))

\* Every queued run is started or stopped, whatever the runs ahead of it do.
QueuedRunLeaves ==
    \A r \in Run : r \in queue ~> r \notin queue

\* A run the operator stopped gives its chat back.
StopTakesEffect ==
    \A s \in Session, r \in Run :
        (active[s] = r /\ r \in stopReason) ~> active[s] # r

-----------------------------------------------------------------------------
(* The scheduler implements RunLife.                                        *)

\* The life of a run: run.stopped ends it, s.queue holds it while it waits, and
\* its goroutine makes it a running one.
LifeOf == [r \in Run |-> IF r \in stoppedRuns THEN "stopped"
                         ELSE IF r \in queue THEN "queued"
                         ELSE IF r \in launched THEN "running"
                         ELSE "none"]

Life == INSTANCE RunLife WITH
            Chat <- Session, life <- LifeOf, chat <- runSession,
            holders <- Using(active, paused)

\* Whatever submissions, cards, answers, stops, deadlines and late goroutines do,
\* each run leads one life and a model is held within the limits (submitAttachmentsFrom,
\* drainLocked, finish, forceFinish, releaseForCard, reacquire).
ImplementsRunLife == Life!LifeSpec

\* And every run that waits is served, although a run may pause for ever on a
\* card nobody answers (drainLocked, cancellationBound, the wall clock).
ServesEveryRun == Life!FairLifeSpec

-----------------------------------------------------------------------------
(* What the repository says of the scheduler and the code does not do.      *)

\* INTERFACES.md, "Messages posted during a run wait per session and start in
\* order after it ends": a chat has one run at a time, so a run that has not
\* been stopped is its chat's run until its goroutine ends.
OneRunPerChat ==
    \A r \in launched : pc[r] # "ended" /\ r \notin stoppedRuns => Current(r)

\* INTERFACES.md, "once answered it takes one back, ahead of queued runs, and when
\* none is free it reports run.queued": a call that waits for a slot belongs to a
\* run that has none.
NoSelfWait ==
    \A w \in resuming : runSession[w[1]] \in paused

\* INTERFACES.md, "Messages posted during a run wait per session and start in
\* order after it ends": a message that waits is delivered or handed back.
WaitingEnds ==
    \A s \in Session, m \in Message : m \in pending[s] ~> m \notin pending[s]
=============================================================================
