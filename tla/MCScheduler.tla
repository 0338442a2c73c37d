---------------------------- MODULE MCScheduler ----------------------------
(***************************************************************************)
(* Scheduler on small instances.  Each specification below is Scheduler    *)
(* with a part of its environment left quiet, so that the part a run is    *)
(* about can be explored with enough messages for the interesting cases.   *)
(***************************************************************************)
EXTENDS Scheduler, TLC

CONSTANTS a, b, c, x, y

\* Chats a and b share connection x; c, where there is one, has y.
MCConnectionOf == [s \in Session |-> IF s = c THEN y ELSE x]

MCOne == [k \in Connection |-> 1]
MCTwo == [k \in Connection |-> 2]

Chats        == Permutations({a, b} \cap Session)
ChatsAndCalls == Chats \cup Permutations(Call)

\* Messages, runs and stops; every model answers and no tool call needs a card.
QueueSpec == Init /\ [][Submitting \/ Stopping \/ Running]_vars

\* Messages and runs only.
RunSpec == Init /\ [][Submitting \/ Running]_vars

\* Models become unreachable and come back.
OutageSpec == Init /\ [][Submitting \/ Running \/ Outage]_vars

\* Models become unreachable, come back, and the operator stops runs.
OutageStopSpec == Init /\ [][Submitting \/ Stopping \/ Running \/ Outage]_vars

\* Tool calls pause on cards, and the operator stops runs.
CardSpec == Init /\ [][Submitting \/ Stopping \/ Running \/ Carding]_vars

\* Tool calls pause on cards.
ParallelCardSpec == Init /\ [][Submitting \/ Running \/ Carding]_vars

\* Chats are closed, reopened, cleared and rewound.
ChatSpec ==
    Init /\ [][Submitting \/ Running \/ \E s \in Session : ChatOperation(s)]_vars

FairCardSpec == CardSpec /\ Fairness

-----------------------------------------------------------------------------
(* Further statements of the repository that TLC refutes; the README names  *)
(* the specification and the instance for each.                             *)

\* registry.go, DropLastMessage and Reset, "session is running": while a chat has a
\* run, no message it was given leaves the conversation, but for the message
\* that started it, handed back when the model failed.
RunKeepsItsMessages ==
    [][\A s \in Session :
          active[s] # NoRun =>
             transcript[s] \ transcript'[s] \subseteq pending[s] \cup {userMessage[active[s]]}]_vars

\* INTERFACES.md, "Closing refuses any active/queued/paused/stopping run": a
\* closed chat has no run, in s.active or in s.queue.
ClosedHasNoRun ==
    \A s \in closed : ~ ActiveOrQueued(s)

\* INTERFACES.md, "POST /api/stop holds queued messages until the operator's
\* next message releases them in order": a message that stops waiting stays in
\* the conversation.
StopKeepsMessages ==
    [][\A s \in Session : pending[s] \ pending'[s] \subseteq transcript'[s]]_vars

\* scheduler.go, RestoreQueue: "A queue entry with no message would send nothing,
\* so it is dropped rather than carried as a ghost".
NoGhostEntry ==
    \A s \in Session : pending[s] \subseteq transcript[s]

\* INTERFACES.md, "A run paused on a card holds no model slot": a run whose calls
\* all wait for an answer uses no slot.
CardHoldsNoSlot ==
    \A r \in launched \ cancelled :
        LET open == {i \in Call : call[<<r, i>>] = "waiting" /\ decision[<<r, i>>] = "open"}
        IN  /\ Current(r) /\ pc[r] = "tools" /\ open # {}
            /\ \A i \in Call \ open : call[<<r, i>>] = "idle"
            => runSession[r] \in paused

\* scheduler.go, runningLocked "counts the runs using a model slot: every active run
\* except one paused on a card": the run of a chat in s.paused, until it is cancelled,
\* has a call that waits.
PausedRunHasCard ==
    \A s \in paused : active[s] \notin cancelled => \E i \in Call : call[<<active[s], i>>] # "idle"

\* scheduler.go, forgetPausedLocked "drops a finished run's pause and any wait to
\* re-acquire": only the chat's run waits for a slot.
WaitEndsWithRun ==
    \A w \in resuming : Current(w[1])

\* gate.go, awaitDecision: "a late wait of an ended run never touches the run that
\* followed it in the same chat".
LateWaitHarmless ==
    [][\A w \in Waiter :
          call'[w] # call[w] /\ ~ Current(w[1]) =>
             /\ status'[runSession[w[1]]] = status[runSession[w[1]]]
             /\ \A v \in Waiter : v[1] # w[1] => decision'[v] = decision[v]]_vars
=============================================================================
