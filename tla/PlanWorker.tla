----------------------------- MODULE PlanWorker -----------------------------
(***************************************************************************)
(* The plan worker: internal/worker/driver.go and worker.go, the Go and    *)
(* Stop buttons of internal/web/worker.go, and the part of the scheduler   *)
(* a worker's chat uses (internal/agent/scheduler.go).  One plan.          *)
(*                                                                         *)
(* A press of Go creates a chat of its own and a goroutine; both are named *)
(* by the number of the press.  The goroutine takes the items of plan.md   *)
(* in order, marks the one it is on [~], posts it to its chat, waits for   *)
(* the run to stop and runs the item's verifier.  It learns of the run     *)
(* through a bus listener that abandons its queue when it overflows.       *)
(* Meanwhile the planner edits plan.md, the operator stops the worker or   *)
(* the run, the model goes away and the process may end.                   *)
(*                                                                         *)
(* An item is its [[id]]; ids are in plan order.  Nobody but the worker    *)
(* posts to a worker's chat.                                               *)
(***************************************************************************)
EXTENDS Integers, Sequences, FiniteSets

CONSTANTS
    Item,      \* the ids of the items, in plan order
    MaxGo,     \* bound: presses of Go
    MaxEdit    \* bound: edits of the plan

ASSUME ItemAssumption == Item \subseteq Nat /\ Item # {} /\ IsFiniteSet(Item)
ASSUME BoundAssumption == MaxGo \in Nat /\ MaxEdit \in Nat

VARIABLES
    (* plan.md and plan/items *)
    marker,         \* marker[i]: the marker of the item's line
    wanting,        \* items whose stuck reason is NoVerifier
    listed,         \* items with a line in plan.md
    named,          \* items whose file names a verifier
    edits,          \* edits made so far
    (* struct Driver and Server.workerStates *)
    running,        \* the worker in d.running[plan], or NoGo
    cancelled,      \* workers whose context is done
    workerSession,  \* the chat Stop reaches
    last,           \* d.last[plan] and d.lastError[plan]
    (* the goroutines of goPlan *)
    goes,           \* presses of Go so far
    pc,             \* where each one is
    current,        \* the item it is on
    outcome,        \* the marker and the reason it will write
    tally,          \* Summary.Done and Summary.Stuck
    begun,          \* workers whose item deadline runs
    stream,         \* what the item's listener has queued
    (* the chats *)
    run,            \* run[g]: the state of the chat's run
    held,           \* chats whose message waits for the model
    unreachable,    \* chats held because their model cannot be dialled
    stopAsk,        \* the chat a Stop of the worker is about to stop, or NoGo
    (* history *)
    started,        \* workers whose item had a run that started
    verified,       \* items whose verifier passed in the latest attempt
    left            \* items a failed worker or the end of the process left on [~]

planVars   == <<marker, wanting, listed, named>>
driverVars == <<running, cancelled, workerSession, last>>
loopVars   == <<pc, current, outcome, tally>>
waitVars   == <<begun, stream>>
chatVars   == <<run, held, unreachable>>
history    == <<started, verified, left>>
workerVars == <<planVars, edits, driverVars, goes, loopVars, waitVars, chatVars, stopAsk,
                history>>

Go     == 1..MaxGo
NoGo   == 0
Marker == {" ", "~", "x", "!"}
Phase  == {"none", "created", "loop", "taken", "submit", "wait", "expired", "verify",
           "outcome", "leave", "ended"}
\* queued shows as "queued", resuming too: a card was answered and the run waits to
\* take its model slot back.  idle is a chat without a run.
RunState == {"idle", "queued", "running", "paused", "resuming", "stopping"}
Stop     == {"done", "failed", "aborted", "model_unreachable"}

Least(S) == CHOOSE i \in S : \A j \in S : i <= j

NoOutcome == [marker |-> " ", noVerifier |-> FALSE]
NoTally   == [done |-> 0, stuck |-> 0]
NoSummary == [done |-> 0, stuck |-> 0, waiting |-> 0, stopped |-> FALSE, failed |-> FALSE]

WorkerTypeOK ==
    /\ marker \in [Item -> Marker]
    /\ wanting \subseteq Item /\ listed \subseteq Item /\ named \subseteq Item
    /\ edits \in 0..MaxEdit
    /\ running \in Go \cup {NoGo} /\ workerSession \in Go \cup {NoGo}
    /\ stopAsk \in Go \cup {NoGo}
    /\ cancelled \subseteq Go /\ begun \subseteq Go
    /\ held \subseteq Go /\ unreachable \subseteq Go
    /\ last \in [done : Nat, stuck : Nat, waiting : Nat, stopped : BOOLEAN, failed : BOOLEAN]
    /\ goes \in 0..MaxGo
    /\ pc \in [Go -> Phase]
    /\ current \in [Go -> Item]
    /\ outcome \in [Go -> [marker : Marker, noVerifier : BOOLEAN]]
    /\ tally \in [Go -> [done : Nat, stuck : Nat]]
    /\ stream \in [Go -> Seq({"started"} \cup Stop)]
    /\ run \in [Go -> RunState]
    /\ started \subseteq Go /\ verified \subseteq Item /\ left \subseteq Item

WorkerInit ==
    /\ marker = [i \in Item |-> " "] /\ wanting = {}
    /\ listed \in SUBSET Item /\ named \in SUBSET Item
    /\ edits = 0
    /\ running = NoGo /\ cancelled = {} /\ workerSession = NoGo /\ last = NoSummary
    /\ goes = 0
    /\ pc = [g \in Go |-> "none"]
    /\ current = [g \in Go |-> Least(Item)]
    /\ outcome = [g \in Go |-> NoOutcome]
    /\ tally = [g \in Go |-> NoTally]
    /\ begun = {} /\ stream = [g \in Go |-> <<>>]
    /\ run = [g \in Go |-> "idle"] /\ held = {} /\ unreachable = {}
    /\ stopAsk = NoGo
    /\ started = {} /\ verified = {} /\ left = {}

-----------------------------------------------------------------------------
(* The chat of a worker: what the scheduler does with it. *)

\* Snapshot().Run.Status as the worker's two-second check reads it.
ShowsQueued(g) == run[g] \in {"queued", "resuming"}

\* An event reaches the listener of the item the worker waits for.
Heard(g, e) == stream' = [stream EXCEPT ![g] = IF pc[g] = "wait" THEN Append(@, e) ELSE @]

\* startLocked publishes run.started.
RunStarts(g) ==
    /\ run[g] = "queued"
    /\ run' = [run EXCEPT ![g] = "running"]
    /\ Heard(g, "started")
    /\ started' = started \cup {g}
    /\ UNCHANGED <<planVars, edits, driverVars, goes, loopVars, begun, held, unreachable,
                   stopAsk, verified, left>>

\* A tool call of the run waits on a card, is answered and takes its slot back.
Card(g) ==
    /\ \E step \in {<<"running", "paused">>, <<"paused", "resuming">>, <<"resuming", "running">>} :
          run[g] = step[1] /\ run' = [run EXCEPT ![g] = step[2]]
    /\ UNCHANGED <<planVars, edits, driverVars, goes, loopVars, waitVars, held, unreachable,
                   stopAsk, history>>

\* finish: the run ends by itself, or after a stop as aborted.
RunEnds(g) ==
    /\ \/ run[g] = "running" /\ \E reason \in {"done", "failed"} : Heard(g, reason)
       \/ run[g] = "stopping" /\ Heard(g, "aborted")
    /\ run' = [run EXCEPT ![g] = "idle"]
    /\ UNCHANGED <<planVars, edits, driverVars, goes, loopVars, begun, held, unreachable,
                   stopAsk, history>>

\* finish with model_unreachable: the chat is held.  A worker's message is not
\* returned (returnActiveMessage), the run simply failed.
ModelLost(g) ==
    /\ run[g] = "running"
    /\ run' = [run EXCEPT ![g] = "idle"]
    /\ unreachable' = unreachable \cup {g}
    /\ Heard(g, "model_unreachable")
    /\ UNCHANGED <<planVars, edits, driverVars, goes, loopVars, begun, held, stopAsk, history>>

\* ReleaseModel: a waiting message gets its run, or a place in the queue.
Release(g) ==
    /\ g \in unreachable
    /\ unreachable' = unreachable \ {g}
    /\ held' = held \ {g}
    /\ IF g \notin held
         THEN UNCHANGED <<run, stream, started>>
         ELSE \/ /\ run' = [run EXCEPT ![g] = "running"]
                 /\ Heard(g, "started")
                 /\ started' = started \cup {g}
              \/ run' = [run EXCEPT ![g] = "queued"] /\ UNCHANGED <<stream, started>>
    /\ UNCHANGED <<planVars, edits, driverVars, goes, loopVars, begun, stopAsk, verified, left>>

\* The listener's queue overflowed: what it held is abandoned (Bus.Listen).
EventsLost(g) ==
    /\ stream[g] # <<>>
    /\ stream' = [stream EXCEPT ![g] = <<>>]
    /\ UNCHANGED <<planVars, edits, driverVars, goes, loopVars, begun, chatVars, stopAsk, history>>

\* Scheduler.Stop on one chat: a run is cancelled, a queued one is dropped with
\* reason done, a waiting message goes back without an event.
StopRun(g) ==
    /\ held' = held \ {g}
    /\ run' = [run EXCEPT ![g] = CASE @ \in {"idle", "queued"} -> "idle" [] OTHER -> "stopping"]

StopChat(g) ==
    /\ StopRun(g)
    /\ IF run[g] = "queued" THEN Heard(g, "done") ELSE UNCHANGED stream

\* The operator stops the chat, or every chat, and not the worker.
OperatorStop(g) ==
    /\ run[g] \in {"queued", "running", "paused", "resuming"} \/ g \in held
    /\ StopChat(g)
    /\ UNCHANGED <<planVars, edits, driverVars, goes, loopVars, begun, unreachable, stopAsk, history>>

-----------------------------------------------------------------------------
(* Go and Stop. *)

\* planGoStart: no worker is running; a chat is created and becomes the one Stop
\* reaches, and a goroutine is started.
PressGo ==
    /\ running = NoGo
    /\ goes < MaxGo
    /\ goes' = goes + 1
    /\ workerSession' = goes'
    /\ pc' = [pc EXCEPT ![goes'] = "created"]
    /\ UNCHANGED <<planVars, edits, running, cancelled, last, current, outcome, tally, waitVars,
                   chatVars, stopAsk, history>>

\* Mutant: the second look under d.mu is missing.
EnterAnyway(g) ==
    /\ pc[g] = "created"
    /\ running' = g
    /\ pc' = [pc EXCEPT ![g] = "loop"]
    /\ UNCHANGED <<planVars, edits, cancelled, workerSession, last, goes, current, outcome, tally,
                   waitVars, chatVars, stopAsk, history>>

\* goPlan takes d.running[plan], unless another goroutine was first.
Enter(g) ==
    /\ pc[g] = "created"
    /\ IF running # NoGo
         THEN running' = running /\ pc' = [pc EXCEPT ![g] = "ended"]
         ELSE running' = g /\ pc' = [pc EXCEPT ![g] = "loop"]
    /\ UNCHANGED <<planVars, edits, cancelled, workerSession, last, goes, current, outcome, tally,
                   waitVars, chatVars, stopAsk, history>>

\* Driver.Stop, first half: the worker's context.
StopWorker ==
    /\ running # NoGo
    /\ stopAsk = NoGo
    /\ cancelled' = cancelled \cup {running}
    /\ stopAsk' = workerSession
    /\ UNCHANGED <<planVars, edits, running, workerSession, last, goes, loopVars, waitVars,
                   chatVars, history>>

\* Driver.Stop, second half: the run of the chat Stop knows of.
StopItsRun ==
    /\ stopAsk # NoGo
    /\ StopChat(stopAsk)
    /\ stopAsk' = NoGo
    /\ UNCHANGED <<planVars, edits, driverVars, goes, loopVars, begun, unreachable, history>>

-----------------------------------------------------------------------------
(* goPlan. *)

\* NextIn chooses the first of these: waiting, or stuck only for want of a verifier
\* and naming one now.
Takable == {i \in listed : marker[i] = " " \/ i \in wanting \cap named}

Waiting == {i \in listed : marker[i] = " "}

\* The summary with one more outcome.
Counted(t, m) == IF m = "x" THEN [t EXCEPT !.done = @ + 1] ELSE [t EXCEPT !.stuck = @ + 1]

\* The loop is left: the summary is recorded.
Leave(g, stopped, failed) ==
    /\ pc' = [pc EXCEPT ![g] = "leave"]
    /\ last' = [done |-> tally'[g].done, stuck |-> tally'[g].stuck,
                waiting |-> IF failed THEN 0 ELSE Cardinality({i \in listed : marker'[i] = " "}),
                stopped |-> stopped, failed |-> failed]

\* The head of the loop: the context, the next item, or the end.
Loop(g) ==
    /\ pc[g] = "loop"
    /\ IF g \in cancelled \/ Takable = {}
         THEN /\ UNCHANGED <<tally, marker, current>>
              /\ Leave(g, g \in cancelled, FALSE)
         ELSE /\ current' = [current EXCEPT ![g] = Least(Takable)]
              /\ pc' = [pc EXCEPT ![g] = "taken"]
              /\ UNCHANGED <<tally, marker, last>>
    /\ UNCHANGED <<wanting, listed, named, edits, running, cancelled, workerSession, goes, outcome,
                   waitVars, chatVars, stopAsk, history>>

\* plan.md cannot be read or written, at the head of the loop, when the item is taken
\* or when its outcome is recorded: the item may then stay on [~].
PlanFails(g) ==
    LET i == current[g]
        over == pc[g] = "outcome"
    IN
    /\ pc[g] \in {"loop", "taken", "outcome"}
    /\ tally' = [tally EXCEPT ![g] = IF over THEN Counted(@, outcome[g].marker) ELSE @]
    /\ outcome' = [outcome EXCEPT ![g] = NoOutcome]
    /\ left' = IF over /\ marker[i] = "~" THEN left \cup {i} ELSE left
    /\ UNCHANGED marker
    /\ Leave(g, FALSE, TRUE)
    /\ UNCHANGED <<wanting, listed, named, edits, running, cancelled, workerSession, goes, current,
                   waitVars, chatVars, stopAsk, started, verified>>

\* Mark [~] and Brief: an item that left the plan ends the worker, one without a
\* verifier is not started.
MarkTaken(g) ==
    LET i == current[g] IN
    /\ pc[g] = "taken"
    /\ IF i \notin listed
         THEN UNCHANGED <<tally, marker, wanting, outcome, started, verified>> /\ Leave(g, FALSE, TRUE)
         ELSE /\ marker' = [marker EXCEPT ![i] = "~"]
              /\ wanting' = wanting \ {i}
              /\ started' = started \ {g} /\ verified' = verified \ {i}
              /\ IF i \in named
                   THEN pc' = [pc EXCEPT ![g] = "submit"] /\ UNCHANGED outcome
                   ELSE /\ pc' = [pc EXCEPT ![g] = "outcome"]
                        /\ outcome' = [outcome EXCEPT ![g] = [marker |-> "!", noVerifier |-> TRUE]]
              /\ UNCHANGED <<tally, last>>
    /\ UNCHANGED <<listed, named, edits, running, cancelled, workerSession, goes, current,
                   waitVars, chatVars, stopAsk, left>>

\* The item is stuck, for any reason but the missing verifier.
Stuck(g) == outcome' = [outcome EXCEPT ![g] = [marker |-> "!", noVerifier |-> FALSE]]

\* Submit with a fresh listener: refused, held for the model, started or queued.
Submit(g) ==
    /\ pc[g] = "submit"
    /\ begun' = begun \ {g}
    /\ \/ /\ Stuck(g)
          /\ pc' = [pc EXCEPT ![g] = "outcome"]
          /\ stream' = [stream EXCEPT ![g] = <<>>]
          /\ UNCHANGED <<run, held, started>>
       \/ /\ pc' = [pc EXCEPT ![g] = "wait"]
          /\ IF g \in unreachable
               THEN /\ held' = held \cup {g}
                    /\ stream' = [stream EXCEPT ![g] = <<>>]
                    /\ UNCHANGED <<run, started>>
               ELSE /\ held' = held
                    /\ \/ /\ run' = [run EXCEPT ![g] = "running"]
                          /\ stream' = [stream EXCEPT ![g] = <<"started">>]
                          /\ started' = started \cup {g}
                       \/ /\ run' = [run EXCEPT ![g] = "queued"]
                          /\ stream' = [stream EXCEPT ![g] = <<>>]
                          /\ UNCHANGED started
          /\ UNCHANGED outcome
    /\ UNCHANGED <<planVars, edits, driverVars, goes, current, tally, unreachable, stopAsk,
                   verified, left>>

\* runItem returns: the timer is stopped, nobody reads the listener any more.
StopsWaiting(g) == begun' = begun \ {g} /\ stream' = [stream EXCEPT ![g] = <<>>]

\* runItem: the context is done.
Cancelled(g) ==
    /\ pc[g] = "wait"
    /\ g \in cancelled
    /\ Stuck(g)
    /\ pc' = [pc EXCEPT ![g] = "outcome"]
    /\ StopsWaiting(g)
    /\ UNCHANGED <<planVars, edits, driverVars, goes, current, tally, chatVars, stopAsk,
                   history>>

\* Mutant: only a run that shows as running starts the clock.
CheckRunning(g) ==
    /\ pc[g] = "wait"
    /\ run[g] = "running"
    /\ begun' = begun \cup {g}
    /\ UNCHANGED <<planVars, edits, driverVars, goes, loopVars, stream, chatVars, stopAsk, history>>

\* runItem, every two seconds: a run that does not show as queued has begun.
Check(g) ==
    /\ pc[g] = "wait"
    /\ ~ ShowsQueued(g)
    /\ begun' = begun \cup {g}
    /\ UNCHANGED <<planVars, edits, driverVars, goes, loopVars, stream, chatVars, stopAsk, history>>

\* runItem: the deadline.  The run is stopped and Stop waits for its end.
Expire(g) ==
    /\ pc[g] = "wait"
    /\ g \in begun
    /\ Stuck(g)
    /\ pc' = [pc EXCEPT ![g] = "expired"]
    /\ StopRun(g)
    /\ StopsWaiting(g)
    /\ UNCHANGED <<planVars, edits, driverVars, goes, current, tally, unreachable, stopAsk,
                   history>>

Expired(g) ==
    /\ pc[g] = "expired"
    /\ run[g] # "stopping"
    /\ pc' = [pc EXCEPT ![g] = "outcome"]
    /\ UNCHANGED <<planVars, edits, driverVars, goes, current, outcome, tally, waitVars, chatVars,
                   stopAsk, history>>

\* run.started: the deadline runs from now.
Began(g) == begun' = begun \cup {g} /\ stream' = [stream EXCEPT ![g] = Tail(@)]

\* Mutant: a run that stopped is a run that is done.
ReceiveAny(g) ==
    /\ pc[g] = "wait"
    /\ stream[g] # <<>>
    /\ IF Head(stream[g]) = "started"
         THEN Began(g) /\ UNCHANGED <<pc, outcome>>
         ELSE /\ outcome' = [outcome EXCEPT ![g] = [marker |-> "x", noVerifier |-> FALSE]]
              /\ pc' = [pc EXCEPT ![g] = "outcome"] /\ StopsWaiting(g)
    /\ UNCHANGED <<planVars, edits, driverVars, goes, current, tally, chatVars, stopAsk, history>>

\* runItem: an event of the run.  classify: only done can go on, to the verifier.
Receive(g) ==
    /\ pc[g] = "wait"
    /\ stream[g] # <<>>
    /\ CASE Head(stream[g]) = "started" -> Began(g) /\ UNCHANGED <<pc, outcome>>
         [] Head(stream[g]) = "done" -> /\ StopsWaiting(g)
                                        /\ pc' = [pc EXCEPT ![g] = "verify"] /\ UNCHANGED outcome
         [] OTHER -> StopsWaiting(g) /\ Stuck(g) /\ pc' = [pc EXCEPT ![g] = "outcome"]
    /\ UNCHANGED <<planVars, edits, driverVars, goes, current, tally, chatVars, stopAsk, history>>

\* verify: exit 0 before the stop and the deadline, or stuck.
Verify(g) ==
    /\ pc[g] = "verify"
    /\ pc' = [pc EXCEPT ![g] = "outcome"]
    /\ \/ /\ g \notin cancelled
          /\ verified' = verified \cup {current[g]}
          /\ outcome' = [outcome EXCEPT ![g] = [marker |-> "x", noVerifier |-> FALSE]]
       \/ Stuck(g) /\ UNCHANGED verified
    /\ UNCHANGED <<planVars, edits, driverVars, goes, current, tally, waitVars, chatVars, stopAsk,
                   started, left>>

\* The marker goes to the item's line as it is now; an item that left the plan ends
\* the worker with an error.  The context is looked at again at the head of the loop.
Record(g) ==
    LET i == current[g] IN
    /\ pc[g] = "outcome"
    /\ tally' = [tally EXCEPT ![g] = Counted(@, outcome[g].marker)]
    /\ IF i \notin listed
         THEN UNCHANGED <<marker, wanting>> /\ Leave(g, FALSE, TRUE)
         ELSE /\ marker' = [marker EXCEPT ![i] = outcome[g].marker]
              /\ wanting' = IF outcome[g].noVerifier THEN wanting \cup {i} ELSE wanting \ {i}
              /\ IF g \in cancelled
                   THEN Leave(g, TRUE, FALSE)
                   ELSE pc' = [pc EXCEPT ![g] = "loop"] /\ UNCHANGED last
    /\ outcome' = [outcome EXCEPT ![g] = NoOutcome]
    /\ UNCHANGED <<listed, named, edits, running, cancelled, workerSession, goes, current,
                   waitVars, chatVars, stopAsk, history>>

\* The deferred function: the context is cancelled, d.running[plan] is free.
Return(g) ==
    /\ pc[g] = "leave"
    /\ pc' = [pc EXCEPT ![g] = "ended"]
    /\ running' = NoGo
    /\ cancelled' = cancelled \cup {g}
    /\ tally' = [tally EXCEPT ![g] = NoTally]
    /\ UNCHANGED <<planVars, edits, workerSession, last, goes, current, outcome, waitVars,
                   chatVars, stopAsk, history>>

-----------------------------------------------------------------------------
(* plan.md and the process. *)

\* acceptPlanProposal: a line is added or dropped, an item file names a verifier.
\* planMarker: the cube flips [x] and [ ].
Edit(i) ==
    /\ edits < MaxEdit
    /\ edits' = edits + 1
    /\ \/ /\ i \notin listed
          /\ listed' = listed \cup {i}
          /\ marker' = [marker EXCEPT ![i] = " "]
          /\ wanting' = wanting \ {i}
          /\ left' = left \ {i}
          /\ UNCHANGED named
       \/ /\ i \in listed
          /\ listed' = listed \ {i}
          /\ UNCHANGED <<marker, wanting, named, left>>
       \/ i \notin named /\ named' = named \cup {i} /\ UNCHANGED <<marker, wanting, listed, left>>
       \/ /\ i \in listed /\ marker[i] \in {"x", " "}
          /\ marker' = [marker EXCEPT ![i] = IF @ = "x" THEN " " ELSE "x"]
          /\ UNCHANGED <<wanting, listed, named, left>>
    /\ verified' = IF marker'[i] = "x" THEN verified \cup {i} ELSE verified
    /\ UNCHANGED <<driverVars, goes, loopVars, waitVars, chatVars, stopAsk, started>>

\* The process ends and comes back: plan.md stays as it is.
Restart ==
    /\ \E g \in Go : pc[g] \notin {"none", "ended"}
    /\ running' = NoGo /\ cancelled' = {} /\ workerSession' = NoGo /\ last' = NoSummary
    /\ pc' = [g \in Go |-> IF pc[g] = "none" THEN "none" ELSE "ended"]
    /\ begun' = {} /\ stream' = [g \in Go |-> <<>>]
    /\ run' = [g \in Go |-> "idle"] /\ held' = {} /\ unreachable' = {} /\ stopAsk' = NoGo
    /\ left' = left \cup {i \in Item : marker[i] = "~"}
    /\ UNCHANGED <<planVars, edits, goes, current, outcome, tally, started, verified>>

Worker(g) ==
    \/ Enter(g) \/ Loop(g) \/ PlanFails(g) \/ MarkTaken(g) \/ Submit(g) \/ Cancelled(g)
    \/ Check(g) \/ Expire(g) \/ Expired(g) \/ Receive(g) \/ Verify(g) \/ Record(g) \/ Return(g)

Chat(g) ==
    RunStarts(g) \/ Card(g) \/ RunEnds(g) \/ ModelLost(g) \/ Release(g) \/ EventsLost(g)
    \/ OperatorStop(g)

WorkerNext ==
    \/ PressGo \/ StopWorker \/ StopItsRun \/ Restart
    \/ \E g \in Go : Worker(g) \/ Chat(g)
    \/ \E i \in Item : Edit(i)

WorkerSpec == WorkerInit /\ [][WorkerNext]_workerVars

\* What the scheduler owes the chat: a queued run starts, an answered card gets its
\* slot back, and a stopped run ends, at the latest when Scheduler.Stop gives up on it.
Owed(g) ==
    \/ RunStarts(g)
    \/ run[g] = "resuming" /\ Card(g)
    \/ run[g] = "stopping" /\ RunEnds(g)

\* The goroutine of goPlan keeps going and the scheduler does what it owes.  The
\* two-second ticker samples the chat whatever the run does.
WorkerFairness ==
    \A g \in Go : WF_workerVars(Worker(g)) /\ SF_workerVars(Check(g)) /\ WF_workerVars(Owed(g))

FairWorkerSpec == WorkerSpec /\ WorkerFairness

-----------------------------------------------------------------------------
(* Properties. *)

\* An item of the plan is [x] only when its verifier passed after the worker marked
\* it [~] last, before the worker was stopped, or when the operator flipped its cube:
\* `verify is the only way an item reaches [x]'.
DoneIsVerified == \A i \in Item : marker[i] = "x" => i \in verified

\* An item on [~] is the one the worker in d.running is on, however many times Go was
\* pressed, or was left on [~] when the process ended or plan.md could not be written.
TildeHasWorker ==
    \A i \in listed : marker[i] = "~" =>
        \/ i \in left
        \/ /\ running # NoGo
           /\ current[running] = i
           /\ pc[running] \in {"submit", "wait", "expired", "verify", "outcome"}

\* A worker returns, whatever events its listener lost, cards nobody answers and runs
\* that never end: the deadline is armed by what the chat shows, not by events alone.
WorkerReturns == running # NoGo ~> running = NoGo

\* What driver.go says of Stop, `Stop ends the worker on a plan the way Stop ends any
\* run': once a stopped worker has returned and Stop too, its chat has no run.
StopEndsTheRun ==
    \A g \in Go :
        pc[g] = "ended" /\ stopAsk = NoGo => run[g] \in {"idle", "stopping"}

\* What driver.go says of runItem, `a run that stops for any reason other than a clean
\* finish is stuck': an item goes to its verifier only after a run that started.
VerifiedItemRan == \A g \in Go : pc[g] = "verify" => g \in started
=============================================================================
