----------------------------- MODULE Telemetry ------------------------------
(***************************************************************************)
(* Telemetry: the sender of internal/telemetry/sender.go and its host in   *)
(* internal/web/telemetry.go, which a settings save stops and starts       *)
(* (internal/web/server_connections.go).                                   *)
(*                                                                         *)
(* A sender has a bus reader that observes events, a loop that flushes     *)
(* them and sends the backlog every five minutes, and no goroutine for the *)
(* recorder, which observes through a reference it took under the host's   *)
(* lock.  A batch that cannot be posted is queued on disk.  Stopping waits *)
(* for the reader and the loop, and for nobody else, and deletes the       *)
(* queue.                                                                  *)
(*                                                                         *)
(* An event is a number and a batch a set of them: a batch that is split   *)
(* by type or size is sent part by part, each like a whole one.            *)
(***************************************************************************)
EXTENDS Naturals, Sequences, FiniteSets

CONSTANTS
    Saver,          \* requests that save the settings
    Recorder,       \* goroutines that record for telemetry
    BatchEventCap,  \* events that make a batch full
    MaxEvent,       \* bound: events observed
    MaxSender,      \* bound: senders created
    MaxTurn         \* bound: saves

ASSUME TelemetryAssumption ==
    /\ "free" \notin Saver /\ Recorder \cap {"reader", "loop"} = {}
    /\ BatchEventCap \in Nat \ {0}
    /\ MaxEvent \in Nat /\ MaxSender \in Nat /\ MaxTurn \in Nat

VARIABLES
    telSwitch,   \* Telemetry.Enabled in the configuration
    saverPc,     \* where each save is
    snapshot,    \* the switch in the snapshot it applies
    hostMu,      \* the save that holds telemetryHost.mu, or "free"
    telTurns,    \* saves so far
    sender,      \* telemetryHost.state: the sender, or 0
    alive,       \* the sender whose reader and loop run, or 0
    senders,     \* senders created so far
    shut,        \* senders Close has stopped
    gathered,    \* gathered[g]: s.pending of a sender
    actorPc,     \* where the reader, the loop and each recorder is
    refTo,       \* the sender a recorder refers to
    taken,       \* the batch an actor posts
    backlog,     \* the queue directory, oldest first
    draining,    \* the files drainQueue has still to look at
    (* history *)
    observed,    \* events so far
    delivered,   \* events the receiver accepted
    given,       \* events refused, expired, deleted or not written
    takenLate    \* a batch was taken from a sender that had been stopped

telVars  == <<telSwitch, saverPc, snapshot, hostMu, telTurns, sender, alive, senders, shut,
              gathered, actorPc, refTo, taken, backlog, draining, observed, delivered,
              given, takenLate>>
hostVars == <<telSwitch, saverPc, snapshot, hostMu, telTurns, sender, alive, senders, shut>>

TelActor == {"reader", "loop"} \cup Recorder
SenderId == 1..MaxSender
TelEvent == 1..MaxEvent
SeqSet(q) == {q[k] : k \in 1..Len(q)}
Backlogged == UNION SeqSet(backlog)

TelTypeOK ==
    /\ telSwitch \in BOOLEAN /\ takenLate \in BOOLEAN
    /\ saverPc \in [Saver -> {"idle", "saved", "snap", "reader", "loop", "start"}]
    /\ snapshot \in [Saver -> BOOLEAN] /\ hostMu \in Saver \cup {"free"}
    /\ telTurns \in 0..MaxTurn /\ senders \in 0..MaxSender
    /\ sender \in 0..MaxSender /\ alive \in 0..MaxSender
    /\ shut \subseteq SenderId
    /\ gathered \in [SenderId -> SUBSET TelEvent]
    /\ actorPc \in [TelActor -> {"idle", "ref", "full", "post", "drain"}]
    /\ refTo \in [TelActor -> 0..MaxSender]
    /\ taken \in [TelActor -> SUBSET TelEvent]
    /\ backlog \in Seq(SUBSET TelEvent) /\ draining \in Seq(SUBSET TelEvent)
    /\ observed \in 0..MaxEvent
    /\ delivered \cup given \subseteq TelEvent

TelInit ==
    /\ telSwitch = FALSE
    /\ saverPc = [s \in Saver |-> "idle"] /\ snapshot = [s \in Saver |-> FALSE]
    /\ hostMu = "free" /\ telTurns = 0
    /\ sender = 0 /\ alive = 0 /\ senders = 0 /\ shut = {}
    /\ gathered = [g \in SenderId |-> {}]
    /\ actorPc = [a \in TelActor |-> "idle"] /\ refTo = [a \in TelActor |-> 0]
    /\ taken = [a \in TelActor |-> {}]
    /\ backlog = <<>> /\ draining = <<>>
    /\ observed = 0 /\ delivered = {} /\ given = {} /\ takenLate = FALSE

-----------------------------------------------------------------------------
(* The host. *)

\* The settings are saved under the server's lock, the switch turned or not.
SaveSettings(s) ==
    /\ saverPc[s] = "idle" /\ telTurns < MaxTurn
    /\ telSwitch' \in BOOLEAN /\ telTurns' = telTurns + 1
    /\ saverPc' = [saverPc EXCEPT ![s] = "saved"]
    /\ UNCHANGED <<snapshot, hostMu, sender, alive, senders, shut, gathered, actorPc, refTo,
                   taken, backlog, draining, observed, delivered, given, takenLate>>

\* ConfigSnapshot, taken before the host's lock.
TakeSnapshot(s) ==
    /\ saverPc[s] = "saved"
    /\ snapshot' = [snapshot EXCEPT ![s] = telSwitch]
    /\ saverPc' = [saverPc EXCEPT ![s] = "snap"]
    /\ UNCHANGED <<telSwitch, hostMu, telTurns, sender, alive, senders, shut, gathered, actorPc,
                   refTo, taken, backlog, draining, observed, delivered, given, takenLate>>

\* applyTelemetry takes the lock and detaches the sender there is.
ApplyTelemetry(s) ==
    /\ saverPc[s] = "snap" /\ hostMu = "free"
    /\ hostMu' = s
    /\ sender' = 0
    /\ saverPc' = [saverPc EXCEPT ![s] = IF sender = 0 THEN "start" ELSE "reader"]
    /\ UNCHANGED <<telSwitch, snapshot, telTurns, alive, senders, shut, gathered, actorPc, refTo,
                   taken, backlog, draining, observed, delivered, given, takenLate>>

\* Mutant: the reader is waited for and not told to end.
CloseUntold(s) ==
    /\ saverPc[s] = "reader" /\ alive \in shut
    /\ saverPc' = [saverPc EXCEPT ![s] = "loop"]
    /\ UNCHANGED <<telSwitch, snapshot, hostMu, telTurns, sender, alive, senders, shut, gathered,
                   actorPc, refTo, taken, backlog, draining, observed, delivered, given, takenLate>>

\* The reader has ended; Close drops what has accumulated and tells the loop to end.
Close(s) ==
    /\ saverPc[s] = "reader" /\ actorPc["reader"] = "idle"
    /\ shut' = shut \cup {alive}
    /\ given' = given \cup gathered[alive]
    /\ gathered' = [gathered EXCEPT ![alive] = {}]
    /\ saverPc' = [saverPc EXCEPT ![s] = "loop"]
    /\ UNCHANGED <<telSwitch, snapshot, hostMu, telTurns, sender, alive, senders, actorPc, refTo,
                   taken, backlog, draining, observed, delivered, takenLate>>

\* The loop has ended; the queue is deleted.
DeleteQueue(s) ==
    /\ saverPc[s] = "loop" /\ actorPc["loop"] = "idle"
    /\ given' = given \cup Backlogged
    /\ backlog' = <<>> /\ draining' = <<>>
    /\ alive' = 0
    /\ saverPc' = [saverPc EXCEPT ![s] = "start"]
    /\ UNCHANGED <<telSwitch, snapshot, hostMu, telTurns, sender, senders, shut, gathered, actorPc,
                   refTo, taken, observed, delivered, takenLate>>

\* A sender starts when the snapshot says so; the shape of the settings, if it changed,
\* is its first event.
StartSender(s) ==
    /\ saverPc[s] = "start"
    /\ saverPc' = [saverPc EXCEPT ![s] = "idle"]
    /\ hostMu' = "free"
    /\ IF snapshot[s] /\ senders < MaxSender
         THEN /\ senders' = senders + 1 /\ sender' = senders' /\ alive' = senders'
              /\ \/ UNCHANGED <<observed, gathered>>
                 \/ /\ observed < MaxEvent /\ observed' = observed + 1
                    /\ gathered' = [gathered EXCEPT ![senders'] = {observed'}]
         ELSE UNCHANGED <<senders, sender, alive, observed, gathered>>
    /\ UNCHANGED <<telSwitch, snapshot, telTurns, shut, actorPc, refTo, taken, backlog, draining,
                   delivered, given, takenLate>>

-----------------------------------------------------------------------------
(* The sender. *)

\* queueRunTelemetry: the reference is taken under the lock and used after it.
TakeReference(r) ==
    /\ r \in Recorder /\ actorPc[r] = "idle"
    /\ hostMu = "free" /\ sender # 0
    /\ refTo' = [refTo EXCEPT ![r] = sender]
    /\ actorPc' = [actorPc EXCEPT ![r] = "ref"]
    /\ UNCHANGED <<hostVars, gathered, taken, backlog, draining, observed, delivered, given,
                   takenLate>>

\* Observe: a full batch is flushed by whoever filled it.
Observe(a) ==
    /\ \/ a = "reader" /\ actorPc[a] = "idle" /\ alive # 0 /\ alive \notin shut
       \/ a \in Recorder /\ actorPc[a] = "ref"
    /\ observed < MaxEvent /\ observed' = observed + 1
    /\ LET g == IF a = "reader" THEN alive ELSE refTo[a] IN
       /\ gathered' = [gathered EXCEPT ![g] = @ \cup {observed'}]
       /\ refTo' = [refTo EXCEPT ![a] = g]
       /\ actorPc' = [actorPc EXCEPT ![a] =
                        IF Cardinality(gathered'[g]) >= BatchEventCap THEN "full" ELSE "idle"]
    /\ UNCHANGED <<hostVars, taken, backlog, draining, delivered, given, takenLate>>

\* The loop's tick.
LoopTick ==
    /\ actorPc["loop"] = "idle" /\ alive # 0 /\ alive \notin shut
    /\ refTo' = [refTo EXCEPT !["loop"] = alive]
    /\ actorPc' = [actorPc EXCEPT !["loop"] = "full"]
    /\ UNCHANGED <<hostVars, gathered, taken, backlog, draining, observed, delivered, given,
                   takenLate>>

After(a) == IF a = "loop" THEN "drain" ELSE "idle"

\* Flush takes what has accumulated; then drainQueue lists the directory.
Flush(a) ==
    /\ actorPc[a] = "full"
    /\ taken' = [taken EXCEPT ![a] = gathered[refTo[a]]]
    /\ gathered' = [gathered EXCEPT ![refTo[a]] = {}]
    /\ takenLate' = (takenLate \/ (refTo[a] # alive /\ taken'[a] # {}))
    /\ actorPc' = [actorPc EXCEPT ![a] = IF taken'[a] = {} THEN After(a) ELSE "post"]
    /\ draining' = IF a = "loop" /\ taken'[a] = {} THEN backlog ELSE draining
    /\ UNCHANGED <<hostVars, refTo, backlog, observed, delivered, given>>

\* deliver: accepted, refused, or queued on disk, which may fail.
Deliver(a) ==
    /\ actorPc[a] = "post"
    /\ \/ delivered' = delivered \cup taken[a] /\ UNCHANGED <<given, backlog>>
       \/ given' = given \cup taken[a] /\ UNCHANGED <<delivered, backlog>>
       \/ backlog' = Append(backlog, taken[a]) /\ UNCHANGED <<delivered, given>>
    /\ taken' = [taken EXCEPT ![a] = {}]
    /\ actorPc' = [actorPc EXCEPT ![a] = After(a)]
    /\ draining' = IF a = "loop" THEN backlog' ELSE draining
    /\ UNCHANGED <<hostVars, gathered, refTo, observed, takenLate>>

\* The queue without the file of one batch.
Without1(q, b) ==
    LET k == CHOOSE k \in 1..Len(q) : q[k] = b
    IN  SubSeq(q, 1, k - 1) \o SubSeq(q, k + 1, Len(q))

\* Mutant: a batch leaves the queue before it is known to have been posted.
DrainEager ==
    /\ actorPc["loop"] = "drain" /\ draining # <<>>
    /\ LET b == Head(draining) IN
       \/ /\ b \in SeqSet(backlog)
          /\ \/ delivered' = delivered \cup b
             \/ UNCHANGED delivered
          /\ backlog' = Without1(backlog, b) /\ draining' = Tail(draining)
          /\ UNCHANGED <<actorPc, given>>
    /\ UNCHANGED <<hostVars, gathered, refTo, taken, observed, takenLate>>

\* drainQueue, one file: it is gone, too old, accepted or refused; or the receiver is
\* still away and the rest stays queued.
DrainQueue ==
    /\ actorPc["loop"] = "drain" /\ draining # <<>>
    /\ LET b == Head(draining) IN
       \/ /\ b \notin SeqSet(backlog)
          /\ draining' = Tail(draining) /\ UNCHANGED <<backlog, delivered, given, actorPc>>
       \/ /\ b \in SeqSet(backlog)
          /\ \/ delivered' = delivered \cup b /\ UNCHANGED given
             \/ given' = given \cup b /\ UNCHANGED delivered
          /\ backlog' = Without1(backlog, b) /\ draining' = Tail(draining)
          /\ UNCHANGED actorPc
       \/ /\ b \in SeqSet(backlog)
          /\ actorPc' = [actorPc EXCEPT !["loop"] = "idle"] /\ draining' = <<>>
          /\ UNCHANGED <<backlog, delivered, given>>
    /\ UNCHANGED <<hostVars, gathered, refTo, taken, observed, takenLate>>

DrainEnds ==
    /\ actorPc["loop"] = "drain" /\ draining = <<>>
    /\ actorPc' = [actorPc EXCEPT !["loop"] = "idle"]
    /\ UNCHANGED <<hostVars, gathered, refTo, taken, backlog, draining, observed, delivered,
                   given, takenLate>>

SaveGoesOn(s) == TakeSnapshot(s) \/ Close(s) \/ DeleteQueue(s) \/ StartSender(s)

TelNext ==
    \/ \E s \in Saver : SaveSettings(s) \/ ApplyTelemetry(s) \/ SaveGoesOn(s)
    \/ \E a \in TelActor : TakeReference(a) \/ Observe(a) \/ Flush(a) \/ Deliver(a)
    \/ LoopTick \/ DrainQueue \/ DrainEnds

\* A save that has begun goes on, and gets a lock that is released again and again; a
\* post returns after 30 seconds at most, and the loop and a recorder go on.
TelFairness ==
    /\ \A s \in Saver : WF_telVars(SaveGoesOn(s)) /\ SF_telVars(ApplyTelemetry(s))
    /\ \A a \in TelActor : WF_telVars(Flush(a) \/ Deliver(a))
    /\ WF_telVars(DrainQueue \/ DrainEnds)

TelSpec == TelInit /\ [][TelNext]_telVars /\ TelFairness

-----------------------------------------------------------------------------
(* Properties. *)

\* An event that was observed is accumulated, on its way, queued, accepted, or given up
\* for one of the four reasons the code has, whichever flushes and drains overlap.
EventAccounted ==
    1..observed =
        (UNION {gathered[g] : g \in SenderId}) \cup (UNION {taken[a] : a \in TelActor})
        \cup Backlogged \cup delivered \cup given

\* A save of the settings returns, though it waits for the reader and the loop with the
\* host's lock held and they may be posting to a receiver that does not answer.
SaveReturns == \A s \in Saver : saverPc[s] # "idle" ~> saverPc[s] = "idle"

\* What the comment on telemetryState says, `off means off, and this file is where that
\* is true or not': with no save under way, a sender runs only when the switch is on.
SwitchDecides ==
    (\A s \in Saver : saverPc[s] = "idle") => (sender # 0 => telSwitch)

\* What the comment on Close says, `there is nothing on disk to resume from'.
OffLeavesNothing ==
    (\A s \in Saver : saverPc[s] = "idle") /\ sender = 0 => backlog = <<>>

\* What docs/TELEMETRY.md says of the switch, `no batch is ever handed to the transport':
\* nothing is taken from a sender that has been stopped, though recorders still hold
\* references to it.
OffTakesNothing == ~ takenLate

\* What docs/TELEMETRY.md says of the queue, `bounded to 24 hours': a save that leaves
\* the switch on leaves the backlog.
BacklogSurvivesSave ==
    [][\A s \in Saver : DeleteQueue(s) /\ snapshot[s] => backlog' = backlog]_telVars
=============================================================================
