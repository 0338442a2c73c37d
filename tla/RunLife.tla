------------------------------ MODULE RunLife ------------------------------
(***************************************************************************)
(* What the scheduler promises of a run, without its lists, its cards and  *)
(* its goroutines: a run gets the next id, waits or starts at once, starts *)
(* at most once, ends at most once and for good, and takes a model while   *)
(* no more chats hold one than the limits allow.                           *)
(***************************************************************************)
EXTENDS Naturals, FiniteSets

CONSTANTS Chat, Connection, ConnectionOf, ConnectionLimit, MaxConcurrent, MaxRun

Run == 1 .. MaxRun

VARIABLES
    life,     \* life[r]: where run r is in its life
    chat,     \* chat[r]: whose run it is
    holders   \* the chats that hold a model

runLifeVars == <<life, chat, holders>>

\* The ways a life can go on.
Onward(from) ==
    CASE from = "none"    -> {"none", "queued", "running"}
      [] from = "queued"  -> {"queued", "running", "stopped"}
      [] from = "running" -> {"running", "stopped"}
      [] from = "stopped" -> {"stopped"}

Begun(f) == {r \in Run : f[r] # "none"}

WithinLimits(chats) ==
    /\ Cardinality(chats) <= MaxConcurrent
    /\ \A k \in Connection :
          Cardinality({s \in chats : ConnectionOf[s] = k}) <= ConnectionLimit[k]

LifeInit ==
    /\ life = [r \in Run |-> "none"]
    /\ holders = {}

\* One step of the scheduler, under its lock: lives go on, ids are given out in
\* order, a run keeps its chat, a run that starts alone in its chat holds a model,
\* and a chat holds one only for a run that has started and not ended.
LifeStep ==
    /\ \A r \in Run : life'[r] \in Onward(life[r])
    /\ Begun(life') = 1 .. Cardinality(Begun(life'))
    /\ \A r \in Begun(life) : chat'[r] = chat[r]
    /\ \A r \in Run : /\ life[r] # "running" /\ life'[r] = "running"
                      /\ \A q \in Run : chat'[q] = chat'[r] /\ q # r => life'[q] # "running"
                      => chat'[r] \in holders'
    /\ \A s \in holders' : \E r \in Run : chat'[r] = s /\ life'[r] = "running"
    /\ WithinLimits(holders')

\* Every run that waits starts or is stopped.
Served == \A r \in Run : life[r] = "queued" ~> life[r] # "queued"

LifeSpec == LifeInit /\ [][LifeStep]_runLifeVars

FairLifeSpec == LifeSpec /\ Served
=============================================================================
