--------------------------- MODULE MCReachability ---------------------------
(***************************************************************************)
(* Reachability on small instances.  The specifications other than Spec    *)
(* leave a part of the environment quiet, to tell apart who made a hold.   *)
(***************************************************************************)
EXTENDS Reachability, TLC

CONSTANTS x, y

MCNone     == [c \in Connection |-> NoConnection]
MCFallback == [c \in Connection |-> IF c = x THEN y ELSE NoConnection]

States == Permutations(State) \cup Permutations(Probe)

RunningRuns == \E s \in Session : LET t == <<s, "run">> IN Dial(t) \/ Request(t)
Routing == \E s \in Session, c \in Connection : SetConnection(s, c)

\* MeasureSpec, and a chat may be given another connection.
RoutedSpec == Init /\ [][Measuring \/ Probing \/ Testing \/ Servers \/ Routing]_vars

\* Only runs find a model unreachable; chats keep their connection.
RunsSpec == Init /\ [][RunningRuns \/ Probing \/ Testing \/ Servers]_vars

FairMeasureSpec == MeasureSpec /\ Fairness
FairSpec        == Spec /\ Fairness
=============================================================================
