----------------------------- MODULE SlotProofs -----------------------------
(***************************************************************************)
(* The model slots of Scheduler, for every value of the constants: no more *)
(* runs use a model than the limits allow, and no run or answered call     *)
(* waits while a slot it could take is free.                               *)
(***************************************************************************)
EXTENDS SchedulerProofs

-----------------------------------------------------------------------------
(* Admission, and sets of chats with a limit. *)

\* The two kinds of limit: of all chats, and of the chats of one connection.
Bound(G, L) ==
    \/ G = Session /\ L = MaxConcurrent
    \/ \E k \in Connection : G = OnConnection(Session, k) /\ L = ConnectionLimit[k]

\* The chats u that use a slot respect every limit.
Within(u) ==
    \A G \in SUBSET Session, L \in Nat : Bound(G, L) => Cardinality(u \cap G) <= L

\* Sets of chats are finite.
LEMMA ChatsFinite ==
    ASSUME NEW u \in SUBSET Session
    PROVE  IsFiniteSet(u) /\ Cardinality(u) \in Nat
BY ConnectionAssumption, FS_Subset, FS_CardinalityType

\* Fewer chats have no more members.
LEMMA FewerChats ==
    ASSUME NEW v \in SUBSET Session, NEW u \in SUBSET v
    PROVE  Cardinality(u) <= Cardinality(v)
BY ChatsFinite, FS_Subset

\* A limit is a number, of chats.
LEMMA BoundType ==
    ASSUME NEW G, NEW L, Bound(G, L)
    PROVE  G \in SUBSET Session /\ L \in Nat
BY ConnectionAssumption, LimitAssumption DEF Bound, OnConnection

\* A chat that is admitted leaves room in every limit it counts against.
LEMMA AdmitsBound ==
    ASSUME NEW G, NEW L, Bound(G, L), NEW u \in SUBSET Session, NEW s \in G, Admits(u, s)
    PROVE  Cardinality(u \cap G) + 1 <= L
<1>1. CASE G = Session /\ L = MaxConcurrent
  <2>1. u \cap G = u
    BY <1>1
  <2> QED
    BY <1>1, <2>1, ChatsFinite, LimitAssumption DEF Admits
<1>2. ASSUME NEW k \in Connection, G = OnConnection(Session, k), L = ConnectionLimit[k]
      PROVE  Cardinality(u \cap G) + 1 <= L
  <2>1. u \cap G = OnConnection(u, k) /\ ConnectionOf[s] = k
    BY <1>2 DEF OnConnection
  <2>2. OnConnection(u, k) \in SUBSET Session
    BY DEF OnConnection
  <2> QED
    BY <1>2, <2>1, <2>2, ChatsFinite, ConnectionAssumption DEF Admits
<1> QED
  BY <1>1, <1>2 DEF Bound

\* ... so one more chat is within it,
LEMMA OneMore ==
    ASSUME NEW G, NEW L, Bound(G, L), NEW u \in SUBSET Session, NEW s \in G, Admits(u, s),
           NEW v \in SUBSET Session, v \cap G \subseteq u \cup {s}
    PROVE  Cardinality(v \cap G) <= L
<1>1. G \in SUBSET Session /\ L \in Nat
  BY BoundType
<1>2. Cardinality(u \cap G) + 1 <= L
  BY AdmitsBound
<1>3. u \cap G \in SUBSET Session /\ (u \cap G) \cup {s} \in SUBSET Session
      /\ v \cap G \in SUBSET ((u \cap G) \cup {s})
  BY <1>1
<1>4. Cardinality(v \cap G) <= Cardinality((u \cap G) \cup {s})
  BY <1>3, FewerChats
<1>5. Cardinality((u \cap G) \cup {s}) <= Cardinality(u \cap G) + 1
  <2>1. IsFiniteSet(u \cap G) /\ Cardinality(u \cap G) \in Nat
    BY <1>3, ChatsFinite
  <2>2. Cardinality((u \cap G) \cup {s})
          = IF s \in u \cap G THEN Cardinality(u \cap G) ELSE Cardinality(u \cap G) + 1
    BY <2>1, FS_AddElement, Zenon
  <2> QED
    BY <2>1, <2>2
<1>6. /\ Cardinality(v \cap G) \in Nat /\ Cardinality(u \cap G) \in Nat
      /\ Cardinality((u \cap G) \cup {s}) \in Nat
  BY <1>1, <1>3, ChatsFinite
<1> QED
  BY <1>1, <1>2, <1>4, <1>5, <1>6

\* ... and no chat more of it is within it too.
LEMMA NoMore ==
    ASSUME NEW G, NEW L, Bound(G, L), NEW u \in SUBSET Session, Cardinality(u \cap G) <= L,
           NEW v \in SUBSET Session, v \cap G \subseteq u
    PROVE  Cardinality(v \cap G) <= L
<1>1. G \in SUBSET Session /\ L \in Nat
  BY BoundType
<1>2. u \cap G \in SUBSET Session /\ v \cap G \in SUBSET (u \cap G)
  BY <1>1
<1>3. Cardinality(v \cap G) <= Cardinality(u \cap G)
  BY <1>2, FewerChats
<1> QED
  BY <1>1, <1>2, <1>3, ChatsFinite

\* A chat that must wait keeps waiting while more chats use slots.
LEMMA StillFull ==
    ASSUME NEW v \in SUBSET Session, NEW u \in SUBSET v, NEW s \in Session, ~ Admits(u, s)
    PROVE  ~ Admits(v, s)
<1> DEFINE k == ConnectionOf[s]
<1>1. /\ OnConnection(v, k) \in SUBSET Session
      /\ OnConnection(u, k) \in SUBSET OnConnection(v, k)
      /\ u \in SUBSET Session
  BY DEF OnConnection
<1>2. /\ Cardinality(u) <= Cardinality(v)
      /\ Cardinality(OnConnection(u, k)) <= Cardinality(OnConnection(v, k))
  BY <1>1, FewerChats
<1>3. /\ Cardinality(u) \in Nat /\ Cardinality(v) \in Nat
      /\ Cardinality(OnConnection(u, k)) \in Nat /\ Cardinality(OnConnection(v, k)) \in Nat
      /\ MaxConcurrent \in Nat /\ ConnectionLimit[k] \in Nat
  BY <1>1, ChatsFinite, ConnectionAssumption, LimitAssumption
<1> QED
  BY <1>2, <1>3 DEF Admits

\* The chats that use a slot are chats.
LEMMA UsingType ==
    \A act, pau : Using(act, pau) \in SUBSET Session
BY DEF Using

-----------------------------------------------------------------------------
(* The drain. *)

\* The list of waiters is a strict total order.
Ordered(res, ah) ==
    /\ \A v, w \in res : v # w => v \in ah[w] \/ w \in ah[v]
    /\ \A w \in res : w \notin ah[w]
    /\ \A u, v, w \in res : u \in ah[v] /\ v \in ah[w] => u \in ah[w]

\* There are finitely many waiters.
LEMMA WaitersFinite == IsFiniteSet(Waiter)
<1>1. IsFiniteSet(Run)
  <2>1. 1 \in Int /\ MaxRun \in Int
    BY BoundAssumption
  <2> QED
    BY <2>1, FS_Interval, Zenon DEF Run
<1> QED
  BY <1>1, FS_Product, ConnectionAssumption, Zenon DEF Waiter

\* Some waiters of the list, taken together, have a last one.
LEMMA LastWaiter ==
    ASSUME NEW W \in SUBSET Waiter, W # {}, NEW ah, Ordered(W, ah)
    PROVE  \E w \in W : W \ {w} \subseteq ah[w]
<1> DEFINE before(w) == W \cap ah[w]
           N == Cardinality(W)
           sizes == {Cardinality(before(w)) : w \in W}
<1>1. IsFiniteSet(W) /\ N \in Nat
  BY WaitersFinite, FS_Subset, FS_CardinalityType
<1>2. \A w \in W : IsFiniteSet(before(w)) /\ Cardinality(before(w)) \in 0..N
  <2>1. ASSUME NEW w \in W PROVE IsFiniteSet(before(w)) /\ Cardinality(before(w)) \in 0..N
    <3>1. before(w) \in SUBSET W
      OBVIOUS
    <3> HIDE DEF before
    <3>2. IsFiniteSet(before(w)) /\ Cardinality(before(w)) <= N
      BY <1>1, <3>1, FS_Subset
    <3>3. Cardinality(before(w)) \in Nat
      BY <3>2, FS_CardinalityType
    <3> QED
      BY <1>1, <3>2, <3>3
  <2> QED
    BY <2>1
<1>3. sizes \in SUBSET (0..N) /\ sizes # {}
  BY <1>2
<1>4. \E m \in sizes : \A n \in sizes : n <= m
  BY <1>1, <1>3, GreatestExists
<1>5. PICK w \in W : \A v \in W : Cardinality(before(v)) <= Cardinality(before(w))
  BY <1>4
<1>6. ASSUME NEW v \in W, v # w, v \notin ah[w] PROVE FALSE
  <2>1. w \in ah[v]
    BY <1>6 DEF Ordered
  <2>2. before(w) \cup {w} \subseteq before(v) /\ w \notin before(w)
    BY <2>1 DEF Ordered
  <2>3. before(w) \in SUBSET before(v) /\ before(w) # before(v)
    BY <2>2
  <2> HIDE DEF before
  <2>4. IsFiniteSet(before(v)) /\ Cardinality(before(v)) \in 0..N
        /\ Cardinality(before(w)) \in 0..N
    BY <1>2
  <2>5. Cardinality(before(w)) <= Cardinality(before(v))
        /\ Cardinality(before(v)) # Cardinality(before(w))
    BY <2>3, <2>4, FS_Subset
  <2>6. Cardinality(before(v)) <= Cardinality(before(w))
    BY <1>5
  <2> QED
    BY <1>1, <2>4, <2>5, <2>6
<1> QED
  BY <1>6

\* Runs, taken together, have a last one.
LEMMA LastRun ==
    ASSUME NEW D \in SUBSET Run, D # {}
    PROVE  \E d \in D : \A x \in D : x <= d
<1>1. MaxRun \in Nat
  BY BoundAssumption
<1>2. \A r \in Run : r \in 0..MaxRun
  BY <1>1 DEF Run
<1>3. D \in SUBSET (0..MaxRun)
  BY <1>2
<1> QED
  BY <1>1, <1>3, GreatestExists

\* The chats that use a slot after the waiters W took theirs.
LEMMA WaitersWithin ==
    ASSUME NEW G, NEW L, Bound(G, L), NEW act, NEW pau, NEW res \in SUBSET Waiter, NEW ah,
           NEW of, NEW W \in SUBSET res, Ordered(res, ah),
           TakesWaiters(act, pau, res, ah, of, W), Cardinality(Using(act, pau) \cap G) <= L
    PROVE  Cardinality(Using(act, pau \ ChatsOf(of, W)) \cap G) <= L
<1> DEFINE WG == {w \in W : of[w[1]] \in G}
           v == Using(act, pau \ ChatsOf(of, W))
<1>0. v \in SUBSET Session /\ Using(act, pau) \in SUBSET Session
  BY UsingType
<1>1. CASE WG = {}
  <2>1. v \cap G \subseteq Using(act, pau)
    BY <1>1 DEF Using, ChatsOf
  <2>2. Cardinality(v \cap G) <= L
    <3> HIDE DEF v
    <3> QED
      BY <1>0, <2>1, NoMore
  <2> QED
    BY <2>2
<1>2. CASE WG # {}
  <2>1. WG \in SUBSET Waiter /\ Ordered(WG, ah)
    BY DEF Ordered
  <2>2. PICK w \in WG : WG \ {w} \subseteq ah[w]
    <3> HIDE DEF WG
    <3> QED
      BY <1>2, <2>1, LastWaiter
  <2> DEFINE u == Using(act, pau \ ChatsOf(of, W \cap ah[w]))
             s == of[w[1]]
  <2>3. Admits(u, s) /\ s \in G
    BY <2>2 DEF TakesWaiters
  <2>4. v \cap G \subseteq u \cup {s}
    <3>1. ASSUME NEW t \in v \cap G, t # s PROVE t \in u
      <4>1. CASE t \in ChatsOf(of, W)
        <5>1. PICK x \in W : t = of[x[1]]
          BY <4>1 DEF ChatsOf
        <5>2. x \in WG /\ x # w
          BY <5>1, <3>1
        <5>3. t \in ChatsOf(of, W \cap ah[w])
          BY <2>2, <5>1, <5>2 DEF ChatsOf
        <5> QED
          BY <5>3 DEF Using
      <4>2. CASE t \notin ChatsOf(of, W)
        BY <4>2 DEF Using
      <4> QED
        BY <4>1, <4>2
    <3> QED
      BY <3>1
  <2>5. u \in SUBSET Session
    BY UsingType
  <2>6. Cardinality(v \cap G) <= L
    <3> HIDE DEF u, v, s
    <3> QED
      BY <1>0, <2>3, <2>4, <2>5, OneMore
  <2> QED
    BY <2>6
<1> QED
  BY <1>1, <1>2

\* The chats that use a slot after the queued runs D were started.
LEMMA QueuedWithin ==
    ASSUME NEW G, NEW L, Bound(G, L), NEW act \in ActiveType, NEW pau, NEW q \in SUBSET Run,
           NEW of, NEW D \in SUBSET q,
           TakesQueued(act, pau, q, of, D), Cardinality(Using(act, pau) \cap G) <= L
    PROVE  Cardinality(Using(Started(act, of, D), pau) \cap G) <= L
<1> DEFINE DG == {d \in D : of[d] \in G}
           fin == Started(act, of, D)
           v == Using(fin, pau)
<1>0. v \in SUBSET Session /\ Using(act, pau) \in SUBSET Session /\ D \in SUBSET Run
  BY UsingType
<1>1. \A s \in Session :
         \/ fin[s] = act[s] /\ \A r \in D : of[r] # s
         \/ fin[s] \in D /\ of[fin[s]] = s
  BY <1>0, StartedFacts
<1>2. CASE DG = {}
  <2>1. v \cap G \subseteq Using(act, pau)
    <3> HIDE DEF fin
    <3> QED
      BY <1>1, <1>2 DEF Using
  <2>2. Cardinality(v \cap G) <= L
    <3> HIDE DEF v
    <3> QED
      BY <1>0, <2>1, NoMore
  <2> QED
    BY <2>2
<1>3. CASE DG # {}
  <2>1. DG \in SUBSET Run
    OBVIOUS
  <2>2. PICK d \in DG : \A x \in DG : x <= d
    <3> HIDE DEF DG
    <3> QED
      BY <1>3, <2>1, LastRun
  <2> DEFINE Dd == {x \in D : x < d}
             mid == Started(act, of, Dd)
             u == Using(mid, pau)
             s == of[d]
  <2>3. Admits(u, s) /\ s \in G
    BY <2>2 DEF TakesQueued
  <2>4. /\ \A t \in Session :
              \/ mid[t] = act[t] /\ \A r \in Dd : of[r] # t
              \/ mid[t] \in Dd /\ of[mid[t]] = t
        /\ Dd \in SUBSET Run
    BY <1>0, StartedFacts
  <2>5. ASSUME NEW t \in v \cap G, t # s PROVE t \in u
    <3>1. t \in Session /\ t \notin pau /\ fin[t] # NoRun
      BY DEF Using
    <3>2. CASE fin[t] = act[t] /\ \A r \in D : of[r] # t
      <4>1. mid[t] # NoRun
        <5>1. \A r \in Dd : of[r] # t
          BY <3>2
        <5> HIDE DEF mid, fin, Dd
        <5> QED
          BY <5>1, <3>1, <3>2, <2>4
      <4> HIDE DEF mid
      <4> QED
        BY <4>1, <3>1 DEF Using
    <3>3. CASE fin[t] \in D /\ of[fin[t]] = t
      <4> HIDE DEF fin
      <4>1. fin[t] \in DG /\ fin[t] # d /\ fin[t] \in Run /\ d \in Run
        BY <2>1, <2>5, <3>3
      <4>2. fin[t] \in Dd
        BY <4>1, <3>3, <2>2, IdFacts
      <4>3. mid[t] \in Run
        <5> HIDE DEF mid, Dd
        <5> QED
          BY <4>2, <3>1, <3>3, <2>4
      <4> HIDE DEF mid
      <4> QED
        BY <4>3, <3>1, IdFacts DEF Using
    <3> QED
      BY <1>1, <3>1, <3>2, <3>3
  <2>6. v \cap G \subseteq u \cup {s}
    BY <2>5
  <2>7. u \in SUBSET Session
    BY UsingType
  <2>8. Cardinality(v \cap G) <= L
    <3> HIDE DEF u, v, s
    <3> QED
      BY <1>0, <2>3, <2>6, <2>7, OneMore
  <2> QED
    BY <2>8
<1> QED
  BY <1>2, <1>3

\* The queued runs q and the waiters res have to wait while the chats u use slots.
Waits(u, q, res, of) ==
    /\ \A r \in q : ~ Admits(u, of[r])
    /\ \A w \in res : ~ Admits(u, of[w[1]])

\* What a caller of drainLocked passes: runs of chats, waiters in order, and limits
\* that are respected so far.
SlotArgs(act, pau, res, ah, q, of) ==
    /\ DrainArgs(act, pau, res, q)
    /\ \A r \in q : of[r] \in Session
    /\ \A w \in res : of[w[1]] \in Session
    /\ Ordered(res, ah)
    /\ Within(Using(act, pau))

\* Starting more runs frees no slot.
LEMMA StartedGrows ==
    ASSUME NEW act \in ActiveType, NEW of, NEW D \in SUBSET Run, NEW C \in SUBSET D, NEW pau
    PROVE  Using(Started(act, of, C), pau) \subseteq Using(Started(act, of, D), pau)
<1> DEFINE f == Started(act, of, C)
           g == Started(act, of, D)
<1>0. C \in SUBSET Run
  OBVIOUS
<1>1. \A s \in Session :
         \/ f[s] = act[s] /\ \A r \in C : of[r] # s
         \/ f[s] \in C /\ of[f[s]] = s
  BY <1>0, StartedFacts
<1>2. \A s \in Session :
         \/ g[s] = act[s] /\ \A r \in D : of[r] # s
         \/ g[s] \in D /\ of[g[s]] = s
  BY StartedFacts
<1>3. Using(f, pau) \subseteq Using(g, pau)
  <2> HIDE DEF f, g
  <2> QED
    BY <1>1, <1>2, IdFacts DEF Using
<1> QED
  BY <1>3

\* A drain respects the limits and leaves nobody waiting who could be served.
LEMMA DrainSlots ==
    ASSUME NEW act, NEW pau, NEW res, NEW ah, NEW q, NEW of,
           SlotArgs(act, pau, res, ah, q, of), Drain(act, pau, res, ah, q, of)
    PROVE  /\ Within(Using(active', paused'))
           /\ Waits(Using(active', paused'), queue', resuming', of)
<1>0. /\ act \in ActiveType /\ res \in SUBSET Waiter /\ q \in SUBSET Run /\ Ordered(res, ah)
      /\ \A r \in q : of[r] \in Session
      /\ \A w \in res : of[w[1]] \in Session
  BY DEF SlotArgs, DrainArgs
<1>1. PICK W \in SUBSET res, D \in SUBSET q :
        /\ TakesWaiters(act, pau, res, ah, of, W)
        /\ TakesQueued(act, pau \ ChatsOf(of, W), q, of, D)
        /\ resuming' = res \ W
        /\ paused' = pau \ ChatsOf(of, W)
        /\ queue' = q \ D
        /\ active' = Started(act, of, D)
  BY DEF Drain
<1> DEFINE fin == Using(active', paused')
<1>2. fin \in SUBSET Session /\ D \in SUBSET Run
  BY <1>0, UsingType
<1>3. ASSUME NEW G, NEW L, Bound(G, L), Cardinality(Using(act, pau) \cap G) <= L
      PROVE  Cardinality(fin \cap G) <= L
  <2>1. Cardinality(Using(act, pau \ ChatsOf(of, W)) \cap G) <= L
    BY <1>0, <1>1, <1>3, WaitersWithin
  <2>2. Cardinality(Using(Started(act, of, D), pau \ ChatsOf(of, W)) \cap G) <= L
    BY <1>0, <1>1, <1>3, <2>1, QueuedWithin
  <2> QED
    BY <1>1, <2>2
<1>4. Within(fin)
  BY <1>3 DEF Within, SlotArgs
<1>5. ASSUME NEW r \in queue' PROVE ~ Admits(fin, of[r])
  <2> DEFINE C == {x \in D : x < r}
             u == Using(Started(act, of, C), paused')
  <2>1. ~ Admits(u, of[r]) /\ of[r] \in Session
    BY <1>0, <1>1 DEF TakesQueued
  <2>2. u \subseteq fin
    BY <1>0, <1>1, <1>2, StartedGrows
  <2> HIDE DEF u, fin
  <2> QED
    BY <1>2, <2>1, <2>2, StillFull
<1>6. ASSUME NEW w \in resuming' PROVE ~ Admits(fin, of[w[1]])
  <2> DEFINE u == Using(act, pau \ ChatsOf(of, W \cap ah[w]))
  <2>1. ~ Admits(u, of[w[1]]) /\ of[w[1]] \in Session
    BY <1>0, <1>1 DEF TakesWaiters
  <2>2. u \subseteq Using(act, paused')
    BY <1>1 DEF Using, ChatsOf
  <2>3. Using(act, paused') \subseteq fin
    <3>1. \A s \in Session : active'[s] = act[s] \/ active'[s] \in Run
      BY <1>0, <1>1, <1>2, StartedFacts
    <3> QED
      BY <3>1, IdFacts DEF Using
  <2>4. u \in SUBSET fin
    BY <2>2, <2>3
  <2> HIDE DEF u, fin
  <2> QED
    BY <1>2, <2>1, <2>4, StillFull
<1> QED
  BY <1>4, <1>5, <1>6 DEF Waits

-----------------------------------------------------------------------------
(* The inductive invariant. *)

InUse == Using(active, paused)

\* SlotLimits and WorkConserving in the terms of admitLocked.
Slots == Within(InUse) /\ Waits(InUse, queue, resuming, runSession)

slotVars == <<active, queue, paused, resuming, runSession>>

\* A call that is ahead of another in the list asked for a slot and has not returned.
AheadAsked == \A v, w \in Waiter : w \in ahead[v] => call[w] \in {"resuming", "resumed"}

List == Ordered(resuming, ahead) /\ AheadAsked

\* A step that leaves every list of runs alone changes nothing of the slots.
LEMMA SameSlots ==
    ASSUME Slots, UNCHANGED slotVars
    PROVE  Slots'
BY DEF Slots, Within, Waits, InUse, slotVars

\* A waiter's run belongs to a chat.
LEMMA WaiterChats ==
    ASSUME BaseInv
    PROVE  /\ \A w \in resuming : w \in Waiter /\ runSession[w[1]] \in Session
           /\ \A r \in queue : r \in Run /\ runSession[r] \in Session
BY DEF BaseInv, TypeOK, RunsKnown

\* The steps of the goroutine of a run before its end.
LEMMA RunStepSlots ==
    ASSUME BaseInv, Slots, List, NEW r \in Run,
           \/ BoundaryStops(r) \/ CheckContext(r) \/ TakeQueuedAtBoundary(r)
           \/ TurnAgain(r) \/ TurnEndsRun(r) \/ HoldInRun(r) \/ ReturnActiveMessage(r)
           \/ EndTurn(r) \/ WallClock(r) \/ StopReturns(r)
           \/ \E C \in SUBSET Call : AnswerTools(r, C)
    PROVE  Slots' /\ List'
<1>1. UNCHANGED slotVars /\ UNCHANGED ahead
  BY DEF BoundaryStops, CheckContext, TakeQueuedAtBoundary, TurnAgain, TurnEndsRun, HoldInRun,
     ReturnActiveMessage, EndTurn, WallClock, StopReturns, AnswerTools, Moves, UnchangedButPc,
     schedulerVars, slotVars
<1>2. \A w \in Waiter : call[w] \in {"resuming", "resumed"} => call'[w] = call[w]
  <2>1. CASE UNCHANGED call
    BY <2>1
  <2>2. ASSUME NEW C \in SUBSET Call, AnswerTools(r, C)
        PROVE  \A w \in Waiter : call[w] \in {"resuming", "resumed"} => call'[w] = call[w]
    BY <2>2, WaiterFacts DEF AnswerTools, Moves, BaseInv, RunsKnown
  <2> QED
    BY <2>1, <2>2 DEF BoundaryStops, CheckContext, TakeQueuedAtBoundary, TurnAgain, TurnEndsRun,
       HoldInRun, ReturnActiveMessage, EndTurn, WallClock, StopReturns, gateVars
<1>3. Slots'
  BY <1>1, SameSlots
<1>4. List'
  BY <1>1, <1>2 DEF List, Ordered, AheadAsked, slotVars
<1> QED
  BY <1>3, <1>4

\* The operations of a chat that create no run.
LEMMA ChatStepSlots ==
    ASSUME Slots, List, NEW s \in Session,
           \/ SubmitHeld(s) \/ SubmitBehind(s) \/ HoldModel(s) \/ Close(s) \/ Reopen(s)
           \/ Reset(s) \/ DropLastMessage(s) \/ Decide(s) \/ SubmitRefused(s)
    PROVE  Slots' /\ List'
<1>1. UNCHANGED slotVars /\ UNCHANGED <<ahead, call>>
  BY DEF SubmitHeld, SubmitBehind, SubmitRefused, HoldModel, Close, Reopen, Reset, DropLastMessage, Decide,
     schedulerVars, runVars, gateVars, slotVars
<1> QED
  BY <1>1, SameSlots DEF List, Ordered, AheadAsked, slotVars

\* The steps of a call that hand on no slot.
LEMMA CallStepSlots ==
    ASSUME BaseInv, Slots, List, NEW w \in Waiter,
           \/ FinishCall(w) \/ BeginWait(w) \/ Dismiss(w) \/ Resume(w) \/ ResumeCancelled(w)
           \/ EndWait(w)
    PROVE  Slots' /\ List'
<1>1. CASE FinishCall(w) \/ BeginWait(w) \/ Dismiss(w) \/ Resume(w)
  <2>1. UNCHANGED slotVars /\ UNCHANGED ahead
    BY <1>1 DEF FinishCall, BeginWait, Dismiss, Resume, schedulerVars, runVars, slotVars
  <2>2. \A v \in Waiter : call[v] \in {"resuming", "resumed"}
                            => call'[v] \in {"resuming", "resumed"}
    BY <1>1 DEF FinishCall, BeginWait, Dismiss, Resume, BaseInv, TypeOK
  <2> QED
    BY <2>1, <2>2, SameSlots DEF List, Ordered, AheadAsked, slotVars
<1>2. CASE ResumeCancelled(w) \/ EndWait(w)
  <2>1. /\ active' = active /\ queue' = queue /\ paused' = paused /\ runSession' = runSession
        /\ resuming' \subseteq resuming \ {w} /\ ahead' = LeaveList(w)
        /\ \A v \in Waiter : v # w => call'[v] = call[v]
    BY <1>2 DEF ResumeCancelled, EndWait, runVars, BaseInv, TypeOK, RunsKnown
  <2>2. Slots'
    BY <2>1 DEF Slots, Within, Waits, InUse
  <2>3. \A v \in Waiter : v # w => ahead'[v] = ahead[v] \ {w}
    BY <2>1 DEF LeaveList
  <2>4. resuming' \subseteq Waiter /\ ahead'[w] = {}
    BY <2>1 DEF BaseInv, TypeOK, LeaveList
  <2>5. Ordered(resuming', ahead')
    BY <2>1, <2>3, <2>4 DEF List, Ordered
  <2>6. AheadAsked'
    BY <2>1, <2>3, <2>4 DEF List, AheadAsked
  <2> QED
    BY <2>2, <2>5, <2>6 DEF List, Ordered
<1> QED
  BY <1>1, <1>2

\* Admitting one chat respects the limits.
LEMMA AdmitOne ==
    ASSUME NEW u \in SUBSET Session, Within(u), NEW s \in Session, Admits(u, s),
           NEW v \in SUBSET Session, v \subseteq u \cup {s}
    PROVE  Within(v)
<1>1. ASSUME NEW G \in SUBSET Session, NEW L \in Nat, Bound(G, L)
      PROVE  Cardinality(v \cap G) <= L
  <2>1. CASE s \in G
    <3>1. v \cap G \subseteq u \cup {s}
      OBVIOUS
    <3> QED
      BY <1>1, <2>1, <3>1, OneMore
  <2>2. CASE s \notin G
    <3>1. v \cap G \subseteq u
      BY <2>2
    <3>2. Cardinality(u \cap G) <= L
      BY <1>1 DEF Within
    <3> QED
      BY <1>1, <3>1, <3>2, NoMore
  <2> QED
    BY <2>1, <2>2
<1> QED
  BY <1>1 DEF Within

\* Fewer chats respect the limits.
LEMMA FewerWithin ==
    ASSUME NEW u \in SUBSET Session, Within(u), NEW v \in SUBSET u
    PROVE  Within(v)
<1>1. ASSUME NEW G \in SUBSET Session, NEW L \in Nat, Bound(G, L)
      PROVE  Cardinality(v \cap G) <= L
  <2>1. v \in SUBSET Session /\ v \cap G \subseteq u /\ Cardinality(u \cap G) <= L
    BY <1>1 DEF Within
  <2> QED
    BY <1>1, <2>1, NoMore
<1> QED
  BY <1>1 DEF Within

\* A submission to an idle chat starts when it is admitted and waits otherwise.
LEMMA SubmitSlots ==
    ASSUME BaseInv, Slots, List, NEW s \in Session, SubmitStart(s) \/ SubmitQueue(s)
    PROVE  Slots' /\ List'
<1>1. /\ ids < MaxRun /\ ids' = ids + 1 /\ runSession' = [runSession EXCEPT ![ids'] = s]
      /\ UNCHANGED <<paused, resuming, ahead, call>>
  BY DEF SubmitStart, SubmitQueue, NewRun, gateVars
<1>2. List'
  BY <1>1 DEF List, Ordered, AheadAsked
<1>3. ids' \in Run /\ ids' # NoRun
  BY <1>1, IdFacts DEF BaseInv, TypeOK
<1>4. \A r \in queue \cup launched : r # ids' /\ runSession'[r] = runSession[r]
  <2>1. \A r \in queue \cup launched : r \in Run /\ r <= ids
    BY DEF BaseInv, TypeOK, RunsKnown
  <2>2. \A r \in queue \cup launched : r # ids'
    BY <1>1, <2>1, IdFacts DEF BaseInv, TypeOK
  <2> QED
    BY <1>1, <2>1, <2>2 DEF BaseInv, TypeOK
<1>5. \A w \in resuming : w[1] \in launched
  BY DEF BaseInv, TypeOK, RunsKnown
<1>6. InUse \in SUBSET Session /\ InUse' \in SUBSET Session
  BY UsingType DEF InUse
<1>7. CASE SubmitStart(s)
  <2>1. Admits(InUse, s) /\ active' = [active EXCEPT ![s] = ids'] /\ queue' = queue
    BY <1>7 DEF SubmitStart, InUse
  <2>2. InUse' \subseteq InUse \cup {s} /\ InUse \subseteq InUse'
    BY <1>1, <1>3, <2>1 DEF InUse, Using, BaseInv, TypeOK
  <2>3. Within(InUse')
    BY <1>6, <2>1, <2>2, AdmitOne DEF Slots
  <2>4. ASSUME NEW t \in Session, ~ Admits(InUse, t) PROVE ~ Admits(InUse', t)
    BY <1>6, <2>2, <2>4, StillFull
  <2>5. Waits(InUse', queue', resuming', runSession')
    BY <1>1, <1>4, <1>5, <2>1, <2>4, WaiterChats DEF Slots, Waits
  <2> QED
    BY <1>2, <2>3, <2>5 DEF Slots
<1>8. CASE SubmitQueue(s)
  <2>1. ~ Admits(InUse, s) /\ active' = active /\ queue' = queue \cup {ids'}
    BY <1>8 DEF SubmitQueue, InUse
  <2>2. InUse' = InUse
    BY <1>1, <2>1 DEF InUse
  <2>3. runSession'[ids'] = s
    BY <1>1, <1>3 DEF BaseInv, TypeOK
  <2>4. Waits(InUse', queue', resuming', runSession')
    BY <1>1, <1>4, <1>5, <2>1, <2>2, <2>3 DEF Slots, Waits
  <2> QED
    BY <1>2, <2>2, <2>4 DEF Slots
<1> QED
  BY <1>7, <1>8

\* Stopping takes runs from the queue and leaves the slots alone.
LEMMA StopSlots ==
    ASSUME Slots, List, NEW target \in SUBSET Session, NEW all \in BOOLEAN, Stop(target, all)
    PROVE  Slots' /\ List'
<1>1. /\ queue' \subseteq queue
      /\ UNCHANGED <<active, paused, resuming, ahead, runSession, call>>
  BY DEF Stop, gateVars
<1> QED
  BY <1>1 DEF Slots, Within, Waits, InUse, List, Ordered, AheadAsked

\* A card frees the slot of its run, and the slot is handed on.
LEMMA ReleaseForCardSlots ==
    ASSUME BaseInv, Slots, List, NEW w \in Waiter, ReleaseForCard(w)
    PROVE  Slots' /\ List'
<1> DEFINE s == runSession[w[1]]
<1>1. /\ s \in Session /\ call[w] = "carded" /\ call' = [call EXCEPT ![w] = "waiting"]
      /\ ahead' = ahead /\ runSession' = runSession
  BY DEF ReleaseForCard, BaseInv, TypeOK, RunsKnown
<1>2. AheadAsked'
  BY <1>1 DEF List, AheadAsked, BaseInv, TypeOK
<1>3. CASE ~ (w[1] \notin cancelled /\ Current(w[1]) /\ s \notin paused)
  <2>1. UNCHANGED slotVars
    BY <1>1, <1>3 DEF ReleaseForCard, slotVars
  <2> QED
    BY <1>1, <1>2, <2>1, SameSlots DEF List, slotVars
<1>4. CASE w[1] \notin cancelled /\ Current(w[1]) /\ s \notin paused
  <2>1. Drain(active, paused \cup {s}, resuming, ahead, queue, runSession)
    BY <1>4 DEF ReleaseForCard
  <2>2. DrainArgs(active, paused \cup {s}, resuming, queue)
    BY <1>1 DEF BaseInv, TypeOK, ActiveType, DrainArgs
  <2>3. Within(Using(active, paused \cup {s}))
    <3>1. Using(active, paused \cup {s}) \in SUBSET InUse /\ InUse \in SUBSET Session
      BY UsingType DEF InUse, Using
    <3> QED
      BY <3>1, FewerWithin DEF Slots
  <2>4. SlotArgs(active, paused \cup {s}, resuming, ahead, queue, runSession)
    BY <2>2, <2>3, WaiterChats DEF SlotArgs, List
  <2> HIDE DEF s
  <2>5. /\ Within(Using(active', paused'))
        /\ Waits(Using(active', paused'), queue', resuming', runSession)
    BY <2>1, <2>4, DrainSlots
  <2>6. Slots'
    BY <2>5, <1>1 DEF Slots, InUse
  <2>7. resuming' \subseteq resuming
    BY <2>1 DEF Drain
  <2>8. Ordered(resuming', ahead')
    BY <1>1, <2>7 DEF List, Ordered
  <2> QED
    BY <1>2, <2>6, <2>8 DEF List
<1> QED
  BY <1>3, <1>4

\* An answered call takes a free slot, or joins the end of the list.
LEMMA ReacquireSlots ==
    ASSUME BaseInv, Slots, List, NEW w \in Waiter, Reacquire(w)
    PROVE  Slots' /\ List'
<1> DEFINE s == runSession[w[1]]
           behind == [ahead EXCEPT ![w] = resuming]
<1>1. /\ s \in Session /\ call[w] = "waiting" /\ runSession' = runSession
      /\ \A v \in Waiter : w \notin ahead[v]
      /\ resuming \subseteq Waiter
  BY DEF Reacquire, BaseInv, TypeOK, RunsKnown, List, AheadAsked
<1>2. \A v \in Waiter : v # w => call'[v] = call[v]
  BY DEF Reacquire, BaseInv, TypeOK
<1>3. CASE UNCHANGED slotVars /\ ahead' = ahead
  BY <1>1, <1>2, <1>3, SameSlots DEF List, Ordered, AheadAsked, slotVars
<1>4. CASE /\ Admits(Using(active, paused), s) /\ paused' = paused \ {s}
           /\ UNCHANGED <<active, queue, resuming, ahead>>
  <2>1. /\ InUse \in SUBSET Session /\ InUse' \in SUBSET Session
        /\ InUse' \subseteq InUse \cup {s} /\ InUse \subseteq InUse' /\ Admits(InUse, s)
    BY <1>4 DEF InUse, Using
  <2>2. Within(InUse')
    BY <1>1, <2>1, AdmitOne DEF Slots
  <2>3. ASSUME NEW t \in Session, ~ Admits(InUse, t) PROVE ~ Admits(InUse', t)
    BY <2>1, <2>3, StillFull
  <2>4. Waits(InUse', queue', resuming', runSession')
    BY <1>1, <1>4, <2>3, WaiterChats DEF Slots, Waits
  <2> QED
    BY <1>1, <1>2, <1>4, <2>2, <2>4 DEF Slots, List, Ordered, AheadAsked
<1>5. CASE /\ Drain(active, paused, resuming \cup {w}, behind, queue, runSession)
           /\ ahead' = behind
  <2>1. DrainArgs(active, paused, resuming \cup {w}, queue)
    BY DEF BaseInv, TypeOK, ActiveType, DrainArgs
  <2>2. /\ \A v \in Waiter : v # w => behind[v] = ahead[v]
        /\ behind[w] = resuming
    BY DEF BaseInv, TypeOK
  <2>3. w \notin resuming
    BY <1>1 DEF BaseInv, RunsKnown
  <2> HIDE DEF s, behind
  <2>4. Ordered(resuming \cup {w}, behind)
    BY <1>1, <2>2, <2>3 DEF List, Ordered
  <2>5. SlotArgs(active, paused, resuming \cup {w}, behind, queue, runSession)
    BY <1>1, <2>1, <2>4, WaiterChats DEF SlotArgs, Slots, InUse, s
  <2>6. /\ Within(Using(active', paused'))
        /\ Waits(Using(active', paused'), queue', resuming', runSession)
    BY <1>5, <2>5, DrainSlots
  <2>7. Slots'
    BY <2>6, <1>1 DEF Slots, InUse
  <2>8. resuming' \subseteq resuming \cup {w}
    BY <1>5 DEF Drain
  <2>9. Ordered(resuming', ahead')
    BY <1>5, <2>4, <2>8 DEF Ordered
  <2>10. AheadAsked'
    <3>1. \A v \in resuming : call[v] = "resuming" /\ v # w
      BY <2>3 DEF BaseInv, RunsKnown
    <3> QED
      BY <1>1, <1>2, <1>5, <2>2, <3>1 DEF List, AheadAsked
  <2> QED
    BY <2>7, <2>9, <2>10 DEF List
<1> QED
  BY <1>1, <1>3, <1>4, <1>5 DEF Reacquire, slotVars

\* The slot of chat s is freed and handed on; q and `of' are the queue and the chats of
\* the runs by then.
LEMMA FreeSlotSlots ==
    ASSUME BaseInv, Slots, List, NEW r \in Run, NEW s \in Session, NEW q \in SUBSET Run, NEW of,
           FreeSlot(r, s, q, of),
           \A x \in q : of[x] \in Session, \A w \in resuming : of[w[1]] \in Session
    PROVE  /\ Within(Using(active', paused'))
           /\ Waits(Using(active', paused'), queue', resuming', of)
           /\ ahead' = ahead /\ resuming' \subseteq resuming
<1> DEFINE act == [active EXCEPT ![s] = NoRun]
           res == ForgetWaiter(resuming, s)
           u == Using(act, paused \ {s})
<1>1. Drain(act, paused \ {s}, res, ahead, q, of) /\ ahead' = ahead
  BY DEF FreeSlot
<1>2. DrainArgs(act, paused \ {s}, res, q) /\ res \subseteq resuming
  BY DEF DrainArgs, ForgetWaiter, ActiveType, BaseInv, TypeOK
<1>3. u \in SUBSET InUse /\ InUse \in SUBSET Session
  BY DEF InUse, Using, BaseInv, TypeOK
<1>4. Within(u)
  <2> HIDE DEF u
  <2> QED
    BY <1>3, FewerWithin DEF Slots
<1>5. Ordered(res, ahead)
  BY <1>2 DEF List, Ordered
<1> HIDE DEF act, res
<1>6. SlotArgs(act, paused \ {s}, res, ahead, q, of)
  BY <1>2, <1>4, <1>5 DEF SlotArgs
<1>7. /\ Within(Using(active', paused'))
      /\ Waits(Using(active', paused'), queue', resuming', of)
  BY <1>1, <1>6, DrainSlots
<1>8. resuming' \subseteq res
  BY <1>1 DEF Drain
<1> QED
  BY <1>1, <1>2, <1>7, <1>8

\* A run ends, by itself or by force: its slot is handed on, and the messages that
\* waited behind it become a run like any other.
LEMMA FinishSlots ==
    ASSUME BaseInv, Slots, List, NEW r \in Run, Finish(r) \/ ForceFinish(r)
    PROVE  Slots' /\ List'
<1> DEFINE s == runSession[r]
<1>1. s \in Session /\ queue \in SUBSET Run /\ call' = call
  BY DEF Finish, ForceFinish, BaseInv, TypeOK, RunsKnown, gateVars
<1>2. /\ \A x \in queue : runSession[x] \in Session
      /\ \A w \in resuming : w[1] \in launched /\ runSession[w[1]] \in Session
  BY WaiterChats DEF BaseInv, RunsKnown, TypeOK
<1>3. CASE UNCHANGED slotVars /\ ahead' = ahead
  BY <1>1, <1>3, SameSlots DEF List, Ordered, AheadAsked, slotVars
<1>4. ASSUME Within(Using(active', paused')),
             Waits(Using(active', paused'), queue', resuming', runSession'),
             ahead' = ahead, resuming' \subseteq resuming
      PROVE  Slots' /\ List'
  BY <1>1, <1>4 DEF Slots, InUse, List, Ordered, AheadAsked
<1>5. CASE FreeSlot(r, s, queue, runSession) /\ runSession' = runSession
  <2> HIDE DEF s
  <2>1. /\ Within(Using(active', paused'))
        /\ Waits(Using(active', paused'), queue', resuming', runSession)
        /\ ahead' = ahead /\ resuming' \subseteq resuming
    BY <1>1, <1>2, <1>5, FreeSlotSlots
  <2> QED
    BY <1>4, <1>5, <2>1
<1>6. CASE /\ ids < MaxRun /\ ids' = ids + 1 /\ runSession' = [runSession EXCEPT ![ids'] = s]
           /\ FreeSlot(r, s, queue \cup {ids'}, runSession')
  <2>1. ids' \in Run
    BY <1>6, IdFacts DEF BaseInv, TypeOK
  <2>2. \A x \in queue \cup launched : x \in Run /\ x # ids'
    <3>1. \A x \in queue \cup launched : x \in Run /\ x <= ids
      BY DEF BaseInv, TypeOK, RunsKnown
    <3> QED
      BY <3>1, <1>6, IdFacts DEF BaseInv, TypeOK
  <2>3. /\ queue \cup {ids'} \in SUBSET Run
        /\ \A x \in queue \cup {ids'} : runSession'[x] \in Session
        /\ \A w \in resuming : runSession'[w[1]] \in Session
    BY <1>1, <1>2, <1>6, <2>1, <2>2 DEF BaseInv, TypeOK
  <2> HIDE DEF s
  <2>4. /\ Within(Using(active', paused'))
        /\ Waits(Using(active', paused'), queue', resuming', runSession')
        /\ ahead' = ahead /\ resuming' \subseteq resuming
    BY <1>1, <1>6, <2>3, FreeSlotSlots
  <2> QED
    BY <1>4, <2>4
<1>7. CASE Finish(r)
  BY <1>3, <1>5, <1>6, <1>7 DEF Finish, schedulerVars, slotVars
<1>8. CASE ForceFinish(r)
  BY <1>3, <1>5, <1>8 DEF ForceFinish, slotVars
<1> QED
  BY <1>7, <1>8

\* Released chats are admitted one after the other, in the order of their ids.
LEMMA ReleaseModelSlots ==
    ASSUME BaseInv, Slots, List, NEW k \in Connection, ReleaseModel(k)
    PROVE  Slots' /\ List'
<1> DEFINE chats == Released(k)
           fresh == Fresh(k)
<1>1. /\ ids + Cardinality(chats) <= MaxRun
      /\ UNCHANGED <<paused, resuming, ahead, call>>
  BY DEF ReleaseModel, gateVars
<1>2. PICK run \in [chats -> fresh], now \in SUBSET chats : StartReleased(k, run, now)
  BY DEF ReleaseModel
<1> DEFINE owner == [r \in fresh |-> CHOOSE s \in chats : run[s] = r]
           upto(s) == [t \in Session |-> IF t \in now /\ run[t] < run[s]
                                           THEN run[t] ELSE active[t]]
<1>3. /\ \A s, t \in chats : s # t => run[s] # run[t]
      /\ \A r \in fresh : \E s \in chats : run[s] = r
      /\ \A s \in chats : s \in now <=> Admits(Using(upto(s), paused), s)
      /\ active' = [s \in Session |-> IF s \in now THEN run[s] ELSE active[s]]
      /\ queue' = queue \cup {run[s] : s \in chats \ now}
      /\ runSession' = [r \in Run |-> IF r \in fresh THEN owner[r] ELSE runSession[r]]
  BY <1>2, Zenon DEF StartReleased
<1>4. /\ chats \subseteq Session /\ fresh \subseteq Run
      /\ \A r \in fresh : r \in Nat /\ r > ids
  BY <1>1, ReleasedFacts
<1>5. \A s \in chats : run[s] \in fresh
  BY <1>2
<1>6. ASSUME NEW s \in chats PROVE runSession'[run[s]] = s
  <2>1. owner[run[s]] \in chats /\ run[owner[run[s]]] = run[s]
    <3>1. \E t \in chats : run[t] = run[s]
      OBVIOUS
    <3>2. run[s] \in fresh
      BY <1>5
    <3> HIDE DEF chats, fresh
    <3> QED
      BY <3>1, <3>2
  <2> HIDE DEF owner, chats, fresh
  <2> QED
    BY <2>1, <1>3, <1>4, <1>5
<1>7. \A r \in queue \cup launched : r \in Run /\ r \notin fresh
  <2>1. \A r \in queue \cup launched : r \in Run /\ r <= ids
    BY DEF BaseInv, TypeOK, RunsKnown
  <2> QED
    BY <2>1, <1>4, IdFacts DEF BaseInv, TypeOK
<1>8. /\ \A r \in queue : runSession'[r] = runSession[r]
      /\ \A w \in resuming : runSession'[w[1]] = runSession[w[1]]
  <2>1. \A w \in resuming : w[1] \in launched
    BY DEF BaseInv, TypeOK, RunsKnown
  <2> HIDE DEF chats, fresh, owner
  <2> QED
    BY <2>1, <1>3, <1>7
<1>9. \A s \in chats : Using(upto(s), paused) \in SUBSET Session
  BY UsingType
<1>10. InUse \in SUBSET Session /\ InUse' \in SUBSET Session
  BY UsingType DEF InUse
<1>11. \A s \in now : run[s] \in Run /\ run[s] # NoRun
  BY <1>4, <1>5, IdFacts
<1>12. InUse \subseteq InUse' /\ \A s \in chats : Using(upto(s), paused) \subseteq InUse'
  <2> HIDE DEF chats, fresh
  <2> QED
    BY <1>1, <1>3, <1>11 DEF InUse, Using
<1>13. ASSUME NEW G \in SUBSET Session, NEW L \in Nat, Bound(G, L)
       PROVE  Cardinality(InUse' \cap G) <= L
  <2>1. CASE now \cap G = {}
    <3>1. InUse' \cap G \subseteq InUse
      <4> HIDE DEF chats, fresh
      <4> QED
        BY <1>1, <1>3, <2>1 DEF InUse, Using
    <3>2. Cardinality(InUse \cap G) <= L
      BY <1>13 DEF Slots, Within
    <3> QED
      BY <1>10, <1>13, <3>1, <3>2, NoMore
  <2>2. CASE now \cap G # {}
    <3> DEFINE runs == {run[s] : s \in now \cap G}
    <3>1. runs \in SUBSET Run /\ runs # {}
      BY <1>11, <2>2
    <3>2. \E d \in runs : \A x \in runs : x <= d
      <4> HIDE DEF runs
      <4> QED
        BY <3>1, LastRun
    <3>3. PICK s \in now \cap G : \A t \in now \cap G : run[t] <= run[s]
      BY <3>2
    <3>4. \A t \in now \cap G : t # s => run[t] < run[s]
      <4>1. \A t \in now \cap G : t # s => run[t] # run[s]
        BY <1>3
      <4> QED
        BY <4>1, <3>3, <1>11, IdFacts
    <3>5. InUse' \cap G \subseteq Using(upto(s), paused) \cup {s}
      <4> HIDE DEF chats, fresh
      <4> QED
        BY <1>1, <1>3, <1>11, <3>4 DEF InUse, Using
    <3>6. Admits(Using(upto(s), paused), s)
      BY <1>3
    <3>7. Using(upto(s), paused) \in SUBSET Session
      BY <1>9
    <3> HIDE DEF upto
    <3> QED
      BY <1>10, <1>13, <3>5, <3>6, <3>7, OneMore
  <2> QED
    BY <2>1, <2>2
<1>14. Within(InUse')
  BY <1>13 DEF Within
<1>15. ASSUME NEW t \in Session, ~ Admits(InUse, t) PROVE ~ Admits(InUse', t)
  BY <1>10, <1>12, <1>15, StillFull
<1>16. ASSUME NEW s \in chats \ now PROVE ~ Admits(InUse', s)
  <2>1. ~ Admits(Using(upto(s), paused), s) /\ Using(upto(s), paused) \in SUBSET InUse'
        /\ s \in Session
    BY <1>3, <1>4, <1>12
  <2> HIDE DEF upto
  <2> QED
    BY <1>10, <2>1, StillFull
<1>17. Waits(InUse', queue', resuming', runSession')
  <2> HIDE DEF chats, fresh, owner, upto
  <2>1. ASSUME NEW r \in queue' PROVE ~ Admits(InUse', runSession'[r])
    <3>1. CASE r \in queue
      BY <3>1, <1>8, <1>15, WaiterChats DEF Slots, Waits
    <3>2. CASE r \notin queue
      <4>1. PICK s \in chats \ now : r = run[s]
        BY <3>2, <1>3
      <4>2. runSession'[r] = s
        BY <4>1, <1>6
      <4> QED
        BY <4>1, <4>2, <1>16
    <3> QED
      BY <3>1, <3>2
  <2>2. ASSUME NEW w \in resuming' PROVE ~ Admits(InUse', runSession'[w[1]])
    BY <1>1, <1>8, <1>15, WaiterChats DEF Slots, Waits
  <2> QED
    BY <2>1, <2>2 DEF Waits
<1>18. List'
  BY <1>1 DEF List, Ordered, AheadAsked
<1> QED
  BY <1>14, <1>17, <1>18 DEF Slots

\* Every step respects the limits and hands on the slots it frees.
LEMMA NextSlots ==
    ASSUME BaseInv, Slots, List, [Next]_vars
    PROVE  BaseInv' /\ Slots' /\ List'
<1>1. BaseInv'
  BY NextBase
<1>2. CASE UNCHANGED vars
  <2>1. UNCHANGED slotVars /\ UNCHANGED <<ahead, call>>
    BY <1>2 DEF vars, schedulerVars, runVars, gateVars, slotVars
  <2> QED
    BY <1>1, <2>1, SameSlots DEF List, Ordered, AheadAsked, slotVars
<1>3. ASSUME NEW s \in Session, Submission(s) \/ ChatOperation(s) \/ HoldModel(s) \/ Decide(s)
      PROVE  Slots' /\ List'
  BY <1>3, ChatStepSlots, SubmitSlots DEF Submission, ChatOperation
<1>4. ASSUME Stopping PROVE Slots' /\ List'
  <2>1. ASSUME Stop(Session, TRUE) PROVE Slots' /\ List'
    BY <2>1, StopSlots
  <2>2. ASSUME NEW s \in Session, Stop({s}, FALSE) PROVE Slots' /\ List'
    BY <2>2, StopSlots
  <2> QED
    BY <1>4, <2>1, <2>2 DEF Stopping
<1>5. ASSUME NEW r \in Run,
             RunStep(r) \/ WallClock(r) \/ StopReturns(r) \/ ForceFinish(r) \/ HoldInRun(r)
      PROVE  Slots' /\ List'
  BY <1>5, RunStepSlots, FinishSlots DEF RunStep
<1>6. ASSUME NEW w \in Waiter, CallStep(w) PROVE Slots' /\ List'
  BY <1>6, CallStepSlots, ReleaseForCardSlots, ReacquireSlots DEF CallStep
<1>7. ASSUME NEW k \in Connection, ReleaseModel(k) PROVE Slots' /\ List'
  BY <1>7, ReleaseModelSlots
<1>8. Slots' /\ List'
  BY <1>2, <1>3, <1>4, <1>5, <1>6, <1>7 DEF Next, Running, Carding, Outage
<1> QED
  BY <1>1, <1>8

\* No slot is in use and nobody waits at the start.
LEMMA InitSlots == Init => BaseInv /\ Slots /\ List
<1>1. Init => BaseInv
  BY InitBase
<1>2. ASSUME Init PROVE Slots
  <2>1. InUse = {}
    BY <1>2 DEF Init, InUse, Using
  <2>2. \A G : {} \cap G = {}
    OBVIOUS
  <2>3. Within({})
    BY <2>2, FS_EmptySet DEF Within
  <2> QED
    BY <1>2, <2>1, <2>3 DEF Init, Slots, Waits
<1>3. Init => List
  BY DEF Init, List, Ordered, AheadAsked
<1> QED
  BY <1>1, <1>2, <1>3

\* What the proof carries implies what the runs check.
LEMMA SlotsImply ==
    ASSUME BaseInv, Slots, List
    PROVE  SlotInv
<1>1. InUse = {s \in Session : active[s] # NoRun /\ s \notin paused} /\ InUse \in SUBSET Session
  BY DEF InUse, Using
<1>2. SlotLimits
  <2>1. Cardinality(InUse) <= MaxConcurrent
    <3>1. InUse \cap Session = InUse /\ Bound(Session, MaxConcurrent)
      BY <1>1 DEF Bound
    <3> QED
      BY <3>1, LimitAssumption DEF Slots, Within
  <2>2. ASSUME NEW k \in Connection
        PROVE  Cardinality({s \in InUse : ConnectionOf[s] = k}) <= ConnectionLimit[k]
    <3>1. /\ InUse \cap OnConnection(Session, k) = {s \in InUse : ConnectionOf[s] = k}
          /\ OnConnection(Session, k) \in SUBSET Session
      BY <1>1 DEF OnConnection
    <3>2. Bound(OnConnection(Session, k), ConnectionLimit[k]) /\ ConnectionLimit[k] \in Nat
      BY ConnectionAssumption DEF Bound
    <3> QED
      BY <3>1, <3>2 DEF Slots, Within
  <2> HIDE DEF InUse
  <2> QED
    BY <1>1, <2>1, <2>2 DEF SlotLimits
<1>3. WorkConserving
  <2> DEFINE Full(s) == \/ Cardinality(InUse) >= MaxConcurrent
                        \/ Cardinality({t \in InUse : ConnectionOf[t] = ConnectionOf[s]})
                             >= ConnectionLimit[ConnectionOf[s]]
  <2>1. ASSUME NEW s \in Session, ~ Admits(InUse, s) PROVE Full(s)
    <3> DEFINE on == {t \in InUse : ConnectionOf[t] = ConnectionOf[s]}
    <3>1. on = OnConnection(InUse, ConnectionOf[s]) /\ on \in SUBSET Session
      BY <1>1 DEF OnConnection
    <3>2. Cardinality(InUse) \in Nat /\ Cardinality(on) \in Nat /\ MaxConcurrent \in Nat
          /\ ConnectionLimit[ConnectionOf[s]] \in Nat
      BY <1>1, <3>1, ChatsFinite, ConnectionAssumption, LimitAssumption
    <3> HIDE DEF on
    <3>3. \/ Cardinality(InUse) >= MaxConcurrent
          \/ Cardinality(on) >= ConnectionLimit[ConnectionOf[s]]
      BY <2>1, <3>1, <3>2 DEF Admits
    <3> QED
      BY <3>3 DEF on
  <2>2. /\ \A r \in queue : Full(runSession[r])
        /\ \A w \in resuming : Full(runSession[w[1]])
    <3> HIDE DEF Full
    <3> QED
      BY <2>1, WaiterChats DEF Slots, Waits
  <2> HIDE DEF InUse
  <2> QED
    BY <1>1, <2>2, Zenon DEF WorkConserving
<1>4. ListOrdered
  BY DEF List, Ordered, AheadAsked, ListOrdered
<1> QED
  BY <1>2, <1>3, <1>4 DEF SlotInv, BaseInv

-----------------------------------------------------------------------------
(* The theorems. *)

\* The inductive invariant of the runs holds in every reachable state.
THEOREM SlotInvHolds == Spec => []SlotInv
<1> DEFINE I == BaseInv /\ Slots /\ List
<1>1. I /\ [Next]_vars => I'
  BY NextSlots
<1>2. I => SlotInv
  BY SlotsImply
<1>3. Init => I
  BY InitSlots
<1> HIDE DEF I
<1> QED
  BY <1>1, <1>2, <1>3, PTL DEF Spec

\* No more runs than run.max_concurrent use a model, and no more on a connection than
\* its limit, whatever mix of submissions, continuations, releases, cards and answers
\* admitted them: admitLocked is asked at every place that gives out a slot.
THEOREM LimitsHold == Spec => []SlotLimits
<1>1. SlotInv => SlotLimits
  BY DEF SlotInv
<1> QED
  BY SlotInvHolds, <1>1, PTL

\* No queued run and no answered call waits for a slot it could be given: every place
\* that frees a slot drains the lists before it releases the lock.
THEOREM SlotsHandedOn == Spec => []WorkConserving
<1>1. SlotInv => WorkConserving
  BY DEF SlotInv
<1> QED
  BY SlotInvHolds, <1>1, PTL

=============================================================================
