--------------------------- MODULE TurnLoopProofs ---------------------------
(***************************************************************************)
(* What is proved of the turn loop for every number of turns, calls and    *)
(* messages and every kind of call: a tool call that took effect is told   *)
(* or recorded, and a request that is sent holds the task, the messages    *)
(* taken since and every call with its result.                             *)
(***************************************************************************)
EXTENDS TurnLoop, FiniteSetTheorems, WellFoundedInduction, TLAPS

-----------------------------------------------------------------------------
\* The abort records are a sequence.
RecordsAreList == records \in Seq({records[i] : i \in 1..Len(records)})

\* Only while its tools run does a run hold effects the chat was not told of.
UntoldInTools == untold # {} => phase \in {"tools", "ended", "finished"}

\* A record was written for a flight that says so.
RecordedHasRecord == recorded => records # <<>>

\* EffectsRecorded is about the end of a run alone: what makes it inductive is where
\* an effect can be untold before, and that the record Stop wrote is not lost again.
EffectsInv == RecordsAreList /\ UntoldInTools /\ RecordedHasRecord /\ EffectsRecorded

\* A list of records with one more is not empty.
LEMMA AppendIsList ==
    ASSUME NEW s, s \in Seq({s[i] : i \in 1..Len(s)}), NEW e, NEW u, u = Append(s, e)
    PROVE  u \in Seq({u[i] : i \in 1..Len(u)}) /\ u # <<>>
<1> DEFINE S == {s[i] : i \in 1..Len(s)} \cup {e}
<1>1. s \in Seq(S) /\ e \in S
  OBVIOUS
<1> HIDE DEF S
<1>2. u \in Seq(S) /\ Len(u) = Len(s) + 1 /\ Len(s) \in Nat
  BY <1>1
<1> DEFINE U == {u[i] : i \in 1..Len(u)}
<1>3. \A i \in 1..Len(u) : u[i] \in U
  OBVIOUS
<1> HIDE DEF U
<1>4. u \in Seq(U)
  BY <1>2, <1>3
<1> QED
  BY <1>2, <1>4, SMTT(20) DEF U

\* recordAbort leaves a record, unless one was written for this flight.
LEMMA RecordLeaves ==
    ASSUME RecordsAreList, RecordedHasRecord, RecordAbort
    PROVE  RecordsAreList' /\ records' # <<>>
<1>1. CASE recorded
  BY <1>1 DEF RecordAbort, RecordsAreList, RecordedHasRecord
<1>2. CASE ~ recorded
  BY <1>2, AppendIsList DEF RecordAbort, RecordsAreList
<1> QED
  BY <1>1, <1>2

\* A run that returns without a record has told everything, or its wall clock ran out.
LEMMA ReturnRecords ==
    ASSUME EffectsInv, NEW why, Return(why), records' = records,
           phase # "tools" \/ "wall" \in asked, phase \notin {"ended", "finished"}
    PROVE  EffectsInv'
  BY DEF EffectsInv, Return, RecordsAreList, UntoldInTools, RecordedHasRecord, EffectsRecorded

\* x.contextStop: an abort writes the record.
LEMMA ContextStopRecords ==
    ASSUME EffectsInv, ContextStop, phase \notin {"ended", "finished"}
    PROVE  EffectsInv'
<1>1. CASE "wall" \in asked
  BY <1>1, ReturnRecords DEF ContextStop, StopRun
<1>2. CASE "wall" \notin asked
  <2>1. Return("aborted") /\ RecordsAreList' /\ records' # <<>>
    BY <1>2, RecordLeaves DEF ContextStop, EffectsInv
  <2> QED
    BY <2>1 DEF Return, EffectsInv, UntoldInTools, RecordedHasRecord, EffectsRecorded
<1> QED
  BY <1>1, <1>2

\* The loop goes on in another phase, with nothing untold.
LEMMA GoOnRecords ==
    ASSUME EffectsInv, NEW p, NEW y, GoTo(p, y), p \notin {"ended", "finished"},
           (phase \notin {"tools", "ended", "finished"} /\ untold' = untold) \/ untold' = {}
    PROVE  EffectsInv'
  BY DEF EffectsInv, GoTo, RecordsAreList, UntoldInTools, RecordedHasRecord, EffectsRecorded

\* The phases before the model is called, and the call that fails.
LEMMA BuildRecords ==
    ASSUME EffectsInv, TurnBoundary \/ BuildRequest \/ FitWindow \/ Summarize \/ CallFails
    PROVE  EffectsInv'
<1>1. phase \in {"boundary", "build", "fit", "summary", "call"}
  BY DEF TurnBoundary, BuildRequest, FitWindow, Summarize, CallFails
<1>2. \/ ContextStop
      \/ \E why : Return(why) /\ records' = records
      \/ \E p \in {"boundary", "build", "fit", "summary", "call"} : \E y : GoTo(p, y) /\ untold' = untold
  <2>1. CASE TurnBoundary
    BY <2>1, Zenon DEF TurnBoundary, StopRun, BeginTurn, toolVars
  <2>2. CASE BuildRequest
    BY <2>2, Zenon DEF BuildRequest, StopRun, toolVars
  <2>3. CASE FitWindow
    BY <2>3, Zenon DEF FitWindow, StopRun, Compacted, toolVars
  <2>4. CASE Summarize
    BY <2>4, Zenon DEF Summarize, StopSaying, Compacted, toolVars
  <2>5. CASE CallFails
    BY <2>5, Zenon DEF CallFails, StopRun, StopSaying, Again, toolVars
  <2> QED
    BY <2>1, <2>2, <2>3, <2>4, <2>5
<1>3. CASE ContextStop
  BY <1>1, <1>3, ContextStopRecords
<1>4. CASE \E why : Return(why) /\ records' = records
  BY <1>1, <1>4, ReturnRecords
<1>5. ASSUME NEW p \in {"boundary", "build", "fit", "summary", "call"}, NEW y,
             GoTo(p, y), untold' = untold
      PROVE  EffectsInv'
  BY <1>1, <1>5, GoOnRecords
<1> QED
  BY <1>2, <1>3, <1>4, <1>5

\* Reading the answer.
LEMMA ReadRecords ==
    ASSUME EffectsInv, ReadAnswer PROVE EffectsInv'
<1>1. phase = "call"
  BY DEF ReadAnswer, ReadNoCalls, ReadUnoffered, ReadReasoningOnly, ReadTruncatedCalls,
         ReadText, ReadCalls
<1>2. \/ \E why : Return(why) /\ records' = records
      \/ \E p \in {"boundary", "tools"} : \E y : GoTo(p, y) /\ untold' = untold
  <2>1. CASE ReadNoCalls \/ ReadUnoffered \/ ReadReasoningOnly
    BY <2>1, Zenon DEF ReadNoCalls, ReadUnoffered, ReadReasoningOnly, StopSaying, Again, toolVars
  <2>2. CASE ReadTruncatedCalls
    BY <2>2, Zenon DEF ReadTruncatedCalls, StopRun, toolVars
  <2>3. CASE ReadText
    BY <2>3, Zenon DEF ReadText, StopRun, StopSaying, toolVars
  <2>4. CASE ReadCalls
    BY <2>4, Zenon DEF ReadCalls, StopRun
  <2> QED
    BY <2>1, <2>2, <2>3, <2>4 DEF ReadAnswer
<1>3. CASE \E why : Return(why) /\ records' = records
  BY <1>1, <1>3, ReturnRecords
<1>4. ASSUME NEW p \in {"boundary", "tools"}, NEW y, GoTo(p, y), untold' = untold
      PROVE  EffectsInv'
  BY <1>1, <1>4, GoOnRecords
<1> QED
  BY <1>2, <1>3, <1>4

\* The tools act, the turn is appended or dropped, the guards look at it.
LEMMA ToolsRecord ==
    ASSUME EffectsInv,
           Tools \/ AppendTurn \/ Observe \/ AnswerCard \/ CardCancelled \/ EndTurn
    PROVE  EffectsInv'
<1>1. CASE Tools
  <2>1. phase = "tools" /\ phase' = phase /\ records' = records /\ recorded' = recorded
    BY <1>1 DEF Tools, ToolBegins, ToolRefused, ToolActs, ToolReturns, bookVars
  <2> QED
    BY <2>1 DEF EffectsInv, RecordsAreList, UntoldInTools, RecordedHasRecord, EffectsRecorded
<1>2. CASE AppendTurn
  <2>1. phase = "tools" /\ (ContextStop \/ (untold' = {} /\ GoTo("observe", x)))
    BY <1>2 DEF AppendTurn
  <2>2. CASE ContextStop
    BY <2>1, <2>2, ContextStopRecords
  <2>3. CASE untold' = {} /\ GoTo("observe", x)
    BY <2>3, GoOnRecords
  <2> QED
    BY <2>1, <2>2, <2>3
<1>3. CASE Observe \/ AnswerCard \/ CardCancelled \/ EndTurn
  <2>1. /\ phase \in {"observe", "card"}
        /\ \/ ContextStop
           \/ Return("cycle") /\ records' = records
           \/ \E p \in {"observe", "card", "boundary"} : GoTo(p, x) /\ untold' = untold
    <3>1. CASE Observe
      BY <3>1, Zenon DEF Observe
    <3>2. CASE AnswerCard
      BY <3>2, Zenon DEF AnswerCard, StopRun
    <3>3. CASE CardCancelled \/ EndTurn
      BY <3>3, Zenon DEF CardCancelled, EndTurn
    <3> QED
      BY <1>3, <3>1, <3>2, <3>3
  <2>2. CASE ContextStop
    BY <2>1, <2>2, ContextStopRecords
  <2>3. CASE Return("cycle") /\ records' = records
    BY <2>1, <2>3, ReturnRecords
  <2>4. ASSUME NEW p \in {"observe", "card", "boundary"}, GoTo(p, x), untold' = untold
        PROVE  EffectsInv'
    BY <2>1, <2>4, GoOnRecords
  <2> QED
    BY <2>1, <2>2, <2>3, <2>4
<1> QED
  BY <1>1, <1>2, <1>3

\* Beside the loop: a cancellation, the record of Stop, the end.
LEMMA BesideRecords ==
    ASSUME EffectsInv,
           Finished \/ StopOverdue \/ (\E who \in {"stop", "wall"} : Cancel(who)) \/ UNCHANGED turnVars
    PROVE  EffectsInv'
<1>1. CASE StopOverdue
  <2>1. RecordsAreList' /\ records' # <<>>
    BY <1>1, RecordLeaves DEF StopOverdue, EffectsInv
  <2> QED
    BY <1>1, <2>1 DEF StopOverdue, EffectsInv, UntoldInTools, RecordedHasRecord, EffectsRecorded,
                      toolVars
<1>2. CASE Finished
  BY <1>2 DEF Finished, EffectsInv, RecordsAreList, UntoldInTools, RecordedHasRecord,
              EffectsRecorded, toolVars, bookVars
<1>3. CASE \E who \in {"stop", "wall"} : Cancel(who)
  BY <1>3 DEF Cancel, EffectsInv, RecordsAreList, UntoldInTools, RecordedHasRecord,
              EffectsRecorded, toolVars, bookVars
<1>4. CASE UNCHANGED turnVars
  BY <1>4 DEF turnVars, EffectsInv, RecordsAreList, UntoldInTools, RecordedHasRecord,
              EffectsRecorded
<1> QED
  BY <1>1, <1>2, <1>3, <1>4

\* A tool call that took effect is in the chat with its result, or an abort record was
\* written before the chat may run again, unless the wall clock ended the run
\* (finishOrRunToolsStep, contextStop and recordAbort; Stop's own record after two
\* seconds): whatever the run did before, and however its stop and its end interleave.
THEOREM EffectsAreRecorded == TurnSpec => []EffectsRecorded
<1>1. TurnInit => EffectsInv
  <2>1. <<>> \in Seq({<<>>[i] : i \in 1..Len(<<>>)})
    <3> DEFINE N == {<<>>[i] : i \in 1..Len(<<>>)}
    <3> HIDE DEF N
    <3>1. <<>> \in Seq(N)
      OBVIOUS
    <3> QED
      BY <3>1 DEF N
  <2> QED
    BY <2>1 DEF TurnInit, EffectsInv, RecordsAreList, UntoldInTools, RecordedHasRecord,
                EffectsRecorded
<1>2. EffectsInv /\ [TurnNext]_turnVars => EffectsInv'
  BY BuildRecords, ReadRecords, ToolsRecord, BesideRecords DEF TurnNext, Round
<1>3. EffectsInv => EffectsRecorded
  BY DEF EffectsInv
<1> QED
  BY <1>1, <1>2, <1>3, PTL DEF TurnSpec

-----------------------------------------------------------------------------
(* What Pick returns *)

\* Every set of naturals has a least one.
LEMMA LeastNat ==
    ASSUME NEW S \in SUBSET Nat, S # {}
    PROVE  \E m \in S : \A n \in S : m <= n
<1> DEFINE Less == {ss \in Nat \X Nat : ss[1] < ss[2]}
<1>1. PICK m \in S : \A n \in S : ~ (<<n, m>> \in Less)
  <2>1. IsWellFoundedOn(Less, Nat)
    BY NatLessThanWellFounded, Zenon DEF OpToRel
  <2> QED
    BY <2>1, WFMin, Zenon
<1>2. ASSUME NEW n \in S PROVE m <= n
  <2>1. n \in Nat /\ m \in Nat
    OBVIOUS
  <2>2. CASE n < m
    <3>1. <<n, m>> \in Less
      BY <2>1, <2>2
    <3> QED
      BY <3>1, <1>1
  <2> QED
    BY <2>1, <2>2
<1> QED
  BY <1>2

\* The prefixes that Pick builds: at[k] holds what is kept of the first k messages.
PickRule(ms, S, n, at) ==
    at = [k \in 0..n |-> IF k = 0 THEN <<>>
                         ELSE IF k \in S THEN Append(at[k - 1], ms[k]) ELSE at[k - 1]]

\* The table of prefixes can be made one message longer.
LEMMA PickRuleGrows ==
    ASSUME NEW ms, NEW S, NEW n \in Nat, NEW at, PickRule(ms, S, n, at)
    PROVE  \E up : PickRule(ms, S, n + 1, up)
<1> DEFINE up == [k \in 0..(n + 1) |-> IF k <= n THEN at[k]
                     ELSE IF k \in S THEN Append(at[k - 1], ms[k]) ELSE at[k - 1]]
<1>1. ASSUME NEW k \in 0..(n + 1)
      PROVE  up[k] = IF k = 0 THEN <<>>
                     ELSE IF k \in S THEN Append(up[k - 1], ms[k]) ELSE up[k - 1]
  <2>1. CASE k = 0
    BY <2>1 DEF PickRule
  <2>2. CASE k # 0
    <3>1. up[k - 1] = at[k - 1]
      BY <2>2
    <3>2. CASE k <= n
      <4>1. up[k] = at[k] /\ k \in 0..n
        BY <3>2
      <4> QED
        BY <3>1, <4>1, <2>2 DEF PickRule
    <3>3. CASE ~ (k <= n)
      BY <2>2, <3>1, <3>3
    <3> QED
      BY <3>2, <3>3
  <2> QED
    BY <2>1, <2>2
<1>2. up = [k \in 0..(n + 1) |-> IF k = 0 THEN <<>>
                         ELSE IF k \in S THEN Append(up[k - 1], ms[k]) ELSE up[k - 1]]
  <2> DEFINE g == [k \in 0..(n + 1) |-> IF k = 0 THEN <<>>
                         ELSE IF k \in S THEN Append(up[k - 1], ms[k]) ELSE up[k - 1]]
  <2>1. DOMAIN g = 0..(n + 1) /\ DOMAIN up = 0..(n + 1)
    OBVIOUS
  <2>2. \A k \in 0..(n + 1) : g[k] = up[k]
    <3> HIDE DEF up
    <3>. QED
      BY <1>1
  <2>3. up = [k \in 0..(n + 1) |-> up[k]]
    OBVIOUS
  <2> HIDE DEF up
  <2> QED
    BY <2>2, <2>3
<1> HIDE DEF up
<1> QED
  BY <1>2 DEF PickRule

\* So there is one for every list: were there a shortest list without, the list one
\* shorter would have one.
LEMMA PickRuleExists ==
    ASSUME NEW ms, NEW S, NEW n \in Nat
    PROVE  \E at : PickRule(ms, S, n, at)
<1> DEFINE Bad == {m \in Nat : ~ \E at : PickRule(ms, S, m, at)}
<1>1. SUFFICES ASSUME Bad # {} PROVE FALSE
  OBVIOUS
<1>2. PICK m \in Bad : \A k \in Bad : m <= k
  <2>1. Bad \in SUBSET Nat
    OBVIOUS
  <2> HIDE DEF Bad
  <2> QED
    BY <1>1, <2>1, LeastNat
<1>3. CASE m = 0
  <2> DEFINE at == [k \in 0..0 |-> <<>>]
  <2>1. PickRule(ms, S, 0, at)
    BY DEF PickRule
  <2> QED
    BY <1>3, <2>1
<1>4. CASE m # 0
  <2>1. m - 1 \in Nat /\ m - 1 \notin Bad
    BY <1>2, <1>4
  <2>2. PICK at : PickRule(ms, S, m - 1, at)
    BY <2>1
  <2>3. \E up : PickRule(ms, S, (m - 1) + 1, up)
    BY <2>1, <2>2, PickRuleGrows
  <2>4. (m - 1) + 1 = m
    OBVIOUS
  <2> QED
    BY <2>3, <2>4
<1> QED
  BY <1>3, <1>4

\* The recursive function of Pick is that table.
LEMMA PickIs ==
    ASSUME NEW ms, Len(ms) \in Nat, NEW S
    PROVE  \E at : PickRule(ms, S, Len(ms), at) /\ Pick(ms, S) = at[Len(ms)]
<1>1. \E at : PickRule(ms, S, Len(ms), at)
  BY PickRuleExists
<1> DEFINE f == CHOOSE at : at = [k \in 0..Len(ms) |-> IF k = 0 THEN <<>>
                         ELSE IF k \in S THEN Append(at[k - 1], ms[k]) ELSE at[k - 1]]
<1>2. PickRule(ms, S, Len(ms), f)
  BY <1>1, Zenon DEF PickRule
<1>3. Pick(ms, S) = f[Len(ms)]
  BY Zenon DEF Pick
<1> QED
  BY <1>2, <1>3

\* h takes the indices S of ms one by one, and in order, to those of ns.
Embeds(ms, S, ns, T, h) ==
    /\ \A i \in S : h[i] \in T /\ ns[h[i]] = ms[i]
    /\ \A i, j \in S : i < j => h[i] < h[j]
    /\ \A k \in T : \E i \in S : h[i] = k

\* What the first k prefixes of Pick are.
PickTo(ms, S, at, M, k) ==
    /\ at[k] \in Seq(M)
    /\ \A i \in S : i <= k => Len(at[i]) \in 1..Len(at[k]) /\ at[k][Len(at[i])] = ms[i]
    /\ k \in S => \A i \in S : i < k => Len(at[i]) < Len(at[k])
    /\ \A p \in 1..Len(at[k]) : \E i \in S : i <= k /\ Len(at[i]) = p

\* The table, message by message.
LEMMA PickRuleAt ==
    ASSUME NEW ms, NEW S, NEW n \in Nat, NEW at, PickRule(ms, S, n, at)
    PROVE  /\ at[0] = <<>>
           /\ \A k \in 1..n : at[k] = IF k \in S THEN Append(at[k - 1], ms[k]) ELSE at[k - 1]
<1> DEFINE F(k) == IF k = 0 THEN <<>>
                   ELSE IF k \in S THEN Append(at[k - 1], ms[k]) ELSE at[k - 1]
<1>1. \A k \in 0..n : at[k] = F(k)
  <2>1. at = [k \in 0..n |-> F(k)]
    BY Zenon DEF PickRule
  <2> HIDE DEF F
  <2> QED
    BY <2>1
<1> QED
  BY <1>1

\* The prefix for k messages is right when the one before it is.
LEMMA PickToGrows ==
    ASSUME NEW M, NEW ms \in Seq(M), NEW S \in SUBSET (1..Len(ms)), NEW at,
           PickRule(ms, S, Len(ms), at),
           NEW k \in 1..Len(ms), PickTo(ms, S, at, M, k - 1)
    PROVE  PickTo(ms, S, at, M, k)
<1>1. at[k] = IF k \in S THEN Append(at[k - 1], ms[k]) ELSE at[k - 1]
  BY PickRuleAt
<1> DEFINE s == at[k - 1]
           u == at[k]
<1>2. s \in Seq(M) /\ Len(s) \in Nat /\ ms[k] \in M
  BY DEF PickTo
<1>3. \A i \in S : i \in Int /\ (i <= k <=> i <= k - 1 \/ i = k) /\ (i < k <=> i <= k - 1)
  OBVIOUS
<1>4. \A i \in S : i <= k - 1 => Len(at[i]) \in 1..Len(s) /\ s[Len(at[i])] = ms[i]
  BY DEF PickTo
<1>5. \A p \in 1..Len(s) : \E i \in S : i <= k - 1 /\ Len(at[i]) = p
  BY DEF PickTo
<1>6. CASE k \notin S
  <2>1. u = s
    BY <1>1, <1>6
  <2> HIDE DEF s, u
  <2>2. \A i \in S : i <= k => Len(at[i]) \in 1..Len(u) /\ u[Len(at[i])] = ms[i]
    BY <1>3, <1>4, <1>6, <2>1
  <2>3. \A p \in 1..Len(u) : \E i \in S : i <= k /\ Len(at[i]) = p
    BY <1>3, <1>5, <1>6, <2>1
  <2> QED
    BY <1>2, <1>6, <2>1, <2>2, <2>3 DEF PickTo, u
<1>7. CASE k \in S
  <2>1. u = Append(s, ms[k])
    BY <1>1, <1>7
  <2>2. u = at[k]
    OBVIOUS
  <2> HIDE DEF s, u
  <2>3. /\ u \in Seq(M) /\ Len(u) = Len(s) + 1
        /\ \A p \in 1..Len(s) : u[p] = s[p]
        /\ u[Len(u)] = ms[k]
    BY <1>2, <2>1
  <2>4. ASSUME NEW i \in S, i <= k PROVE Len(at[i]) \in 1..Len(u) /\ u[Len(at[i])] = ms[i]
    <3>1. CASE i = k
      BY <1>2, <2>2, <2>3, <3>1
    <3>2. CASE i <= k - 1
      BY <1>2, <1>4, <2>3, <3>2
    <3> QED
      BY <1>3, <2>4, <3>1, <3>2
  <2>5. ASSUME NEW i \in S, i < k PROVE Len(at[i]) < Len(u)
    BY <1>2, <1>3, <1>4, <2>3, <2>5
  <2>6. ASSUME NEW p \in 1..Len(u) PROVE \E i \in S : i <= k /\ Len(at[i]) = p
    <3>1. CASE p = Len(u)
      BY <1>7, <2>2, <3>1
    <3>2. CASE p # Len(u)
      <4>1. p \in 1..Len(s)
        BY <1>2, <2>3, <3>2
      <4> QED
        BY <1>3, <1>5, <4>1
    <3> QED
      BY <3>1, <3>2
  <2> QED
    BY <2>2, <2>3, <2>4, <2>5, <2>6 DEF PickTo
<1> QED
  BY <1>6, <1>7

\* Every prefix is right: there is no first one that is wrong.
LEMMA PickToAll ==
    ASSUME NEW M, NEW ms \in Seq(M), NEW S \in SUBSET (1..Len(ms)), NEW at,
           PickRule(ms, S, Len(ms), at)
    PROVE  \A k \in 0..Len(ms) : PickTo(ms, S, at, M, k)
<1> DEFINE Bad == {k \in 0..Len(ms) : ~ PickTo(ms, S, at, M, k)}
<1>1. SUFFICES ASSUME Bad # {} PROVE FALSE
  OBVIOUS
<1>2. PICK m \in Bad : \A k \in Bad : m <= k
  <2>1. Bad \in SUBSET Nat
    OBVIOUS
  <2> HIDE DEF Bad
  <2> QED
    BY <1>1, <2>1, LeastNat
<1>3. CASE m = 0
  <2>1. at[0] = <<>>
    <3>1. Len(ms) \in Nat
      OBVIOUS
    <3> QED
      BY <3>1, PickRuleAt
  <2>2. \A i \in S : i \in Int /\ ~ (i <= 0)
    OBVIOUS
  <2>3. <<>> \in Seq(M) /\ Len(<<>>) = 0
    OBVIOUS
  <2>4. PickTo(ms, S, at, M, 0)
    <3>1. at[0] \in Seq(M) /\ Len(at[0]) = 0
      BY <2>1, <2>3, Zenon
    <3>2. 0 \notin S /\ \A i \in S : ~ (i <= 0)
      BY <2>2
    <3>3. \A p \in 1..Len(at[0]) : FALSE
      BY <3>1
    <3> QED
      BY <3>1, <3>2, <3>3, Zenon DEF PickTo
  <2> QED
    BY <1>3, <2>4
<1>4. CASE m # 0
  <2>1. m \in 1..Len(ms) /\ m - 1 \in 0..Len(ms) /\ m - 1 \notin Bad
    BY <1>2, <1>4
  <2>2. PickTo(ms, S, at, M, m - 1)
    BY <2>1
  <2> QED
    BY <2>1, <2>2, PickToGrows
<1> QED
  BY <1>3, <1>4

\* Pick(ms, S) holds the messages S of ms, all of them, once and in their order.
LEMMA PickEmbeds ==
    ASSUME NEW M, NEW ms \in Seq(M), NEW S \in SUBSET (1..Len(ms))
    PROVE  /\ Pick(ms, S) \in Seq(M)
           /\ \E h : Embeds(ms, S, Pick(ms, S), 1..Len(Pick(ms, S)), h)
<1>0. Len(ms) \in Nat
  OBVIOUS
<1>1. PICK at : PickRule(ms, S, Len(ms), at) /\ Pick(ms, S) = at[Len(ms)]
  BY <1>0, PickIs
<1>2. \A k \in 0..Len(ms) : PickTo(ms, S, at, M, k)
  BY <1>1, PickToAll
<1> DEFINE ns == at[Len(ms)]
           h  == [i \in S |-> Len(at[i])]
<1>3. PickTo(ms, S, at, M, Len(ms))
  BY <1>0, <1>2
<1>4. \A i \in S : i <= Len(ms) /\ i \in 0..Len(ms) /\ i \in Int
  BY <1>0
<1>5. \A i \in S : h[i] \in 1..Len(ns) /\ ns[h[i]] = ms[i]
  BY <1>3, <1>4 DEF PickTo
<1>6. ASSUME NEW i \in S, NEW j \in S, i < j PROVE h[i] < h[j]
  <2>1. PickTo(ms, S, at, M, j)
    BY <1>2, <1>4
  <2> QED
    BY <2>1, <1>6 DEF PickTo
<1>7. \A k \in 1..Len(ns) : \E i \in S : h[i] = k
  BY <1>3 DEF PickTo
<1>8. ns \in Seq(M)
  BY <1>3 DEF PickTo
<1> HIDE DEF h
<1>9. Embeds(ms, S, ns, 1..Len(ns), h)
  BY <1>5, <1>6, <1>7 DEF Embeds
<1> QED
  BY <1>1, <1>8, <1>9

-----------------------------------------------------------------------------
(* The whole list.  Each part is about the messages of ms at the indices S, so that *)
(* it can be carried from a list to what a compaction keeps of it.                  *)

\* A message of the chat.
Message == [role : {"user", "harness", "assistant", "tool"}, ids : SUBSET Int,
            bad : BOOLEAN, pinned : BOOLEAN]

\* Between j and k stands no user and no assistant message.
Quiet(ms, S, j, k) ==
    \A l \in S : j < l /\ l < k => ms[l].role \notin {"user", "assistant"}

\* A result follows its call, and the call begins the work the result is of.
Called(ms, S) ==
    \A k \in S : ms[k].role = "tool" =>
        \E j \in S : /\ j < k /\ ms[j].role = "assistant" /\ ms[k].ids \subseteq ms[j].ids
                     /\ Quiet(ms, S, j, k)

\* Every call has its result, before anyone speaks again.
Replied(ms, S) ==
    \A k \in S : ms[k].role = "assistant" =>
        \A id \in ms[k].ids :
            \E j \in S : /\ k < j /\ ms[j].role = "tool" /\ ms[j].ids = {id}
                         /\ Quiet(ms, S, k, j)

\* No two messages make the same call.
Separate(ms, S) ==
    \A j, k \in S : ms[j].role = "assistant" /\ ms[k].role = "assistant" /\ j # k =>
        ms[j].ids \cap ms[k].ids = {}

\* One message is pinned, the task, and no user message stands before it.
Tasked(ms, S) ==
    \E p \in S : /\ ms[p].pinned /\ ms[p].role = "user"
                 /\ \A k \in S : (ms[k].role = "user" => p <= k) /\ (ms[k].pinned => k = p)

\* Only a message that calls is malformed, and a result is what Result makes.
Shaped(ms, S) ==
    \A k \in S : /\ ms[k] \in Message
                 /\ ms[k].bad => ms[k].role = "assistant"
                 /\ ms[k].role = "tool" => \E id \in Int : ms[k] = Result(id)

\* There are n user messages.
UsersOf(ms, S) == {k \in S : ms[k].role = "user"}
Counted(ms, S, n) == IsFiniteSet(UsersOf(ms, S)) /\ Cardinality(UsersOf(ms, S)) = n

\* The calls made so far have ids up to b.
Below(ms, S, b) ==
    \A k \in S : ms[k].role = "assistant" => \A id \in ms[k].ids : id <= b

WholeOn(ms, S, n, b) ==
    /\ Called(ms, S) /\ Replied(ms, S) /\ Separate(ms, S) /\ Tasked(ms, S)
    /\ Shaped(ms, S) /\ Counted(ms, S, n) /\ Below(ms, S, b)

\* What Embeds means for a pair of indices.
Ordered(ms, S, ns, T, h) ==
    /\ \A i \in S : h[i] \in T /\ h[i] \in Int /\ i \in Int /\ ns[h[i]] = ms[i]
    /\ \A i, j \in S : /\ (i < j) <=> (h[i] < h[j])
                       /\ (i <= j) <=> (h[i] <= h[j])
                       /\ (i = j) <=> (h[i] = h[j])
    /\ \A k \in T : \E i \in S : h[i] = k

\* An order-preserving embedding reflects the order too.
LEMMA EmbedsOrder ==
    ASSUME NEW ms, NEW S \in SUBSET Int, NEW ns, NEW T \in SUBSET Int, NEW h,
           Embeds(ms, S, ns, T, h)
    PROVE  Ordered(ms, S, ns, T, h)
<1>1. \A i \in S : h[i] \in T /\ h[i] \in Int /\ i \in Int /\ ns[h[i]] = ms[i]
  BY DEF Embeds
<1>2. \A i, j \in S : i < j => h[i] < h[j]
  BY DEF Embeds
<1>3. \A k \in T : \E i \in S : h[i] = k
  BY DEF Embeds
<1>4. ASSUME NEW i \in S, NEW j \in S
      PROVE  (i < j <=> h[i] < h[j]) /\ (i <= j <=> h[i] <= h[j]) /\ (i = j <=> h[i] = h[j])
  <2>1. i \in Int /\ j \in Int /\ h[i] \in Int /\ h[j] \in Int
    BY <1>1
  <2>2. (i < j => h[i] < h[j]) /\ (j < i => h[j] < h[i]) /\ (i = j => h[i] = h[j])
    BY <1>2
  <2> QED
    BY <2>1, <2>2
<1> QED
  BY <1>1, <1>3, <1>4 DEF Ordered

\* What is quiet in the one list is quiet in the other.
LEMMA EmbedsQuiet ==
    ASSUME NEW ms, NEW S \in SUBSET Int, NEW ns, NEW T \in SUBSET Int, NEW h,
           Embeds(ms, S, ns, T, h), NEW j \in S, NEW k \in S, Quiet(ms, S, j, k)
    PROVE  Quiet(ns, T, h[j], h[k])
<1>0. Ordered(ms, S, ns, T, h)
  BY EmbedsOrder
<1>1. ASSUME NEW l \in T, h[j] < l, l < h[k] PROVE ns[l].role \notin {"user", "assistant"}
  <2>1. PICK i \in S : h[i] = l
    BY <1>0 DEF Ordered
  <2>2. j < i /\ i < k /\ ns[l] = ms[i]
    BY <1>1, <2>1, <1>0 DEF Ordered
  <2> QED
    BY <2>2 DEF Quiet
<1> QED
  BY <1>1 DEF Quiet

\* Both lists have the same number of user messages.
LEMMA EmbedsCount ==
    ASSUME NEW ms, NEW S \in SUBSET Int, NEW ns, NEW T \in SUBSET Int, NEW h,
           Embeds(ms, S, ns, T, h), NEW n, Counted(ms, S, n)
    PROVE  Counted(ns, T, n)
<1>0. Ordered(ms, S, ns, T, h)
  BY EmbedsOrder
<1> DEFINE f == [i \in UsersOf(ms, S) |-> h[i]]
<1>1. f \in [UsersOf(ms, S) -> UsersOf(ns, T)]
  BY <1>0 DEF Ordered, UsersOf
<1>2. \A i, j \in UsersOf(ms, S) : f[i] = f[j] => i = j
  BY <1>0 DEF Ordered, UsersOf
<1>3. \A k \in UsersOf(ns, T) : \E i \in UsersOf(ms, S) : f[i] = k
  <2>1. ASSUME NEW k \in UsersOf(ns, T) PROVE \E i \in UsersOf(ms, S) : f[i] = k
    <3>1. k \in T /\ ns[k].role = "user"
      BY DEF UsersOf
    <3>2. PICK i \in S : h[i] = k
      BY <3>1, <1>0 DEF Ordered
    <3>3. i \in UsersOf(ms, S)
      BY <3>1, <3>2, <1>0 DEF Ordered, UsersOf
    <3> QED
      BY <3>2, <3>3
  <2> QED
    BY <2>1
<1> HIDE DEF f
<1>4. ExistsBijection(UsersOf(ms, S), UsersOf(ns, T))
  <2>1. f \in Injection(UsersOf(ms, S), UsersOf(ns, T))
    BY <1>1, <1>2 DEF Injection, IsInjective
  <2>2. f \in Surjection(UsersOf(ms, S), UsersOf(ns, T))
    BY <1>1, <1>3 DEF Surjection
  <2> QED
    BY <2>1, <2>2, Zenon DEF ExistsBijection, Bijection
<1> QED
  BY <1>4, FS_Bijection DEF Counted

\* A list is whole when the part it was embedded from is.
LEMMA EmbedsWhole ==
    ASSUME NEW ms, NEW S \in SUBSET Int, NEW ns, NEW T \in SUBSET Int, NEW h,
           Embeds(ms, S, ns, T, h), NEW n, NEW b, WholeOn(ms, S, n, b)
    PROVE  WholeOn(ns, T, n, b)
<1>0. Ordered(ms, S, ns, T, h)
  BY EmbedsOrder
<1>1. Called(ns, T)
  <2>1. ASSUME NEW k \in T, ns[k].role = "tool"
        PROVE  \E j \in T : /\ j < k /\ ns[j].role = "assistant" /\ ns[k].ids \subseteq ns[j].ids
                            /\ Quiet(ns, T, j, k)
    <3>1. PICK i \in S : h[i] = k
      BY <1>0 DEF Ordered
    <3>2. ns[k] = ms[i] /\ ms[i].role = "tool"
      BY <2>1, <3>1, <1>0 DEF Ordered
    <3>3. PICK j \in S : /\ j < i /\ ms[j].role = "assistant" /\ ms[i].ids \subseteq ms[j].ids
                         /\ Quiet(ms, S, j, i)
      BY <3>2 DEF WholeOn, Called
    <3>4. h[j] \in T /\ h[j] < k /\ ns[h[j]] = ms[j]
      BY <3>1, <3>3, <1>0 DEF Ordered
    <3>5. Quiet(ns, T, h[j], k)
      BY <3>1, <3>3, EmbedsQuiet
    <3> QED
      BY <3>2, <3>3, <3>4, <3>5
  <2> QED
    BY <2>1 DEF Called
<1>2. Replied(ns, T)
  <2>1. ASSUME NEW k \in T, ns[k].role = "assistant", NEW id \in ns[k].ids
        PROVE  \E j \in T : /\ k < j /\ ns[j].role = "tool" /\ ns[j].ids = {id}
                            /\ Quiet(ns, T, k, j)
    <3>1. PICK i \in S : h[i] = k
      BY <1>0 DEF Ordered
    <3>2. ns[k] = ms[i] /\ ms[i].role = "assistant" /\ id \in ms[i].ids
      BY <2>1, <3>1, <1>0 DEF Ordered
    <3>3. PICK j \in S : /\ i < j /\ ms[j].role = "tool" /\ ms[j].ids = {id}
                         /\ Quiet(ms, S, i, j)
      BY <3>2 DEF WholeOn, Replied
    <3>4. h[j] \in T /\ k < h[j] /\ ns[h[j]] = ms[j]
      BY <3>1, <3>3, <1>0 DEF Ordered
    <3>5. Quiet(ns, T, k, h[j])
      BY <3>1, <3>3, EmbedsQuiet
    <3> QED
      BY <3>2, <3>3, <3>4, <3>5
  <2> QED
    BY <2>1 DEF Replied
<1>3. Separate(ns, T)
  <2>1. ASSUME NEW j \in T, NEW k \in T, ns[j].role = "assistant", ns[k].role = "assistant", j # k
        PROVE  ns[j].ids \cap ns[k].ids = {}
    <3>1. PICK i \in S : h[i] = j
      BY <1>0 DEF Ordered
    <3>2. PICK l \in S : h[l] = k
      BY <1>0 DEF Ordered
    <3>3. ns[j] = ms[i] /\ ns[k] = ms[l] /\ i # l
      BY <2>1, <3>1, <3>2, <1>0 DEF Ordered
    <3> QED
      BY <2>1, <3>3 DEF WholeOn, Separate
  <2> QED
    BY <2>1 DEF Separate
<1>4. Tasked(ns, T)
  <2>1. PICK p \in S : /\ ms[p].pinned /\ ms[p].role = "user"
                 /\ \A k \in S : (ms[k].role = "user" => p <= k) /\ (ms[k].pinned => k = p)
    BY DEF WholeOn, Tasked
  <2>2. h[p] \in T /\ ns[h[p]] = ms[p]
    BY <1>0 DEF Ordered
  <2>3. ASSUME NEW k \in T
        PROVE  (ns[k].role = "user" => h[p] <= k) /\ (ns[k].pinned => k = h[p])
    <3>1. PICK i \in S : h[i] = k
      BY <1>0 DEF Ordered
    <3>2. ns[k] = ms[i]
      BY <3>1, <1>0 DEF Ordered
    <3> QED
      BY <2>1, <3>1, <3>2, <1>0 DEF Ordered
  <2> QED
    BY <2>1, <2>2, <2>3 DEF Tasked
<1>5. Shaped(ns, T)
  <2>1. ASSUME NEW k \in T
        PROVE  \E i \in S : ns[k] = ms[i]
    <3>1. PICK i \in S : h[i] = k
      BY <1>0 DEF Ordered
    <3> QED
      BY <3>1, <1>0 DEF Ordered
  <2> QED
    BY <2>1 DEF WholeOn, Shaped
<1>6. Counted(ns, T, n)
  BY EmbedsCount DEF WholeOn
<1>7. Below(ns, T, b)
  <2>1. ASSUME NEW k \in T
        PROVE  \E i \in S : ns[k] = ms[i]
    <3>1. PICK i \in S : h[i] = k
      BY <1>0 DEF Ordered
    <3> QED
      BY <3>1, <1>0 DEF Ordered
  <2> QED
    BY <2>1 DEF WholeOn, Below
<1> QED
  BY <1>1, <1>2, <1>3, <1>4, <1>5, <1>6, <1>7 DEF WholeOn

\* The whole list, with n user messages and ids up to b.
Whole(ms, n, b) == ms \in Seq(Message) /\ WholeOn(ms, 1..Len(ms), n, b)

\* What Pick keeps is whole when the kept part was.
LEMMA PickWhole ==
    ASSUME NEW ms \in Seq(Message), NEW S \in SUBSET (1..Len(ms)), NEW n, NEW b,
           WholeOn(ms, S, n, b)
    PROVE  Whole(Pick(ms, S), n, b)
<1> DEFINE ns == Pick(ms, S)
<1>1. ns \in Seq(Message) /\ \E h : Embeds(ms, S, ns, 1..Len(ns), h)
  BY PickEmbeds
<1>2. S \in SUBSET Int
  OBVIOUS
<1> HIDE DEF ns
<1>3. 1..Len(ns) \in SUBSET Int
  BY <1>1
<1>4. WholeOn(ns, 1..Len(ns), n, b)
  BY <1>1, <1>2, <1>3, EmbedsWhole
<1> QED
  BY <1>1, <1>4 DEF Whole, ns

\* Wholeness of a part looks at no message outside it.
LEMMA AgreeWhole ==
    ASSUME NEW ms, NEW ns, NEW S \in SUBSET Int, NEW n, NEW b,
           WholeOn(ms, S, n, b), \A k \in S : ns[k] = ms[k]
    PROVE  WholeOn(ns, S, n, b)
<1> DEFINE h == [k \in S |-> k]
<1>1. Embeds(ms, S, ns, S, h)
  BY DEF Embeds
<1> HIDE DEF h
<1> QED
  BY <1>1, EmbedsWhole

\* A greater bound on the ids.
LEMMA LooserWhole ==
    ASSUME NEW ms, NEW S, NEW n, NEW b \in Int, NEW c \in Int, b <= c, WholeOn(ms, S, n, b)
    PROVE  WholeOn(ms, S, n, c)
<1>1. ASSUME NEW k \in S, ms[k].role = "assistant", NEW id \in ms[k].ids PROVE id <= c
  <2>1. id \in Int
    BY DEF WholeOn, Shaped, Message
  <2>2. id <= b
    BY <1>1 DEF WholeOn, Below
  <2> QED
    BY <2>1, <2>2
<1> QED
  BY <1>1 DEF WholeOn, Below

\* A message that makes no call and answers none, and a place where it may stand.
Plain(m) == m \in Message /\ m.ids = {} /\ ~ m.pinned /\ ~ m.bad /\ m.role # "tool"
Fits(m, S, e) == m.role = "harness" \/ \A k \in S : k < e

\* One more message, at the end or a line of the harness anywhere, disturbs no pair.
LEMMA AddQuiet ==
    ASSUME NEW ms, NEW S \in SUBSET Int, NEW e \in Int, e \notin S, Fits(ms[e], S, e),
           NEW j \in S, NEW k \in S, Quiet(ms, S, j, k)
    PROVE  Quiet(ms, S \cup {e}, j, k)
<1>1. ASSUME e < k PROVE ms[e].role \notin {"user", "assistant"}
  <2>1. k \in Int
    OBVIOUS
  <2> QED
    BY <1>1, <2>1 DEF Fits
<1> QED
  BY <1>1 DEF Quiet

\* A message without calls keeps the list whole.
LEMMA AddWhole ==
    ASSUME NEW ms, NEW S \in SUBSET Int, NEW e \in Int, NEW n \in Nat, NEW b, e \notin S,
           Plain(ms[e]), Fits(ms[e], S, e), WholeOn(ms, S, n, b)
    PROVE  WholeOn(ms, S \cup {e}, IF ms[e].role = "user" THEN n + 1 ELSE n, b)
<1> DEFINE T == S \cup {e}
<1>1. Called(ms, T)
  <2>1. ASSUME NEW k \in T, ms[k].role = "tool"
        PROVE  \E j \in T : /\ j < k /\ ms[j].role = "assistant" /\ ms[k].ids \subseteq ms[j].ids
                            /\ Quiet(ms, T, j, k)
    <3>1. k \in S
      BY <2>1 DEF Plain
    <3>2. PICK j \in S : /\ j < k /\ ms[j].role = "assistant" /\ ms[k].ids \subseteq ms[j].ids
                         /\ Quiet(ms, S, j, k)
      BY <2>1, <3>1 DEF WholeOn, Called
    <3>3. Quiet(ms, T, j, k)
      BY <3>1, <3>2, AddQuiet
    <3> QED
      BY <3>2, <3>3
  <2> HIDE DEF T
  <2> QED
    BY <2>1 DEF Called
<1>2. Replied(ms, T)
  <2>1. ASSUME NEW k \in T, ms[k].role = "assistant", NEW id \in ms[k].ids
        PROVE  \E j \in T : k < j /\ ms[j].role = "tool" /\ ms[j].ids = {id} /\ Quiet(ms, T, k, j)
    <3>1. k \in S
      BY <2>1 DEF Plain
    <3>2. PICK j \in S : k < j /\ ms[j].role = "tool" /\ ms[j].ids = {id} /\ Quiet(ms, S, k, j)
      BY <2>1, <3>1 DEF WholeOn, Replied
    <3>3. Quiet(ms, T, k, j)
      BY <3>1, <3>2, AddQuiet
    <3> QED
      BY <3>2, <3>3
  <2> HIDE DEF T
  <2> QED
    BY <2>1 DEF Replied
<1>3. Separate(ms, T)
  <2>1. ASSUME NEW j \in T, NEW k \in T, ms[j].role = "assistant", ms[k].role = "assistant", j # k
        PROVE  ms[j].ids \cap ms[k].ids = {}
    <3>1. CASE j = e \/ k = e
      BY <3>1 DEF Plain
    <3>2. CASE j \in S /\ k \in S
      BY <2>1, <3>2 DEF WholeOn, Separate
    <3> QED
      BY <3>1, <3>2
  <2> HIDE DEF T
  <2> QED
    BY <2>1 DEF Separate
<1>4. Tasked(ms, T)
  <2>1. PICK p \in S : /\ ms[p].pinned /\ ms[p].role = "user"
                 /\ \A k \in S : (ms[k].role = "user" => p <= k) /\ (ms[k].pinned => k = p)
    BY DEF WholeOn, Tasked
  <2>2. ms[e].role = "user" => p <= e
    BY DEF Fits
  <2> QED
    BY <2>1, <2>2 DEF Tasked, Plain
<1>5. Shaped(ms, T)
  BY DEF WholeOn, Shaped, Plain
<1>6. Counted(ms, T, IF ms[e].role = "user" THEN n + 1 ELSE n)
  <2>0. IsFiniteSet(UsersOf(ms, S)) /\ Cardinality(UsersOf(ms, S)) = n
    BY DEF WholeOn, Counted
  <2>1. CASE ms[e].role = "user"
    <3>1. UsersOf(ms, T) = UsersOf(ms, S) \cup {e} /\ e \notin UsersOf(ms, S)
      BY <2>1 DEF UsersOf
    <3> QED
      <4>1. /\ IsFiniteSet(UsersOf(ms, S) \cup {e})
            /\ Cardinality(UsersOf(ms, S) \cup {e}) = Cardinality(UsersOf(ms, S)) + 1
        BY <2>0, <3>1, FS_AddElement
      <4> HIDE DEF T
      <4> QED
        BY <2>0, <2>1, <3>1, <4>1 DEF Counted
  <2>2. CASE ms[e].role # "user"
    <3>1. UsersOf(ms, T) = UsersOf(ms, S)
      BY <2>2 DEF UsersOf
    <3> QED
      BY <2>0, <2>2, <3>1 DEF Counted
  <2> QED
    BY <2>1, <2>2
<1>7. Below(ms, T, b)
  BY DEF WholeOn, Below, Plain
<1> QED
  BY <1>1, <1>2, <1>3, <1>4, <1>5, <1>6, <1>7 DEF WholeOn

\* What the user, the harness and the model's text make.
LEMMA PlainMessages ==
    /\ Plain(User) /\ Plain(Harness) /\ Plain(Text)
    /\ User.role = "user" /\ Harness.role = "harness" /\ Text.role = "assistant"
  BY DEF Plain, Message, User, Harness, Text

\* A message without calls may be appended.
LEMMA AppendWhole ==
    ASSUME NEW ms, NEW n \in Nat, NEW b, NEW m, Whole(ms, n, b), Plain(m)
    PROVE  Whole(Append(ms, m), IF m.role = "user" THEN n + 1 ELSE n, b)
<1> DEFINE ns == Append(ms, m)
           S  == 1..Len(ms)
           e  == Len(ms) + 1
<1>1. /\ ns \in Seq(Message) /\ Len(ns) = e /\ Len(ms) \in Nat
      /\ ns[e] = m /\ \A k \in S : ns[k] = ms[k]
  BY DEF Whole, Plain
<1>2. S \in SUBSET Int /\ e \in Int /\ e \notin S /\ (\A k \in S : k < e) /\ 1..Len(ns) = S \cup {e}
  BY <1>1
<1>3. WholeOn(ms, S, n, b)
  BY DEF Whole
<1> HIDE DEF ns, S, e
<1>4. WholeOn(ns, S, n, b)
  BY <1>1, <1>2, <1>3, AgreeWhole
<1>5. WholeOn(ns, S \cup {e}, IF m.role = "user" THEN n + 1 ELSE n, b)
  BY <1>1, <1>2, <1>4, AddWhole DEF Fits
<1> QED
  BY <1>1, <1>2, <1>5 DEF Whole, ns

\* appendHarnessLine keeps the list whole.
LEMMA SayWhole ==
    ASSUME NEW ms, NEW n \in Nat, NEW b, Whole(ms, n, b)
    PROVE  Whole(Say(ms), n, b)
  BY AppendWhole, PlainMessages DEF Say

\* So does the summary in front of it.
LEMMA ConsWhole ==
    ASSUME NEW ms, NEW n \in Nat, NEW b, Whole(ms, n, b)
    PROVE  Whole(<<Harness>> \o ms, n, b)
<1> DEFINE ns == <<Harness>> \o ms
           S  == 1..Len(ms)
           T  == 2..(Len(ms) + 1)
           h  == [k \in S |-> k + 1]
<1>0. Harness \in Message /\ ms \in Seq(Message) /\ Len(ms) \in Nat
  BY PlainMessages DEF Whole, Plain
<1>1. /\ ns \in Seq(Message) /\ Len(ns) = Len(ms) + 1
      /\ ns[1] = Harness /\ \A k \in S : ns[k + 1] = ms[k]
  BY <1>0
<1>2. Embeds(ms, S, ns, T, h)
  <2> HIDE DEF ns
  <2>1. \A k \in T : k - 1 \in S /\ h[k - 1] = k
    BY <1>0
  <2>2. \A k \in S : h[k] \in T /\ ns[h[k]] = ms[k]
    BY <1>0, <1>1
  <2>3. \A j, k \in S : j < k => h[j] < h[k]
    BY <1>0
  <2> HIDE DEF S, T, h
  <2> QED
    BY <2>1, <2>2, <2>3 DEF Embeds
<1>3. /\ S \in SUBSET Int /\ T \in SUBSET Int /\ 1 \notin T
      /\ 1..Len(ns) = T \cup {1}
  BY <1>0, <1>1
<1>4. WholeOn(ms, S, n, b)
  BY DEF Whole
<1> HIDE DEF ns, S, T, h
<1>5. WholeOn(ns, T, n, b)
  BY <1>2, <1>3, <1>4, EmbedsWhole
<1>6. Fits(ns[1], T, 1) /\ Plain(ns[1]) /\ ns[1].role # "user"
  BY <1>1, PlainMessages DEF Fits
<1>7. WholeOn(ns, T \cup {1}, n, b)
  <2>1. WholeOn(ns, T \cup {1}, IF ns[1].role = "user" THEN n + 1 ELSE n, b)
    <3>1. 1 \in Int /\ 1 \notin T
      BY <1>3
    <3> QED
      BY <3>1, <1>3, <1>5, <1>6, AddWhole, Zenon
  <2> QED
    BY <2>1, <1>6
<1> QED
  BY <1>1, <1>3, <1>7 DEF Whole, ns

-----------------------------------------------------------------------------
(* Compaction, repair and the answer *)

\* A non-empty set of indices has a newest one.
LEMMA NewestIn ==
    ASSUME NEW N \in Nat, NEW S \in SUBSET (1..N), S # {}
    PROVE  Newest(S) \in S
<1> DEFINE T == {t \in Nat : N - t \in S}
<1>1. \A k \in S : k \in Int /\ k <= N /\ N - k \in Nat /\ N - (N - k) = k
  OBVIOUS
<1>2. T \in SUBSET Nat /\ \A k \in S : N - k \in T
  BY <1>1
<1>3. PICK t \in T : \A u \in T : t <= u
  <2>1. T # {}
    BY <1>2
  <2> HIDE DEF T
  <2> QED
    BY <1>2, <2>1, LeastNat
<1>4. N - t \in S
  OBVIOUS
<1>5. ASSUME NEW k \in S PROVE k <= N - t
  <2>1. t \in Int /\ k \in Int
    BY <1>1
  <2>2. N - k \in T
    BY <1>2
  <2>3. t <= N - k
    BY <1>3, <2>2
  <2> QED
    BY <2>1, <2>3
<1>6. \E m \in S : \A k \in S : k <= m
  BY <1>4, <1>5
<1> QED
  BY <1>6, Zenon DEF Newest

\* PinIndex finds the task: it is the one pinned message, and no user message stands
\* before it.
LEMMA PinIs ==
    ASSUME NEW ms \in Seq(Message), NEW n, NEW b, WholeOn(ms, 1..Len(ms), n, b)
    PROVE  /\ PinIndex(ms) \in 1..Len(ms)
           /\ ms[PinIndex(ms)].pinned /\ ms[PinIndex(ms)].role = "user"
           /\ \A k \in 1..Len(ms) : /\ ms[k].role = "user" => PinIndex(ms) <= k
                                    /\ ms[k].pinned => k = PinIndex(ms)
<1> DEFINE D == 1..Len(ms)
<1>1. DOMAIN ms = D
  OBVIOUS
<1>2. PICK p \in D : /\ ms[p].pinned /\ ms[p].role = "user"
                 /\ \A k \in D : (ms[k].role = "user" => p <= k) /\ (ms[k].pinned => k = p)
  BY DEF WholeOn, Tasked
<1> HIDE DEF D
<1>3. PinIndex(ms) = p
  BY <1>1, <1>2, Zenon DEF PinIndex
<1> QED
  BY <1>2, <1>3 DEF D

\* Fewer messages are no less quiet.
LEMMA SubQuiet ==
    ASSUME NEW ms, NEW D, NEW S \in SUBSET D, NEW j, NEW k, Quiet(ms, D, j, k)
    PROVE  Quiet(ms, S, j, k)
  BY DEF Quiet

\* A result in a span answers the call the span begins with: the call would otherwise
\* end the span, or stand before the user message in front of it.
LEMMA SpanCaller ==
    ASSUME NEW ms \in Seq(Message), NEW n, NEW b, WholeOn(ms, 1..Len(ms), n, b),
           NEW a \in SpanBegins(ms), NEW k \in Span(ms, a), NEW j \in 1..Len(ms),
           ms[k].role = "tool", j < k, ms[j].role = "assistant", Quiet(ms, 1..Len(ms), j, k)
    PROVE  j = a
<1> DEFINE L == Len(ms)
           p == PinIndex(ms)
<1>0. L \in Nat /\ p \in 1..L /\ ms[p].role = "user"
  BY PinIs
<1> HIDE DEF p
<1>1. /\ a \in p..L /\ ms[a].role # "user"
      /\ a = p \/ ms[a].role = "assistant" \/ ms[a - 1].role = "user"
  BY DEF SpanBegins, p
<1>2. k \in a..L /\ \A i \in (a + 1)..k : ms[i].role \notin {"user", "assistant"}
  BY DEF Span
<1>3. a \in Int /\ k \in Int /\ j \in Int /\ 1 <= a /\ a <= k /\ k <= L /\ 1 <= j
  BY <1>0, <1>1, <1>2
<1>4. ~ (a < j)
  BY <1>2, <1>3
<1>5. ASSUME j < a PROVE FALSE
  <2>1. ms[a].role # "assistant"
    BY <1>5, <1>3 DEF Quiet
  <2>2. ms[a - 1].role = "user" /\ j # a - 1
    BY <1>0, <1>1, <2>1
  <2> QED
    BY <2>2, <1>3, <1>5 DEF Quiet
<1> QED
  BY <1>3, <1>4, <1>5

\* The user messages with any set of spans are whole: a span holds a call with all its
\* results or neither.
LEMMA SpansWhole ==
    ASSUME NEW ms \in Seq(Message), NEW n, NEW b, WholeOn(ms, 1..Len(ms), n, b),
           NEW B \in SUBSET SpanBegins(ms)
    PROVE  /\ KeepSpans(ms, B) \in SUBSET (1..Len(ms))
           /\ WholeOn(ms, KeepSpans(ms, B), n, b)
<1> DEFINE D == 1..Len(ms)
           S == KeepSpans(ms, B)
           p == PinIndex(ms)
<1>0. /\ Len(ms) \in Nat /\ p \in D /\ ms[p].pinned /\ ms[p].role = "user"
      /\ \A k \in D : (ms[k].role = "user" => p <= k) /\ (ms[k].pinned => k = p)
  BY PinIs
<1> HIDE DEF p
<1>1. \A a \in B : a \in D /\ ms[a].role # "user" /\ a \in Span(ms, a) /\ Span(ms, a) \subseteq D
  <2>1. ASSUME NEW a \in B
        PROVE  a \in D /\ ms[a].role # "user" /\ a \in Span(ms, a) /\ Span(ms, a) \subseteq D
    <3>1. a \in p..Len(ms) /\ ms[a].role # "user"
      BY DEF SpanBegins, p
    <3>2. a \in D /\ a \in Int
      BY <1>0, <3>1
    <3>3. Span(ms, a) \subseteq D
      BY <1>0, <3>2 DEF Span
    <3>4. a \in Span(ms, a)
      BY <1>0, <3>2 DEF Span
    <3> QED
      BY <3>1, <3>2, <3>3, <3>4
  <2> QED
    BY <2>1
<1>2. \A k \in D : ms[k].role = "user" => k \in S
  BY <1>0 DEF KeepSpans, Users, p
<1>3. \A k \in S : ms[k].role # "user" => \E a \in B : k \in Span(ms, a)
  BY DEF KeepSpans, Users
<1>4. S \in SUBSET D
  <2>1. Users(ms) \subseteq D
    BY <1>0 DEF Users, p
  <2> QED
    BY <2>1, <1>1 DEF KeepSpans
<1>5. \A a \in B : Span(ms, a) \subseteq S
  BY DEF KeepSpans
<1> HIDE DEF S, D
<1>6. Called(ms, S)
  <2>1. ASSUME NEW k \in S, ms[k].role = "tool"
        PROVE  \E j \in S : /\ j < k /\ ms[j].role = "assistant" /\ ms[k].ids \subseteq ms[j].ids
                            /\ Quiet(ms, S, j, k)
    <3>1. PICK a \in B : k \in Span(ms, a)
      BY <1>3, <2>1
    <3>2. PICK j \in D : /\ j < k /\ ms[j].role = "assistant" /\ ms[k].ids \subseteq ms[j].ids
                         /\ Quiet(ms, D, j, k)
      BY <1>4, <2>1 DEF WholeOn, Called, D
    <3>3. j = a
      BY <2>1, <3>1, <3>2, SpanCaller DEF D
    <3>4. j \in S
      BY <1>1, <1>5, <3>3
    <3>5. Quiet(ms, S, j, k)
      BY <1>4, <3>2, SubQuiet
    <3> QED
      BY <3>2, <3>4, <3>5
  <2> QED
    BY <2>1 DEF Called
<1>7. Replied(ms, S)
  <2>1. ASSUME NEW k \in S, ms[k].role = "assistant", NEW id \in ms[k].ids
        PROVE  \E j \in S : k < j /\ ms[j].role = "tool" /\ ms[j].ids = {id} /\ Quiet(ms, S, k, j)
    <3>1. PICK a \in B : k \in Span(ms, a)
      BY <1>3, <2>1
    <3>2. PICK j \in D : k < j /\ ms[j].role = "tool" /\ ms[j].ids = {id} /\ Quiet(ms, D, k, j)
      BY <1>4, <2>1 DEF WholeOn, Replied, D
    <3>3. k = a
      <4>1. /\ k \in a..Len(ms) /\ a \in Int
            /\ \A i \in (a + 1)..k : ms[i].role \notin {"user", "assistant"}
        BY <1>1, <3>1 DEF Span, D
      <4> QED
        BY <2>1, <4>1
    <3>4. j \in Span(ms, a)
      <4>1. a \in Int /\ 1 <= a /\ j \in Int /\ j \in 1..Len(ms)
        BY <1>1 DEF D
      <4>2. j \in a..Len(ms)
        BY <3>2, <3>3, <4>1
      <4>3. ASSUME NEW i \in (a + 1)..j PROVE ms[i].role \notin {"user", "assistant"}
        <5>1. CASE i = j
          BY <3>2, <5>1
        <5>2. CASE i # j
          <6>1. i \in D /\ k < i /\ i < j
            BY <3>3, <4>1, <5>2 DEF D
          <6> QED
            BY <3>2, <6>1 DEF Quiet
        <5> QED
          BY <5>1, <5>2
      <4> QED
        BY <4>2, <4>3 DEF Span
    <3>5. j \in S
      BY <1>5, <3>4
    <3>6. Quiet(ms, S, k, j)
      BY <1>4, <3>2, SubQuiet
    <3> QED
      BY <3>2, <3>5, <3>6
  <2> QED
    BY <2>1 DEF Replied
<1>8. Separate(ms, S) /\ Shaped(ms, S) /\ Below(ms, S, b)
  <2>1. Separate(ms, D) /\ Shaped(ms, D) /\ Below(ms, D, b)
    BY DEF WholeOn, D
  <2>2. Separate(ms, S)
    BY <1>4, <2>1 DEF Separate
  <2>3. Shaped(ms, S)
    BY <1>4, <2>1 DEF Shaped
  <2>4. Below(ms, S, b)
    BY <1>4, <2>1 DEF Below
  <2> QED
    BY <2>2, <2>3, <2>4
<1>9. Tasked(ms, S)
  BY <1>0, <1>2, <1>4 DEF Tasked
<1>10. Counted(ms, S, n)
  <2>1. UsersOf(ms, S) = UsersOf(ms, D)
    BY <1>2, <1>4 DEF UsersOf
  <2>2. Counted(ms, D, n)
    BY DEF WholeOn, D
  <2> QED
    BY <2>1, <2>2, Zenon DEF Counted
<1> QED
  BY <1>4, <1>6, <1>7, <1>8, <1>9, <1>10 DEF WholeOn, S, D

\* Compact keeps a whole list.
LEMMA CompactWhole ==
    ASSUME NEW ms, NEW n \in Nat, NEW b, Whole(ms, n, b), NEW keep \in Keeps(ms)
    PROVE  Whole(<<Harness>> \o Pick(ms, keep), n, b)
<1>1. \E B \in SUBSET SpanBegins(ms) : keep = KeepSpans(ms, B)
  <2>1. CASE SpanBegins(ms) = {}
    <3>1. keep = Users(ms)
      BY <2>1 DEF Keeps
    <3>2. keep = KeepSpans(ms, {})
      BY <3>1 DEF KeepSpans
    <3> QED
      BY <3>2
  <2>2. CASE SpanBegins(ms) # {}
    <3>1. PICK B \in SUBSET SpanBegins(ms) :
             keep = KeepSpans(ms, B \cup {Newest(SpanBegins(ms))})
      BY <2>2 DEF Keeps
    <3>2. Newest(SpanBegins(ms)) \in SpanBegins(ms)
      <4>1. Len(ms) \in Nat /\ PinIndex(ms) \in 1..Len(ms)
        BY PinIs DEF Whole
      <4>2. SpanBegins(ms) \in SUBSET (1..Len(ms))
        BY <4>1 DEF SpanBegins
      <4> QED
        BY <2>2, <4>1, <4>2, NewestIn
    <3>3. B \cup {Newest(SpanBegins(ms))} \in SUBSET SpanBegins(ms)
      BY <3>2
    <3> QED
      BY <3>1, <3>3
  <2> QED
    BY <2>1, <2>2
<1>2. keep \in SUBSET (1..Len(ms)) /\ WholeOn(ms, keep, n, b)
  BY <1>1, SpansWhole DEF Whole
<1>3. Whole(Pick(ms, keep), n, b)
  BY <1>2, PickWhole DEF Whole
<1> QED
  BY <1>3, ConsWhole

\* Taking the calls of one message away with their results leaves the others whole,
\* since no two messages make the same call.
LEMMA RepairedOn ==
    ASSUME NEW ms \in Seq(Message), NEW n, NEW b, WholeOn(ms, 1..Len(ms), n, b),
           NEW k \in 1..Len(ms), ms[k].role = "assistant",
           NEW ns \in Seq(Message), Len(ns) = Len(ms), ns[k] = Text,
           \A l \in 1..Len(ms) : l # k => ns[l] = ms[l],
           NEW S \in SUBSET (1..Len(ms)),
           \A l \in 1..Len(ms) :
              l \in S \/ l = k \/ (ms[l].role = "tool" /\ ms[l].ids \subseteq ms[k].ids),
           \A l \in S : ms[l].role = "tool" => ~ (ms[l].ids \subseteq ms[k].ids)
    PROVE  WholeOn(ns, S, n, b)
<1> DEFINE D == 1..Len(ms)
<1>0. /\ Called(ms, D) /\ Replied(ms, D) /\ Separate(ms, D) /\ Tasked(ms, D)
      /\ Shaped(ms, D) /\ Counted(ms, D, n) /\ Below(ms, D, b)
  BY DEF WholeOn
<1>1. \A l \in S : l \in D /\ l \in Int
  OBVIOUS
<1>2. \A l \in D : l # k => ns[l] = ms[l]
  OBVIOUS
<1>3. Text.role = "assistant" /\ Text.ids = {} /\ Text \in Message /\ ~ Text.pinned /\ ~ Text.bad
  BY PlainMessages DEF Plain
<1>4. \A l \in D : (ms[l].role # "tool" /\ l # k) => l \in S
  OBVIOUS
<1>5. k \in D
  OBVIOUS
<1> HIDE DEF D
<1>6. \A j \in S, l \in S : Quiet(ms, D, j, l) => Quiet(ns, S, j, l)
  BY <1>1, <1>2, <1>5 DEF Quiet
<1>7. Called(ns, S)
  <2>1. ASSUME NEW l \in S, ns[l].role = "tool"
        PROVE  \E j \in S : /\ j < l /\ ns[j].role = "assistant" /\ ns[l].ids \subseteq ns[j].ids
                            /\ Quiet(ns, S, j, l)
    <3>1. l # k /\ ns[l] = ms[l] /\ l \in D
      BY <1>1, <1>2, <1>3, <2>1
    <3>2. PICK j \in D : /\ j < l /\ ms[j].role = "assistant" /\ ms[l].ids \subseteq ms[j].ids
                         /\ Quiet(ms, D, j, l)
      BY <1>0, <2>1, <3>1 DEF Called
    <3>3. j # k
      BY <2>1, <3>1, <3>2
    <3>4. j \in S /\ ns[j] = ms[j]
      BY <1>2, <1>4, <3>2, <3>3
    <3>5. Quiet(ns, S, j, l)
      BY <1>6, <3>2, <3>4
    <3> QED
      BY <3>1, <3>2, <3>4, <3>5
  <2> QED
    BY <2>1 DEF Called
<1>8. Replied(ns, S)
  <2>1. ASSUME NEW l \in S, ns[l].role = "assistant", NEW id \in ns[l].ids
        PROVE  \E j \in S : l < j /\ ns[j].role = "tool" /\ ns[j].ids = {id} /\ Quiet(ns, S, l, j)
    <3>1. l # k /\ ns[l] = ms[l] /\ l \in D
      BY <1>1, <1>2, <1>3, <2>1
    <3>2. PICK j \in D : l < j /\ ms[j].role = "tool" /\ ms[j].ids = {id} /\ Quiet(ms, D, l, j)
      BY <1>0, <2>1, <3>1 DEF Replied
    <3>3. id \notin ms[k].ids
      BY <1>0, <1>5, <2>1, <3>1 DEF Separate
    <3>4. j # k /\ j \in S
      BY <3>2, <3>3 DEF D
    <3>5. ns[j] = ms[j]
      BY <1>2, <3>4
    <3>6. Quiet(ns, S, l, j)
      BY <1>6, <3>2, <3>4
    <3> QED
      BY <3>2, <3>4, <3>5, <3>6
  <2> QED
    BY <2>1 DEF Replied
<1>9. Separate(ns, S)
  <2>1. ASSUME NEW j \in S, NEW l \in S, ns[j].role = "assistant", ns[l].role = "assistant", j # l
        PROVE  ns[j].ids \cap ns[l].ids = {}
    <3>1. CASE j = k \/ l = k
      BY <1>3, <3>1
    <3>2. CASE j # k /\ l # k
      <4>1. ns[j] = ms[j] /\ ns[l] = ms[l] /\ j \in D /\ l \in D
        BY <1>1, <1>2, <3>2
      <4> QED
        BY <1>0, <2>1, <4>1 DEF Separate
    <3> QED
      BY <3>1, <3>2
  <2> QED
    BY <2>1 DEF Separate
<1>10. Tasked(ns, S)
  <2>1. PICK p \in D : /\ ms[p].pinned /\ ms[p].role = "user"
                 /\ \A l \in D : (ms[l].role = "user" => p <= l) /\ (ms[l].pinned => l = p)
    BY <1>0 DEF Tasked
  <2>2. p \in S /\ ns[p] = ms[p]
    BY <1>2, <1>4, <2>1
  <2>3. \A l \in S : (ns[l].role = "user" => p <= l) /\ (ns[l].pinned => l = p)
    <3>1. ASSUME NEW l \in S PROVE (ns[l].role = "user" => p <= l) /\ (ns[l].pinned => l = p)
      <4>1. CASE l = k
        BY <1>3, <4>1
      <4>2. CASE l # k
        BY <1>1, <1>2, <2>1, <4>2
      <4> QED
        BY <4>1, <4>2
    <3> QED
      BY <3>1
  <2> QED
    BY <2>1, <2>2, <2>3 DEF Tasked
<1>11. Shaped(ns, S) /\ Below(ns, S, b)
  <2>1. \A l \in S : ns[l] = Text \/ (ns[l] = ms[l] /\ l \in D)
    BY <1>1, <1>2
  <2>2. Shaped(ns, S)
    BY <1>0, <1>3, <2>1 DEF Shaped
  <2>3. Below(ns, S, b)
    BY <1>0, <1>3, <2>1 DEF Below
  <2> QED
    BY <2>2, <2>3
<1>12. Counted(ns, S, n)
  <2>1. UsersOf(ns, S) = UsersOf(ms, D)
    <3>1. ASSUME NEW l \in UsersOf(ns, S) PROVE l \in UsersOf(ms, D)
      BY <1>1, <1>2, <1>3 DEF UsersOf
    <3>2. ASSUME NEW l \in UsersOf(ms, D) PROVE l \in UsersOf(ns, S)
      BY <1>2, <1>4 DEF UsersOf
    <3> QED
      BY <3>1, <3>2
  <2> QED
    BY <1>0, <2>1, Zenon DEF Counted
<1> QED
  BY <1>7, <1>8, <1>9, <1>10, <1>11, <1>12 DEF WholeOn

\* repairMalformedToolCall leaves a whole list.
LEMMA RepairedWhole ==
    ASSUME NEW ms, NEW n \in Nat, NEW b, Whole(ms, n, b), Malformed(ms) # {},
           NEW prose \in BOOLEAN
    PROVE  Whole(Repaired(ms, prose), n, b)
<1> DEFINE k    == Newest(Malformed(ms))
           gone == {j \in DOMAIN ms : ms[j].role = "tool" /\ ms[j].ids \subseteq ms[k].ids}
           ns   == [ms EXCEPT ![k] = Text]
           S    == DOMAIN ms \ (gone \cup IF prose THEN {} ELSE {k})
<1>1. /\ ms \in Seq(Message) /\ Len(ms) \in Nat /\ DOMAIN ms = 1..Len(ms)
      /\ WholeOn(ms, 1..Len(ms), n, b)
  BY DEF Whole
<1>2. k \in Malformed(ms)
  <2>1. Malformed(ms) \in SUBSET (1..Len(ms))
    BY <1>1 DEF Malformed
  <2> QED
    BY <1>1, <2>1, NewestIn
<1> HIDE DEF k
<1>3. k \in 1..Len(ms) /\ ms[k].role = "assistant"
  BY <1>1, <1>2 DEF Malformed, WholeOn, Shaped
<1>4. /\ ns \in Seq(Message) /\ Len(ns) = Len(ms) /\ ns[k] = Text
      /\ \A l \in 1..Len(ms) : l # k => ns[l] = ms[l]
  BY <1>1, <1>3, PlainMessages DEF Plain
<1>5. /\ S \in SUBSET (1..Len(ms))
      /\ \A l \in 1..Len(ms) :
              l \in S \/ l = k \/ (ms[l].role = "tool" /\ ms[l].ids \subseteq ms[k].ids)
      /\ \A l \in S : ms[l].role = "tool" => ~ (ms[l].ids \subseteq ms[k].ids)
  BY <1>1
<1>6. Repaired(ms, prose) = Pick(ns, S)
  BY Zenon DEF Repaired, k
<1> HIDE DEF ns, S, gone
<1>7. WholeOn(ns, S, n, b)
  BY <1>1, <1>3, <1>4, <1>5, RepairedOn
<1>8. S \in SUBSET (1..Len(ns))
  BY <1>4, <1>5
<1> QED
  BY <1>4, <1>6, <1>7, <1>8, PickWhole

\* Every id in cs is above b and not above c.
IdsIn(cs, b, c) == \A i \in DOMAIN cs : cs[i].id \in Int /\ b < cs[i].id /\ cs[i].id <= c

\* The list after finishOrRunToolsStep.
WithAnswer(ms, cs) == Append(ms, Asking(cs)) \o [i \in DOMAIN cs |-> Result(cs[i].id)]

\* The messages of the list after an answer.
LEMMA AnswerParts ==
    ASSUME NEW ms \in Seq(Message), NEW cs, NEW q \in Nat, DOMAIN cs = 1..q,
           NEW b, NEW c, IdsIn(cs, b, c)
    PROVE  /\ WithAnswer(ms, cs) \in Seq(Message)
           /\ Len(WithAnswer(ms, cs)) = Len(ms) + 1 + q
           /\ \A k \in 1..Len(ms) : WithAnswer(ms, cs)[k] = ms[k]
           /\ WithAnswer(ms, cs)[Len(ms) + 1] = Asking(cs)
           /\ \A i \in 1..q : WithAnswer(ms, cs)[Len(ms) + 1 + i] = Result(cs[i].id)
<1> DEFINE R == [i \in 1..q |-> Result(cs[i].id)]
           A == Append(ms, Asking(cs))
<1>1. Asking(cs) \in Message
  <2>1. \A i \in DOMAIN cs : cs[i].id \in Int
    BY DEF IdsIn
  <2>2. {cs[i].id : i \in DOMAIN cs} \in SUBSET Int
    BY <2>1
  <2>3. (\E i \in DOMAIN cs : cs[i].kind = "bad") \in BOOLEAN
    OBVIOUS
  <2> QED
    BY <2>2, <2>3 DEF Asking, Text, User, Message
<1>2. \A i \in 1..q : Result(cs[i].id) \in Message
  BY DEF IdsIn, Result, User, Message
<1>3. R \in Seq(Message) /\ Len(R) = q
  <2> HIDE DEF Message
  <2>1. R \in [1..q -> Message]
    BY <1>2
  <2> QED
    BY <2>1
<1>4. \A i \in 1..q : R[i] = Result(cs[i].id)
  OBVIOUS
<1>5. /\ A \in Seq(Message) /\ Len(A) = Len(ms) + 1 /\ A[Len(ms) + 1] = Asking(cs)
      /\ \A k \in 1..Len(ms) : A[k] = ms[k]
  BY <1>1
<1>6. WithAnswer(ms, cs) = A \o R
  BY DEF WithAnswer
<1> HIDE DEF A, R
<1>7. /\ A \o R \in Seq(Message) /\ Len(A \o R) = Len(A) + Len(R)
      /\ \A k \in 1..Len(A) : (A \o R)[k] = A[k]
      /\ \A i \in 1..Len(R) : (A \o R)[Len(A) + i] = R[i]
  <2>1. A \o R \in Seq(Message) /\ Len(A \o R) = Len(A) + Len(R)
    BY <1>3, <1>5
  <2>2. \A k \in 1..(Len(A) + Len(R)) : (A \o R)[k] = IF k <= Len(A) THEN A[k] ELSE R[k - Len(A)]
    BY <1>3, <1>5
  <2>3. Len(A) \in Nat /\ Len(R) \in Nat
    BY <1>3, <1>5
  <2>4. \A k \in 1..Len(A) : (A \o R)[k] = A[k]
    BY <2>2, <2>3
  <2>5. ASSUME NEW i \in 1..Len(R) PROVE (A \o R)[Len(A) + i] = R[i]
    <3>1. /\ Len(A) + i \in 1..(Len(A) + Len(R)) /\ ~ (Len(A) + i <= Len(A))
          /\ (Len(A) + i) - Len(A) = i
      BY <2>3
    <3> QED
      BY <2>2, <3>1
  <2> QED
    BY <2>1, <2>4, <2>5
<1>8. Len(ms) \in Nat
  OBVIOUS
<1> QED
  BY <1>3, <1>4, <1>5, <1>6, <1>7, <1>8

\* Messages after the last disturb no pair.
LEMMA LaterQuiet ==
    ASSUME NEW ms, NEW S \in SUBSET Int, NEW T \in SUBSET Int,
           \A l \in T : l \in S \/ \A k \in S : k < l,
           NEW j \in S, NEW k \in S, Quiet(ms, S, j, k)
    PROVE  Quiet(ms, T, j, k)
<1>1. ASSUME NEW l \in T, j < l, l < k PROVE ms[l].role \notin {"user", "assistant"}
  <2>1. l \in S
    BY <1>1
  <2> QED
    BY <1>1, <2>1 DEF Quiet
<1> QED
  BY <1>1 DEF Quiet

\* finishOrRunToolsStep: an answer with new ids and its results keeps the list whole.
LEMMA AnswerWhole ==
    ASSUME NEW ms, NEW n \in Nat, NEW b \in Int, NEW c \in Int, b <= c, Whole(ms, n, b),
           NEW cs, NEW q \in Nat, DOMAIN cs = 1..q, IdsIn(cs, b, c)
    PROVE  Whole(WithAnswer(ms, cs), n, c)
<1> DEFINE ns == WithAnswer(ms, cs)
           L  == Len(ms)
           e  == Len(ms) + 1
           S  == 1..L
           T  == 1..(e + q)
<1>1. ms \in Seq(Message) /\ L \in Nat /\ WholeOn(ms, S, n, b)
  BY DEF Whole
<1>2. /\ ns \in Seq(Message) /\ Len(ns) = e + q
      /\ \A k \in S : ns[k] = ms[k]
      /\ ns[e] = Asking(cs)
      /\ \A i \in 1..q : ns[e + i] = Result(cs[i].id)
  <2>1. ms \in Seq(Message)
    BY <1>1
  <2> QED
    BY ONLY <2>1, q \in Nat, DOMAIN cs = 1..q, IdsIn(cs, b, c), AnswerParts, ZenonT(30)
<1> HIDE DEF ns
<1>3. /\ S \in SUBSET Int /\ T \in SUBSET Int /\ S \subseteq T /\ e \in T /\ e \in Int
      /\ \A l \in T : l \in S \/ l = e \/ \E i \in 1..q : l = e + i
      /\ \A l \in T : l \in S \/ \A k \in S : k < l
      /\ \A k \in S : k < e
      /\ \A i \in 1..q : e + i \in T /\ e < e + i
  <2>1. \A l \in T : l \in S \/ l = e \/ \E i \in 1..q : l = e + i
    <3>1. ASSUME NEW l \in T, l \notin S, l # e PROVE \E i \in 1..q : l = e + i
      <4>1. l - e \in 1..q /\ l = e + (l - e)
        BY <1>1, <3>1
      <4> QED
        BY <4>1
    <3> QED
      BY <3>1
  <2> QED
    BY <1>1, <2>1
<1>4. /\ ns[e].role = "assistant" /\ ns[e].ids = {cs[i].id : i \in 1..q} /\ ~ ns[e].pinned
      /\ ns[e] \in Message
  <2>1. ns[e] \in Message
    BY <1>1, <1>2, <1>3
  <2> QED
    BY <1>2, <2>1 DEF Asking, Text, User
<1>5. \A i \in 1..q : /\ ns[e + i].role = "tool" /\ ns[e + i].ids = {cs[i].id}
                      /\ ~ ns[e + i].pinned /\ ~ ns[e + i].bad /\ ns[e + i] \in Message
                      /\ cs[i].id \in Int /\ b < cs[i].id /\ cs[i].id <= c
                      /\ ns[e + i] = Result(cs[i].id)
  <2>1. \A i \in 1..q : Result(cs[i].id) \in Message
    BY DEF IdsIn, Result, User, Message
  <2>2. \A i \in 1..q : LET m == Result(cs[i].id) IN
           m.role = "tool" /\ m.ids = {cs[i].id} /\ ~ m.pinned /\ ~ m.bad
    BY DEF Result, User
  <2> QED
    BY <1>2, <2>1, <2>2 DEF IdsIn
<1>6. WholeOn(ns, S, n, b)
  BY <1>1, <1>2, <1>3, AgreeWhole
<1> HIDE DEF S, T, e, L
<1>7. \A j \in S, k \in S : Quiet(ns, S, j, k) => Quiet(ns, T, j, k)
  BY <1>3, LaterQuiet
<1>8. \A i \in 1..q : Quiet(ns, T, e, e + i)
  <2>1. ASSUME NEW i \in 1..q, NEW l \in T, e < l, l < e + i
        PROVE  ns[l].role \notin {"user", "assistant"}
    <3>1. l \notin S /\ l # e
      BY <1>3, <2>1
    <3> QED
      BY <1>3, <1>5, <3>1
  <2> QED
    BY <2>1 DEF Quiet
<1>9. Called(ns, T)
  <2>1. ASSUME NEW k \in T, ns[k].role = "tool"
        PROVE  \E j \in T : /\ j < k /\ ns[j].role = "assistant" /\ ns[k].ids \subseteq ns[j].ids
                            /\ Quiet(ns, T, j, k)
    <3>1. CASE k \in S
      <4>1. PICK j \in S : /\ j < k /\ ns[j].role = "assistant" /\ ns[k].ids \subseteq ns[j].ids
                           /\ Quiet(ns, S, j, k)
        BY <1>6, <2>1, <3>1 DEF WholeOn, Called
      <4> QED
        BY <1>3, <1>7, <3>1, <4>1
    <3>2. CASE k \notin S
      <4>1. PICK i \in 1..q : k = e + i
        BY <1>3, <1>4, <2>1, <3>2
      <4>2. ns[k].ids \subseteq ns[e].ids
        BY <1>4, <1>5, <4>1
      <4> QED
        BY <1>3, <1>4, <1>8, <4>1, <4>2
    <3> QED
      BY <3>1, <3>2
  <2> QED
    BY <2>1 DEF Called
<1>10. Replied(ns, T)
  <2>1. ASSUME NEW k \in T, ns[k].role = "assistant", NEW id \in ns[k].ids
        PROVE  \E j \in T : k < j /\ ns[j].role = "tool" /\ ns[j].ids = {id} /\ Quiet(ns, T, k, j)
    <3>1. CASE k \in S
      <4>1. PICK j \in S : k < j /\ ns[j].role = "tool" /\ ns[j].ids = {id} /\ Quiet(ns, S, k, j)
        BY <1>6, <2>1, <3>1 DEF WholeOn, Replied
      <4> QED
        BY <1>3, <1>7, <3>1, <4>1
    <3>2. CASE k \notin S
      <4>1. k = e
        BY <1>3, <1>5, <2>1, <3>2
      <4>2. PICK i \in 1..q : id = cs[i].id
        BY <1>4, <4>1
      <4> QED
        BY <1>3, <1>5, <1>8, <4>1, <4>2
    <3> QED
      BY <3>1, <3>2
  <2> QED
    BY <2>1 DEF Replied
<1>11. \A k \in T : ns[k].role = "assistant" => k \in S \/ k = e
  BY <1>3, <1>5
<1>12. Separate(ns, T)
  <2>1. \A k \in S : ns[k].role = "assistant" => ns[k].ids \cap ns[e].ids = {}
    <3>1. ASSUME NEW k \in S, ns[k].role = "assistant", NEW id \in ns[k].ids, id \in ns[e].ids
          PROVE  FALSE
      <4>1. id <= b
        BY <1>6, <3>1 DEF WholeOn, Below
      <4>2. id \in Int /\ b < id
        BY <1>4, <1>5, <3>1
      <4> QED
        BY <4>1, <4>2
    <3> QED
      BY <3>1
  <2>2. Separate(ns, S)
    BY <1>6 DEF WholeOn
  <2>3. ASSUME NEW j \in T, NEW k \in T, ns[j].role = "assistant", ns[k].role = "assistant", j # k
        PROVE  ns[j].ids \cap ns[k].ids = {}
    <3>1. CASE j \in S /\ k \in S
      BY <2>2, <2>3, <3>1 DEF Separate
    <3>2. CASE j = e /\ k \in S
      BY <2>1, <2>3, <3>2
    <3>3. CASE k = e /\ j \in S
      BY <2>1, <2>3, <3>3
    <3> QED
      BY <1>11, <2>3, <3>1, <3>2, <3>3
  <2> QED
    BY <2>3 DEF Separate
<1>13. Tasked(ns, T)
  <2>1. PICK p \in S : /\ ns[p].pinned /\ ns[p].role = "user"
                 /\ \A k \in S : (ns[k].role = "user" => p <= k) /\ (ns[k].pinned => k = p)
    BY <1>6 DEF WholeOn, Tasked
  <2>2. \A k \in T : k \in S \/ (ns[k].role # "user" /\ ~ ns[k].pinned)
    BY <1>3, <1>4, <1>5
  <2> QED
    BY <1>3, <2>1, <2>2 DEF Tasked
<1>14. Shaped(ns, T)
  <2>1. Shaped(ns, S)
    BY <1>6 DEF WholeOn
  <2>2. ASSUME NEW k \in T
        PROVE  /\ ns[k] \in Message
               /\ ns[k].bad => ns[k].role = "assistant"
               /\ ns[k].role = "tool" => \E id \in Int : ns[k] = Result(id)
    <3>1. CASE k \in S
      BY <2>1, <3>1 DEF Shaped
    <3>2. CASE k = e
      BY <1>4, <3>2
    <3>3. CASE k \notin S /\ k # e
      BY <1>3, <1>5, <3>3, ZenonT(30)
    <3> QED
      BY <3>1, <3>2, <3>3
  <2> QED
    BY <2>2 DEF Shaped
<1>15. Counted(ns, T, n)
  <2>1. \A k \in T : ns[k].role = "user" => k \in S
    BY <1>3, <1>4, <1>5
  <2>2. UsersOf(ns, T) = UsersOf(ns, S)
    BY <1>3, <2>1 DEF UsersOf
  <2> QED
    BY <1>6, <2>2, Zenon DEF WholeOn, Counted
<1>16. Below(ns, T, c)
  <2>1. WholeOn(ns, S, n, c)
    BY <1>6, LooserWhole
  <2>2. \A id \in ns[e].ids : id <= c
    BY <1>4, <1>5
  <2>3. Below(ns, S, c)
    BY <2>1 DEF WholeOn
  <2> QED
    BY <1>11, <2>2, <2>3 DEF Below
<1> QED
  BY <1>2, <1>9, <1>10, <1>12, <1>13, <1>14, <1>15, <1>16 DEF WholeOn, Whole, ns, T

-----------------------------------------------------------------------------
(* The loop *)

\* The greatest id the server can have given before turn t asks.
Upto(t) == t * MaxCalls

\* The greatest id a call of the chat can have: in the middle of a turn, none of that
\* turn is there yet.
Reach(p, t) == IF p \in {"boundary", "observe", "card"} THEN Upto(t + 1) ELSE Upto(t)

\* What the argument needs of runState: the turn and the count of messages taken.
HasTurn(y) ==
    /\ "turn" \in DOMAIN y /\ "more" \in DOMAIN y
    /\ y.turn \in Int /\ y.more \in Nat

\* As long as the run goes, its chat is whole, and the calls it works off are new.
ChatIsWhole ==
    phase \notin {"ended", "finished"} => Whole(messages, 1 + x.more, Reach(phase, x.turn))
CallsAreNew ==
    phase = "tools" =>
        \E q \in Nat : DOMAIN calls = 1..q /\ IdsIn(calls, Upto(x.turn), Upto(x.turn + 1))

\* RequestIsWhole is about two phases, and too little to survive a compaction: a kept
\* span must hold a call with all of its results, so they must stand together (Quiet);
\* a repair must take no other call's result, so ids must differ (Separate) and the
\* next answer's be new (Below, CallsAreNew); and the task must be the first of the
\* user messages, or a compaction from the pin on would lose one (Tasked).
WholeInv == HasTurn(x) /\ ChatIsWhole /\ CallsAreNew

\* Every turn has its own MaxCalls ids.
LEMMA UptoGrows ==
    ASSUME NEW t \in Int
    PROVE  /\ Upto(t) \in Int /\ Upto(t + 1) = Upto(t) + MaxCalls
           /\ Upto(t) <= Upto(t + 1) /\ MaxCalls \in Int /\ 1 <= MaxCalls
           /\ Upto((t - 1) + 1) = Upto(t)
<1>1. MaxCalls \in Nat /\ MaxCalls # 0
  BY TurnAssumption
<1>2. (t + 1) * MaxCalls = t * MaxCalls + MaxCalls /\ t * MaxCalls \in Int
  BY <1>1, SMT
<1>3. (t - 1) + 1 = t
  OBVIOUS
<1> QED
  BY <1>1, <1>2, <1>3 DEF Upto

\* A whole list with a greater bound on the ids.
LEMMA WholeLoosens ==
    ASSUME NEW ms, NEW n, NEW b \in Int, NEW c \in Int, b <= c, Whole(ms, n, b)
    PROVE  Whole(ms, n, c)
  BY LooserWhole DEF Whole

\* A run that returns has no request to build.
LEMMA ReturnWhole ==
    ASSUME NEW why, Return(why) PROVE WholeInv'
  BY DEF Return, WholeInv, HasTurn, NewRun, ChatIsWhole, CallsAreNew

\* Nor has one that was cancelled.
LEMMA ContextStopWhole ==
    ASSUME ContextStop PROVE WholeInv'
  BY ReturnWhole DEF ContextStop, StopRun

\* The loop goes to a phase other than the tools.
LEMMA GoWhole ==
    ASSUME NEW p, NEW y, GoTo(p, y), HasTurn(y), p # "tools",
           Whole(messages', 1 + y.more, Reach(p, y.turn))
    PROVE  WholeInv'
  BY DEF GoTo, WholeInv, ChatIsWhole, CallsAreNew

\* The round begins again and the turn is counted back.
LEMMA TurnedBack ==
    ASSUME WholeInv, NEW y, HasTurn(y), y.turn = x.turn - 1, y.more = x.more,
           GoTo("boundary", y), Whole(messages', 1 + x.more, Upto(x.turn))
    PROVE  WholeInv'
<1>1. Reach("boundary", y.turn) = Upto(x.turn)
  BY UptoGrows DEF Reach, WholeInv, HasTurn
<1> QED
  BY <1>1, GoWhole

\* The loop goes on within a turn, or to the next.
LEMMA GoesOn ==
    ASSUME WholeInv, NEW y, HasTurn(y), y.turn = x.turn, y.more = x.more, NEW p,
           GoTo(p, y), p \in {"boundary", "fit", "summary", "call"},
           Whole(messages', 1 + x.more, Upto(x.turn))
    PROVE  WholeInv'
<1>1. Upto(x.turn) \in Int /\ Upto(x.turn + 1) \in Int /\ Upto(x.turn) <= Upto(x.turn + 1)
  <2>1. x.turn \in Int /\ x.turn + 1 \in Int
    BY DEF WholeInv, HasTurn
  <2> QED
    BY <2>1, UptoGrows
<1>2. CASE p = "boundary"
  <2>1. Whole(messages', 1 + x.more, Upto(x.turn + 1))
    BY <1>1, WholeLoosens
  <2> QED
    BY <1>2, <2>1, GoWhole DEF Reach
<1>3. CASE p \in {"fit", "summary", "call"}
  BY <1>3, GoWhole DEF Reach
<1> QED
  BY <1>2, <1>3

\* The list is whole in every phase, and a line of the harness changes nothing.
LEMMA InWhole ==
    ASSUME WholeInv
    PROVE  /\ HasTurn(x) /\ 1 + x.more \in Nat
           /\ phase \in {"build", "fit", "summary", "call", "tools"} =>
                 /\ Whole(messages, 1 + x.more, Upto(x.turn))
                 /\ Whole(Say(messages), 1 + x.more, Upto(x.turn))
           /\ phase \in {"boundary", "observe", "card"} =>
                 /\ Whole(messages, 1 + x.more, Upto(x.turn + 1))
                 /\ Whole(Say(messages), 1 + x.more, Upto(x.turn + 1))
<1>1. HasTurn(x) /\ 1 + x.more \in Nat
  BY DEF WholeInv, HasTurn
<1>2. ASSUME phase \in {"build", "fit", "summary", "call", "tools"}
      PROVE  Whole(messages, 1 + x.more, Upto(x.turn))
  BY <1>2 DEF WholeInv, ChatIsWhole, Reach
<1>3. ASSUME phase \in {"boundary", "observe", "card"}
      PROVE  Whole(messages, 1 + x.more, Upto(x.turn + 1))
  BY <1>3 DEF WholeInv, ChatIsWhole, Reach
<1> QED
  BY <1>1, <1>2, <1>3, SayWhole

\* turnBoundary with or without the repair of a malformed call.
LEMMA BeginTurnWhole ==
    ASSUME WholeInv, NEW ms, NEW y, HasTurn(y), y.turn = x.turn,
           Whole(ms, 1 + y.more, Upto(x.turn + 1)), BeginTurn(ms, y)
    PROVE  WholeInv'
<1>1. CASE ~ x.repair /\ Malformed(ms) # {}
  <2>1. PICK prose \in BOOLEAN : /\ messages' = Repaired(ms, prose)
                                 /\ GoTo("boundary", [y EXCEPT !.repair = TRUE])
    BY <1>1, Zenon DEF BeginTurn
  <2> DEFINE z == [y EXCEPT !.repair = TRUE]
  <2>2. HasTurn(z) /\ z.turn = x.turn /\ z.more = y.more
    BY DEF HasTurn
  <2>3. 1 + y.more \in Nat
    BY DEF HasTurn
  <2>4. Whole(messages', 1 + z.more, Reach("boundary", z.turn))
    <3> HIDE DEF z
    <3>1. Whole(Repaired(ms, prose), 1 + y.more, Upto(x.turn + 1))
      BY <1>1, <2>3, RepairedWhole
    <3> QED
      BY <2>1, <2>2, <3>1 DEF Reach
  <2> HIDE DEF z
  <2> QED
    BY <2>1, <2>2, <2>4, GoWhole DEF z
<1>2. CASE ~ (~ x.repair /\ Malformed(ms) # {})
  <2> DEFINE z == [y EXCEPT !.turn = @ + 1, !.used = @ /\ x.pending]
  <2>1. messages' = ms /\ GoTo("build", z)
    BY <1>2, Zenon DEF BeginTurn
  <2>2. HasTurn(z) /\ z.turn = x.turn + 1 /\ z.more = y.more
    BY DEF HasTurn
  <2> HIDE DEF z
  <2>3. Whole(messages', 1 + z.more, Reach("build", z.turn))
    BY <2>1, <2>2 DEF Reach
  <2> QED
    BY <2>1, <2>2, <2>3, GoWhole
<1> QED
  BY <1>1, <1>2

\* turnBoundary.
LEMMA BoundaryWhole ==
    ASSUME WholeInv, TurnBoundary PROVE WholeInv'
<1>1. CASE ContextStop
  BY <1>1, ContextStopWhole
<1>2. CASE \E why : StopRun(why)
  BY <1>2, ReturnWhole DEF StopRun
<1>3. CASE phase = "boundary" /\ BeginTurn(messages, x)
  BY <1>3, InWhole, BeginTurnWhole
<1>4. CASE phase = "boundary" /\ BeginTurn(Append(messages, User), [x EXCEPT !.more = @ + 1])
  <2> DEFINE y == [x EXCEPT !.more = @ + 1]
  <2>1. HasTurn(y) /\ y.turn = x.turn /\ y.more = x.more + 1
    BY InWhole DEF HasTurn
  <2>2. Whole(Append(messages, User), (1 + x.more) + 1, Upto(x.turn + 1))
    BY <1>4, InWhole, AppendWhole, PlainMessages
  <2>3. 1 + (x.more + 1) = (1 + x.more) + 1
    BY InWhole DEF HasTurn
  <2>4. BeginTurn(Append(messages, User), y)
    BY <1>4
  <2> HIDE DEF y
  <2> QED
    BY <2>1, <2>2, <2>3, <2>4, BeginTurnWhole
<1> QED
  BY <1>1, <1>2, <1>3, <1>4, Zenon DEF TurnBoundary

\* A compaction begins the round again.
LEMMA CompactedWhole ==
    ASSUME WholeInv, NEW ms, Whole(ms, 1 + x.more, Upto(x.turn)), Compacted(ms)
    PROVE  WholeInv'
<1> DEFINE y == [x EXCEPT !.turn = @ - 1, !.sentence = FALSE,
                          !.rounds = IF x.sentence THEN @ ELSE @ + 1]
<1>1. messages' = ms /\ GoTo("boundary", y)
  BY Zenon DEF Compacted
<1>2. HasTurn(y) /\ y.turn = x.turn - 1 /\ y.more = x.more
  BY DEF WholeInv, HasTurn
<1> HIDE DEF y
<1> QED
  BY <1>1, <1>2, TurnedBack

\* buildRequest, fitWindow and the summary.
LEMMA FitWhole ==
    ASSUME WholeInv, BuildRequest \/ FitWindow \/ Summarize PROVE WholeInv'
<1>0. Whole(messages, 1 + x.more, Upto(x.turn)) /\ HasTurn(x) /\ 1 + x.more \in Nat
  BY InWhole DEF BuildRequest, FitWindow, Summarize
<1>1. CASE ContextStop
  BY <1>1, ContextStopWhole
<1>2. CASE \E why : Return(why)
  BY <1>2, ReturnWhole
<1>3. CASE messages' = messages /\ \E p \in {"fit", "summary"} : GoTo(p, x)
  BY <1>0, <1>3, GoesOn
<1>4. CASE messages' = messages /\
           GoTo("call", [x EXCEPT !.pending = FALSE, !.used = @ \/ x.pending])
  <2> DEFINE y == [x EXCEPT !.pending = FALSE, !.used = @ \/ x.pending]
  <2>1. HasTurn(y) /\ y.turn = x.turn /\ y.more = x.more
    BY <1>0 DEF HasTurn
  <2>2. GoTo("call", y)
    BY <1>4
  <2> HIDE DEF y
  <2> QED
    BY <1>0, <1>4, <2>1, <2>2, GoesOn
<1>5. CASE Compacted(<<Harness>> \o messages)
  BY <1>0, <1>5, ConsWhole, CompactedWhole
<1>6. CASE \E keep \in Keeps(messages) : Compacted(<<Harness>> \o Pick(messages, keep))
  BY <1>0, <1>6, CompactWhole, CompactedWhole
<1>7. CASE BuildRequest
  BY <1>7, <1>1, <1>2, <1>3, Zenon DEF BuildRequest, StopRun
<1>8. CASE FitWindow
  BY <1>8, <1>1, <1>2, <1>3, <1>4, <1>5, Zenon DEF FitWindow, StopRun
<1>9. CASE Summarize
  BY <1>9, <1>2, <1>6, Zenon DEF Summarize, StopSaying
<1> QED
  BY <1>7, <1>8, <1>9

\* y remembers the turn and the messages taken that x does.
SameTurn(y) == HasTurn(y) /\ y.turn = x.turn /\ y.more = x.more

\* A failed call begins the round again.
LEMMA AgainWhole ==
    ASSUME WholeInv, NEW y, SameTurn(y), Again(y),
           Whole(messages', 1 + x.more, Upto(x.turn))
    PROVE  WholeInv'
<1> DEFINE z == [y EXCEPT !.turn = @ - 1]
<1>1. GoTo("boundary", z)
  BY Zenon DEF Again
<1>2. HasTurn(z) /\ z.turn = x.turn - 1 /\ z.more = x.more
  BY DEF SameTurn, HasTurn
<1> HIDE DEF z
<1> QED
  BY <1>1, <1>2, TurnedBack

\* callModel when the call fails.
LEMMA FailsWhole ==
    ASSUME WholeInv, CallFails PROVE WholeInv'
<1>0. /\ Whole(messages, 1 + x.more, Upto(x.turn)) /\ Whole(Say(messages), 1 + x.more, Upto(x.turn))
      /\ HasTurn(x)
  BY InWhole DEF CallFails
<1>1. CASE ContextStop
  BY <1>1, ContextStopWhole
<1>2. CASE \E why : Return(why)
  BY <1>2, ReturnWhole
<1>3. CASE messages' \in {messages, Say(messages)} /\
           Again([x EXCEPT !.refusals = @ + 1, !.sentence = TRUE])
  <2>1. SameTurn([x EXCEPT !.refusals = @ + 1, !.sentence = TRUE])
    BY <1>0 DEF SameTurn, HasTurn
  <2> QED
    BY <1>0, <1>3, <2>1, AgainWhole
<1>4. CASE messages' = messages /\ Again([x EXCEPT !.asText = x.turn, !.rounds = @ + 1])
  <2>1. SameTurn([x EXCEPT !.asText = x.turn, !.rounds = @ + 1])
    BY <1>0 DEF SameTurn, HasTurn
  <2> QED
    BY <1>0, <1>4, <2>1, AgainWhole
<1>5. CASE messages' = messages /\ Again([x EXCEPT !.fallback = TRUE, !.rounds = @ + 1])
  <2>1. SameTurn([x EXCEPT !.fallback = TRUE, !.rounds = @ + 1])
    BY <1>0 DEF SameTurn, HasTurn
  <2> QED
    BY <1>0, <1>5, <2>1, AgainWhole
<1>6. \/ ContextStop \/ \E why : Return(why)
      \/ messages' \in {messages, Say(messages)} /\
           Again([x EXCEPT !.refusals = @ + 1, !.sentence = TRUE])
      \/ messages' = messages /\ Again([x EXCEPT !.asText = x.turn, !.rounds = @ + 1])
      \/ messages' = messages /\ Again([x EXCEPT !.fallback = TRUE, !.rounds = @ + 1])
  BY Zenon DEF CallFails, StopRun, StopSaying
<1> QED
  BY <1>1, <1>2, <1>3, <1>4, <1>5, <1>6, Zenon

\* The answer sends the loop to the next turn.
LEMMA BackWhole ==
    ASSUME WholeInv, NEW y, SameTurn(y), GoTo("boundary", y),
           Whole(messages', 1 + x.more, Upto(x.turn))
    PROVE  WholeInv'
  BY GoesOn DEF SameTurn

\* readAnswer, when no tool runs.
LEMMA ReadWhole ==
    ASSUME WholeInv,
           ReadNoCalls \/ ReadUnoffered \/ ReadReasoningOnly \/ ReadTruncatedCalls \/ ReadText
    PROVE  WholeInv'
<1>0. /\ Whole(messages, 1 + x.more, Upto(x.turn)) /\ Whole(Say(messages), 1 + x.more, Upto(x.turn))
      /\ HasTurn(x) /\ 1 + x.more \in Nat
  BY InWhole DEF ReadNoCalls, ReadUnoffered, ReadReasoningOnly, ReadTruncatedCalls, ReadText
<1>1. SameTurn(Answered)
  BY <1>0 DEF SameTurn, HasTurn, Answered
<1>2. /\ SameTurn([Answered EXCEPT !.malformed = TRUE])
      /\ SameTurn([Answered EXCEPT !.announced = FALSE])
      /\ SameTurn([Answered EXCEPT !.announced = TRUE])
      /\ SameTurn([Answered EXCEPT !.truncated = TRUE, !.announced = FALSE])
      /\ SameTurn([Answered EXCEPT !.pending = TRUE, !.rounds = @ + 1])
  BY <1>1 DEF SameTurn, HasTurn
<1>3. ASSUME NEW why, Return(why) PROVE WholeInv'
  BY <1>3, ReturnWhole
<1>4. CASE ReadNoCalls
  <2>1. CASE messages' = messages /\ GoTo("boundary", [Answered EXCEPT !.malformed = TRUE])
    BY <1>0, <1>2, <2>1, BackWhole
  <2> QED
    BY <1>3, <1>4, <2>1, Zenon DEF ReadNoCalls, StopSaying
<1>5. CASE ReadUnoffered
  <2>1. messages' = Say(messages) /\ GoTo("boundary", [Answered EXCEPT !.announced = FALSE])
    BY <1>5, Zenon DEF ReadUnoffered
  <2> QED
    BY <1>0, <1>2, <2>1, BackWhole
<1>6. CASE ReadReasoningOnly
  <2>1. messages' = messages /\ Again([Answered EXCEPT !.pending = TRUE, !.rounds = @ + 1])
    BY <1>6, Zenon DEF ReadReasoningOnly
  <2> QED
    BY <1>0, <1>2, <2>1, AgainWhole
<1>7. CASE ReadTruncatedCalls
  <2>1. CASE messages' = messages /\
             GoTo("boundary", [Answered EXCEPT !.truncated = TRUE, !.announced = FALSE])
    BY <1>0, <1>2, <2>1, BackWhole
  <2> QED
    BY <1>3, <1>7, <2>1, Zenon DEF ReadTruncatedCalls, StopRun
<1>8. CASE ReadText
  <2>1. CASE messages' = Append(messages, Text) /\
             GoTo("boundary", [Answered EXCEPT !.announced = TRUE])
    <3>1. Whole(Append(messages, Text), 1 + x.more, Upto(x.turn))
      BY <1>0, AppendWhole, PlainMessages
    <3> QED
      BY <1>2, <2>1, <3>1, BackWhole
  <2> QED
    BY <1>3, <1>8, <2>1, Zenon DEF ReadText, StopRun, StopSaying
<1> QED
  BY <1>4, <1>5, <1>6, <1>7, <1>8

\* readAnswer, when tools run: their ids are new.
LEMMA ReadCallsWhole ==
    ASSUME WholeInv, ReadCalls PROVE WholeInv'
<1>0. /\ Whole(messages, 1 + x.more, Upto(x.turn)) /\ Whole(Say(messages), 1 + x.more, Upto(x.turn))
      /\ HasTurn(x) /\ phase = "call"
  BY InWhole DEF ReadCalls
<1>1. ASSUME NEW why, Return(why) PROVE WholeInv'
  BY <1>1, ReturnWhole
<1> DEFINE y == [Answered EXCEPT !.announced = FALSE, !.truncated = FALSE]
<1>2. ASSUME NEW cs \in Asks(x.turn), messages' \in {messages, Say(messages)}, calls' = cs,
             GoTo("tools", y)
      PROVE  WholeInv'
  <2>1. SameTurn(y)
    BY <1>0 DEF SameTurn, HasTurn, Answered
  <2> HIDE DEF y
  <2>2. \E q \in Nat : DOMAIN cs = 1..q /\ IdsIn(cs, Upto(x.turn), Upto(x.turn + 1))
    <3>1. x.turn \in Int
      BY <1>0 DEF HasTurn
    <3>2. PICK q \in 1..MaxCalls :
             cs \in [1..q -> [id : {Id(x.turn, i) : i \in 1..MaxCalls}, kind : Kind]]
      BY DEF Asks
    <3>3. MaxCalls \in Nat /\ q \in Nat
      BY TurnAssumption
    <3>4. ASSUME NEW j \in 1..q
          PROVE  cs[j].id \in Int /\ Upto(x.turn) < cs[j].id /\ cs[j].id <= Upto(x.turn + 1)
      <4>1. PICK i \in 1..MaxCalls : cs[j].id = Id(x.turn, i)
        BY <3>2
      <4>2. cs[j].id = Upto(x.turn) + i
        BY <4>1 DEF Id, Upto
      <4>3. /\ Upto(x.turn) \in Int /\ Upto(x.turn + 1) = Upto(x.turn) + MaxCalls
        BY <3>1, UptoGrows
      <4> QED
        BY <3>3, <4>2, <4>3
    <3>5. DOMAIN cs = 1..q
      BY <3>2
    <3> QED
      BY <3>3, <3>4, <3>5 DEF IdsIn
  <2>3. Whole(messages', 1 + x.more, Upto(x.turn))
    BY <1>0, <1>2
  <2>4. phase' = "tools" /\ x' = y
    BY <1>2 DEF GoTo
  <2>5. HasTurn(x')
    BY <2>1, <2>4 DEF SameTurn
  <2>6. ChatIsWhole'
    BY <2>1, <2>3, <2>4 DEF ChatIsWhole, Reach, SameTurn
  <2>7. CallsAreNew'
    BY <1>2, <2>1, <2>2, <2>4 DEF CallsAreNew, SameTurn
  <2> QED
    BY <2>5, <2>6, <2>7 DEF WholeInv
<1> QED
  BY <1>1, <1>2, Zenon DEF ReadCalls, StopRun

\* A step that leaves the phase, the turn and the calls alone.
LEMMA KeptWhole ==
    ASSUME WholeInv, phase' = phase, x' = x, calls' = calls,
           messages' = messages \/ messages' = Say(messages)
    PROVE  WholeInv'
<1>1. CASE phase \in {"ended", "finished"}
  BY <1>1 DEF WholeInv, ChatIsWhole, CallsAreNew
<1>2. CASE phase \notin {"ended", "finished"}
  <2>1. Whole(messages, 1 + x.more, Reach(phase, x.turn)) /\ 1 + x.more \in Nat
    BY <1>2, InWhole DEF WholeInv, ChatIsWhole
  <2>2. Whole(messages', 1 + x.more, Reach(phase, x.turn))
    BY <2>1, SayWhole
  <2> QED
    BY <2>2 DEF WholeInv, ChatIsWhole, CallsAreNew
<1> QED
  BY <1>1, <1>2

\* The guards and the card add at most a line.
LEMMA ObserveWhole ==
    ASSUME WholeInv, phase \in {"observe", "card"}, NEW p \in {"boundary", "observe", "card"},
           GoTo(p, x), messages' \in {messages, Say(messages)}
    PROVE  WholeInv'
<1>1. Whole(messages', 1 + x.more, Upto(x.turn + 1)) /\ HasTurn(x)
  BY InWhole
<1> QED
  BY <1>1, GoWhole DEF Reach

\* The tools, the turn appended or dropped, the guards and the card.
LEMMA ToolsWhole ==
    ASSUME WholeInv, Tools \/ AppendTurn \/ Observe \/ AnswerCard \/ CardCancelled \/ EndTurn
    PROVE  WholeInv'
<1>1. ASSUME NEW why, Return(why) PROVE WholeInv'
  BY <1>1, ReturnWhole
<1>2. CASE Tools
  <2>1. phase' = phase /\ x' = x /\ calls' = calls /\ messages' = messages
    BY <1>2, Zenon DEF Tools, ToolBegins, ToolRefused, ToolActs, ToolReturns
  <2> QED
    BY <2>1, KeptWhole
<1>3. CASE AppendTurn
  <2>1. CASE ContextStop
    BY <2>1, ContextStopWhole
  <2>2. CASE messages' = WithAnswer(messages, calls) /\ GoTo("observe", x) /\ phase = "tools"
    <3>1. Whole(messages, 1 + x.more, Upto(x.turn)) /\ HasTurn(x) /\ 1 + x.more \in Nat
      BY <2>2, InWhole
    <3>2. PICK q \in Nat : DOMAIN calls = 1..q /\ IdsIn(calls, Upto(x.turn), Upto(x.turn + 1))
      BY <2>2 DEF WholeInv, CallsAreNew
    <3>3. Upto(x.turn) \in Int /\ Upto(x.turn + 1) \in Int /\ Upto(x.turn) <= Upto(x.turn + 1)
      <4>1. x.turn \in Int /\ x.turn + 1 \in Int
        BY <3>1 DEF HasTurn
      <4> QED
        BY <4>1, UptoGrows
    <3>4. Whole(messages', 1 + x.more, Upto(x.turn + 1))
      BY <2>2, <3>1, <3>2, <3>3, AnswerWhole
    <3> QED
      BY <2>2, <3>1, <3>4, GoWhole DEF Reach
  <2> QED
    BY <1>3, <2>1, <2>2, Zenon DEF AppendTurn, WithAnswer
<1>4. CASE Observe
  BY <1>4, ObserveWhole, Zenon DEF Observe
<1>5. CASE AnswerCard
  BY <1>1, <1>5, ObserveWhole, Zenon DEF AnswerCard, StopRun
<1>6. CASE CardCancelled
  BY <1>6, ContextStopWhole DEF CardCancelled
<1>7. CASE EndTurn
  BY <1>7, ObserveWhole, Zenon DEF EndTurn
<1> QED
  BY <1>2, <1>3, <1>4, <1>5, <1>6, <1>7

\* Beside the loop: Stop, the wall clock, the record Stop writes, the scheduler's finish.
LEMMA BesideWhole ==
    ASSUME WholeInv,
           Finished \/ StopOverdue \/ (\E who \in {"stop", "wall"} : Cancel(who))
               \/ UNCHANGED turnVars
    PROVE  WholeInv'
<1>1. CASE Finished
  BY <1>1 DEF Finished, WholeInv, HasTurn, ChatIsWhole, CallsAreNew
<1>2. CASE StopOverdue
  BY <1>2, KeptWhole DEF StopOverdue, RecordAbort, toolVars
<1>3. CASE \E who \in {"stop", "wall"} : Cancel(who)
  BY <1>3, KeptWhole DEF Cancel, toolVars
<1>4. CASE UNCHANGED turnVars
  BY <1>4, KeptWhole DEF turnVars
<1> QED
  BY <1>1, <1>2, <1>3, <1>4

\* Every step keeps the chat whole.
LEMMA WholeStep ==
    ASSUME WholeInv, [TurnNext]_turnVars PROVE WholeInv'
  BY BoundaryWhole, FitWhole, FailsWhole, ReadWhole, ReadCallsWhole, ToolsWhole, BesideWhole, Zenon
     DEF TurnNext, Round, ReadAnswer

\* The messages of the earlier turn.
LEMMA EarlierMessages ==
    ASSUME NEW i \in Int, NEW m, m = [Text EXCEPT !.ids = {i}], NEW r, r = Result(i)
    PROVE  /\ m \in Message /\ m.role = "assistant" /\ m.ids = {i} /\ ~ m.pinned /\ ~ m.bad
           /\ r \in Message /\ r.role = "tool" /\ r.ids = {i} /\ ~ r.pinned /\ ~ r.bad
<1>1. {i} \in SUBSET Int
  OBVIOUS
<1>2. m \in Message /\ m.role = "assistant" /\ m.ids = {i} /\ ~ m.pinned /\ ~ m.bad
  BY <1>1, PlainMessages DEF Plain, Message
<1>3. r \in Message /\ r.role = "tool" /\ r.ids = {i} /\ ~ r.pinned /\ ~ r.bad
  BY <1>1, PlainMessages DEF Plain, Message, Result
<1> QED
  BY <1>2, <1>3

\* The chat a run starts with is whole.
LEMMA WholeAtStart ==
    ASSUME TurnInit PROVE WholeInv
<1> DEFINE A == [Text EXCEPT !.ids = {Earlier}]
           R == Result(Earlier)
           ms == <<A, R, Task>>
<1>1. /\ A \in Message /\ A.role = "assistant" /\ A.ids = {1} /\ ~ A.pinned /\ ~ A.bad
      /\ R \in Message /\ R.role = "tool" /\ R.ids = {1} /\ ~ R.pinned /\ ~ R.bad
      /\ Task \in Message /\ Task.role = "user" /\ Task.ids = {} /\ Task.pinned /\ ~ Task.bad
  <2>1. Earlier = 1 /\ Earlier \in Int
    BY DEF Earlier
  <2>2. /\ A \in Message /\ A.role = "assistant" /\ A.ids = {1} /\ ~ A.pinned /\ ~ A.bad
        /\ R \in Message /\ R.role = "tool" /\ R.ids = {1} /\ ~ R.pinned /\ ~ R.bad
    BY <2>1, EarlierMessages, Zenon
  <2>3. Task \in Message /\ Task.role = "user" /\ Task.ids = {} /\ Task.pinned /\ ~ Task.bad
    BY DEF Task, User, Message
  <2> QED
    BY <2>2, <2>3
<1>2. R = Result(1)
  BY DEF Earlier
<1>3. phase = "boundary" /\ x = NewRun /\ messages = ms
  BY DEF TurnInit
<1> HIDE DEF A, R
<1>4. /\ ms \in Seq(Message) /\ Len(ms) = 3 /\ 1..3 = {1, 2, 3}
      /\ ms[1] = A /\ ms[2] = R /\ ms[3] = Task
  BY <1>1
<1>5. 1 <= Upto(0 + 1) /\ Upto(0 + 1) \in Int
  <2>1. Upto(0) = 0
    BY TurnAssumption DEF Upto
  <2> QED
    BY <2>1, UptoGrows
<1> DEFINE D == {1, 2, 3}
<1> HIDE DEF ms
<1>6. Called(ms, D)
  <2>1. Quiet(ms, D, 1, 2)
    BY DEF Quiet
  <2> QED
    BY <1>1, <1>4, <2>1 DEF Called
<1>7. Replied(ms, D)
  <2>1. Quiet(ms, D, 1, 2)
    BY DEF Quiet
  <2> QED
    BY <1>1, <1>4, <2>1 DEF Replied
<1>8. Separate(ms, D)
  BY <1>1, <1>4 DEF Separate
<1>9. Tasked(ms, D)
  BY <1>1, <1>4 DEF Tasked
<1>10. Shaped(ms, D)
  BY <1>1, <1>2, <1>4 DEF Shaped
<1>11. Counted(ms, D, 1)
  <2>1. UsersOf(ms, D) = {3}
    BY <1>1, <1>4 DEF UsersOf
  <2> QED
    BY <2>1, FS_Singleton DEF Counted
<1>12. Below(ms, D, Upto(0 + 1))
  BY <1>1, <1>4, <1>5 DEF Below
<1>13. Whole(ms, 1, Upto(0 + 1))
  BY <1>4, <1>6, <1>7, <1>8, <1>9, <1>10, <1>11, <1>12 DEF Whole, WholeOn
<1>14. x.turn = 0 /\ x.more = 0 /\ HasTurn(x)
  BY <1>3 DEF NewRun, HasTurn
<1>15. ChatIsWhole
  <2>1. 1 + 0 = 1
    OBVIOUS
  <2> QED
    BY <1>3, <1>13, <1>14, <2>1 DEF ChatIsWhole, Reach
<1> QED
  BY <1>3, <1>14, <1>15 DEF WholeInv, CallsAreNew

\* A whole list passes ValidateMessageList unless an id was repeated: the results after
\* a call are told apart by their ids.
LEMMA WholeIsValid ==
    ASSUME NEW n, NEW b, Whole(messages, n, b), ~ RepeatedId
    PROVE  ValidList(messages)
<1> DEFINE D == 1..Len(messages)
<1>1. /\ messages \in Seq(Message) /\ DOMAIN messages = D /\ Len(messages) \in Nat
      /\ WholeOn(messages, D, n, b)
  BY DEF Whole
<1>2. \A k \in D : k \in Int /\ 1 <= k
  BY <1>1
<1>3. \A j, k \in D : j # k /\ messages[j].role = "tool" => messages[k] # messages[j]
  BY <1>1 DEF RepeatedId
<1>4. ASSUME NEW k \in D, messages[k].role = "tool"
      PROVE  \E j \in 1..(k - 1) :
                /\ messages[j].role = "assistant" /\ messages[k].ids \subseteq messages[j].ids
                /\ \A l \in (j + 1)..(k - 1) :
                      messages[l].role = "tool" => messages[l].ids # messages[k].ids
  <2>1. PICK j \in D : /\ j < k /\ messages[j].role = "assistant"
                       /\ messages[k].ids \subseteq messages[j].ids
    BY <1>1, <1>4 DEF WholeOn, Called
  <2>2. ASSUME NEW l \in (j + 1)..(k - 1), messages[l].role = "tool",
               messages[l].ids = messages[k].ids
        PROVE  FALSE
    <3>1. l \in D /\ l # k
      BY <1>1, <1>2, <2>1
    <3>2. PICK i \in Int : messages[l] = Result(i)
      BY <1>1, <2>2, <3>1 DEF WholeOn, Shaped
    <3>3. PICK m \in Int : messages[k] = Result(m)
      BY <1>1, <1>4 DEF WholeOn, Shaped
    <3>4. Result(i).ids = {i} /\ Result(m).ids = {m}
      BY DEF Result, User
    <3>5. i = m
      BY <2>2, <3>2, <3>3, <3>4
    <3> QED
      BY <1>3, <1>4, <3>1, <3>2, <3>3, <3>5
  <2>3. j \in 1..(k - 1)
    BY <1>2, <2>1
  <2> QED
    BY <2>1, <2>2, <2>3
<1> HIDE DEF D
<1> QED
  BY <1>1, <1>4 DEF ValidList

\* What the request needs follows from the whole list.
LEMMA WholeIsRequest ==
    ASSUME WholeInv PROVE RequestIsWhole
<1>1. ASSUME phase = "build" PROVE ValidList(messages) \/ RepeatedId
  BY <1>1, InWhole, WholeIsValid
<1>2. ASSUME phase = "call" PROVE KeepsTask /\ KeepsUsers /\ CallsAnswered
  <2> DEFINE D == 1..Len(messages)
  <2>1. Whole(messages, 1 + x.more, Upto(x.turn))
    BY <1>2, InWhole
  <2>2. /\ DOMAIN messages = D /\ Len(messages) \in Nat
        /\ WholeOn(messages, D, 1 + x.more, Upto(x.turn))
    BY <2>1 DEF Whole
  <2>3. KeepsTask
    BY <2>2 DEF KeepsTask, WholeOn, Tasked
  <2>4. KeepsUsers
    <3> HIDE DEF D
    <3> QED
      BY <2>2 DEF KeepsUsers, WholeOn, Counted, UsersOf
  <2>5. CallsAnswered
    <3>1. ASSUME NEW k \in D, messages[k].role = "assistant", NEW id \in messages[k].ids
          PROVE  \E j \in (k + 1)..Len(messages) :
                    messages[j].role = "tool" /\ messages[j].ids = {id}
      <4>1. PICK j \in D : k < j /\ messages[j].role = "tool" /\ messages[j].ids = {id}
        BY <2>2, <3>1 DEF WholeOn, Replied
      <4>2. j \in (k + 1)..Len(messages)
        BY <2>2, <4>1
      <4> QED
        BY <4>1, <4>2
    <3> HIDE DEF D
    <3> QED
      BY <2>2, <3>1 DEF CallsAnswered
  <2> QED
    BY <2>3, <2>4, <2>5
<1> QED
  BY <1>1, <1>2 DEF RequestIsWhole

\* Every request the model is sent holds the task and every message taken since, and pairs
\* calls with results: whatever the compactions of one_rule.go keep, whatever
\* repairMalformedToolCall takes out and however often callModel begins the round again;
\* ValidateMessageList fails on no list the run builds, unless the server repeated an id.
\* Repaired and Pick are about lists of any length: the wholeness of what they return is
\* proved by the least prefix for which it could fail.
THEOREM RequestsAreWhole == TurnSpec => []RequestIsWhole
<1>1. TurnInit => WholeInv
  BY WholeAtStart
<1>2. WholeInv /\ [TurnNext]_turnVars => WholeInv'
  BY WholeStep
<1>3. WholeInv => RequestIsWhole
  BY WholeIsRequest
<1> QED
  BY <1>1, <1>2, <1>3, PTL DEF TurnSpec

=============================================================================
