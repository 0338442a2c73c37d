--------------------------- MODULE JournalProofs ---------------------------
(***************************************************************************)
(* What holds of Journal for every number of messages, turns, deltas,      *)
(* crashes and faults: the journal follows the chat, waiting messages come *)
(* back, and the texts of completed turns are kept.                        *)
(*                                                                         *)
(* Without, Each and ProjectFrom are recursive functions.  A table holds   *)
(* what such a function computes; a property of every sequence is proved   *)
(* by induction for the set of the sequences that have it.                 *)
(***************************************************************************)
EXTENDS Journal, FiniteSetTheorems, WellFoundedInduction, TLAPS

-----------------------------------------------------------------------------
(* Induction for sets, tables of recursive functions, and the sequences. *)

\* Every set of naturals has a least one.
LEMMA LeastNat ==
    ASSUME NEW S \in SUBSET Nat, S # {}
    PROVE  \E m \in S : \A n \in S : m <= n
<1> DEFINE Less == {ss \in Nat \X Nat : ss[1] < ss[2]}
<1>1. PICK m \in S : \A n \in S : ~ (<<n, m>> \in Less)
  <2>1. IsWellFoundedOn(Less, Nat)
    BY NatLessThanWellFounded, Zenon DEF OpToRel
  <2> QED
    BY <2>1, WFMin, Zenon
<1>2. ASSUME NEW n \in S PROVE m <= n
  <2>1. n \in Nat /\ m \in Nat
    OBVIOUS
  <2>2. CASE n < m
    <3>1. <<n, m>> \in Less
      BY <2>1, <2>2
    <3> QED
      BY <3>1, <1>1
  <2> QED
    BY <2>1, <2>2
<1> QED
  BY <1>2

\* Induction over the naturals, for a set.
LEMMA Induct ==
    ASSUME NEW P, 0 \in P, \A k \in Nat : k \in P => k + 1 \in P
    PROVE  \A k \in Nat : k \in P
<1> DEFINE Bad == {k \in Nat : k \notin P}
<1>1. SUFFICES ASSUME Bad # {} PROVE FALSE
  OBVIOUS
<1>2. PICK m \in Bad : \A k \in Bad : m <= k
  <2>1. Bad \in SUBSET Nat
    OBVIOUS
  <2> HIDE DEF Bad
  <2> QED
    BY <1>1, <2>1, LeastNat
<1>3. m # 0 /\ m \in Nat
  OBVIOUS
<1>4. m - 1 \in Nat /\ m - 1 \notin Bad
  BY <1>2, <1>3
<1>5. (m - 1) + 1 = m
  BY <1>3
<1> QED
  BY <1>4, <1>5

\* The table of a recursion over 0 .. n whose steps F are in S.
TableOf(S, x, n, F, at) ==
    /\ at \in [0 .. n -> S]
    /\ at[0] = x
    /\ \A k \in 1 .. n : at[k] = F[k][at[k - 1]]

\* A table of n steps over S exists for every start and every list of step functions.
LEMMA TableExists ==
    ASSUME NEW S, NEW x \in S, NEW n \in Nat, NEW F \in [1 .. n -> [S -> S]]
    PROVE  \E at : TableOf(S, x, n, F, at)
<1> DEFINE P == {m \in Nat : m <= n => \E at : TableOf(S, x, m, F, at)}
<1>1. 0 \in P
  <2> DEFINE at == [k \in 0 .. 0 |-> x]
  <2>1. TableOf(S, x, 0, F, at)
    BY DEF TableOf
  <2> QED
    BY <2>1
<1>2. ASSUME NEW m \in Nat, m \in P PROVE m + 1 \in P
  <2> SUFFICES ASSUME m + 1 <= n PROVE \E at : TableOf(S, x, m + 1, F, at)
    OBVIOUS
  <2>1. m <= n
    OBVIOUS
  <2>2. PICK at : TableOf(S, x, m, F, at)
    BY <1>2, <2>1
  <2> DEFINE up == [k \in 0 .. m + 1 |-> IF k <= m THEN at[k] ELSE F[m + 1][at[m]]]
  <2>3. at[m] \in S /\ m + 1 \in 1 .. n
    BY <2>2 DEF TableOf
  <2>4. F[m + 1][at[m]] \in S
    BY <2>3
  <2>5. up \in [0 .. m + 1 -> S]
    BY <2>2, <2>4 DEF TableOf
  <2>6. up[0] = x
    BY <2>2 DEF TableOf
  <2>7. ASSUME NEW k \in 1 .. m + 1 PROVE up[k] = F[k][up[k - 1]]
    <3>1. up[k - 1] = at[k - 1]
      OBVIOUS
    <3>2. CASE k <= m
      <4>1. k \in 1 .. m /\ up[k] = at[k]
        BY <3>2
      <4> HIDE DEF up
      <4> QED
        BY <3>1, <4>1, <2>2 DEF TableOf
    <3>3. CASE k = m + 1
      <4>1. up[k] = F[m + 1][at[m]] /\ k - 1 = m
        BY <3>3
      <4> HIDE DEF up
      <4> QED
        BY <3>1, <3>3, <4>1
    <3> QED
      BY <3>2, <3>3
  <2> HIDE DEF up
  <2>8. TableOf(S, x, m + 1, F, up)
    BY <2>5, <2>6, <2>7 DEF TableOf
  <2> QED
    BY <2>8
<1> HIDE DEF P
<1>3. \A k \in Nat : k \in P
  BY <1>1, <1>2, Induct
<1>4. n \in P
  BY <1>3
<1> QED
  BY <1>4 DEF P

\* A sequence that is not empty is one shorter and a last member.
LEMMA FrontAndLast ==
    ASSUME NEW S, NEW s \in Seq(S), NEW n \in Nat, Len(s) = n + 1
    PROVE  \E f \in Seq(S) : \E x \in S : s = Append(f, x) /\ Len(f) = n
<1> DEFINE g == SubSeq(s, 1, n)
           z == s[n + 1]
<1>1. g \in Seq(S) /\ Len(g) = n
  OBVIOUS
<1>2. z \in S
  OBVIOUS
<1>3. s = Append(g, z)
  <2>1. Append(g, z) \in Seq(S) /\ Len(Append(g, z)) = n + 1
    BY <1>1, <1>2
  <2>2. \A i \in 1 .. n + 1 : Append(g, z)[i] = s[i]
    OBVIOUS
  <2> HIDE DEF g, z
  <2> QED
    BY <2>1, <2>2
<1> HIDE DEF g, z
<1>4. \E x \in S : s = Append(g, x) /\ Len(g) = n
  BY <1>1, <1>2, <1>3
<1> QED
  BY <1>1, <1>4

\* Induction over sequences, for a set.
LEMMA SeqInduct ==
    ASSUME NEW S, NEW P, <<>> \in P,
           \A s \in Seq(S) : \A x \in S : s \in P => Append(s, x) \in P
    PROVE  \A s \in Seq(S) : s \in P
<1> DEFINE Q == {n \in Nat : \A s \in Seq(S) : Len(s) = n => s \in P}
<1>1. 0 \in Q
  <2>1. \A s \in Seq(S) : Len(s) = 0 => s = <<>>
    OBVIOUS
  <2> QED
    BY <2>1
<1>2. ASSUME NEW n \in Nat, n \in Q PROVE n + 1 \in Q
  <2> SUFFICES ASSUME NEW s \in Seq(S), Len(s) = n + 1 PROVE s \in P
    OBVIOUS
  <2>1. PICK f \in Seq(S) : \E x \in S : s = Append(f, x) /\ Len(f) = n
    BY FrontAndLast
  <2>2. PICK x \in S : s = Append(f, x)
    BY <2>1
  <2>3. f \in P
    BY <1>2, <2>1
  <2> QED
    BY <2>2, <2>3
<1> HIDE DEF Q
<1>3. \A n \in Nat : n \in Q
  BY <1>1, <1>2, Induct
<1> QED
  <2> SUFFICES ASSUME NEW s \in Seq(S) PROVE s \in P
    OBVIOUS
  <2>1. Len(s) \in Q
    BY <1>3
  <2> QED
    BY <2>1 DEF Q

\* The beginnings of two tables with the same steps are the same.
LEMMA TablesAgree ==
    ASSUME NEW S, NEW x \in S, NEW n \in Nat, NEW m \in Nat, n <= m,
           NEW F, NEW G, NEW at, NEW bt,
           TableOf(S, x, n, F, at), TableOf(S, x, m, G, bt),
           \A k \in 1 .. n : F[k] = G[k]
    PROVE  at[n] = bt[n]
<1> DEFINE P == {k \in Nat : k <= n => at[k] = bt[k]}
<1>1. 0 \in P
  BY DEF TableOf
<1>2. ASSUME NEW k \in Nat, k \in P PROVE k + 1 \in P
  <2> SUFFICES ASSUME k + 1 <= n PROVE at[k + 1] = bt[k + 1]
    OBVIOUS
  <2>1. at[k] = bt[k]
    BY <1>2
  <2>2. k + 1 \in 1 .. n /\ k + 1 \in 1 .. m /\ (k + 1) - 1 = k
    OBVIOUS
  <2>3. at[k + 1] = F[k + 1][at[k]] /\ bt[k + 1] = G[k + 1][bt[k]]
    BY <2>2 DEF TableOf
  <2> QED
    BY <2>1, <2>2, <2>3
<1> HIDE DEF P
<1>3. n \in P
  BY <1>1, <1>2, Induct
<1> QED
  BY <1>3 DEF P

\* A table that is one entry longer.
LEMMA TableStep ==
    ASSUME NEW S, NEW x \in S, NEW n \in Nat, NEW m \in Nat, m = n + 1,
           NEW F, NEW G, NEW at, NEW bt, TableOf(S, x, n, F, at), TableOf(S, x, m, G, bt),
           \A k \in 1 .. n : F[k] = G[k]
    PROVE  bt[m] = G[m][at[n]] /\ at[n] \in S
<1>1. n <= m
  OBVIOUS
<1>2. at[n] = bt[n]
  BY <1>1, TablesAgree
<1>3. m \in 1 .. m /\ m - 1 = n /\ n \in 0 .. n
  OBVIOUS
<1>4. bt[m] = G[m][bt[n]] /\ at[n] \in S
  BY <1>3 DEF TableOf
<1> QED
  BY <1>2, <1>4

(* Without.                                                                *)

\* The steps of Without.
WithoutSteps(S, s, D) ==
    [k \in 1 .. Len(s) |-> [q \in Seq(S) |-> IF s[k] \in D THEN q ELSE Append(q, s[k])]]

\* The steps of Without map sequences to sequences.
LEMMA WithoutStepsType ==
    ASSUME NEW S, NEW s \in Seq(S), NEW D
    PROVE  WithoutSteps(S, s, D) \in [1 .. Len(s) -> [Seq(S) -> Seq(S)]]
<1>1. ASSUME NEW k \in 1 .. Len(s), NEW q \in Seq(S)
      PROVE  (IF s[k] \in D THEN q ELSE Append(q, s[k])) \in Seq(S)
  <2>1. s[k] \in S
    OBVIOUS
  <2> QED
    BY <2>1
<1> QED
  BY <1>1 DEF WithoutSteps

\* Without is the last entry of the table of its steps.
LEMMA WithoutIs ==
    ASSUME NEW S, NEW s \in Seq(S), NEW D
    PROVE  \E at : /\ TableOf(Seq(S), <<>>, Len(s), WithoutSteps(S, s, D), at)
                   /\ Without(s, D) = at[Len(s)]
<1> DEFINE n == Len(s)
           Body(i, g) == IF i = 0 THEN <<>>
                         ELSE IF s[i] \in D THEN g[i - 1] ELSE Append(g[i - 1], s[i])
           F == WithoutSteps(S, s, D)
           f == CHOOSE g : g = [i \in 0 .. Len(s) |-> Body(i, g)]
<1>1. n \in Nat /\ <<>> \in Seq(S)
  OBVIOUS
<1>2. PICK at : TableOf(Seq(S), <<>>, n, F, at)
  <2>1. F \in [1 .. n -> [Seq(S) -> Seq(S)]]
    BY WithoutStepsType
  <2> HIDE DEF F, n
  <2> QED
    BY <1>1, <2>1, TableExists, Zenon
<1>3. ASSUME NEW k \in 1 .. n, NEW q \in Seq(S)
      PROVE  F[k][q] = IF s[k] \in D THEN q ELSE Append(q, s[k])
  BY DEF WithoutSteps
<1>4. ASSUME NEW i \in 0 .. n PROVE at[i] = Body(i, at)
  <2>1. CASE i = 0
    BY <1>2, <2>1 DEF TableOf
  <2>2. CASE i # 0
    <3>1. i \in 1 .. n /\ i - 1 \in 0 .. n
      BY <1>1, <2>2
    <3> HIDE DEF F, n
    <3>2. at[i] = F[i][at[i - 1]] /\ at[i - 1] \in Seq(S)
      BY <1>2, <3>1 DEF TableOf
    <3> QED
      BY <1>3, <3>1, <3>2, <2>2
  <2> QED
    BY <2>1, <2>2
<1>5. at = [i \in 0 .. n |-> Body(i, at)]
  <2>1. at = [i \in 0 .. n |-> at[i]]
    BY <1>2 DEF TableOf
  <2> HIDE DEF Body, n
  <2> QED
    BY <1>4, <2>1
<1>6. f = [i \in 0 .. n |-> Body(i, f)]
  <2> HIDE DEF Body
  <2> QED
    BY <1>5, Zenon
<1>7. Without(s, D) = f[n]
  BY Zenon DEF Without
<1> HIDE DEF f, F
<1>8. f[n] = at[n]
  <2> DEFINE P == {k \in Nat : k <= n => f[k] = at[k]}
  <2>1. 0 \in P
    BY <1>6, <1>4
  <2>2. ASSUME NEW k \in Nat, k \in P PROVE k + 1 \in P
    <3> SUFFICES ASSUME k + 1 <= n PROVE f[k + 1] = at[k + 1]
      OBVIOUS
    <3>1. k + 1 \in 0 .. n /\ (k + 1) - 1 = k /\ k + 1 # 0
      OBVIOUS
    <3>2. f[k] = at[k]
      BY <2>2
    <3>3. f[k + 1] = Body(k + 1, f)
      <4> HIDE DEF Body
      <4> QED
        BY <1>6, <3>1
    <3>4. at[k + 1] = Body(k + 1, at)
      BY <1>4, <3>1
    <3> QED
      BY <3>1, <3>2, <3>3, <3>4
  <2> HIDE DEF P
  <2>3. n \in P
    BY <1>1, <2>1, <2>2, Induct
  <2> QED
    BY <2>3 DEF P
<1> QED
  BY <1>2, <1>7, <1>8 DEF F

\* Dropping members leaves a sequence over the same set.
LEMMA WithoutType ==
    ASSUME NEW S, NEW s \in Seq(S), NEW D
    PROVE  Without(s, D) \in Seq(S)
<1>1. PICK at : /\ TableOf(Seq(S), <<>>, Len(s), WithoutSteps(S, s, D), at)
                /\ Without(s, D) = at[Len(s)]
  BY WithoutIs, Zenon
<1>2. at \in [0 .. Len(s) -> Seq(S)]
  BY <1>1 DEF TableOf
<1> QED
  BY <1>1, <1>2

\* Nothing can be dropped from the empty sequence.
LEMMA WithoutEmpty ==
    ASSUME NEW D
    PROVE  Without(<<>>, D) = <<>>
<1>1. <<>> \in Seq({}) /\ Len(<<>>) = 0
  OBVIOUS
<1>2. PICK at : /\ TableOf(Seq({}), <<>>, Len(<<>>), WithoutSteps({}, <<>>, D), at)
                /\ Without(<<>>, D) = at[Len(<<>>)]
  BY <1>1, WithoutIs, Zenon
<1> QED
  BY <1>1, <1>2 DEF TableOf

\* Without, member by member.
LEMMA WithoutAppend ==
    ASSUME NEW S, NEW s \in Seq(S), NEW x \in S, NEW D
    PROVE  Without(Append(s, x), D) =
              IF x \in D THEN Without(s, D) ELSE Append(Without(s, D), x)
<1> DEFINE n == Len(s)
           t == Append(s, x)
           F == WithoutSteps(S, s, D)
           G == WithoutSteps(S, t, D)
<1>1. /\ n \in Nat /\ t \in Seq(S) /\ Len(t) = n + 1 /\ <<>> \in Seq(S)
      /\ t[n + 1] = x /\ \A k \in 1 .. n : t[k] = s[k]
  OBVIOUS
<1> HIDE DEF t
<1>2. PICK at : TableOf(Seq(S), <<>>, n, F, at) /\ Without(s, D) = at[n]
  BY WithoutIs, Zenon
<1>3. PICK bt : TableOf(Seq(S), <<>>, n + 1, G, bt) /\ Without(t, D) = bt[n + 1]
  <2>1. \E b : TableOf(Seq(S), <<>>, Len(t), G, b) /\ Without(t, D) = b[Len(t)]
    BY <1>1, WithoutIs, Zenon
  <2> QED
    BY <2>1, <1>1
<1>4. ASSUME NEW k \in 1 .. n PROVE F[k] = G[k]
  <2>1. k \in 1 .. Len(s) /\ k \in 1 .. Len(t) /\ t[k] = s[k]
    BY <1>1
  <2>2. F[k] = [q \in Seq(S) |-> IF s[k] \in D THEN q ELSE Append(q, s[k])]
    BY <2>1 DEF WithoutSteps
  <2>3. G[k] = [q \in Seq(S) |-> IF t[k] \in D THEN q ELSE Append(q, t[k])]
    BY <2>1 DEF WithoutSteps
  <2> QED
    BY <2>1, <2>2, <2>3
<1>5. \A q \in Seq(S) : G[n + 1][q] = IF x \in D THEN q ELSE Append(q, x)
  BY <1>1 DEF WithoutSteps
<1> HIDE DEF F, G, n
<1>6. bt[n + 1] = G[n + 1][at[n]] /\ at[n] \in Seq(S)
  <2> DEFINE T == Seq(S)
             e == <<>>
             m == n + 1
  <2>1. /\ TableOf(T, e, n, F, at) /\ TableOf(T, e, m, G, bt) /\ e \in T /\ n \in Nat
        /\ m \in Nat /\ m = n + 1
    BY <1>1, <1>2, <1>3
  <2>2. \A k \in 1 .. n : F[k] = G[k]
    BY <1>4
  <2>3. bt[m] = G[m][at[n]] /\ at[n] \in T
    <3> HIDE DEF T, e, m
    <3> QED
      BY <2>1, <2>2, TableStep
  <2> QED
    BY <2>3
<1> QED
  BY <1>2, <1>3, <1>5, <1>6 DEF t

\* Appending adds one member.
LEMMA RangeAppend ==
    ASSUME NEW S, NEW s \in Seq(S), NEW x \in S
    PROVE  Range(Append(s, x)) = Range(s) \cup {x}
<1> DEFINE t == Append(s, x)
           n == Len(s)
<1>1. /\ n \in Nat /\ DOMAIN s = 1 .. n /\ DOMAIN t = 1 .. n + 1
      /\ \A k \in 1 .. n : t[k] = s[k]
      /\ t[n + 1] = x
  OBVIOUS
<1> HIDE DEF t, n
<1>2. \A k \in 1 .. n : k \in 1 .. n + 1
  BY <1>1
<1>3. n + 1 \in 1 .. n + 1 /\ \A k \in 1 .. n + 1 : k \in 1 .. n \/ k = n + 1
  BY <1>1
<1>4. ASSUME NEW y \in Range(t) PROVE y \in Range(s) \cup {x}
  <2>1. PICK k \in 1 .. n + 1 : y = t[k]
    BY <1>1 DEF Range
  <2> QED
    BY <1>1, <1>3, <2>1 DEF Range
<1>5. ASSUME NEW y \in Range(s) PROVE y \in Range(t)
  <2>1. PICK k \in 1 .. n : y = s[k]
    BY <1>1 DEF Range
  <2> QED
    BY <1>1, <1>2, <2>1 DEF Range
<1>6. x \in Range(t)
  BY <1>1, <1>3 DEF Range
<1> QED
  BY <1>4, <1>5, <1>6 DEF t

\* The members that are left are the ones that are not dropped.
LEMMA WithoutRange ==
    ASSUME NEW S, NEW s \in Seq(S), NEW D
    PROVE  Range(Without(s, D)) = Range(s) \ D
<1> DEFINE P == {q \in Seq(S) : Range(Without(q, D)) = Range(q) \ D}
<1>1. <<>> \in P
  BY WithoutEmpty DEF Range
<1>2. ASSUME NEW q \in Seq(S), NEW x \in S, q \in P PROVE Append(q, x) \in P
  <2>1. \A u \in Seq(S) : Range(Append(u, x)) = Range(u) \cup {x}
    BY RangeAppend
  <2>2. Without(q, D) \in Seq(S)
    BY WithoutType
  <2>3. Without(Append(q, x), D) = IF x \in D THEN Without(q, D) ELSE Append(Without(q, D), x)
    BY WithoutAppend
  <2>4. Range(Without(Append(q, x), D)) = (Range(q) \cup {x}) \ D
    <3>1. CASE x \in D
      BY <3>1, <2>3, <1>2
    <3>2. CASE x \notin D
      <4>1. Range(Append(Without(q, D), x)) = Range(Without(q, D)) \cup {x}
        BY <2>1, <2>2
      <4> QED
        BY <3>2, <4>1, <2>3, <1>2
    <3> QED
      BY <3>1, <3>2
  <2> QED
    BY <2>1, <2>4
<1> HIDE DEF P
<1>3. s \in P
  BY <1>1, <1>2, SeqInduct
<1> QED
  BY <1>3 DEF P

\* Dropping twice is dropping the union.
LEMMA WithoutTwice ==
    ASSUME NEW S, NEW s \in Seq(S), NEW D, NEW E
    PROVE  Without(Without(s, D), E) = Without(s, D \cup E)
<1> DEFINE P == {q \in Seq(S) : Without(Without(q, D), E) = Without(q, D \cup E)}
<1>1. <<>> \in P
  BY WithoutEmpty
<1>2. ASSUME NEW q \in Seq(S), NEW x \in S, q \in P PROVE Append(q, x) \in P
  <2>1. Without(q, D) \in Seq(S)
    BY WithoutType
  <2>2. Without(Append(q, x), D) = IF x \in D THEN Without(q, D) ELSE Append(Without(q, D), x)
    BY WithoutAppend
  <2>3. Without(Append(q, x), D \cup E) =
          IF x \in D \cup E THEN Without(q, D \cup E) ELSE Append(Without(q, D \cup E), x)
    BY WithoutAppend
  <2>4. Without(Append(Without(q, D), x), E) =
          IF x \in E THEN Without(Without(q, D), E) ELSE Append(Without(Without(q, D), E), x)
    BY <2>1, WithoutAppend
  <2>5. Append(q, x) \in Seq(S)
    OBVIOUS
  <2>6. Without(Without(Append(q, x), D), E) = Without(Append(q, x), D \cup E)
    BY <1>2, <2>2, <2>3, <2>4
  <2> QED
    BY <2>5, <2>6
<1> HIDE DEF P
<1>3. s \in P
  BY <1>1, <1>2, SeqInduct
<1> QED
  BY <1>3 DEF P

\* Only what is there can be taken away.
LEMMA WithoutOthers ==
    ASSUME NEW S, NEW s \in Seq(S), NEW D, Range(s) \cap D = {}
    PROVE  Without(s, D) = s
<1> DEFINE P == {q \in Seq(S) : Range(q) \cap D = {} => Without(q, D) = q}
<1>1. <<>> \in P
  BY WithoutEmpty
<1>2. ASSUME NEW q \in Seq(S), NEW x \in S, q \in P PROVE Append(q, x) \in P
  <2>1. Range(Append(q, x)) = Range(q) \cup {x}
    BY RangeAppend
  <2>2. Without(Append(q, x), D) = IF x \in D THEN Without(q, D) ELSE Append(Without(q, D), x)
    BY WithoutAppend
  <2>3. Append(q, x) \in Seq(S)
    OBVIOUS
  <2>4. Range(Append(q, x)) \cap D = {} => Without(Append(q, x), D) = Append(q, x)
    BY <1>2, <2>1, <2>2
  <2> QED
    BY <2>3, <2>4
<1> HIDE DEF P
<1>3. s \in P
  BY <1>1, <1>2, SeqInduct
<1> QED
  BY <1>3 DEF P

\* Dropping goes through concatenation.
LEMMA WithoutConcat ==
    ASSUME NEW S, NEW s \in Seq(S), NEW t \in Seq(S), NEW D
    PROVE  Without(s \o t, D) = Without(s, D) \o Without(t, D)
<1> DEFINE P == {q \in Seq(S) : Without(s \o q, D) = Without(s, D) \o Without(q, D)}
<1>1. <<>> \in P
  <2>1. s \o <<>> = s
    OBVIOUS
  <2>2. Without(s, D) \in Seq(S)
    BY WithoutType
  <2>3. Without(s, D) \o <<>> = Without(s, D)
    BY <2>2
  <2>4. Without(s \o <<>>, D) = Without(s, D) \o Without(<<>>, D)
    BY <2>1, <2>3, WithoutEmpty
  <2>5. <<>> \in Seq(S)
    OBVIOUS
  <2> QED
    BY <2>4, <2>5
<1>2. ASSUME NEW q \in Seq(S), NEW x \in S, q \in P PROVE Append(q, x) \in P
  <2>1. s \o Append(q, x) = Append(s \o q, x) /\ s \o q \in Seq(S) /\ Append(q, x) \in Seq(S)
    OBVIOUS
  <2>2. Without(Append(s \o q, x), D) =
           IF x \in D THEN Without(s \o q, D) ELSE Append(Without(s \o q, D), x)
    <3> DEFINE v == s \o q
    <3>1. v \in Seq(S)
      BY <2>1
    <3> HIDE DEF v
    <3>2. Without(Append(v, x), D) = IF x \in D THEN Without(v, D) ELSE Append(Without(v, D), x)
      BY <3>1, WithoutAppend
    <3> QED
      BY <3>2 DEF v
  <2>3. Without(Append(q, x), D) = IF x \in D THEN Without(q, D) ELSE Append(Without(q, D), x)
    BY WithoutAppend
  <2>4. Without(s, D) \in Seq(S) /\ Without(q, D) \in Seq(S)
    BY WithoutType
  <2>5. Without(s, D) \o Append(Without(q, D), x) = Append(Without(s, D) \o Without(q, D), x)
    BY <2>4
  <2>6. Without(s \o Append(q, x), D) = Without(s, D) \o Without(Append(q, x), D)
    BY <1>2, <2>1, <2>2, <2>3, <2>5
  <2> QED
    BY <2>1, <2>6
<1> HIDE DEF P
<1>3. t \in P
  BY <1>1, <1>2, SeqInduct
<1> QED
  BY <1>3 DEF P

\* A concatenation has the members of both parts.
LEMMA RangeConcat ==
    ASSUME NEW S, NEW s \in Seq(S), NEW t \in Seq(S)
    PROVE  Range(s \o t) = Range(s) \cup Range(t)
<1> DEFINE P == {q \in Seq(S) : Range(s \o q) = Range(s) \cup Range(q)}
<1>1. <<>> \in P
  <2>1. s \o <<>> = s /\ <<>> \in Seq(S)
    OBVIOUS
  <2>2. Range(<<>>) = {}
    BY DEF Range
  <2> QED
    BY <2>1, <2>2
<1>2. ASSUME NEW q \in Seq(S), NEW x \in S, q \in P PROVE Append(q, x) \in P
  <2>1. s \o Append(q, x) = Append(s \o q, x) /\ s \o q \in Seq(S) /\ Append(q, x) \in Seq(S)
    OBVIOUS
  <2>2. Range(Append(s \o q, x)) = Range(s \o q) \cup {x}
    <3> DEFINE u == s \o q
    <3>1. u \in Seq(S)
      BY <2>1
    <3> HIDE DEF u
    <3>2. Range(Append(u, x)) = Range(u) \cup {x}
      BY <3>1, RangeAppend
    <3> QED
      BY <3>2 DEF u
  <2>3. Range(Append(q, x)) = Range(q) \cup {x}
    BY RangeAppend
  <2>4. Range(s \o Append(q, x)) = Range(s) \cup Range(Append(q, x))
    BY <1>2, <2>1, <2>2, <2>3
  <2> QED
    BY <2>1, <2>4
<1> HIDE DEF P
<1>3. t \in P
  BY <1>1, <1>2, SeqInduct
<1> QED
  BY <1>3 DEF P

(* Each.                                                                   *)

\* The steps of Each.
EachSteps(T, s, f) ==
    [k \in 1 .. Len(s) |-> [q \in Seq(T) |-> q \o f[s[k]]]]

EachTable(T, s, f, at) ==
    TableOf(Seq(T), <<>>, Len(s), EachSteps(T, s, f), at) /\ Each(s, f) = at[Len(s)]

\* Each is the last entry of the table of its steps.
LEMMA EachIs ==
    ASSUME NEW T, NEW s \in Seq(Message), NEW f \in [Message -> Seq(T)]
    PROVE  \E at : EachTable(T, s, f, at)
<1> DEFINE n == Len(s)
           Body(i, g) == IF i = 0 THEN <<>> ELSE g[i - 1] \o f[s[i]]
           F == EachSteps(T, s, f)
           h == CHOOSE g : g = [i \in 0 .. Len(s) |-> Body(i, g)]
<1>1. n \in Nat /\ <<>> \in Seq(T)
  OBVIOUS
<1>2. PICK at : TableOf(Seq(T), <<>>, n, F, at)
  <2>1. F \in [1 .. n -> [Seq(T) -> Seq(T)]]
    <3>1. ASSUME NEW k \in 1 .. Len(s), NEW q \in Seq(T) PROVE q \o f[s[k]] \in Seq(T)
      <4>1. s[k] \in Message
        OBVIOUS
      <4>2. f[s[k]] \in Seq(T)
        BY <4>1
      <4> QED
        BY <4>2
    <3> QED
      BY <3>1 DEF EachSteps
  <2> HIDE DEF F, n
  <2> QED
    BY <1>1, <2>1, TableExists, Zenon
<1>3. ASSUME NEW k \in 1 .. n, NEW q \in Seq(T) PROVE F[k][q] = q \o f[s[k]]
  BY DEF EachSteps
<1>4. ASSUME NEW i \in 0 .. n PROVE at[i] = Body(i, at)
  <2>1. CASE i = 0
    BY <1>2, <2>1 DEF TableOf
  <2>2. CASE i # 0
    <3>1. i \in 1 .. n /\ i - 1 \in 0 .. n
      BY <1>1, <2>2
    <3> HIDE DEF F, n
    <3>2. at[i] = F[i][at[i - 1]] /\ at[i - 1] \in Seq(T)
      BY <1>2, <3>1 DEF TableOf
    <3> QED
      BY <1>3, <3>1, <3>2, <2>2
  <2> QED
    BY <2>1, <2>2
<1>5. at = [i \in 0 .. n |-> Body(i, at)]
  <2>1. at = [i \in 0 .. n |-> at[i]]
    BY <1>2 DEF TableOf
  <2> HIDE DEF Body, n
  <2> QED
    BY <1>4, <2>1
<1>6. h = [i \in 0 .. n |-> Body(i, h)]
  <2> HIDE DEF Body
  <2> QED
    BY <1>5, Zenon
<1>7. Each(s, f) = h[n]
  BY Zenon DEF Each
<1> HIDE DEF h, F
<1>8. h[n] = at[n]
  <2> DEFINE P == {k \in Nat : k <= n => h[k] = at[k]}
  <2>1. 0 \in P
    BY <1>6, <1>4
  <2>2. ASSUME NEW k \in Nat, k \in P PROVE k + 1 \in P
    <3> SUFFICES ASSUME k + 1 <= n PROVE h[k + 1] = at[k + 1]
      OBVIOUS
    <3>1. k + 1 \in 0 .. n /\ (k + 1) - 1 = k /\ k + 1 # 0
      OBVIOUS
    <3>2. h[k] = at[k]
      BY <2>2
    <3>3. h[k + 1] = Body(k + 1, h)
      <4> HIDE DEF Body
      <4> QED
        BY <1>6, <3>1
    <3>4. at[k + 1] = Body(k + 1, at)
      BY <1>4, <3>1
    <3> QED
      BY <3>1, <3>2, <3>3, <3>4
  <2> HIDE DEF P
  <2>3. n \in P
    BY <1>1, <2>1, <2>2, Induct
  <2> QED
    BY <2>3 DEF P
<1> QED
  BY <1>2, <1>7, <1>8 DEF F, EachTable

\* A list of lists is a list.
LEMMA EachType ==
    ASSUME NEW T, NEW s \in Seq(Message), NEW f \in [Message -> Seq(T)]
    PROVE  Each(s, f) \in Seq(T)
<1>1. PICK at : EachTable(T, s, f, at)
  BY EachIs
<1>2. at \in [0 .. Len(s) -> Seq(T)]
  BY <1>1 DEF TableOf, EachTable
<1> QED
  BY <1>1, <1>2 DEF EachTable

\* Nothing is published for nobody.
LEMMA EachEmpty ==
    ASSUME NEW T, NEW f \in [Message -> Seq(T)]
    PROVE  Each(<<>>, f) = <<>>
<1>1. <<>> \in Seq(Message) /\ Len(<<>>) = 0
  OBVIOUS
<1>2. PICK at : EachTable(T, <<>>, f, at)
  BY <1>1, EachIs
<1> QED
  BY <1>1, <1>2 DEF TableOf, EachTable

\* Each, member by member.
LEMMA EachAppend ==
    ASSUME NEW T, NEW s \in Seq(Message), NEW x \in Message, NEW f \in [Message -> Seq(T)]
    PROVE  Each(Append(s, x), f) = Each(s, f) \o f[x]
<1> DEFINE n == Len(s)
           t == Append(s, x)
           F == EachSteps(T, s, f)
           G == EachSteps(T, t, f)
<1>1. /\ n \in Nat /\ t \in Seq(Message) /\ Len(t) = n + 1 /\ <<>> \in Seq(T)
      /\ t[n + 1] = x /\ \A k \in 1 .. n : t[k] = s[k]
  OBVIOUS
<1> HIDE DEF t
<1>2. PICK at : TableOf(Seq(T), <<>>, n, F, at) /\ Each(s, f) = at[n]
  <2>1. PICK b : EachTable(T, s, f, b)
    BY EachIs
  <2> QED
    BY <2>1 DEF EachTable
<1>3. PICK bt : TableOf(Seq(T), <<>>, n + 1, G, bt) /\ Each(t, f) = bt[n + 1]
  <2>1. PICK b : EachTable(T, t, f, b)
    BY <1>1, EachIs
  <2> QED
    BY <2>1, <1>1 DEF EachTable
<1>4. ASSUME NEW k \in 1 .. n PROVE F[k] = G[k]
  <2>1. k \in 1 .. Len(s) /\ k \in 1 .. Len(t) /\ t[k] = s[k]
    BY <1>1
  <2>2. F[k] = [q \in Seq(T) |-> q \o f[s[k]]]
    BY <2>1 DEF EachSteps
  <2>3. G[k] = [q \in Seq(T) |-> q \o f[t[k]]]
    BY <2>1 DEF EachSteps
  <2> QED
    BY <2>1, <2>2, <2>3
<1>5. \A q \in Seq(T) : G[n + 1][q] = q \o f[x]
  <2>1. n + 1 \in 1 .. Len(t)
    BY <1>1
  <2>2. G[n + 1] = [q \in Seq(T) |-> q \o f[t[n + 1]]]
    BY <2>1 DEF EachSteps
  <2> QED
    BY <1>1, <2>2
<1> HIDE DEF F, G, n
<1>6. bt[n + 1] = G[n + 1][at[n]] /\ at[n] \in Seq(T)
  <2> DEFINE V == Seq(T)
             e == <<>>
             m == n + 1
  <2>1. /\ TableOf(V, e, n, F, at) /\ TableOf(V, e, m, G, bt) /\ e \in V /\ n \in Nat
        /\ m \in Nat /\ m = n + 1
    BY <1>1, <1>2, <1>3
  <2>2. \A k \in 1 .. n : F[k] = G[k]
    BY <1>4
  <2>3. bt[m] = G[m][at[n]] /\ at[n] \in V
    <3> HIDE DEF V, e, m
    <3> QED
      BY <2>1, <2>2, TableStep
  <2> QED
    BY <2>3
<1> QED
  BY <1>2, <1>3, <1>5, <1>6 DEF t

-----------------------------------------------------------------------------
(* The projection of records. *)

\* What NextState does to each field of the snapshot.
NextMessages(s, r) ==
    IF r.type = "message.appended" THEN Append(s.messages, r.id)
    ELSE IF r.type = "message.removed" THEN Without(s.messages, {r.id})
    ELSE IF r.type = "session.created" THEN r.session.messages
    ELSE s.messages
NextQueued(s, r) ==
    IF r.type = "message.queued" THEN Append(s.queued, r.id)
    ELSE IF r.type \in {"message.queued.0", "run.started"} THEN Without(s.queued, {r.id})
    ELSE IF r.type = "session.created" THEN r.session.queued
    ELSE s.queued
NextRunning(s, r) ==
    IF r.type = "run.started" THEN TRUE
    ELSE IF r.type = "run.stopped" THEN FALSE
    ELSE IF r.type = "session.created" THEN r.session.running
    ELSE s.running
NextShown(s, r, t) ==
    IF r.type = "session.created" THEN r.session.shown[t]
    ELSE IF r.type = "model.delta" /\ r.turn = t THEN s.shown[t] + 1
    ELSE IF r.type = "model.response" /\ r.turn = t
         THEN IF t \in Reasoning THEN r.kept ELSE r.text
    ELSE IF r.type = "run.stopped" /\ r.turn = t THEN r.kept
    ELSE s.shown[t]

Stepped(s, r, z) ==
    /\ z \in State
    /\ z.messages = NextMessages(s, r)
    /\ z.queued = NextQueued(s, r)
    /\ z.running = NextRunning(s, r)
    /\ \A t \in Turn : z.shown[t] = NextShown(s, r, t)

\* NextState, field by field.
LEMMA NextStateIs ==
    ASSUME NEW s \in State, NEW r \in Record
    PROVE  Stepped(s, r, NextState(s, r))
<1>1. CASE r \in IdRecord
  <2>1. r.id \in Message /\ r.type \in IdTypes
    BY <1>1 DEF IdRecord
  <2>2. /\ s.messages \in Seq(Message) /\ s.queued \in Seq(Message)
        /\ s.shown \in [Turn -> Nat] /\ s.running \in BOOLEAN
    BY DEF State
  <2>3. Without(s.messages, {r.id}) \in Seq(Message) /\ Without(s.queued, {r.id}) \in Seq(Message)
    BY <2>2, WithoutType
  <2>4. Append(s.messages, r.id) \in Seq(Message) /\ Append(s.queued, r.id) \in Seq(Message)
    BY <2>1, <2>2
  <2>5. CASE r.type = "message.appended"
    <3>1. NextState(s, r) = [s EXCEPT !.messages = Append(@, r.id)]
      BY <2>5 DEF NextState
    <3> QED
      BY <2>5, <3>1, <2>4 DEF Stepped, State, NextMessages, NextQueued, NextRunning, NextShown
  <2>6. CASE r.type = "message.removed"
    <3>1. NextState(s, r) = [s EXCEPT !.messages = Without(@, {r.id})]
      BY <2>6 DEF NextState
    <3> QED
      BY <2>6, <3>1, <2>3 DEF Stepped, State, NextMessages, NextQueued, NextRunning, NextShown
  <2>7. CASE r.type = "message.queued"
    <3>1. NextState(s, r) = [s EXCEPT !.queued = Append(@, r.id)]
      BY <2>7 DEF NextState
    <3> QED
      BY <2>7, <3>1, <2>4 DEF Stepped, State, NextMessages, NextQueued, NextRunning, NextShown
  <2>8. CASE r.type = "message.queued.0"
    <3>1. NextState(s, r) = [s EXCEPT !.queued = Without(@, {r.id})]
      BY <2>8 DEF NextState
    <3> QED
      BY <2>8, <3>1, <2>3 DEF Stepped, State, NextMessages, NextQueued, NextRunning, NextShown
  <2>9. CASE r.type = "run.started"
    <3>1. NextState(s, r) = [s EXCEPT !.queued = Without(@, {r.id}), !.running = TRUE]
      BY <2>9 DEF NextState
    <3> QED
      BY <2>9, <3>1, <2>3 DEF Stepped, State, NextMessages, NextQueued, NextRunning, NextShown
  <2> QED
    BY <2>1, <2>5, <2>6, <2>7, <2>8, <2>9 DEF IdTypes
<1>2. CASE r \in TurnRecord
  <2>1. r.turn \in Turn /\ r.type \in {"model.request", "model.delta"}
    BY <1>2 DEF TurnRecord
  <2>2. CASE r.type = "model.request"
    <3>1. NextState(s, r) = s
      BY <2>2 DEF NextState
    <3> QED
      BY <2>2, <3>1 DEF Stepped, State, NextMessages, NextQueued, NextRunning, NextShown
  <2>3. CASE r.type = "model.delta"
    <3> DEFINE new == [s.shown EXCEPT ![r.turn] = @ + 1]
    <3>1. NextState(s, r) = [s EXCEPT !.shown = new]
      BY <2>3 DEF NextState
    <3>2. new \in [Turn -> Nat] /\ \A t \in Turn : new[t] = NextShown(s, r, t)
      BY <2>1, <2>3 DEF NextShown, State
    <3> HIDE DEF new
    <3> QED
      BY <2>3, <3>1, <3>2 DEF Stepped, State, NextMessages, NextQueued, NextRunning
  <2> QED
    BY <2>1, <2>2, <2>3
<1>3. CASE r \in ResponseRecord
  <2>1. r.turn \in Turn /\ r.type = "model.response" /\ r.text \in Nat /\ r.kept \in Nat
    BY <1>3 DEF ResponseRecord
  <2> DEFINE new == [s.shown EXCEPT ![r.turn] = IF r.turn \in Reasoning THEN r.kept ELSE r.text]
  <2>2. NextState(s, r) = [s EXCEPT !.shown = new]
    BY <2>1 DEF NextState
  <2>3. new \in [Turn -> Nat] /\ \A t \in Turn : new[t] = NextShown(s, r, t)
    BY <2>1 DEF NextShown, State
  <2> HIDE DEF new
  <2> QED
    BY <2>1, <2>2, <2>3 DEF Stepped, State, NextMessages, NextQueued, NextRunning
<1>4. CASE r \in StoppedRecord
  <2>1. r.turn \in Turn \cup {0} /\ r.type = "run.stopped" /\ r.kept \in Nat
    BY <1>4 DEF StoppedRecord
  <2> DEFINE new == IF r.turn = 0 THEN s.shown ELSE [s.shown EXCEPT ![r.turn] = r.kept]
  <2>2. NextState(s, r) = [s EXCEPT !.running = FALSE, !.shown = new]
    BY <2>1 DEF NextState
  <2>3. 0 \notin Turn
    BY DEF Turn
  <2>4. new \in [Turn -> Nat] /\ \A t \in Turn : new[t] = NextShown(s, r, t)
    BY <2>1, <2>3 DEF NextShown, State
  <2> HIDE DEF new
  <2> QED
    BY <2>1, <2>2, <2>4 DEF Stepped, State, NextMessages, NextQueued, NextRunning
<1>5. CASE r \in CreatedRecord
  <2>1. r.session \in State /\ r.type = "session.created"
    BY <1>5 DEF CreatedRecord
  <2>2. NextState(s, r) = r.session
    BY <2>1 DEF NextState
  <2> QED
    BY <2>1, <2>2 DEF Stepped, State, NextMessages, NextQueued, NextRunning, NextShown
<1> QED
  BY <1>1, <1>2, <1>3, <1>4, <1>5 DEF Record

(* ProjectFrom.                                                            *)

\* The steps of ProjectFrom.
ProjectSteps(rs) == [k \in 1 .. Len(rs) |-> [q \in State |-> NextState(q, rs[k])]]

ProjectTable(s, rs, at) ==
    TableOf(State, s, Len(rs), ProjectSteps(rs), at) /\ ProjectFrom(s, rs) = at[Len(rs)]

\* ProjectFrom is the last entry of the table of its steps.
LEMMA ProjectIs ==
    ASSUME NEW s \in State, NEW rs \in Seq(Record)
    PROVE  \E at : ProjectTable(s, rs, at)
<1> DEFINE n == Len(rs)
           Body(i, g) == IF i = 0 THEN s ELSE NextState(g[i - 1], rs[i])
           F == ProjectSteps(rs)
           h == CHOOSE g : g = [i \in 0 .. Len(rs) |-> Body(i, g)]
<1>1. n \in Nat /\ s \in State
  OBVIOUS
<1>2. PICK at : TableOf(State, s, n, F, at)
  <2>1. F \in [1 .. n -> [State -> State]]
    <3>1. ASSUME NEW k \in 1 .. Len(rs), NEW q \in State PROVE NextState(q, rs[k]) \in State
      <4>1. rs[k] \in Record
        OBVIOUS
      <4> QED
        BY <4>1, NextStateIs DEF Stepped
    <3> QED
      BY <3>1 DEF ProjectSteps
  <2> HIDE DEF F, n
  <2> QED
    BY <1>1, <2>1, TableExists, Zenon
<1>3. ASSUME NEW k \in 1 .. n, NEW q \in State PROVE F[k][q] = NextState(q, rs[k])
  BY DEF ProjectSteps
<1>4. ASSUME NEW i \in 0 .. n PROVE at[i] = Body(i, at)
  <2>1. CASE i = 0
    BY <1>2, <2>1 DEF TableOf
  <2>2. CASE i # 0
    <3>1. i \in 1 .. n /\ i - 1 \in 0 .. n
      BY <1>1, <2>2
    <3> HIDE DEF F, n
    <3>2. at[i] = F[i][at[i - 1]] /\ at[i - 1] \in State
      BY <1>2, <3>1 DEF TableOf
    <3> QED
      BY <1>3, <3>1, <3>2, <2>2
  <2> QED
    BY <2>1, <2>2
<1>5. at = [i \in 0 .. n |-> Body(i, at)]
  <2>1. at = [i \in 0 .. n |-> at[i]]
    BY <1>2 DEF TableOf
  <2> HIDE DEF Body, n
  <2> QED
    BY <1>4, <2>1
<1>6. h = [i \in 0 .. n |-> Body(i, h)]
  <2> HIDE DEF Body
  <2> QED
    BY <1>5, Zenon
<1>7. ProjectFrom(s, rs) = h[n]
  BY Zenon DEF ProjectFrom
<1> HIDE DEF h, F
<1>8. h[n] = at[n]
  <2> DEFINE P == {k \in Nat : k <= n => h[k] = at[k]}
  <2>1. 0 \in P
    BY <1>6, <1>4
  <2>2. ASSUME NEW k \in Nat, k \in P PROVE k + 1 \in P
    <3> SUFFICES ASSUME k + 1 <= n PROVE h[k + 1] = at[k + 1]
      OBVIOUS
    <3>1. k + 1 \in 0 .. n /\ (k + 1) - 1 = k /\ k + 1 # 0
      OBVIOUS
    <3>2. h[k] = at[k]
      BY <2>2
    <3>3. h[k + 1] = Body(k + 1, h)
      <4> HIDE DEF Body
      <4> QED
        BY <1>6, <3>1
    <3>4. at[k + 1] = Body(k + 1, at)
      BY <1>4, <3>1
    <3> QED
      BY <3>1, <3>2, <3>3, <3>4
  <2> HIDE DEF P
  <2>3. n \in P
    BY <1>1, <2>1, <2>2, Induct
  <2> QED
    BY <2>3 DEF P
<1> QED
  BY <1>2, <1>7, <1>8 DEF F, ProjectTable

\* Records are projected to a snapshot.
LEMMA ProjectType ==
    ASSUME NEW s \in State, NEW rs \in Seq(Record)
    PROVE  ProjectFrom(s, rs) \in State
<1>1. PICK at : ProjectTable(s, rs, at)
  BY ProjectIs
<1>2. at \in [0 .. Len(rs) -> State]
  BY <1>1 DEF TableOf, ProjectTable
<1> QED
  BY <1>1, <1>2 DEF ProjectTable

\* No record changes nothing.
LEMMA ProjectEmpty ==
    ASSUME NEW s \in State
    PROVE  ProjectFrom(s, <<>>) = s
<1>1. <<>> \in Seq(Record) /\ Len(<<>>) = 0
  OBVIOUS
<1>2. PICK at : ProjectTable(s, <<>>, at)
  BY <1>1, ProjectIs
<1> QED
  BY <1>1, <1>2 DEF TableOf, ProjectTable

\* ProjectFrom, record by record.
LEMMA ProjectAppend ==
    ASSUME NEW s \in State, NEW rs \in Seq(Record), NEW r \in Record
    PROVE  ProjectFrom(s, Append(rs, r)) = NextState(ProjectFrom(s, rs), r)
<1> DEFINE n == Len(rs)
           t == Append(rs, r)
           F == ProjectSteps(rs)
           G == ProjectSteps(t)
<1>1. /\ n \in Nat /\ t \in Seq(Record) /\ Len(t) = n + 1
      /\ t[n + 1] = r /\ \A k \in 1 .. n : t[k] = rs[k]
  OBVIOUS
<1> HIDE DEF t
<1>2. PICK at : TableOf(State, s, n, F, at) /\ ProjectFrom(s, rs) = at[n]
  <2>1. PICK b : ProjectTable(s, rs, b)
    BY ProjectIs
  <2> QED
    BY <2>1 DEF ProjectTable
<1>3. PICK bt : TableOf(State, s, n + 1, G, bt) /\ ProjectFrom(s, t) = bt[n + 1]
  <2>1. PICK b : ProjectTable(s, t, b)
    BY <1>1, ProjectIs
  <2> QED
    BY <2>1, <1>1 DEF ProjectTable
<1>4. ASSUME NEW k \in 1 .. n PROVE F[k] = G[k]
  <2>1. k \in 1 .. Len(rs) /\ k \in 1 .. Len(t) /\ t[k] = rs[k]
    BY <1>1
  <2>2. F[k] = [q \in State |-> NextState(q, rs[k])]
    BY <2>1 DEF ProjectSteps
  <2>3. G[k] = [q \in State |-> NextState(q, t[k])]
    BY <2>1 DEF ProjectSteps
  <2> QED
    BY <2>1, <2>2, <2>3
<1>5. \A q \in State : G[n + 1][q] = NextState(q, r)
  <2>1. n + 1 \in 1 .. Len(t)
    BY <1>1
  <2>2. G[n + 1] = [q \in State |-> NextState(q, t[n + 1])]
    BY <2>1 DEF ProjectSteps
  <2> QED
    BY <1>1, <2>2
<1> HIDE DEF F, G, n
<1>6. bt[n + 1] = G[n + 1][at[n]] /\ at[n] \in State
  <2> DEFINE m == n + 1
  <2>1. m \in Nat /\ m = n + 1 /\ TableOf(State, s, m, G, bt)
    BY <1>1, <1>3
  <2>2. \A k \in 1 .. n : F[k] = G[k]
    BY <1>4
  <2>3. bt[m] = G[m][at[n]] /\ at[n] \in State
    <3> HIDE DEF m
    <3> QED
      BY <1>1, <1>2, <2>1, <2>2, TableStep
  <2> QED
    BY <2>3
<1> QED
  BY <1>2, <1>3, <1>5, <1>6 DEF t

\* projectTail: projecting from the snapshot of the records before is projecting all.
LEMMA ProjectConcat ==
    ASSUME NEW s \in State, NEW rs \in Seq(Record), NEW ts \in Seq(Record)
    PROVE  ProjectFrom(s, rs \o ts) = ProjectFrom(ProjectFrom(s, rs), ts)
<1> DEFINE P == {q \in Seq(Record) : ProjectFrom(s, rs \o q) = ProjectFrom(ProjectFrom(s, rs), q)}
<1>0. ProjectFrom(s, rs) \in State
  BY ProjectType
<1>1. <<>> \in P
  <2>1. rs \o <<>> = rs /\ <<>> \in Seq(Record)
    OBVIOUS
  <2> QED
    BY <1>0, <2>1, ProjectEmpty
<1>2. ASSUME NEW q \in Seq(Record), NEW x \in Record, q \in P PROVE Append(q, x) \in P
  <2>1. rs \o Append(q, x) = Append(rs \o q, x) /\ rs \o q \in Seq(Record) /\ Append(q, x) \in Seq(Record)
    OBVIOUS
  <2>2. ProjectFrom(s, Append(rs \o q, x)) = NextState(ProjectFrom(s, rs \o q), x)
    BY <2>1, ProjectAppend
  <2>3. ProjectFrom(ProjectFrom(s, rs), Append(q, x)) = NextState(ProjectFrom(ProjectFrom(s, rs), q), x)
    BY <1>0, ProjectAppend
  <2>4. ProjectFrom(s, rs \o Append(q, x)) = ProjectFrom(ProjectFrom(s, rs), Append(q, x))
    BY <1>2, <2>1, <2>2, <2>3
  <2> QED
    BY <2>1, <2>4
<1> HIDE DEF P
<1>3. ts \in P
  BY <1>1, <1>2, SeqInduct
<1> QED
  BY <1>3 DEF P

\* ProjectFrom, from the first record on.
LEMMA ProjectHead ==
    ASSUME NEW s \in State, NEW rs \in Seq(Record), rs # <<>>
    PROVE  ProjectFrom(s, rs) = ProjectFrom(NextState(s, Head(rs)), Tail(rs))
<1> DEFINE h == Head(rs)
           e == <<>>
           one == Append(e, h)
<1>1. h \in Record /\ Tail(rs) \in Seq(Record) /\ e \in Seq(Record) /\ one \in Seq(Record)
  OBVIOUS
<1>2. rs = one \o Tail(rs)
  OBVIOUS
<1>3. ProjectFrom(s, one) = NextState(s, h)
  <2>1. ProjectFrom(s, e) = s
    BY ProjectEmpty
  <2> HIDE DEF h, e
  <2>2. ProjectFrom(s, Append(e, h)) = NextState(ProjectFrom(s, e), h)
    BY <1>1, ProjectAppend
  <2> QED
    BY <2>1, <2>2
<1> HIDE DEF one
<1>4. ProjectFrom(s, one \o Tail(rs)) = ProjectFrom(ProjectFrom(s, one), Tail(rs))
  BY <1>1, ProjectConcat
<1> QED
  BY <1>2, <1>3, <1>4

(* What the scheduler and the chat see of a snapshot.                      *)

\* Two snapshots that differ only in the text they show.
Same(s, z) == s.messages = z.messages /\ s.queued = z.queued /\ s.running = z.running

\* A record does the same to two snapshots of the same conversation.
LEMMA NextKeepsSame ==
    ASSUME NEW s \in State, NEW z \in State, Same(s, z), NEW r \in Record
    PROVE  Same(NextState(s, r), NextState(z, r))
<1>1. Stepped(s, r, NextState(s, r)) /\ Stepped(z, r, NextState(z, r))
  BY NextStateIs
<1> QED
  BY <1>1 DEF Stepped, Same, NextMessages, NextQueued, NextRunning

\* So do several records.
LEMMA ProjectKeepsSame ==
    ASSUME NEW s \in State, NEW z \in State, Same(s, z), NEW rs \in Seq(Record)
    PROVE  Same(ProjectFrom(s, rs), ProjectFrom(z, rs))
<1> DEFINE P == {q \in Seq(Record) : Same(ProjectFrom(s, q), ProjectFrom(z, q))}
<1>1. <<>> \in P
  <2>1. <<>> \in Seq(Record)
    OBVIOUS
  <2> QED
    BY <2>1, ProjectEmpty
<1>2. ASSUME NEW q \in Seq(Record), NEW x \in Record, q \in P PROVE Append(q, x) \in P
  <2>1. Append(q, x) \in Seq(Record)
    OBVIOUS
  <2>2. ProjectFrom(s, q) \in State /\ ProjectFrom(z, q) \in State
    BY ProjectType
  <2>3. Same(NextState(ProjectFrom(s, q), x), NextState(ProjectFrom(z, q), x))
    BY <1>2, <2>2, NextKeepsSame
  <2>4. /\ ProjectFrom(s, Append(q, x)) = NextState(ProjectFrom(s, q), x)
        /\ ProjectFrom(z, Append(q, x)) = NextState(ProjectFrom(z, q), x)
    BY ProjectAppend
  <2> QED
    BY <2>1, <2>3, <2>4
<1> HIDE DEF P
<1>3. rs \in P
  BY <1>1, <1>2, SeqInduct
<1> QED
  BY <1>3 DEF P

-----------------------------------------------------------------------------
(* What the records of the operations are projected to. *)

\* The projection of one record,
LEMMA ProjectOne ==
    ASSUME NEW s \in State, NEW a \in Record
    PROVE  ProjectFrom(s, <<a>>) = NextState(s, a)
<1> DEFINE e == <<>>
<1>1. e \in Seq(Record) /\ <<a>> = Append(e, a)
  OBVIOUS
<1>2. ProjectFrom(s, e) = s
  BY ProjectEmpty
<1> HIDE DEF e
<1>3. ProjectFrom(s, Append(e, a)) = NextState(ProjectFrom(s, e), a)
  BY <1>1, ProjectAppend
<1> QED
  BY <1>1, <1>2, <1>3

\* of two,
LEMMA ProjectTwo ==
    ASSUME NEW s \in State, NEW a \in Record, NEW b \in Record
    PROVE  ProjectFrom(s, <<a, b>>) = NextState(NextState(s, a), b)
<1> DEFINE e == <<a>>
<1>1. e \in Seq(Record) /\ <<a, b>> = Append(e, b)
  OBVIOUS
<1>2. ProjectFrom(s, e) = NextState(s, a)
  BY ProjectOne
<1> HIDE DEF e
<1>3. ProjectFrom(s, Append(e, b)) = NextState(ProjectFrom(s, e), b)
  BY <1>1, ProjectAppend
<1> QED
  BY <1>1, <1>2, <1>3

\* and of three.
LEMMA ProjectThree ==
    ASSUME NEW s \in State, NEW a \in Record, NEW b \in Record, NEW c \in Record
    PROVE  ProjectFrom(s, <<a, b, c>>) = NextState(NextState(NextState(s, a), b), c)
<1> DEFINE e == <<a, b>>
<1>1. e \in Seq(Record) /\ <<a, b, c>> = Append(e, c)
  OBVIOUS
<1>2. ProjectFrom(s, e) = NextState(NextState(s, a), b)
  BY ProjectTwo
<1> HIDE DEF e
<1>3. ProjectFrom(s, Append(e, c)) = NextState(ProjectFrom(s, e), c)
  BY <1>1, ProjectAppend
<1> QED
  BY <1>1, <1>2, <1>3

\* The records of a message.
LEMMA IdRecords ==
    ASSUME NEW m \in Message
    PROVE  /\ Appended(m) \in IdRecord /\ Removed(m) \in IdRecord /\ Queued(m) \in IdRecord
           /\ Unqueued(m) \in IdRecord /\ Started(m) \in IdRecord
BY DEF IdRecord, IdTypes, Appended, Removed, Queued, Unqueued, Started

\* What the records of a message do.
LEMMA IdSteps ==
    ASSUME NEW s \in State, NEW m \in Message
    PROVE  /\ NextState(s, Appended(m)) \in State
           /\ NextState(s, Appended(m)).messages = Append(s.messages, m)
           /\ NextState(s, Appended(m)).queued = s.queued
           /\ NextState(s, Appended(m)).running = s.running
           /\ NextState(s, Removed(m)) \in State
           /\ NextState(s, Removed(m)).messages = Without(s.messages, {m})
           /\ NextState(s, Removed(m)).queued = s.queued
           /\ NextState(s, Removed(m)).running = s.running
           /\ NextState(s, Queued(m)) \in State
           /\ NextState(s, Queued(m)).messages = s.messages
           /\ NextState(s, Queued(m)).queued = Append(s.queued, m)
           /\ NextState(s, Queued(m)).running = s.running
           /\ NextState(s, Unqueued(m)) \in State
           /\ NextState(s, Unqueued(m)).messages = s.messages
           /\ NextState(s, Unqueued(m)).queued = Without(s.queued, {m})
           /\ NextState(s, Unqueued(m)).running = s.running
           /\ NextState(s, Started(m)) \in State
           /\ NextState(s, Started(m)).messages = s.messages
           /\ NextState(s, Started(m)).queued = Without(s.queued, {m})
           /\ NextState(s, Started(m)).running = TRUE
<1>1. Stepped(s, Appended(m), NextState(s, Appended(m)))
  BY IdRecords, NextStateIs DEF Record
<1>2. Stepped(s, Removed(m), NextState(s, Removed(m)))
  BY IdRecords, NextStateIs DEF Record
<1>3. Stepped(s, Queued(m), NextState(s, Queued(m)))
  BY IdRecords, NextStateIs DEF Record
<1>4. Stepped(s, Unqueued(m), NextState(s, Unqueued(m)))
  BY IdRecords, NextStateIs DEF Record
<1>5. Stepped(s, Started(m), NextState(s, Started(m)))
  BY IdRecords, NextStateIs DEF Record
<1>6. /\ Appended(m).type = "message.appended" /\ Appended(m).id = m
      /\ Removed(m).type = "message.removed" /\ Removed(m).id = m
      /\ Queued(m).type = "message.queued" /\ Queued(m).id = m
      /\ Unqueued(m).type = "message.queued.0" /\ Unqueued(m).id = m
      /\ Started(m).type = "run.started" /\ Started(m).id = m
  BY DEF Appended, Removed, Queued, Unqueued, Started
<1>7. /\ NextState(s, Appended(m)) \in State
      /\ NextState(s, Appended(m)).messages = Append(s.messages, m)
      /\ NextState(s, Appended(m)).queued = s.queued
      /\ NextState(s, Appended(m)).running = s.running
  BY <1>1, <1>6 DEF Stepped, NextMessages, NextQueued, NextRunning
<1>8. /\ NextState(s, Removed(m)) \in State
      /\ NextState(s, Removed(m)).messages = Without(s.messages, {m})
      /\ NextState(s, Removed(m)).queued = s.queued
      /\ NextState(s, Removed(m)).running = s.running
  BY <1>2, <1>6 DEF Stepped, NextMessages, NextQueued, NextRunning
<1>9. /\ NextState(s, Queued(m)) \in State
      /\ NextState(s, Queued(m)).messages = s.messages
      /\ NextState(s, Queued(m)).queued = Append(s.queued, m)
      /\ NextState(s, Queued(m)).running = s.running
  BY <1>3, <1>6 DEF Stepped, NextMessages, NextQueued, NextRunning
<1>10. /\ NextState(s, Unqueued(m)) \in State
       /\ NextState(s, Unqueued(m)).messages = s.messages
       /\ NextState(s, Unqueued(m)).queued = Without(s.queued, {m})
       /\ NextState(s, Unqueued(m)).running = s.running
  BY <1>4, <1>6 DEF Stepped, NextMessages, NextQueued, NextRunning
<1>11. /\ NextState(s, Started(m)) \in State
       /\ NextState(s, Started(m)).messages = s.messages
       /\ NextState(s, Started(m)).queued = Without(s.queued, {m})
       /\ NextState(s, Started(m)).running = TRUE
  BY <1>5, <1>6 DEF Stepped, NextMessages, NextQueued, NextRunning
<1> QED
  BY <1>7, <1>8, <1>9, <1>10, <1>11

\* What a waiting message is taken back or delivered with are records of messages,
LEMMA ListsTyped ==
    Returns \in [Message -> Seq(IdRecord)] /\ Delivers \in [Message -> Seq(IdRecord)]
<1>1. ASSUME NEW m \in Message
      PROVE  /\ <<Removed(m), Unqueued(m)>> \in Seq(IdRecord)
             /\ <<Removed(m), Appended(m), Unqueued(m)>> \in Seq(IdRecord)
  BY IdRecords
<1> QED
  BY <1>1 DEF Returns, Delivers

\* so they are records.
LEMMA ListsRecords ==
    Returns \in [Message -> Seq(Record)] /\ Delivers \in [Message -> Seq(Record)]
<1>1. ASSUME NEW m \in Message
      PROVE  /\ <<Removed(m), Unqueued(m)>> \in Seq(Record)
             /\ <<Removed(m), Appended(m), Unqueued(m)>> \in Seq(Record)
  <2>1. Removed(m) \in Record /\ Unqueued(m) \in Record /\ Appended(m) \in Record
    BY IdRecords DEF Record
  <2> QED
    BY <2>1
<1> QED
  BY <1>1 DEF Returns, Delivers

\* The composer gets the messages of w back.
ReturnedTo(s, w, z) ==
    /\ z \in State
    /\ z.messages = Without(s.messages, Range(w))
    /\ z.queued = Without(s.queued, Range(w))
    /\ z.running = s.running

\* Once every waiting message was returned to the composer, the conversation and the
\* queue are without them.
LEMMA ReturnsProject ==
    ASSUME NEW s \in State, NEW w \in Seq(Message)
    PROVE  ReturnedTo(s, w, ProjectFrom(s, Each(w, Returns)))
<1> DEFINE P == {q \in Seq(Message) : ReturnedTo(s, q, ProjectFrom(s, Each(q, Returns)))}
<1>0. s.messages \in Seq(Message) /\ s.queued \in Seq(Message)
  BY DEF State
<1>1. <<>> \in P
  <2>1. <<>> \in Seq(Message) /\ Range(<<>>) = {}
    BY DEF Range
  <2>2. Each(<<>>, Returns) = <<>>
    BY EachEmpty, ListsRecords
  <2>3. ProjectFrom(s, <<>>) = s
    BY ProjectEmpty
  <2>4. Without(s.messages, {}) = s.messages /\ Without(s.queued, {}) = s.queued
    BY <1>0, WithoutOthers
  <2> QED
    BY <2>1, <2>2, <2>3, <2>4 DEF ReturnedTo
<1>2. ASSUME NEW q \in Seq(Message), NEW x \in Message, q \in P PROVE Append(q, x) \in P
  <2> DEFINE z == ProjectFrom(s, Each(q, Returns))
             a == NextState(z, Removed(x))
             b == NextState(a, Unqueued(x))
  <2>1. Append(q, x) \in Seq(Message)
    OBVIOUS
  <2>2. ReturnedTo(s, q, z)
    BY <1>2
  <2>3. Each(Append(q, x), Returns) = Each(q, Returns) \o <<Removed(x), Unqueued(x)>>
    <3>1. Each(Append(q, x), Returns) = Each(q, Returns) \o Returns[x]
      BY EachAppend, ListsRecords
    <3> QED
      BY <3>1 DEF Returns
  <2>4. Each(q, Returns) \in Seq(Record)
    BY EachType, ListsRecords
  <2>5. Removed(x) \in Record /\ Unqueued(x) \in Record
    BY IdRecords DEF Record
  <2>6. <<Removed(x), Unqueued(x)>> \in Seq(Record)
    BY <2>5
  <2>7. z \in State
    BY <2>2 DEF ReturnedTo
  <2>8. ProjectFrom(s, Each(q, Returns) \o <<Removed(x), Unqueued(x)>>) = b
    <3>1. ProjectFrom(s, Each(q, Returns) \o <<Removed(x), Unqueued(x)>>)
             = ProjectFrom(z, <<Removed(x), Unqueued(x)>>)
      BY <2>4, <2>6, ProjectConcat, Zenon
    <3> HIDE DEF z
    <3>2. ProjectFrom(z, <<Removed(x), Unqueued(x)>>) = b
      BY <2>5, <2>7, ProjectTwo
    <3> QED
      BY <3>1, <3>2
  <2> HIDE DEF z
  <2>9. /\ a \in State /\ a.messages = Without(z.messages, {x})
        /\ a.queued = z.queued /\ a.running = z.running
    BY <2>7, IdSteps
  <2> HIDE DEF a
  <2>10. /\ b \in State /\ b.messages = a.messages
         /\ b.queued = Without(a.queued, {x}) /\ b.running = a.running
    BY <2>9, IdSteps
  <2> HIDE DEF b
  <2>11. Range(Append(q, x)) = Range(q) \cup {x}
    BY RangeAppend
  <2>12. /\ Without(Without(s.messages, Range(q)), {x}) = Without(s.messages, Range(q) \cup {x})
         /\ Without(Without(s.queued, Range(q)), {x}) = Without(s.queued, Range(q) \cup {x})
    BY <1>0, WithoutTwice
  <2>13. ReturnedTo(s, Append(q, x), b)
    BY <2>2, <2>9, <2>10, <2>11, <2>12 DEF ReturnedTo
  <2> QED
    BY <2>1, <2>3, <2>8, <2>13
<1> HIDE DEF P
<1>3. w \in P
  BY <1>1, <1>2, SeqInduct
<1> QED
  BY <1>3 DEF P

Distinct(w) == \A i, j \in DOMAIN w : w[i] = w[j] => i = j

\* A list without repetitions has none without its last member.
LEMMA DistinctFront ==
    ASSUME NEW S, NEW q \in Seq(S), NEW x \in S, Distinct(Append(q, x))
    PROVE  Distinct(q) /\ x \notin Range(q)
<1> DEFINE t == Append(q, x)
           n == Len(q)
<1>1. /\ n \in Nat /\ DOMAIN q = 1 .. n /\ DOMAIN t = 1 .. n + 1 /\ t[n + 1] = x
      /\ \A k \in 1 .. n : t[k] = q[k]
  OBVIOUS
<1> HIDE DEF t, n
<1>2. \A i, j \in 1 .. n + 1 : t[i] = t[j] => i = j
  BY <1>1 DEF Distinct, t
<1>3. n + 1 \in 1 .. n + 1 /\ \A k \in 1 .. n : k \in 1 .. n + 1 /\ k # n + 1
  BY <1>1
<1> QED
  BY <1>1, <1>2, <1>3 DEF Distinct, Range

\* Dropping messages goes through concatenation.
LEMMA MessagesConcat ==
    ASSUME NEW s \in Seq(Message), NEW t \in Seq(Message), NEW D
    PROVE  Without(s \o t, D) = Without(s, D) \o Without(t, D)
<1> DEFINE M == Message
<1>1. s \in Seq(M) /\ t \in Seq(M)
  OBVIOUS
<1> HIDE DEF M
<1> QED
  BY <1>1, WithoutConcat

\* The run takes the messages of w, at the end of the conversation.
DeliveredTo(s, w, z) ==
    /\ z \in State
    /\ z.messages = Without(s.messages, Range(w)) \o w
    /\ z.queued = Without(s.queued, Range(w))
    /\ z.running = s.running

\* Once every waiting message was delivered, they end the conversation and the queue is
\* without them.
LEMMA DeliversProject ==
    ASSUME NEW s \in State, NEW w \in Seq(Message), Distinct(w)
    PROVE  DeliveredTo(s, w, ProjectFrom(s, Each(w, Delivers)))
<1> DEFINE P == {q \in Seq(Message) : Distinct(q) => DeliveredTo(s, q, ProjectFrom(s, Each(q, Delivers)))}
<1>0. s.messages \in Seq(Message) /\ s.queued \in Seq(Message)
  BY DEF State
<1>1. <<>> \in P
  <2>1. <<>> \in Seq(Message) /\ Range(<<>>) = {} /\ s.messages \o <<>> = s.messages
    BY <1>0 DEF Range
  <2>2. Each(<<>>, Delivers) = <<>>
    BY EachEmpty, ListsRecords
  <2>3. ProjectFrom(s, <<>>) = s
    BY ProjectEmpty
  <2>4. Without(s.messages, {}) = s.messages /\ Without(s.queued, {}) = s.queued
    BY <1>0, WithoutOthers
  <2> QED
    BY <2>1, <2>2, <2>3, <2>4 DEF DeliveredTo
<1>2. ASSUME NEW q \in Seq(Message), NEW x \in Message, q \in P PROVE Append(q, x) \in P
  <2> DEFINE z == ProjectFrom(s, Each(q, Delivers))
             a == NextState(z, Removed(x))
             b == NextState(a, Appended(x))
             c == NextState(b, Unqueued(x))
  <2>1. Append(q, x) \in Seq(Message)
    OBVIOUS
  <2> SUFFICES ASSUME Distinct(Append(q, x))
               PROVE  DeliveredTo(s, Append(q, x), ProjectFrom(s, Each(Append(q, x), Delivers)))
    BY <2>1
  <2>0. Distinct(q) /\ x \notin Range(q)
    BY DistinctFront
  <2>2. DeliveredTo(s, q, z)
    BY <1>2, <2>0
  <2>3. Each(Append(q, x), Delivers) = Each(q, Delivers) \o <<Removed(x), Appended(x), Unqueued(x)>>
    <3>1. Each(Append(q, x), Delivers) = Each(q, Delivers) \o Delivers[x]
      BY EachAppend, ListsRecords
    <3> QED
      BY <3>1 DEF Delivers
  <2>4. Each(q, Delivers) \in Seq(Record)
    BY EachType, ListsRecords
  <2>5. Removed(x) \in Record /\ Unqueued(x) \in Record /\ Appended(x) \in Record
    BY IdRecords DEF Record
  <2>6. <<Removed(x), Appended(x), Unqueued(x)>> \in Seq(Record)
    BY <2>5
  <2>7. z \in State
    BY <2>2 DEF DeliveredTo
  <2>8. ProjectFrom(s, Each(q, Delivers) \o <<Removed(x), Appended(x), Unqueued(x)>>) = c
    <3>1. ProjectFrom(s, Each(q, Delivers) \o <<Removed(x), Appended(x), Unqueued(x)>>)
             = ProjectFrom(z, <<Removed(x), Appended(x), Unqueued(x)>>)
      BY <2>4, <2>6, ProjectConcat, Zenon
    <3> HIDE DEF z
    <3>2. ProjectFrom(z, <<Removed(x), Appended(x), Unqueued(x)>>) = c
      BY <2>5, <2>7, ProjectThree
    <3> QED
      BY <3>1, <3>2
  <2> HIDE DEF z
  <2>9. /\ a \in State /\ a.messages = Without(z.messages, {x})
        /\ a.queued = z.queued /\ a.running = z.running
    BY <2>7, IdSteps
  <2> HIDE DEF a
  <2>10. /\ b \in State /\ b.messages = Append(a.messages, x)
         /\ b.queued = a.queued /\ b.running = a.running
    BY <2>9, IdSteps
  <2> HIDE DEF b
  <2>11. /\ c \in State /\ c.messages = b.messages
         /\ c.queued = Without(b.queued, {x}) /\ c.running = b.running
    BY <2>10, IdSteps
  <2> HIDE DEF c
  <2>12. Range(Append(q, x)) = Range(q) \cup {x}
    BY RangeAppend
  <2>13. /\ Without(Without(s.messages, Range(q)), {x}) = Without(s.messages, Range(q) \cup {x})
         /\ Without(Without(s.queued, Range(q)), {x}) = Without(s.queued, Range(q) \cup {x})
    BY <1>0, WithoutTwice
  <2>14. a.messages = Without(s.messages, Range(q) \cup {x}) \o q
    <3> DEFINE u == Without(s.messages, Range(q))
    <3>1. u \in Seq(Message)
      BY <1>0, WithoutType
    <3>2. z.messages = u \o q
      BY <2>2 DEF DeliveredTo
    <3> HIDE DEF u
    <3>3. Without(u \o q, {x}) = Without(u, {x}) \o Without(q, {x})
      BY <3>1, MessagesConcat
    <3>4. Range(q) \cap {x} = {}
      BY <2>0
    <3>5. Without(q, {x}) = q
      BY <3>4, WithoutOthers
    <3> QED
      BY <2>9, <2>13, <3>2, <3>3, <3>5 DEF u
  <2>15. b.messages = Without(s.messages, Range(q) \cup {x}) \o Append(q, x)
    <3> DEFINE u == Without(s.messages, Range(q) \cup {x})
    <3>1. u \in Seq(Message)
      BY <1>0, WithoutType
    <3>2. b.messages = Append(u \o q, x)
      BY <2>10, <2>14
    <3> HIDE DEF u
    <3>3. Append(u \o q, x) = u \o Append(q, x)
      BY <3>1
    <3> QED
      BY <3>2, <3>3 DEF u
  <2>16. DeliveredTo(s, Append(q, x), c)
    BY <2>2, <2>9, <2>10, <2>11, <2>12, <2>13, <2>15 DEF DeliveredTo
  <2> QED
    BY <2>3, <2>8, <2>16
<1> HIDE DEF P
<1>3. w \in P
  BY <1>1, <1>2, SeqInduct
<1> QED
  BY <1>3 DEF P

-----------------------------------------------------------------------------
(* Kinds of records. *)

\* What the assumption on the bounds says of turns and messages.
LEMMA Bounds ==
    /\ MaxTurn \in Nat /\ MaxMessage \in Nat /\ MaxMessage # 0
    /\ Turn = 1 .. MaxTurn /\ Message = 1 .. MaxMessage
    /\ 0 \notin Turn /\ 0 \notin Message
    /\ 1 \in Message
BY JournalAssumption DEF Turn, Message

\* Empty is a snapshot.
LEMMA EmptyType == Empty \in State /\ Empty.messages = <<>> /\ Empty.queued = <<>>
                   /\ Empty.running = FALSE /\ \A t \in Turn : Empty.shown[t] = 0
BY DEF Empty, State

\* A journal that can be read has no torn line.
LEMMA ReadableIs ==
    ASSUME NEW rs \in Seq(Record \cup {Torn}), Readable(rs)
    PROVE  rs \in Seq(Record)
<1>1. \A i \in 1 .. Len(rs) : rs[i] \in Record
  BY DEF Readable
<1> QED
  BY <1>1

\* No record is a torn line.
LEMMA RecordNotTorn ==
    ASSUME NEW r \in Record
    PROVE  r # Torn
<1>1. r.type # "torn"
  BY DEF Record, IdRecord, IdTypes, TurnRecord, ResponseRecord, StoppedRecord, CreatedRecord
<1>2. Torn.type = "torn"
  BY DEF Torn
<1> QED
  BY <1>1, <1>2

\* Records can be read.
LEMMA RecordsReadable ==
    ASSUME NEW rs \in Seq(Record)
    PROVE  Readable(rs)
<1>1. \A i \in DOMAIN rs : rs[i] \in Record
  OBVIOUS
<1> QED
  BY <1>1, RecordNotTorn DEF Readable

\* One record more.
LEMMA JournalAppend ==
    ASSUME NEW rs \in Seq(Record \cup {Torn}), NEW r \in Record
    PROVE  /\ Append(rs, r) \in Seq(Record \cup {Torn})
           /\ Readable(Append(rs, r)) <=> Readable(rs)
           /\ Readable(rs) => /\ Project(rs) \in State
                              /\ Project(Append(rs, r)) = NextState(Project(rs), r)
<1> DEFINE t == Append(rs, r)
           n == Len(rs)
<1>1. t \in Seq(Record \cup {Torn})
  OBVIOUS
<1>2. /\ n \in Nat /\ DOMAIN rs = 1 .. n /\ DOMAIN t = 1 .. n + 1 /\ t[n + 1] = r
      /\ \A k \in 1 .. n : t[k] = rs[k]
  OBVIOUS
<1> HIDE DEF t, n
<1>3. r # Torn
  BY RecordNotTorn
<1>4. /\ \A k \in 1 .. n : k \in 1 .. n + 1
      /\ \A k \in 1 .. n + 1 : k \in 1 .. n \/ k = n + 1
  BY <1>2
<1>5. Readable(t) <=> Readable(rs)
  BY <1>2, <1>3, <1>4 DEF Readable
<1>6. ASSUME Readable(rs)
      PROVE  Project(rs) \in State /\ Project(t) = NextState(Project(rs), r)
  <2>1. rs \in Seq(Record)
    BY <1>6, ReadableIs
  <2>2. Empty \in State
    BY EmptyType
  <2>3. ProjectFrom(Empty, rs) \in State
    BY <2>1, <2>2, ProjectType
  <2>4. ProjectFrom(Empty, Append(rs, r)) = NextState(ProjectFrom(Empty, rs), r)
    BY <2>1, <2>2, ProjectAppend
  <2> QED
    BY <2>3, <2>4 DEF Project, t
<1> QED
  BY <1>1, <1>5, <1>6 DEF t

\* A torn line makes a journal unreadable.
LEMMA TornAppend ==
    ASSUME NEW rs \in Seq(Record \cup {Torn})
    PROVE  Append(rs, Torn) \in Seq(Record \cup {Torn}) /\ ~ Readable(Append(rs, Torn))
<1> DEFINE t == Append(rs, Torn)
<1>1. t \in Seq(Record \cup {Torn}) /\ Len(rs) + 1 \in DOMAIN t /\ t[Len(rs) + 1] = Torn
  OBVIOUS
<1> QED
  BY <1>1 DEF Readable

\* The other records.
LEMMA TurnRecords ==
    ASSUME NEW t \in Turn, NEW n \in Nat, NEW k \in Nat
    PROVE  /\ Request(t) \in Record /\ Delta(t) \in Record
           /\ Response(t, n, k) \in Record
BY DEF Record, TurnRecord, ResponseRecord, Request, Delta, Response

\* The end of a run is a record.
LEMMA StoppedRecords ==
    ASSUME NEW t \in Turn \cup {0}, NEW k \in Nat
    PROVE  Stopped(t, k) \in Record
BY DEF Record, StoppedRecord, Stopped

\* The announcement of a chat is a record.
LEMMA CreatedRecords ==
    ASSUME NEW s \in State
    PROVE  Created(s) \in Record
BY DEF Record, CreatedRecord, Created

\* What the scheduler publishes is a record.
LEMMA OutgoingRecord ==
    ASSUME NEW r \in Outgoing
    PROVE  r \in Record
BY StoppedRecords DEF Outgoing, Record

\* A list of what it publishes is a list of records.
LEMMA OutgoingRecords ==
    ASSUME NEW o \in Seq(Outgoing)
    PROVE  o \in Seq(Record)
<1>1. \A i \in 1 .. Len(o) : o[i] \in Record
  BY OutgoingRecord
<1> QED
  BY <1>1

\* It is one after retainedSink prepared it.
LEMMA PreparedRecord ==
    ASSUME TypeOK, NEW r \in Outgoing
    PROVE  Prepared(r) \in Record
<1>1. reducer.turn \in Turn \cup {0} /\ reducer.text \in Nat
  BY DEF TypeOK
<1> QED
  BY <1>1, StoppedRecords, OutgoingRecord DEF Prepared

\* What is to be published is made of known records.
LEMMA EachOutgoing ==
    ASSUME NEW w \in Seq(Message)
    PROVE  Each(w, Returns) \in Seq(Outgoing) /\ Each(w, Delivers) \in Seq(Outgoing)
<1>1. Each(w, Returns) \in Seq(IdRecord) /\ Each(w, Delivers) \in Seq(IdRecord)
  BY EachType, ListsTyped
<1>2. \A q \in Seq(IdRecord) : q \in Seq(Outgoing)
  BY DEF Outgoing
<1> QED
  BY <1>1, <1>2

\* The records of a message are published by the scheduler.
LEMMA IdOutgoing ==
    ASSUME NEW m \in Message
    PROVE  /\ Appended(m) \in Outgoing /\ Removed(m) \in Outgoing /\ Queued(m) \in Outgoing
           /\ Unqueued(m) \in Outgoing /\ Started(m) \in Outgoing
BY IdRecords DEF Outgoing

-----------------------------------------------------------------------------
(* Types. *)

\* A record prepared again keeps its kind.
RepreparedAs(rs, i, r) ==
    /\ r \in Record
    /\ \/ r = rs[i] /\ ~ (rs[i].type \in {"model.response", "run.stopped"} /\ rs[i].turn # 0)
       \/ /\ rs[i].type \in {"model.response", "run.stopped"} /\ rs[i].turn # 0
          /\ r.type = rs[i].type /\ r.turn = rs[i].turn
          /\ r.kept = Cardinality({j \in 1 .. i : rs[j] = Delta(rs[i].turn)})
          /\ rs[i].type = "model.response" => r.text = rs[i].text

\* Preparing a journal again changes its end records only, and of them what they kept.
LEMMA RepreparedIs ==
    ASSUME NEW rs \in Seq(Record)
    PROVE  /\ Reprepared(rs) \in Seq(Record)
           /\ Len(Reprepared(rs)) = Len(rs)
           /\ \A i \in 1 .. Len(rs) : RepreparedAs(rs, i, Reprepared(rs)[i])
<1> DEFINE z == Reprepared(rs)
<1>1. ASSUME NEW i \in 1 .. Len(rs) PROVE RepreparedAs(rs, i, z[i])
  <2> DEFINE c == Cardinality({j \in 1 .. i : rs[j] = Delta(rs[i].turn)})
  <2>1. c \in Nat
    <3>1. IsFiniteSet(1 .. i) /\ i \in Nat
      BY FS_Interval
    <3>2. IsFiniteSet({j \in 1 .. i : rs[j] = Delta(rs[i].turn)})
      BY <3>1, FS_Subset
    <3> QED
      BY <3>2, FS_CardinalityType
  <2>2. rs[i] \in Record /\ i \in DOMAIN rs
    OBVIOUS
  <2>3. CASE rs[i].type \in {"model.response", "run.stopped"} /\ rs[i].turn # 0
    <3>1. z[i] = [rs[i] EXCEPT !.kept = c]
      BY <2>2, <2>3 DEF Reprepared
    <3> HIDE DEF c, z
    <3>2. CASE rs[i] \in ResponseRecord
      <4>1. /\ rs[i].type = "model.response" /\ z[i] \in ResponseRecord
            /\ z[i].type = rs[i].type /\ z[i].turn = rs[i].turn
            /\ z[i].kept = c /\ z[i].text = rs[i].text
        BY <2>1, <3>1, <3>2 DEF ResponseRecord
      <4> QED
        BY <2>3, <4>1 DEF RepreparedAs, Record, c
    <3>3. CASE rs[i] \in StoppedRecord
      <4>1. /\ rs[i].type = "run.stopped" /\ z[i] \in StoppedRecord
            /\ z[i].type = rs[i].type /\ z[i].turn = rs[i].turn
            /\ z[i].kept = c
        BY <2>1, <3>1, <3>3 DEF StoppedRecord
      <4> QED
        BY <2>3, <4>1 DEF RepreparedAs, Record, c
    <3> QED
      BY <2>2, <2>3, <3>2, <3>3 DEF Record, IdRecord, IdTypes, TurnRecord, CreatedRecord
  <2>4. CASE ~ (rs[i].type \in {"model.response", "run.stopped"} /\ rs[i].turn # 0)
    <3>1. z[i] = rs[i]
      BY <2>2, <2>4 DEF Reprepared
    <3> HIDE DEF z
    <3> QED
      BY <2>2, <2>4, <3>1 DEF RepreparedAs
  <2> QED
    BY <2>3, <2>4
<1>2. DOMAIN z = 1 .. Len(rs) /\ z = [i \in 1 .. Len(rs) |-> z[i]]
  BY DEF Reprepared
<1> HIDE DEF z
<1>3. \A i \in 1 .. Len(rs) : z[i] \in Record
  BY <1>1 DEF RepreparedAs
<1>4. z \in Seq(Record) /\ Len(z) = Len(rs)
  <2>1. Len(rs) \in Nat
    OBVIOUS
  <2> QED
    BY <1>2, <1>3, <2>1
<1> QED
  BY <1>1, <1>4 DEF z

\* A slimmed journal is one of records.
LEMMA SlimmedType ==
    ASSUME NEW rs \in Seq(Record)
    PROVE  Slimmed(rs) \in Seq(Record)
<1>1. Reprepared(rs) \in Seq(Record)
  BY RepreparedIs
<1> QED
  BY <1>1, WithoutType DEF Slimmed

\* The id counter of a restored chat is a message id or 0.
LEMMA FloorType ==
    ASSUME NEW s \in State
    PROVE  Floor(s) \in Message \cup {0}
<1> DEFINE R == Range(s.messages)
           U == {n \in Nat : \A m \in R : m <= n}
<1>1. R \subseteq Message
  BY DEF State, Range
<1>2. MaxMessage \in U
  <2>1. \A m \in Message : m <= MaxMessage
    BY Bounds
  <2> QED
    BY <1>1, <2>1, Bounds
<1>3. PICK n \in U : \A k \in U : n <= k
  <2>1. U \in SUBSET Nat
    OBVIOUS
  <2> HIDE DEF U
  <2> QED
    BY <1>2, <2>1, LeastNat
<1>4. n \in 0 .. MaxMessage /\ \A m \in R : m <= n
  BY <1>2, <1>3, Bounds
<1>5. n = 0 \/ n \in R
  <2> SUFFICES ASSUME n # 0, n \notin R PROVE FALSE
    OBVIOUS
  <2>1. n - 1 \in Nat
    BY <1>4
  <2>2. ASSUME NEW m \in R PROVE m <= n - 1
    <3>1. m \in Nat /\ m <= n /\ m # n
      BY <1>1, <1>4, Bounds
    <3> QED
      BY <3>1, <1>4
  <2>3. n - 1 \in U
    BY <2>1, <2>2
  <2> QED
    BY <1>3, <1>4, <2>3
<1>6. \E k \in 0 .. MaxMessage : (k = 0 \/ k \in R) /\ \A m \in R : m <= k
  BY <1>4, <1>5
<1>7. Floor(s) \in 0 .. MaxMessage
  BY <1>6, Zenon DEF Floor
<1> QED
  BY <1>7, Bounds

\* Closing the cut run touches nothing else.
LEMMA ClosedType ==
    ASSUME NEW s \in State
    PROVE  /\ Closed(s) \in State /\ Closed(s).messages = s.messages
           /\ Closed(s).queued = s.queued /\ Closed(s).running = FALSE
           /\ Closed(s).shown = s.shown
BY DEF Closed, State

\* RestoreQueue gives back exactly the queued messages that are in the conversation.
LEMMA RestoreQueueType ==
    ASSUME NEW s \in State
    PROVE  /\ RestoreQueue(s) \in Seq(Message)
           /\ Range(RestoreQueue(s)) = Range(s.queued) \cap Range(s.messages)
<1>1. s.queued \in Seq(Message) /\ s.messages \in Seq(Message)
  BY DEF State
<1>2. RestoreQueue(s) \in Seq(Message)
  BY <1>1, WithoutType DEF RestoreQueue
<1>3. Range(RestoreQueue(s)) = Range(s.queued) \ (Message \ Range(s.messages))
  BY <1>1, WithoutRange DEF RestoreQueue
<1>4. Range(s.queued) \subseteq Message
  BY <1>1 DEF Range
<1> QED
  BY <1>2, <1>3, <1>4

\* It depends on the conversation and the queue alone.
LEMMA SameQueue ==
    ASSUME NEW s, NEW z, Same(s, z)
    PROVE  RestoreQueue(s) = RestoreQueue(z)
BY DEF Same, RestoreQueue

\* The first state is of the declared types.
LEMMA InitTyped == Init => TypeOK
<1> SUFFICES ASSUME Init PROVE TypeOK
  OBVIOUS
<1>1. Empty \in State
  BY EmptyType
<1>2. Created(Empty) \in Record /\ Appended(1) \in Record /\ Started(1) \in Record
  BY <1>1, Bounds, CreatedRecords, IdRecords DEF Record
<1>3. journal \in Seq(Record \cup {Torn})
  BY <1>2 DEF Init
<1>4. cache \in [covers : Seq(Record), snapshot : State]
  BY <1>1 DEF Init, NoCache
<1>5. reducer \in [turn : Turn \cup {0}, text : Nat]
  BY DEF Init, NoTurn
<1>6. turns \in 0 .. MaxTurn /\ streamed \in [Turn -> Nat]
  BY Bounds DEF Init
<1>7. /\ flight \in Seq(Deltas) /\ waiting \in Seq(Message) /\ out \in Seq(Outgoing)
      /\ owed \in Seq(Message)
  BY DEF Init
<1>8. messages \in Seq(Message)
  BY Bounds DEF Init
<1>9. unlink \in BOOLEAN /\ runWaits \in BOOLEAN /\ lost \in BOOLEAN /\ sent \in SUBSET Message
  BY DEF Init
<1>10. /\ phase \in {"up", "down", "slimmed", "load", "restore", "refused"}
       /\ image \in State /\ run \in Message \cup {0} /\ ids \in Message \cup {0}
       /\ turn \in Turn \cup {0}
  BY <1>1, Bounds DEF Init
<1> QED
  BY <1>3, <1>4, <1>5, <1>6, <1>7, <1>8, <1>9, <1>10 DEF TypeOK

\* The operations and steps keep the types.  Submit:
LEMMA SubmitTyped == TypeOK /\ Submit => TypeOK'
<1> SUFFICES ASSUME TypeOK, Submit PROVE TypeOK'
  OBVIOUS
<1>1. ids' \in Message
  BY Bounds DEF Submit, TypeOK
<1>2. Without(messages, Range(waiting)) \in Seq(Message)
  BY WithoutType DEF TypeOK
<1>3. messages' \in Seq(Message) /\ waiting' \in Seq(Message)
  <2>1. waiting \in Seq(Message) /\ messages \in Seq(Message)
    BY DEF TypeOK
  <2>2. Append(waiting, ids') \in Seq(Message) /\ Append(messages, ids') \in Seq(Message)
    BY <1>1, <2>1
  <2>3. Append(Without(messages, Range(waiting)), ids') \in Seq(Message)
    BY <1>1, <1>2
  <2>4. <<>> \in Seq(Message)
    OBVIOUS
  <2> QED
    BY <2>2, <2>3, <2>4, Zenon DEF Submit
<1>4. out' \in Seq(Outgoing)
  <2>1. Each(waiting, Returns) \in Seq(Outgoing)
    BY EachOutgoing DEF TypeOK
  <2>2. Appended(ids') \in Outgoing /\ Queued(ids') \in Outgoing /\ Started(ids') \in Outgoing
    BY <1>1, IdOutgoing
  <2>3. /\ <<Appended(ids'), Queued(ids')>> \in Seq(Outgoing)
        /\ <<Appended(ids'), Started(ids')>> \in Seq(Outgoing)
    BY <2>2
  <2>4. CASE out' = <<Appended(ids'), Queued(ids')>>
    BY <2>3, <2>4
  <2>5. CASE out' = Each(waiting, Returns) \o <<Appended(ids'), Started(ids')>>
    BY <2>1, <2>3, <2>5
  <2> QED
    BY <2>4, <2>5 DEF Submit
<1>5. run' \in Message \cup {0}
  BY <1>1 DEF Submit, TypeOK
<1>6. sent' \in SUBSET Message
  BY DEF Submit, TypeOK
<1>7. runWaits' \in BOOLEAN
  BY DEF Submit
<1> QED
  BY <1>1, <1>3, <1>4, <1>5, <1>6, <1>7 DEF Submit, TypeOK, diskVars

\* The end and the start of a run are published by the scheduler.
LEMMA StopsOutgoing ==
    ASSUME NEW m \in Message
    PROVE  /\ <<Stopped(0, 0)>> \in Seq(Outgoing)
           /\ <<Started(m)>> \in Seq(Outgoing)
BY IdOutgoing DEF Outgoing

\* TakeQueued:
LEMMA TakeQueuedTyped == TypeOK /\ TakeQueued => TypeOK'
<1> SUFFICES ASSUME TypeOK, TakeQueued PROVE TypeOK'
  OBVIOUS
<1>1. Without(messages, Range(waiting)) \in Seq(Message) /\ waiting \in Seq(Message)
  BY WithoutType DEF TypeOK
<1>2. messages' \in Seq(Message) /\ waiting' \in Seq(Message)
  BY <1>1 DEF TakeQueued
<1>3. out' \in Seq(Outgoing)
  BY <1>1, EachOutgoing DEF TakeQueued
<1> QED
  BY <1>2, <1>3 DEF TakeQueued, TypeOK, diskVars, auditVars

\* The first of the waiting messages is a message.
LEMMA HeadWaiting ==
    ASSUME NEW w \in Seq(Message), w # <<>>
    PROVE  Head(w) \in Message
OBVIOUS

\* Finish:
LEMMA FinishTyped == TypeOK /\ Finish => TypeOK'
<1> SUFFICES ASSUME TypeOK, Finish PROVE TypeOK'
  OBVIOUS
<1>1. Without(messages, Range(waiting)) \in Seq(Message) /\ waiting \in Seq(Message)
  BY WithoutType DEF TypeOK
<1>2. messages' \in Seq(Message) /\ waiting' \in Seq(Message)
  BY <1>1 DEF Finish
<1>3. run' \in Message \cup {0}
  BY <1>1, HeadWaiting DEF Finish
<1>4. out' \in Seq(Outgoing)
  <2>1. Each(waiting, Delivers) \in Seq(Outgoing)
    BY <1>1, EachOutgoing
  <2>2. <<Stopped(0, 0)>> \in Seq(Outgoing)
    BY Bounds, StopsOutgoing
  <2> DEFINE last == IF waiting = <<>> THEN <<>> ELSE <<Started(Head(waiting))>>
  <2>3. last \in Seq(Outgoing)
    <3>1. CASE waiting = <<>>
      BY <3>1
    <3>2. CASE waiting # <<>>
      BY <3>2, <1>1, HeadWaiting, StopsOutgoing
    <3> QED
      BY <3>1, <3>2
  <2>4. out' = Each(waiting, Delivers) \o <<Stopped(0, 0)>> \o last
    BY DEF Finish
  <2> HIDE DEF last
  <2> QED
    BY <2>1, <2>2, <2>3, <2>4
<1> QED
  BY <1>2, <1>3, <1>4 DEF Finish, TypeOK, diskVars, auditVars

\* Stop:
LEMMA StopTyped == TypeOK /\ Stop => TypeOK'
<1> SUFFICES ASSUME TypeOK, Stop PROVE TypeOK'
  OBVIOUS
<1>1. Without(messages, Range(waiting)) \in Seq(Message) /\ waiting \in Seq(Message)
  BY WithoutType DEF TypeOK
<1>2. messages' \in Seq(Message) /\ waiting' \in Seq(Message)
  BY <1>1 DEF Stop
<1>3. out' \in Seq(Outgoing)
  <2>1. Each(waiting, Returns) \in Seq(Outgoing)
    BY <1>1, EachOutgoing
  <2>2. <<Stopped(0, 0)>> \in Seq(Outgoing)
    BY Bounds, StopsOutgoing
  <2> QED
    BY <2>1, <2>2 DEF Stop
<1> QED
  BY <1>2, <1>3 DEF Stop, TypeOK, diskVars, auditVars

\* A reducer without a turn is a reducer.
LEMMA ReducerType == NoTurn \in [turn : Turn \cup {0}, text : Nat]
BY DEF NoTurn

\* The next record to publish, and the rest.
LEMMA HeadOut ==
    ASSUME TypeOK, out # <<>>
    PROVE  Head(out) \in Outgoing /\ Tail(out) \in Seq(Outgoing)
<1>1. out \in Seq(Outgoing)
  BY DEF TypeOK
<1> QED
  BY <1>1

\* Publish:
LEMMA PublishTyped == TypeOK /\ Publish => TypeOK'
<1> SUFFICES ASSUME TypeOK, Publish PROVE TypeOK'
  OBVIOUS
<1>1. Head(out) \in Outgoing /\ Tail(out) \in Seq(Outgoing)
  BY HeadOut DEF Publish
<1>2. Prepared(Head(out)) \in Record
  BY <1>1, PreparedRecord
<1>3. journal' \in Seq(Record \cup {Torn})
  <2>1. journal \in Seq(Record \cup {Torn})
    BY DEF TypeOK
  <2>2. Append(journal, Prepared(Head(out))) \in Seq(Record \cup {Torn})
    BY <1>2, <2>1, JournalAppend, Zenon
  <2> QED
    BY <2>1, <2>2, Zenon DEF Publish
<1>4. reducer' \in [turn : Turn \cup {0}, text : Nat]
  BY ReducerType DEF Publish, TypeOK
<1>5. Closes(Head(out)) \in BOOLEAN /\ (runWaits /\ Len(out) > 1) \in BOOLEAN
  <2>1. Closes(Head(out)) \in BOOLEAN
    BY SMT DEF Closes
  <2>2. (runWaits /\ Len(out) > 1) \in BOOLEAN
    BY SMT
  <2> QED
    BY <2>1, <2>2, Zenon
<1>6. unlink \in BOOLEAN /\ lost \in BOOLEAN
  BY DEF TypeOK
<1>7. unlink' \in BOOLEAN /\ lost' \in BOOLEAN
  BY <1>5, <1>6, Zenon DEF Publish
<1>8. runWaits' \in BOOLEAN
  BY <1>5, Zenon DEF Publish
<1> QED
  BY <1>1, <1>3, <1>4, <1>7, <1>8 DEF Publish, TypeOK

\* ShortWrite:
LEMMA ShortWriteTyped == TypeOK /\ ShortWrite => TypeOK'
<1> SUFFICES ASSUME TypeOK, ShortWrite PROVE TypeOK'
  OBVIOUS
<1>1. Tail(out) \in Seq(Outgoing)
  BY HeadOut DEF ShortWrite
<1>2. journal' \in Seq(Record \cup {Torn})
  BY TornAppend DEF ShortWrite, TypeOK
<1>3. reducer' \in [turn : Turn \cup {0}, text : Nat]
  BY ReducerType DEF ShortWrite, TypeOK
<1> QED
  BY <1>1, <1>2, <1>3 DEF ShortWrite, TypeOK

\* ClosePending:
LEMMA ClosePendingTyped == TypeOK /\ ClosePending => TypeOK'
<1> SUFFICES ASSUME TypeOK, ClosePending PROVE TypeOK'
  OBVIOUS
<1>1. flight' \in Seq(Deltas)
  BY DEF ClosePending
<1>2. unlink' \in BOOLEAN
  BY Zenon DEF ClosePending
<1> QED
  BY <1>1, <1>2 DEF ClosePending, TypeOK, memoryVars, auditVars

\* SendRequest:
LEMMA SendRequestTyped == TypeOK /\ SendRequest => TypeOK'
<1> SUFFICES ASSUME TypeOK, SendRequest PROVE TypeOK'
  OBVIOUS
<1>1. turns' \in Turn /\ turns' \in 0 .. MaxTurn
  BY Bounds DEF SendRequest, TypeOK
<1>2. Request(turns') \in Record
  BY <1>1, TurnRecords
<1>3. journal' \in Seq(Record \cup {Torn})
  BY <1>2, JournalAppend DEF SendRequest, TypeOK
<1>4. reducer' \in [turn : Turn \cup {0}, text : Nat]
  BY <1>1 DEF SendRequest
<1>5. sent' \in SUBSET Message
  BY DEF SendRequest, TypeOK, Range
<1> QED
  BY <1>1, <1>3, <1>4, <1>5 DEF SendRequest, TypeOK

\* ReceiveDelta:
LEMMA ReceiveDeltaTyped == TypeOK /\ ReceiveDelta => TypeOK'
<1> SUFFICES ASSUME TypeOK, ReceiveDelta PROVE TypeOK'
  OBVIOUS
<1>1. turn \in Turn
  BY DEF ReceiveDelta, TypeOK
<1>2. flight' \in Seq(Deltas)
  <2>1. Delta(turn) \in Deltas
    BY <1>1 DEF Deltas
  <2> QED
    BY <2>1 DEF ReceiveDelta, TypeOK
<1>3. streamed' \in [Turn -> Nat]
  BY <1>1 DEF ReceiveDelta, TypeOK
<1>4. reducer' \in [turn : Turn \cup {0}, text : Nat]
  <2>1. reducer \in [turn : Turn \cup {0}, text : Nat] /\ reducer.text + 1 \in Nat
    BY DEF TypeOK
  <2>2. reducer' = [reducer EXCEPT !.text = reducer.text + 1]
    BY DEF ReceiveDelta
  <2> QED
    BY <2>1, <2>2
<1> QED
  BY <1>2, <1>3, <1>4 DEF ReceiveDelta, TypeOK

\* ReceiveResponse:
LEMMA ReceiveResponseTyped == TypeOK /\ ReceiveResponse => TypeOK'
<1> SUFFICES ASSUME TypeOK, ReceiveResponse PROVE TypeOK'
  OBVIOUS
<1>1. turn \in Turn /\ streamed[turn] \in Nat /\ reducer.text \in Nat
  BY DEF ReceiveResponse, TypeOK
<1>2. Response(turn, streamed[turn], reducer.text) \in Record
  BY <1>1, TurnRecords
<1>3. journal' \in Seq(Record \cup {Torn})
  BY <1>2, JournalAppend DEF ReceiveResponse, TypeOK
<1>4. reducer' \in [turn : Turn \cup {0}, text : Nat]
  BY ReducerType DEF ReceiveResponse
<1> QED
  BY <1>3, <1>4 DEF ReceiveResponse, TypeOK, auditVars

\* Crash:
LEMMA CrashTyped == TypeOK /\ Crash => TypeOK'
<1> SUFFICES ASSUME TypeOK, Crash PROVE TypeOK'
  OBVIOUS
<1>1. Without(waiting, {m \in Message : Queued(m) \in Range(out)}) \in Seq(Message)
  BY WithoutType DEF TypeOK
<1>2. owed' \in Seq(Message)
  BY <1>1 DEF Crash, TypeOK
<1>3. reducer' \in [turn : Turn \cup {0}, text : Nat] /\ image' \in State
  BY ReducerType, EmptyType DEF Crash
<1>4. waiting' \in Seq(Message) /\ messages' \in Seq(Message) /\ out' \in Seq(Outgoing)
  BY DEF Crash
<1>5. unlink' \in BOOLEAN /\ runWaits' \in BOOLEAN
  BY DEF Crash
<1> QED
  BY <1>2, <1>3, <1>4, <1>5 DEF Crash, TypeOK

\* The records of the flight file are records.
LEMMA MergedType ==
    ASSUME TypeOK, Readable(journal)
    PROVE  /\ journal \in Seq(Record) /\ flight \in Seq(Record)
           /\ journal \o flight \in Seq(Record)
<1>1. journal \in Seq(Record)
  BY ReadableIs DEF TypeOK
<1>2. \A d \in Deltas : d \in Record
  BY TurnRecords DEF Deltas
<1>3. flight \in Seq(Record)
  BY <1>2 DEF TypeOK
<1> QED
  BY <1>1, <1>3

\* Slim:
LEMMA SlimTyped == TypeOK /\ Slim => TypeOK'
<1> SUFFICES ASSUME TypeOK, Slim PROVE TypeOK'
  OBVIOUS
<1>1. journal' \in Seq(Record \cup {Torn})
  <2>1. CASE phase' = "slimmed"
    <3>1. Readable(journal) /\ journal' = Slimmed(journal \o flight)
      BY <2>1 DEF Slim
    <3>2. journal' \in Seq(Record)
      BY <3>1, MergedType, SlimmedType
    <3> QED
      BY <3>2
  <2>2. CASE phase' # "slimmed"
    BY <2>2 DEF Slim, TypeOK
  <2> QED
    BY <2>1, <2>2
<1> QED
  BY <1>1 DEF Slim, TypeOK, memoryVars, auditVars

\* DropFlight:
LEMMA DropFlightTyped == TypeOK /\ DropFlight => TypeOK'
BY DEF DropFlight, TypeOK, memoryVars, auditVars

\* The journal is what the cache covers and the records after it.
LEMMA TailType ==
    ASSUME TypeOK, Readable(journal), IsPrefix(cache.covers, journal)
    PROVE  /\ SubSeq(journal, Len(cache.covers) + 1, Len(journal)) \in Seq(Record)
           /\ journal = cache.covers \o SubSeq(journal, Len(cache.covers) + 1, Len(journal))
<1> DEFINE c == cache.covers
           t == SubSeq(journal, Len(c) + 1, Len(journal))
<1>1. journal \in Seq(Record) /\ c \in Seq(Record)
  BY MergedType DEF TypeOK
<1>2. Len(c) <= Len(journal) /\ SubSeq(c, 1, Len(c)) = SubSeq(journal, 1, Len(c))
  BY DEF IsPrefix
<1> HIDE DEF c
<1>3. t \in Seq(Record) /\ Len(t) = Len(journal) - Len(c)
  BY <1>1, <1>2
<1>4. \A i \in 1 .. Len(c) : c[i] = journal[i]
  <2>1. ASSUME NEW i \in 1 .. Len(c) PROVE c[i] = journal[i]
    <3>1. SubSeq(c, 1, Len(c))[i] = c[i] /\ SubSeq(journal, 1, Len(c))[i] = journal[i]
      BY <1>1, <1>2
    <3> QED
      BY <3>1, <1>2
  <2> QED
    BY <2>1
<1>5. \A i \in 1 .. Len(t) : t[i] = journal[Len(c) + i]
  BY <1>1, <1>2
<1> HIDE DEF t
<1>6. journal = c \o t
  <2> DEFINE u == c \o t
  <2>1. u \in Seq(Record) /\ Len(u) = Len(journal)
    BY <1>1, <1>2, <1>3
  <2>2. ASSUME NEW i \in 1 .. Len(journal) PROVE u[i] = journal[i]
    <3>1. CASE i <= Len(c)
      BY <1>1, <1>3, <1>4, <3>1
    <3>2. CASE ~ (i <= Len(c))
      <4>1. i - Len(c) \in 1 .. Len(t) /\ Len(c) + (i - Len(c)) = i
        BY <1>1, <1>2, <1>3, <3>2
      <4> QED
        BY <1>1, <1>3, <1>5, <3>2, <4>1
    <3> QED
      BY <3>1, <3>2
  <2> HIDE DEF u
  <2>3. journal = u
    BY <1>1, <2>1, <2>2
  <2> QED
    BY <2>3 DEF u
<1> QED
  BY <1>3, <1>6 DEF t, c

\* Load:
LEMMA LoadTyped == TypeOK /\ Load => TypeOK'
<1> SUFFICES ASSUME TypeOK, Load PROVE TypeOK'
  OBVIOUS
<1>1. cache.snapshot \in State /\ cache.covers \in Seq(Record)
  BY DEF TypeOK
<1>2. ASSUME CacheHit
      PROVE  ProjectFrom(cache.snapshot, SubSeq(journal, Len(cache.covers) + 1, Len(journal))) \in State
  <2>1. SubSeq(journal, Len(cache.covers) + 1, Len(journal)) \in Seq(Record)
    BY <1>2, TailType DEF CacheHit
  <2> QED
    BY <1>1, <2>1, ProjectType
<1>3. ASSUME Readable(journal) PROVE journal \in Seq(Record) /\ Project(journal) \in State
  BY <1>3, MergedType, ProjectType, EmptyType DEF Project
<1>4. image' \in State /\ cache' \in [covers : Seq(Record), snapshot : State]
  BY <1>2, <1>3 DEF Load, TypeOK
<1>5. phase' \in {"restore", "refused"}
  BY DEF Load
<1> QED
  BY <1>4, <1>5 DEF Load, TypeOK, memoryVars, auditVars

\* Restore:
LEMMA RestoreTyped == TypeOK /\ Restore => TypeOK'
<1> SUFFICES ASSUME TypeOK, Restore PROVE TypeOK'
  OBVIOUS
<1>1. Closed(image) \in State
  BY ClosedType DEF TypeOK
<1>2. /\ Created(Closed(image)) \in Record
      /\ RestoreQueue(Closed(image)) \in Seq(Message)
      /\ Floor(Closed(image)) \in Message \cup {0}
      /\ Closed(image).messages \in Seq(Message)
  BY <1>1, CreatedRecords, RestoreQueueType, FloorType DEF State
<1>3. journal' \in Seq(Record \cup {Torn})
  BY <1>2, JournalAppend DEF Restore, TypeOK
<1> QED
  BY <1>2, <1>3, EmptyType DEF Restore, TypeOK, auditVars

\* Every step keeps the types.
LEMMA NextTyped == TypeOK /\ [Next]_vars => TypeOK'
<1> SUFFICES ASSUME TypeOK, [Next]_vars PROVE TypeOK'
  OBVIOUS
<1>1. CASE UNCHANGED vars
  BY <1>1 DEF TypeOK, vars, diskVars, memoryVars, auditVars
<1> QED
  BY <1>1, SubmitTyped, TakeQueuedTyped, FinishTyped, StopTyped, PublishTyped,
     ShortWriteTyped, ClosePendingTyped, SendRequestTyped, ReceiveDeltaTyped,
     ReceiveResponseTyped, CrashTyped, SlimTyped, DropFlightTyped, LoadTyped, RestoreTyped
     DEF Next

\* The variables of the journal and its chat are always of the declared kinds.
THEOREM JournalTypes == Spec => []TypeOK
<1> QED
  BY InitTyped, NextTyped, PTL DEF Spec

-----------------------------------------------------------------------------
(* The journal follows the chat: the inductive invariant. *)

\* A process that is not up has no run, no turn and nothing to publish.
Idle == phase # "up" => /\ run = 0 /\ turn = 0 /\ out = <<>> /\ reducer = NoTurn
                        /\ ~ unlink

\* Only a run streams a turn.
TurnOfRun == run = 0 => turn = 0

\* The cache holds the projection of the journal it covers.
CacheTrue == cache.covers # <<>> => cache.snapshot = Project(cache.covers)

\* What a start works on is the projection of the journal.
ImageTrue == phase = "restore" => Readable(journal) /\ image = Project(journal)

\* The messages that wait behind a run were accepted one after the other.
QueueNew ==
    run # 0 => Distinct(waiting) /\ \A i \in DOMAIN waiting : waiting[i] <= ids

\* A message has been accepted and its records are not all written.
Accepting ==
    \E w \in Seq(Message) : \E m \in Message :
        /\ waiting = Append(w, m) /\ m \notin Range(w) /\ run # 0
        /\ \/ out = <<Appended(m), Queued(m)>>
           \/ out = <<Queued(m)>> /\ (lost \/ m \in Range(Project(journal).messages))

\* What is being published: nothing, a list that emptied the queue, or a message.
OutShape ==
    \/ out = <<>>
    \/ waiting = <<>> /\ turn = 0 /\ (run = 0 \/ runWaits)
    \/ Accepting

\* The snapshot once everything is published.
Published == ProjectFrom(Project(journal), out)

\* A snapshot says what the process has.
Agrees(s) ==
    /\ s.messages = messages
    /\ s.running = (run # 0)
    /\ Range(waiting) = Range(s.queued) \cap Range(messages)

\* The journal, once everything is published, agrees with the process.
Follows == phase = "up" /\ ~ lost => Readable(journal) /\ Agrees(Published)

ChatInv == /\ TypeOK /\ Idle /\ TurnOfRun /\ CacheTrue /\ ImageTrue /\ QueueNew
           /\ OutShape /\ Follows

\* At first the process is up and no turn streams.
LEMMA IdleInit == Init => Idle /\ TurnOfRun
BY DEF Init, Idle, TurnOfRun

\* A process that is down has no run, no turn and nothing to publish; a turn belongs to
\* a run.
LEMMA IdleNext ==
    ASSUME TypeOK, Idle, TurnOfRun, Next
    PROVE  Idle' /\ TurnOfRun'
<1>1. CASE Submit
  <2>1. run' # 0 \/ (run' = run /\ turn' = turn)
    BY <1>1 DEF Submit
  <2> QED
    BY <1>1, <2>1, Bounds DEF Submit, Free, Up, Idle, TurnOfRun, TypeOK
<1>2. CASE TakeQueued
  BY <1>2 DEF TakeQueued, Free, Up, Idle, TurnOfRun
<1>3. CASE Finish
  BY <1>3 DEF Finish, Free, Up, Idle, TurnOfRun
<1>4. CASE Stop
  BY <1>4 DEF Stop, Free, Up, Idle, TurnOfRun
<1>5. CASE Publish
  BY <1>5 DEF Publish, Up, Idle, TurnOfRun
<1>6. CASE ShortWrite
  BY <1>6 DEF ShortWrite, Up, Idle, TurnOfRun
<1>7. CASE ClosePending
  BY <1>7 DEF ClosePending, Idle, TurnOfRun, memoryVars
<1>8. CASE SendRequest
  BY <1>8 DEF SendRequest, Up, Idle, TurnOfRun
<1>9. CASE ReceiveDelta
  BY <1>9 DEF ReceiveDelta, Up, Idle, TurnOfRun
<1>10. CASE ReceiveResponse
  BY <1>10 DEF ReceiveResponse, Up, Idle, TurnOfRun
<1>11. CASE Crash
  BY <1>11 DEF Crash, Idle, TurnOfRun
<1>12. CASE Slim
  BY <1>12 DEF Slim, Idle, TurnOfRun, memoryVars
<1>13. CASE DropFlight
  BY <1>13 DEF DropFlight, Idle, TurnOfRun, memoryVars
<1>14. CASE Load
  BY <1>14 DEF Load, Idle, TurnOfRun, memoryVars
<1>15. CASE Restore
  BY <1>15 DEF Restore, Idle, TurnOfRun
<1> QED
  BY <1>1, <1>2, <1>3, <1>4, <1>5, <1>6, <1>7, <1>8, <1>9, <1>10, <1>11, <1>12,
     <1>13, <1>14, <1>15 DEF Next

\* What a start projects is the journal.
LEMMA LoadTrue ==
    ASSUME TypeOK, CacheTrue, Load
    PROVE  /\ CacheTrue'
           /\ phase' = "restore" => Readable(journal) /\ image' = Project(journal)
<1>1. CASE CacheHit /\ phase' = "restore"
  <2> DEFINE t == SubSeq(journal, Len(cache.covers) + 1, Len(journal))
  <2>1. Readable(journal) /\ cache.covers # <<>> /\ IsPrefix(cache.covers, journal)
    BY <1>1 DEF CacheHit
  <2>2. t \in Seq(Record) /\ journal = cache.covers \o t
    BY <2>1, TailType
  <2>3. cache.covers \in Seq(Record) /\ Empty \in State
    BY EmptyType DEF TypeOK
  <2>4. image' = ProjectFrom(cache.snapshot, t) /\ cache' = cache
    BY <1>1 DEF Load
  <2> HIDE DEF t
  <2>5. cache.snapshot = ProjectFrom(Empty, cache.covers)
    BY <2>1 DEF CacheTrue, Project
  <2>6. ProjectFrom(Empty, cache.covers \o t) = ProjectFrom(ProjectFrom(Empty, cache.covers), t)
    BY <2>2, <2>3, ProjectConcat, Zenon
  <2>7. image' = Project(journal)
    BY <2>2, <2>4, <2>5, <2>6 DEF Project
  <2> QED
    BY <2>1, <2>4, <2>7 DEF CacheTrue
<1>2. CASE ~ CacheHit /\ phase' = "restore"
  <2>1. Readable(journal) /\ image' = Project(journal)
        /\ cache' = [covers |-> journal, snapshot |-> image']
    BY <1>2 DEF Load
  <2> QED
    BY <2>1 DEF CacheTrue
<1>3. CASE phase' # "restore"
  <2>1. cache' = cache
    BY <1>3 DEF Load
  <2> QED
    BY <1>3, <2>1 DEF CacheTrue
<1> QED
  BY <1>1, <1>2, <1>3

\* The cache holds the projection of what it covers, and a start works on the projection
\* of the journal.
LEMMA StartNext ==
    ASSUME TypeOK, CacheTrue, ImageTrue, Next
    PROVE  CacheTrue' /\ ImageTrue'
<1>1. CASE Load
  <2>1. journal' = journal
    BY <1>1 DEF Load
  <2> QED
    BY <1>1, <2>1, LoadTrue DEF ImageTrue
<1>2. CASE ~ Load
  <2>1. cache' = cache
    BY <1>2 DEF Next, Submit, TakeQueued, Finish, Stop, Publish, ShortWrite, ClosePending,
                SendRequest, ReceiveDelta, ReceiveResponse, Crash, Slim, DropFlight, Restore,
                diskVars
  <2>2. phase' # "restore"
    BY <1>2 DEF Next, Submit, TakeQueued, Finish, Stop, Publish, ShortWrite, ClosePending,
                SendRequest, ReceiveDelta, ReceiveResponse, Crash, Slim, DropFlight, Restore,
                Free, Up
  <2> QED
    BY <2>1, <2>2 DEF CacheTrue, ImageTrue
<1> QED
  BY <1>1, <1>2

\* A new member keeps a list without repetitions.
LEMMA DistinctAppend ==
    ASSUME NEW w \in Seq(Message), NEW m \in Message, Distinct(w), m \notin Range(w)
    PROVE  Distinct(Append(w, m))
<1> DEFINE t == Append(w, m)
           n == Len(w)
<1>1. /\ n \in Nat /\ DOMAIN w = 1 .. n /\ DOMAIN t = 1 .. n + 1 /\ t[n + 1] = m
      /\ \A k \in 1 .. n : t[k] = w[k]
  OBVIOUS
<1> HIDE DEF t, n
<1>2. \A k \in 1 .. n + 1 : k \in 1 .. n \/ k = n + 1
  BY <1>1
<1>3. \A i, j \in 1 .. n + 1 : t[i] = t[j] => i = j
  BY <1>1, <1>2 DEF Distinct, Range
<1> QED
  BY <1>1, <1>3 DEF Distinct, t

\* A new message is larger than the ones that wait behind the same run.
LEMMA NewNumber ==
    ASSUME TypeOK, QueueNew, Submit, run # 0
    PROVE  /\ ids' \in Message /\ ids' \notin Range(waiting)
           /\ waiting' = Append(waiting, ids')
           /\ out' = <<Appended(ids'), Queued(ids')>>
           /\ messages' = Append(messages, ids') /\ run' = run
<1>1. ids' \in Message /\ ids' = ids + 1 /\ ids \in Nat
  BY Bounds DEF Submit, TypeOK
<1>2. ids' \notin Range(waiting)
  <2>1. \A i \in DOMAIN waiting : waiting[i] \in Nat /\ waiting[i] <= ids
    BY Bounds DEF QueueNew, TypeOK
  <2> QED
    BY <1>1, <2>1 DEF Range
<1> QED
  BY <1>1, <1>2 DEF Submit

\* While a run is active its waiting messages are different and were numbered before.
LEMMA QueueNext ==
    ASSUME TypeOK, Idle, QueueNew, Next
    PROVE  QueueNew'
<1>0. \A i \in DOMAIN <<>> : FALSE
  OBVIOUS
<1>1. ASSUME waiting' = <<>> PROVE QueueNew'
  BY <1>1, <1>0 DEF QueueNew, Distinct
<1>2. CASE Submit
  <2>1. CASE run = 0
    BY <1>1, <1>2, <2>1 DEF Submit
  <2>2. CASE run # 0
    <3>1. /\ ids' \in Message /\ ids' \notin Range(waiting)
          /\ waiting' = Append(waiting, ids')
      BY <1>2, <2>2, NewNumber
    <3>2. waiting \in Seq(Message) /\ Distinct(waiting)
      BY <2>2 DEF TypeOK, QueueNew
    <3>3. Distinct(Append(waiting, ids'))
      BY <3>1, <3>2, DistinctAppend
    <3>4. ASSUME NEW i \in DOMAIN Append(waiting, ids') PROVE Append(waiting, ids')[i] <= ids'
      <4>1. ids' = ids + 1 /\ ids \in Nat
        BY <1>2, Bounds DEF Submit, TypeOK
      <4>2. \A k \in DOMAIN waiting : waiting[k] <= ids /\ waiting[k] \in Nat
        BY <2>2, Bounds DEF QueueNew, TypeOK
      <4>3. CASE i \in DOMAIN waiting
        <5>1. Append(waiting, ids')[i] = waiting[i]
          BY <3>1, <3>2, <4>3
        <5> QED
          BY <4>1, <4>2, <4>3, <5>1
      <4>4. CASE i \notin DOMAIN waiting
        <5>1. Append(waiting, ids')[i] = ids'
          BY <3>1, <3>2, <4>4
        <5> QED
          BY <4>1, <5>1
      <4> QED
        BY <4>3, <4>4
    <3> QED
      BY <3>1, <3>3, <3>4 DEF QueueNew
  <2> QED
    BY <2>1, <2>2
<1>3. CASE TakeQueued \/ Finish \/ Stop \/ Crash
  BY <1>1, <1>3 DEF TakeQueued, Finish, Stop, Crash
<1>4. CASE Restore \/ Load \/ Slim \/ DropFlight \/ ClosePending \/ Publish \/ ShortWrite
           \/ SendRequest \/ ReceiveDelta \/ ReceiveResponse
  <2>1. CASE Restore
    <3>1. run' = run
      BY <2>1 DEF Restore
    <3> QED
      BY <2>1, <3>1 DEF Restore, Idle, QueueNew
  <2>2. CASE ~ Restore
    <3>1. waiting' = waiting /\ ids' = ids /\ run' = run
      BY <1>4, <2>2 DEF Load, Slim, DropFlight, ClosePending, Publish, ShortWrite,
                   SendRequest, ReceiveDelta, ReceiveResponse, memoryVars
    <3> QED
      BY <3>1 DEF QueueNew
  <2> QED
    BY <2>1, <2>2
<1> QED
  BY <1>2, <1>3, <1>4 DEF Next

-----------------------------------------------------------------------------
(* What is left to publish. *)

\* The step of message.appended,
LEMMA AppendedStep ==
    ASSUME NEW s \in State, NEW m \in Message, NEW z, z = NextState(s, Appended(m))
    PROVE  z \in State /\ z.messages = Append(s.messages, m) /\ z.queued = s.queued
           /\ z.running = s.running
BY IdSteps

\* of message.queued,
LEMMA QueuedStep ==
    ASSUME NEW s \in State, NEW m \in Message, NEW z, z = NextState(s, Queued(m))
    PROVE  z \in State /\ z.messages = s.messages /\ z.queued = Append(s.queued, m)
           /\ z.running = s.running
BY IdSteps

\* of run.started,
LEMMA StartedStep ==
    ASSUME NEW s \in State, NEW m \in Message, NEW z, z = NextState(s, Started(m))
    PROVE  z \in State /\ z.messages = s.messages /\ z.queued = Without(s.queued, {m})
           /\ z.running = TRUE
BY IdSteps

\* The first journal says what the first chat has.
LEMMA InitProject ==
    ASSUME Init
    PROVE  /\ Readable(journal) /\ Agrees(Project(journal)) /\ Published = Project(journal)
           /\ Project(journal).queued = <<>> /\ Project(journal).messages = <<1>>
           /\ Project(journal).running = TRUE
<1> DEFINE a == Created(Empty)
           p == ProjectFrom(Empty, journal)
<1>1. Empty \in State /\ a \in Record /\ 1 \in Message
  BY EmptyType, CreatedRecords, Bounds
<1>2. Appended(1) \in Record /\ Started(1) \in Record
  BY <1>1, IdRecords DEF Record
<1>3. NextState(Empty, a) = Empty
  BY DEF NextState, Created
<1> HIDE DEF a
<1>4. journal = <<a, Appended(1), Started(1)>> /\ journal \in Seq(Record)
  BY <1>1, <1>2 DEF Init, a
<1>5. p = NextState(NextState(Empty, Appended(1)), Started(1))
  BY <1>1, <1>2, <1>3, <1>4, ProjectThree
<1>6. p \in State /\ p.messages = <<1>> /\ p.queued = <<>> /\ p.running = TRUE
  <2> DEFINE z == NextState(Empty, Appended(1))
  <2>1. z \in State /\ z.messages = Append(<<>>, 1) /\ z.queued = <<>>
    <3>1. Empty.messages = <<>> /\ Empty.queued = <<>>
      BY EmptyType
    <3>2. z = NextState(Empty, Appended(1))
      OBVIOUS
    <3> HIDE DEF z
    <3>3. z \in State /\ z.messages = Append(Empty.messages, 1) /\ z.queued = Empty.queued
      BY <1>1, <3>2, AppendedStep, Zenon
    <3> QED
      BY <3>1, <3>3
  <2> HIDE DEF z
  <2>2. p \in State /\ p.messages = z.messages /\ p.queued = Without(z.queued, {1}) /\ p.running = TRUE
    BY <1>1, <1>5, <2>1, StartedStep, Zenon DEF z
  <2> QED
    BY <2>1, <2>2, WithoutEmpty
<1>7. Range(<<>>) = {}
  BY DEF Range
<1> HIDE DEF p
<1>8. Published = p
  BY <1>6, ProjectEmpty DEF Published, Project, Init, p
<1>9. Readable(journal)
  BY <1>4, RecordsReadable
<1>10. messages = <<1>> /\ waiting = <<>> /\ run = 1
  BY DEF Init
<1>11. p = Project(journal)
  BY DEF Project, p
<1>12. Agrees(p)
  <2>1. (run # 0) = TRUE
    BY <1>10
  <2>2. Range(waiting) = Range(p.queued) \cap Range(messages)
    BY <1>6, <1>7, <1>10
  <2>3. p.messages = messages /\ p.running = (run # 0)
    BY <1>6, <1>10, <2>1
  <2> QED
    BY <2>2, <2>3 DEF Agrees
<1> QED
  BY <1>6, <1>8, <1>9, <1>11, <1>12

\* The invariant holds at first.
LEMMA ChatInit == Init => ChatInv
<1> SUFFICES ASSUME Init PROVE ChatInv
  OBVIOUS
<1>1. CacheTrue /\ ImageTrue /\ QueueNew /\ OutShape
  BY DEF Init, CacheTrue, ImageTrue, QueueNew, OutShape, NoCache, Distinct
<1>2. Follows
  BY InitProject DEF Follows
<1> QED
  BY <1>1, <1>2, InitTyped, IdleInit DEF ChatInv

\* Records of a turn say nothing of the conversation.
LEMMA TurnSame ==
    ASSUME NEW s \in State, NEW r \in Record,
           r.type \in {"model.request", "model.delta", "model.response"}
    PROVE  Same(NextState(s, r), s) /\ NextState(s, r) \in State
BY NextStateIs DEF Stepped, Same, NextMessages, NextQueued, NextRunning

\* What retainedSink adds to a record concerns texts only.
LEMMA PreparedSame ==
    ASSUME TypeOK, NEW r \in Outgoing, NEW s \in State
    PROVE  Same(NextState(s, Prepared(r)), NextState(s, r))
<1>1. CASE r = Stopped(0, 0)
  <2>1. Prepared(r) = Stopped(reducer.turn, reducer.text)
    BY <1>1 DEF Prepared, Stopped
  <2>2. Stopped(reducer.turn, reducer.text) \in Record /\ Stopped(0, 0) \in Record
    BY StoppedRecords DEF TypeOK
  <2>3. Stepped(s, Stopped(0, 0), NextState(s, Stopped(0, 0)))
    BY <2>2, NextStateIs
  <2>4. Stepped(s, Stopped(reducer.turn, reducer.text),
                NextState(s, Stopped(reducer.turn, reducer.text)))
    BY <2>2, NextStateIs
  <2> QED
    BY <1>1, <2>1, <2>3, <2>4 DEF Stepped, Same, NextMessages, NextQueued, NextRunning, Stopped
<1>2. CASE r # Stopped(0, 0)
  <2>1. r \in IdRecord
    BY <1>2 DEF Outgoing
  <2>2. Prepared(r) = r
    BY <2>1 DEF Prepared, IdRecord, IdTypes
  <2> QED
    BY <2>2 DEF Same
<1> QED
  BY <1>1, <1>2

\* Short lists.
LEMMA HeadTail ==
    ASSUME NEW S, NEW a \in S, NEW b \in S
    PROVE  /\ Head(<<a, b>>) = a /\ Tail(<<a, b>>) = <<b>>
           /\ Head(<<a>>) = a /\ Tail(<<a>>) = <<>>
OBVIOUS

\* Publishing the next record keeps what is left to publish in shape.
LEMMA PublishShape ==
    ASSUME TypeOK, OutShape, Follows, Publish
    PROVE  OutShape'
<1>0. /\ out' = Tail(out) /\ waiting' = waiting /\ turn' = turn /\ run' = run
      /\ runWaits' = (runWaits /\ Len(out) > 1) /\ out # <<>> /\ phase = "up"
  BY DEF Publish, Up
<1>1. CASE waiting = <<>> /\ turn = 0 /\ (run = 0 \/ runWaits)
  <2>1. CASE run = 0
    BY <1>0, <1>1, <2>1 DEF OutShape
  <2>2. CASE runWaits /\ Len(out) > 1
    BY <1>0, <1>1, <2>2 DEF OutShape
  <2>3. CASE ~ (Len(out) > 1)
    <3>1. Tail(out) = <<>>
      BY <1>0, <2>3 DEF TypeOK
    <3> QED
      BY <1>0, <3>1 DEF OutShape
  <2> QED
    BY <1>1, <2>1, <2>2, <2>3
<1>2. CASE Accepting
  <2>1. PICK w \in Seq(Message), m \in Message :
            /\ waiting = Append(w, m) /\ m \notin Range(w) /\ run # 0
            /\ \/ out = <<Appended(m), Queued(m)>>
               \/ out = <<Queued(m)>> /\ (lost \/ m \in Range(Project(journal).messages))
    BY <1>2 DEF Accepting
  <2>2. CASE out = <<Appended(m), Queued(m)>>
    <3>1. out' = <<Queued(m)>> /\ Head(out) = Appended(m)
      BY <1>0, <2>2, HeadTail
    <3>2. CASE lost'
      BY <1>0, <2>1, <3>1, <3>2 DEF OutShape, Accepting
    <3>3. CASE ~ lost'
      <4>1. ~ lost /\ journal' = Append(journal, Prepared(Appended(m)))
        BY <3>1, <3>3 DEF Publish
      <4>2. Prepared(Appended(m)) = Appended(m)
        BY DEF Prepared, Appended
      <4>3. Readable(journal) /\ journal \in Seq(Record \cup {Torn})
        BY <1>0, <4>1 DEF Follows, TypeOK
      <4>4. Appended(m) \in Record
        BY IdRecords DEF Record
      <4>5. Project(journal) \in State /\ Project(journal') = NextState(Project(journal), Appended(m))
        BY <4>1, <4>2, <4>3, <4>4, JournalAppend
      <4>6. Project(journal').messages = Append(Project(journal).messages, m)
        BY <4>5, AppendedStep, Zenon
      <4>7. m \in Range(Project(journal').messages)
        <5>1. Project(journal).messages \in Seq(Message)
          BY <4>5 DEF State
        <5> QED
          BY <4>6, <5>1, RangeAppend
      <4> QED
        BY <1>0, <2>1, <3>1, <4>7 DEF OutShape, Accepting
    <3> QED
      BY <3>2, <3>3
  <2>3. CASE out = <<Queued(m)>>
    BY <1>0, <2>3, HeadTail DEF OutShape
  <2> QED
    BY <2>1, <2>2, <2>3
<1> QED
  BY <1>0, <1>1, <1>2 DEF OutShape

\* So does a step of the turn, which only the acceptance of a message may accompany.
LEMMA TurnShape ==
    ASSUME TypeOK, OutShape, Follows, SendRequest \/ ReceiveResponse \/ ReceiveDelta
    PROVE  OutShape'
<1>0. out' = out /\ waiting' = waiting /\ run' = run /\ lost' = lost /\ phase = "up"
  BY DEF SendRequest, ReceiveResponse, ReceiveDelta, auditVars, Up
<1>1. CASE out = <<>>
  BY <1>0, <1>1 DEF OutShape
<1>2. CASE waiting = <<>> /\ turn = 0 /\ (run = 0 \/ runWaits) /\ out # <<>>
  BY <1>2 DEF SendRequest, ReceiveResponse, ReceiveDelta
<1>3. CASE Accepting
  <2>1. PICK w \in Seq(Message), m \in Message :
            /\ waiting = Append(w, m) /\ m \notin Range(w) /\ run # 0
            /\ \/ out = <<Appended(m), Queued(m)>>
               \/ out = <<Queued(m)>> /\ (lost \/ m \in Range(Project(journal).messages))
    BY <1>3 DEF Accepting
  <2>2. lost \/ Project(journal').messages = Project(journal).messages
    <3>1. CASE ReceiveDelta
      BY <3>1 DEF ReceiveDelta
    <3>2. CASE ~ lost /\ (SendRequest \/ ReceiveResponse)
      <4>1. PICK r \in Record : /\ r.type \in {"model.request", "model.delta", "model.response"}
                                /\ journal' = Append(journal, r)
        <5>1. CASE SendRequest
          <6>1. turns' \in Turn
            BY <5>1, Bounds DEF SendRequest, TypeOK
          <6>2. Request(turns') \in Record
            BY <6>1, TurnRecords
          <6> QED
            BY <5>1, <6>2 DEF SendRequest, Request
        <5>2. CASE ReceiveResponse
          <6>1. turn \in Turn /\ streamed[turn] \in Nat /\ reducer.text \in Nat
            BY <5>2 DEF ReceiveResponse, TypeOK
          <6>2. Response(turn, streamed[turn], reducer.text) \in Record
            BY <6>1, TurnRecords
          <6> QED
            BY <5>2, <6>2 DEF ReceiveResponse, Response
        <5> QED
          BY <3>2, <5>1, <5>2
      <4>2. Readable(journal) /\ journal \in Seq(Record \cup {Torn})
        BY <1>0, <3>2 DEF Follows, TypeOK
      <4>3. Project(journal) \in State /\ Project(journal') = NextState(Project(journal), r)
        BY <4>1, <4>2, JournalAppend
      <4> QED
        BY <4>1, <4>3, TurnSame DEF Same
    <3> QED
      BY <3>1, <3>2
  <2> QED
    BY <1>0, <2>1, <2>2 DEF OutShape, Accepting
<1> QED
  BY <1>1, <1>2, <1>3 DEF OutShape

\* What is left to publish is the end of an operation nobody waits behind, or the
\* acceptance of the last waiting message.
LEMMA ShapeNext ==
    ASSUME TypeOK, Idle, TurnOfRun, QueueNew, OutShape, Follows, Next
    PROVE  OutShape'
<1>1. CASE Submit
  <2>1. CASE run = 0
    <3>1. waiting' = <<>> /\ turn' = 0 /\ runWaits' = TRUE
      BY <1>1, <2>1 DEF Submit, TurnOfRun
    <3> QED
      BY <3>1 DEF OutShape
  <2>2. CASE run # 0
    <3>1. /\ ids' \in Message /\ ids' \notin Range(waiting)
          /\ waiting' = Append(waiting, ids')
          /\ out' = <<Appended(ids'), Queued(ids')>> /\ run' = run
      BY <1>1, <2>2, NewNumber
    <3>2. waiting \in Seq(Message)
      BY DEF TypeOK
    <3>3. Accepting'
      BY <2>2, <3>1, <3>2 DEF Accepting
    <3> QED
      BY <3>3 DEF OutShape
  <2> QED
    BY <2>1, <2>2
<1>2. CASE TakeQueued \/ Finish \/ Stop
  BY <1>2 DEF TakeQueued, Finish, Stop, OutShape
<1>3. CASE Publish
  BY <1>3, PublishShape
<1>4. CASE ShortWrite
  <2>0. /\ out' = Tail(out) /\ waiting' = waiting /\ turn' = turn /\ run' = run
        /\ runWaits' = (runWaits /\ Len(out) > 1) /\ out # <<>> /\ lost'
    BY <1>4 DEF ShortWrite
  <2>1. CASE ~ (Len(out) > 1)
    <3>1. Tail(out) = <<>>
      BY <2>0, <2>1 DEF TypeOK
    <3> QED
      BY <2>0, <3>1 DEF OutShape
  <2>2. CASE Len(out) > 1 /\ ~ Accepting
    BY <2>0, <2>2 DEF OutShape
  <2>3. CASE Accepting
    <3>1. PICK w \in Seq(Message), m \in Message :
              /\ waiting = Append(w, m) /\ m \notin Range(w) /\ run # 0
              /\ \/ out = <<Appended(m), Queued(m)>>
                 \/ out = <<Queued(m)>>
      BY <2>3 DEF Accepting
    <3>2. out' = <<>> \/ out' = <<Queued(m)>>
      <4>1. CASE out = <<Appended(m), Queued(m)>>
        BY <2>0, <4>1, HeadTail
      <4>2. CASE out = <<Queued(m)>>
        BY <2>0, <4>2, HeadTail
      <4> QED
        BY <3>1, <4>1, <4>2
    <3> QED
      BY <2>0, <3>1, <3>2 DEF OutShape, Accepting
  <2> QED
    BY <2>1, <2>2, <2>3
<1>5. CASE SendRequest \/ ReceiveResponse \/ ReceiveDelta
  BY <1>5, TurnShape
<1>6. CASE ClosePending
  BY <1>6 DEF ClosePending, OutShape, Accepting, memoryVars, auditVars
<1>7. CASE Crash
  BY <1>7 DEF Crash, OutShape
<1>8. CASE Slim \/ DropFlight \/ Load \/ Restore
  BY <1>8 DEF Slim, DropFlight, Load, Restore, OutShape, Idle, memoryVars
<1> QED
  BY <1>1, <1>2, <1>3, <1>4, <1>5, <1>6, <1>7, <1>8 DEF Next

-----------------------------------------------------------------------------
(* The operations, once published. *)

\* and of run.stopped.
LEMMA StoppedStep ==
    ASSUME NEW s \in State, NEW z, z = NextState(s, Stopped(0, 0))
    PROVE  z \in State /\ z.messages = s.messages /\ z.queued = s.queued
           /\ z.running = FALSE
<1>1. Stopped(0, 0) \in Record
  BY StoppedRecords
<1>2. Stepped(s, Stopped(0, 0), z)
  BY <1>1, NextStateIs
<1> QED
  BY <1>2 DEF Stepped, NextMessages, NextQueued, NextRunning, Stopped

\* Before an operation the chat agrees with its journal.
LEMMA FreeAgrees ==
    ASSUME TypeOK, Follows, Free, ~ lost
    PROVE  /\ Readable(journal) /\ Project(journal) \in State /\ Agrees(Project(journal))
           /\ Range(waiting) = Range(Project(journal).queued) \cap Range(Project(journal).messages)
<1>1. Readable(journal) /\ Agrees(Published) /\ out = <<>>
  BY DEF Free, Up, Follows
<1>2. Project(journal) \in State
  BY <1>1, ReadableIs, EmptyType, ProjectType DEF Project, TypeOK
<1>3. Published = Project(journal)
  BY <1>1, <1>2, ProjectEmpty DEF Published
<1> QED
  BY <1>1, <1>2, <1>3 DEF Agrees

\* What the records of each operation come to.
SubmittedTo(s, m, z) ==
    /\ z \in State
    /\ z.messages = Append(s.messages, m)
    /\ z.queued = Append(s.queued, m)
    /\ z.running = s.running

\* A message that waits is in the conversation and in the queue.
LEMMA SubmittedProject ==
    ASSUME NEW s \in State, NEW m \in Message
    PROVE  SubmittedTo(s, m, ProjectFrom(s, <<Appended(m), Queued(m)>>))
<1> DEFINE a == NextState(s, Appended(m))
           z == NextState(a, Queued(m))
<1>1. Appended(m) \in Record /\ Queued(m) \in Record
  BY IdRecords DEF Record
<1>2. ProjectFrom(s, <<Appended(m), Queued(m)>>) = z
  BY <1>1, ProjectTwo
<1>3. a \in State /\ a.messages = Append(s.messages, m) /\ a.queued = s.queued
      /\ a.running = s.running
  BY AppendedStep, Zenon
<1> HIDE DEF a
<1>4. z \in State /\ z.messages = a.messages /\ z.queued = Append(a.queued, m)
      /\ z.running = a.running
  BY <1>3, QueuedStep, Zenon
<1> QED
  BY <1>2, <1>3, <1>4 DEF SubmittedTo

OpenedTo(s, w, m, z) ==
    /\ z \in State
    /\ z.messages = Append(Without(s.messages, Range(w)), m)
    /\ z.queued = Without(Without(s.queued, Range(w)), {m})
    /\ z.running = TRUE

\* A message that starts a run ends the conversation, without the ones that were returned.
LEMMA OpenedProject ==
    ASSUME NEW s \in State, NEW w \in Seq(Message), NEW m \in Message
    PROVE  OpenedTo(s, w, m, ProjectFrom(s, Each(w, Returns) \o <<Appended(m), Started(m)>>))
<1> DEFINE e == Each(w, Returns)
           p == ProjectFrom(s, e)
           a == NextState(p, Appended(m))
           z == NextState(a, Started(m))
           l == <<Appended(m), Started(m)>>
<1>1. Appended(m) \in Record /\ Started(m) \in Record
  BY IdRecords DEF Record
<1>2. e \in Seq(Record)
  BY ListsRecords, EachType
<1>3. ReturnedTo(s, w, p)
  BY ReturnsProject
<1>4. l \in Seq(Record)
  BY <1>1
<1>5. p \in State
  BY <1>3 DEF ReturnedTo
<1>6. ProjectFrom(p, l) = z
  BY <1>1, <1>5, ProjectTwo, Zenon
<1>7. ProjectFrom(s, e \o l) = ProjectFrom(p, l)
  BY <1>2, <1>4, ProjectConcat, Zenon
<1>8. a \in State /\ a.messages = Append(p.messages, m) /\ a.queued = p.queued
  BY <1>5, AppendedStep, Zenon
<1> HIDE DEF a, p
<1>9. z \in State /\ z.messages = a.messages /\ z.queued = Without(a.queued, {m})
      /\ z.running = TRUE
  BY <1>8, StartedStep, Zenon
<1> QED
  BY <1>3, <1>6, <1>7, <1>8, <1>9 DEF OpenedTo, ReturnedTo

StoppedTo(s, w, z) ==
    /\ z \in State
    /\ z.messages = Without(s.messages, Range(w))
    /\ z.queued = Without(s.queued, Range(w))
    /\ z.running = FALSE

\* A stopped run leaves neither a run nor a queue.
LEMMA StoppedProject ==
    ASSUME NEW s \in State, NEW w \in Seq(Message)
    PROVE  StoppedTo(s, w, ProjectFrom(s, Each(w, Returns) \o <<Stopped(0, 0)>>))
<1> DEFINE e == Each(w, Returns)
           p == ProjectFrom(s, e)
           l == <<Stopped(0, 0)>>
           z == NextState(p, Stopped(0, 0))
<1>1. Stopped(0, 0) \in Record
  BY StoppedRecords
<1>2. e \in Seq(Record)
  BY ListsRecords, EachType
<1>3. ReturnedTo(s, w, p)
  BY ReturnsProject
<1>4. l \in Seq(Record)
  BY <1>1
<1>5. p \in State
  BY <1>3 DEF ReturnedTo
<1>6. ProjectFrom(p, l) = z
  BY <1>1, <1>5, ProjectOne, Zenon
<1>7. ProjectFrom(s, e \o l) = ProjectFrom(p, l)
  BY <1>2, <1>4, ProjectConcat, Zenon
<1>8. z \in State /\ z.messages = p.messages /\ z.queued = p.queued
      /\ z.running = FALSE
  BY <1>5, StoppedStep, Zenon
<1> HIDE DEF z, p
<1> QED
  BY <1>3, <1>6, <1>7, <1>8 DEF StoppedTo, ReturnedTo

EndedTo(s, w, z) ==
    /\ z \in State
    /\ z.messages = Without(s.messages, Range(w)) \o w
    /\ z.queued = Without(s.queued, Range(w))
    /\ z.running = FALSE

\* A run that ended delivered what waited.
LEMMA EndedProject ==
    ASSUME NEW s \in State, NEW w \in Seq(Message), Distinct(w)
    PROVE  EndedTo(s, w, ProjectFrom(s, Each(w, Delivers) \o <<Stopped(0, 0)>>))
<1> DEFINE e == Each(w, Delivers)
           p == ProjectFrom(s, e)
           l == <<Stopped(0, 0)>>
           z == NextState(p, Stopped(0, 0))
<1>1. Stopped(0, 0) \in Record
  BY StoppedRecords
<1>2. e \in Seq(Record)
  BY ListsRecords, EachType
<1>3. DeliveredTo(s, w, p)
  BY DeliversProject
<1>4. l \in Seq(Record)
  BY <1>1
<1>5. p \in State
  BY <1>3 DEF DeliveredTo
<1>6. ProjectFrom(p, l) = z
  BY <1>1, <1>5, ProjectOne, Zenon
<1>7. ProjectFrom(s, e \o l) = ProjectFrom(p, l)
  BY <1>2, <1>4, ProjectConcat, Zenon
<1>8. z \in State /\ z.messages = p.messages /\ z.queued = p.queued
      /\ z.running = FALSE
  BY <1>5, StoppedStep, Zenon
<1> HIDE DEF z, p
<1> QED
  BY <1>3, <1>6, <1>7, <1>8 DEF EndedTo, DeliveredTo

PassedTo(s, w, m, z) ==
    /\ z \in State
    /\ z.messages = Without(s.messages, Range(w)) \o w
    /\ z.queued = Without(Without(s.queued, Range(w)), {m})
    /\ z.running = TRUE

\* The first of them starts the next run.
LEMMA PassedProject ==
    ASSUME NEW s \in State, NEW w \in Seq(Message), Distinct(w), NEW m \in Message
    PROVE  PassedTo(s, w, m, ProjectFrom(s, Each(w, Delivers) \o <<Stopped(0, 0)>>
                                              \o <<Started(m)>>))
<1> DEFINE e == Each(w, Delivers)
           f == e \o <<Stopped(0, 0)>>
           p == ProjectFrom(s, f)
           l == <<Started(m)>>
           z == NextState(p, Started(m))
<1>1. Stopped(0, 0) \in Record /\ Started(m) \in Record
  BY StoppedRecords, IdRecords DEF Record
<1>2. f \in Seq(Record)
  <2>1. e \in Seq(Record)
    BY ListsRecords, EachType
  <2> HIDE DEF e
  <2> QED
    BY <1>1, <2>1
<1>3. EndedTo(s, w, p)
  BY EndedProject
<1> HIDE DEF f
<1>4. l \in Seq(Record)
  BY <1>1
<1>5. p \in State
  BY <1>3 DEF EndedTo
<1>6. ProjectFrom(p, l) = z
  BY <1>1, <1>5, ProjectOne, Zenon
<1>7. ProjectFrom(s, f \o l) = ProjectFrom(p, l)
  BY <1>2, <1>4, ProjectConcat, Zenon
<1>8. z \in State /\ z.messages = p.messages /\ z.queued = Without(p.queued, {m})
      /\ z.running = TRUE
  BY <1>5, StartedStep, Zenon
<1> HIDE DEF z, p
<1>9. ProjectFrom(s, Each(w, Delivers) \o <<Stopped(0, 0)>> \o <<Started(m)>>) = z
  BY <1>6, <1>7 DEF f
<1> QED
  BY <1>3, <1>8, <1>9 DEF EndedTo, PassedTo

-----------------------------------------------------------------------------
(* They keep the agreement. *)

\* Once published, an operation leaves the journal in agreement with the chat.  Submit:
LEMMA SubmitFollows ==
    ASSUME TypeOK, QueueNew, Follows, Submit
    PROVE  Follows'
<1> SUFFICES ASSUME ~ lost PROVE Readable(journal) /\ Agrees(Published)'
  BY DEF Follows, Submit, diskVars
<1> DEFINE s == Project(journal)
           m == ids'
<1>0. journal' = journal /\ Free /\ m \in Message
  BY Bounds DEF Submit, diskVars, TypeOK
<1>1. /\ Readable(journal) /\ s \in State /\ Agrees(s)
      /\ Range(waiting) = Range(s.queued) \cap Range(s.messages)
  BY <1>0, FreeAgrees
<1>2. s.messages \in Seq(Message) /\ s.queued \in Seq(Message) /\ waiting \in Seq(Message)
      /\ s.messages = messages
  BY <1>1 DEF State, TypeOK, Agrees
<1> HIDE DEF s, m
<1>3. CASE run # 0
  <2>1. /\ waiting' = Append(waiting, m) /\ out' = <<Appended(m), Queued(m)>>
        /\ messages' = Append(messages, m) /\ run' = run
    BY <1>3, NewNumber DEF m
  <2> DEFINE z == ProjectFrom(s, <<Appended(m), Queued(m)>>)
  <2>2. SubmittedTo(s, m, z)
    BY <1>0, <1>1, SubmittedProject
  <2>3. Published' = z
    BY <1>0, <2>1 DEF Published, s
  <2> HIDE DEF z
  <2>4. /\ Range(z.queued) = Range(s.queued) \cup {m}
        /\ Range(messages') = Range(s.messages) \cup {m}
        /\ Range(waiting') = Range(waiting) \cup {m}
    <3>1. Range(Append(s.queued, m)) = Range(s.queued) \cup {m}
      BY <1>0, <1>2, RangeAppend
    <3>2. Range(Append(s.messages, m)) = Range(s.messages) \cup {m}
      BY <1>0, <1>2, RangeAppend
    <3>3. Range(Append(waiting, m)) = Range(waiting) \cup {m}
      BY <1>0, <1>2, RangeAppend
    <3> QED
      BY <1>2, <2>1, <2>2, <3>1, <3>2, <3>3 DEF SubmittedTo
  <2>5. z.messages = messages' /\ z.running = (run' # 0)
    BY <1>1, <1>2, <2>1, <2>2 DEF SubmittedTo, Agrees
  <2>6. Range(waiting') = Range(z.queued) \cap Range(messages')
    BY <1>1, <2>4
  <2> QED
    BY <1>1, <2>3, <2>5, <2>6 DEF Agrees
<1>4. CASE run = 0
  <2>1. /\ waiting' = <<>> /\ out' = Each(waiting, Returns) \o <<Appended(m), Started(m)>>
        /\ messages' = Append(Without(messages, Range(waiting)), m) /\ run' = m
    BY <1>4 DEF Submit, m
  <2> DEFINE z == ProjectFrom(s, Each(waiting, Returns) \o <<Appended(m), Started(m)>>)
             c == Without(s.messages, Range(waiting))
             d == Without(s.queued, Range(waiting))
  <2>2. OpenedTo(s, waiting, m, z)
    BY <1>0, <1>1, <1>2, OpenedProject
  <2>3. Published' = z
    BY <1>0, <2>1 DEF Published, s
  <2> HIDE DEF z
  <2>4. c \in Seq(Message) /\ d \in Seq(Message) /\ Range(c) = Range(s.messages) \ Range(waiting)
        /\ Range(d) = Range(s.queued) \ Range(waiting)
    BY <1>2, WithoutType, WithoutRange
  <2>5. z.messages = Append(c, m) /\ z.queued = Without(d, {m}) /\ z.running = TRUE
        /\ messages' = Append(c, m)
    BY <1>2, <2>1, <2>2 DEF OpenedTo
  <2> HIDE DEF c, d
  <2>6. Range(messages') = Range(c) \cup {m} /\ Range(z.queued) = Range(d) \ {m}
    BY <1>0, <2>4, <2>5, RangeAppend, WithoutRange
  <2>7. Range(waiting') = {}
    BY <2>1 DEF Range
  <2>8. Range(waiting') = Range(z.queued) \cap Range(messages')
    BY <1>1, <2>4, <2>6, <2>7
  <2>9. (run' # 0) = TRUE
    BY <1>0, <2>1, Bounds
  <2> QED
    BY <1>1, <2>3, <2>5, <2>8, <2>9 DEF Agrees
<1> QED
  BY <1>3, <1>4

\* TakeQueued:
LEMMA TakeQueuedFollows ==
    ASSUME TypeOK, QueueNew, Follows, TakeQueued
    PROVE  Follows'
<1> SUFFICES ASSUME ~ lost PROVE Readable(journal) /\ Agrees(Published)'
  BY DEF Follows, TakeQueued, diskVars, auditVars
<1> DEFINE s == Project(journal)
           z == ProjectFrom(s, Each(waiting, Delivers))
           d == Without(s.queued, Range(waiting))
           c == Without(s.messages, Range(waiting))
<1>0. journal' = journal /\ Free /\ run' = run /\ Distinct(waiting) /\ waiting' = <<>>
      /\ messages' = Without(messages, Range(waiting)) \o waiting /\ out' = Each(waiting, Delivers)
  BY DEF TakeQueued, diskVars, QueueNew
<1>1. /\ Readable(journal) /\ s \in State /\ Agrees(s)
      /\ Range(waiting) = Range(s.queued) \cap Range(s.messages)
  BY <1>0, FreeAgrees
<1>2. s.messages \in Seq(Message) /\ s.queued \in Seq(Message) /\ waiting \in Seq(Message)
      /\ s.messages = messages
  BY <1>1 DEF State, TypeOK, Agrees
<1> HIDE DEF s
<1>3. DeliveredTo(s, waiting, z) /\ Published' = z
  BY <1>0, <1>1, <1>2, DeliversProject DEF Published, s
<1> HIDE DEF z
<1>4. c \in Seq(Message) /\ d \in Seq(Message) /\ Range(c) = Range(s.messages) \ Range(waiting)
      /\ Range(d) = Range(s.queued) \ Range(waiting)
  BY <1>2, WithoutType, WithoutRange
<1>5. z.messages = c \o waiting /\ z.queued = d /\ z.running = s.running /\ messages' = c \o waiting
  BY <1>0, <1>2, <1>3 DEF DeliveredTo
<1> HIDE DEF c, d
<1>6. Range(messages') = Range(c) \cup Range(waiting)
  BY <1>2, <1>4, <1>5, RangeConcat
<1>7. Range(waiting') = {}
  BY <1>0 DEF Range
<1>8. Range(waiting') = Range(z.queued) \cap Range(messages')
  BY <1>1, <1>4, <1>5, <1>6, <1>7
<1> QED
  BY <1>0, <1>1, <1>3, <1>5, <1>8 DEF Agrees

\* Finish:
LEMMA FinishFollows ==
    ASSUME TypeOK, QueueNew, Follows, Finish
    PROVE  Follows'
<1> SUFFICES ASSUME ~ lost PROVE Readable(journal) /\ Agrees(Published)'
  BY DEF Follows, Finish, diskVars, auditVars
<1> DEFINE s == Project(journal)
           d == Without(s.queued, Range(waiting))
           c == Without(s.messages, Range(waiting))
           l == IF waiting = <<>> THEN <<>> ELSE <<Started(Head(waiting))>>
           z == ProjectFrom(s, out')
           e == Each(waiting, Delivers) \o <<Stopped(0, 0)>>
<1>0. journal' = journal /\ Free /\ Distinct(waiting) /\ waiting' = <<>>
      /\ messages' = Without(messages, Range(waiting)) \o waiting
      /\ out' = e \o l
      /\ run' = IF waiting = <<>> THEN 0 ELSE Head(waiting)
  BY DEF Finish, diskVars, QueueNew
<1>1. /\ Readable(journal) /\ s \in State /\ Agrees(s)
      /\ Range(waiting) = Range(s.queued) \cap Range(s.messages)
  BY <1>0, FreeAgrees
<1>2. s.messages \in Seq(Message) /\ s.queued \in Seq(Message) /\ waiting \in Seq(Message)
      /\ s.messages = messages
  BY <1>1 DEF State, TypeOK, Agrees
<1> HIDE DEF s
<1>4. c \in Seq(Message) /\ d \in Seq(Message) /\ Range(c) = Range(s.messages) \ Range(waiting)
      /\ Range(d) = Range(s.queued) \ Range(waiting)
  BY <1>2, WithoutType, WithoutRange
<1>5. z.messages = c \o waiting /\ Range(z.queued) \subseteq Range(d) /\ z.running = (run' # 0)
      /\ Range(d) \cap Range(waiting) \subseteq Range(z.queued)
  <2>1. CASE waiting = <<>>
    <3>1. e \in Seq(Record)
      <4>1. Stopped(0, 0) \in Record
        BY StoppedRecords
      <4>2. Each(waiting, Delivers) \in Seq(Record)
        BY <1>2, ListsRecords, EachType
      <4> QED
        BY <4>1, <4>2
    <3>2. EndedTo(s, waiting, ProjectFrom(s, e))
      BY <1>0, <1>1, <1>2, EndedProject
    <3> HIDE DEF e
    <3>3. out' = e
      BY <1>0, <2>1, <3>1
    <3>4. EndedTo(s, waiting, z)
      BY <3>2, <3>3
    <3>5. (run' # 0) = FALSE
      BY <1>0, <2>1
    <3> QED
      BY <3>4, <3>5 DEF EndedTo
  <2>2. CASE waiting # <<>>
    <3> DEFINE m == Head(waiting)
    <3>1. m \in Message
      BY <1>2, <2>2, HeadWaiting
    <3>2. (run' # 0) = TRUE
      BY <1>0, <2>2, <3>1, Bounds
    <3> HIDE DEF m
    <3>3. PassedTo(s, waiting, m, ProjectFrom(s, e \o <<Started(m)>>))
      BY <1>0, <1>1, <1>2, <3>1, PassedProject
    <3> HIDE DEF e
    <3>4. PassedTo(s, waiting, m, z)
      BY <1>0, <2>2, <3>3 DEF m
    <3>5. z.queued = Without(d, {m}) /\ z.messages = c \o waiting /\ z.running = TRUE
      BY <3>4 DEF PassedTo
    <3> HIDE DEF c, d, z, l
    <3>6. Range(z.queued) = Range(d) \ {m}
      BY <1>4, <3>5, WithoutRange
    <3> QED
      BY <1>4, <3>2, <3>5, <3>6
  <2> QED
    BY <2>1, <2>2
<1>6. Published' = z
  BY <1>0 DEF Published, s
<1> HIDE DEF z, e, l
<1>7. messages' = c \o waiting
  BY <1>0, <1>2
<1> HIDE DEF c, d
<1>8. Range(messages') = Range(c) \cup Range(waiting)
  BY <1>2, <1>4, <1>7, RangeConcat
<1>9. Range(waiting') = {}
  BY <1>0 DEF Range
<1>10. Range(waiting') = Range(z.queued) \cap Range(messages')
  BY <1>1, <1>4, <1>5, <1>8, <1>9
<1> QED
  BY <1>1, <1>5, <1>6, <1>7, <1>10 DEF Agrees

\* Stop:
LEMMA StopFollows ==
    ASSUME TypeOK, Follows, Stop
    PROVE  Follows'
<1> SUFFICES ASSUME ~ lost PROVE Readable(journal) /\ Agrees(Published)'
  BY DEF Follows, Stop, diskVars, auditVars
<1> DEFINE s == Project(journal)
           e == Each(waiting, Returns) \o <<Stopped(0, 0)>>
           z == ProjectFrom(s, e)
           d == Without(s.queued, Range(waiting))
           c == Without(s.messages, Range(waiting))
<1>0. journal' = journal /\ Free /\ run' = 0 /\ waiting' = <<>>
      /\ messages' = Without(messages, Range(waiting)) /\ out' = e
  BY DEF Stop, diskVars
<1>1. /\ Readable(journal) /\ s \in State /\ Agrees(s)
      /\ Range(waiting) = Range(s.queued) \cap Range(s.messages)
  BY <1>0, FreeAgrees
<1>2. s.messages \in Seq(Message) /\ s.queued \in Seq(Message) /\ waiting \in Seq(Message)
      /\ s.messages = messages
  BY <1>1 DEF State, TypeOK, Agrees
<1> HIDE DEF s
<1>3. StoppedTo(s, waiting, z)
  BY <1>1, <1>2, StoppedProject
<1> HIDE DEF e
<1>3a. Published' = z
  BY <1>0 DEF Published, s
<1> HIDE DEF z
<1>4. c \in Seq(Message) /\ d \in Seq(Message) /\ Range(c) = Range(s.messages) \ Range(waiting)
      /\ Range(d) = Range(s.queued) \ Range(waiting)
  BY <1>2, WithoutType, WithoutRange
<1>5. z.messages = c /\ z.queued = d /\ z.running = FALSE /\ messages' = c
  BY <1>0, <1>2, <1>3 DEF StoppedTo
<1> HIDE DEF c, d
<1>7. Range(waiting') = {}
  BY <1>0 DEF Range
<1>8. Range(waiting') = Range(z.queued) \cap Range(messages')
  BY <1>1, <1>4, <1>5, <1>7
<1>9. (run' # 0) = FALSE
  BY <1>0
<1> QED
  BY <1>1, <1>3a, <1>5, <1>8, <1>9 DEF Agrees

-----------------------------------------------------------------------------
(* So does every step. *)

\* A readable journal has a snapshot.
LEMMA ProjectReadable ==
    ASSUME TypeOK, Readable(journal)
    PROVE  Project(journal) \in State /\ out \in Seq(Record)
BY ReadableIs, EmptyType, ProjectType, OutgoingRecords DEF Project, TypeOK

\* Publishing the next record leads where the whole list leads.
LEMMA PublishSame ==
    ASSUME TypeOK, Readable(journal), out # <<>>,
           journal' = Append(journal, Prepared(Head(out))), out' = Tail(out)
    PROVE  /\ Readable(journal') /\ Project(journal') = NextState(Project(journal), Prepared(Head(out)))
           /\ Same(Published', Published)
<1> DEFINE s == Project(journal)
           h == Head(out)
           r == Prepared(h)
           tl == Tail(out)
           a == NextState(s, h)
           b == NextState(s, r)
<1>1. h \in Outgoing /\ tl \in Seq(Outgoing)
  BY HeadOut
<1>2. h \in Record /\ r \in Record /\ tl \in Seq(Record)
  BY <1>1, OutgoingRecord, OutgoingRecords, PreparedRecord
<1>3. s \in State /\ out \in Seq(Record)
  BY ProjectReadable
<1>4. journal \in Seq(Record \cup {Torn})
  BY DEF TypeOK
<1>5. Same(b, a)
  BY <1>1, <1>3, PreparedSame
<1>6. a \in State /\ b \in State
  BY <1>2, <1>3, NextStateIs DEF Stepped
<1>7. Published = ProjectFrom(a, tl)
  BY <1>3, ProjectHead DEF Published
<1>8. journal' = Append(journal, r)
  OBVIOUS
<1> HIDE DEF h, r, s, tl
<1>9. Readable(journal') /\ Project(journal') = b
  BY <1>2, <1>4, <1>8, JournalAppend DEF s
<1>10. Published' = ProjectFrom(b, tl)
  BY <1>9 DEF Published, tl
<1> HIDE DEF a, b
<1>11. Same(ProjectFrom(b, tl), ProjectFrom(a, tl))
  BY <1>2, <1>5, <1>6, ProjectKeepsSame
<1> QED
  BY <1>7, <1>9, <1>10, <1>11 DEF b, s, r, h

\* Publishing the next record keeps the agreement.
LEMMA PublishFollows ==
    ASSUME TypeOK, Follows, Publish
    PROVE  Follows'
<1> SUFFICES ASSUME ~ lost' PROVE Readable(journal') /\ Agrees(Published)'
  BY DEF Follows
<1>1. /\ ~ lost /\ journal' = Append(journal, Prepared(Head(out))) /\ out' = Tail(out)
      /\ out # <<>> /\ phase = "up" /\ messages' = messages /\ run' = run /\ waiting' = waiting
  BY DEF Publish, Up
<1>2. Readable(journal) /\ Agrees(Published)
  BY <1>1 DEF Follows
<1>3. Readable(journal') /\ Same(Published', Published)
  BY <1>1, <1>2, PublishSame
<1> QED
  BY <1>1, <1>2, <1>3 DEF Agrees, Same

\* The record of a turn that a step writes.
LEMMA TurnWrites ==
    ASSUME TypeOK, SendRequest \/ ReceiveResponse
    PROVE  \E r \in Record : /\ r.type \in {"model.request", "model.delta", "model.response"}
                             /\ journal' = Append(journal, r)
<1>1. CASE SendRequest
  <2>1. turns' \in Turn
    BY <1>1, Bounds DEF SendRequest, TypeOK
  <2>2. Request(turns') \in Record
    BY <2>1, TurnRecords
  <2> QED
    BY <1>1, <2>2 DEF SendRequest, Request
<1>2. CASE ReceiveResponse
  <2>1. turn \in Turn /\ streamed[turn] \in Nat /\ reducer.text \in Nat
    BY <1>2 DEF ReceiveResponse, TypeOK
  <2>2. Response(turn, streamed[turn], reducer.text) \in Record
    BY <2>1, TurnRecords
  <2> QED
    BY <1>2, <2>2 DEF ReceiveResponse, Response
<1> QED
  BY <1>1, <1>2

\* A step of the turn leaves the conversation of the journal alone,
LEMMA TurnKeeps ==
    ASSUME TypeOK, Readable(journal), SendRequest \/ ReceiveResponse
    PROVE  /\ Readable(journal') /\ Project(journal') \in State
           /\ Same(Project(journal'), Project(journal))
<1>1. PICK r \in Record : /\ r.type \in {"model.request", "model.delta", "model.response"}
                          /\ journal' = Append(journal, r)
  BY TurnWrites
<1>2. journal \in Seq(Record \cup {Torn})
  BY DEF TypeOK
<1>3. Project(journal) \in State /\ Readable(journal')
      /\ Project(journal') = NextState(Project(journal), r)
  BY <1>1, <1>2, JournalAppend
<1> QED
  BY <1>1, <1>3, TurnSame

\* so it keeps the agreement.
LEMMA TurnFollows ==
    ASSUME TypeOK, Follows, SendRequest \/ ReceiveResponse
    PROVE  Follows'
<1> SUFFICES ASSUME ~ lost PROVE Readable(journal') /\ Agrees(Published)'
  BY DEF Follows, SendRequest, ReceiveResponse, auditVars
<1>1. phase = "up" /\ out' = out /\ messages' = messages /\ run' = run /\ waiting' = waiting
  BY DEF SendRequest, ReceiveResponse, Up
<1>2. Readable(journal) /\ Agrees(Published)
  BY <1>1 DEF Follows
<1>3. Readable(journal') /\ Project(journal') \in State /\ Same(Project(journal'), Project(journal))
  BY <1>2, TurnKeeps
<1>4. Project(journal) \in State /\ out \in Seq(Record)
  BY <1>2, ProjectReadable
<1>5. Same(Published', Published)
  BY <1>1, <1>3, <1>4, ProjectKeepsSame DEF Published
<1> QED
  BY <1>1, <1>2, <1>3, <1>5 DEF Agrees, Same

\* A start announces the projected state with its run closed.
LEMMA RestoreProject ==
    ASSUME TypeOK, ImageTrue, Restore
    PROVE  /\ Readable(journal) /\ Project(journal) \in State
           /\ Readable(journal') /\ Project(journal') = Closed(Project(journal))
           /\ messages' = Closed(Project(journal)).messages
           /\ waiting' = RestoreQueue(Closed(Project(journal)))
<1> DEFINE s == Project(journal)
           c == Closed(s)
<1>1. Readable(journal) /\ image = s
  BY DEF Restore, ImageTrue
<1>2. s \in State /\ c \in State /\ journal \in Seq(Record \cup {Torn})
  BY <1>1, ProjectReadable, ClosedType DEF TypeOK
<1>3. Created(c) \in Record
  BY <1>2, CreatedRecords
<1>4. journal' = Append(journal, Created(c)) /\ messages' = c.messages /\ waiting' = RestoreQueue(c)
  BY <1>1 DEF Restore
<1> HIDE DEF s, c
<1>5. Readable(journal') /\ Project(journal') = NextState(Project(journal), Created(c))
  BY <1>1, <1>2, <1>3, <1>4, JournalAppend
<1>6. NextState(Project(journal), Created(c)) = c
  BY DEF NextState, Created
<1> QED
  BY <1>1, <1>2, <1>4, <1>5, <1>6 DEF s, c

\* A restored chat agrees with its journal.
LEMMA RestoreFollows ==
    ASSUME TypeOK, Idle, ImageTrue, Restore
    PROVE  Follows'
<1> DEFINE c == Closed(Project(journal))
<1>1. /\ Readable(journal) /\ Project(journal) \in State /\ Readable(journal')
      /\ Project(journal') = c /\ messages' = c.messages /\ waiting' = RestoreQueue(c)
  BY RestoreProject
<1>2. c \in State /\ c.running = FALSE
  BY <1>1, ClosedType
<1> HIDE DEF c
<1>3. out' = <<>> /\ run' = 0
  BY DEF Restore, Idle
<1>4. Published' = c
  BY <1>1, <1>2, <1>3, ProjectEmpty DEF Published
<1>5. Range(waiting') = Range(c.queued) \cap Range(c.messages)
  BY <1>1, <1>2, RestoreQueueType
<1>6. (run' # 0) = FALSE
  BY <1>3
<1> QED
  BY <1>1, <1>2, <1>4, <1>5, <1>6 DEF Follows, Agrees

\* Every step keeps the agreement.
LEMMA FollowsNext ==
    ASSUME TypeOK, Idle, ImageTrue, QueueNew, Follows, Next
    PROVE  Follows'
<1>1. CASE Submit
  BY <1>1, SubmitFollows
<1>2. CASE TakeQueued
  BY <1>2, TakeQueuedFollows
<1>3. CASE Finish
  BY <1>3, FinishFollows
<1>4. CASE Stop
  BY <1>4, StopFollows
<1>5. CASE Publish
  BY <1>5, PublishFollows
<1>6. CASE ShortWrite
  BY <1>6 DEF ShortWrite, Follows
<1>7. CASE ClosePending \/ ReceiveDelta
  <2>1. journal' = journal /\ out' = out /\ messages' = messages /\ run' = run
        /\ waiting' = waiting /\ lost' = lost /\ phase' = phase
    BY <1>7 DEF ClosePending, ReceiveDelta, memoryVars, auditVars
  <2> QED
    BY <2>1 DEF Follows, Agrees, Published
<1>8. CASE SendRequest \/ ReceiveResponse
  BY <1>8, TurnFollows
<1>9. CASE Crash \/ Slim \/ DropFlight \/ Load
  BY <1>9 DEF Crash, Slim, DropFlight, Load, Follows
<1>10. CASE Restore
  BY <1>10, RestoreFollows
<1> QED
  BY <1>1, <1>2, <1>3, <1>4, <1>5, <1>6, <1>7, <1>8, <1>9, <1>10 DEF Next

\* A step that changes nothing keeps the invariant.
LEMMA ChatStutter ==
    ASSUME ChatInv, UNCHANGED vars
    PROVE  ChatInv'
<1>1. TypeOK'
  BY NextTyped DEF ChatInv
<1>2. UNCHANGED <<journal, cache, phase, image, run, turn, ids, waiting, messages, out,
                  reducer, unlink, runWaits, lost>>
  BY DEF vars, diskVars, memoryVars, auditVars
<1>3. Idle' /\ TurnOfRun' /\ CacheTrue' /\ ImageTrue' /\ QueueNew'
  BY <1>2 DEF ChatInv, Idle, TurnOfRun, CacheTrue, ImageTrue, QueueNew
<1>4. OutShape'
  BY <1>2 DEF ChatInv, OutShape, Accepting
<1>5. Follows'
  BY <1>2 DEF ChatInv, Follows, Published, Agrees
<1> QED
  BY <1>1, <1>3, <1>4, <1>5 DEF ChatInv

\* The invariant of the conversation is inductive.
LEMMA ChatNext == ChatInv /\ [Next]_vars => ChatInv'
<1> SUFFICES ASSUME ChatInv, [Next]_vars PROVE ChatInv'
  OBVIOUS
<1>1. CASE Next
  <2>1. TypeOK'
    BY NextTyped DEF ChatInv
  <2>2. Idle' /\ TurnOfRun'
    BY <1>1, IdleNext DEF ChatInv
  <2>3. CacheTrue' /\ ImageTrue'
    BY <1>1, StartNext DEF ChatInv
  <2>4. QueueNew'
    BY <1>1, QueueNext DEF ChatInv
  <2>5. OutShape'
    BY <1>1, ShapeNext DEF ChatInv
  <2>6. Follows'
    BY <1>1, FollowsNext DEF ChatInv
  <2> QED
    BY <2>1, <2>2, <2>3, <2>4, <2>5, <2>6 DEF ChatInv
<1>2. CASE UNCHANGED vars
  BY <1>2, ChatStutter
<1> QED
  BY <1>1, <1>2

\* It implies that the journal follows the chat.
LEMMA FollowsChat == ChatInv => JournalFollowsChat
<1> SUFFICES ASSUME ChatInv, Free, ~ lost PROVE JournalFollowsChat
  BY DEF JournalFollowsChat
<1>1. Agrees(Project(journal))
  BY FreeAgrees DEF ChatInv
<1> QED
  BY <1>1 DEF JournalFollowsChat, Agrees

\* The invariant of the conversation always holds.
LEMMA ChatAlways == Spec => []ChatInv
<1> QED
  BY ChatInit, ChatNext, PTL DEF Spec

\* Whenever no operation is under way and no write was lost, the journal says what the
\* process has: its conversation, whether it runs, and which messages wait; through any
\* number of crashes, merged flight files and cached starts.
THEOREM ChatIsJournalled == Spec => []JournalFollowsChat
<1> QED
  BY ChatAlways, FollowsChat, PTL

-----------------------------------------------------------------------------
(* Parts of sequences. *)

\* at reads s off w in its order.
Reads(s, w, at) ==
    /\ at \in [DOMAIN s -> DOMAIN w]
    /\ \A i \in DOMAIN s : w[at[i]] = s[i]
    /\ \A i, j \in DOMAIN s : j < i => at[j] < at[i]

\* A reading makes one sequence part of another,
LEMMA ReadsWithin ==
    ASSUME NEW S, NEW s \in Seq(S), NEW w, NEW at, Reads(s, w, at)
    PROVE  Within(s, w)
<1>1. \A i \in DOMAIN s : \A j \in 1 .. i - 1 : j \in DOMAIN s /\ j < i
  OBVIOUS
<1> QED
  BY <1>1 DEF Reads, Within

\* and the other way round.
LEMMA WithinReads ==
    ASSUME NEW S, NEW s \in Seq(S), NEW w, Within(s, w)
    PROVE  \E at : Reads(s, w, at)
<1>1. PICK at \in [DOMAIN s -> DOMAIN w] :
          \A i \in DOMAIN s : w[at[i]] = s[i] /\ \A j \in 1 .. i - 1 : at[j] < at[i]
  BY DEF Within
<1>2. \A i, j \in DOMAIN s : j < i => j \in 1 .. i - 1
  OBVIOUS
<1> QED
  BY <1>1, <1>2 DEF Reads

\* A sequence can be read off itself,
LEMMA WithinSelf ==
    ASSUME NEW S, NEW s \in Seq(S)
    PROVE  Within(s, s)
<1> DEFINE at == [i \in DOMAIN s |-> i]
<1>1. Reads(s, s, at)
  BY DEF Reads
<1> QED
  BY <1>1, ReadsWithin

\* the empty one off every sequence,
LEMMA WithinNone ==
    ASSUME NEW w
    PROVE  Within(<<>>, w)
<1> DEFINE at == [i \in DOMAIN <<>> |-> i]
           e == <<>>
<1>1. \A i \in DOMAIN e : FALSE
  OBVIOUS
<1>2. at \in [DOMAIN e -> DOMAIN w]
  BY <1>1
<1> HIDE DEF at, e
<1>3. Within(e, w)
  BY <1>1, <1>2 DEF Within
<1> QED
  BY <1>3 DEF e

\* a part of a part is a part,
LEMMA WithinTwice ==
    ASSUME NEW S, NEW a \in Seq(S), NEW b \in Seq(S), NEW c \in Seq(S), Within(a, b), Within(b, c)
    PROVE  Within(a, c)
<1>1. PICK f : Reads(a, b, f)
  BY WithinReads
<1>2. PICK g : Reads(b, c, g)
  BY WithinReads
<1> DEFINE h == [i \in DOMAIN a |-> g[f[i]]]
<1>3. f \in [DOMAIN a -> DOMAIN b] /\ g \in [DOMAIN b -> DOMAIN c]
  BY <1>1, <1>2 DEF Reads
<1>4. h \in [DOMAIN a -> DOMAIN c] /\ \A i \in DOMAIN a : h[i] = g[f[i]] /\ f[i] \in DOMAIN b
  BY <1>3
<1> HIDE DEF h
<1>5. \A i \in DOMAIN a : c[h[i]] = a[i]
  BY <1>1, <1>2, <1>4 DEF Reads
<1>6. \A i, j \in DOMAIN a : j < i => h[j] < h[i]
  BY <1>1, <1>2, <1>4 DEF Reads
<1>7. Reads(a, c, h)
  BY <1>4, <1>5, <1>6 DEF Reads
<1> QED
  BY <1>7, ReadsWithin

\* a part stays one when the whole grows,
LEMMA WithinMore ==
    ASSUME NEW S, NEW s \in Seq(S), NEW w \in Seq(S), NEW x \in S, Within(s, w)
    PROVE  Within(s, Append(w, x))
<1> DEFINE v == Append(w, x)
<1>1. PICK at : Reads(s, w, at)
  BY WithinReads
<1>2. DOMAIN w \subseteq DOMAIN v /\ \A i \in DOMAIN w : v[i] = w[i]
  OBVIOUS
<1> HIDE DEF v
<1>3. Reads(s, v, at)
  BY <1>1, <1>2 DEF Reads
<1> QED
  BY <1>3, ReadsWithin DEF v

\* and grows with it.
LEMMA WithinBoth ==
    ASSUME NEW S, NEW s \in Seq(S), NEW w \in Seq(S), NEW x \in S, Within(s, w)
    PROVE  Within(Append(s, x), Append(w, x))
<1> DEFINE v == Append(w, x)
           t == Append(s, x)
           n == Len(s)
           m == Len(w)
<1>1. PICK at : Reads(s, w, at)
  BY WithinReads
<1>2. /\ n \in Nat /\ m \in Nat /\ DOMAIN s = 1 .. n /\ DOMAIN w = 1 .. m
      /\ DOMAIN t = 1 .. n + 1 /\ DOMAIN v = 1 .. m + 1 /\ t \in Seq(S)
      /\ t[n + 1] = x /\ v[m + 1] = x
      /\ \A i \in 1 .. n : t[i] = s[i]
      /\ \A i \in 1 .. m : v[i] = w[i]
  OBVIOUS
<1> DEFINE bt == [i \in 1 .. n + 1 |-> IF i = n + 1 THEN m + 1 ELSE at[i]]
<1> HIDE DEF v, t, n, m
<1>3. /\ at \in [1 .. n -> 1 .. m] /\ \A i \in 1 .. n : w[at[i]] = s[i]
      /\ \A i, j \in 1 .. n : j < i => at[j] < at[i]
  BY <1>1, <1>2 DEF Reads
<1>4. \A i \in 1 .. n + 1 : i = n + 1 \/ (i \in 1 .. n /\ i # n + 1)
  BY <1>2
<1>5. /\ \A i \in 1 .. n : bt[i] = at[i] /\ at[i] \in 1 .. m /\ at[i] \in 1 .. m + 1
      /\ bt[n + 1] = m + 1 /\ m + 1 \in 1 .. m + 1
  BY <1>2, <1>3
<1>6. bt \in [DOMAIN t -> DOMAIN v]
  BY <1>2, <1>4, <1>5
<1> HIDE DEF bt
<1>7. \A i \in DOMAIN t : v[bt[i]] = t[i]
  BY <1>2, <1>3, <1>4, <1>5
<1>8. \A i, j \in DOMAIN t : j < i => bt[j] < bt[i]
  BY <1>2, <1>3, <1>4, <1>5
<1>9. Reads(t, v, bt)
  BY <1>6, <1>7, <1>8 DEF Reads
<1> QED
  BY <1>2, <1>9, ReadsWithin DEF t, v

\* Who drops more keeps part of what is left of who drops less.
LEMMA WithinFewer ==
    ASSUME NEW S, NEW q \in Seq(S), NEW D, NEW E, E \subseteq D
    PROVE  Within(Without(q, D), Without(q, E))
<1> DEFINE P == {s \in Seq(S) : Within(Without(s, D), Without(s, E))}
<1>1. <<>> \in P
  <2>1. <<>> \in Seq(S) /\ Without(<<>>, D) = <<>> /\ Without(<<>>, E) = <<>>
    BY WithoutEmpty
  <2> QED
    BY <2>1, WithinNone
<1>2. ASSUME NEW s \in Seq(S), NEW x \in S, s \in P
      PROVE  Append(s, x) \in P
  <2> DEFINE a == Without(s, D)
             b == Without(s, E)
             v == Append(s, x)
  <2>1. v \in Seq(S) /\ a \in Seq(S) /\ b \in Seq(S) /\ Within(a, b)
    BY <1>2, WithoutType
  <2>2. /\ Without(v, D) = IF x \in D THEN a ELSE Append(a, x)
        /\ Without(v, E) = IF x \in E THEN b ELSE Append(b, x)
    BY <1>2, WithoutAppend
  <2> HIDE DEF a, b, v
  <2>3. Within(a, Append(b, x)) /\ Within(Append(a, x), Append(b, x))
    BY <1>2, <2>1, WithinMore, WithinBoth
  <2>4. Within(Without(v, D), Without(v, E))
    BY <2>1, <2>2, <2>3
  <2> QED
    BY <2>1, <2>4 DEF v
<1> HIDE DEF P
<1>3. \A s \in Seq(S) : s \in P
  BY <1>1, <1>2, SeqInduct
<1> QED
  BY <1>3 DEF P

\* What an operation publishes of the messages that wait.
LEMMA EachReturnsHas ==
    ASSUME NEW w \in Seq(Message)
    PROVE  \A r \in Range(Each(w, Returns)) :
               r.type \in {"message.removed", "message.queued.0"}
<1> DEFINE T == {"message.removed", "message.queued.0"}
           P == {s \in Seq(Message) : \A r \in Range(Each(s, Returns)) : r.type \in T}
<1>1. <<>> \in P
  <2>1. Each(<<>>, Returns) = <<>>
    BY ListsRecords, EachEmpty
  <2>2. Range(<<>>) = {}
    BY DEF Range
  <2> QED
    BY <2>1, <2>2
<1>2. ASSUME NEW s \in Seq(Message), NEW x \in Message, s \in P
      PROVE  Append(s, x) \in P
  <2> DEFINE a == Each(s, Returns)
             b == Returns[x]
  <2>1. Append(s, x) \in Seq(Message) /\ Each(Append(s, x), Returns) = a \o b
    BY <1>2, ListsRecords, EachAppend
  <2>2. a \in Seq(Record) /\ b \in Seq(Record)
    BY <1>2, ListsRecords, EachType
  <2>3. Range(b) = {Removed(x), Unqueued(x)}
    <3>1. b = <<Removed(x), Unqueued(x)>>
      BY DEF Returns
    <3> QED
      BY <3>1 DEF Range
  <2>4. \A r \in Range(b) : r.type \in T
    BY <2>3 DEF Removed, Unqueued
  <2>5. \A r \in Range(a) : r.type \in T
    BY <1>2
  <2> HIDE DEF a, b
  <2>6. Range(a \o b) = Range(a) \cup Range(b)
    BY <2>2, RangeConcat
  <2> QED
    BY <2>1, <2>4, <2>5, <2>6
<1> HIDE DEF P
<1>3. \A s \in Seq(Message) : s \in P
  BY <1>1, <1>2, SeqInduct
<1> QED
  BY <1>3 DEF P

\* Delivering appends only messages that waited.
LEMMA EachDeliversHas ==
    ASSUME NEW w \in Seq(Message)
    PROVE  \A r \in Range(Each(w, Delivers)) :
               /\ r.type \in {"message.removed", "message.appended", "message.queued.0"}
               /\ r.id \in Range(w)
<1> DEFINE T == {"message.removed", "message.appended", "message.queued.0"}
           P == {s \in Seq(Message) : \A r \in Range(Each(s, Delivers)) :
                                         r.type \in T /\ r.id \in Range(s)}
<1>1. <<>> \in P
  <2>1. Each(<<>>, Delivers) = <<>>
    BY ListsRecords, EachEmpty
  <2>2. Range(<<>>) = {}
    BY DEF Range
  <2> QED
    BY <2>1, <2>2
<1>2. ASSUME NEW s \in Seq(Message), NEW x \in Message, s \in P
      PROVE  Append(s, x) \in P
  <2> DEFINE a == Each(s, Delivers)
             b == Delivers[x]
             v == Append(s, x)
  <2>1. v \in Seq(Message) /\ Each(v, Delivers) = a \o b
    BY <1>2, ListsRecords, EachAppend
  <2>2. a \in Seq(Record) /\ b \in Seq(Record)
    BY <1>2, ListsRecords, EachType
  <2>3. Range(b) = {Removed(x), Appended(x), Unqueued(x)}
    <3>1. b = <<Removed(x), Appended(x), Unqueued(x)>>
      BY DEF Delivers
    <3> QED
      BY <3>1 DEF Range
  <2>4. \A r \in Range(b) : r.type \in T /\ r.id = x
    BY <2>3 DEF Removed, Unqueued, Appended
  <2>5. \A r \in Range(a) : r.type \in T /\ r.id \in Range(s)
    BY <1>2
  <2>6. Range(v) = Range(s) \cup {x}
    BY <1>2, RangeAppend
  <2> HIDE DEF a, b, v
  <2>7. Range(a \o b) = Range(a) \cup Range(b)
    BY <2>2, RangeConcat
  <2>8. \A r \in Range(Each(v, Delivers)) : r.type \in T /\ r.id \in Range(v)
    BY <2>1, <2>4, <2>5, <2>6, <2>7
  <2> QED
    BY <2>1, <2>8 DEF v
<1> HIDE DEF P
<1>3. \A s \in Seq(Message) : s \in P
  BY <1>1, <1>2, SeqInduct
<1> QED
  BY <1>3 DEF P

-----------------------------------------------------------------------------
(* Waiting messages come back: the inductive invariant. *)

\* What the next start must give back.
Announced == {m \in Message : Queued(m) \in Range(out)}
Due == IF phase = "up" THEN Without(waiting, Announced) ELSE owed
Back == RestoreQueue(Project(journal))

\* What is due can be read off what a start would give back.
Owes == ~ lost => Readable(journal) /\ Within(Due, Back)

\* Nothing that was sent waits, would come back or is about to be queued.
SentOnce ==
    ~ lost => /\ Range(Back) \cap sent = {}
              /\ Range(waiting) \cap sent = {}
              /\ \A m \in sent : Appended(m) \notin Range(out) /\ Queued(m) \notin Range(out)

QueueInv == Owes /\ SentOnce

\* With nothing to publish, all that waits is due.
LEMMA NoneAnnounced ==
    ASSUME TypeOK, out = <<>>
    PROVE  Announced = {} /\ Without(waiting, Announced) = waiting
<1>1. Range(out) = {}
  BY DEF Range
<1>2. Announced = {}
  BY <1>1 DEF Announced
<1>3. waiting \in Seq(Message)
  BY DEF TypeOK
<1> QED
  BY <1>2, <1>3, WithoutOthers

\* Different messages have different records.
LEMMA QueuedOnly ==
    ASSUME NEW m \in Message, NEW k \in Message
    PROVE  /\ Queued(k) = Queued(m) <=> k = m
           /\ Appended(k) = Appended(m) <=> k = m
           /\ Queued(k) # Appended(m) /\ Queued(k) # Started(m) /\ Appended(k) # Started(m)
BY DEF Queued, Appended, Started

\* The members of short lists.
LEMMA RangeOfTwo ==
    ASSUME NEW a, NEW b
    PROVE  Range(<<a, b>>) = {a, b} /\ Range(<<a>>) = {a} /\ Range(<<>>) = {}
BY DEF Range

\* What a start would give back: the queued messages of the conversation.
LEMMA BackType ==
    ASSUME TypeOK, Readable(journal)
    PROVE  /\ Project(journal) \in State /\ Back \in Seq(Message)
           /\ Range(Back) = Range(Project(journal).queued) \cap Range(Project(journal).messages)
           /\ Project(journal).queued \in Seq(Message) /\ Project(journal).messages \in Seq(Message)
BY ProjectReadable, RestoreQueueType DEF Back, State

\* At first nothing waits and nothing was sent.
LEMMA QueueInit == Init => QueueInv
<1> SUFFICES ASSUME Init PROVE QueueInv
  OBVIOUS
<1>1. Readable(journal) /\ Project(journal).queued = <<>>
  BY InitProject
<1>2. waiting = <<>> /\ out = <<>> /\ sent = {} /\ phase = "up"
  BY DEF Init
<1>3. Due = <<>>
  BY <1>2, WithoutEmpty DEF Due
<1>4. Within(Due, Back)
  BY <1>3, WithinNone
<1> QED
  BY <1>1, <1>2, <1>4 DEF QueueInv, Owes, SentOnce

\* Who waits for nothing is owed nothing.
LEMMA OwesNone ==
    ASSUME waiting' = <<>>, phase' = "up", Readable(journal')
    PROVE  Owes'
<1>1. Due' = <<>>
  BY WithoutEmpty DEF Due
<1>2. Within(Due', Back')
  BY <1>1, WithinNone
<1> QED
  BY <1>2 DEF Owes

\* A message that was just accepted is not due before its records are written.
LEMMA SubmitOwes ==
    ASSUME TypeOK, QueueNew, Owes, Submit
    PROVE  Owes'
<1> SUFFICES ASSUME ~ lost' PROVE Owes'
  BY DEF Owes
<1>0. ~ lost /\ journal' = journal /\ phase = "up" /\ phase' = "up" /\ out = <<>>
  BY DEF Submit, diskVars, Free, Up
<1>1. Readable(journal) /\ Within(Due, Back) /\ Back' = Back
  BY <1>0 DEF Owes, Back
<1>2. CASE run = 0
  BY <1>0, <1>1, <1>2, OwesNone DEF Submit
<1>3. CASE run # 0
  <2> DEFINE m == ids'
  <2>1. /\ m \in Message /\ m \notin Range(waiting) /\ waiting' = Append(waiting, m)
        /\ out' = <<Appended(m), Queued(m)>>
    BY <1>3, NewNumber
  <2>2. waiting \in Seq(Message) /\ Due = waiting
    BY <1>0, NoneAnnounced DEF Due, TypeOK
  <2> HIDE DEF m
  <2>3. Announced' = {m}
    <3>1. Range(out') = {Appended(m), Queued(m)}
      BY <2>1, RangeOfTwo
    <3>2. \A k \in Message : Queued(k) \in Range(out') <=> k = m
      BY <2>1, <3>1, QueuedOnly
    <3> QED
      BY <2>1, <3>2 DEF Announced
  <2>4. Without(waiting', {m}) = Without(waiting, {m})
    BY <2>1, <2>2, WithoutAppend
  <2>5. Without(waiting, {m}) = waiting
    BY <2>1, <2>2, WithoutOthers
  <2>6. Due' = Due
    BY <1>0, <2>2, <2>3, <2>4, <2>5 DEF Due
  <2> QED
    BY <1>0, <1>1, <2>6 DEF Owes
<1> QED
  BY <1>2, <1>3

\* When its last record is written it is due, and the journal gives it back in its place.
LEMMA PublishOwes ==
    ASSUME TypeOK, OutShape, Owes, Publish
    PROVE  Owes'
<1> SUFFICES ASSUME ~ lost' PROVE Owes'
  BY DEF Owes
<1> DEFINE s == Project(journal)
           h == Head(out)
<1>0. /\ ~ lost /\ journal' = Append(journal, Prepared(h)) /\ out' = Tail(out) /\ waiting' = waiting
      /\ out # <<>> /\ phase = "up" /\ phase' = "up"
  BY DEF Publish, Up
<1>1. Readable(journal) /\ Within(Due, Back)
  BY <1>0 DEF Owes
<1>2. Readable(journal') /\ Project(journal') = NextState(s, Prepared(h))
  BY <1>0, <1>1, PublishSame
<1>3. CASE waiting = <<>>
  BY <1>0, <1>2, <1>3, OwesNone
<1>4. CASE Accepting
  <2>1. PICK w \in Seq(Message), m \in Message :
            /\ waiting = Append(w, m) /\ m \notin Range(w) /\ run # 0
            /\ \/ out = <<Appended(m), Queued(m)>>
               \/ out = <<Queued(m)>> /\ (lost \/ m \in Range(Project(journal).messages))
    BY <1>4 DEF Accepting
  <2>2. /\ s \in State /\ Back \in Seq(Message)
        /\ s.queued \in Seq(Message) /\ s.messages \in Seq(Message)
    BY <1>1, BackType
  <2>3. Back = Without(s.queued, Message \ Range(s.messages))
    BY DEF Back, RestoreQueue
  <2> HIDE DEF s
  <2>4. CASE out = <<Appended(m), Queued(m)>>
    <3>1. h = Appended(m) /\ out' = <<Queued(m)>>
      BY <1>0, <2>4, HeadTail
    <3>2. Prepared(h) = Appended(m)
      BY <3>1 DEF Prepared, Appended
    <3>3. Project(journal').messages = Append(s.messages, m)
          /\ Project(journal').queued = s.queued
      <4>1. Project(journal') = NextState(s, Appended(m))
        BY <1>2, <3>2 DEF s
      <4> QED
        BY <2>1, <2>2, <4>1, AppendedStep, Zenon
    <3>4. Announced' = Announced
      <4>1. Range(out) = {Appended(m), Queued(m)} /\ Range(out') = {Queued(m)}
        BY <2>4, <3>1, RangeOfTwo
      <4>2. \A k \in Message : Queued(k) \in Range(out') <=> Queued(k) \in Range(out)
        BY <4>1, QueuedOnly
      <4> QED
        BY <4>2 DEF Announced
    <3>5. Due' = Due
      BY <1>0, <3>4 DEF Due
    <3>6. Within(Back, Back')
      <4>1. Message \ Range(Append(s.messages, m)) \subseteq Message \ Range(s.messages)
        BY <2>1, <2>2, RangeAppend
      <4>2. Back' = Without(s.queued, Message \ Range(Append(s.messages, m)))
        BY <3>3 DEF Back, RestoreQueue
      <4> QED
        BY <2>2, <2>3, <4>1, <4>2, WithinFewer
    <3>7. Due \in Seq(Message) /\ Back' \in Seq(Message)
      <4>1. waiting \in Seq(Message)
        BY DEF TypeOK
      <4>2. Due \in Seq(Message)
        BY <1>0, <4>1, WithoutType DEF Due
      <4>3. Back' \in Seq(Message)
        BY <2>2, <3>3, WithoutType DEF Back, RestoreQueue
      <4> QED
        BY <4>2, <4>3
    <3>8. Within(Due, Back')
      BY <1>1, <2>2, <3>6, <3>7, WithinTwice
    <3> QED
      BY <1>2, <3>5, <3>8 DEF Owes
  <2>5. CASE out = <<Queued(m)>> /\ m \in Range(s.messages)
    <3>1. h = Queued(m) /\ out' = <<>>
      BY <1>0, <2>5, HeadTail
    <3>2. Prepared(h) = Queued(m)
      BY <3>1 DEF Prepared, Queued
    <3>3. Project(journal').messages = s.messages
          /\ Project(journal').queued = Append(s.queued, m)
      <4>1. Project(journal') = NextState(s, Queued(m))
        BY <1>2, <3>2 DEF s
      <4> QED
        BY <2>1, <2>2, <4>1, QueuedStep, ZenonT(30)
    <3>4. Announced = {m}
      <4>1. Range(out) = {Queued(m)}
        BY <2>5, RangeOfTwo
      <4>2. \A k \in Message : Queued(k) \in Range(out) <=> k = m
        BY <2>1, <4>1, QueuedOnly
      <4> QED
        BY <2>1, <4>2 DEF Announced
    <3>5. Due = w
      <4>1. Without(Append(w, m), {m}) = Without(w, {m}) /\ Without(w, {m}) = w
        BY <2>1, WithoutAppend, WithoutOthers
      <4> QED
        BY <1>0, <2>1, <3>4, <4>1 DEF Due
    <3>6. Due' = Append(w, m)
      <4>1. Range(out') = {}
        BY <3>1, RangeOfTwo
      <4>2. Announced' = {}
        BY <4>1 DEF Announced
      <4>3. waiting \in Seq(Message)
        BY DEF TypeOK
      <4>4. Without(waiting, {}) = waiting
        BY <4>3, WithoutOthers
      <4> QED
        BY <1>0, <2>1, <4>2, <4>4 DEF Due
    <3>7. Back' = Append(Back, m)
      <4>1. Back' = Without(Append(s.queued, m), Message \ Range(s.messages))
        BY <3>3 DEF Back, RestoreQueue
      <4> DEFINE q == s.queued
                 D == Message \ Range(s.messages)
      <4>2. m \notin D /\ q \in Seq(Message) /\ Back' = Without(Append(q, m), D)
            /\ Back = Without(q, D)
        BY <2>2, <2>3, <2>5, <4>1
      <4> HIDE DEF q, D
      <4> QED
        BY <2>1, <4>2, WithoutAppend
    <3>8. Within(Append(w, m), Append(Back, m))
      BY <1>1, <2>1, <2>2, <3>5, WithinBoth
    <3> QED
      BY <1>2, <3>6, <3>7, <3>8 DEF Owes
  <2> QED
    BY <1>0, <2>1, <2>4, <2>5 DEF s
<1> QED
  BY <1>0, <1>3, <1>4 DEF OutShape

\* The merged journal is projected to the same conversation.
LEMMA DeltasSame ==
    ASSUME NEW s \in State, NEW f \in Seq(Deltas)
    PROVE  Same(ProjectFrom(s, f), s)
<1> DEFINE P == {q \in Seq(Deltas) : q \in Seq(Record) /\ Same(ProjectFrom(s, q), s)}
<1>1. <<>> \in P
  BY ProjectEmpty DEF Same
<1>2. ASSUME NEW q \in Seq(Deltas), NEW x \in Deltas, q \in P
      PROVE  Append(q, x) \in P
  <2>1. q \in Seq(Record) /\ Same(ProjectFrom(s, q), s)
    BY <1>2
  <2>2. PICK t \in Turn : x = Delta(t)
    BY <1>2 DEF Deltas
  <2>3. x \in Record /\ x.type = "model.delta"
    BY <2>2, TurnRecords DEF Delta
  <2> DEFINE p == ProjectFrom(s, q)
  <2>4. p \in State
    BY <2>1, ProjectType
  <2>5. ProjectFrom(s, Append(q, x)) = NextState(p, x)
    BY <2>1, <2>3, ProjectAppend
  <2>6. Append(q, x) \in Seq(Deltas) /\ Append(q, x) \in Seq(Record)
    BY <1>2, <2>1, <2>3
  <2> HIDE DEF p
  <2>7. Same(NextState(p, x), p)
    BY <2>3, <2>4, TurnSame
  <2> QED
    BY <2>1, <2>5, <2>6, <2>7 DEF Same, p
<1> HIDE DEF P
<1>3. \A q \in Seq(Deltas) : q \in P
  BY <1>1, <1>2, SeqInduct
<1> QED
  BY <1>3 DEF P

\* slimJournal keeps the conversation.
LEMMA SlimSame ==
    ASSUME TypeOK, Slim, Readable(journal)
    PROVE  Readable(journal') /\ Same(Project(journal'), Project(journal))
<1> DEFINE m == journal \o flight
<1>1. journal \in Seq(Record) /\ flight \in Seq(Record) /\ m \in Seq(Record)
  BY MergedType
<1>2. CASE phase' = "slimmed"
  <2>1. journal' = Slimmed(m) /\ Project(Slimmed(m)) = Project(m)
    BY <1>2 DEF Slim
  <2>2. Project(journal) \in State /\ flight \in Seq(Deltas)
    BY ProjectReadable DEF TypeOK
  <2>3. Project(m) = ProjectFrom(Project(journal), flight)
    BY <1>1, EmptyType, ProjectConcat, Zenon DEF Project
  <2>4. Same(ProjectFrom(Project(journal), flight), Project(journal))
    BY <2>2, DeltasSame
  <2>5. Readable(journal')
    BY <1>1, <2>1, SlimmedType, RecordsReadable
  <2> QED
    BY <2>1, <2>3, <2>4, <2>5
<1>3. CASE phase' # "slimmed"
  BY <1>3 DEF Slim, Same
<1> QED
  BY <1>2, <1>3

\* A step that keeps what is owed and what the journal gives back.
LEMMA OwesKept ==
    ASSUME Owes, ~ lost' => ~ lost /\ Due' = Due /\ Back' = Back,
           Readable(journal) => Readable(journal')
    PROVE  Owes'
BY DEF Owes

\* A start always gives back what is due, in its order.
LEMMA OwesNext ==
    ASSUME ChatInv, Owes, Next
    PROVE  Owes'
<1> USE DEF ChatInv
<1>0. ~ lost => Readable(journal)
  BY DEF Owes
<1>1. CASE Submit
  BY <1>1, SubmitOwes
<1>2. CASE TakeQueued \/ Finish \/ Stop
  <2>1. waiting' = <<>> /\ phase' = "up" /\ journal' = journal /\ lost' = lost
    BY <1>2 DEF TakeQueued, Finish, Stop, Free, Up, diskVars, auditVars
  <2> QED
    BY <1>0, <2>1, OwesNone DEF Owes
<1>3. CASE Publish
  BY <1>3, PublishOwes
<1>4. CASE ShortWrite
  BY <1>4 DEF ShortWrite, Owes
<1>5. CASE ClosePending \/ ReceiveDelta
  <2>1. journal' = journal /\ out' = out /\ owed' = owed
        /\ waiting' = waiting /\ lost' = lost /\ phase' = phase
    BY <1>5 DEF ClosePending, ReceiveDelta, memoryVars, auditVars
  <2> QED
    BY <2>1 DEF Owes, Due, Back, Announced
<1>6. CASE SendRequest \/ ReceiveResponse
  <2>1. out' = out /\ owed' = owed
        /\ waiting' = waiting /\ lost' = lost /\ phase' = phase
    BY <1>6 DEF SendRequest, ReceiveResponse, auditVars
  <2>2. Due' = Due
    BY <2>1 DEF Due, Announced
  <2>3. Readable(journal) => Readable(journal') /\ Back' = Back
    BY <1>6, TurnKeeps, SameQueue DEF Back
  <2> QED
    BY <1>0, <2>1, <2>2, <2>3, OwesKept
<1>7. CASE Crash
  <2>1. phase' # "up" /\ journal' = journal /\ lost' = lost /\ owed' = Due
    BY <1>7 DEF Crash, Due, Announced
  <2> QED
    BY <2>1 DEF Owes, Due, Back
<1>8. CASE Slim
  <2>1. phase # "up" /\ phase' # "up" /\ owed' = owed /\ lost' = lost
    BY <1>8 DEF Slim, auditVars
  <2>2. Readable(journal) => Readable(journal') /\ Back' = Back
    BY <1>8, SlimSame, SameQueue DEF Back
  <2> QED
    BY <1>0, <2>1, <2>2, OwesKept DEF Due
<1>9. CASE DropFlight \/ Load
  <2>1. phase # "up" /\ phase' # "up" /\ owed' = owed /\ lost' = lost /\ journal' = journal
    BY <1>9 DEF DropFlight, Load, auditVars
  <2> QED
    BY <2>1 DEF Owes, Due, Back
<1>10. CASE Restore
  <2> DEFINE c == Closed(Project(journal))
  <2>1. /\ Readable(journal') /\ Project(journal') = c /\ waiting' = RestoreQueue(c)
        /\ Project(journal) \in State
    BY <1>10, RestoreProject
  <2>2. out' = <<>> /\ phase' = "up"
    BY <1>10 DEF Restore, Idle
  <2>3. TypeOK'
    BY NextTyped
  <2>4. Due' = waiting' /\ Back' = waiting'
    <3>1. Range(out') = {}
      BY <2>2, RangeOfTwo
    <3>2. Announced' = {}
      BY <3>1 DEF Announced
    <3>3. waiting' \in Seq(Message)
      BY <2>3 DEF TypeOK
    <3>4. Without(waiting', {}) = waiting'
      BY <3>3, WithoutOthers
    <3> QED
      BY <2>1, <2>2, <3>2, <3>4 DEF Due, Back
  <2>5. Within(waiting', waiting')
    BY <2>3, WithinSelf DEF TypeOK
  <2> QED
    BY <2>1, <2>4, <2>5 DEF Owes
<1> QED
  BY <1>1, <1>2, <1>3, <1>4, <1>5, <1>6, <1>7, <1>8, <1>9, <1>10 DEF Next

-----------------------------------------------------------------------------
(* Sent messages do not. *)

\* Nothing that a request sent is on its way to the journal again.
NotSent(o, S) == \A m \in S : Appended(m) \notin Range(o) /\ Queued(m) \notin Range(o)

\* Returning a message appends and queues nothing.
LEMMA ReturnsNotSent ==
    ASSUME NEW w \in Seq(Message), NEW S \in SUBSET Message
    PROVE  NotSent(Each(w, Returns), S)
<1>1. \A r \in Range(Each(w, Returns)) : r.type \in {"message.removed", "message.queued.0"}
  BY EachReturnsHas
<1>2. \A m \in S : Appended(m).type = "message.appended" /\ Queued(m).type = "message.queued"
  BY DEF Appended, Queued
<1> QED
  BY <1>1, <1>2 DEF NotSent

\* Delivering messages that were not sent appends none that was.
LEMMA DeliversNotSent ==
    ASSUME NEW w \in Seq(Message), NEW S \in SUBSET Message, Range(w) \cap S = {}
    PROVE  NotSent(Each(w, Delivers), S)
<1>1. \A r \in Range(Each(w, Delivers)) :
          /\ r.type \in {"message.removed", "message.appended", "message.queued.0"}
          /\ r.id \in Range(w)
  BY EachDeliversHas
<1>2. \A m \in S : /\ Appended(m).type = "message.appended" /\ Appended(m).id = m
                   /\ Queued(m).type = "message.queued" /\ m \notin Range(w)
  BY DEF Appended, Queued
<1> QED
  BY <1>1, <1>2 DEF NotSent

\* Two lists without sent messages make one.
LEMMA NotSentConcat ==
    ASSUME NEW S, NEW a \in Seq(Outgoing), NEW b \in Seq(Outgoing), NotSent(a, S), NotSent(b, S)
    PROVE  NotSent(a \o b, S) /\ a \o b \in Seq(Outgoing)
<1>1. Range(a \o b) = Range(a) \cup Range(b)
  BY RangeConcat
<1> QED
  BY <1>1 DEF NotSent

\* The short lists of the operations have no sent message.
LEMMA ShortNotSent ==
    ASSUME NEW S \in SUBSET Message, NEW m \in Message
    PROVE  /\ NotSent(<<>>, S) /\ NotSent(<<Stopped(0, 0)>>, S) /\ NotSent(<<Started(m)>>, S)
           /\ m \notin S => /\ NotSent(<<Appended(m), Started(m)>>, S)
                            /\ NotSent(<<Appended(m), Queued(m)>>, S)
                            /\ NotSent(<<Queued(m)>>, S)
<1>1. \A k \in S : /\ Appended(k).type = "message.appended" /\ Appended(k).id = k
                   /\ Queued(k).type = "message.queued" /\ Queued(k).id = k
  BY DEF Appended, Queued
<1>2. /\ Stopped(0, 0).type = "run.stopped" /\ Started(m).type = "run.started"
      /\ Queued(m).type = "message.queued" /\ Queued(m).id = m
      /\ Appended(m).type = "message.appended" /\ Appended(m).id = m
  BY DEF Stopped, Started, Queued, Appended
<1>3. /\ Range(<<>>) = {} /\ Range(<<Stopped(0, 0)>>) = {Stopped(0, 0)}
      /\ Range(<<Started(m)>>) = {Started(m)} /\ Range(<<Queued(m)>>) = {Queued(m)}
      /\ Range(<<Appended(m), Started(m)>>) = {Appended(m), Started(m)}
      /\ Range(<<Appended(m), Queued(m)>>) = {Appended(m), Queued(m)}
  BY RangeOfTwo
<1> QED
  BY <1>1, <1>2, <1>3 DEF NotSent

\* The invariant of sent messages, in these terms.
LEMMA SentIs ==
    SentOnce <=> (~ lost => /\ Range(Back) \cap sent = {}
                            /\ Range(waiting) \cap sent = {}
                            /\ NotSent(out, sent))
BY DEF SentOnce, NotSent

\* The same, after a step.
LEMMA SentPrime ==
    ASSUME ~ lost' => /\ Range(Back') \cap sent' = {}
                      /\ Range(waiting') \cap sent' = {}
                      /\ NotSent(out', sent')
    PROVE  SentOnce'
BY DEF SentOnce, NotSent

\* An operation queues nothing that was sent.  Submit:
LEMMA SubmitSent ==
    ASSUME TypeOK, QueueNew, SentOnce, Submit
    PROVE  SentOnce'
<1> SUFFICES ASSUME ~ lost' PROVE SentOnce'
  BY DEF SentOnce
<1> DEFINE m == ids'
<1>0. ~ lost /\ journal' = journal /\ sent' = sent \ {m} /\ m \in Message
  BY Bounds DEF Submit, diskVars, TypeOK
<1>1. Range(Back) \cap sent = {} /\ Range(waiting) \cap sent = {} /\ Back' = Back
  BY <1>0, SentIs DEF Back
<1>2. sent' \in SUBSET Message /\ m \notin sent' /\ waiting \in Seq(Message)
  BY <1>0 DEF TypeOK
<1>3. CASE run = 0
  <2>1. waiting' = <<>> /\ out' = Each(waiting, Returns) \o <<Appended(m), Started(m)>>
    BY <1>3 DEF Submit
  <2> HIDE DEF m
  <2> DEFINE a == Each(waiting, Returns)
             b == <<Appended(m), Started(m)>>
  <2>2. NotSent(a, sent') /\ NotSent(b, sent')
    BY <1>0, <1>2, ReturnsNotSent, ShortNotSent
  <2>3. a \in Seq(Outgoing) /\ b \in Seq(Outgoing)
    <3>1. Appended(m) \in Outgoing /\ Started(m) \in Outgoing
      BY <1>0, IdOutgoing
    <3> QED
      BY <1>2, <3>1, EachOutgoing
  <2> HIDE DEF a, b
  <2>4. NotSent(a \o b, sent')
    BY <2>2, <2>3, NotSentConcat
  <2>5. Range(waiting') = {}
    BY <2>1, RangeOfTwo
  <2>6. out' = a \o b
    BY <2>1 DEF a, b
  <2> QED
    BY <1>0, <1>1, <2>4, <2>5, <2>6, SentPrime
<1>4. CASE run # 0
  <2>1. waiting' = Append(waiting, m) /\ out' = <<Appended(m), Queued(m)>>
    BY <1>4, NewNumber
  <2> HIDE DEF m
  <2>2. Range(waiting') = Range(waiting) \cup {m}
    BY <1>0, <1>2, <2>1, RangeAppend
  <2>3. NotSent(out', sent')
    BY <1>0, <1>2, <2>1, ShortNotSent
  <2> QED
    BY <1>0, <1>1, <2>2, <2>3, SentPrime
<1> QED
  BY <1>3, <1>4

\* TakeQueued, Finish and Stop:
LEMMA EndSent ==
    ASSUME TypeOK, SentOnce, TakeQueued \/ Finish \/ Stop
    PROVE  SentOnce'
<1> SUFFICES ASSUME ~ lost' PROVE SentOnce'
  BY DEF SentOnce
<1>0. ~ lost /\ journal' = journal /\ sent' = sent /\ waiting' = <<>>
  BY DEF TakeQueued, Finish, Stop, diskVars, auditVars
<1>1. Range(Back) \cap sent = {} /\ Range(waiting) \cap sent = {} /\ Back' = Back
  BY <1>0, SentIs DEF Back
<1>2. Range(waiting') = {} /\ sent \in SUBSET Message /\ waiting \in Seq(Message)
  BY <1>0, RangeOfTwo DEF TypeOK
<1> DEFINE d == Each(waiting, Delivers)
           e == Each(waiting, Returns)
           p == <<Stopped(0, 0)>>
           l == IF waiting = <<>> THEN <<>> ELSE <<Started(Head(waiting))>>
<1>3. d \in Seq(Outgoing) /\ e \in Seq(Outgoing)
  BY <1>2, EachOutgoing
<1>4. NotSent(d, sent) /\ NotSent(e, sent)
  BY <1>1, <1>2, DeliversNotSent, ReturnsNotSent
<1>5. NotSent(p, sent) /\ p \in Seq(Outgoing)
  BY <1>2, Bounds, StopsOutgoing, ShortNotSent
<1>6. NotSent(l, sent) /\ l \in Seq(Outgoing)
  <2>1. CASE waiting = <<>>
    <3>1. l = <<>>
      BY <2>1
    <3> HIDE DEF l
    <3>2. l \in Seq(Outgoing)
      BY <3>1
    <3>3. Range(l) = {}
      BY <3>1, RangeOfTwo
    <3> QED
      BY <3>2, <3>3 DEF NotSent
  <2>2. CASE waiting # <<>>
    <3>1. Head(waiting) \in Message
      BY <1>2, <2>2, HeadWaiting
    <3> QED
      BY <1>2, <2>2, <3>1, StopsOutgoing, ShortNotSent
  <2> QED
    BY <2>1, <2>2
<1>7. out' = d \/ out' = d \o p \o l \/ out' = e \o p
  BY DEF TakeQueued, Finish, Stop
<1> HIDE DEF d, e, p, l
<1>8. NotSent(d \o p, sent) /\ d \o p \in Seq(Outgoing) /\ NotSent(e \o p, sent)
  BY <1>3, <1>4, <1>5, NotSentConcat
<1> DEFINE f == d \o p
<1> HIDE DEF f
<1>9. NotSent(f \o l, sent)
  BY <1>6, <1>8, NotSentConcat DEF f
<1>10. NotSent(out', sent')
  BY <1>0, <1>4, <1>7, <1>8, <1>9 DEF f
<1> QED
  BY <1>0, <1>1, <1>2, <1>10, SentPrime

\* What one record can add to what a start would give back.
LEMMA StepBack ==
    ASSUME NEW s \in State, NEW r \in Outgoing, NEW z \in State, Same(z, NextState(s, r))
    PROVE  Range(z.queued) \cap Range(z.messages)
             \subseteq (Range(s.queued) \cap Range(s.messages))
                        \cup {m \in Message : r = Appended(m) \/ r = Queued(m)}
<1> DEFINE A == Range(s.queued)
           B == Range(s.messages)
<1>0. r \in Record
  BY OutgoingRecord
<1>1. Stepped(s, r, NextState(s, r))
  BY <1>0, NextStateIs
<1>2. z.messages = NextMessages(s, r) /\ z.queued = NextQueued(s, r)
  BY <1>1 DEF Stepped, Same
<1>3. s.queued \in Seq(Message) /\ s.messages \in Seq(Message)
  BY DEF State
<1>4. CASE r \in IdRecord
  <2>1. r.id \in Message /\ r.type \in IdTypes /\ r = [type |-> r.type, id |-> r.id]
    BY <1>4 DEF IdRecord
  <2> DEFINE m == r.id
  <2>2. /\ Range(Append(s.queued, m)) = A \cup {m} /\ Range(Append(s.messages, m)) = B \cup {m}
        /\ Range(Without(s.queued, {m})) = A \ {m} /\ Range(Without(s.messages, {m})) = B \ {m}
    BY <1>3, <2>1, RangeAppend, WithoutRange
  <2> HIDE DEF A, B, m
  <2>3. CASE r.type = "message.appended"
    <3>1. r = Appended(m) /\ m \in Message
      BY <2>1, <2>3 DEF Appended, m
    <3>2. Range(z.queued) = A /\ Range(z.messages) = B \cup {m}
      BY <1>2, <2>2, <2>3 DEF NextMessages, NextQueued, A, m
    <3> QED
      BY <3>1, <3>2 DEF A, B
  <2>4. CASE r.type = "message.queued"
    <3>1. r = Queued(m) /\ m \in Message
      BY <2>1, <2>4 DEF Queued, m
    <3>2. Range(z.messages) = B /\ Range(z.queued) = A \cup {m}
      BY <1>2, <2>2, <2>4 DEF NextMessages, NextQueued, B, m
    <3> QED
      BY <3>1, <3>2 DEF A, B
  <2>5. CASE r.type = "message.removed"
    <3>1. Range(z.queued) = A /\ Range(z.messages) = B \ {m}
      BY <1>2, <2>2, <2>5 DEF NextMessages, NextQueued, A, m
    <3> QED
      BY <3>1 DEF A, B
  <2>6. CASE r.type \in {"message.queued.0", "run.started"}
    <3>1. Range(z.queued) = A \ {m} /\ Range(z.messages) = B
      BY <1>2, <2>2, <2>6 DEF NextMessages, NextQueued, B, m
    <3> QED
      BY <3>1 DEF A, B
  <2> QED
    BY <2>1, <2>3, <2>4, <2>5, <2>6 DEF IdTypes
<1>5. CASE r = Stopped(0, 0)
  <2>1. z.messages = s.messages /\ z.queued = s.queued
    BY <1>2, <1>5 DEF NextMessages, NextQueued, Stopped
  <2> QED
    BY <2>1
<1> QED
  BY <1>4, <1>5 DEF Outgoing

\* Publishing makes no sent message wait again.
LEMMA PublishSent ==
    ASSUME TypeOK, Follows, SentOnce, Publish
    PROVE  SentOnce'
<1> SUFFICES ASSUME ~ lost' PROVE SentOnce'
  BY DEF SentOnce
<1> DEFINE s == Project(journal)
           h == Head(out)
           z == Project(journal')
<1>0. /\ ~ lost /\ journal' = Append(journal, Prepared(h)) /\ out' = Tail(out) /\ waiting' = waiting
      /\ out # <<>> /\ phase = "up" /\ sent' = sent
  BY DEF Publish, Up
<1>1. Range(Back) \cap sent = {} /\ Range(waiting) \cap sent = {} /\ NotSent(out, sent)
  BY <1>0, SentIs
<1>2. Readable(journal)
  BY <1>0 DEF Follows
<1>3. Readable(journal') /\ z = NextState(s, Prepared(h))
  BY <1>0, <1>2, PublishSame
<1>4. s \in State /\ Range(Back) = Range(s.queued) \cap Range(s.messages)
  BY <1>2, BackType
<1>5. h \in Outgoing /\ Range(out) = {h} \cup Range(Tail(out))
  <2>1. out \in Seq(Outgoing)
    BY DEF TypeOK
  <2> DEFINE n == Len(out)
  <2>2. n \in Nat /\ n # 0 /\ DOMAIN out = 1 .. n /\ DOMAIN Tail(out) = 1 .. n - 1
        /\ out[1] = h /\ \A i \in 1 .. n - 1 : Tail(out)[i] = out[i + 1]
    BY <1>0, <2>1
  <2> HIDE DEF n, h
  <2>3. h \in Range(out)
    BY <2>2 DEF Range
  <2>4. Range(Tail(out)) \subseteq Range(out)
    BY <2>2 DEF Range
  <2>5. \A i \in 1 .. n : i = 1 \/ (i - 1 \in 1 .. n - 1 /\ Tail(out)[i - 1] = out[i])
    BY <2>2
  <2>6. Range(out) \subseteq {h} \cup Range(Tail(out))
    <3>1. ASSUME NEW i \in 1 .. n PROVE out[i] \in {h} \cup Range(Tail(out))
      <4>1. CASE i = 1
        BY <2>2, <4>1
      <4>2. CASE i - 1 \in DOMAIN Tail(out) /\ Tail(out)[i - 1] = out[i]
        <5>1. Tail(out)[i - 1] \in Range(Tail(out))
          BY <4>2 DEF Range
        <5> QED
          BY <4>2, <5>1
      <4> QED
        BY <2>2, <2>5, <3>1, <4>1, <4>2
    <3> QED
      BY <2>2, <3>1 DEF Range
  <2> QED
    BY <1>0, <2>3, <2>4, <2>6, HeadOut DEF h
<1> HIDE DEF h, s
<1>6. z \in State /\ Same(z, NextState(s, h))
  BY <1>3, <1>4, <1>5, PreparedSame, PreparedRecord, NextStateIs DEF Stepped
<1> HIDE DEF z
<1>7. Range(Back') = Range(z.queued) \cap Range(z.messages)
  BY <1>6, RestoreQueueType DEF Back, z
<1>8. Range(z.queued) \cap Range(z.messages)
        \subseteq Range(Back) \cup {m \in Message : h = Appended(m) \/ h = Queued(m)}
  BY <1>4, <1>5, <1>6, StepBack
<1>9. \A m \in sent : h # Appended(m) /\ h # Queued(m)
  BY <1>1, <1>5 DEF NotSent
<1>10. Range(Back') \cap sent' = {}
  BY <1>0, <1>1, <1>7, <1>8, <1>9
<1>11. NotSent(out', sent')
  BY <1>0, <1>1, <1>5 DEF NotSent
<1> QED
  BY <1>0, <1>1, <1>10, <1>11, SentPrime

\* A request takes what is in the conversation and does not wait.
LEMMA SendRequestSent ==
    ASSUME TypeOK, OutShape, Follows, SentOnce, SendRequest
    PROVE  SentOnce'
<1> SUFFICES ASSUME ~ lost' PROVE SentOnce'
  BY DEF SentOnce
<1> DEFINE s == Project(journal)
<1>0. /\ ~ lost /\ out' = out /\ waiting' = waiting /\ phase = "up" /\ turn = 0 /\ run # 0
      /\ ~ (runWaits /\ out # <<>>)
      /\ sent' = sent \cup (Range(messages) \ Range(waiting))
  BY DEF SendRequest, Up
<1>1. Range(Back) \cap sent = {} /\ Range(waiting) \cap sent = {} /\ NotSent(out, sent)
  BY <1>0, SentIs
<1>2. Readable(journal) /\ Agrees(Published)
  BY <1>0 DEF Follows
<1>3. Back' = Back
  BY <1>2, TurnKeeps, SameQueue DEF Back
<1>4. /\ s \in State /\ Range(Back) = Range(s.queued) \cap Range(s.messages)
      /\ s.queued \in Seq(Message) /\ s.messages \in Seq(Message) /\ sent \in SUBSET Message
  BY <1>2, BackType DEF TypeOK
<1>5. Published = ProjectFrom(s, out)
  BY DEF Published
<1> HIDE DEF s
<1>6. CASE out = <<>>
  <2>1. Published = s
    BY <1>4, <1>5, <1>6, ProjectEmpty
  <2>2. Range(Back) \subseteq Range(waiting)
    BY <1>2, <1>4, <2>1 DEF Agrees
  <2>3. NotSent(out', sent')
    BY <1>0, <1>6, RangeOfTwo DEF NotSent
  <2> QED
    BY <1>0, <1>1, <1>3, <2>2, <2>3, SentPrime
<1>7. CASE Accepting
  <2>1. PICK w \in Seq(Message), m \in Message :
            /\ waiting = Append(w, m)
            /\ out = <<Appended(m), Queued(m)>> \/ out = <<Queued(m)>>
    BY <1>7 DEF Accepting
  <2>2. m \in Range(waiting)
    BY <2>1, RangeAppend
  <2>3. m \notin sent'
    BY <1>0, <1>1, <2>2
  <2>4. sent' \in SUBSET Message
    <3>1. Range(messages) \subseteq Message
      BY DEF TypeOK, Range
    <3> QED
      BY <1>0, <1>4, <3>1
  <2>5. NotSent(out', sent')
    BY <1>0, <2>1, <2>3, <2>4, ShortNotSent
  <2>6. Range(Back) \subseteq Range(waiting)
    <3>1. CASE out = <<Appended(m), Queued(m)>>
      <4>1. SubmittedTo(s, m, Published)
        BY <1>4, <1>5, <2>1, <3>1, SubmittedProject
      <4>2. Range(Append(s.queued, m)) = Range(s.queued) \cup {m}
            /\ Range(Append(s.messages, m)) = Range(s.messages) \cup {m}
        BY <1>4, <2>1, RangeAppend
      <4> QED
        BY <1>2, <1>4, <4>1, <4>2 DEF SubmittedTo, Agrees
    <3>2. CASE out = <<Queued(m)>>
      <4> DEFINE z == NextState(s, Queued(m))
      <4>1. Queued(m) \in Record
        BY <2>1, IdRecords DEF Record
      <4>2. Published = z
        BY <1>4, <1>5, <3>2, <4>1, ProjectOne
      <4>3. z.messages = s.messages /\ z.queued = Append(s.queued, m)
        BY <1>4, <2>1, QueuedStep, Zenon
      <4> HIDE DEF z
      <4>4. Range(Append(s.queued, m)) = Range(s.queued) \cup {m}
        BY <1>4, <2>1, RangeAppend
      <4> QED
        BY <1>2, <1>4, <4>2, <4>3, <4>4 DEF Agrees
    <3> QED
      BY <2>1, <3>1, <3>2
  <2> QED
    BY <1>0, <1>1, <1>3, <2>5, <2>6, SentPrime
<1> QED
  BY <1>0, <1>6, <1>7 DEF OutShape

\* What a request has sent is not given back.
LEMMA SentNext ==
    ASSUME ChatInv, Owes, SentOnce, Next
    PROVE  SentOnce'
<1> USE DEF ChatInv
<1>0. ~ lost => Readable(journal)
  BY DEF Owes
<1>1. CASE Submit
  BY <1>1, SubmitSent
<1>2. CASE TakeQueued \/ Finish \/ Stop
  BY <1>2, EndSent
<1>3. CASE Publish
  BY <1>3, PublishSent
<1>4. CASE ShortWrite
  BY <1>4 DEF ShortWrite, SentOnce
<1>5. CASE ClosePending \/ ReceiveDelta
  <2>1. journal' = journal /\ out' = out /\ sent' = sent /\ waiting' = waiting /\ lost' = lost
    BY <1>5 DEF ClosePending, ReceiveDelta, memoryVars, auditVars
  <2> QED
    BY <2>1 DEF SentOnce, Back
<1>6. CASE SendRequest
  BY <1>6, SendRequestSent
<1>7. CASE ReceiveResponse
  <2>1. out' = out /\ sent' = sent /\ waiting' = waiting /\ lost' = lost
    BY <1>7 DEF ReceiveResponse, auditVars
  <2>2. ~ lost => Back' = Back
    BY <1>0, <1>7, TurnKeeps, SameQueue DEF Back
  <2> QED
    BY <2>1, <2>2 DEF SentOnce
<1>8. CASE Crash
  <2>1. out' = <<>> /\ waiting' = <<>> /\ sent' = sent /\ lost' = lost /\ journal' = journal
    BY <1>8 DEF Crash
  <2>2. Range(out') = {} /\ Range(waiting') = {}
    BY <2>1, RangeOfTwo
  <2> QED
    BY <2>1, <2>2 DEF SentOnce, Back
<1>9. CASE Slim \/ DropFlight \/ Load
  <2>1. out' = out /\ sent' = sent /\ waiting' = waiting /\ lost' = lost
    BY <1>9 DEF Slim, DropFlight, Load, memoryVars, auditVars
  <2>2. ~ lost => Back' = Back
    <3>1. CASE Slim
      BY <1>0, <3>1, SlimSame, SameQueue DEF Back
    <3>2. CASE DropFlight \/ Load
      BY <3>2 DEF DropFlight, Load, Back
    <3> QED
      BY <1>9, <3>1, <3>2
  <2> QED
    BY <2>1, <2>2 DEF SentOnce
<1>10. CASE Restore
  <2> DEFINE s == Project(journal)
             c == Closed(s)
  <2>1. /\ Project(journal') = c /\ waiting' = RestoreQueue(c) /\ s \in State
    BY <1>10, RestoreProject
  <2>2. out' = <<>> /\ sent' = sent /\ lost' = lost
    BY <1>10 DEF Restore, Idle, auditVars
  <2>3. c.messages = s.messages /\ c.queued = s.queued
    BY <2>1, ClosedType
  <2>4. Back' = Back /\ waiting' = Back
    BY <2>1, <2>3 DEF Back, RestoreQueue
  <2>5. Range(out') = {}
    BY <2>2, RangeOfTwo
  <2> QED
    BY <2>2, <2>4, <2>5 DEF SentOnce
<1> QED
  BY <1>1, <1>2, <1>3, <1>4, <1>5, <1>6, <1>7, <1>8, <1>9, <1>10 DEF Next

\* The invariant of the queue is inductive,
LEMMA QueueNextInv == ChatInv /\ QueueInv /\ [Next]_vars => QueueInv'
<1> SUFFICES ASSUME ChatInv, QueueInv, [Next]_vars PROVE QueueInv'
  OBVIOUS
<1>1. CASE Next
  BY <1>1, OwesNext, SentNext DEF QueueInv
<1>2. CASE UNCHANGED vars
  <2>1. UNCHANGED <<journal, phase, waiting, out, owed, sent, lost>>
    BY <1>2 DEF vars, diskVars, memoryVars, auditVars
  <2> QED
    BY <2>1 DEF QueueInv, Owes, SentOnce, Due, Back, Announced
<1> QED
  BY <1>1, <1>2

\* so it always holds.
LEMMA QueueAlways == Spec => [](ChatInv /\ QueueInv)
<1>1. Init => ChatInv /\ QueueInv
  BY ChatInit, QueueInit
<1>2. (ChatInv /\ QueueInv) /\ [Next]_vars => (ChatInv /\ QueueInv)'
  BY ChatNext, QueueNextInv
<1> QED
  BY <1>1, <1>2, PTL DEF Spec

\* The one step that hands a chat over.
LEMMA RestoredSurvives ==
    ASSUME ChatInv, QueueInv, Next, Restored, ~ lost
    PROVE  Within(owed, waiting') /\ Range(waiting') \cap sent = {}
<1>1. Restore
  BY DEF Restored, Next, Submit, TakeQueued, Finish, Stop, Publish, ShortWrite, ClosePending,
         SendRequest, ReceiveDelta, ReceiveResponse, Crash, Slim, DropFlight, Load, Free, Up
<1> DEFINE s == Project(journal)
           c == Closed(s)
<1>2. waiting' = RestoreQueue(c) /\ s \in State
  BY <1>1, RestoreProject DEF ChatInv
<1>3. c.messages = s.messages /\ c.queued = s.queued
  BY <1>2, ClosedType
<1>4. waiting' = Back
  BY <1>2, <1>3 DEF Back, RestoreQueue
<1>5. Due = owed
  BY DEF Restored, Due
<1> QED
  BY <1>4, <1>5 DEF QueueInv, Owes, SentOnce

\* A message that waited when the process died, its records written, waits again after
\* the next start, in its place, and nothing comes back that a request had sent: for any
\* number of messages, crashes and starts that are themselves cut off.
THEOREM QueueSurvives == Spec => WaitingSurvives
<1> DEFINE A == Restored /\ ~ lost => /\ Within(owed, waiting')
                                      /\ Range(waiting') \cap sent = {}
<1>1. ChatInv /\ QueueInv /\ [Next]_vars => [A]_vars
  <2> SUFFICES ASSUME ChatInv, QueueInv, [Next]_vars, ~ UNCHANGED vars PROVE A
    OBVIOUS
  <2> QED
    BY RestoredSurvives
<1>2. [](ChatInv /\ QueueInv) /\ [][Next]_vars => [][A]_vars
  BY <1>1, PTL
<1> QED
  BY <1>2, QueueAlways, PTL DEF Spec, WaitingSurvives

-----------------------------------------------------------------------------
(* Completed texts are kept: the inductive invariant. *)

\* A record that says nothing of a turn, one that fits a turn of n deltas, and
\* one that shows at most n of them.
Quiet(r, t) ==
    /\ ~ Ends(r, t) /\ r # Delta(t)
    /\ r.type = "session.created" => r.session.shown[t] = 0
Fits(r, t, n) ==
    /\ r # Delta(t)
    /\ r.type = "session.created" => r.session.shown[t] <= n
    /\ r.type = "model.response" /\ r.turn = t => r.text = n
Shows(r, t, n) == Fits(r, t, n) /\ (Ends(r, t) => r.kept <= n)

Fresh(rs, t)   == \A r \in Range(rs) : Quiet(r, t)
Done(rs, t, n) == (\A r \in Range(rs) : Fits(r, t, n)) /\ Project(rs).shown[t] = n

\* The reducer has the text of the open turn; later turns have none.
OpenTurn ==
    /\ turn # 0 => reducer.turn = turn
    /\ reducer.turn # 0 => reducer.text = streamed[reducer.turn] /\ reducer.turn <= turns
    /\ \A t \in Turn : t > turns => streamed[t] = 0
    /\ \A t \in Turn : Delta(t) \in Range(flight) => t <= turns

\* An open or later turn has no text in rs, an ended one all of it.
TextOf(rs, t) ==
    /\ t > turns \/ t = reducer.turn => Fresh(rs, t)
    /\ Ended(rs, t) => Done(rs, t, streamed[t])

\* Every turn of a journal that can be read is fresh or shown in full once ended.
Texts == Readable(journal) => \A t \in Turn : TextOf(journal, t)

TextInv == OpenTurn /\ Texts

\* A turn has ended when some record ends it.
LEMMA EndedIs ==
    ASSUME NEW rs, NEW t
    PROVE  Ended(rs, t) <=> \E r \in Range(rs) : Ends(r, t)
BY DEF Ended, Range

\* The invariant of texts implies that completed texts are kept.
LEMMA TextsKept == Texts => CompletedTextKept
BY DEF Texts, TextOf, CompletedTextKept, Done

\* At first no record tells of any turn.
LEMMA TextInit == Init => TextInv
<1> SUFFICES ASSUME Init PROVE TextInv
  OBVIOUS
<1>1. OpenTurn
  <2>1. Range(flight) = {}
    BY RangeOfTwo DEF Init
  <2>2. turn = 0 /\ reducer.turn = 0 /\ \A t \in Turn : streamed[t] = 0
    BY DEF Init, NoTurn
  <2> QED
    BY <2>1, <2>2 DEF OpenTurn
<1>2. Range(journal) = {Created(Empty), Appended(1), Started(1)}
  BY DEF Init, Range
<1>3. ASSUME NEW t \in Turn PROVE TextOf(journal, t)
  <2>1. Quiet(Appended(1), t) /\ Quiet(Started(1), t)
    BY DEF Quiet, Ends, Appended, Started, Delta
  <2>2. Quiet(Created(Empty), t)
    <3>1. Empty.shown[t] = 0
      BY EmptyType
    <3> QED
      BY <3>1 DEF Quiet, Ends, Created, Delta
  <2>3. Fresh(journal, t)
    BY <1>2, <2>1, <2>2 DEF Fresh
  <2>4. ~ Ended(journal, t)
    BY <2>3, EndedIs DEF Fresh, Quiet
  <2> QED
    BY <2>3, <2>4 DEF TextOf
<1> QED
  BY <1>1, <1>3 DEF TextInv, Texts

\* No more of a turn is shown than its records say.
LEMMA ShownBound ==
    ASSUME NEW rs \in Seq(Record), NEW t \in Turn, NEW n \in Nat,
           \A r \in Range(rs) : Shows(r, t, n)
    PROVE  Project(rs).shown[t] <= n
<1> DEFINE P == {q \in Seq(Record) : (\A r \in Range(q) : Shows(r, t, n))
                                        => ProjectFrom(Empty, q).shown[t] <= n}
<1>1. <<>> \in P
  BY EmptyType, ProjectEmpty
<1>2. ASSUME NEW q \in Seq(Record), NEW x \in Record, q \in P
      PROVE  Append(q, x) \in P
  <2> DEFINE v == Append(q, x)
             p == ProjectFrom(Empty, q)
             z == ProjectFrom(Empty, v)
  <2>0. v \in Seq(Record) /\ Range(v) = Range(q) \cup {x}
    BY <1>2, RangeAppend
  <2> SUFFICES ASSUME \A r \in Range(v) : Shows(r, t, n)
               PROVE  z.shown[t] <= n
    BY <2>0
  <2>1. Shows(x, t, n) /\ p.shown[t] <= n
    BY <1>2, <2>0
  <2>2. p \in State /\ z = NextState(p, x)
    BY <1>2, EmptyType, ProjectType, ProjectAppend
  <2> HIDE DEF p, z, v
  <2>3. Stepped(p, x, z)
    BY <1>2, <2>2, NextStateIs
  <2>4. z.shown[t] = NextShown(p, x, t)
    BY <2>3 DEF Stepped
  <2>5. ~ (x.type = "model.delta" /\ x.turn = t)
    <3>1. ASSUME x.type = "model.delta", x.turn = t PROVE FALSE
      <4>1. x \in TurnRecord
        BY <1>2, <3>1 DEF Record, IdRecord, IdTypes, ResponseRecord, StoppedRecord, CreatedRecord
      <4>2. x = Delta(t)
        BY <3>1, <4>1 DEF TurnRecord, Delta
      <4> QED
        BY <2>1, <4>2 DEF Shows, Fits
    <3> QED
      BY <3>1
  <2>6. CASE x.type = "session.created"
    BY <2>1, <2>4, <2>6 DEF NextShown, Shows, Fits
  <2>7. CASE x.type = "model.response" /\ x.turn = t
    <3>1. x.kept <= n /\ x.text <= n
      BY <2>1, <2>7 DEF Shows, Fits, Ends
    <3> QED
      BY <2>4, <2>7, <3>1 DEF NextShown
  <2>8. CASE x.type = "run.stopped" /\ x.turn = t
    <3>1. x.kept <= n
      BY <2>1, <2>8 DEF Shows, Fits, Ends
    <3> QED
      BY <2>4, <2>8, <3>1 DEF NextShown
  <2>9. CASE /\ x.type # "session.created" /\ ~ (x.type = "model.response" /\ x.turn = t)
             /\ ~ (x.type = "run.stopped" /\ x.turn = t)
    BY <2>1, <2>4, <2>5, <2>9 DEF NextShown
  <2> QED
    BY <2>6, <2>7, <2>8, <2>9
<1> HIDE DEF P
<1>3. \A q \in Seq(Record) : q \in P
  BY <1>1, <1>2, SeqInduct
<1> QED
  BY <1>3 DEF P, Project

\* Deltas take nothing away.
LEMMA DeltasShow ==
    ASSUME NEW s \in State, NEW f \in Seq(Deltas), NEW t \in Turn
    PROVE  ProjectFrom(s, f).shown[t] >= s.shown[t]
<1> DEFINE P == {q \in Seq(Deltas) : q \in Seq(Record) /\ ProjectFrom(s, q).shown[t] >= s.shown[t]}
<1>0. s.shown[t] \in Nat
  BY DEF State
<1>1. <<>> \in P
  BY <1>0, ProjectEmpty
<1>2. ASSUME NEW q \in Seq(Deltas), NEW x \in Deltas, q \in P
      PROVE  Append(q, x) \in P
  <2> DEFINE p == ProjectFrom(s, q)
             z == NextState(p, x)
  <2>1. q \in Seq(Record) /\ p.shown[t] >= s.shown[t]
    BY <1>2
  <2>2. x \in Record /\ x.type = "model.delta"
    BY <1>2, TurnRecords DEF Deltas, Delta
  <2>3. p \in State
    BY <2>1, ProjectType
  <2>4. ProjectFrom(s, Append(q, x)) = z
    BY <2>1, <2>2, ProjectAppend
  <2>5. Append(q, x) \in Seq(Deltas) /\ Append(q, x) \in Seq(Record)
    BY <1>2, <2>1, <2>2
  <2> HIDE DEF p
  <2>6. Stepped(p, x, z)
    BY <2>2, <2>3, NextStateIs
  <2> HIDE DEF z
  <2>7. z.shown[t] = NextShown(p, x, t) /\ p.shown[t] \in Nat
    BY <2>3, <2>6 DEF Stepped, State
  <2>8. z.shown[t] >= p.shown[t]
    BY <2>2, <2>7 DEF NextShown
  <2>9. z.shown[t] \in Nat
    BY <2>6 DEF Stepped, State
  <2>10. z.shown[t] >= s.shown[t]
    BY <1>0, <2>1, <2>7, <2>8, <2>9
  <2> QED
    BY <2>4, <2>5, <2>10
<1> HIDE DEF P
<1>3. \A q \in Seq(Deltas) : q \in P
  BY <1>1, <1>2, SeqInduct
<1> QED
  BY <1>3 DEF P

-----------------------------------------------------------------------------
(* Writing. *)

\* A record that is no end, no delta and no announcement leaves a turn alone.
Silent(r, t) == r.type # "session.created" /\ r # Delta(t) /\ ~ Ends(r, t)

\* A written record is one of the journal.
LEMMA JournalRange ==
    ASSUME NEW rs \in Seq(Record \cup {Torn}), NEW r \in Record
    PROVE  Range(Append(rs, r)) = Range(rs) \cup {r}
<1>1. r \in Record \cup {Torn}
  OBVIOUS
<1> QED
  BY <1>1, RangeAppend

\* Such a record does not change what is shown of the turn,
LEMMA SilentShown ==
    ASSUME NEW s \in State, NEW r \in Record, NEW t \in Turn, Silent(r, t)
    PROVE  NextState(s, r).shown[t] = s.shown[t]
<1>1. Stepped(s, r, NextState(s, r))
  BY NextStateIs
<1>2. NextState(s, r).shown[t] = NextShown(s, r, t)
  BY <1>1 DEF Stepped
<1>3. ~ (r.type = "model.delta" /\ r.turn = t)
  <2>1. ASSUME r.type = "model.delta", r.turn = t PROVE FALSE
    <3>1. r \in TurnRecord
      BY <2>1 DEF Record, IdRecord, IdTypes, ResponseRecord, StoppedRecord, CreatedRecord
    <3>2. r = Delta(t)
      BY <2>1, <3>1 DEF TurnRecord, Delta
    <3> QED
      BY <3>2 DEF Silent
  <2> QED
    BY <2>1
<1>4. /\ r.type # "session.created" /\ ~ (r.type = "model.response" /\ r.turn = t)
      /\ ~ (r.type = "run.stopped" /\ r.turn = t)
  BY DEF Silent, Ends
<1> QED
  BY <1>2, <1>3, <1>4 DEF NextShown

\* so a turn stays untold, open or completed.
LEMMA SilentAppend ==
    ASSUME NEW rs \in Seq(Record \cup {Torn}), Readable(rs), NEW r \in Record, NEW t \in Turn,
           Silent(r, t), NEW n
    PROVE  /\ Fresh(rs, t) => Fresh(Append(rs, r), t)
           /\ Ended(Append(rs, r), t) => Ended(rs, t)
           /\ Done(rs, t, n) => Done(Append(rs, r), t, n)
<1> DEFINE v == Append(rs, r)
<1>1. Range(v) = Range(rs) \cup {r}
  BY JournalRange
<1>2. Project(rs) \in State /\ Project(v) = NextState(Project(rs), r)
  BY JournalAppend
<1>3. Project(v).shown[t] = Project(rs).shown[t]
  BY <1>2, SilentShown
<1> HIDE DEF v
<1>4. Quiet(r, t) /\ Fits(r, t, n)
  BY DEF Silent, Quiet, Fits, Ends
<1>5. Fresh(rs, t) => Fresh(v, t)
  BY <1>1, <1>4 DEF Fresh
<1>6. Ended(v, t) => Ended(rs, t)
  <2>1. ~ Ends(r, t)
    BY DEF Silent
  <2> QED
    BY <1>1, <2>1, EndedIs
<1>7. Done(rs, t, n) => Done(v, t, n)
  BY <1>1, <1>3, <1>4 DEF Done
<1> QED
  BY <1>5, <1>6, <1>7 DEF v

\* The record that ends a turn shows what was streamed.
LEMMA EndAppend ==
    ASSUME NEW rs \in Seq(Record \cup {Torn}), Readable(rs), NEW t \in Turn, NEW n \in Nat,
           NEW r \in {Response(t, n, n), Stopped(t, n)}, Fresh(rs, t)
    PROVE  Done(Append(rs, r), t, n)
<1> DEFINE v == Append(rs, r)
<1>0. r \in Record /\ r.turn = t /\ r.kept = n /\ r.type \in {"model.response", "run.stopped"}
      /\ (r.type = "model.response" => r.text = n)
  <2>1. r \in Record
    BY TurnRecords, StoppedRecords
  <2> QED
    BY <2>1 DEF Response, Stopped
<1>1. Range(v) = Range(rs) \cup {r}
  BY <1>0, JournalRange
<1>2. Project(rs) \in State /\ Project(v) = NextState(Project(rs), r)
  BY <1>0, JournalAppend
<1>3. Stepped(Project(rs), r, Project(v))
  BY <1>0, <1>2, NextStateIs
<1>4. Project(v).shown[t] = NextShown(Project(rs), r, t)
  BY <1>3 DEF Stepped
<1>5. Project(v).shown[t] = n
  BY <1>0, <1>4 DEF NextShown
<1> HIDE DEF v
<1>6. Fits(r, t, n)
  BY <1>0 DEF Fits, Delta
<1>7. \A x \in Range(rs) : Fits(x, t, n)
  BY DEF Fresh, Quiet, Fits, Ends
<1> QED
  BY <1>1, <1>5, <1>6, <1>7 DEF Done, v

\* An operation or a step that leaves journal, reducer and texts alone.
LEMMA TextSame ==
    ASSUME TextInv, UNCHANGED <<journal, reducer, turns, streamed>>,
           flight' = flight \/ flight' = <<>>, turn' = turn \/ turn' = 0
    PROVE  TextInv'
<1>1. Range(flight') \subseteq Range(flight)
  BY RangeOfTwo
<1>2. OpenTurn'
  BY <1>1 DEF TextInv, OpenTurn
<1>3. Texts'
  BY DEF TextInv, Texts, TextOf
<1> QED
  BY <1>2, <1>3 DEF TextInv

\* No end of a run is published while a turn streams.
LEMMA CloseIdle ==
    ASSUME TypeOK, OutShape, out # <<>>, Closes(Head(out))
    PROVE  turn = 0 /\ Head(out) = Stopped(0, 0)
<1>1. Head(out) \in Outgoing
  BY HeadOut
<1>2. Head(out) = Stopped(0, 0)
  BY <1>1 DEF Outgoing, IdRecord, IdTypes, Closes
<1>3. ~ Accepting
  <2> SUFFICES ASSUME Accepting PROVE FALSE
    OBVIOUS
  <2>1. PICK m \in Message : out = <<Appended(m), Queued(m)>> \/ out = <<Queued(m)>>
    BY DEF Accepting
  <2>2. Head(out) = Appended(m) \/ Head(out) = Queued(m)
    BY <2>1, HeadTail
  <2> QED
    BY <1>2, <2>2 DEF Stopped, Appended, Queued
<1> QED
  BY <1>2, <1>3 DEF OutShape

\* A published end closes the turn the reducer has.
LEMMA OpenClosed ==
    ASSUME TypeOK, OutShape, OpenTurn, out # <<>>, UNCHANGED <<turn, turns, streamed, flight>>,
           reducer' = IF Closes(Head(out)) THEN NoTurn ELSE reducer
    PROVE  OpenTurn'
<1>1. CASE Closes(Head(out))
  <2>1. turn = 0 /\ reducer' = NoTurn /\ reducer'.turn = 0
    BY <1>1, CloseIdle DEF NoTurn
  <2> QED
    BY <2>1 DEF OpenTurn
<1>2. CASE ~ Closes(Head(out))
  BY <1>2 DEF OpenTurn
<1> QED
  BY <1>1, <1>2

\* Publishing keeps completed texts: the end of a run carries what its turn streamed.
LEMMA PublishText ==
    ASSUME TypeOK, OutShape, TextInv, Publish
    PROVE  TextInv'
<1> DEFINE h == Head(out)
           r == Prepared(h)
<1>0. /\ out # <<>> /\ UNCHANGED <<turn, turns, streamed, flight>>
      /\ reducer' = IF Closes(h) THEN NoTurn ELSE reducer
      /\ journal' = Append(journal, r) \/ journal' = journal
  BY DEF Publish
<1>1. OpenTurn'
  BY <1>0, OpenClosed DEF TextInv
<1>2. h \in Outgoing /\ r \in Record /\ journal \in Seq(Record \cup {Torn})
  BY <1>0, HeadOut, PreparedRecord DEF TypeOK
<1>3. ASSUME Readable(journal'), NEW t \in Turn PROVE TextOf(journal, t)'
  <2>0. reducer'.turn = reducer.turn \/ reducer'.turn = 0
    BY <1>0 DEF NoTurn
  <2>1. t # 0
    BY Bounds
  <2>2. CASE journal' = journal
    <3>1. TextOf(journal, t)
      BY <1>3, <2>2 DEF TextInv, Texts
    <3> QED
      BY <1>0, <2>0, <2>1, <2>2, <3>1 DEF TextOf
  <2>3. CASE journal' = Append(journal, r)
    <3>1. Readable(journal)
      BY <1>2, <1>3, <2>3, JournalAppend
    <3>2. TextOf(journal, t)
      BY <1>3, <3>1 DEF TextInv, Texts
    <3>3. CASE Closes(h) /\ reducer.turn = t
      <4> DEFINE n == streamed[t]
      <4>1. h = Stopped(0, 0)
        BY <1>0, <3>3, CloseIdle
      <4>2. reducer.text = n /\ n \in Nat
        BY <2>1, <3>3 DEF TextInv, OpenTurn, TypeOK
      <4>3. r = Stopped(t, n)
        BY <3>3, <4>1, <4>2 DEF Prepared, Stopped
      <4>4. Fresh(journal, t)
        BY <3>2, <3>3 DEF TextOf
      <4> HIDE DEF n
      <4>5. Done(journal', t, n)
        BY <1>2, <2>3, <3>1, <4>2, <4>3, <4>4, EndAppend
      <4>6. ~ (t > turns) /\ t # reducer'.turn
        BY <1>0, <2>1, <3>3, Bounds DEF TextInv, OpenTurn, NoTurn, TypeOK
      <4> QED
        BY <1>0, <4>5, <4>6 DEF TextOf, n
    <3>4. CASE ~ (Closes(h) /\ reducer.turn = t)
      <4>1. Silent(r, t)
        <5>1. CASE h \in IdRecord
          BY <5>1 DEF Prepared, IdRecord, IdTypes, Silent, Ends, Delta
        <5>2. CASE h = Stopped(0, 0)
          <6>1. Closes(h) /\ r = Stopped(reducer.turn, reducer.text)
            BY <5>2 DEF Closes, Stopped, Prepared
          <6> HIDE DEF r
          <6> QED
            BY <3>4, <6>1 DEF Stopped, Silent, Ends, Delta
        <5> QED
          BY <1>2, <5>1, <5>2 DEF Outgoing
      <4> HIDE DEF r
      <4>2. /\ Fresh(journal, t) => Fresh(journal', t)
            /\ Ended(journal', t) => Ended(journal, t)
            /\ Done(journal, t, streamed[t]) => Done(journal', t, streamed[t])
        BY <1>2, <2>3, <3>1, <4>1, SilentAppend
      <4> QED
        BY <1>0, <2>0, <2>1, <3>2, <4>2 DEF TextOf
    <3> QED
      BY <3>3, <3>4
  <2> QED
    BY <1>0, <2>2, <2>3
<1> QED
  BY <1>1, <1>3 DEF TextInv, Texts

\* After a short write the journal is unreadable, and nothing is claimed of it.
LEMMA ShortWriteText ==
    ASSUME TypeOK, OutShape, TextInv, ShortWrite
    PROVE  TextInv'
<1>1. OpenTurn'
  BY OpenClosed DEF TextInv, ShortWrite
<1>2. ~ Readable(journal')
  BY TornAppend DEF ShortWrite, TypeOK
<1> QED
  BY <1>1, <1>2 DEF TextInv, Texts

\* A request opens a turn no record tells of.
LEMMA SendRequestText ==
    ASSUME TypeOK, TextInv, SendRequest
    PROVE  TextInv'
<1> DEFINE u == turns'
<1>0. /\ u = turns + 1 /\ turn' = u /\ journal' = Append(journal, Request(u))
      /\ reducer' = [turn |-> u, text |-> 0] /\ UNCHANGED <<flight, streamed>>
      /\ turns \in Nat /\ u \in Turn
  BY Bounds DEF SendRequest, TypeOK
<1>1. Request(u) \in Record /\ journal \in Seq(Record \cup {Torn})
  BY <1>0, TurnRecords DEF TypeOK
<1>2. \A t \in Turn : t \in Nat
  BY Bounds
<1> HIDE DEF u
<1>3. OpenTurn'
  <2>1. streamed[u] = 0
    BY <1>0 DEF TextInv, OpenTurn
  <2>2. reducer'.turn = u /\ reducer'.text = 0 /\ turns' = u
    BY <1>0 DEF u
  <2>3. \A t \in Turn : t > u => t > turns
    BY <1>0, <1>2
  <2>4. \A t \in Turn : t <= turns => t <= u
    BY <1>0, <1>2
  <2>5. u <= u
    BY <1>0
  <2>6. (turn' # 0 => reducer'.turn = turn')
        /\ (reducer'.turn # 0 => reducer'.text = streamed'[reducer'.turn] /\ reducer'.turn <= turns')
    BY <1>0, <2>1, <2>2, <2>5
  <2>7. \A t \in Turn : t > turns' => streamed'[t] = 0
    BY <1>0, <2>2, <2>3 DEF TextInv, OpenTurn
  <2>8. \A t \in Turn : Delta(t) \in Range(flight') => t <= turns'
    BY <1>0, <2>2, <2>4 DEF TextInv, OpenTurn
  <2> QED
    BY <2>6, <2>7, <2>8 DEF OpenTurn
<1>4. ASSUME Readable(journal'), NEW t \in Turn PROVE TextOf(journal, t)'
  <2>1. Readable(journal)
    BY <1>0, <1>1, <1>4, JournalAppend
  <2>2. TextOf(journal, t)
    BY <1>4, <2>1 DEF TextInv, Texts
  <2>3. Silent(Request(u), t)
    BY DEF Silent, Request, Ends, Delta
  <2>4. /\ Fresh(journal, t) => Fresh(journal', t)
        /\ Ended(journal', t) => Ended(journal, t)
        /\ Done(journal, t, streamed[t]) => Done(journal', t, streamed[t])
    BY <1>0, <1>1, <2>1, <2>3, SilentAppend
  <2>5. t > turns' \/ t = reducer'.turn => t > turns
    BY <1>0, <1>2 DEF u
  <2> QED
    BY <1>0, <2>2, <2>4, <2>5 DEF TextOf
<1> QED
  BY <1>3, <1>4 DEF TextInv, Texts

\* A delta grows the text of the open turn only.
LEMMA ReceiveDeltaText ==
    ASSUME TypeOK, TextInv, ReceiveDelta
    PROVE  TextInv'
<1>0. /\ turn # 0 /\ turn \in Turn /\ reducer.turn = turn /\ reducer.text = streamed[turn]
      /\ turn <= turns /\ streamed \in [Turn -> Nat] /\ flight \in Seq(Deltas)
      /\ turns \in Nat
  BY Bounds DEF ReceiveDelta, TextInv, OpenTurn, TypeOK
<1>1. /\ flight' = Append(flight, Delta(turn)) /\ streamed' = [streamed EXCEPT ![turn] = @ + 1]
      /\ reducer' = [reducer EXCEPT !.text = @ + 1] /\ UNCHANGED <<journal, turn, turns>>
  BY DEF ReceiveDelta
<1>2. /\ reducer'.turn = turn /\ reducer'.text = streamed[turn] + 1
      /\ streamed'[turn] = streamed[turn] + 1
      /\ \A t \in Turn : t # turn => streamed'[t] = streamed[t]
  <2>1. reducer \in [turn : Turn \cup {0}, text : Nat]
    BY DEF TypeOK
  <2> QED
    BY <1>0, <1>1, <2>1
<1>3. Range(flight') = Range(flight) \cup {Delta(turn)}
  BY <1>0, <1>1, RangeAppend DEF Deltas
<1>4. \A t \in Turn : t \in Nat
  BY Bounds
<1>5. OpenTurn'
  <2>1. \A t \in Turn : Delta(t) = Delta(turn) => t = turn
    BY DEF Delta
  <2>2. \A t \in Turn : Delta(t) \in Range(flight') => t <= turns'
    BY <1>0, <1>1, <1>3, <2>1 DEF TextInv, OpenTurn
  <2>3. \A t \in Turn : t > turns' => streamed'[t] = 0
    BY <1>0, <1>1, <1>2, <1>4 DEF TextInv, OpenTurn
  <2>4. reducer'.text = streamed'[reducer'.turn] /\ reducer'.turn <= turns' /\ reducer'.turn = turn'
    BY <1>0, <1>1, <1>2
  <2> QED
    BY <2>2, <2>3, <2>4 DEF OpenTurn
<1>6. ASSUME Readable(journal), NEW t \in Turn PROVE TextOf(journal, t)'
  <2>1. TextOf(journal, t)
    BY <1>6 DEF TextInv, Texts
  <2>2. CASE t # turn
    <3>1. streamed'[t] = streamed[t]
      BY <1>2, <2>2
    <3> QED
      BY <1>0, <1>1, <1>2, <2>1, <3>1 DEF TextOf
  <2>3. CASE t = turn
    <3>1. Fresh(journal, t)
      BY <1>0, <2>1, <2>3 DEF TextOf
    <3>2. ~ Ended(journal, t)
      BY <3>1, EndedIs DEF Fresh, Quiet
    <3> QED
      BY <1>1, <3>1, <3>2 DEF TextOf
  <2> QED
    BY <2>2, <2>3
<1> QED
  BY <1>1, <1>5, <1>6 DEF TextInv, Texts

\* A response completes the open turn.
LEMMA ReceiveResponseText ==
    ASSUME TypeOK, TextInv, ReceiveResponse
    PROVE  TextInv'
<1> DEFINE n == streamed[turn]
           r == Response(turn, n, n)
<1>0. /\ turn # 0 /\ turn \in Turn /\ reducer.turn = turn /\ reducer.text = n
      /\ turn <= turns /\ n \in Nat /\ journal \in Seq(Record \cup {Torn}) /\ turns \in Nat
  BY Bounds DEF ReceiveResponse, TextInv, OpenTurn, TypeOK
<1>1. /\ journal' = Append(journal, r) /\ reducer' = NoTurn /\ turn' = 0 /\ reducer'.turn = 0
      /\ UNCHANGED <<flight, turns, streamed>>
  BY <1>0 DEF ReceiveResponse, auditVars, NoTurn
<1>2. OpenTurn'
  BY <1>1 DEF TextInv, OpenTurn
<1>3. r \in Record
  BY <1>0, TurnRecords
<1>4. ASSUME Readable(journal'), NEW t \in Turn PROVE TextOf(journal, t)'
  <2>1. Readable(journal)
    BY <1>0, <1>1, <1>3, <1>4, JournalAppend
  <2>2. TextOf(journal, t)
    BY <1>4, <2>1 DEF TextInv, Texts
  <2>3. t # 0
    BY Bounds
  <2>4. CASE t = turn
    <3>1. Fresh(journal, turn)
      BY <1>0, <2>2, <2>4 DEF TextOf
    <3> HIDE DEF n
    <3>2. Done(journal', turn, n)
      BY <1>0, <1>1, <2>1, <3>1, EndAppend
    <3>3. ~ (t > turns)
      BY <1>0, <2>4, Bounds
    <3> QED
      BY <1>1, <2>3, <2>4, <3>2, <3>3 DEF TextOf, n
  <2>5. CASE t # turn
    <3>1. Silent(r, t)
      BY <2>5 DEF Silent, Response, Ends, Delta
    <3> HIDE DEF r
    <3>2. /\ Fresh(journal, t) => Fresh(journal', t)
          /\ Ended(journal', t) => Ended(journal, t)
          /\ Done(journal, t, streamed[t]) => Done(journal', t, streamed[t])
      BY <1>0, <1>1, <1>3, <2>1, <3>1, SilentAppend
    <3> QED
      BY <1>1, <2>2, <2>3, <3>2 DEF TextOf
  <2> QED
    BY <2>4, <2>5
<1> QED
  BY <1>2, <1>4 DEF TextInv, Texts

-----------------------------------------------------------------------------
(* Starting. *)

\* A record of the merged journal is one of the journal, at its place, or a
\* delta of the flight file.
LEMMA MergedHas ==
    ASSUME NEW a \in Seq(Record), NEW f \in Seq(Deltas), NEW i \in 1 .. Len(a \o f)
    PROVE  \/ /\ (a \o f)[i] \in Range(a) /\ i \in 1 .. Len(a)
              /\ \A j \in 1 .. i : (a \o f)[j] = a[j]
           \/ (a \o f)[i] \in Range(f) /\ (a \o f)[i].type = "model.delta"
<1> DEFINE m == a \o f
<1>1. Len(a) \in Nat /\ Len(f) \in Nat /\ Len(m) = Len(a) + Len(f)
      /\ DOMAIN a = 1 .. Len(a) /\ DOMAIN f = 1 .. Len(f)
      /\ (\A j \in 1 .. Len(a) : m[j] = a[j])
      /\ (\A j \in 1 .. Len(m) : j > Len(a) => m[j] = f[j - Len(a)])
  OBVIOUS
<1>2. i \in 1 .. Len(m)
  OBVIOUS
<1> HIDE DEF m
<1>3. CASE i \in 1 .. Len(a)
  <2>1. m[i] = a[i] /\ \A j \in 1 .. i : m[j] = a[j]
    BY <1>1, <1>3
  <2>2. a[i] \in Range(a)
    BY <1>1, <1>3 DEF Range
  <2> QED
    BY <1>3, <2>1, <2>2 DEF m
<1>4. CASE i \notin 1 .. Len(a)
  <2>1. i - Len(a) \in 1 .. Len(f) /\ m[i] = f[i - Len(a)]
    BY <1>1, <1>2, <1>4
  <2> DEFINE k == i - Len(a)
  <2> HIDE DEF k
  <2>2. k \in DOMAIN f /\ m[i] = f[k]
    BY <1>1, <2>1 DEF k
  <2>3. f[k] \in Range(f) /\ f[k] \in Deltas
    BY <2>2 DEF Range
  <2>4. f[k].type = "model.delta"
    BY <2>3 DEF Deltas, Delta
  <2> QED
    BY <2>2, <2>3, <2>4 DEF m
<1> QED
  BY <1>3, <1>4

\* A record of the slimmed journal was prepared again, and is no delta of an ended turn.
LEMMA SlimmedHas ==
    ASSUME NEW m \in Seq(Record), NEW r \in Range(Slimmed(m))
    PROVE  /\ \E i \in 1 .. Len(m) : RepreparedAs(m, i, r)
           /\ \A t \in Turn : Ended(m, t) => r # Delta(t)
<1> DEFINE p == Reprepared(m)
           D == {Delta(t) : t \in {u \in Turn : Ended(m, u)}}
<1>1. p \in Seq(Record) /\ Len(p) = Len(m) /\ \A i \in 1 .. Len(m) : RepreparedAs(m, i, p[i])
  BY RepreparedIs
<1> HIDE DEF p
<1>2. Range(Without(p, D)) = Range(p) \ D
  BY <1>1, WithoutRange
<1>3. r \in Range(p) /\ r \notin D
  BY <1>2 DEF Slimmed, p
<1>4. PICK i \in DOMAIN p : r = p[i]
  BY <1>3 DEF Range
<1>5. i \in 1 .. Len(m)
  BY <1>1
<1> QED
  BY <1>1, <1>3, <1>4, <1>5

\* A record prepared again ends the turn it ended.
LEMMA RepreparedEnds ==
    ASSUME NEW m, NEW i, NEW r, RepreparedAs(m, i, r), NEW t, Ends(r, t)
    PROVE  Ends(m[i], t)
BY DEF RepreparedAs, Ends

\* Slimming ends no turn,
LEMMA SlimmedEnded ==
    ASSUME NEW a \in Seq(Record), NEW f \in Seq(Deltas), a \o f \in Seq(Record), NEW t \in Turn,
           Ended(Slimmed(a \o f), t)
    PROVE  Ended(a, t)
<1> DEFINE m == a \o f
<1>1. PICK r \in Range(Slimmed(m)) : Ends(r, t)
  BY EndedIs
<1>2. PICK i \in 1 .. Len(m) : RepreparedAs(m, i, r)
  BY <1>1, SlimmedHas
<1>3. Ends(m[i], t)
  BY <1>1, <1>2, RepreparedEnds
<1>4. m[i].type # "model.delta"
  BY <1>3 DEF Ends
<1>5. m[i] \in Range(a)
  BY <1>2, <1>4, MergedHas
<1> QED
  BY <1>3, <1>5, EndedIs

\* tells of no turn the journal did not tell of,
LEMMA SlimmedFresh ==
    ASSUME NEW a \in Seq(Record), NEW f \in Seq(Deltas), a \o f \in Seq(Record), NEW t \in Turn,
           Fresh(a, t), Delta(t) \notin Range(f)
    PROVE  Fresh(Slimmed(a \o f), t)
<1> DEFINE m == a \o f
<1> SUFFICES ASSUME NEW r \in Range(Slimmed(m)) PROVE Quiet(r, t)
  BY DEF Fresh
<1>1. PICK i \in 1 .. Len(m) : RepreparedAs(m, i, r)
  BY SlimmedHas
<1>2. Quiet(m[i], t)
  <2>1. CASE m[i] \in Range(a)
    BY <2>1 DEF Fresh
  <2>2. CASE m[i] \in Range(f) /\ m[i].type = "model.delta"
    BY <2>2 DEF Quiet, Ends
  <2> QED
    BY <1>1, <2>1, <2>2, MergedHas
<1> HIDE DEF m
<1>3. ~ Ends(r, t)
  BY <1>1, <1>2, RepreparedEnds DEF Quiet
<1>4. CASE r = m[i]
  BY <1>2, <1>4
<1>5. CASE r # m[i]
  <2>1. r.type \in {"model.response", "run.stopped"}
    BY <1>1, <1>5 DEF RepreparedAs
  <2> QED
    BY <1>3, <2>1 DEF Quiet, Delta
<1> QED
  BY <1>4, <1>5

\* and shows no more of an ended turn than was streamed.
LEMMA SlimmedShows ==
    ASSUME NEW a \in Seq(Record), NEW f \in Seq(Deltas), a \o f \in Seq(Record), NEW t \in Turn,
           NEW n \in Nat, Ended(a, t), \A r \in Range(a) : Fits(r, t, n)
    PROVE  \A r \in Range(Slimmed(a \o f)) : Shows(r, t, n)
<1> DEFINE m == a \o f
<1> SUFFICES ASSUME NEW r \in Range(Slimmed(m)) PROVE Shows(r, t, n)
  OBVIOUS
<1>0. Ended(m, t)
  <2>1. Range(m) = Range(a) \cup Range(f)
    <3>1. f \in Seq(Record)
      BY TurnRecords DEF Deltas
    <3> QED
      BY <3>1, RangeConcat
  <2> QED
    BY <2>1, EndedIs
<1>1. PICK i \in 1 .. Len(m) : RepreparedAs(m, i, r)
  BY SlimmedHas
<1>2. r # Delta(t)
  BY <1>0, SlimmedHas
<1>3. \/ m[i] \in Range(a) /\ i \in 1 .. Len(a) /\ \A j \in 1 .. i : m[j] = a[j]
      \/ m[i].type = "model.delta"
  BY <1>1, MergedHas
<1>4. t # 0
  BY Bounds
<1> HIDE DEF m
<1>5. CASE r = m[i] /\ ~ (m[i].type \in {"model.response", "run.stopped"} /\ m[i].turn # 0)
  <2>1. ~ Ends(r, t)
    BY <1>4, <1>5 DEF Ends
  <2>2. Fits(r, t, n)
    <3>1. CASE m[i] \in Range(a)
      BY <1>5, <3>1
    <3>2. CASE m[i].type = "model.delta"
      BY <1>2, <1>5, <3>2 DEF Fits
    <3> QED
      BY <1>3, <3>1, <3>2
  <2> QED
    BY <2>1, <2>2 DEF Shows
<1>6. CASE /\ m[i].type \in {"model.response", "run.stopped"} /\ m[i].turn # 0
           /\ r.type = m[i].type /\ r.turn = m[i].turn
           /\ r.kept = Cardinality({j \in 1 .. i : m[j] = Delta(m[i].turn)})
           /\ m[i].type = "model.response" => r.text = m[i].text
  <2>1. m[i] \in Range(a) /\ i \in 1 .. Len(a) /\ \A j \in 1 .. i : m[j] = a[j]
    BY <1>3, <1>6
  <2>2. Fits(m[i], t, n)
    BY <2>1
  <2>3. Fits(r, t, n)
    BY <1>2, <1>6, <2>2 DEF Fits
  <2>4. ASSUME Ends(r, t) PROVE r.kept <= n
    <3>1. m[i].turn = t
      BY <1>6, <2>4 DEF Ends
    <3>2. \A j \in 1 .. i : m[j] # Delta(t)
      <4> SUFFICES ASSUME NEW j \in 1 .. i PROVE m[j] # Delta(t)
        OBVIOUS
      <4>1. m[j] = a[j] /\ j \in DOMAIN a
        BY <2>1
      <4>2. a[j] \in Range(a)
        BY <4>1 DEF Range
      <4> QED
        BY <4>1, <4>2 DEF Fits
    <3>3. {j \in 1 .. i : m[j] = Delta(m[i].turn)} = {}
      BY <3>1, <3>2
    <3>4. r.kept = 0
      BY <1>6, <3>3, FS_EmptySet
    <3> QED
      BY <3>4
  <2> QED
    BY <2>3, <2>4 DEF Shows
<1> QED
  BY <1>1, <1>5, <1>6 DEF RepreparedAs

\* A journal that is written anew shows what it showed: had the flight file
\* deltas of an ended turn, the two would not be projected alike.
LEMMA SlimmedDone ==
    ASSUME NEW a \in Seq(Record), NEW f \in Seq(Deltas), a \o f \in Seq(Record), f \in Seq(Record),
           NEW t \in Turn, NEW n \in Nat, Ended(a, t), Done(a, t, n),
           Project(Slimmed(a \o f)) = Project(a \o f)
    PROVE  Done(Slimmed(a \o f), t, n)
<1> DEFINE m == a \o f
           v == Slimmed(m)
<1>1. \A r \in Range(v) : Shows(r, t, n)
  BY SlimmedShows DEF Done
<1>2. v \in Seq(Record)
  BY SlimmedType
<1>3. Project(a) \in State /\ Project(v) \in State
  BY <1>2, EmptyType, ProjectType DEF Project
<1>4. Project(m) = ProjectFrom(Project(a), f)
  BY EmptyType, ProjectConcat, Zenon DEF Project
<1>5. Project(v).shown[t] >= Project(a).shown[t]
  BY <1>3, <1>4, DeltasShow
<1> HIDE DEF v
<1>6. Project(v).shown[t] <= n
  BY <1>1, <1>2, ShownBound
<1>7. Project(v).shown[t] \in Nat /\ Project(a).shown[t] = n
  BY <1>3 DEF State, Done
<1>8. Project(v).shown[t] = n
  BY <1>5, <1>6, <1>7
<1>9. Done(v, t, n)
  BY <1>1, <1>8 DEF Shows, Done
<1> QED
  BY <1>9 DEF v

\* Slim keeps completed texts.
LEMMA SlimText ==
    ASSUME TypeOK, Idle, TextInv, Slim
    PROVE  TextInv'
<1>0. /\ UNCHANGED <<flight, reducer, turns, streamed, turn>> /\ reducer.turn = 0
  BY DEF Slim, Idle, NoTurn, memoryVars, auditVars
<1>1. CASE phase' # "slimmed"
  <2>1. journal' = journal
    BY <1>1 DEF Slim
  <2> QED
    BY <1>0, <2>1, TextSame
<1>2. CASE phase' = "slimmed"
  <2> DEFINE m == journal \o flight
  <2>1. Readable(journal) /\ journal' = Slimmed(m) /\ Project(Slimmed(m)) = Project(m)
    BY <1>2 DEF Slim
  <2>2. /\ journal \in Seq(Record) /\ flight \in Seq(Record) /\ m \in Seq(Record)
        /\ flight \in Seq(Deltas)
    BY <2>1, MergedType DEF TypeOK
  <2>3. ASSUME NEW t \in Turn PROVE TextOf(journal, t)'
    <3>1. TextOf(journal, t)
      BY <2>1 DEF TextInv, Texts
    <3>2. ASSUME t > turns \/ t = reducer.turn PROVE Fresh(journal', t)
      <4>1. t > turns /\ t \in Nat /\ turns \in Nat
        BY <1>0, <3>2, Bounds DEF TypeOK
      <4>2. Delta(t) \notin Range(flight)
        BY <4>1 DEF TextInv, OpenTurn
      <4>3. Fresh(journal, t)
        BY <3>1, <3>2 DEF TextOf
      <4> QED
        BY <2>1, <2>2, <4>2, <4>3, SlimmedFresh
    <3>3. ASSUME Ended(journal', t) PROVE Done(journal', t, streamed[t])
      <4> DEFINE n == streamed[t]
      <4>1. Ended(journal, t)
        BY <2>1, <2>2, <3>3, SlimmedEnded
      <4>2. Done(journal, t, n) /\ n \in Nat
        BY <3>1, <4>1 DEF TextOf, TypeOK
      <4> HIDE DEF n
      <4>3. Done(journal', t, n)
        BY <2>1, <2>2, <4>1, <4>2, SlimmedDone
      <4> QED
        BY <4>3 DEF n
    <3> QED
      BY <1>0, <3>2, <3>3 DEF TextOf
  <2>4. OpenTurn'
    BY <1>0 DEF TextInv, OpenTurn
  <2> QED
    BY <2>3, <2>4 DEF TextInv, Texts
<1> QED
  BY <1>1, <1>2

\* A turn no record tells of is shown as empty.
LEMMA FreshShown ==
    ASSUME NEW rs \in Seq(Record), NEW t \in Turn, Fresh(rs, t)
    PROVE  Project(rs).shown[t] = 0
<1>1. \A r \in Range(rs) : Shows(r, t, 0)
  BY DEF Fresh, Quiet, Shows, Fits, Ends
<1>2. Project(rs).shown[t] <= 0
  BY <1>1, ShownBound
<1>3. Project(rs) \in State
  BY EmptyType, ProjectType DEF Project
<1>4. Project(rs).shown[t] \in Nat
  BY <1>3 DEF State
<1> QED
  BY <1>2, <1>4

\* The announced state shows the completed texts and no others.
LEMMA RestoreText ==
    ASSUME TypeOK, ImageTrue, TextInv, Restore
    PROVE  TextInv'
<1> DEFINE s == Project(journal)
           c == Closed(s)
           r == Created(c)
<1>0. UNCHANGED <<flight, reducer, turns, streamed, turn>>
  BY DEF Restore, auditVars
<1>1. /\ Readable(journal) /\ s \in State /\ Project(journal') = c
  BY RestoreProject
<1>2. journal' = Append(journal, r) /\ journal \in Seq(Record \cup {Torn}) /\ journal \in Seq(Record)
  BY <1>1, ReadableIs DEF Restore, ImageTrue, TypeOK
<1>3. c \in State /\ c.shown = s.shown /\ r \in Record
  BY <1>1, ClosedType, CreatedRecords
<1>4. Range(journal') = Range(journal) \cup {r}
  BY <1>2, <1>3, JournalRange
<1>5. r.type = "session.created" /\ r.session = c
  BY DEF Created
<1> HIDE DEF r, c, s
<1>6. ASSUME NEW t \in Turn PROVE TextOf(journal, t)'
  <2>1. TextOf(journal, t)
    BY <1>1 DEF TextInv, Texts
  <2>2. ASSUME Fresh(journal, t) PROVE Fresh(journal', t)
    <3>1. s.shown[t] = 0
      BY <1>2, <2>2, FreshShown DEF s
    <3>2. Quiet(r, t)
      BY <1>3, <1>5, <3>1 DEF Quiet, Ends, Delta
    <3> QED
      BY <1>4, <2>2, <3>2 DEF Fresh
  <2>3. ASSUME Ended(journal', t) PROVE Done(journal', t, streamed[t])
    <3>1. ~ Ends(r, t)
      BY <1>5 DEF Ends
    <3>2. Ended(journal, t)
      BY <1>4, <2>3, <3>1, EndedIs
    <3>3. Done(journal, t, streamed[t])
      BY <2>1, <3>2 DEF TextOf
    <3>4. s.shown[t] = streamed[t] /\ streamed[t] \in Nat
      BY <3>3 DEF Done, s, TypeOK
    <3>5. Fits(r, t, streamed[t])
      BY <1>3, <1>5, <3>4 DEF Fits, Delta
    <3> QED
      BY <1>1, <1>3, <1>4, <3>3, <3>4, <3>5 DEF Done
  <2> QED
    BY <1>0, <2>1, <2>2, <2>3 DEF TextOf
<1>7. OpenTurn'
  BY <1>0 DEF TextInv, OpenTurn
<1> QED
  BY <1>6, <1>7 DEF TextInv, Texts

\* A crash changes no file.
LEMMA CrashText ==
    ASSUME TextInv, Crash
    PROVE  TextInv'
<1>1. UNCHANGED <<journal, flight, turns, streamed>> /\ turn' = 0 /\ reducer'.turn = 0
  BY DEF Crash, NoTurn
<1>2. OpenTurn'
  BY <1>1 DEF TextInv, OpenTurn
<1>3. \A t \in Turn : t # 0
  BY Bounds
<1>4. Texts'
  BY <1>1, <1>3 DEF TextInv, Texts, TextOf
<1> QED
  BY <1>2, <1>4 DEF TextInv

\* The invariant of texts is inductive.
LEMMA TextNext == ChatInv /\ TextInv /\ [Next]_vars => TextInv'
<1> SUFFICES ASSUME ChatInv, TextInv, [Next]_vars PROVE TextInv'
  OBVIOUS
<1> USE DEF ChatInv
<1>1. CASE Submit \/ TakeQueued \/ Finish \/ Stop \/ ClosePending \/ DropFlight \/ Load
           \/ UNCHANGED vars
  <2>1. /\ UNCHANGED <<journal, reducer, turns, streamed>>
        /\ flight' = flight \/ flight' = <<>>
        /\ turn' = turn \/ turn' = 0
    BY <1>1 DEF Submit, TakeQueued, Finish, Stop, ClosePending, DropFlight, Load,
                diskVars, memoryVars, auditVars, vars
  <2> QED
    BY <2>1, TextSame
<1>2. CASE Publish
  BY <1>2, PublishText
<1>3. CASE ShortWrite
  BY <1>3, ShortWriteText
<1>4. CASE SendRequest
  BY <1>4, SendRequestText
<1>5. CASE ReceiveDelta
  BY <1>5, ReceiveDeltaText
<1>6. CASE ReceiveResponse
  BY <1>6, ReceiveResponseText
<1>7. CASE Crash
  BY <1>7, CrashText
<1>8. CASE Slim
  BY <1>8, SlimText
<1>9. CASE Restore
  BY <1>9, RestoreText
<1> QED
  BY <1>1, <1>2, <1>3, <1>4, <1>5, <1>6, <1>7, <1>8, <1>9 DEF Next

\* The journal alone shows the whole text of every turn whose end was recorded, whatever
\* flight files were merged and whenever the process died between writing the end, dropping
\* the flight file and rewriting the journal.
THEOREM TextIsKept == Spec => []CompletedTextKept
<1>1. Init => TextInv
  BY TextInit
<1>2. TextInv => CompletedTextKept
  BY TextsKept DEF TextInv
<1>3. ChatInv /\ TextInv /\ [Next]_vars => TextInv'
  BY TextNext
<1> QED
  BY <1>1, <1>2, <1>3, ChatAlways, PTL DEF Spec
=============================================================================
