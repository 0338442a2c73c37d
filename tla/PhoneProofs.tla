---------------------------- MODULE PhoneProofs ----------------------------
(***************************************************************************)
(* What is proved of the phone transport, for every set of messages, every *)
(* limit and every bound of Phone: the answer to an executed request is    *)
(* never dropped, and a request is executed once for as long as no more    *)
(* requests were executed than the agent remembers answers.                *)
(*                                                                         *)
(* Both rest on what the frames on the wires towards the agent say: an ACK *)
(* that comes from the phone is about a message its application has, and a *)
(* CIPHERTEXT that comes from the phone is about a request.                *)
(***************************************************************************)
EXTENDS Phone, FiniteSetTheorems, TLAPS

-----------------------------------------------------------------------------
(* Sequences, by what they hold.                                           *)

IsSeq(s) == s \in Seq(ToSet(s))

\* A sequence over any set is one over what it holds.
LEMMA SeqIsSeq ==
    ASSUME NEW S, NEW s \in Seq(S)
    PROVE  IsSeq(s) /\ ToSet(s) = {s[i] : i \in 1..Len(s)} /\ ToSet(s) \subseteq S
<1>1. DOMAIN s = 1..Len(s) /\ Len(s) \in Nat
  OBVIOUS
<1>2. s = [i \in 1..Len(s) |-> s[i]]
  BY <1>1
<1>3. \A i \in 1..Len(s) : s[i] \in ToSet(s) /\ s[i] \in S
  BY <1>1 DEF ToSet
<1>4. [i \in 1..Len(s) |-> s[i]] \in Seq(ToSet(s))
  BY <1>1, <1>3
<1> QED
  BY <1>1, <1>2, <1>3, <1>4 DEF IsSeq, ToSet

\* A function on 1..n is a sequence.
LEMMA ListIsSeq ==
    ASSUME NEW n \in Nat, NEW s, s = [i \in 1..n |-> s[i]]
    PROVE  IsSeq(s) /\ Len(s) = n /\ ToSet(s) = {s[i] : i \in 1..n}
<1>1. s \in [1..n -> {s[i] : i \in 1..n}]
  OBVIOUS
<1>2. s \in Seq({s[i] : i \in 1..n}) /\ Len(s) = n
  BY <1>1
<1> QED
  BY <1>2, SeqIsSeq

\* The empty sequence and a sequence of one.
LEMMA ShortSeqs ==
    /\ IsSeq(<< >>) /\ ToSet(<< >>) = {}
    /\ \A x : IsSeq(<<x>>) /\ ToSet(<<x>>) = {x}
<1>1. DOMAIN << >> = {} /\ << >> \in Seq({})
  OBVIOUS
<1>2. ToSet(<< >>) = {} /\ IsSeq(<< >>)
  <2>1. ToSet(<< >>) = {}
    BY <1>1 DEF ToSet
  <2> QED
    BY <1>1, <2>1 DEF IsSeq
<1>3. ASSUME NEW x PROVE IsSeq(<<x>>) /\ ToSet(<<x>>) = {x}
  <2>1. DOMAIN <<x>> = {1} /\ <<x>>[1] = x
    OBVIOUS
  <2>2. ToSet(<<x>>) = {x}
    BY <2>1 DEF ToSet
  <2>3. <<x>> \in Seq({x})
    OBVIOUS
  <2> QED
    BY <2>2, <2>3 DEF IsSeq
<1> QED
  BY <1>2, <1>3

\* Two sequences joined hold what the two hold.
LEMMA JoinHolds ==
    ASSUME NEW s, NEW u, IsSeq(s), IsSeq(u)
    PROVE  IsSeq(s \o u) /\ ToSet(s \o u) = ToSet(s) \cup ToSet(u)
<1> DEFINE S == ToSet(s) \cup ToSet(u)
<1>1. ToSet(s) \subseteq S /\ ToSet(u) \subseteq S
  OBVIOUS
<1>2. s \in Seq(S) /\ u \in Seq(S)
  BY <1>1 DEF IsSeq
<1>3. /\ ToSet(s) = {s[i] : i \in 1..Len(s)} /\ ToSet(u) = {u[i] : i \in 1..Len(u)}
  BY SeqIsSeq DEF IsSeq
<1> HIDE DEF S
<1>4. /\ s \o u \in Seq(S) /\ Len(s \o u) = Len(s) + Len(u) /\ Len(s) \in Nat /\ Len(u) \in Nat
      /\ \A i \in 1..Len(s) : (s \o u)[i] = s[i]
      /\ \A i \in 1..Len(u) : (s \o u)[Len(s) + i] = u[i]
  BY <1>2
<1>5. IsSeq(s \o u) /\ ToSet(s \o u) = {(s \o u)[i] : i \in 1..Len(s \o u)} /\ ToSet(s \o u) \subseteq S
  BY <1>4, SeqIsSeq
<1>6. ToSet(s) \subseteq ToSet(s \o u)
  BY <1>3, <1>4, <1>5
<1>7. ToSet(u) \subseteq ToSet(s \o u)
  <2>1. ASSUME NEW i \in 1..Len(u) PROVE u[i] \in ToSet(s \o u)
    <3>1. Len(s) + i \in 1..Len(s \o u)
      BY <1>4
    <3> QED
      BY <1>4, <1>5, <3>1
  <2> QED
    BY <1>3, <2>1
<1> QED
  BY <1>5, <1>6, <1>7 DEF S

\* A sequence with one more at its end or at its front.
LEMMA GrowHolds ==
    ASSUME NEW s, NEW x, IsSeq(s)
    PROVE  /\ IsSeq(Append(s, x)) /\ ToSet(Append(s, x)) = ToSet(s) \cup {x}
           /\ IsSeq(<<x>> \o s) /\ ToSet(<<x>> \o s) = ToSet(s) \cup {x}
<1>1. IsSeq(<<x>>) /\ ToSet(<<x>>) = {x}
  BY ShortSeqs
<1>2. /\ IsSeq(s \o <<x>>) /\ ToSet(s \o <<x>>) = ToSet(s) \cup {x}
      /\ IsSeq(<<x>> \o s) /\ ToSet(<<x>> \o s) = ToSet(s) \cup {x}
  BY <1>1, JoinHolds
<1>3. s \in Seq(ToSet(s) \cup {x})
  BY DEF IsSeq
<1>4. Append(s, x) = s \o <<x>>
  BY <1>3
<1> QED
  BY <1>2, <1>4

\* The rest of a sequence.
LEMMA TailHolds ==
    ASSUME NEW s, IsSeq(s), s # << >>
    PROVE  IsSeq(Tail(s)) /\ ToSet(Tail(s)) \subseteq ToSet(s) /\ Head(s) \in ToSet(s)
<1>1. s \in Seq(ToSet(s)) /\ Tail(s) \in Seq(ToSet(s)) /\ Head(s) \in ToSet(s)
  BY DEF IsSeq
<1> QED
  BY <1>1, SeqIsSeq

\* A sequence without the one at place i.
LEMMA RemoveHolds ==
    ASSUME NEW s, IsSeq(s), NEW i \in 1..Len(s)
    PROVE  /\ IsSeq(RemoveAt(s, i))
           /\ ToSet(RemoveAt(s, i)) \subseteq ToSet(s)
           /\ ToSet(s) \subseteq ToSet(RemoveAt(s, i)) \cup {s[i]}
<1> DEFINE u == SubSeq(s, 1, i - 1)
           v == SubSeq(s, i + 1, Len(s))
<1>1. s \in Seq(ToSet(s)) /\ Len(s) \in Nat /\ ToSet(s) = {s[k] : k \in 1..Len(s)}
  BY SeqIsSeq DEF IsSeq
<1>2. /\ u \in Seq(ToSet(s)) /\ Len(u) = i - 1 /\ \A k \in 1..(i - 1) : u[k] = s[k]
  BY <1>1
<1>3. /\ v \in Seq(ToSet(s)) /\ Len(v) = Len(s) - i
      /\ \A k \in 1..(Len(s) - i) : v[k] = s[i + k]
  BY <1>1
<1>4. RemoveAt(s, i) = u \o v
  BY DEF RemoveAt
<1> HIDE DEF u, v
<1>5. /\ IsSeq(u) /\ ToSet(u) = {u[k] : k \in 1..Len(u)} /\ ToSet(u) \subseteq ToSet(s)
      /\ IsSeq(v) /\ ToSet(v) = {v[k] : k \in 1..Len(v)} /\ ToSet(v) \subseteq ToSet(s)
  BY <1>2, <1>3, SeqIsSeq
<1>6. IsSeq(u \o v) /\ ToSet(u \o v) = ToSet(u) \cup ToSet(v)
  BY <1>5, JoinHolds
<1>7. ASSUME NEW k \in 1..Len(s), k # i PROVE s[k] \in ToSet(u) \cup ToSet(v)
  <2>1. CASE k < i
    <3>1. k \in 1..Len(u) /\ u[k] = s[k]
      BY <1>1, <1>2, <2>1
    <3> QED
      BY <1>5, <3>1
  <2>2. CASE k > i
    <3>1. PICK m \in 1..(Len(s) - i) : i + m = k
      <4>1. k - i \in 1..(Len(s) - i) /\ i + (k - i) = k
        BY <1>1, <2>2
      <4> QED
        BY <4>1
    <3>2. v[m] = s[k] /\ m \in 1..Len(v)
      BY <1>3, <3>1
    <3> QED
      BY <1>5, <3>2
  <2> QED
    BY <1>1, <1>7, <2>1, <2>2
<1> QED
  BY <1>1, <1>4, <1>5, <1>6, <1>7

-----------------------------------------------------------------------------
(* The inductive invariant.                                                *)

\* One sequence for each end.
IsWires(w) == w = [e \in End |-> w[e]] /\ \A e \in End : IsSeq(w[e])

\* What comes from the phone: an ACK is about a message handed to its
\* application, a CIPHERTEXT about a request.
FromPhone(f, g) == (f.t = "ACK" => f.id \in g) /\ (f.t = "CIPHER" => f.id \in Request)

WiresHold ==
    /\ IsWires(out) /\ IsWires(in)
    /\ \A f \in ToSet(out[Device]) \cup ToSet(in[Agent]) : FromPhone(f, got)

\* What an end retains are deliveries, and the phone retains requests.
IsEntry(d) == d = [id |-> d.id, sess |-> d.sess, queued |-> d.queued]

KeptHolds ==
    /\ IsWires(kept)
    /\ \A e \in End : \A d \in ToSet(kept[e]) : IsEntry(d)
    /\ \A d \in ToSet(kept[Device]) : d.id \in Request

\* What the phone has begun to send are requests.
IsJob(j) ==
    /\ j = Job(j.link, j.sess, j.ids, j.waits)
    /\ IsSeq(j.ids) /\ ToSet(j.ids) \subseteq Request
    /\ ~j.waits => j.ids # << >>

JobsHold == jobs = [e \in End |-> jobs[e]] /\ \A j \in jobs[Device] : IsJob(j)

\* The requests the agent has executed.
Executed == {r \in Request : ran[r] > 0}

\* Until more were executed than are remembered, exactly those are remembered.
Remembers ==
    /\ IsFiniteSet(Executed) /\ IsSeq(handled)
    /\ Cardinality(Executed) <= HandledLimit =>
          /\ ExecutedOnce
          /\ ToSet(handled) = Executed /\ Len(handled) = Cardinality(Executed)

\* The parts that say what the wires and the lists hold.
Holding ==
    /\ WiresHold /\ KeptHolds /\ JobsHold
    /\ busy \in Request \cup {None} /\ ran \in [Request -> Nat]

PhoneInv == Holding /\ AnswerKept /\ Remembers

\* The two ends face each other.
LEMMA Ends == End = {Agent, Device} /\ Agent # Device /\ Other(Agent) = Device /\ Other(Device) = Agent
<1>1. End = {Agent, Device} /\ Agent # Device
  BY DEF End, Agent, Device
<1> HIDE DEF Agent, Device
<1> QED
  BY <1>1 DEF Other

\* v is w with s for end e.
Sets(v, w, e, s) == v = [w EXCEPT ![e] = s]

\* What a new value of one wire means for the two.
LEMMA SetWire ==
    ASSUME NEW w, NEW e \in End, NEW s, IsWires(w), IsSeq(s), NEW v, Sets(v, w, e, s)
    PROVE  IsWires(v) /\ v[e] = s /\ \A d \in End : d # e => v[d] = w[d]
  BY DEF IsWires, Sets

\* Putting a frame on a wire adds at most this frame to what the end's wire holds.
LEMMA PutAdds ==
    ASSUME NEW w, NEW e \in End, NEW l, NEW f, IsWires(w)
    PROVE  /\ IsWires(Put(w, e, l, f))
           /\ ToSet(Put(w, e, l, f)[e]) \subseteq ToSet(w[e]) \cup {f}
           /\ \A d \in End : d # e => Put(w, e, l, f)[d] = w[d]
<1>1. CASE ~(up[e] /\ conn[e] /\ l = link[e])
  BY <1>1 DEF Put
<1>2. CASE up[e] /\ conn[e] /\ l = link[e]
  <2> DEFINE s == IF f.t = "ACK" THEN <<f>> \o w[e] ELSE Append(w[e], f)
  <2>1. IsSeq(s) /\ ToSet(s) = ToSet(w[e]) \cup {f}
    BY GrowHolds DEF IsWires
  <2>2. Put(w, e, l, f) = [w EXCEPT ![e] = s]
    BY <1>2 DEF Put, IsWires
  <2> HIDE DEF s
  <2> DEFINE v == Put(w, e, l, f)
  <2>3. Sets(v, w, e, s)
    BY <2>2 DEF Sets
  <2> HIDE DEF v
  <2>4. IsWires(v) /\ v[e] = s /\ \A d \in End : d # e => v[d] = w[d]
    BY <2>1, <2>3, SetWire
  <2> QED
    BY <2>1, <2>4 DEF v
<1> QED
  BY <1>1, <1>2

\* The broker's frames likewise.
LEMMA TellAdds ==
    ASSUME NEW w, NEW e \in End, NEW fs, IsWires(w), IsSeq(fs)
    PROVE  /\ IsWires(Tell(w, e, fs))
           /\ ToSet(Tell(w, e, fs)[e]) \subseteq ToSet(w[e]) \cup ToSet(fs)
           /\ \A d \in End : d # e => Tell(w, e, fs)[d] = w[d]
<1> DEFINE v == Tell(w, e, fs)
           s == w[e] \o fs
<1>1. IsSeq(s) /\ ToSet(s) = ToSet(w[e]) \cup ToSet(fs)
  BY JoinHolds DEF IsWires
<1>2. v = w \/ Sets(v, w, e, s)
  BY DEF Tell, IsWires, Sets
<1> HIDE DEF v, s
<1>3. CASE v = w
  BY <1>3 DEF v
<1>4. CASE Sets(v, w, e, s)
  <2>1. IsWires(v) /\ v[e] = s /\ \A d \in End : d # e => v[d] = w[d]
    BY <1>1, <1>4, SetWire
  <2> QED
    BY <1>1, <2>1 DEF v
<1> QED
  BY <1>2, <1>3, <1>4

\* Taking the first frame of a wire.
LEMMA TakeLeaves ==
    ASSUME NEW w, NEW e \in End, IsWires(w), w[e] # << >>, NEW v, Sets(v, w, e, Tail(w[e]))
    PROVE  /\ IsWires(v) /\ \A d \in End : d # e => v[d] = w[d]
           /\ ToSet(v[e]) \subseteq ToSet(w[e]) /\ Head(w[e]) \in ToSet(w[e])
<1>1. IsSeq(Tail(w[e])) /\ ToSet(Tail(w[e])) \subseteq ToSet(w[e]) /\ Head(w[e]) \in ToSet(w[e])
  BY TailHolds DEF IsWires
<1>2. IsWires(v) /\ v[e] = Tail(w[e]) /\ \A d \in End : d # e => v[d] = w[d]
  BY <1>1, SetWire
<1> QED
  BY <1>1, <1>2

\* A wire that is emptied.
LEMMA ClearLeaves ==
    ASSUME NEW w, NEW e \in End, IsWires(w), NEW v, Sets(v, w, e, << >>)
    PROVE  IsWires(v) /\ ToSet(v[e]) = {} /\ \A d \in End : d # e => v[d] = w[d]
  BY SetWire, ShortSeqs

\* For the two wires towards the agent: what a new frame makes of the phone's.
LEMMA PutDevice ==
    ASSUME NEW w, NEW e \in End, NEW l, NEW f, IsWires(w)
    PROVE  /\ IsWires(Put(w, e, l, f))
           /\ ToSet(Put(w, e, l, f)[Device]) \subseteq
                 ToSet(w[Device]) \cup (IF e = Device THEN {f} ELSE {})
<1>1. /\ IsWires(Put(w, e, l, f))
      /\ ToSet(Put(w, e, l, f)[e]) \subseteq ToSet(w[e]) \cup {f}
      /\ \A d \in End : d # e => Put(w, e, l, f)[d] = w[d]
  BY PutAdds
<1>2. CASE e = Device
  BY <1>1, <1>2
<1>3. CASE e # Device
  BY <1>1, <1>3, Ends
<1> QED
  BY <1>2, <1>3

\* Frames the broker writes.
LEMMA TellAgent ==
    ASSUME NEW w, NEW e \in End, NEW fs, IsWires(w), IsSeq(fs)
    PROVE  /\ IsWires(Tell(w, e, fs))
           /\ ToSet(Tell(w, e, fs)[Agent]) \subseteq
                 ToSet(w[Agent]) \cup (IF e = Agent THEN ToSet(fs) ELSE {})
  BY TellAdds, Ends

\* A frame less, at either end.
LEMMA TakeEither ==
    ASSUME NEW w, NEW e \in End, IsWires(w), w[e] # << >>, NEW v, Sets(v, w, e, Tail(w[e]))
    PROVE  /\ IsWires(v) /\ Head(w[e]) \in ToSet(w[e])
           /\ \A d \in End : ToSet(v[d]) \subseteq ToSet(w[d])
<1>1. /\ IsWires(v) /\ \A d \in End : d # e => v[d] = w[d]
      /\ ToSet(v[e]) \subseteq ToSet(w[e]) /\ Head(w[e]) \in ToSet(w[e])
  BY TakeLeaves
<1>2. \A d \in End : ToSet(v[d]) \subseteq ToSet(w[d])
  BY <1>1
<1> QED
  BY <1>1, <1>2

AllFromPhone(F) == \A f \in F : FromPhone(f, got')

\* A step that leaves the wires towards the agent with what they held and with
\* frames that come from the phone.
LEMMA WiresStay ==
    ASSUME WiresHold, IsWires(out'), IsWires(in'), got \subseteq got',
           NEW F, AllFromPhone(F),
           ToSet(out'[Device]) \subseteq ToSet(out[Device]) \cup F,
           ToSet(in'[Agent]) \subseteq ToSet(out[Device]) \cup ToSet(in[Agent]) \cup F
    PROVE  WiresHold'
<1>1. \A f \in ToSet(out[Device]) \cup ToSet(in[Agent]) : FromPhone(f, got')
  BY DEF WiresHold, FromPhone
<1> QED
  BY <1>1 DEF WiresHold, AllFromPhone

-----------------------------------------------------------------------------
(* What is retained.                                                       *)

\* A delivery is held when the list has one of its id.
LEMMA HoldsId ==
    ASSUME KeptHolds, NEW e \in End, NEW id
    PROVE  Holds(e, id) <=> \E d \in ToSet(kept[e]) : d.id = id
<1>1. ToSet(kept[e]) = {kept[e][i] : i \in 1..Len(kept[e])}
  BY SeqIsSeq DEF KeptHolds, IsWires, IsSeq
<1> QED
  BY <1>1 DEF Holds

\* Settling a delivery costs no other.
LEMMA WithoutHolds ==
    ASSUME KeptHolds, NEW e \in End, NEW id
    PROVE  /\ IsSeq(Without(e, id)) /\ ToSet(Without(e, id)) \subseteq ToSet(kept[e])
           /\ \A d \in ToSet(kept[e]) : d.id # id => d \in ToSet(Without(e, id))
<1>1. IsSeq(kept[e])
  BY DEF KeptHolds, IsWires
<1>2. CASE ~Holds(e, id)
  BY <1>1, <1>2 DEF Without
<1>3. CASE Holds(e, id)
  <2> DEFINE i == CHOOSE i \in 1..Len(kept[e]) : kept[e][i].id = id
  <2>1. i \in 1..Len(kept[e]) /\ kept[e][i].id = id
    BY <1>3 DEF Holds
  <2>2. Without(e, id) = RemoveAt(kept[e], i)
    BY <1>3 DEF Without
  <2> HIDE DEF i
  <2> QED
    BY <1>1, <2>1, <2>2, RemoveHolds
<1> QED
  BY <1>2, <1>3

\* A message is given up for another, or for want of room, by name.
LEMMA EvictedOne ==
    ASSUME NEW e, NEW id
    PROVE  Evicted(e, id) = {} \/ \E m : Evicted(e, id) = {m}
  BY Zenon DEF Evicted

\* Retaining a message costs none but the evicted, and it is retained unless it is.
LEMMA RetainHolds ==
    ASSUME KeptHolds, NEW e \in End, NEW id
    PROVE  /\ IsSeq(Retain(e, id))
           /\ \A d \in ToSet(Retain(e, id)) : IsEntry(d) /\ (d.id = id \/ d \in ToSet(kept[e]))
           /\ \A d \in ToSet(kept[e]) : d.id \in Evicted(e, id)
                                          \/ \E c \in ToSet(Retain(e, id)) : c.id = d.id
           /\ id \in Evicted(e, id) \/ \E c \in ToSet(Retain(e, id)) : c.id = id
<1>1. /\ IsSeq(kept[e]) /\ \A d \in ToSet(kept[e]) : IsEntry(d)
      /\ Len(kept[e]) \in Nat /\ ToSet(kept[e]) = {kept[e][i] : i \in 1..Len(kept[e])}
  BY SeqIsSeq DEF KeptHolds, IsWires, IsSeq
<1>2. CASE Holds(e, id)
  <2> DEFINE s == [i \in 1..Len(kept[e]) |->
                     IF kept[e][i].id = id THEN [kept[e][i] EXCEPT !.sess = sess[e]]
                     ELSE kept[e][i]]
  <2>1. Retain(e, id) = s
    BY <1>2 DEF Retain
  <2>2. ASSUME NEW i \in 1..Len(kept[e])
        PROVE  IsEntry(s[i]) /\ s[i].id = kept[e][i].id /\ (s[i].id = id \/ s[i] = kept[e][i])
    <3>1. IsEntry(kept[e][i])
      BY <1>1
    <3>2. CASE kept[e][i].id = id
      <4>1. s[i] = [id |-> kept[e][i].id, sess |-> sess[e], queued |-> kept[e][i].queued]
        BY <3>1, <3>2 DEF IsEntry
      <4> HIDE DEF s
      <4> QED
        BY <3>2, <4>1 DEF IsEntry
    <3>3. CASE kept[e][i].id # id
      BY <3>1, <3>3
    <3> QED
      BY <3>2, <3>3
  <2>3. s = [i \in 1..Len(kept[e]) |-> s[i]]
    OBVIOUS
  <2> HIDE DEF s
  <2>4. IsSeq(s) /\ ToSet(s) = {s[i] : i \in 1..Len(kept[e])}
    BY <1>1, <2>3, ListIsSeq
  <2>5. \E i \in 1..Len(kept[e]) : kept[e][i].id = id
    BY <1>2 DEF Holds
  <2> QED
    BY <1>1, <2>1, <2>2, <2>4, <2>5
<1>3. CASE ~Holds(e, id) /\ id \in Evicted(e, id)
  BY <1>1, <1>3 DEF Retain
<1>4. CASE ~Holds(e, id) /\ id \notin Evicted(e, id)
  <2> DEFINE rest == IF Evicted(e, id) = {} THEN kept[e]
                     ELSE Without(e, CHOOSE m \in Evicted(e, id) : TRUE)
             new  == [id |-> id, sess |-> sess[e], queued |-> FALSE]
  <2>1. Retain(e, id) = Append(rest, new)
    BY <1>4 DEF Retain
  <2>2. /\ IsSeq(rest) /\ ToSet(rest) \subseteq ToSet(kept[e])
        /\ \A d \in ToSet(kept[e]) : d.id \notin Evicted(e, id) => d \in ToSet(rest)
    <3>1. CASE Evicted(e, id) = {}
      BY <1>1, <3>1
    <3>2. CASE Evicted(e, id) # {}
      <4>1. PICK m : Evicted(e, id) = {m}
        BY <3>2, EvictedOne
      <4>2. (CHOOSE n \in Evicted(e, id) : TRUE) = m
        BY <4>1
      <4>3. rest = Without(e, m)
        BY <3>2, <4>2
      <4> HIDE DEF rest
      <4> QED
        BY <4>1, <4>3, WithoutHolds
    <3> QED
      BY <3>1, <3>2
  <2>3. IsEntry(new) /\ new.id = id
    BY DEF IsEntry
  <2> HIDE DEF rest, new
  <2>4. IsSeq(Append(rest, new)) /\ ToSet(Append(rest, new)) = ToSet(rest) \cup {new}
    BY <2>2, GrowHolds
  <2> QED
    BY <1>1, <2>1, <2>2, <2>3, <2>4
<1> QED
  BY <1>2, <1>3, <1>4

-----------------------------------------------------------------------------
(* What a step may not do to an answer, and the parts of a step.           *)

\* No step takes back what the phone was given or what was given up; what the agent
\* retains leaves it for the phone or is given up; and what is executed is retained.
KeepsAnswers ==
    /\ got \subseteq got' /\ lapsed \subseteq lapsed'
    /\ \A m \in Request : Holds(Agent, m) => \/ Holds(Agent, m)'
                                             \/ <<Agent, m>> \in lapsed' \/ m \in got'
    /\ \A r \in Request : ran'[r] > 0 => \/ ran[r] > 0 \/ Holds(Agent, r)'
                                         \/ <<Agent, r>> \in lapsed'

\* The invariant, put together again after a step that executes nothing.
LEMMA Assemble ==
    ASSUME PhoneInv, WiresHold', KeptHolds', JobsHold', busy' \in Request \cup {None},
           ran' = ran, handled' = handled, KeepsAnswers
    PROVE  PhoneInv'
<1>1. AnswerKept'
  BY DEF PhoneInv, AnswerKept, KeepsAnswers
<1>2. Remembers'
  BY DEF PhoneInv, Remembers, Executed, ExecutedOnce
<1> QED
  BY <1>1, <1>2 DEF PhoneInv, Holding

\* A step that touches no list.
LEMMA KeptStay ==
    ASSUME KeptHolds, kept' = kept, lapsed' = lapsed, ran' = ran, got \subseteq got'
    PROVE  KeptHolds' /\ KeepsAnswers
  BY DEF KeptHolds, KeepsAnswers, Holds

\* A step that touches no job.
LEMMA JobsStay == ASSUME JobsHold, jobs' = jobs PROVE JobsHold'
  BY DEF JobsHold

\* A step of frames only.
FramesOnly == UNCHANGED <<kept, lapsed, jobs, busy, handled, ran, got>>

\* It keeps the invariant when it keeps what the wires say.
LEMMA FramesStep ==
    ASSUME PhoneInv, FramesOnly, WiresHold' PROVE PhoneInv'
<1>1. KeptHolds' /\ KeepsAnswers
  BY KeptStay DEF PhoneInv, Holding, FramesOnly
<1>2. JobsHold'
  BY JobsStay DEF PhoneInv, Holding, FramesOnly
<1> QED
  BY <1>1, <1>2, Assemble DEF PhoneInv, Holding, FramesOnly

HeldById == \A id \in Request : Holds(Agent, id) <=> \E d \in ToSet(kept[Agent]) : d.id = id

\* A delivery of the agent is held when its list has one of its id.
LEMMA HoldsIds == KeptHolds => HeldById
  BY HoldsId, Ends DEF HeldById

\* A new list for one end.
LEMMA SetKept ==
    ASSUME KeptHolds, NEW e \in End, NEW s, IsSeq(s), Sets(kept', kept, e, s),
           \A d \in ToSet(s) : IsEntry(d) /\ (e = Device => d.id \in Request)
    PROVE  KeptHolds' /\ kept'[e] = s /\ \A d \in End : d # e => kept'[d] = kept[d]
<1>1. IsWires(kept') /\ kept'[e] = s /\ \A d \in End : d # e => kept'[d] = kept[d]
  BY SetWire DEF KeptHolds
<1> QED
  BY <1>1, Ends DEF KeptHolds

\* Client.Send and DeviceClient.seal: nothing retained is lost but what is evicted,
\* the message is retained, and of the phone's wire it adds a CIPHERTEXT.
LEMMA SendHolds ==
    ASSUME KeptHolds, IsWires(out), NEW e \in End, NEW id, NEW l, Send(e, id, l),
           e = Device => id \in Request
    PROVE  /\ KeptHolds' /\ lapsed \subseteq lapsed' /\ IsWires(out')
           /\ \A m \in Request : Holds(Agent, m) => Holds(Agent, m)' \/ <<Agent, m>> \in lapsed'
           /\ e = Agent /\ id \in Request => Holds(Agent, id)' \/ <<Agent, id>> \in lapsed'
           /\ ToSet(out'[Device]) \subseteq
                 ToSet(out[Device]) \cup
                   (IF e = Device THEN {Frame("CIPHER", id, sess[e], sent[e] + 1)} ELSE {})
<1> DEFINE s == Retain(e, id)
<1>1. /\ lapsed' = lapsed \cup {<<e, m>> : m \in Evicted(e, id)}
      /\ out' = Put(out, e, l, Frame("CIPHER", id, sess[e], sent[e] + 1))
      /\ Sets(kept', kept, e, s)
  BY DEF Send, Sets
<1>2. /\ IsSeq(s)
      /\ \A d \in ToSet(s) : IsEntry(d) /\ (d.id = id \/ d \in ToSet(kept[e]))
      /\ \A d \in ToSet(kept[e]) : d.id \in Evicted(e, id) \/ \E c \in ToSet(s) : c.id = d.id
      /\ id \in Evicted(e, id) \/ \E c \in ToSet(s) : c.id = id
  BY RetainHolds
<1> HIDE DEF s
<1>3. \A d \in ToSet(s) : IsEntry(d) /\ (e = Device => d.id \in Request)
  BY <1>2 DEF KeptHolds
<1>4. KeptHolds' /\ kept'[e] = s /\ \A d \in End : d # e => kept'[d] = kept[d]
  BY <1>1, <1>2, <1>3, SetKept
<1>5. KeptHolds'
  BY <1>4
<1>6. \A m \in Request : Holds(Agent, m)' <=> \E c \in ToSet(kept'[Agent]) : c.id = m
  <2>1. HeldById'
    BY <1>5, HoldsIds, PTL
  <2> QED
    BY <2>1 DEF HeldById, Agent
<1>7. \A m \in Request : Holds(Agent, m) <=> \E c \in ToSet(kept[Agent]) : c.id = m
  BY HoldsIds DEF HeldById
<1>8. ASSUME NEW m \in Request, Holds(Agent, m)
      PROVE  Holds(Agent, m)' \/ <<Agent, m>> \in lapsed'
  <2>1. PICK c \in ToSet(kept[Agent]) : c.id = m
    BY <1>7, <1>8
  <2>2. CASE e = Agent
    BY <1>1, <1>2, <1>4, <1>6, <2>1, <2>2
  <2>3. CASE e # Agent
    BY <1>4, <1>6, <2>1, <2>3, Ends
  <2> QED
    BY <2>2, <2>3
<1>9. e = Agent /\ id \in Request => Holds(Agent, id)' \/ <<Agent, id>> \in lapsed'
  BY <1>1, <1>2, <1>4, <1>6
<1>10. /\ IsWires(out')
       /\ ToSet(out'[Device]) \subseteq
             ToSet(out[Device]) \cup
               (IF e = Device THEN {Frame("CIPHER", id, sess[e], sent[e] + 1)} ELSE {})
  BY <1>1, PutDevice
<1> QED
  BY <1>1, <1>4, <1>8, <1>9, <1>10

-----------------------------------------------------------------------------
(* The steps of frames only.                                               *)

\* A frame that is neither an ACK nor a CIPHERTEXT.
Plain(f) == f.t # "ACK" /\ f.t # "CIPHER"

\* The frames that are.
LEMMA PlainFrames ==
    /\ \A s : /\ Plain(Shake("PEER", s)) /\ Plain(Shake("QUEUED", s)) /\ Plain(Shake("RESP", s))
              /\ Plain(Shake("READY", s)) /\ Plain(Shake("QUERY", s)) /\ Plain(Shake("INIT", s))
              /\ Plain(Shake("FINISH", s))
    /\ \A id : /\ Plain(About("RESEND", id)) /\ Plain(About("DECLINED", id))
               /\ Plain(About("EXPIRED", id)) /\ Plain(About("QUEUED", id))
               /\ Plain(About("FULL", id))
  BY DEF Plain, Shake, About, Frame

\* The broker loses an end.
LEMMA LoseHolds ==
    ASSUME WiresHold, NEW e \in End, Lose(e), got' = got PROVE WiresHold'
<1> DEFINE w  == [in EXCEPT ![e] = << >>]
           fs == <<Shake("PEER", 0)>>
<1>1. /\ Sets(out', out, e, << >>) /\ Sets(w, in, e, << >>)
      /\ in' = Tell(w, Agent, fs) \/ in' = w
  BY DEF Lose, Sets
<1>2. IsSeq(fs) /\ ToSet(fs) = {Shake("PEER", 0)}
  BY ShortSeqs
<1> HIDE DEF w, fs
<1>3. /\ IsWires(out') /\ ToSet(out'[e]) = {} /\ \A d \in End : d # e => out'[d] = out[d]
      /\ IsWires(w) /\ ToSet(w[e]) = {} /\ \A d \in End : d # e => w[d] = in[d]
  BY <1>1, ClearLeaves DEF WiresHold
<1>4. ToSet(out'[Device]) \subseteq ToSet(out[Device]) /\ ToSet(w[Agent]) \subseteq ToSet(in[Agent])
  BY <1>3, Ends
<1>5. /\ IsWires(Tell(w, Agent, fs))
      /\ ToSet(Tell(w, Agent, fs)[Agent]) \subseteq ToSet(w[Agent]) \cup ToSet(fs)
  BY <1>2, <1>3, TellAgent, Ends
<1>6. AllFromPhone(ToSet(fs))
  BY <1>2, PlainFrames DEF AllFromPhone, FromPhone, Plain
<1>7. IsWires(in') /\ ToSet(in'[Agent]) \subseteq ToSet(in[Agent]) \cup ToSet(fs)
  BY <1>1, <1>3, <1>4, <1>5
<1> QED
  BY <1>3, <1>4, <1>6, <1>7, WiresStay

\* An end that gives up its connection.
LEMMA DropsHold ==
    ASSUME PhoneInv, AgentDrops \/ DeviceDrops PROVE PhoneInv'
<1>1. \E e \in End : Lose(e)
  BY Ends DEF AgentDrops, DeviceDrops
<1>2. FramesOnly
  BY DEF AgentDrops, DeviceDrops, keepVars, phoneVars, readerVars, FramesOnly
<1>3. WiresHold'
  BY <1>1, <1>2, LoseHolds DEF PhoneInv, Holding, FramesOnly
<1> QED
  BY <1>2, <1>3, FramesStep

\* The network drops a connection: the phone's end is reported to the agent.
LEMMA CutHolds ==
    ASSUME PhoneInv, NEW e \in End, Cut(e) PROVE PhoneInv'
<1> DEFINE fs == <<Shake("PEER", 0)>>
<1>1. /\ Sets(out', out, e, << >>) /\ (in' = Tell(in, Agent, fs) \/ in' = in) /\ FramesOnly
  BY DEF Cut, Sets, FramesOnly, keepVars, readerVars, phoneVars
<1>2. IsSeq(fs) /\ ToSet(fs) = {Shake("PEER", 0)}
  BY ShortSeqs
<1> HIDE DEF fs
<1>3. WiresHold /\ IsWires(out) /\ IsWires(in)
  BY DEF PhoneInv, Holding, WiresHold
<1>4. IsWires(out') /\ ToSet(out'[e]) = {} /\ \A d \in End : d # e => out'[d] = out[d]
  BY <1>1, <1>3, ClearLeaves
<1>5. ToSet(out'[Device]) \subseteq ToSet(out[Device])
  BY <1>4, Ends
<1>6. IsWires(Tell(in, Agent, fs)) /\ ToSet(Tell(in, Agent, fs)[Agent]) \subseteq ToSet(in[Agent]) \cup ToSet(fs)
  BY <1>2, <1>3, TellAgent, Ends
<1>7. AllFromPhone(ToSet(fs))
  BY <1>2, PlainFrames DEF AllFromPhone, FromPhone, Plain
<1>8. IsWires(in') /\ ToSet(in'[Agent]) \subseteq ToSet(in[Agent]) \cup ToSet(fs)
  BY <1>1, <1>3, <1>6
<1>9. WiresHold'
  BY <1>1, <1>3, <1>4, <1>5, <1>7, <1>8, WiresStay DEF FramesOnly
<1> QED
  BY <1>1, <1>9, FramesStep

\* Dial empties the agent's wires and asks for the phone.
LEMMA DialHolds ==
    ASSUME PhoneInv, Dial PROVE PhoneInv'
<1> DEFINE s == <<Shake("QUERY", 0)>>
<1>1. Sets(out', out, Agent, s) /\ Sets(in', in, Agent, << >>) /\ FramesOnly
  BY DEF Dial, Sets, FramesOnly, keepVars, phoneVars
<1>2. IsSeq(s)
  BY ShortSeqs
<1> HIDE DEF s
<1>3. WiresHold /\ IsWires(out) /\ IsWires(in)
  BY DEF PhoneInv, Holding, WiresHold
<1>4. /\ IsWires(out') /\ \A d \in End : d # Agent => out'[d] = out[d]
      /\ IsWires(in') /\ ToSet(in'[Agent]) = {}
  BY <1>1, <1>2, <1>3, SetWire, ClearLeaves, Ends
<1>5. out'[Device] = out[Device] /\ AllFromPhone({})
  BY <1>4, Ends DEF AllFromPhone
<1>6. WiresHold'
  BY <1>1, <1>3, <1>4, <1>5, WiresStay DEF FramesOnly
<1> QED
  BY <1>1, <1>6, FramesStep

\* Connect empties the phone's wires and is reported to the agent.
LEMMA ConnectHolds ==
    ASSUME PhoneInv, Connect PROVE PhoneInv'
<1> DEFINE w  == [in EXCEPT ![Device] = << >>]
           fs == <<Shake("PEER", 1)>>
<1>1. /\ Sets(out', out, Device, << >>) /\ Sets(w, in, Device, << >>)
      /\ in' = Tell(w, Agent, fs) /\ FramesOnly
  BY DEF Connect, Sets, FramesOnly, keepVars, readerVars, phoneVars
<1>2. IsSeq(fs) /\ ToSet(fs) = {Shake("PEER", 1)}
  BY ShortSeqs
<1> HIDE DEF w, fs
<1>3. WiresHold /\ IsWires(out) /\ IsWires(in)
  BY DEF PhoneInv, Holding, WiresHold
<1>4. /\ IsWires(out') /\ ToSet(out'[Device]) = {}
      /\ IsWires(w) /\ \A d \in End : d # Device => w[d] = in[d]
  BY <1>1, <1>3, ClearLeaves, Ends
<1>5. w[Agent] = in[Agent]
  BY <1>4, Ends
<1>6. IsWires(in') /\ ToSet(in'[Agent]) \subseteq ToSet(in[Agent]) \cup ToSet(fs)
  BY <1>1, <1>2, <1>4, <1>5, TellAgent, Ends
<1>7. AllFromPhone(ToSet(fs))
  BY <1>2, PlainFrames DEF AllFromPhone, FromPhone, Plain
<1>8. WiresHold'
  BY <1>1, <1>3, <1>4, <1>6, <1>7, WiresStay DEF FramesOnly
<1> QED
  BY <1>1, <1>8, FramesStep

\* The agent's reader takes a frame; it may put one.
LEMMA ReadHolds ==
    ASSUME WiresHold, in[Agent] # << >>, Read, got' = got,
           out' = out \/ \E f, l : out' = Put(out, Agent, l, f)
    PROVE  WiresHold'
<1>1. Sets(in', in, Agent, Tail(in[Agent])) /\ IsWires(in) /\ IsWires(out)
  BY DEF Read, Sets, WiresHold
<1>2. IsWires(in') /\ ToSet(in'[Agent]) \subseteq ToSet(in[Agent])
  BY <1>1, TakeEither, Ends
<1>3. IsWires(out') /\ ToSet(out'[Device]) \subseteq ToSet(out[Device])
  BY <1>1, PutDevice, Ends
<1>4. AllFromPhone({})
  BY DEF AllFromPhone
<1> QED
  BY <1>2, <1>3, <1>4, WiresStay

\* The phone's reader takes a frame; it may put one that comes from the phone.
LEMMA DeviceReadHolds ==
    ASSUME WiresHold, in[Device] # << >>, DeviceRead, got \subseteq got', NEW f,
           FromPhone(f, got'), out' = out \/ \E l : out' = Put(out, Device, l, f)
    PROVE  WiresHold'
<1>1. Sets(in', in, Device, Tail(in[Device])) /\ IsWires(in) /\ IsWires(out)
  BY DEF DeviceRead, Sets, WiresHold
<1>2. IsWires(in') /\ ToSet(in'[Agent]) \subseteq ToSet(in[Agent])
  BY <1>1, TakeEither, Ends
<1>3. IsWires(out') /\ ToSet(out'[Device]) \subseteq ToSet(out[Device]) \cup {f}
  BY <1>1, PutDevice, Ends
<1>4. AllFromPhone({f})
  BY DEF AllFromPhone
<1> QED
  BY <1>2, <1>3, <1>4, WiresStay

\* The frames of a handshake, and what is only noted.
LEMMA ShakeHolds ==
    ASSUME PhoneInv, AgentPeer \/ AgentFull \/ DeviceInit \/ DeviceFinish PROVE PhoneInv'
<1>1. FramesOnly
  BY DEF AgentPeer, AgentFull, DeviceInit, DeviceFinish, FramesOnly, keepVars, readerVars,
         phoneVars
<1>2. CASE AgentPeer \/ AgentFull
  <2>1. in[Agent] # << >> /\ Read
    BY <1>2 DEF AgentPeer, AgentFull, Reads
  <2>2. out' = out \/ \E f, l : out' = Put(out, Agent, l, f)
    BY <1>2, Zenon DEF AgentPeer, AgentFull
  <2>3. WiresHold'
    BY <1>1, <2>1, <2>2, ReadHolds DEF PhoneInv, Holding, FramesOnly
  <2> QED
    BY <1>1, <2>3, FramesStep
<1>3. CASE DeviceInit \/ DeviceFinish
  <2>1. in[Device] # << >> /\ DeviceRead
    BY <1>3 DEF DeviceInit, DeviceFinish, DeviceReads
  <2>2. PICK f : Plain(f) /\ \E l : out' = Put(out, Device, l, f)
    BY <1>3, PlainFrames DEF DeviceInit, DeviceFinish
  <2>3. FromPhone(f, got')
    BY <2>2 DEF Plain, FromPhone
  <2>4. WiresHold'
    BY <1>1, <2>1, <2>2, <2>3, DeviceReadHolds DEF PhoneInv, Holding, FramesOnly
  <2> QED
    BY <1>1, <2>4, FramesStep
<1> QED
  BY <1>2, <1>3

-----------------------------------------------------------------------------
(* The broker.                                                             *)

\* The broker takes a frame of end e and writes frames to end d: its own, or the
\* frame it took, to the far end.
LEMMA RelayHolds ==
    ASSUME WiresHold, NEW e \in End, out[e] # << >>, Take(e), got' = got,
           NEW d \in End, NEW f, Plain(f) \/ (d = Other(e) /\ f = Taken(e)),
           in' = in \/ in' = Tell(in, d, <<f>>)
    PROVE  WiresHold'
<1>1. Sets(out', out, e, Tail(out[e])) /\ IsWires(in) /\ IsWires(out)
  BY DEF Take, Sets, WiresHold
<1>2. /\ IsWires(out') /\ ToSet(out'[Device]) \subseteq ToSet(out[Device])
      /\ Taken(e) \in ToSet(out[e])
  BY <1>1, TakeEither, Ends DEF Taken
<1>3. IsSeq(<<f>>) /\ ToSet(<<f>>) = {f}
  BY ShortSeqs
<1> DEFINE F == IF Plain(f) THEN {f} ELSE {}
<1>4. AllFromPhone(F)
  BY DEF AllFromPhone, Plain, FromPhone
<1>5. d = Agent => f \in ToSet(out[Device]) \cup F
  BY <1>2, Ends
<1> HIDE DEF F
<1>6. /\ IsWires(Tell(in, d, <<f>>))
      /\ ToSet(Tell(in, d, <<f>>)[Agent]) \subseteq
           ToSet(in[Agent]) \cup (IF d = Agent THEN ToSet(<<f>>) ELSE {})
  BY <1>1, <1>3, TellAgent
<1>7. IsWires(in') /\ ToSet(in'[Agent]) \subseteq ToSet(out[Device]) \cup ToSet(in[Agent]) \cup F
  BY <1>1, <1>3, <1>5, <1>6
<1> QED
  BY <1>2, <1>4, <1>7, WiresStay

\* What is asked for again is a sequence of RESENDs.
LEMMA AskedPlain ==
    ASSUME NEW o, NEW fs \in Asked(o) PROVE IsSeq(fs) /\ \A f \in ToSet(fs) : Plain(f)
<1> DEFINE S == {m \in Msg : intents[m].by = o}
<1>1. IsFiniteSet(S)
  <2>1. IsFiniteSet(Msg)
    BY PhoneAssumption, FS_Union DEF Msg
  <2> QED
    BY <2>1, FS_Subset
<1>2. Cardinality(S) \in Nat
  BY <1>1, FS_CardinalityType
<1> DEFINE n == Cardinality(S)
<1>3. PICK ids \in [1..n -> S] : fs = [i \in DOMAIN ids |-> About("RESEND", ids[i])]
  BY DEF Asked, SetToSeqs
<1>4. n \in Nat /\ fs = [i \in 1..n |-> fs[i]] /\ \A i \in 1..n : fs[i] = About("RESEND", ids[i])
  BY <1>2, <1>3
<1> HIDE DEF n, S
<1>5. IsSeq(fs) /\ ToSet(fs) = {fs[i] : i \in 1..n}
  BY <1>4, ListIsSeq
<1> QED
  BY <1>4, <1>5, PlainFrames

\* No step of the broker touches more than frames, and what it tells the agent is
\* its own or came from the phone.
LEMMA BrokerHolds ==
    ASSUME PhoneInv, BrokerStep PROVE PhoneInv'
<1>1. FramesOnly
  BY DEF BrokerStep, BrokerQuery, BrokerShake, BrokerCipher, BrokerAck, BrokerDeclined,
         FramesOnly, keepVars, readerVars, phoneVars
<1>2. WiresHold /\ got' = got
  BY <1>1 DEF PhoneInv, Holding, FramesOnly
<1>3. SUFFICES WiresHold'
  BY <1>1, FramesStep
<1>4. CASE BrokerQuery
  <2> DEFINE f == Shake("PEER", IF conn[Device] THEN 1 ELSE 0)
  <2>1. out[Agent] # << >> /\ Take(Agent) /\ in' = Tell(in, Agent, <<f>>) /\ Plain(f)
    BY <1>4, PlainFrames DEF BrokerQuery, Takes
  <2> HIDE DEF f
  <2> QED
    BY <1>2, <2>1, RelayHolds, Ends
<1>5. ASSUME NEW e \in End, BrokerCipher(e) \/ BrokerAck(e) \/ BrokerDeclined(e) PROVE WiresHold'
  <2>1. out[e] # << >> /\ Take(e) /\ Other(e) \in End
    BY <1>5, Ends DEF BrokerCipher, BrokerAck, BrokerDeclined, Takes
  <2>2. \/ in' = in \/ in' = Tell(in, Other(e), <<Taken(e)>>)
        \/ \E d \in End : \E f : Plain(f) /\ in' = Tell(in, d, <<f>>)
    <3>1. CASE BrokerCipher(e)
      BY <3>1, PlainFrames DEF BrokerCipher
    <3>2. CASE BrokerAck(e)
      BY <3>2 DEF BrokerAck
    <3>3. CASE BrokerDeclined(e)
      BY <3>3, PlainFrames, <2>1 DEF BrokerDeclined
    <3> QED
      BY <1>5, <3>1, <3>2, <3>3
  <2>3. CASE in' = in \/ in' = Tell(in, Other(e), <<Taken(e)>>)
    BY <1>2, <2>1, <2>3, RelayHolds
  <2>4. CASE \E d \in End : \E f : Plain(f) /\ in' = Tell(in, d, <<f>>)
    <3>1. PICK d \in End : \E f : Plain(f) /\ in' = Tell(in, d, <<f>>)
      BY <2>4
    <3> QED
      BY <1>2, <2>1, <3>1, RelayHolds
  <2> QED
    BY <2>2, <2>3, <2>4
<1>6. ASSUME NEW e \in End, BrokerShake(e) PROVE WiresHold'
  <2> DEFINE f  == Taken(e)
             w  == Tell(in, Other(e), <<f>>)
             g  == Shake("QUEUED", f.s)
  <2>1. out[e] # << >> /\ Take(e) /\ Other(e) \in End
    BY <1>6, Ends DEF BrokerShake, Takes
  <2>2. \/ in' = w
        \/ in' = Tell(in, Agent, <<g>>)
        \/ \E again \in Asked(Agent), more \in Asked(Device) :
              in' = Tell(Tell(w, Agent, again), Device, more)
    BY <1>6 DEF BrokerShake
  <2>3. Plain(g)
    BY PlainFrames
  <2>4. CASE in' = w
    BY <1>2, <2>1, <2>4, RelayHolds
  <2>5. CASE in' = Tell(in, Agent, <<g>>)
    <3> HIDE DEF g
    <3> QED
      BY <1>2, <2>1, <2>3, <2>5, RelayHolds, Ends
  <2>6. ASSUME NEW again \in Asked(Agent), NEW more \in Asked(Device),
               in' = Tell(Tell(w, Agent, again), Device, more)
        PROVE  WiresHold'
    <3> HIDE DEF f
    <3>1. Sets(out', out, e, Tail(out[e])) /\ IsWires(in) /\ IsWires(out)
      BY <1>2, <2>1 DEF Take, Sets, WiresHold
    <3>2. /\ IsWires(out') /\ ToSet(out'[Device]) \subseteq ToSet(out[Device])
          /\ f \in ToSet(out[e])
      BY <2>1, <3>1, TakeEither, Ends DEF Taken, f
    <3>3. IsSeq(<<f>>) /\ ToSet(<<f>>) = {f}
      BY ShortSeqs
    <3>4. /\ IsWires(w)
          /\ ToSet(w[Agent]) \subseteq
               ToSet(in[Agent]) \cup (IF Other(e) = Agent THEN ToSet(<<f>>) ELSE {})
      BY <2>1, <3>1, <3>3, TellAgent
    <3>5. ToSet(w[Agent]) \subseteq ToSet(in[Agent]) \cup ToSet(out[Device])
      BY <3>2, <3>3, <3>4, Ends
    <3> DEFINE v == Tell(w, Agent, again)
    <3>6. /\ IsSeq(again) /\ IsSeq(more) /\ \A x \in ToSet(again) : Plain(x)
      BY AskedPlain
    <3> HIDE DEF w
    <3>7. IsWires(v) /\ ToSet(v[Agent]) \subseteq ToSet(w[Agent]) \cup ToSet(again)
      BY <3>4, <3>6, TellAgent, Ends
    <3> HIDE DEF v
    <3>8. IsWires(Tell(v, Device, more)) /\ ToSet(Tell(v, Device, more)[Agent]) \subseteq ToSet(v[Agent])
      BY <3>6, <3>7, TellAgent, Ends
    <3>9. in' = Tell(v, Device, more)
      BY <2>6 DEF v
    <3>10. AllFromPhone(ToSet(again))
      BY <3>6 DEF AllFromPhone, FromPhone, Plain
    <3>11. IsWires(in') /\ ToSet(in'[Agent]) \subseteq ToSet(out[Device]) \cup ToSet(in[Agent]) \cup ToSet(again)
      BY <3>5, <3>7, <3>8, <3>9
    <3> QED
      BY <1>2, <3>2, <3>10, <3>11, WiresStay
  <2> QED
    BY <2>2, <2>4, <2>5, <2>6
<1> QED
  BY <1>4, <1>5, <1>6 DEF BrokerStep

\* The broker's expiry tells the sender.
LEMMA BrokerExpiresHolds ==
    ASSUME PhoneInv, NEW id \in Msg, BrokerExpires(id) PROVE PhoneInv'
<1> DEFINE d == intents[id].by
           f == About("EXPIRED", id)
<1>1. /\ out' = out /\ in' = Tell(in, d, <<f>>) /\ Plain(f)
      /\ kept' = kept /\ lapsed \subseteq lapsed' /\ jobs' = jobs /\ busy' = busy
      /\ handled' = handled /\ ran' = ran /\ got' = got
  BY PlainFrames DEF BrokerExpires, readerVars, phoneVars
<1> HIDE DEF d, f
<1>2. KeptHolds' /\ KeepsAnswers
  BY <1>1 DEF PhoneInv, Holding, KeptHolds, KeepsAnswers, Holds
<1>3. WiresHold /\ IsWires(in) /\ IsWires(out) /\ IsSeq(<<f>>) /\ ToSet(<<f>>) = {f}
  BY ShortSeqs DEF PhoneInv, Holding, WiresHold
<1>4. in' = in \/ d \in End
  <2>1. ASSUME d \notin End PROVE [in EXCEPT ![d] = in[d] \o <<f>>] = in
    BY <1>3, <2>1 DEF IsWires
  <2> QED
    BY <1>1, <2>1 DEF Tell
<1>5. IsWires(in') /\ ToSet(in'[Agent]) \subseteq ToSet(in[Agent]) \cup {f}
  BY <1>1, <1>3, <1>4, TellAgent
<1>6. AllFromPhone({f})
  BY <1>1 DEF AllFromPhone, FromPhone, Plain
<1>7. WiresHold'
  BY <1>1, <1>3, <1>5, <1>6, WiresStay
<1>8. JobsHold'
  BY <1>1, JobsStay DEF PhoneInv, Holding
<1> QED
  BY <1>1, <1>2, <1>7, <1>8, Assemble DEF PhoneInv, Holding

-----------------------------------------------------------------------------
(* The jobs: sends begun and messages sent again.                          *)

AllJobs(S) == \A j \in S : IsJob(j)

\* New jobs of one end.
LEMMA SetJobs ==
    ASSUME JobsHold, NEW e \in End, NEW S, Sets(jobs', jobs, e, S), e = Device => AllJobs(S)
    PROVE  JobsHold'
<1>1. /\ jobs' = [d \in End |-> jobs'[d]]
      /\ jobs'[e] = S /\ \A d \in End : d # e => jobs'[d] = jobs[d]
  BY DEF JobsHold, Sets
<1> QED
  BY <1>1, Ends DEF JobsHold, AllJobs

\* A step that touches nothing but the jobs.
LEMMA JobsOnly ==
    ASSUME PhoneInv, JobsHold', UNCHANGED <<kept, lapsed, busy, handled, ran, got, out, in>>
    PROVE  PhoneInv'
<1>1. KeptHolds' /\ KeepsAnswers
  BY KeptStay DEF PhoneInv, Holding
<1>2. WiresHold'
  BY DEF PhoneInv, Holding, WiresHold
<1> QED
  BY <1>1, <1>2, Assemble DEF PhoneInv, Holding

\* A job of no message, that waits, and a job of one.
LEMMA NewJobs ==
    /\ \A l, s : IsJob(Job(l, s, << >>, TRUE))
    /\ \A l, s : \A r \in Request : IsJob(Job(l, s, <<r>>, FALSE))
<1>1. ASSUME NEW l, NEW s PROVE IsJob(Job(l, s, << >>, TRUE))
  <2> DEFINE j == Job(l, s, << >>, TRUE)
  <2>1. j = Job(j.link, j.sess, j.ids, j.waits)
    BY DEF Job
  <2>2. j.ids = << >> /\ j.waits
    BY DEF Job
  <2>3. IsSeq(<< >>) /\ ToSet(<< >>) \subseteq Request
    BY ShortSeqs
  <2> HIDE DEF j
  <2>4. IsJob(j)
    BY <2>1, <2>2, <2>3 DEF IsJob
  <2> QED
    BY <2>4 DEF j
<1>2. ASSUME NEW l, NEW s, NEW r \in Request PROVE IsJob(Job(l, s, <<r>>, FALSE))
  <2> DEFINE j == Job(l, s, <<r>>, FALSE)
  <2>1. j = Job(j.link, j.sess, j.ids, j.waits)
    BY DEF Job
  <2>2. j.ids = <<r>> /\ ~j.waits /\ <<r>> # << >>
    BY DEF Job
  <2>3. IsSeq(<<r>>) /\ ToSet(<<r>>) \subseteq Request
    BY ShortSeqs
  <2> HIDE DEF j
  <2>4. IsJob(j)
    BY <2>1, <2>2, <2>3 DEF IsJob
  <2> QED
    BY <2>4 DEF j
<1> QED
  BY <1>1, <1>2

\* Deliver, Ask and a send that fails.
LEMMA BeginHolds ==
    ASSUME PhoneInv, NEW e \in End,
           \/ \E u \in Unit : Deliver(u)
           \/ \E r \in Request : Ask(r)
           \/ \E j \in jobs[e] : SendFails(e, j)
    PROVE  PhoneInv'
<1>1. UNCHANGED <<kept, lapsed, busy, handled, ran, got, out, in>> /\ JobsHold
  BY DEF Deliver, Ask, SendFails, keepVars, readerVars, phoneVars, wires, PhoneInv, Holding
<1>2. CASE \E u \in Unit : Deliver(u)
  <2>1. PICK S : Sets(jobs', jobs, Agent, S)
    BY <1>2 DEF Deliver, Sets
  <2> QED
    BY <1>1, <2>1, SetJobs, JobsOnly, Ends
<1>3. ASSUME NEW r \in Request, Ask(r) PROVE PhoneInv'
  <2> DEFINE j == Job(link[Device], sess[Device], <<r>>, FALSE)
             S == jobs[Device] \cup {j}
  <2>1. Sets(jobs', jobs, Device, S)
    BY <1>3 DEF Ask, Sets
  <2>2. IsJob(j)
    BY NewJobs
  <2>3. AllJobs(S)
    <3> HIDE DEF j
    <3> QED
      BY <1>1, <2>2 DEF AllJobs, JobsHold
  <2> HIDE DEF S
  <2> QED
    BY <1>1, <2>1, <2>3, SetJobs, JobsOnly, Ends
<1>4. ASSUME NEW j \in jobs[e], SendFails(e, j) PROVE PhoneInv'
  <2> DEFINE S == jobs[e] \ {j}
  <2>1. Sets(jobs', jobs, e, S)
    BY <1>4 DEF SendFails, Sets
  <2>2. e = Device => AllJobs(S)
    BY <1>1 DEF AllJobs, JobsHold
  <2> HIDE DEF S
  <2> QED
    BY <1>1, <2>1, <2>2, SetJobs, JobsOnly
<1> QED
  BY <1>2, <1>3, <1>4

\* The messages the phone sends again are ones it retains.
LEMMA StaleRetained ==
    ASSUME KeptHolds, NEW s, NEW ids \in Stale(Device, s)
    PROVE  IsSeq(ids) /\ ToSet(ids) \subseteq Request
<1> DEFINE K     == kept[Device]
           older == {i \in 1..Len(K) : K[i].sess # s}
           n     == Cardinality(older)
<1>1. IsSeq(K) /\ Len(K) \in Nat /\ ToSet(K) = {K[i] : i \in 1..Len(K)}
  BY SeqIsSeq, Ends DEF KeptHolds, IsWires, IsSeq
<1>2. \A i \in 1..Len(K) : K[i].id \in Request
  BY <1>1 DEF KeptHolds
<1>3. IsFiniteSet(older)
  <2>1. IsFiniteSet(1..Len(K)) /\ older \subseteq 1..Len(K)
    BY <1>1, FS_Interval
  <2> HIDE DEF older
  <2> QED
    BY <2>1, FS_Subset
<1>4. n \in Nat
  BY <1>3, FS_CardinalityType
<1>5. PICK at \in [1..n -> older] : ids = [k \in DOMAIN at |-> K[at[k]].id]
  BY DEF Stale, SetToSeqs
<1> HIDE DEF n
<1>6. ids = [k \in 1..n |-> ids[k]] /\ \A k \in 1..n : ids[k] \in Request
  BY <1>2, <1>5
<1>7. IsSeq(ids) /\ ToSet(ids) = {ids[k] : k \in 1..n}
  BY <1>4, <1>6, ListIsSeq
<1> QED
  BY <1>6, <1>7

\* A job that waited becomes the job of what is stale, or ends.
LEMMA SendAgainHolds ==
    ASSUME PhoneInv, NEW e \in End, NEW j \in jobs[e], SendAgain(e, j) PROVE PhoneInv'
<1>1. /\ UNCHANGED <<kept, lapsed, busy, handled, ran, got, out, in>>
      /\ JobsHold /\ KeptHolds
  BY DEF SendAgain, keepVars, readerVars, phoneVars, wires, PhoneInv, Holding
<1>2. PICK ids \in IF sess[e] = j.sess THEN Stale(e, j.sess) ELSE {<< >>} :
         Sets(jobs', jobs, e, (jobs[e] \ {j})
                                \cup (IF ids = << >> THEN {} ELSE {Job(j.link, j.sess, ids, FALSE)}))
  BY DEF SendAgain, Sets
<1> DEFINE new == Job(j.link, j.sess, ids, FALSE)
           S   == (jobs[e] \ {j}) \cup (IF ids = << >> THEN {} ELSE {new})
<1>3. e = Device => IsSeq(ids) /\ ToSet(ids) \subseteq Request
  BY <1>1, <1>2, StaleRetained, ShortSeqs
<1>4. new.link = j.link /\ new.sess = j.sess /\ new.ids = ids /\ new.waits = FALSE
      /\ new = Job(j.link, j.sess, ids, FALSE)
  BY DEF Job
<1> HIDE DEF new
<1>5. e = Device => AllJobs(S)
  BY <1>1, <1>3, <1>4 DEF AllJobs, JobsHold, IsJob
<1>6. Sets(jobs', jobs, e, S)
  BY <1>2 DEF new
<1> HIDE DEF S
<1> QED
  BY <1>1, <1>5, <1>6, SetJobs, JobsOnly

\* A send by either end, as part of a step that executes nothing.
LEMMA SendStep ==
    ASSUME PhoneInv, NEW e \in End, NEW id, NEW l, Send(e, id, l), e = Device => id \in Request,
           IsWires(in'), ToSet(in'[Agent]) \subseteq ToSet(in[Agent]),
           UNCHANGED <<busy, handled, ran, got>>, JobsHold'
    PROVE  PhoneInv'
<1> DEFINE f == Frame("CIPHER", id, sess[e], sent[e] + 1)
           F == IF e = Device THEN {f} ELSE {}
<1>1. WiresHold /\ KeptHolds /\ IsWires(out) /\ IsWires(in)
  BY DEF PhoneInv, Holding, WiresHold
<1>2. /\ KeptHolds' /\ lapsed \subseteq lapsed' /\ IsWires(out')
      /\ \A m \in Request : Holds(Agent, m) => Holds(Agent, m)' \/ <<Agent, m>> \in lapsed'
      /\ ToSet(out'[Device]) \subseteq ToSet(out[Device]) \cup F
  BY <1>1, SendHolds
<1>3. AllFromPhone(F)
  BY DEF AllFromPhone, FromPhone, Frame
<1> HIDE DEF F
<1>4. WiresHold'
  BY <1>1, <1>2, <1>3, WiresStay
<1>5. KeepsAnswers
  BY <1>2 DEF KeepsAnswers
<1> QED
  BY <1>2, <1>4, <1>5, Assemble DEF PhoneInv, Holding

\* A job sends its next message.
LEMMA TransmitHolds ==
    ASSUME PhoneInv, NEW e \in End, NEW j \in jobs[e], Transmit(e, j) PROVE PhoneInv'
<1>1. /\ Send(e, Head(j.ids), j.link) /\ ~j.waits /\ in' = in /\ JobsHold
      /\ UNCHANGED <<busy, handled, ran, got>>
  BY DEF Transmit, readerVars, phoneVars, PhoneInv, Holding
<1>2. PICK rest \in {Tail(j.ids), << >>} :
         Sets(jobs', jobs, e, (jobs[e] \ {j}) \cup (IF rest = << >> THEN {} ELSE {[j EXCEPT !.ids = rest]}))
  BY DEF Transmit, Sets
<1> DEFINE new == [j EXCEPT !.ids = rest]
           S   == (jobs[e] \ {j}) \cup (IF rest = << >> THEN {} ELSE {new})
<1>3. e = Device => Head(j.ids) \in Request /\ IsSeq(rest) /\ ToSet(rest) \subseteq Request
  <2>1. e = Device => IsSeq(j.ids) /\ ToSet(j.ids) \subseteq Request /\ j.ids # << >>
    BY <1>1 DEF JobsHold, IsJob
  <2>2. e = Device => /\ IsSeq(Tail(j.ids)) /\ ToSet(Tail(j.ids)) \subseteq Request
                      /\ Head(j.ids) \in Request
    BY <2>1, TailHolds
  <2>3. IsSeq(<< >>) /\ ToSet(<< >>) \subseteq Request
    BY ShortSeqs
  <2> QED
    BY <1>2, <2>2, <2>3
<1>4. e = Device => new = Job(j.link, j.sess, rest, j.waits)
  BY <1>1 DEF JobsHold, IsJob, Job
<1> HIDE DEF new
<1>5. e = Device => new.link = j.link /\ new.sess = j.sess /\ new.ids = rest /\ new.waits = j.waits
  BY <1>4 DEF Job
<1>6. e = Device => AllJobs(S)
  BY <1>1, <1>3, <1>4, <1>5 DEF AllJobs, JobsHold, IsJob
<1>7. Sets(jobs', jobs, e, S)
  BY <1>2 DEF new
<1> HIDE DEF S
<1>8. JobsHold'
  BY <1>1, <1>6, <1>7, SetJobs
<1>9. IsWires(in') /\ ToSet(in'[Agent]) \subseteq ToSet(in[Agent])
  BY <1>1 DEF PhoneInv, Holding, WiresHold
<1> QED
  BY <1>1, <1>3, <1>8, <1>9, SendStep

\* The phone publishes its session, and the agent's handshake ends.
LEMMA PublishHolds ==
    ASSUME PhoneInv, DevicePublishes \/ AgentShake PROVE PhoneInv'
<1>1. WiresHold /\ KeptHolds /\ JobsHold
  BY DEF PhoneInv, Holding
<1>2. CASE DevicePublishes
  <2> DEFINE j == Job(link[Device], fresh, << >>, TRUE)
             S == jobs[Device] \cup {j}
  <2>1. /\ Sets(jobs', jobs, Device, S)
        /\ UNCHANGED <<kept, lapsed, busy, handled, ran, got, out, in>>
    BY <1>2 DEF DevicePublishes, Sets, keepVars, readerVars, phoneVars, wires
  <2>2. IsJob(j)
    BY NewJobs
  <2>3. AllJobs(S)
    <3> HIDE DEF j
    <3> QED
      BY <1>1, <2>2 DEF AllJobs, JobsHold
  <2> HIDE DEF S
  <2> QED
    BY <1>1, <2>1, <2>3, SetJobs, JobsOnly, Ends
<1>3. CASE AgentShake
  <2>1. /\ UNCHANGED <<kept, lapsed, busy, handled, ran, got>> /\ in[Agent] # << >> /\ Read
        /\ out' = out \/ \E f, l : out' = Put(out, Agent, l, f)
    BY <1>3, Zenon DEF AgentShake, keepVars, phoneVars, Reads
  <2>2. jobs' = jobs \/ \E S : Sets(jobs', jobs, Agent, S)
    BY <1>3 DEF AgentShake, Sets
  <2>3. JobsHold'
    BY <1>1, <2>2, SetJobs, JobsStay, Ends
  <2>4. WiresHold'
    BY <1>1, <2>1, ReadHolds
  <2>5. KeptHolds' /\ KeepsAnswers
    BY <1>1, <2>1, KeptStay
  <2> QED
    BY <2>1, <2>3, <2>4, <2>5, Assemble DEF PhoneInv, Holding
<1> QED
  BY <1>2, <1>3

-----------------------------------------------------------------------------
(* The readers.                                                            *)

\* A reader takes a frame.
LEMMA TakeIn ==
    ASSUME WiresHold, NEW e \in End, in[e] # << >>, in' = [in EXCEPT ![e] = Tail(@)]
    PROVE  /\ IsWires(in') /\ ToSet(in'[Agent]) \subseteq ToSet(in[Agent])
           /\ Head(in[e]) \in ToSet(in[e])
<1>1. Sets(in', in, e, Tail(in[e])) /\ IsWires(in)
  BY DEF Sets, WiresHold
<1> QED
  BY <1>1, TakeEither, Ends

\* Settling a delivery, at either end.
LEMMA SettleHolds ==
    ASSUME KeptHolds, NEW e \in End, NEW id, Sets(kept', kept, e, Without(e, id))
    PROVE  /\ KeptHolds'
           /\ \A m \in Request : Holds(Agent, m) /\ (e = Agent => m # id) => Holds(Agent, m)'
<1> DEFINE s == Without(e, id)
<1>1. /\ IsSeq(s) /\ ToSet(s) \subseteq ToSet(kept[e])
      /\ \A d \in ToSet(kept[e]) : d.id # id => d \in ToSet(s)
  BY WithoutHolds
<1>2. Sets(kept', kept, e, s)
  OBVIOUS
<1> HIDE DEF s
<1>3. \A d \in ToSet(s) : IsEntry(d) /\ (e = Device => d.id \in Request)
  BY <1>1 DEF KeptHolds
<1>4. KeptHolds' /\ kept'[e] = s /\ \A d \in End : d # e => kept'[d] = kept[d]
  BY <1>1, <1>2, <1>3, SetKept
<1>5. KeptHolds'
  BY <1>4
<1>6. \A m \in Request : Holds(Agent, m)' <=> \E c \in ToSet(kept'[Agent]) : c.id = m
  <2>1. HeldById'
    BY <1>5, HoldsIds, PTL
  <2> QED
    BY <2>1 DEF HeldById, Agent
<1>7. \A m \in Request : Holds(Agent, m) <=> \E c \in ToSet(kept[Agent]) : c.id = m
  BY HoldsIds DEF HeldById
<1>8. ASSUME NEW m \in Request, Holds(Agent, m), e = Agent => m # id PROVE Holds(Agent, m)'
  <2>1. PICK c \in ToSet(kept[Agent]) : c.id = m
    BY <1>7, <1>8
  <2>2. c \in ToSet(kept'[Agent])
    BY <1>1, <1>4, <1>8, <2>1, Ends
  <2> QED
    BY <1>6, <2>1, <2>2
<1> QED
  BY <1>5, <1>8

\* ACK and DELIVERY_EXPIRED at the agent: the phone's application has the message, or
\* it was given up.
LEMMA AgentSettlesHolds ==
    ASSUME PhoneInv, AgentSettles PROVE PhoneInv'
<1> DEFINE f == Head(in[Agent])
<1>1. /\ in[Agent] # << >> /\ Read /\ f.t \in {"ACK", "EXPIRED"}
      /\ Sets(kept', kept, Agent, Without(Agent, f.id))
      /\ lapsed' = IF f.t = "EXPIRED" /\ Holds(Agent, f.id)
                   THEN lapsed \cup {<<Agent, f.id>>} ELSE lapsed
      /\ jobs' = jobs /\ out' = out /\ UNCHANGED <<busy, handled, ran, got>>
  BY DEF AgentSettles, Reads, Arrived, Sets, readerVars, phoneVars
<1>2. WiresHold /\ KeptHolds /\ JobsHold
  BY DEF PhoneInv, Holding
<1>3. f \in ToSet(in[Agent])
  BY <1>1, <1>2, TakeIn, Ends DEF Read
<1>4. f.t = "ACK" => f.id \in got
  BY <1>2, <1>3 DEF WiresHold, FromPhone
<1>5. /\ KeptHolds'
      /\ \A m \in Request : Holds(Agent, m) /\ m # f.id => Holds(Agent, m)'
  BY <1>1, <1>2, SettleHolds, Ends
<1> HIDE DEF f
<1>6. KeepsAnswers
  BY <1>1, <1>4, <1>5 DEF KeepsAnswers
<1>7. WiresHold'
  BY <1>1, <1>2, ReadHolds
<1>8. JobsHold'
  BY <1>1, <1>2, JobsStay
<1> QED
  BY <1>1, <1>5, <1>6, <1>7, <1>8, Assemble DEF PhoneInv, Holding

\* What the phone settles or lets expire is none of the agent's.
LEMMA DeviceSettlesHolds ==
    ASSUME PhoneInv, DeviceSettles \/ \E id \in Msg : DeviceExpires(id) PROVE PhoneInv'
<1>1. WiresHold /\ KeptHolds /\ JobsHold
  BY DEF PhoneInv, Holding
<1>2. /\ jobs' = jobs /\ out' = out /\ UNCHANGED <<busy, handled, ran, got>>
      /\ lapsed \subseteq lapsed'
      /\ kept' = kept \/ \E id : Sets(kept', kept, Device, Without(Device, id))
  <2>1. CASE DeviceSettles
    BY <2>1 DEF DeviceSettles, Sets, readerVars, phoneVars
  <2>2. CASE \E id \in Msg : DeviceExpires(id)
    BY <2>2 DEF DeviceExpires, Sets, readerVars, phoneVars, wires
  <2> QED
    BY <2>1, <2>2
<1>3. KeptHolds' /\ KeepsAnswers
  <2>1. CASE kept' = kept
    BY <1>1, <1>2, <2>1 DEF KeptHolds, KeepsAnswers, Holds
  <2>2. CASE \E id : Sets(kept', kept, Device, Without(Device, id))
    <3>1. KeptHolds' /\ \A m \in Request : Holds(Agent, m) => Holds(Agent, m)'
      BY <1>1, <2>2, SettleHolds, Ends
    <3> QED
      BY <1>2, <3>1 DEF KeepsAnswers
  <2> QED
    BY <1>2, <2>1, <2>2
<1>4. WiresHold'
  <2>1. CASE DeviceSettles
    <3>1. in[Device] # << >> /\ DeviceRead
      BY <2>1 DEF DeviceSettles, DeviceReads
    <3>2. FromPhone(Shake("PEER", 0), got')
      BY PlainFrames DEF Plain, FromPhone
    <3> QED
      BY <1>1, <1>2, <3>1, <3>2, DeviceReadHolds
  <2>2. CASE \E id \in Msg : DeviceExpires(id)
    BY <1>1, <1>2, <2>2 DEF DeviceExpires, wires, WiresHold
  <2> QED
    BY <2>1, <2>2
<1>5. JobsHold'
  BY <1>1, <1>2, JobsStay
<1> QED
  BY <1>2, <1>3, <1>4, <1>5, Assemble DEF PhoneInv, Holding

\* QUEUED marks a delivery.
LEMMA AgentQueuedHolds ==
    ASSUME PhoneInv, AgentQueued PROVE PhoneInv'
<1> DEFINE K  == kept[Agent]
           id == Arrived.id
           s  == [i \in 1..Len(K) |-> IF K[i].id = id THEN [K[i] EXCEPT !.queued = TRUE] ELSE K[i]]
<1>1. /\ in[Agent] # << >> /\ Read /\ Sets(kept', kept, Agent, s)
      /\ jobs' = jobs /\ out' = out /\ lapsed' = lapsed /\ UNCHANGED <<busy, handled, ran, got>>
  BY Zenon DEF AgentQueued, Reads, Sets, phoneVars
<1>2. WiresHold /\ KeptHolds /\ JobsHold
  BY DEF PhoneInv, Holding
<1>3. /\ IsSeq(K) /\ \A d \in ToSet(K) : IsEntry(d)
      /\ Len(K) \in Nat /\ ToSet(K) = {K[i] : i \in 1..Len(K)}
  BY <1>2, SeqIsSeq, Ends DEF KeptHolds, IsWires, IsSeq
<1>4. ASSUME NEW i \in 1..Len(K) PROVE IsEntry(s[i]) /\ s[i].id = K[i].id
  <2>1. IsEntry(K[i])
    BY <1>3
  <2>2. CASE K[i].id = id
    <3>1. s[i] = [id |-> K[i].id, sess |-> K[i].sess, queued |-> TRUE]
      BY <2>1, <2>2 DEF IsEntry
    <3> HIDE DEF s
    <3> QED
      BY <3>1 DEF IsEntry
  <2>3. CASE K[i].id # id
    BY <2>1, <2>3
  <2> QED
    BY <2>2, <2>3
<1>5. s = [i \in 1..Len(K) |-> s[i]]
  OBVIOUS
<1> HIDE DEF s
<1>6. IsSeq(s) /\ ToSet(s) = {s[i] : i \in 1..Len(K)}
  BY <1>3, <1>5, ListIsSeq
<1>7. \A d \in ToSet(s) : IsEntry(d) /\ (Agent = Device => d.id \in Request)
  BY <1>4, <1>6, Ends
<1>8. KeptHolds' /\ kept'[Agent] = s
  BY <1>1, <1>2, <1>6, <1>7, SetKept, Ends
<1>9. KeptHolds'
  BY <1>8
<1>10. \A m \in Request : Holds(Agent, m)' <=> \E c \in ToSet(kept'[Agent]) : c.id = m
  <2>1. HeldById'
    BY <1>9, HoldsIds, PTL
  <2> QED
    BY <2>1 DEF HeldById, Agent
<1>11. \A m \in Request : Holds(Agent, m) => Holds(Agent, m)'
  BY <1>4, <1>6, <1>8, <1>10 DEF Holds
<1>12. KeepsAnswers
  BY <1>1, <1>11 DEF KeepsAnswers
<1>13. WiresHold'
  BY <1>1, <1>2, ReadHolds
<1>14. JobsHold'
  BY <1>1, <1>2, JobsStay
<1> QED
  BY <1>1, <1>9, <1>12, <1>13, <1>14, Assemble DEF PhoneInv, Holding

\* A RESEND is answered under the session of now, or declined.
LEMMA ResendHolds ==
    ASSUME PhoneInv, AgentResend \/ DeviceResend PROVE PhoneInv'
<1>1. WiresHold /\ KeptHolds /\ JobsHold
  BY DEF PhoneInv, Holding
<1>2. jobs' = jobs /\ UNCHANGED <<busy, handled, ran, got>>
  BY DEF AgentResend, DeviceResend, readerVars, phoneVars
<1>3. JobsHold'
  BY <1>1, <1>2, JobsStay
<1>4. CASE AgentResend
  <2> DEFINE id == Head(in[Agent]).id
  <2>1. in[Agent] # << >> /\ Read
    BY <1>4 DEF AgentResend, Reads
  <2>2. \/ /\ UNCHANGED <<kept, lapsed>>
           /\ out' = out \/ \E f, l : out' = Put(out, Agent, l, f)
        \/ Send(Agent, id, link[Agent])
    BY <1>4, Zenon DEF AgentResend, keepVars, Arrived
  <2>3. CASE UNCHANGED <<kept, lapsed>> /\ (out' = out \/ \E f, l : out' = Put(out, Agent, l, f))
    <3>1. WiresHold'
      BY <1>1, <1>2, <2>1, <2>3, ReadHolds
    <3>2. FramesOnly
      BY <1>2, <2>3 DEF FramesOnly
    <3> QED
      BY <3>1, <3>2, FramesStep
  <2>4. CASE Send(Agent, id, link[Agent])
    <3>1. IsWires(in') /\ ToSet(in'[Agent]) \subseteq ToSet(in[Agent])
      BY <1>1, <2>1, TakeIn, Ends DEF Read
    <3> HIDE DEF id
    <3> QED
      BY <1>2, <1>3, <2>4, <3>1, SendStep, Ends
  <2> QED
    BY <2>2, <2>3, <2>4
<1>5. CASE DeviceResend
  <2> DEFINE id == Head(in[Device]).id
             f  == About("DECLINED", id)
  <2>1. in[Device] # << >> /\ DeviceRead
    BY <1>5 DEF DeviceResend, DeviceReads
  <2>2. \/ UNCHANGED <<kept, lapsed>> /\ \E l : out' = Put(out, Device, l, f)
        \/ Holds(Device, id) /\ Send(Device, id, link[Device])
    BY <1>5, Zenon DEF DeviceResend, keepVars, DeviceArrived
  <2>3. FromPhone(f, got')
    BY PlainFrames DEF Plain, FromPhone
  <2>4. Holds(Device, id) => id \in Request
    BY <1>1, HoldsId, Ends DEF KeptHolds
  <2> HIDE DEF id, f
  <2>5. CASE UNCHANGED <<kept, lapsed>> /\ \E l : out' = Put(out, Device, l, f)
    <3>1. WiresHold'
      BY <1>1, <1>2, <2>1, <2>3, <2>5, DeviceReadHolds
    <3>2. FramesOnly
      BY <1>2, <2>5 DEF FramesOnly
    <3> QED
      BY <3>1, <3>2, FramesStep
  <2>6. CASE Holds(Device, id) /\ Send(Device, id, link[Device])
    <3>1. IsWires(in') /\ ToSet(in'[Agent]) \subseteq ToSet(in[Agent])
      BY <1>1, <2>1, TakeIn, Ends DEF DeviceRead
    <3> QED
      BY <1>2, <1>3, <2>4, <2>6, <3>1, SendStep, Ends
  <2> QED
    BY <2>2, <2>5, <2>6
<1> QED
  BY <1>4, <1>5

\* A message opened by the phone is its application's before it is acknowledged.
LEMMA DeviceCipherHolds ==
    ASSUME PhoneInv, DeviceCipher PROVE PhoneInv'
<1> DEFINE f == About("ACK", DeviceArrived.id)
<1>1. /\ in[Device] # << >> /\ DeviceRead /\ got' = got \cup {DeviceArrived.id}
      /\ \E l : out' = Put(out, Device, l, f)
      /\ kept' = kept /\ lapsed' = lapsed /\ jobs' = jobs /\ UNCHANGED <<busy, handled, ran>>
  BY DEF DeviceCipher, DeviceReads, keepVars, readerVars
<1>2. got \subseteq got' /\ FromPhone(f, got')
  BY <1>1 DEF FromPhone, About, Frame
<1> HIDE DEF f
<1>3. WiresHold /\ KeptHolds /\ JobsHold
  BY DEF PhoneInv, Holding
<1>4. WiresHold'
  BY <1>1, <1>2, <1>3, DeviceReadHolds
<1>5. KeptHolds' /\ KeepsAnswers
  BY <1>1, <1>2, <1>3, KeptStay
<1>6. JobsHold'
  BY <1>1, <1>3, JobsStay
<1> QED
  BY <1>1, <1>4, <1>5, <1>6, Assemble DEF PhoneInv, Holding

\* A request opened by the agent is acknowledged before it is executed.
LEMMA AgentCipherHolds ==
    ASSUME PhoneInv, AgentCipher PROVE PhoneInv'
<1>1. /\ in[Agent] # << >> /\ Read /\ Head(in[Agent]).t = "CIPHER"
      /\ busy' = busy \/ busy' = Head(in[Agent]).id
      /\ out' = out \/ \E f, l : out' = Put(out, Agent, l, f)
      /\ kept' = kept /\ lapsed' = lapsed /\ jobs' = jobs /\ UNCHANGED <<handled, ran, got>>
  BY Zenon DEF AgentCipher, Reads, Arrived, keepVars, phoneVars
<1>2. WiresHold /\ KeptHolds /\ JobsHold /\ busy \in Request \cup {None}
  BY DEF PhoneInv, Holding
<1>3. Head(in[Agent]) \in ToSet(in[Agent])
  BY <1>1, <1>2, TakeIn, Ends DEF Read
<1>4. busy' \in Request \cup {None}
  BY <1>1, <1>2, <1>3 DEF WiresHold, FromPhone
<1>5. WiresHold'
  BY <1>1, <1>2, ReadHolds
<1>6. KeptHolds' /\ KeepsAnswers
  BY <1>1, <1>2, KeptStay
<1>7. JobsHold'
  BY <1>1, <1>2, JobsStay
<1> QED
  BY <1>1, <1>4, <1>5, <1>6, <1>7, Assemble

\* A request that is not remembered is executed, and its answer is retained.
LEMMA AgentAnswersHolds ==
    ASSUME PhoneInv, AgentAnswers PROVE PhoneInv'
<1>1. /\ busy \in Request /\ busy' = None /\ Send(Agent, busy, link[Agent])
      /\ in' = in /\ jobs' = jobs /\ got' = got
  BY DEF AgentAnswers, PhoneInv, Holding, phoneVars
<1>2. WiresHold /\ KeptHolds /\ JobsHold /\ ran \in [Request -> Nat] /\ IsWires(out) /\ IsWires(in)
  BY DEF PhoneInv, Holding, WiresHold
<1>3. /\ KeptHolds' /\ lapsed \subseteq lapsed' /\ IsWires(out')
      /\ \A m \in Request : Holds(Agent, m) => Holds(Agent, m)' \/ <<Agent, m>> \in lapsed'
      /\ ToSet(out'[Device]) \subseteq ToSet(out[Device])
  BY <1>1, <1>2, SendHolds, Ends
<1>4. PICK r \in Request : r = busy
  BY <1>1
<1>5. Holds(Agent, r)' \/ <<Agent, r>> \in lapsed'
  <2>1. Send(Agent, r, link[Agent])
    BY <1>1, <1>4
  <2> QED
    BY <1>2, <2>1, SendHolds, Ends
<1>6. \/ /\ Contains(handled, r) /\ ran' = ran /\ handled' = handled
      \/ /\ ~Contains(handled, r) /\ ran' = [ran EXCEPT ![r] = @ + 1]
         /\ handled' = Remember(r)
  BY <1>4 DEF AgentAnswers
<1>7. ran' \in [Request -> Nat] /\ \A q \in Request : q # r => ran'[q] = ran[q]
  BY <1>2, <1>6
<1>8. AnswerKept'
  <2>1. ASSUME NEW q \in Request, ran'[q] > 0
        PROVE  q \in got' \/ Holds(Agent, q)' \/ <<Agent, q>> \in lapsed'
    <3>1. CASE q = r
      BY <1>5, <3>1
    <3>2. CASE q # r
      <4>1. q \in got \/ Holds(Agent, q) \/ <<Agent, q>> \in lapsed
        BY <1>7, <2>1, <3>2 DEF PhoneInv, AnswerKept
      <4> QED
        BY <1>1, <1>3, <4>1
    <3> QED
      BY <3>1, <3>2
  <2> QED
    BY <2>1 DEF AnswerKept
<1>9. Remembers'
  <2>1. /\ IsFiniteSet(Executed) /\ IsSeq(handled) /\ Len(handled) \in Nat
        /\ ToSet(handled) = {handled[i] : i \in 1..Len(handled)}
        /\ Cardinality(Executed) \in Nat /\ HandledLimit \in Nat
    <3>1. IsFiniteSet(Executed) /\ IsSeq(handled)
      BY DEF PhoneInv, Remembers
    <3>2. handled \in Seq(ToSet(handled))
      BY <3>1 DEF IsSeq
    <3>3. Len(handled) \in Nat /\ ToSet(handled) = {handled[i] : i \in 1..Len(handled)}
      BY <3>2, SeqIsSeq
    <3>4. Cardinality(Executed) \in Nat
      BY <3>1, FS_CardinalityType
    <3> QED
      BY <3>1, <3>3, <3>4, PhoneAssumption
  <2>2. Contains(handled, r) <=> r \in ToSet(handled)
    BY <2>1 DEF Contains
  <2>3. CASE ran' = ran /\ handled' = handled
    BY <2>3 DEF PhoneInv, Remembers, Executed, ExecutedOnce
  <2>4. CASE /\ ~Contains(handled, r) /\ ran' = [ran EXCEPT ![r] = @ + 1]
             /\ handled' = Remember(r)
    <3> DEFINE all == Append(handled, r)
    <3>1. Executed' = Executed \cup {r} /\ ran'[r] = ran[r] + 1
      BY <1>2, <1>7, <2>4 DEF Executed
    <3>2. IsFiniteSet(Executed')
      BY <2>1, <3>1, FS_AddElement
    <3>3. IsSeq(all) /\ ToSet(all) = ToSet(handled) \cup {r} /\ Len(all) = Len(handled) + 1
      <4>1. handled \in Seq(ToSet(handled) \cup {r})
        BY <2>1 DEF IsSeq
      <4>2. Len(Append(handled, r)) = Len(handled) + 1
        BY <4>1
      <4>3. /\ IsSeq(Append(handled, r))
            /\ ToSet(Append(handled, r)) = ToSet(handled) \cup {r}
        BY <2>1, GrowHolds
      <4> QED
        BY <4>2, <4>3
    <3> HIDE DEF all
    <3>4. handled' = IF Len(all) > HandledLimit THEN Tail(all) ELSE all
      BY <2>4 DEF Remember, all
    <3>5. IsSeq(handled')
      <4>1. all # << >>
        BY <3>3, ShortSeqs
      <4> QED
        BY <3>3, <3>4, <4>1, TailHolds
    <3>6. ASSUME Cardinality(Executed') <= HandledLimit
          PROVE  /\ \A q \in Request : ran'[q] <= 1
                 /\ ToSet(handled') = Executed' /\ Len(handled') = Cardinality(Executed')
      <4>1. Cardinality(Executed) <= Cardinality(Executed') /\ Cardinality(Executed') \in Nat
        BY <2>1, <3>1, <3>2, FS_Subset, FS_CardinalityType
      <4>2. /\ ExecutedOnce /\ ToSet(handled) = Executed
            /\ Len(handled) = Cardinality(Executed)
        BY <2>1, <3>6, <4>1 DEF PhoneInv, Remembers
      <4>3. r \notin Executed
        BY <2>2, <2>4, <4>2
      <4>4. Cardinality(Executed') = Cardinality(Executed) + 1
        BY <2>1, <3>1, <4>3, FS_AddElement
      <4>5. handled' = all
        BY <2>1, <3>3, <3>4, <3>6, <4>2, <4>4
      <4>6. ran[r] = 0
        BY <1>2, <4>3 DEF Executed
      <4> QED
        BY <1>7, <2>1, <3>1, <3>3, <4>2, <4>4, <4>5, <4>6 DEF ExecutedOnce
    <3> QED
      BY <3>2, <3>5, <3>6 DEF Remembers, ExecutedOnce
  <2> QED
    BY <1>6, <2>3, <2>4
<1>10. WiresHold'
  <2>1. AllFromPhone({})
    BY DEF AllFromPhone
  <2> QED
    BY <1>1, <1>2, <1>3, <2>1, WiresStay
<1>11. JobsHold'
  BY <1>1, <1>2, JobsStay
<1> QED
  BY <1>1, <1>3, <1>7, <1>8, <1>9, <1>10, <1>11 DEF PhoneInv, Holding

-----------------------------------------------------------------------------
(* The theorems.                                                           *)

\* The agent and the phone start with nothing on the wires and nothing retained.
LEMMA PhoneStarts == Init => PhoneInv
<1> SUFFICES ASSUME Init PROVE PhoneInv
  OBVIOUS
<1>1. IsSeq(<< >>) /\ ToSet(<< >>) = {}
  BY ShortSeqs
<1>2. \A e \in End : kept[e] = << >> /\ out[e] = << >> /\ in[e] = << >> /\ jobs[e] = {}
  BY DEF Init
<1>3. IsWires(out) /\ IsWires(in) /\ IsWires(kept)
  BY <1>1 DEF Init, IsWires
<1>4. WiresHold /\ KeptHolds /\ JobsHold
  BY <1>1, <1>2, <1>3, Ends DEF Init, WiresHold, KeptHolds, JobsHold
<1>5. AnswerKept /\ ran \in [Request -> Nat] /\ busy \in Request \cup {None}
  BY DEF Init, AnswerKept
<1>6. Executed = {} /\ handled = << >> /\ ExecutedOnce
  BY DEF Init, Executed, ExecutedOnce
<1>7. Remembers
  BY <1>1, <1>6, FS_EmptySet DEF Remembers
<1> QED
  BY <1>4, <1>5, <1>7 DEF PhoneInv, Holding

\* Every step keeps the invariant.
LEMMA PhoneSteps ==
    ASSUME PhoneInv, [Next]_vars PROVE PhoneInv'
<1>1. CASE AgentStep
  BY <1>1, DialHolds, DropsHold, ShakeHolds, PublishHolds, AgentQueuedHolds, AgentCipherHolds,
     AgentAnswersHolds, AgentSettlesHolds, ResendHolds DEF AgentStep, AgentNotices, AgentRejects
<1>2. CASE HandshakeLimit
  BY <1>2, DropsHold DEF HandshakeLimit
<1>3. CASE DeviceStep
  BY <1>3, ConnectHolds, DropsHold, ShakeHolds, PublishHolds, DeviceCipherHolds,
     DeviceSettlesHolds, ResendHolds DEF DeviceStep, DeviceNotices, DeviceRejects
<1>4. CASE BrokerStep
  BY <1>4, BrokerHolds
<1>5. ASSUME NEW e \in End, JobStep(e) \/ Cut(e) PROVE PhoneInv'
  BY <1>5, CutHolds, TransmitHolds, BeginHolds, SendAgainHolds DEF JobStep
<1>6. CASE (\E u \in Unit : Deliver(u)) \/ \E r \in Request : Ask(r)
  BY <1>6, BeginHolds, Ends
<1>7. CASE DeviceForgets \/ UNCHANGED vars
  <2>1. FramesOnly /\ out' = out /\ in' = in
    BY <1>7 DEF DeviceForgets, vars, keepVars, readerVars, phoneVars, wires, FramesOnly
  <2>2. WiresHold'
    BY <2>1 DEF PhoneInv, Holding, WiresHold, FramesOnly
  <2> QED
    BY <2>1, <2>2, FramesStep
<1>8. ASSUME NEW id \in Msg, DeviceExpires(id) \/ BrokerExpires(id) PROVE PhoneInv'
  BY <1>8, DeviceSettlesHolds, BrokerExpiresHolds
<1> QED
  BY <1>1, <1>2, <1>3, <1>4, <1>5, <1>6, <1>7, <1>8 DEF Next

\* The answer to an executed request has reached the phone's application, is retained by
\* the agent, or was given up on the broker's word or for room, over every loss of a
\* session or a connection and every order of frames and retries (client.go, deliver,
\* Send and the frames serve takes).
THEOREM AnswersAreKept == Spec => []AnswerKept
<1>1. PhoneInv /\ [Next]_vars => PhoneInv'
  BY PhoneSteps
<1>2. PhoneInv => AnswerKept
  BY DEF PhoneInv
<1> QED
  BY PhoneStarts, <1>1, <1>2, PTL DEF Spec

\* As long as the agent has executed no more requests than it remembers answers
\* (rememberHandled keeps 1024), none was executed twice, however often the phone, the
\* broker and the network brought it.
THEOREM RequestsRunOnce ==
    Spec => [](Cardinality({r \in Request : ran[r] > 0}) <= HandledLimit => ExecutedOnce)
<1>1. PhoneInv /\ [Next]_vars => PhoneInv'
  BY PhoneSteps
<1>2. PhoneInv => (Cardinality({r \in Request : ran[r] > 0}) <= HandledLimit => ExecutedOnce)
  BY DEF PhoneInv, Remembers, Executed
<1> QED
  BY PhoneStarts, <1>1, <1>2, PTL DEF Spec

=============================================================================
