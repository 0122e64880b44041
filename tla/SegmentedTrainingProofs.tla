------------------------ MODULE SegmentedTrainingProofs ------------------------
(***************************************************************************)
(* Why the fragments of a rollout train on each message of the actor once, *)
(* after the context it was generated from, and fit the context of the     *)
(* engine, and why its context forgets nothing, for every task, every size *)
(* of turn and any number of cleanups.                                     *)
(*                                                                         *)
(* Layout: sequences; a request and its fragments; what closing a          *)
(* fragment, a cleanup and the steps of a turn keep; two theorems on what  *)
(* is trained; sums of sizes; what each step leaves in the context; the    *)
(* theorem on sizes; how often the context tells each message, after gluing *)
(* pieces, after a cleanup and after each step; the theorem on memory.  What *)
(* a cleanup puts into the new context does not matter for the first two   *)
(* (the next fragment starts behind it); only its size does for the third; *)
(* the fourth is about just that.  Then sums of weights and the theorem on *)
(* the credit of an answer; at the end how the turns lie in a fragment, the *)
(* units in their order and the theorem on the credit of split rollouts.   *)
(***************************************************************************)
EXTENDS SegmentedTraining, SequenceTheorems, FiniteSetTheorems,
        WellFoundedInduction, TLAPS

-----------------------------------------------------------------------------
(* Numbers and sequences *)

\* A nonempty set of naturals has a least element.
LEMMA LeastNatural ==
    ASSUME NEW T, T \subseteq Nat, T # {}
    PROVE  \E m \in T : \A n \in T : m <= n
<1>1. PICK m \in T : \A n \in T : ~(<<n, m>> \in OpToRel(<, Nat))
  BY NatLessThanWellFounded, WFMin
<1>2. OpToRel(<, Nat) = {ss \in Nat \X Nat : ss[1] < ss[2]}
  BY DEF OpToRel
<1>3. ASSUME NEW n \in T PROVE m <= n
  <2>1. <<n, m>> \in Nat \X Nat
    OBVIOUS
  <2>2. ~(n < m)
    BY <1>1, <1>2, <2>1
  <2>3. QED
    BY <2>2
<1>4. QED
  BY <1>3

\* A set of naturals that has 0 and the successors of its members has them all.
LEMMA InductionOnNaturals ==
    ASSUME NEW Good \in SUBSET Nat, 0 \in Good, \A n \in Good : n + 1 \in Good
    PROVE  Good = Nat
<1> SUFFICES ASSUME Nat \ Good # {} PROVE FALSE
  OBVIOUS
<1>1. PICK m \in Nat \ Good : \A n \in Nat \ Good : m <= n
  <2>1. Nat \ Good \subseteq Nat
    OBVIOUS
  <2>2. QED
    BY <2>1, LeastNatural
<1>2. m # 0 /\ m - 1 \in Nat
  BY <1>1
<1>3. m - 1 \in Good
  BY <1>1, <1>2
<1>4. (m - 1) + 1 \in Good
  BY <1>3
<1>5. QED
  BY <1>1, <1>4

IsSeq(s) == \E X : s \in Seq(X)

LEMMA EmptyIsSeq == IsSeq(<<>>)
BY DEF IsSeq

LEMMA SequenceFacts ==
    ASSUME NEW s, IsSeq(s)
    PROVE  /\ Len(s) \in Nat /\ DOMAIN s = 1..Len(s)
           /\ s = <<>> <=> Len(s) = 0
<1>1. PICK X : s \in Seq(X)
  BY DEF IsSeq
<1>2. QED
  BY <1>1

LEMMA AppendFacts ==
    ASSUME NEW s, IsSeq(s), NEW x
    PROVE  /\ IsSeq(Append(s, x))
           /\ Len(Append(s, x)) = Len(s) + 1
           /\ DOMAIN Append(s, x) = 1..(Len(s) + 1)
           /\ Append(s, x)[Len(s) + 1] = x
           /\ \A i \in 1..Len(s) : Append(s, x)[i] = s[i]
<1>1. PICK X : s \in Seq(X)
  BY DEF IsSeq
<1>2. s \in Seq(X \cup {x}) /\ x \in X \cup {x}
  BY <1>1
<1>3. Append(s, x) \in Seq(X \cup {x})
  BY <1>2
<1>4. QED
  BY <1>2, <1>3 DEF IsSeq

LEMMA SubSeqFacts ==
    ASSUME NEW s, IsSeq(s), NEW m \in Nat \ {0}, NEW n \in Nat, n <= Len(s)
    PROVE  LET u == SubSeq(s, m, n)
           IN  /\ IsSeq(u)
               /\ Len(u) = IF m <= n THEN n - m + 1 ELSE 0
               /\ \A i \in 1..Len(u) : u[i] = s[m + i - 1]
<1>1. PICK X : s \in Seq(X)
  BY DEF IsSeq
<1>2. \A i \in m..n : s[i] \in X
  BY <1>1
<1>3. QED
  BY <1>2, SubSeqProperties DEF IsSeq

\* What precedes the i-th element of a fragment's response is what preceded it
\* in the context the fragment was cut from.
LEMMA CutInTwo ==
    ASSUME NEW s, IsSeq(s), NEW p \in Nat, NEW c \in Nat, p <= c, c <= Len(s),
           NEW i \in 1..(c - p)
    PROVE  SubSeq(s, 1, p) \o SubSeq(SubSeq(s, p + 1, c), 1, i - 1)
             = SubSeq(s, 1, p + i - 1)
<1>1. PICK X : s \in Seq(X)
  BY DEF IsSeq
<1> DEFINE a == SubSeq(s, 1, p)
           b == SubSeq(s, p + 1, c)
           d == SubSeq(b, 1, i - 1)
<1>2. \A j \in 1..Len(s) : s[j] \in X
  BY <1>1
<1>3. a \in Seq(X) /\ Len(a) = p /\ \A j \in 1..p : a[j] = s[j]
  BY <1>2, SubSeqProperties
<1>4. b \in Seq(X) /\ Len(b) = c - p /\ \A j \in 1..(c - p) : b[j] = s[p + j]
  <2>1. /\ b \in Seq(X)
        /\ Len(b) = IF p + 1 <= c THEN c - (p + 1) + 1 ELSE 0
        /\ \A j \in 1..(c - (p + 1) + 1) : b[j] = s[(p + 1) + j - 1]
    BY <1>1, <1>2, SubSeqProperties
  <2> HIDE DEF b
  <2>2. QED
    BY <2>1
<1> HIDE DEF a, b
<1>5. d \in Seq(X) /\ Len(d) = i - 1 /\ \A j \in 1..(i - 1) : d[j] = b[j]
  BY <1>4, SubSeqProperties
<1> HIDE DEF d
<1> DEFINE t == SubSeq(s, 1, p + i - 1)
<1>6. t \in Seq(X) /\ Len(t) = p + i - 1 /\ \A j \in 1..(p + i - 1) : t[j] = s[j]
  BY <1>2, SubSeqProperties
<1> HIDE DEF t
<1>7. /\ a \o d \in Seq(X) /\ Len(a \o d) = p + (i - 1)
      /\ \A j \in 1..(p + (i - 1)) : (a \o d)[j] = IF j <= p THEN a[j] ELSE d[j - p]
  <2>1. /\ a \o d \in Seq(X) /\ Len(a \o d) = Len(a) + Len(d)
        /\ \A j \in 1..(Len(a) + Len(d)) :
             (a \o d)[j] = IF j <= Len(a) THEN a[j] ELSE d[j - Len(a)]
    BY <1>3, <1>5, ConcatProperties
  <2>2. Len(a) = p /\ Len(d) = i - 1
    BY <1>3, <1>5
  <2>3. QED
    BY <2>1, <2>2, Zenon
<1>8. \A j \in 1..(p + i - 1) : (a \o d)[j] = t[j]
  <2> SUFFICES ASSUME NEW j \in 1..(p + i - 1) PROVE (a \o d)[j] = t[j]
    OBVIOUS
  <2>0. (a \o d)[j] = IF j <= p THEN a[j] ELSE d[j - p]
    BY <1>7
  <2>1. CASE j <= p
    <3>1. j \in 1..p
      BY <2>1
    <3>2. QED
      BY <1>3, <1>6, <2>0, <2>1, <3>1
  <2>2. CASE ~(j <= p)
    <3>1. j - p \in 1..(i - 1) /\ j - p \in 1..(c - p) /\ p + (j - p) = j
      BY <2>2
    <3>2. d[j - p] = s[j]
      BY <1>4, <1>5, <3>1
    <3>3. QED
      BY <1>6, <2>0, <2>2, <3>2
  <2>3. QED
    BY <2>1, <2>2
<1>9. a \o d = t
  BY <1>6, <1>7, <1>8, SeqEqual
<1>10. QED
  BY <1>9 DEF a, b, d, t

\* Gluing sequences together is done step by step.
LEMMA FlattenSteps ==
    ASSUME NEW X, NEW ss \in Seq(Seq(X))
    PROVE  \E f : /\ \A i \in 1..Len(ss) :
                       f[i] = IF i = 1 THEN ss[i] ELSE f[i - 1] \o ss[i]
                 /\ FlattenSeq(ss) = IF Len(ss) = 0 THEN <<>> ELSE f[Len(ss)]
<1> DEFINE n == Len(ss)
           Next1(h, i) == IF i = 1 THEN ss[i] ELSE h[i - 1] \o ss[i]
           Good == {k \in Nat : \E h \in [1..n -> Seq(X)] :
                                  \A i \in 1..n : i <= k => h[i] = Next1(h, i)}
<1>1. n \in Nat /\ \A i \in 1..n : ss[i] \in Seq(X)
  OBVIOUS
<1> HIDE DEF n
<1>2. 0 \in Good
  <2> DEFINE h == [i \in 1..n |-> ss[i]]
  <2>1. h \in [1..n -> Seq(X)]
    BY <1>1
  <2>2. \A i \in 1..n : ~(i <= 0)
    OBVIOUS
  <2> HIDE DEF h, Next1
  <2>3. QED
    BY <2>1, <2>2
<1>3. ASSUME NEW k \in Good PROVE k + 1 \in Good
  <2>0. k \in Nat
    OBVIOUS
  <2>1. PICK h \in [1..n -> Seq(X)] : \A i \in 1..n : i <= k => h[i] = Next1(h, i)
    OBVIOUS
  <2> DEFINE g == [i \in 1..n |-> IF i <= k THEN h[i] ELSE Next1(h, i)]
  <2>2. \A i \in 1..n : Next1(h, i) \in Seq(X)
    <3> SUFFICES ASSUME NEW i \in 1..n PROVE Next1(h, i) \in Seq(X)
      OBVIOUS
    <3>1. CASE i = 1
      BY <1>1, <3>1
    <3>2. CASE i # 1
      <4>0. i - 1 \in 1..n
        BY <1>1, <3>2
      <4>1. h[i - 1] \in Seq(X) /\ ss[i] \in Seq(X)
        BY <1>1, <2>1, <4>0
      <4>2. h[i - 1] \o ss[i] \in Seq(X)
        BY <4>1
      <4>3. QED
        BY <3>2, <4>2
    <3>3. QED
      BY <3>1, <3>2
  <2>3. g \in [1..n -> Seq(X)]
    BY <2>2
  <2>4. ASSUME NEW i \in 1..n, i <= k + 1 PROVE g[i] = Next1(g, i)
    <3>1. g[i] = Next1(h, i)
      BY <2>1, <2>4
    <3>2. CASE i = 1
      BY <3>1, <3>2
    <3>3. CASE i # 1
      <4>1. i - 1 \in 1..n /\ i - 1 <= k
        BY <1>1, <2>0, <2>4, <3>3
      <4>2. g[i - 1] = h[i - 1]
        BY <4>1
      <4>3. QED
        BY <3>1, <3>3, <4>2
    <3>4. QED
      BY <3>2, <3>3
  <2> HIDE DEF g, Next1
  <2>5. \E e \in [1..n -> Seq(X)] : \A i \in 1..n : i <= k + 1 => e[i] = Next1(e, i)
    BY <2>3, <2>4
  <2>6. k + 1 \in Nat
    BY <2>0
  <2>7. QED
    BY <2>5, <2>6, Zenon
<1>4. Good = Nat
  <2>1. Good \in SUBSET Nat
    OBVIOUS
  <2> HIDE DEF Good
  <2>2. QED
    BY <1>2, <1>3, <2>1, InductionOnNaturals
<1>5. PICK h \in [1..n -> Seq(X)] : \A i \in 1..n : h[i] = Next1(h, i)
  <2>1. n \in Good
    BY <1>1, <1>4
  <2> HIDE DEF Next1
  <2>2. QED
    BY <2>1
<1> DEFINE f == CHOOSE f : f = [i \in 1..n |-> IF i = 1 THEN ss[i] ELSE f[i - 1] \o ss[i]]
<1>6. f = [i \in 1..n |-> Next1(f, i)]
  <2>1. h = [i \in 1..n |-> IF i = 1 THEN ss[i] ELSE h[i - 1] \o ss[i]]
    BY <1>5
  <2>2. QED
    BY <2>1, Zenon
<1>7. FlattenSeq(ss) = IF n = 0 THEN <<>> ELSE f[n]
  BY DEF FlattenSeq, n
<1> HIDE DEF f
<1>8. \A i \in 1..n : f[i] = Next1(f, i)
  BY <1>6
<1>9. QED
  BY <1>7, <1>8 DEF n

\* What is glued together of sequences is one.
LEMMA FlattenType ==
    ASSUME NEW X, NEW ss \in Seq(Seq(X))
    PROVE  FlattenSeq(ss) \in Seq(X)
<1> DEFINE n == Len(ss)
<1>1. n \in Nat /\ \A i \in 1..n : ss[i] \in Seq(X)
  OBVIOUS
<1>2. PICK f : /\ \A i \in 1..n : f[i] = IF i = 1 THEN ss[i] ELSE f[i - 1] \o ss[i]
               /\ FlattenSeq(ss) = IF n = 0 THEN <<>> ELSE f[n]
  BY FlattenSteps
<1> HIDE DEF n
<1> DEFINE Typed == {k \in Nat : \A i \in 1..n : i <= k => f[i] \in Seq(X)}
<1>3. 0 \in Typed
  OBVIOUS
<1>4. ASSUME NEW k \in Typed PROVE k + 1 \in Typed
  <2> SUFFICES ASSUME NEW i \in 1..n, i <= k + 1 PROVE f[i] \in Seq(X)
    OBVIOUS
  <2>1. CASE i = 1
    BY <1>1, <1>2, <2>1
  <2>2. CASE i # 1
    <3>1. f[i - 1] \in Seq(X) /\ ss[i] \in Seq(X)
      BY <1>1, <2>2
    <3>2. f[i] = f[i - 1] \o ss[i]
      BY <1>2, <2>2
    <3>3. QED
      BY <3>1, <3>2
  <2>3. QED
    BY <2>1, <2>2
<1>5. Typed = Nat
  <2>1. Typed \in SUBSET Nat
    OBVIOUS
  <2> HIDE DEF Typed
  <2>2. QED
    BY <1>3, <1>4, <2>1, InductionOnNaturals
<1>6. n # 0 => f[n] \in Seq(X)
  <2>1. n \in Typed
    BY <1>1, <1>5
  <2>2. n # 0 => n \in 1..n /\ n <= n
    BY <1>1
  <2>3. QED
    BY <2>1, <2>2
<1>7. QED
  BY <1>2, <1>6

-----------------------------------------------------------------------------
(* A request and its fragments *)

Fields == {"ledger", "archive", "segment", "records", "past"}

IsSegment(s) ==
    /\ DOMAIN s = {"prompt", "turns", "bounds"}
    /\ s = [k \in {"prompt", "turns", "bounds"} |-> s[k]]
    /\ IsSeq(s.turns) /\ IsSeq(s.bounds)

IsRequest(r) ==
    /\ DOMAIN r = Fields /\ r = [k \in Fields |-> r[k]]
    /\ IsSegment(r.segment)
    /\ IsSeq(r.ledger) /\ IsSeq(r.archive) /\ IsSeq(r.records) /\ IsSeq(r.past)

LEMMA NoSegmentIsSegment == IsSegment(NoSegment)
BY EmptyIsSeq DEF IsSegment, NoSegment

LEMMA ClosedFields ==
    ASSUME NEW r, IsRequest(r), NEW cut
    PROVE  LET c == CloseFragment(r, cut)
           IN  /\ IsRequest(c)
               /\ c.ledger = r.ledger /\ c.archive = r.archive /\ c.past = r.past
               /\ c.segment = NoSegment
<1> DEFINE f == [prompt   |-> SubSeq(r.ledger, 1, r.segment.prompt),
                 response |-> SubSeq(r.ledger, r.segment.prompt + 1, cut),
                 turns    |-> r.segment.turns,
                 bounds   |-> BoundsBelow(r.segment.bounds, cut - r.segment.prompt)]
           g == IF ~Open(r) \/ cut = r.segment.prompt THEN r.records
                ELSE Append(r.records, f)
           c == [r EXCEPT !.segment = NoSegment, !.records = g]
<1>1. CloseFragment(r, cut) = c
  BY DEF CloseFragment, IsRequest, Fields
<1> HIDE DEF f
<1>2. IsSeq(g)
  BY AppendFacts DEF IsRequest
<1> HIDE DEF g
<1>3. /\ DOMAIN c = Fields /\ c = [k \in Fields |-> c[k]]
      /\ c.ledger = r.ledger /\ c.archive = r.archive /\ c.past = r.past
      /\ c.segment = NoSegment /\ c.records = g
  BY DEF IsRequest, Fields
<1> HIDE DEF c
<1>4. IsRequest(c)
  BY <1>2, <1>3, NoSegmentIsSegment DEF IsRequest
<1>5. QED
  BY <1>1, <1>3, <1>4

LEMMA NothingClosed ==
    ASSUME NEW r, IsRequest(r), NEW cut, ~Open(r) \/ cut = r.segment.prompt
    PROVE  CloseFragment(r, cut).records = r.records
BY DEF IsRequest, Fields, CloseFragment

LEMMA OneClosed ==
    ASSUME NEW r, IsRequest(r), NEW cut, Open(r), cut # r.segment.prompt
    PROVE  CloseFragment(r, cut).records =
             Append(r.records, [prompt   |-> SubSeq(r.ledger, 1, r.segment.prompt),
                                response |-> SubSeq(r.ledger, r.segment.prompt + 1, cut),
                                turns    |-> r.segment.turns,
                                bounds   |-> BoundsBelow(r.segment.bounds,
                                               cut - r.segment.prompt)])
BY DEF IsRequest, Fields, CloseFragment

\* The open fragment lies in the context.
Placed(r) == Open(r) => r.segment.prompt \in 0..Len(r.ledger)

\* Where the open fragment carries loss.
Live(r) == {i \in DOMAIN r.ledger :
              Open(r) /\ i > r.segment.prompt /\ r.ledger[i].kind = "actor"}

\* The fragment that a cut closes: its targets and what precedes them.
LEMMA ClosedRecord ==
    ASSUME NEW r, IsRequest(r), Placed(r), Open(r), NEW cut \in 0..Len(r.ledger),
           cut # r.segment.prompt
    PROVE  LET p == r.segment.prompt
           IN  \E f : /\ CloseFragment(r, cut).records = Append(r.records, f)
                      /\ \A i : i \in Trained(f)
                                  <=> i \in 1..(cut - p) /\ p + i \in Live(r)
                      /\ \A i \in Trained(f) :
                           /\ f.response[i] = r.ledger[p + i]
                           /\ f.prompt \o SubSeq(f.response, 1, i - 1)
                                = SubSeq(r.ledger, 1, p + i - 1)
<1> DEFINE p == r.segment.prompt
           a == SubSeq(r.ledger, 1, p)
           b == SubSeq(r.ledger, p + 1, cut)
<1>1. PICK f : /\ CloseFragment(r, cut).records = Append(r.records, f)
               /\ f.prompt = a /\ f.response = b
  <2>1. PICK x : CloseFragment(r, cut).records =
             Append(r.records, [prompt |-> a, response |-> b,
                                turns |-> r.segment.turns, bounds |-> x])
    BY OneClosed
  <2>2. QED
    BY <2>1
<1>2. p \in Nat /\ cut \in Nat /\ cut <= Len(r.ledger) /\ p <= Len(r.ledger)
      /\ IsSeq(r.ledger) /\ DOMAIN r.ledger = 1..Len(r.ledger) /\ Len(r.ledger) \in Nat
  BY SequenceFacts DEF Placed, IsRequest
<1>3. /\ IsSeq(b)
      /\ Len(b) = IF p + 1 <= cut THEN cut - (p + 1) + 1 ELSE 0
      /\ \A i \in 1..Len(b) : b[i] = r.ledger[(p + 1) + i - 1]
  <2>1. p + 1 \in Nat \ {0}
    BY <1>2
  <2> HIDE DEF p
  <2>2. QED
    BY <1>2, <2>1, SubSeqFacts
<1> DEFINE l == r.ledger
<1>4. \A i \in 1..(cut - p) : a \o SubSeq(b, 1, i - 1) = SubSeq(l, 1, p + i - 1)
  <2> SUFFICES ASSUME NEW i \in 1..(cut - p)
               PROVE  a \o SubSeq(b, 1, i - 1) = SubSeq(l, 1, p + i - 1)
    OBVIOUS
  <2>1. p <= cut
    BY <1>2
  <2> HIDE DEF p, l
  <2>2. QED
    BY <1>2, <2>1, CutInTwo DEF l
<1> HIDE DEF a, b, p
<1>5. DOMAIN b = 1..Len(b) /\ \A i : i \in 1..Len(b) <=> i \in 1..(cut - p)
  BY <1>2, <1>3, SequenceFacts
<1>6. \A i \in 1..(cut - p) : b[i] = l[p + i] /\ p + i \in DOMAIN l /\ p + i > p
  <2> SUFFICES ASSUME NEW i \in 1..(cut - p)
               PROVE  b[i] = l[p + i] /\ p + i \in DOMAIN l /\ p + i > p
    OBVIOUS
  <2>1. i \in 1..Len(b) /\ (p + 1) + i - 1 = p + i
    BY <1>2, <1>5
  <2>2. b[i] = l[p + i]
    BY <1>3, <2>1
  <2>3. QED
    BY <1>2, <2>2
<1>7. \A i : i \in Trained(f) <=> i \in 1..(cut - p) /\ p + i \in Live(r)
  <2>1. \A i : i \in Trained(f) <=> i \in 1..(cut - p) /\ b[i].kind = "actor"
    BY <1>1, <1>5 DEF Trained
  <2>2. \A i \in 1..(cut - p) : p + i \in Live(r) <=> l[p + i].kind = "actor"
    BY <1>6 DEF Live, p
  <2>3. QED
    BY <1>6, <2>1, <2>2
<1>8. \A i \in Trained(f) :
        /\ f.response[i] = r.ledger[p + i]
        /\ f.prompt \o SubSeq(f.response, 1, i - 1) = SubSeq(r.ledger, 1, p + i - 1)
  BY <1>1, <1>4, <1>6, <1>7
<1>9. QED
  BY <1>1, <1>7, <1>8 DEF p

\* What is trained on was generated after the context that precedes it.
RecordedAsGenerated(f, g) ==
    \A i \in Trained(f) :
      /\ f.response[i].turn \in 0..(Len(g) - 1)
      /\ f.prompt \o SubSeq(f.response, 1, i - 1) = g[f.response[i].turn + 1]

AllRecordedAsGenerated(fragments, g) ==
    \A k \in DOMAIN fragments : RecordedAsGenerated(fragments[k], g)

AsGenerated(r, g) ==
    /\ AllRecordedAsGenerated(r.records, g)
    /\ \A i \in Live(r) :
         /\ r.ledger[i].turn \in 0..(Len(g) - 1)
         /\ SubSeq(r.ledger, 1, i - 1) = g[r.ledger[i].turn + 1]

\* The closed fragments train on the first messages, the open one on the rest.
InOrder(r, n) ==
    \E m \in 0..n :
      /\ TrainedInOrder(r.records, m)
      /\ \A i \in Live(r) : r.ledger[i].turn \in m..(n - 1)
      /\ \A t \in m..(n - 1) : \E i \in Live(r) : r.ledger[i].turn = t
      /\ \A i, j \in Live(r) : r.ledger[i].turn < r.ledger[j].turn <=> i < j

LEMMA ClosedIsNotLive ==
    ASSUME NEW r, r.segment = NoSegment
    PROVE  ~Open(r) /\ Live(r) = {}
BY DEF Open, Live

LEMMA CloseAsGenerated ==
    ASSUME NEW r, IsRequest(r), Placed(r), NEW g, AsGenerated(r, g),
           NEW cut \in 0..Len(r.ledger)
    PROVE  AsGenerated(CloseFragment(r, cut), g)
<1> DEFINE c == CloseFragment(r, cut)
           Good(f) == RecordedAsGenerated(f, g)
<1>1. Live(c) = {}
  BY ClosedFields, ClosedIsNotLive
<1>2. \A k \in DOMAIN r.records : Good(r.records[k])
  BY DEF AsGenerated, AllRecordedAsGenerated
<1>3. \A k \in DOMAIN c.records : Good(c.records[k])
  <2>1. CASE ~Open(r) \/ cut = r.segment.prompt
    <3>1. c.records = r.records
      BY <2>1, NothingClosed
    <3> HIDE DEF c, Good
    <3>2. QED
      BY <1>2, <3>1
  <2>2. CASE Open(r) /\ cut # r.segment.prompt
    <3> DEFINE p == r.segment.prompt
    <3>1. PICK f : /\ c.records = Append(r.records, f)
                   /\ \A i : i \in Trained(f)
                               <=> i \in 1..(cut - p) /\ p + i \in Live(r)
                   /\ \A i \in Trained(f) :
                        /\ f.response[i] = r.ledger[p + i]
                        /\ f.prompt \o SubSeq(f.response, 1, i - 1)
                             = SubSeq(r.ledger, 1, p + i - 1)
      BY <2>2, ClosedRecord
    <3>2. Good(f)
      <4> SUFFICES ASSUME NEW i \in Trained(f)
                   PROVE  /\ f.response[i].turn \in 0..(Len(g) - 1)
                          /\ f.prompt \o SubSeq(f.response, 1, i - 1)
                               = g[f.response[i].turn + 1]
        BY DEF RecordedAsGenerated
      <4> HIDE DEF p, c, Good
      <4>1. /\ p + i \in Live(r) /\ f.response[i] = r.ledger[p + i]
            /\ f.prompt \o SubSeq(f.response, 1, i - 1) = SubSeq(r.ledger, 1, p + i - 1)
        BY <3>1
      <4>2. /\ r.ledger[p + i].turn \in 0..(Len(g) - 1)
            /\ SubSeq(r.ledger, 1, p + i - 1) = g[r.ledger[p + i].turn + 1]
        <5>1. \A j \in Live(r) : /\ r.ledger[j].turn \in 0..(Len(g) - 1)
                                 /\ SubSeq(r.ledger, 1, j - 1) = g[r.ledger[j].turn + 1]
          BY DEF AsGenerated
        <5>2. PICK j \in Live(r) : j = p + i
          BY <4>1
        <5>3. /\ r.ledger[j].turn \in 0..(Len(g) - 1)
              /\ SubSeq(r.ledger, 1, j - 1) = g[r.ledger[j].turn + 1]
          BY <5>1
        <5>4. p \in Nat /\ i \in Nat
          BY <2>2, <3>1 DEF Placed, p
        <5>5. j - 1 = p + i - 1
          BY <5>2, <5>4
        <5>6. QED
          BY <5>2, <5>3, <5>5, Zenon
      <4>3. QED
        BY <4>1, <4>2, Zenon
    <3>3. /\ DOMAIN c.records = 1..(Len(r.records) + 1)
          /\ c.records[Len(r.records) + 1] = f
          /\ \A k \in 1..Len(r.records) : c.records[k] = r.records[k]
      <4>1. IsSeq(r.records)
        BY DEF IsRequest
      <4> HIDE DEF c
      <4>2. QED
        BY <3>1, <4>1, AppendFacts
    <3>4. DOMAIN r.records = 1..Len(r.records) /\ Len(r.records) \in Nat
      BY SequenceFacts DEF IsRequest
    <3> HIDE DEF c, Good, p
    <3>5. SUFFICES ASSUME NEW k \in DOMAIN c.records PROVE Good(c.records[k])
      OBVIOUS
    <3>6. k \in 1..Len(r.records) \/ k = Len(r.records) + 1
      BY <3>3, <3>4
    <3>7. QED
      BY <1>2, <3>2, <3>3, <3>4, <3>6
  <2>3. QED
    BY <2>1, <2>2
<1>4. QED
  BY <1>1, <1>3 DEF AsGenerated, AllRecordedAsGenerated

\* Closing the fragment behind its last target trains on all messages so far.
LEMMA CloseInOrder ==
    ASSUME NEW r, IsRequest(r), Placed(r), NEW n \in Nat, InOrder(r, n),
           NEW cut \in 0..Len(r.ledger), \A i \in Live(r) : i <= cut
    PROVE  TrainedInOrder(CloseFragment(r, cut).records, n)
<1> DEFINE c == CloseFragment(r, cut)
           turn(i) == r.ledger[i].turn
           p == r.segment.prompt
           K == Len(r.records)
<1>1. PICK m \in 0..n :
        /\ TrainedInOrder(r.records, m)
        /\ \A i \in Live(r) : turn(i) \in m..(n - 1)
        /\ \A t \in m..(n - 1) : \E i \in Live(r) : turn(i) = t
        /\ \A i, j \in Live(r) : turn(i) < turn(j) <=> i < j
  BY DEF InOrder
<1>2. CASE ~Open(r) \/ cut = p
  <2>1. Live(r) = {}
    <3>1. CASE ~Open(r)
      BY <3>1 DEF Live
    <3>2. CASE Open(r) /\ cut = p
      <4>1. p \in Nat
        BY <3>2 DEF Placed
      <4>2. \A i \in Live(r) : i \in Nat /\ i > p
        BY SequenceFacts DEF Live, IsRequest
      <4>3. QED
        BY <3>2, <4>1, <4>2
    <3>3. QED
      BY <1>2, <3>1, <3>2
  <2>2. m = n
    <3>1. CASE m < n
      BY <1>1, <2>1, <3>1
    <3>2. QED
      BY <3>1
  <2>3. c.records = r.records
    BY <1>2, NothingClosed
  <2>4. QED
    BY <1>1, <2>2, <2>3
<1>3. CASE Open(r) /\ cut # p
  <2>1. PICK f : /\ c.records = Append(r.records, f)
                 /\ \A i : i \in Trained(f) <=> i \in 1..(cut - p) /\ p + i \in Live(r)
                 /\ \A i \in Trained(f) : f.response[i] = r.ledger[p + i]
    BY <1>3, ClosedRecord
  <2>2. p \in Nat /\ cut \in Nat
    BY <1>3, SequenceFacts DEF Placed, IsRequest
  <2>3. K \in Nat /\ DOMAIN r.records = 1..K
    BY SequenceFacts DEF IsRequest
  <2>4. /\ DOMAIN c.records = 1..(K + 1)
        /\ c.records[K + 1] = f
        /\ \A k \in 1..K : c.records[k] = r.records[k]
    <3>1. IsSeq(r.records)
      BY DEF IsRequest
    <3> HIDE DEF c
    <3>2. QED
      BY <2>1, <3>1, AppendFacts
  <2>5. \A i \in Trained(f) : /\ i \in Nat /\ p + i \in Live(r)
                              /\ f.response[i].turn = turn(p + i)
                              /\ f.response[i].turn \in m..(n - 1)
    <3>1. \A i \in Trained(f) : /\ i \in Nat /\ p + i \in Live(r)
                                /\ f.response[i].turn = turn(p + i)
      BY <2>1
    <3>2. QED
      BY <1>1, <3>1, Zenon
  <2>6. \A j \in Live(r) : j - p \in Trained(f) /\ f.response[j - p].turn = turn(j)
    <3> SUFFICES ASSUME NEW j \in Live(r)
                 PROVE  j - p \in Trained(f) /\ f.response[j - p].turn = turn(j)
      OBVIOUS
    <3>1. j \in Nat /\ j > p /\ j <= cut
      BY SequenceFacts DEF Live, IsRequest
    <3>2. j - p \in 1..(cut - p) /\ p + (j - p) = j
      BY <2>2, <3>1
    <3>3. QED
      BY <2>1, <3>2
  <2> DEFINE Old(k, i) == r.records[k].response[i].turn
             Turn(k, i) == c.records[k].response[i].turn
  <2>7. /\ \A k \in 1..K : \A i \in Trained(r.records[k]) : Old(k, i) \in 0..(m - 1)
        /\ \A t \in 0..(m - 1) :
             \E k \in 1..K : \E i \in Trained(r.records[k]) : Old(k, i) = t
        /\ \A k, l \in 1..K :
             \A i \in Trained(r.records[k]), j \in Trained(r.records[l]) :
               Old(k, i) < Old(l, j) <=> k < l \/ (k = l /\ i < j)
    BY <1>1, <2>3 DEF TrainedInOrder
  <2>8. \A i, j \in Trained(f) : f.response[i].turn < f.response[j].turn <=> i < j
    <3> SUFFICES ASSUME NEW i \in Trained(f), NEW j \in Trained(f)
                 PROVE  f.response[i].turn < f.response[j].turn <=> i < j
      OBVIOUS
    <3>1. turn(p + i) < turn(p + j) <=> p + i < p + j
      BY <1>1, <2>5
    <3>2. i \in Nat /\ j \in Nat
      BY <2>5
    <3>3. p + i < p + j <=> i < j
      BY <2>2, <3>2
    <3>4. f.response[i].turn = turn(p + i) /\ f.response[j].turn = turn(p + j)
      BY <2>5
    <3>5. QED
      BY <3>1, <3>3, <3>4, Zenon
  <2> HIDE DEF c, turn, p, K
  <2>9. \A k \in DOMAIN c.records : \A i \in Trained(c.records[k]) : Turn(k, i) \in 0..(n - 1)
    <3> SUFFICES ASSUME NEW k \in 1..(K + 1), NEW i \in Trained(c.records[k])
                 PROVE  Turn(k, i) \in 0..(n - 1)
      BY <2>4
    <3>1. CASE k \in 1..K
      <4>1. Turn(k, i) \in 0..(m - 1)
        BY <2>4, <2>7, <3>1
      <4>2. QED
        BY <4>1
    <3>2. CASE k = K + 1
      <4>1. Turn(k, i) \in m..(n - 1)
        BY <2>4, <2>5, <3>2
      <4>2. QED
        BY <4>1
    <3>3. QED
      BY <2>3, <3>1, <3>2
  <2>10. ASSUME NEW t \in 0..(n - 1)
         PROVE  \E k \in DOMAIN c.records : \E i \in Trained(c.records[k]) : Turn(k, i) = t
    <3>1. CASE t < m
      <4>1. t \in 0..(m - 1)
        BY <3>1
      <4>2. PICK k \in 1..K : \E i \in Trained(r.records[k]) : Old(k, i) = t
        BY <2>7, <4>1
      <4>3. c.records[k] = r.records[k] /\ k \in DOMAIN c.records
        BY <2>3, <2>4
      <4>4. QED
        BY <4>2, <4>3
    <3>2. CASE ~(t < m)
      <4>1. t \in m..(n - 1)
        BY <3>2
      <4>2. PICK j \in Live(r) : turn(j) = t
        BY <1>1, <4>1
      <4>3. j - p \in Trained(f) /\ f.response[j - p].turn = t
        BY <2>6, <4>2
      <4>4. K + 1 \in DOMAIN c.records
        BY <2>3, <2>4
      <4>5. QED
        BY <2>4, <4>3, <4>4
    <3>3. QED
      BY <3>1, <3>2
  <2>11. ASSUME NEW k \in DOMAIN c.records, NEW l \in DOMAIN c.records,
                NEW i \in Trained(c.records[k]), NEW j \in Trained(c.records[l])
         PROVE  Turn(k, i) < Turn(l, j) <=> k < l \/ (k = l /\ i < j)
    <3>0. k \in 1..(K + 1) /\ l \in 1..(K + 1)
      BY <2>4
    <3>1. CASE k \in 1..K /\ l \in 1..K
      BY <2>4, <2>7, <3>1
    <3>2. CASE k = K + 1 /\ l = K + 1
      <4>1. f.response[i].turn < f.response[j].turn <=> i < j
        BY <2>4, <2>8, <3>2
      <4>2. ~(k < l) /\ k = l
        BY <2>3, <3>2
      <4>3. QED
        BY <2>4, <3>2, <4>1, <4>2
    <3>3. CASE k \in 1..K /\ l = K + 1
      <4>1. Turn(k, i) \in 0..(m - 1)
        BY <2>4, <2>7, <3>3
      <4>2. Turn(l, j) \in m..(n - 1)
        BY <2>4, <2>5, <3>3
      <4>3. k < l
        BY <2>3, <3>3
      <4>4. QED
        BY <4>1, <4>2, <4>3
    <3>4. CASE k = K + 1 /\ l \in 1..K
      <4>1. Turn(l, j) \in 0..(m - 1)
        BY <2>4, <2>7, <3>4
      <4>2. Turn(k, i) \in m..(n - 1)
        BY <2>4, <2>5, <3>4
      <4>3. ~(k < l) /\ k # l
        BY <2>3, <3>4
      <4>4. QED
        BY <4>1, <4>2, <4>3
    <3>5. QED
      BY <2>3, <3>0, <3>1, <3>2, <3>3, <3>4
  <2>12. TrainedInOrder(c.records, n)
    BY <2>9, <2>10, <2>11 DEF TrainedInOrder
  <2>13. QED
    BY <2>12 DEF c
<1>4. QED
  BY <1>2, <1>3

-----------------------------------------------------------------------------
(* A cleanup *)

\* The compacted context holds messages of the archive and memories, nothing else.
LEMMA CompactedFrom ==
    ASSUME NEW r, IsSeq(r.archive), NEW answers
    PROVE  \E X : /\ Compacted(r, answers) \in Seq(X)
                 /\ \A x \in X : \/ x \in ToSet(r.archive)
                               \/ \E t : x = Memory(r, t)
<1> DEFINE l == r.archive
           cleaned == UNION {r.past[t + 1].group : t \in answers}
           memory(m) == Memory(r, CHOOSE t \in answers : m.turn \in r.past[t + 1].group)
           one(m, first) ==
             IF m.turn \notin cleaned THEN <<m>>
             ELSE LET t == CHOOSE t \in answers : m.turn \in r.past[t + 1].group
                  IN IF first /\ m.turn = Min(r.past[t + 1].group)
                     THEN <<Memory(r, t)>> ELSE <<>>
           X == {l[i] : i \in DOMAIN l} \cup {memory(l[i]) : i \in DOMAIN l}
           ss == [i \in DOMAIN l |-> one(l[i], l[i].kind = "marker")]
<1>1. Compacted(r, answers) = FlattenSeq(ss)
  BY DEF Compacted
<1>2. \A i \in DOMAIN l : ss[i] = <<l[i]>> \/ ss[i] = <<memory(l[i])>> \/ ss[i] = <<>>
  BY Zenon
<1>3. \A i \in DOMAIN l : l[i] \in X /\ memory(l[i]) \in X
  OBVIOUS
<1>4. DOMAIN l = 1..Len(l) /\ Len(l) \in Nat /\ DOMAIN ss = DOMAIN l
  BY SequenceFacts
<1>5. \A x \in X : x \in ToSet(l) \/ \E t : x = Memory(r, t)
  BY DEF ToSet
<1> HIDE DEF X, memory
<1>6. \A i \in DOMAIN l : ss[i] \in Seq(X)
  <2>1. \A x \in X : <<x>> \in Seq(X)
    OBVIOUS
  <2>2. <<>> \in Seq(X)
    OBVIOUS
  <2> HIDE DEF ss, l
  <2>3. QED
    BY <1>2, <1>3, <2>1, <2>2, Zenon
<1>7. ss \in Seq(Seq(X))
  <2>1. ss \in [1..Len(l) -> Seq(X)]
    BY <1>4, <1>6
  <2> HIDE DEF ss, l
  <2>2. QED
    BY <1>4, <2>1
<1>8. Compacted(r, answers) \in Seq(X)
  BY <1>1, <1>7, FlattenType
<1>9. QED
  BY <1>5, <1>8

LEMMA CompactedType ==
    ASSUME NEW r, IsSeq(r.archive), NEW answers
    PROVE  IsSeq(Compacted(r, answers))
BY CompactedFrom DEF IsSeq

\* A cleanup finds the end of the actor's last message behind all targets.
Closable(r) ==
    /\ Placed(r)
    /\ Open(r) /\ r.past # <<>> =>
         /\ Last(r.past).actorEnd \in r.segment.prompt..Len(r.ledger)
         /\ \A i \in Live(r) : i <= Last(r.past).actorEnd

LEMMA CutIsBehindTargets ==
    ASSUME NEW r, IsRequest(r), Closable(r)
    PROVE  /\ Open(r) => /\ FragmentEnd(r) \in 0..Len(r.ledger)
                         /\ FragmentEnd(r) \in r.segment.prompt..Len(r.ledger)
           /\ \A i \in Live(r) : i <= FragmentEnd(r)
<1>1. Len(r.ledger) \in Nat /\ DOMAIN r.ledger = 1..Len(r.ledger)
  BY SequenceFacts DEF IsRequest
<1>2. \A i \in Live(r) : Open(r) /\ i \in 1..Len(r.ledger)
  BY <1>1 DEF Live
<1>3. CASE Tokens(r.ledger) > MaxModelLen /\ Open(r) /\ r.past # <<>>
  <2>1. FragmentEnd(r) = Last(r.past).actorEnd
    BY <1>3 DEF FragmentEnd
  <2>2. QED
    BY <1>1, <1>3, <2>1 DEF Closable, Placed
<1>4. CASE ~(Tokens(r.ledger) > MaxModelLen /\ Open(r) /\ r.past # <<>>)
  <2>1. FragmentEnd(r) = Len(r.ledger)
    BY <1>4 DEF FragmentEnd
  <2>2. QED
    BY <1>1, <1>2, <2>1 DEF Closable, Placed
<1>5. QED
  BY <1>3, <1>4

\* What a cleanup does: the fragment is closed and a new context takes the place
\* of the old one.
IsCleaned(r, c) ==
    \E l, p : /\ IsSeq(l) /\ IsSeq(p)
              /\ c = [CloseFragment(r, FragmentEnd(r)) EXCEPT !.ledger = l, !.past = p]

LEMMA CleanupEffect ==
    ASSUME NEW r, IsRequest(r), NEW force, NEW needs, NEW works
    PROVE  \/ Cleanup(r, force, needs, works) = r
           \/ IsCleaned(r, Cleanup(r, force, needs, works))
<1> DEFINE todo == Candidates(r)
           UpTo(k) == Cleaned(r) \cup Oldest(todo, k)
           Size(k) == Tokens(Compacted(r, UpTo(k)))
           Safe(k) == Size(k) + NextTurnReserve <= MaxModelLen
           Enough(k) == IF needs THEN Size(k) <= Target /\ Safe(k)
                                 ELSE Size(k) <= Target \/ Safe(k)
           chosen == Min({k \in 1 .. Cardinality(todo) : Enough(k)} \cup {Cardinality(todo)})
           l == Compacted(r, UpTo(chosen))
           p == [i \in DOMAIN r.past |->
                   [r.past[i] EXCEPT !.cleaned = i - 1 \in UpTo(chosen)]]
<1>1. \/ Cleanup(r, force, needs, works) = r
      \/ Cleanup(r, force, needs, works)
           = [CloseFragment(r, FragmentEnd(r)) EXCEPT !.ledger = l, !.past = p]
  BY Zenon DEF Cleanup
<1>2. IsSeq(l)
  BY CompactedType DEF IsRequest
<1>3. IsSeq(p)
  <2>1. DOMAIN r.past = 1..Len(r.past) /\ Len(r.past) \in Nat
    BY SequenceFacts DEF IsRequest
  <2> DEFINE X == {p[i] : i \in DOMAIN r.past}
  <2>2. p \in [1..Len(r.past) -> X]
    BY <2>1
  <2> HIDE DEF p, X
  <2>3. p \in Seq(X)
    BY <2>1, <2>2
  <2>4. QED
    BY <2>3 DEF IsSeq
<1> HIDE DEF l, p
<1>4. QED
  BY <1>1, <1>2, <1>3 DEF IsCleaned

LEMMA CleanupKeeps ==
    ASSUME NEW r, IsRequest(r), Closable(r), NEW g, AsGenerated(r, g),
           NEW n \in Nat, InOrder(r, n), NEW force, NEW needs, NEW works
    PROVE  LET c == Cleanup(r, force, needs, works)
           IN  IsRequest(c) /\ Closable(c) /\ AsGenerated(c, g) /\ InOrder(c, n)
<1> DEFINE c == Cleanup(r, force, needs, works)
           cut == FragmentEnd(r)
           d == CloseFragment(r, cut)
<1>1. CASE c = r
  BY <1>1
<1>2. ASSUME NEW l, NEW p, IsSeq(l), IsSeq(p), c = [d EXCEPT !.ledger = l, !.past = p]
      PROVE  IsRequest(c) /\ Closable(c) /\ AsGenerated(c, g) /\ InOrder(c, n)
  <2>1. IsRequest(d) /\ d.segment = NoSegment /\ Live(d) = {}
    BY ClosedFields, ClosedIsNotLive
  <2>2. AsGenerated(d, g) /\ TrainedInOrder(d.records, n)
    <3>1. CASE Open(r)
      BY <3>1, CutIsBehindTargets, CloseAsGenerated, CloseInOrder DEF Closable
    <3>2. CASE ~Open(r)
      <4>1. d.records = r.records /\ Live(r) = {}
        BY <3>2, NothingClosed DEF Live
      <4>2. AsGenerated(d, g)
        BY <2>1, <4>1 DEF AsGenerated
      <4>3. PICK m \in 0..n : /\ TrainedInOrder(r.records, m)
                              /\ \A t \in m..(n - 1) : \E i \in Live(r) : r.ledger[i].turn = t
        BY DEF InOrder
      <4>4. m = n
        BY <4>1, <4>3
      <4>5. QED
        BY <4>1, <4>2, <4>3, <4>4
    <3>3. QED
      BY <3>1, <3>2
  <2> HIDE DEF c, d
  <2>3. IsRequest(c) /\ c.records = d.records /\ c.segment = NoSegment
    BY <1>2, <2>1, NoSegmentIsSegment DEF IsRequest, Fields
  <2>4. ~Open(c) /\ Live(c) = {}
    BY <2>3, ClosedIsNotLive
  <2>5. Closable(c)
    BY <2>4 DEF Closable, Placed
  <2>6. AsGenerated(c, g)
    BY <2>2, <2>3, <2>4 DEF AsGenerated
  <2>7. InOrder(c, n)
    <3>1. n \in 0..n /\ n..(n - 1) = {}
      OBVIOUS
    <3>2. QED
      BY <2>2, <2>3, <2>4, <3>1 DEF InOrder
  <2>8. QED
    BY <2>3, <2>5, <2>6, <2>7
<1>3. c = r \/ IsCleaned(r, c)
  BY CleanupEffect
<1>4. IsRequest(c) /\ Closable(c) /\ AsGenerated(c, g) /\ InOrder(c, n)
  <2> HIDE DEF c
  <2>1. QED
    BY <1>1, <1>2, <1>3 DEF IsCleaned
<1>5. QED
  BY <1>4

-----------------------------------------------------------------------------
(* The steps of a turn *)

LEMMA PrefixOfAppend ==
    ASSUME NEW s, IsSeq(s), NEW x, NEW j \in 0..Len(s)
    PROVE  SubSeq(Append(s, x), 1, j) = SubSeq(s, 1, j)
<1>1. PICK X : s \in Seq(X)
  BY DEF IsSeq
<1> DEFINE Y == X \cup {x}
           t == Append(s, x)
<1>2. s \in Seq(Y) /\ t \in Seq(Y) /\ Len(t) = Len(s) + 1 /\ \A i \in 1..Len(s) : t[i] = s[i]
  BY <1>1
<1>3. (\A i \in 1..j : s[i] \in Y) /\ (\A i \in 1..j : t[i] \in Y)
  BY <1>2
<1> HIDE DEF t, Y
<1>4. /\ SubSeq(s, 1, j) \in Seq(Y) /\ Len(SubSeq(s, 1, j)) = j
      /\ \A i \in 1..j : SubSeq(s, 1, j)[i] = s[i]
  BY <1>3, SubSeqProperties
<1>5. /\ SubSeq(t, 1, j) \in Seq(Y) /\ Len(SubSeq(t, 1, j)) = j
      /\ \A i \in 1..j : SubSeq(t, 1, j)[i] = t[i]
  BY <1>3, SubSeqProperties
<1>6. SubSeq(t, 1, j) = SubSeq(s, 1, j)
  BY <1>2, <1>4, <1>5, SeqEqual
<1>7. QED
  BY <1>6 DEF t

\* A context that grows by something without loss.
LEMMA QuietGrowth ==
    ASSUME NEW r, IsRequest(r), NEW g, AsGenerated(r, g), NEW n \in Nat, InOrder(r, n),
           NEW x, NEW c, c.ledger = Append(r.ledger, x), c.records = r.records,
           Live(c) = Live(r)
    PROVE  AsGenerated(c, g) /\ InOrder(c, n)
<1>1. /\ Len(r.ledger) \in Nat /\ DOMAIN r.ledger = 1..Len(r.ledger)
      /\ \A i \in 1..Len(r.ledger) : c.ledger[i] = r.ledger[i]
  BY SequenceFacts, AppendFacts DEF IsRequest
<1>2. \A i \in Live(r) : /\ c.ledger[i] = r.ledger[i]
                         /\ SubSeq(c.ledger, 1, i - 1) = SubSeq(r.ledger, 1, i - 1)
  <2> SUFFICES ASSUME NEW i \in Live(r)
               PROVE  /\ c.ledger[i] = r.ledger[i]
                      /\ SubSeq(c.ledger, 1, i - 1) = SubSeq(r.ledger, 1, i - 1)
    OBVIOUS
  <2>1. i \in 1..Len(r.ledger) /\ i - 1 \in 0..Len(r.ledger)
    BY <1>1 DEF Live
  <2>2. IsSeq(r.ledger)
    BY DEF IsRequest
  <2>3. QED
    BY <1>1, <2>1, <2>2, PrefixOfAppend
<1>3. AsGenerated(c, g)
  BY <1>2 DEF AsGenerated
<1>4. PICK m \in 0..n :
        /\ TrainedInOrder(r.records, m)
        /\ \A i \in Live(r) : r.ledger[i].turn \in m..(n - 1)
        /\ \A t \in m..(n - 1) : \E i \in Live(r) : r.ledger[i].turn = t
        /\ \A i, j \in Live(r) : r.ledger[i].turn < r.ledger[j].turn <=> i < j
  BY DEF InOrder
<1>5. /\ TrainedInOrder(c.records, m)
      /\ \A i \in Live(c) : c.ledger[i].turn \in m..(n - 1)
      /\ \A t \in m..(n - 1) : \E i \in Live(c) : c.ledger[i].turn = t
      /\ \A i, j \in Live(c) : c.ledger[i].turn < c.ledger[j].turn <=> i < j
  BY <1>2, <1>4
<1>6. QED
  BY <1>3, <1>5 DEF InOrder

\* begin_turn opens a fragment if none is open; the marker carries no loss.
LEMMA OpenTurnKeeps ==
    ASSUME NEW r, IsRequest(r), Placed(r), NEW turn
    PROVE  LET c == OpenTurn(r, turn)
           IN  /\ IsRequest(c) /\ Placed(c) /\ Open(c)
               /\ c.ledger = Append(r.ledger, Marker(turn)) /\ c.records = r.records
               /\ c.past = r.past /\ c.archive = r.archive
               /\ Live(c) = Live(r)
               /\ c.segment.bounds = IF Open(r)
                    THEN Append(r.segment.bounds, Len(r.ledger) - r.segment.prompt)
                    ELSE <<0>>
               /\ c.segment.prompt = IF Open(r) THEN r.segment.prompt
                                     ELSE Len(r.ledger) + 1
               /\ c.segment.turns = IF Open(r) THEN r.segment.turns ELSE <<>>
<1> DEFINE boundary == Len(r.ledger) - r.segment.prompt
           fresh == [prompt |-> Len(r.ledger) + 1, turns |-> <<>>, bounds |-> <<0>>]
           longer == [r.segment EXCEPT !.bounds = Append(@, boundary)]
           s == IF Open(r) THEN longer ELSE fresh
           l == Append(r.ledger, Marker(turn))
           c == [r EXCEPT !.ledger = l, !.segment = s]
<1>1. OpenTurn(r, turn) = c
  BY Zenon DEF OpenTurn, IsRequest, Fields
<1>2. Len(r.ledger) \in Nat /\ DOMAIN r.ledger = 1..Len(r.ledger) /\ IsSeq(r.ledger)
  BY SequenceFacts DEF IsRequest
<1>3. /\ IsSeq(l) /\ Len(l) = Len(r.ledger) + 1 /\ DOMAIN l = 1..(Len(r.ledger) + 1)
      /\ l[Len(r.ledger) + 1] = Marker(turn)
      /\ \A i \in 1..Len(r.ledger) : l[i] = r.ledger[i]
  BY <1>2, AppendFacts
<1>4. IsSegment(fresh) /\ fresh # NoSegment /\ fresh.prompt = Len(r.ledger) + 1
  <2>1. IsSeq(<<0>>) /\ IsSeq(<<>>)
    <3>1. <<0>> \in Seq(Nat)
      OBVIOUS
    <3>2. QED
      BY <3>1, EmptyIsSeq DEF IsSeq
  <2>2. fresh.bounds = <<0>> /\ NoSegment.bounds = <<>> /\ <<0>> # <<>>
    BY DEF NoSegment
  <2>3. QED
    BY <2>1, <2>2 DEF IsSegment
<1>5. Open(r) => IsSegment(longer) /\ longer # NoSegment /\ longer.prompt = r.segment.prompt
  <2> DEFINE b == Append(r.segment.bounds, boundary)
  <2>1. IsSeq(b) /\ b # <<>>
    <3>1. IsSeq(r.segment.bounds)
      BY DEF IsRequest, IsSegment
    <3>2. IsSeq(b) /\ Len(b) = Len(r.segment.bounds) + 1 /\ Len(r.segment.bounds) \in Nat
      BY <3>1, AppendFacts, SequenceFacts
    <3> HIDE DEF b
    <3>3. QED
      BY <3>2, SequenceFacts
  <2>2. longer = [r.segment EXCEPT !.bounds = b]
    BY DEF IsRequest, IsSegment
  <2> HIDE DEF b, longer
  <2>3. IsSegment(longer) /\ longer.prompt = r.segment.prompt /\ longer.bounds = b
    BY <2>1, <2>2 DEF IsRequest, IsSegment
  <2>4. NoSegment.bounds = <<>>
    BY DEF NoSegment
  <2>5. QED
    BY <2>1, <2>3, <2>4
<1>6. /\ IsSegment(s) /\ s # NoSegment
      /\ s.prompt = IF Open(r) THEN r.segment.prompt ELSE Len(r.ledger) + 1
  <2> HIDE DEF fresh, longer
  <2>1. QED
    BY <1>4, <1>5
<1>12. s.bounds = IF Open(r) THEN Append(r.segment.bounds, boundary) ELSE <<0>>
  <2>1. Open(r) => longer.bounds = Append(r.segment.bounds, boundary)
    BY DEF IsRequest, IsSegment
  <2>2. fresh.bounds = <<0>>
    OBVIOUS
  <2> HIDE DEF fresh, longer, boundary
  <2>3. QED
    BY <2>1, <2>2
<1>13. s.turns = IF Open(r) THEN r.segment.turns ELSE <<>>
  <2>1. longer.turns = r.segment.turns
    BY DEF IsRequest, IsSegment
  <2>2. fresh.turns = <<>>
    OBVIOUS
  <2> HIDE DEF fresh, longer, boundary
  <2>3. QED
    BY <2>1, <2>2
<1> HIDE DEF l, s
<1>7. /\ IsRequest(c) /\ c.archive = r.archive
      /\ c.ledger = l /\ c.segment = s /\ c.records = r.records /\ c.past = r.past
  BY <1>3, <1>6 DEF IsRequest, Fields
<1> HIDE DEF c
<1>8. Open(c)
  BY <1>6, <1>7 DEF Open
<1>9. Placed(c)
  BY <1>2, <1>3, <1>6, <1>7 DEF Placed
<1>10. Live(c) = Live(r)
  <2>1. ASSUME NEW i \in 1..Len(r.ledger) PROVE i \in Live(c) <=> i \in Live(r)
    <3>1. i \in DOMAIN c.ledger /\ i \in DOMAIN r.ledger /\ c.ledger[i] = r.ledger[i]
      BY <1>2, <1>3, <1>7
    <3>2. CASE Open(r)
      BY <1>6, <1>7, <1>8, <3>1, <3>2 DEF Live
    <3>3. CASE ~Open(r)
      <4>1. ~(i > c.segment.prompt)
        BY <1>2, <1>6, <1>7, <3>3
      <4>2. QED
        BY <3>3, <4>1 DEF Live
    <3>4. QED
      BY <3>2, <3>3
  <2>2. Len(r.ledger) + 1 \notin Live(c)
    <3>1. Marker(turn).kind # "actor"
      BY DEF Marker, Span
    <3>2. QED
      BY <1>3, <1>7, <3>1 DEF Live
  <2>3. Live(r) \subseteq 1..Len(r.ledger) /\ Live(c) \subseteq 1..(Len(r.ledger) + 1)
    BY <1>2, <1>3, <1>7 DEF Live
  <2>4. QED
    BY <1>2, <2>1, <2>2, <2>3
<1>11. QED
  BY <1>1, <1>6, <1>7, <1>8, <1>9, <1>10, <1>12, <1>13 DEF l

\* The message of the actor is trained on after the context it was given.
LEMMA ActorGrowth ==
    ASSUME NEW r, IsRequest(r), Placed(r), Open(r), NEW g, IsSeq(g),
           AsGenerated(r, g), InOrder(r, Len(g)), NEW size,
           NEW c, c.ledger = Append(r.ledger, Span("actor", Len(g), size)),
           c.records = r.records, c.segment = r.segment
    PROVE  AsGenerated(c, Append(g, r.ledger)) /\ InOrder(c, Len(g) + 1)
<1> DEFINE h == Append(g, r.ledger)
           n == Len(g)
           K == Len(r.ledger)
           x == Span("actor", n, size)
<1>1. /\ n \in Nat /\ Len(h) = n + 1 /\ h[n + 1] = r.ledger
      /\ \A i \in 1..n : h[i] = g[i]
  BY SequenceFacts, AppendFacts
<1>2. K \in Nat /\ DOMAIN r.ledger = 1..K /\ IsSeq(r.ledger)
  BY SequenceFacts DEF IsRequest
<1>3. /\ DOMAIN c.ledger = 1..(K + 1) /\ c.ledger[K + 1] = x
      /\ \A i \in 1..K : c.ledger[i] = r.ledger[i]
      /\ \A j \in 0..K : SubSeq(c.ledger, 1, j) = SubSeq(r.ledger, 1, j)
  BY <1>2, AppendFacts, PrefixOfAppend
<1>4. SubSeq(c.ledger, 1, K) = r.ledger
  <2>1. PICK X : r.ledger \in Seq(X)
    BY <1>2 DEF IsSeq
  <2>2. SubSeq(r.ledger, 1, K) = r.ledger
    BY <2>1, SubSeqFull
  <2>3. QED
    BY <1>2, <1>3, <2>2
<1>5. x.kind = "actor" /\ x.turn = n
  BY DEF Span
<1> HIDE DEF h, n, K, x
<1>6. Live(r) \subseteq 1..K /\ Live(c) = Live(r) \cup {K + 1}
  <2>1. Open(c) /\ r.segment.prompt \in 0..K /\ c.segment.prompt = r.segment.prompt
    BY DEF Placed, Open, K
  <2>2. Live(r) \subseteq 1..K
    BY <1>2 DEF Live
  <2>3. K + 1 \in Live(c)
    BY <1>2, <1>3, <1>5, <2>1 DEF Live
  <2>4. \A i \in 1..K : i \in Live(c) <=> i \in Live(r)
    BY <1>2, <1>3, <2>1 DEF Live
  <2>5. Live(c) \subseteq 1..(K + 1)
    BY <1>3 DEF Live
  <2>6. QED
    BY <1>2, <2>2, <2>3, <2>4, <2>5
<1>7. AllRecordedAsGenerated(c.records, h)
  <2> SUFFICES ASSUME NEW k \in DOMAIN r.records, NEW i \in Trained(r.records[k])
               PROVE  LET f == r.records[k]
                      IN  /\ f.response[i].turn \in 0..(Len(h) - 1)
                          /\ f.prompt \o SubSeq(f.response, 1, i - 1)
                               = h[f.response[i].turn + 1]
    BY DEF AllRecordedAsGenerated, RecordedAsGenerated
  <2> DEFINE f == r.records[k]
             t == f.response[i].turn
  <2>1. t \in 0..(n - 1) /\ f.prompt \o SubSeq(f.response, 1, i - 1) = g[t + 1]
    BY DEF AsGenerated, AllRecordedAsGenerated, RecordedAsGenerated, n
  <2> HIDE DEF f, t, h, n
  <2>2. t \in 0..(Len(h) - 1) /\ h[t + 1] = g[t + 1]
    <3>1. t \in Int /\ 0 <= t /\ t <= n - 1 /\ n \in Nat
      BY <1>1, <2>1
    <3>2. t + 1 \in 1..n /\ t \in 0..((n + 1) - 1)
      BY <3>1
    <3>3. QED
      BY <1>1, <3>2
  <2>3. QED
    BY <2>1, <2>2 DEF f, t
<1>8. ASSUME NEW i \in Live(c)
      PROVE  /\ c.ledger[i].turn \in 0..(Len(h) - 1)
             /\ SubSeq(c.ledger, 1, i - 1) = h[c.ledger[i].turn + 1]
  <2>1. CASE i = K + 1
    <3>1. c.ledger[i].turn = n /\ i - 1 = K
      BY <1>2, <1>3, <1>5, <2>1
    <3>2. n \in 0..(Len(h) - 1)
      BY <1>1
    <3>3. QED
      BY <1>1, <1>4, <3>1, <3>2
  <2>2. CASE i \in Live(r)
    <3>1. i \in 1..K /\ i - 1 \in 0..K
      BY <1>2, <1>6, <2>2
    <3>2. /\ r.ledger[i].turn \in 0..(n - 1)
          /\ SubSeq(r.ledger, 1, i - 1) = g[r.ledger[i].turn + 1]
      BY <2>2 DEF AsGenerated, n
    <3>3. c.ledger[i] = r.ledger[i] /\ SubSeq(c.ledger, 1, i - 1) = SubSeq(r.ledger, 1, i - 1)
      BY <1>3, <3>1
    <3> DEFINE t == r.ledger[i].turn
    <3>4. t \in 0..(Len(h) - 1) /\ h[t + 1] = g[t + 1]
      BY <1>1, <3>2
    <3>5. QED
      BY <3>2, <3>3, <3>4
  <2>3. QED
    BY <1>6, <2>1, <2>2
<1>9. AsGenerated(c, h)
  BY <1>7, <1>8 DEF AsGenerated
<1>10. PICK m \in 0..n :
        /\ TrainedInOrder(r.records, m)
        /\ \A i \in Live(r) : r.ledger[i].turn \in m..(n - 1)
        /\ \A t \in m..(n - 1) : \E i \in Live(r) : r.ledger[i].turn = t
        /\ \A i, j \in Live(r) : r.ledger[i].turn < r.ledger[j].turn <=> i < j
  BY DEF InOrder, n
<1>11. m \in 0..(n + 1)
  BY <1>1
<1>12. \A i \in Live(r) : i \in 1..K /\ c.ledger[i] = r.ledger[i]
  BY <1>3, <1>6
<1>13. K + 1 \in Live(c) /\ c.ledger[K + 1].turn = n
  BY <1>3, <1>5, <1>6
<1> DEFINE turn(i) == c.ledger[i].turn
<1>14. \A i \in Live(r) : turn(i) \in m..(n - 1)
  BY <1>10, <1>12
<1>15. turn(K + 1) = n
  BY <1>13
<1>16. \A i \in Live(c) : turn(i) \in m..n
  <2> HIDE DEF turn
  <2>1. QED
    BY <1>1, <1>6, <1>14, <1>15
<1>17. ASSUME NEW t \in m..n PROVE \E i \in Live(c) : turn(i) = t
  <2>1. CASE t = n
    BY <1>13, <2>1
  <2>2. CASE t # n
    <3>1. t \in m..(n - 1)
      BY <1>1, <2>2
    <3>2. PICK i \in Live(r) : r.ledger[i].turn = t
      BY <1>10, <3>1
    <3>3. QED
      BY <1>6, <1>12, <3>2
  <2>3. QED
    BY <2>1, <2>2
<1>18. ASSUME NEW i \in Live(c), NEW j \in Live(c)
       PROVE  turn(i) < turn(j) <=> i < j
  <2>1. CASE i \in Live(r) /\ j \in Live(r)
    BY <1>10, <1>12, <2>1
  <2>2. CASE i \in Live(r) /\ j = K + 1
    <3>1. turn(i) \in m..(n - 1) /\ turn(j) = n /\ i \in 1..K
      BY <1>12, <1>14, <1>15, <2>2
    <3> HIDE DEF turn
    <3>2. QED
      BY <1>1, <1>2, <2>2, <3>1
  <2>3. CASE i = K + 1 /\ j \in Live(r)
    <3>1. turn(j) \in m..(n - 1) /\ turn(i) = n /\ j \in 1..K
      BY <1>12, <1>14, <1>15, <2>3
    <3> HIDE DEF turn
    <3>2. QED
      BY <1>1, <1>2, <2>3, <3>1
  <2>4. CASE i = K + 1 /\ j = K + 1
    <3>1. turn(i) = n /\ turn(j) = n
      BY <1>15, <2>4
    <3> HIDE DEF turn
    <3>2. QED
      BY <1>1, <1>2, <2>4, <3>1
  <2>5. QED
    BY <1>6, <2>1, <2>2, <2>3, <2>4
<1>19. InOrder(c, n + 1)
  <2>1. (n + 1) - 1 = n
    BY <1>1
  <2>2. /\ TrainedInOrder(c.records, m)
        /\ \A i \in Live(c) : turn(i) \in m..((n + 1) - 1)
        /\ \A t \in m..((n + 1) - 1) : \E i \in Live(c) : turn(i) = t
        /\ \A i, j \in Live(c) : turn(i) < turn(j) <=> i < j
    <3> HIDE DEF turn
    <3>1. QED
      BY <1>10, <1>16, <1>17, <1>18, <2>1
  <2>3. QED
    BY <1>11, <2>2 DEF InOrder
<1>20. QED
  BY <1>9, <1>19 DEF h, n

\* complete_turn: the observation carries no loss, and the actor's output ends
\* where it begins.
LEMMA CompleteTurnKeeps ==
    ASSUME NEW r, IsRequest(r), Placed(r), Open(r), NEW turn, NEW calls, NEW size
    PROVE  LET c == CompleteTurn(r, turn, calls, size)
           IN  /\ IsRequest(c) /\ Open(c) /\ Closable(c)
               /\ c.ledger = Append(r.ledger, Span("tool", turn, size))
               /\ c.archive = Append(r.archive, Span("tool", turn, size))
               /\ c.records = r.records
               /\ c.segment.prompt = r.segment.prompt
               /\ c.segment.bounds = r.segment.bounds
               /\ c.segment.turns = Append(r.segment.turns, turn)
               /\ Live(c) = Live(r)
<1> DEFINE owner == IF Len(calls) = 1 THEN calls[1].aspect ELSE 0
           group == {t \in PastTurns(r) : r.past[t + 1].aspect = owner} \cup {turn}
           cleanable == owner # 0 /\ calls[1].kind \in Answers
                          /\ \A p \in ToSet(r.past) : p.aspect # 0
           observed == Span("tool", turn, size)
           K == Len(r.ledger)
           x == [calls |-> calls, aspect |-> owner,
                 cleanable |-> cleanable, cleaned |-> FALSE,
                 actorEnd |-> K,
                 group |-> IF cleanable THEN group ELSE {turn}]
           l == Append(r.ledger, observed)
           a == Append(r.archive, observed)
           q == Append(r.past, x)
           w == Append(r.segment.turns, turn)
           c == [r EXCEPT !.ledger = l, !.archive = a, !.segment.turns = w, !.past = q]
           s == [r.segment EXCEPT !.turns = w]
<1>1. CompleteTurn(r, turn, calls, size) = c
  BY Zenon DEF CompleteTurn
<1>2. x.actorEnd = K
  OBVIOUS
<1>3. observed.kind # "actor"
  BY DEF Span
<1>4. K \in Nat /\ DOMAIN r.ledger = 1..K /\ IsSeq(r.ledger)
  BY SequenceFacts DEF IsRequest
<1> HIDE DEF x, observed
<1>5. /\ IsSeq(l) /\ Len(l) = K + 1 /\ DOMAIN l = 1..(K + 1) /\ l[K + 1] = observed
      /\ \A i \in 1..K : l[i] = r.ledger[i]
  BY <1>4, AppendFacts
<1>6. IsSeq(a)
  BY AppendFacts DEF IsRequest
<1>7. IsSeq(q) /\ Len(q) \in Nat /\ q[Len(q)] = x
  <2>1. IsSeq(r.past) /\ Len(r.past) \in Nat
    BY SequenceFacts DEF IsRequest
  <2>2. QED
    BY <2>1, AppendFacts
<1>8. IsSeq(w) /\ w # <<>>
  <2>1. IsSeq(r.segment.turns) /\ Len(r.segment.turns) \in Nat
    BY SequenceFacts DEF IsRequest, IsSegment
  <2>2. IsSeq(w) /\ Len(w) = Len(r.segment.turns) + 1
    BY <2>1, AppendFacts
  <2> HIDE DEF w
  <2>3. QED
    BY <2>1, <2>2, SequenceFacts
<1> HIDE DEF l, a, q, w, K
<1>9. /\ IsSegment(s) /\ s.prompt = r.segment.prompt /\ s.turns = w
      /\ s.bounds = r.segment.bounds
  BY <1>8 DEF IsRequest, IsSegment
<1>10. s # NoSegment
  BY <1>8, <1>9 DEF NoSegment
<1>11. /\ c = [r EXCEPT !.ledger = l, !.archive = a, !.segment = s, !.past = q]
       /\ c.segment = s
  BY DEF IsRequest, Fields
<1> HIDE DEF s
<1>12. /\ IsRequest(c) /\ c.ledger = l /\ c.records = r.records /\ c.past = q
       /\ c.archive = a
  <2> DEFINE d == [r EXCEPT !.ledger = l, !.archive = a, !.segment = s, !.past = q]
  <2>1. /\ DOMAIN d = Fields /\ d = [k \in Fields |-> d[k]]
        /\ d.ledger = l /\ d.archive = a /\ d.segment = s /\ d.past = q
        /\ d.records = r.records
    BY DEF IsRequest, Fields
  <2>2. c = d
    BY <1>11
  <2> HIDE DEF c, d
  <2>3. IsSeq(r.records)
    BY DEF IsRequest
  <2>4. QED
    BY <1>5, <1>6, <1>7, <1>9, <2>1, <2>2, <2>3 DEF IsRequest
<1>13. c.segment = s
  BY <1>11
<1> HIDE DEF c
<1>14. Open(c)
  BY <1>10, <1>13 DEF Open
<1>15. Live(c) = Live(r)
  <2>1. ASSUME NEW i \in 1..K PROVE i \in Live(c) <=> i \in Live(r)
    BY <1>4, <1>5, <1>9, <1>12, <1>13, <1>14 DEF Live
  <2>2. K + 1 \notin Live(c)
    BY <1>3, <1>5, <1>12 DEF Live
  <2>3. Live(r) \subseteq 1..K /\ Live(c) \subseteq 1..(K + 1)
    BY <1>4, <1>5, <1>12 DEF Live
  <2>4. Live(c) \subseteq 1..K
    BY <1>4, <2>2, <2>3
  <2>5. QED
    BY <2>1, <2>3, <2>4
<1>16. Closable(c)
  <2>1. c.segment.prompt \in 0..Len(c.ledger)
    BY <1>4, <1>5, <1>9, <1>12, <1>13 DEF Placed, K
  <2>2. Last(c.past).actorEnd = K
    BY <1>2, <1>7, <1>12 DEF Last
  <2>3. K \in c.segment.prompt..Len(c.ledger)
    BY <1>4, <1>5, <1>9, <1>12, <1>13 DEF Placed, K
  <2>4. \A i \in Live(c) : i <= K
    BY <1>4, <1>15 DEF Live
  <2>5. QED
    BY <2>1, <2>2, <2>3, <2>4 DEF Closable, Placed
<1>17. QED
  BY <1>1, <1>9, <1>12, <1>13, <1>14, <1>15, <1>16 DEF l, a, w, observed

\* _finalize_active_segment: closing the fragment as it stands.
LEMMA FinalizeKeeps ==
    ASSUME NEW r, IsRequest(r), Placed(r), NEW g, AsGenerated(r, g)
    PROVE  LET c == CloseFragment(r, Len(r.ledger))
           IN  /\ IsRequest(c) /\ Placed(c) /\ AsGenerated(c, g)
               /\ \A n \in Nat : InOrder(r, n) =>
                    TrainedInOrder(c.records, n) /\ InOrder(c, n)
<1> DEFINE K == Len(r.ledger)
           c == CloseFragment(r, K)
<1>1. K \in 0..K /\ \A i \in Live(r) : i <= K
  <2>1. K \in Nat /\ DOMAIN r.ledger = 1..K
    BY SequenceFacts DEF IsRequest
  <2>2. QED
    BY <2>1 DEF Live
<1>2. IsRequest(c) /\ ~Open(c) /\ Live(c) = {}
  BY ClosedFields, ClosedIsNotLive
<1>3. AsGenerated(c, g)
  BY <1>1, CloseAsGenerated
<1>4. ASSUME NEW n \in Nat, InOrder(r, n) PROVE TrainedInOrder(c.records, n)
  BY <1>1, <1>4, CloseInOrder
<1> HIDE DEF c
<1>5. ASSUME NEW n \in Nat, TrainedInOrder(c.records, n) PROVE InOrder(c, n)
  <2>1. n \in 0..n /\ n..(n - 1) = {}
    OBVIOUS
  <2>2. QED
    BY <1>2, <1>5, <2>1 DEF InOrder
<1>6. Placed(c)
  BY <1>2 DEF Placed
<1>7. QED
  BY <1>2, <1>3, <1>4, <1>5, <1>6 DEF c

\* A request without fragments trains on nothing.
LEMMA FreshIsTrivial ==
    /\ IsRequest(Fresh) /\ Placed(Fresh) /\ Closable(Fresh)
    /\ \A g : AsGenerated(Fresh, g)
    /\ InOrder(Fresh, 0)
<1>1. IsSeq(<<Base>>) /\ IsSeq(<<>>)
  <2>1. <<Base>> \in Seq({Base})
    OBVIOUS
  <2>2. QED
    BY <2>1, EmptyIsSeq DEF IsSeq
<1>2. /\ Fresh.ledger = <<Base>> /\ Fresh.archive = <<Base>> /\ Fresh.segment = NoSegment
      /\ Fresh.records = <<>> /\ Fresh.past = <<>>
      /\ DOMAIN Fresh = Fields /\ Fresh = [k \in Fields |-> Fresh[k]]
  BY DEF Fresh, Fields
<1>3. IsRequest(Fresh)
  BY <1>1, <1>2, NoSegmentIsSegment DEF IsRequest
<1>4. ~Open(Fresh) /\ Live(Fresh) = {}
  BY <1>2, ClosedIsNotLive
<1>5. Placed(Fresh) /\ Closable(Fresh)
  BY <1>4 DEF Placed, Closable
<1>6. DOMAIN Fresh.records = {}
  BY <1>1, <1>2, SequenceFacts
<1>7. \A g : AsGenerated(Fresh, g)
  BY <1>4, <1>6 DEF AsGenerated, AllRecordedAsGenerated
<1>8. InOrder(Fresh, 0)
  <2>1. 0 \in 0..0 /\ 0..(0 - 1) = {}
    OBVIOUS
  <2>2. TrainedInOrder(Fresh.records, 0)
    BY <1>6, <2>1 DEF TrainedInOrder
  <2>3. QED
    BY <1>4, <2>1, <2>2 DEF InOrder
<1>9. QED
  BY <1>3, <1>5, <1>7, <1>8

-----------------------------------------------------------------------------
(* The two theorems *)

SegInv ==
    /\ IsRequest(req) /\ Placed(req) /\ IsSeq(given)
    /\ AsGenerated(req, given)
    /\ phase # "invalid" => InOrder(req, Len(given))
    /\ phase = "next" => Closable(req)
    /\ phase = "tools" => Open(req)

LEMMA QuarantineSafe == SegInv /\ Quarantine /\ UNCHANGED given => SegInv'
BY FreshIsTrivial DEF SegInv, Quarantine

LEMMA FinalizeSafe ==
    ASSUME NEW r, IsRequest(r), Placed(r), AsGenerated(r, given), IsSeq(given),
           InOrder(r, Len(given)), Finalize(r), UNCHANGED given, phase' = "done"
    PROVE  SegInv'
<1>1. Len(given) \in Nat
  BY SequenceFacts
<1>2. req' = CloseFragment(r, Len(r.ledger))
  BY DEF Finalize
<1>3. IsRequest(req') /\ Placed(req') /\ AsGenerated(req', given) /\ InOrder(req', Len(given))
  BY <1>1, <1>2, FinalizeKeeps
<1>4. QED
  BY <1>3 DEF SegInv

LEMMA GenerateSafe ==
    ASSUME NEW works, SegInv, Generate(works)
    PROVE  SegInv'
<1> DEFINE n == Len(given)
           d == Cleanup(req, FALSE, TRUE, works)
           r == OpenTurn(d, n)
<1>1. n \in Nat /\ IsSeq(given)
  BY SequenceFacts DEF SegInv
<1>2. IsRequest(d) /\ Placed(d) /\ AsGenerated(d, given) /\ InOrder(d, n)
  <2>1. IsRequest(req) /\ Closable(req) /\ AsGenerated(req, given) /\ InOrder(req, n)
    BY DEF SegInv, Generate
  <2> HIDE DEF n
  <2>2. QED
    BY <1>1, <2>1, CleanupKeeps DEF Closable
<1> HIDE DEF d
<1>3. /\ IsRequest(r) /\ Placed(r) /\ Open(r)
      /\ r.ledger = Append(d.ledger, Marker(n)) /\ r.records = d.records
      /\ Live(r) = Live(d)
  BY <1>2, OpenTurnKeeps
<1>4. PICK size : /\ req' = [r EXCEPT
                       !.ledger = Append(r.ledger, Span("actor", n, size)),
                       !.archive = r.archive \o <<Marker(n), Span("actor", n, size)>>]
                  /\ given' = Append(given, r.ledger)
                  /\ phase' = "tools"
  BY Zenon DEF Generate, d
<1> HIDE DEF r
<1>5. AsGenerated(r, given) /\ InOrder(r, n)
  <2> HIDE DEF n
  <2>1. QED
    BY <1>1, <1>2, <1>3, QuietGrowth
<1> DEFINE l == Append(r.ledger, Span("actor", n, size))
           a == r.archive \o <<Marker(n), Span("actor", n, size)>>
<1>6. IsSeq(l) /\ Len(l) = Len(r.ledger) + 1 /\ Len(r.ledger) \in Nat
  BY <1>3, AppendFacts, SequenceFacts DEF IsRequest
<1>7. IsSeq(a)
  <2>1. PICK X : r.archive \in Seq(X)
    BY <1>3 DEF IsRequest, IsSeq
  <2> DEFINE u == Marker(n)
             v == Span("actor", n, size)
  <2> HIDE DEF u, v
  <2>2. r.archive \in Seq(X \cup {u, v}) /\ <<u, v>> \in Seq(X \cup {u, v})
    BY <2>1
  <2>3. r.archive \o <<u, v>> \in Seq(X \cup {u, v})
    BY <2>2
  <2>4. QED
    BY <2>3 DEF IsSeq, u, v
<1>8. req' = [r EXCEPT !.ledger = l, !.archive = a]
  BY <1>4
<1>9. l = Append(r.ledger, Span("actor", n, size))
  OBVIOUS
<1> HIDE DEF l, a
<1>10. /\ IsRequest(req') /\ req'.ledger = l /\ req'.records = r.records
       /\ req'.segment = r.segment
  BY <1>3, <1>6, <1>7, <1>8 DEF IsRequest, Fields
<1>11. AsGenerated(req', Append(given, r.ledger)) /\ InOrder(req', n + 1)
  <2>1. req'.ledger = Append(r.ledger, Span("actor", n, size))
    BY <1>9, <1>10
  <2>2. QED
    BY <1>1, <1>3, <1>5, <1>10, <2>1, ActorGrowth
<1>12. IsSeq(given') /\ Len(given') = n + 1
  BY <1>1, <1>4, AppendFacts
<1>13. Open(req') /\ Placed(req')
  BY <1>3, <1>6, <1>10 DEF Open, Placed
<1> HIDE DEF n
<1>14. QED
  BY <1>4, <1>10, <1>11, <1>12, <1>13 DEF SegInv

LEMMA RunToolsSafe ==
    ASSUME NEW calls, NEW size, NEW stop, NEW works, SegInv,
           RunTools(calls, size, stop, works)
    PROVE  SegInv'
<1> DEFINE n == Len(given)
           answered == CompleteTurn(req, n - 1, calls, size)
           force == Tokens(answered.ledger) > MaxModelLen
           r == Cleanup(answered, force, ~stop, works)
<1>1. n \in Nat /\ IsSeq(given)
  BY SequenceFacts DEF SegInv
<1>2. /\ IsRequest(answered) /\ Open(answered) /\ Closable(answered)
      /\ answered.ledger = Append(req.ledger, Span("tool", n - 1, size))
      /\ answered.records = req.records
      /\ Live(answered) = Live(req)
  <2>1. IsRequest(req) /\ Placed(req) /\ Open(req)
    BY DEF SegInv, RunTools
  <2> HIDE DEF n
  <2>2. QED
    BY <2>1, CompleteTurnKeeps
<1>3. \/ Quarantine
      \/ phase' = "done" /\ Finalize(r)
      \/ phase' = "next" /\ req' = r
  BY Zenon DEF RunTools
<1>4. UNCHANGED given
  BY DEF RunTools
<1> HIDE DEF answered, force
<1>5. AsGenerated(answered, given) /\ InOrder(answered, n)
  <2>1. IsRequest(req) /\ AsGenerated(req, given) /\ InOrder(req, n)
    BY DEF SegInv, RunTools
  <2> HIDE DEF n
  <2>2. QED
    BY <1>1, <1>2, <2>1, QuietGrowth
<1>6. IsRequest(r) /\ Closable(r) /\ AsGenerated(r, given) /\ InOrder(r, n)
  <2> HIDE DEF n
  <2>1. QED
    BY <1>1, <1>2, <1>5, CleanupKeeps
<1> HIDE DEF r
<1>7. Placed(r)
  BY <1>6 DEF Closable
<1>8. CASE Quarantine
  BY <1>4, <1>8, QuarantineSafe
<1>9. CASE phase' = "done" /\ Finalize(r)
  BY <1>1, <1>4, <1>6, <1>7, <1>9, FinalizeSafe
<1>10. CASE phase' = "next" /\ req' = r
  BY <1>1, <1>4, <1>6, <1>7, <1>10 DEF SegInv
<1>11. QED
  BY <1>3, <1>8, <1>9, <1>10

LEMMA OutOfTurnsSafe == SegInv /\ OutOfTurns => SegInv'
<1> SUFFICES ASSUME SegInv, OutOfTurns PROVE SegInv'
  OBVIOUS
<1>1. /\ IsRequest(req) /\ Placed(req) /\ AsGenerated(req, given) /\ IsSeq(given)
      /\ InOrder(req, Len(given))
  BY DEF SegInv, OutOfTurns
<1>2. phase' = "done" /\ Finalize(req) /\ UNCHANGED given
  BY DEF OutOfTurns
<1>3. QED
  BY <1>1, <1>2, FinalizeSafe

LEMMA InitSafe == Init => SegInv
<1> SUFFICES ASSUME Init PROVE SegInv
  OBVIOUS
<1>1. req = Fresh /\ phase = "next" /\ given = <<>>
  BY DEF Init
<1>2. IsSeq(given) /\ Len(given) = 0
  BY <1>1, EmptyIsSeq, SequenceFacts
<1>3. QED
  BY <1>1, <1>2, FreshIsTrivial DEF SegInv

\* In every state the fragments closed so far, and the open one, train on the
\* messages of the actor in their order, each after the context it was generated
\* from; the cleanup at a turn's end finds the actor's output where it was.
LEMMA FragmentsInvariant == Spec => []SegInv
<1>1. Init => SegInv
  BY InitSafe
<1>2. SegInv /\ [Next]_vars => SegInv'
  <2> SUFFICES ASSUME SegInv, [Next]_vars PROVE SegInv'
    OBVIOUS
  <2>1. ASSUME NEW works \in BOOLEAN, Generate(works) PROVE SegInv'
    BY <2>1, GenerateSafe
  <2>2. ASSUME NEW calls, NEW size, NEW stop, NEW works, RunTools(calls, size, stop, works)
        PROVE  SegInv'
    BY <2>2, RunToolsSafe
  <2>3. CASE OutOfTurns
    BY <2>3, OutOfTurnsSafe
  <2>4. CASE Reject
    BY <2>4, QuarantineSafe DEF Reject
  <2>5. CASE UNCHANGED vars
    BY <2>5 DEF vars, SegInv
  <2>6. QED
    BY <2>1, <2>2, <2>3, <2>4, <2>5 DEF Next
<1>3. QED
  BY <1>1, <1>2, PTL DEF Spec

\* The prompt of a target in its fragment, followed by what precedes it there, is
\* the context the engine was given when it generated the target ("Start a
\* fragment at the exact native prompt sent to the engine", schemas.py): after any
\* number of cleanups, an observation over the limit and a quarantine.
THEOREM GeneratedThere == Spec => []TrainedAsGenerated
<1>1. SegInv => TrainedAsGenerated
  <2> SUFFICES ASSUME SegInv, NEW f \in ToSet(Fragments), NEW i \in Trained(f)
               PROVE  f.prompt \o SubSeq(f.response, 1, i - 1)
                        = given[f.response[i].turn + 1]
    BY DEF TrainedAsGenerated
  <2>1. AsGenerated(CloseFragment(req, Len(req.ledger)), given)
    BY FinalizeKeeps DEF SegInv
  <2>2. PICK k \in DOMAIN Fragments : f = Fragments[k]
    BY DEF ToSet
  <2>3. RecordedAsGenerated(f, given)
    BY <2>1, <2>2 DEF AsGenerated, AllRecordedAsGenerated, Fragments
  <2>4. QED
    BY <2>3 DEF RecordedAsGenerated
<1>2. QED
  BY <1>1, FragmentsInvariant, PTL

\* The fragments of a request that was not quarantined train on every message the
\* actor generated, on each once and in the order they were generated: a cleanup
\* that closes a fragment, the observation it may cut off and the end of the
\* rollout (_finalize_active_segment) neither lose a target nor repeat one.
THEOREM TrainedOnce == Spec => []TargetsTrainOnce
<1>1. SegInv => TargetsTrainOnce
  <2> SUFFICES ASSUME SegInv, phase # "invalid"
               PROVE  TrainedInOrder(Fragments, Len(given))
    BY DEF TargetsTrainOnce
  <2>1. Len(given) \in Nat
    BY SequenceFacts DEF SegInv
  <2>2. QED
    BY <2>1, FinalizeKeeps DEF SegInv, Fragments
<1>2. QED
  BY <1>1, FragmentsInvariant, PTL

-----------------------------------------------------------------------------
(* Sizes *)

\* A context whose spans have sizes.
Sized(s) == IsSeq(s) /\ \A i \in DOMAIN s : s[i].size \in Int

\* h is what the fold of Tokens computes for every subset of the positions.
Counts(h, s) ==
    h = [u \in SUBSET DOMAIN s |->
           IF u = {} THEN 0 ELSE h[u \ {Max(u)}] + s[Max(u)].size]

\* The fold is well defined.
LEMMA SomethingCounts ==
    ASSUME NEW s, IsSeq(s)
    PROVE  \E h : Counts(h, s)
<1> DEFINE n == Len(s)
           Value(h, u) == IF u = {} THEN 0 ELSE h[u \ {Max(u)}] + s[Max(u)].size
           Good == {k \in Nat : \E h : \A u \in SUBSET (1..n) :
                                   u \subseteq 1..k => h[u] = Value(h, u)}
<1>1. n \in Nat /\ DOMAIN s = 1..n
  BY SequenceFacts
<1> HIDE DEF n
<1>2. 0 \in Good
  <2> DEFINE h == [u \in SUBSET (1..n) |-> 0]
  <2>1. \A u \in SUBSET (1..n) : u \subseteq 1..0 => h[u] = Value(h, u)
    <3> SUFFICES ASSUME NEW u \in SUBSET (1..n), u \subseteq 1..0 PROVE h[u] = Value(h, u)
      OBVIOUS
    <3>1. u = {}
      OBVIOUS
    <3>2. QED
      BY <3>1
  <2> HIDE DEF h, Value
  <2>2. QED
    BY <2>1
<1>3. ASSUME NEW k \in Good PROVE k + 1 \in Good
  <2>0. k \in Nat
    OBVIOUS
  <2>1. PICK h : \A u \in SUBSET (1..n) : u \subseteq 1..k => h[u] = Value(h, u)
    OBVIOUS
  <2> DEFINE g == [u \in SUBSET (1..n) |-> IF u \subseteq 1..k THEN h[u] ELSE Value(h, u)]
  <2>2. ASSUME NEW u \in SUBSET (1..n), u \subseteq 1..(k + 1) PROVE g[u] = Value(g, u)
    <3>1. CASE u = {}
      BY <2>1, <3>1
    <3>2. CASE u # {}
      <4> DEFINE v == u \ {Max(u)}
      <4>1. g[u] = h[v] + s[Max(u)].size
        <5>1. CASE u \subseteq 1..k
          BY <2>1, <3>2, <5>1
        <5>2. CASE ~(u \subseteq 1..k)
          BY <3>2, <5>2
        <5>3. QED
          BY <5>1, <5>2
      <4>2. v \subseteq 1..k
        <5>1. CASE k + 1 \in u
          <6>1. \A y \in u : k + 1 >= y
            BY <2>0, <2>2
          <6>2. Max(u) = k + 1
            <7>1. \E x \in u : \A y \in u : x >= y
              BY <5>1, <6>1
            <7>2. Max(u) \in u /\ \A y \in u : Max(u) >= y
              BY <7>1 DEF Max
            <7>3. Max(u) \in 1..(k + 1) /\ Max(u) >= k + 1
              BY <2>2, <5>1, <7>2
            <7>4. QED
              BY <2>0, <7>3
          <6>3. QED
            BY <2>0, <2>2, <6>2
        <5>2. CASE k + 1 \notin u
          <6>1. ASSUME NEW y \in u PROVE y \in 1..k
            <7>1. y \in 1..(k + 1) /\ y # k + 1
              BY <2>2, <5>2
            <7>2. QED
              BY <2>0, <7>1
          <6>2. QED
            BY <6>1
        <5>3. QED
          BY <5>1, <5>2
      <4>3. v \in SUBSET (1..n)
        OBVIOUS
      <4>4. g[v] = h[v]
        BY <4>2, <4>3
      <4>5. QED
        BY <3>2, <4>1, <4>4
    <3>3. QED
      BY <3>1, <3>2
  <2> HIDE DEF g, Value
  <2>3. \E e : \A u \in SUBSET (1..n) : u \subseteq 1..(k + 1) => e[u] = Value(e, u)
    BY <2>2
  <2>4. QED
    BY <2>0, <2>3
<1>4. Good = Nat
  <2>1. Good \in SUBSET Nat
    OBVIOUS
  <2> HIDE DEF Good
  <2>2. QED
    BY <1>2, <1>3, <2>1, InductionOnNaturals
<1>5. PICK h : \A u \in SUBSET (1..n) : h[u] = Value(h, u)
  <2>1. n \in Good
    BY <1>1, <1>4
  <2> HIDE DEF Value
  <2>2. QED
    BY <2>1
<1> DEFINE g == [u \in SUBSET (1..n) |-> h[u]]
<1>6. \A u \in SUBSET (1..n) : g[u] = Value(g, u)
  <2> SUFFICES ASSUME NEW u \in SUBSET (1..n) PROVE g[u] = Value(g, u)
    OBVIOUS
  <2>1. u \ {Max(u)} \in SUBSET (1..n)
    OBVIOUS
  <2>2. g[u] = h[u] /\ g[u \ {Max(u)}] = h[u \ {Max(u)}]
    BY <2>1
  <2>3. h[u] = Value(h, u)
    BY <1>5
  <2> HIDE DEF g
  <2>4. QED
    BY <2>2, <2>3
<1>7. Counts(g, s)
  <2>1. g = [u \in SUBSET (1..n) |-> g[u]]
    OBVIOUS
  <2> HIDE DEF g
  <2>2. QED
    BY <1>1, <1>6, <2>1 DEF Counts
<1>8. QED
  BY <1>7

\* P has the size of every prefix.
PrefixSizes(P, s) ==
    /\ P \in [0..Len(s) -> Int]
    /\ P[0] = 0
    /\ \A k \in 1..Len(s) : P[k] = P[k - 1] + s[k].size

LEMMA CountsPrefixes ==
    ASSUME NEW s, Sized(s), NEW h, Counts(h, s)
    PROVE  /\ h[1..0] = 0
           /\ \A k \in 1..Len(s) : h[1..k] = h[1..(k - 1)] + s[k].size
<1>1. Len(s) \in Nat /\ DOMAIN s = 1..Len(s)
  BY SequenceFacts DEF Sized
<1>2. 1..0 = {}
  OBVIOUS
<1>3. h[{}] = 0
  BY DEF Counts
<1>4. ASSUME NEW k \in 1..Len(s) PROVE h[1..k] = h[1..(k - 1)] + s[k].size
  <2>1. 1..k \in SUBSET DOMAIN s /\ 1..k # {}
    BY <1>1
  <2>2. Max(1..k) = k
    <3>1. k \in 1..k /\ \A y \in 1..k : k >= y
      BY <1>1
    <3>2. Max(1..k) \in 1..k /\ Max(1..k) >= k
      BY <3>1 DEF Max
    <3>3. QED
      BY <1>1, <3>2
  <2>3. (1..k) \ {k} = 1..(k - 1)
    BY <1>1
  <2>4. h[1..k] = h[(1..k) \ {Max(1..k)}] + s[Max(1..k)].size
    BY <2>1 DEF Counts
  <2>5. QED
    BY <2>2, <2>3, <2>4
<1>5. QED
  BY <1>2, <1>3, <1>4

LEMMA TokensCount ==
    ASSUME NEW s, Sized(s)
    PROVE  \E h : Counts(h, s) /\ Tokens(s) = h[DOMAIN s]
<1> DEFINE h == CHOOSE h : Counts(h, s)
<1>1. Counts(h, s)
  <2>1. \E g : Counts(g, s)
    BY SomethingCounts DEF Sized
  <2>2. QED
    BY <2>1, Zenon
<1>2. Tokens(s) = h[DOMAIN s]
  BY DEF Tokens, FoldLeft, MapThenFoldSet, Counts
<1>3. QED
  BY <1>1, <1>2

LEMMA SomePrefixSizes ==
    ASSUME NEW s, Sized(s)
    PROVE  \E P : PrefixSizes(P, s) /\ Tokens(s) = P[Len(s)]
<1>1. PICK h : Counts(h, s) /\ Tokens(s) = h[DOMAIN s]
  BY TokensCount
<1> DEFINE n == Len(s)
           P == [k \in 0..n |-> h[1..k]]
           Good == {k \in Nat : k <= n => h[1..k] \in Int}
<1>2. n \in Nat /\ DOMAIN s = 1..n
  BY SequenceFacts DEF Sized
<1>3. h[1..0] = 0 /\ \A k \in 1..n : h[1..k] = h[1..(k - 1)] + s[k].size
  BY <1>1, CountsPrefixes
<1> HIDE DEF n
<1>4. 0 \in Good
  BY <1>3
<1>5. ASSUME NEW k \in Good PROVE k + 1 \in Good
  <2> SUFFICES ASSUME k + 1 <= n PROVE h[1..(k + 1)] \in Int
    OBVIOUS
  <2>1. k + 1 \in 1..n /\ (k + 1) - 1 = k /\ k <= n
    BY <1>2
  <2>2. h[1..(k + 1)] = h[1..k] + s[k + 1].size
    <3>1. h[1..(k + 1)] = h[1..((k + 1) - 1)] + s[k + 1].size
      BY <1>3, <2>1
    <3>2. QED
      BY <2>1, <3>1
  <2>3. h[1..k] \in Int /\ s[k + 1].size \in Int
    BY <1>2, <2>1 DEF Sized
  <2>4. QED
    BY <2>2, <2>3
<1>6. Good = Nat
  <2>1. Good \in SUBSET Nat
    OBVIOUS
  <2> HIDE DEF Good
  <2>2. QED
    BY <1>4, <1>5, <2>1, InductionOnNaturals
<1>7. P \in [0..n -> Int]
  <2>1. \A k \in 0..n : h[1..k] \in Int
    BY <1>2, <1>6
  <2>2. QED
    BY <2>1
<1>8. P[0] = 0 /\ P[n] = h[1..n]
  BY <1>2, <1>3
<1>9. \A k \in 1..n : P[k] = P[k - 1] + s[k].size
  <2> SUFFICES ASSUME NEW k \in 1..n PROVE P[k] = P[k - 1] + s[k].size
    OBVIOUS
  <2>1. k \in 0..n /\ k - 1 \in 0..n
    BY <1>2
  <2>2. P[k] = h[1..k] /\ P[k - 1] = h[1..(k - 1)]
    BY <2>1
  <2>3. QED
    BY <1>3, <2>2
<1> HIDE DEF P
<1>10. PrefixSizes(P, s) /\ Tokens(s) = P[n]
  BY <1>1, <1>2, <1>7, <1>8, <1>9 DEF PrefixSizes, n
<1>11. QED
  BY <1>10 DEF n

\* The sizes of the prefixes determine the size.
LEMMA TokensOf ==
    ASSUME NEW s, Sized(s), NEW P, PrefixSizes(P, s)
    PROVE  Tokens(s) = P[Len(s)]
<1>1. PICK Q : PrefixSizes(Q, s) /\ Tokens(s) = Q[Len(s)]
  BY SomePrefixSizes
<1> DEFINE n == Len(s)
           Good == {k \in Nat : k <= n => P[k] = Q[k]}
<1>2. n \in Nat
  BY SequenceFacts DEF Sized
<1>3. 0 \in Good
  BY <1>1 DEF PrefixSizes
<1>4. ASSUME NEW k \in Good PROVE k + 1 \in Good
  <2> SUFFICES ASSUME k + 1 <= n PROVE P[k + 1] = Q[k + 1]
    OBVIOUS
  <2>1. k + 1 \in 1..n /\ (k + 1) - 1 = k /\ k <= n
    BY <1>2
  <2>2. P[k] = Q[k]
    BY <2>1
  <2>3. P[k + 1] = P[k] + s[k + 1].size /\ Q[k + 1] = Q[k] + s[k + 1].size
    <3>1. /\ P[k + 1] = P[(k + 1) - 1] + s[k + 1].size
          /\ Q[k + 1] = Q[(k + 1) - 1] + s[k + 1].size
      BY <1>1, <2>1 DEF PrefixSizes
    <3>2. QED
      BY <2>1, <3>1
  <2>4. QED
    BY <2>2, <2>3
<1>5. Good = Nat
  <2>1. Good \in SUBSET Nat
    OBVIOUS
  <2> HIDE DEF Good
  <2>2. QED
    BY <1>3, <1>4, <2>1, InductionOnNaturals
<1>6. P[n] = Q[n]
  BY <1>2, <1>5
<1>7. QED
  BY <1>1, <1>6

LEMMA TokensType ==
    ASSUME NEW s, Sized(s)
    PROVE  Tokens(s) \in Int
<1>1. PICK P : PrefixSizes(P, s) /\ Tokens(s) = P[Len(s)]
  BY SomePrefixSizes
<1>2. Len(s) \in 0..Len(s)
  BY SequenceFacts DEF Sized
<1>3. QED
  BY <1>1, <1>2 DEF PrefixSizes

\* One span more is its size more.
LEMMA TokensOfAppend ==
    ASSUME NEW s, Sized(s), NEW x, x.size \in Int
    PROVE  Sized(Append(s, x)) /\ Tokens(Append(s, x)) = Tokens(s) + x.size
<1> DEFINE n == Len(s)
           t == Append(s, x)
<1>1. n \in Nat /\ DOMAIN s = 1..n
  BY SequenceFacts DEF Sized
<1>2. /\ IsSeq(t) /\ Len(t) = n + 1 /\ DOMAIN t = 1..(n + 1) /\ t[n + 1] = x
      /\ \A i \in 1..n : t[i] = s[i]
  BY AppendFacts DEF Sized
<1>3. PICK P : PrefixSizes(P, s) /\ Tokens(s) = P[n]
  BY SomePrefixSizes
<1> HIDE DEF t, n
<1>4. Sized(t)
  <2>1. ASSUME NEW i \in 1..(n + 1) PROVE t[i].size \in Int
    <3>1. CASE i \in 1..n
      BY <1>1, <1>2, <3>1 DEF Sized
    <3>2. CASE i = n + 1
      BY <1>2, <3>2
    <3>3. QED
      BY <1>1, <3>1, <3>2
  <2>2. QED
    BY <1>2, <2>1 DEF Sized
<1> DEFINE Q == [k \in 0..(n + 1) |-> IF k <= n THEN P[k] ELSE P[n] + x.size]
<1>5. P \in [0..n -> Int] /\ P[0] = 0 /\ \A k \in 1..n : P[k] = P[k - 1] + s[k].size
  BY <1>3 DEF PrefixSizes, n
<1>6. Q \in [0..(n + 1) -> Int]
  BY <1>1, <1>5
<1>7. Q[0] = 0 /\ Q[n + 1] = P[n] + x.size
  BY <1>1, <1>5
<1>8. ASSUME NEW k \in 1..(n + 1) PROVE Q[k] = Q[k - 1] + t[k].size
  <2>1. k - 1 \in 0..n /\ Q[k - 1] = P[k - 1]
    BY <1>1
  <2>2. CASE k \in 1..n
    <3>1. Q[k] = P[k] /\ t[k] = s[k]
      BY <1>1, <1>2, <2>2
    <3>2. QED
      BY <1>5, <2>1, <2>2, <3>1
  <2>3. CASE k = n + 1
    <3>1. k - 1 = n
      BY <1>1, <2>3
    <3>2. QED
      BY <1>2, <1>7, <2>1, <2>3, <3>1
  <2>4. QED
    BY <1>1, <2>2, <2>3
<1> HIDE DEF Q
<1>9. PrefixSizes(Q, t)
  BY <1>2, <1>6, <1>7, <1>8 DEF PrefixSizes
<1>10. Tokens(t) = Q[n + 1]
  BY <1>2, <1>4, <1>9, TokensOf
<1>11. QED
  BY <1>3, <1>4, <1>7, <1>10 DEF t

\* A stretch is as long as the difference of two prefixes.
LEMMA TokensOfCut ==
    ASSUME NEW s, Sized(s), NEW P, PrefixSizes(P, s),
           NEW a \in 0..Len(s), NEW c \in a..Len(s)
    PROVE  Tokens(SubSeq(s, a + 1, c)) = P[c] - P[a]
<1> DEFINE n == Len(s)
           t == SubSeq(s, a + 1, c)
<1>1. n \in Nat /\ DOMAIN s = 1..n /\ IsSeq(s)
  BY SequenceFacts DEF Sized
<1>2. /\ IsSeq(t) /\ Len(t) = c - a
      /\ \A i \in 1..(c - a) : t[i] = s[a + i]
  <2>1. a + 1 \in Nat \ {0} /\ c \in Nat /\ c <= n
    BY <1>1
  <2>2. /\ IsSeq(t)
        /\ Len(t) = IF a + 1 <= c THEN c - (a + 1) + 1 ELSE 0
        /\ \A i \in 1..Len(t) : t[i] = s[(a + 1) + i - 1]
    BY <1>1, <2>1, SubSeqFacts
  <2> HIDE DEF t
  <2>3. Len(t) = c - a
    BY <1>1, <2>1, <2>2
  <2>4. ASSUME NEW i \in 1..(c - a) PROVE t[i] = s[a + i]
    <3>1. (a + 1) + i - 1 = a + i
      BY <1>1, <2>1
    <3>2. t[i] = s[(a + 1) + i - 1]
      BY <2>2, <2>3
    <3>3. QED
      BY <3>1, <3>2
  <2>5. QED
    BY <2>2, <2>3, <2>4
<1> HIDE DEF t
<1>3. DOMAIN t = 1..(c - a) /\ a \in Nat /\ c \in Nat /\ a <= c /\ c <= n
  BY <1>1, <1>2, SequenceFacts
<1>4. Sized(t)
  <2>1. ASSUME NEW i \in 1..(c - a) PROVE t[i].size \in Int
    <3>1. t[i] = s[a + i] /\ a + i \in 1..n
      BY <1>2, <1>3, <1>1
    <3>2. QED
      BY <1>1, <3>1 DEF Sized
  <2>2. QED
    BY <1>2, <1>3, <2>1 DEF Sized
<1> DEFINE Q == [k \in 0..(c - a) |-> P[a + k] - P[a]]
<1>5. P \in [0..n -> Int] /\ \A k \in 1..n : P[k] = P[k - 1] + s[k].size
  BY DEF PrefixSizes
<1> HIDE DEF n
<1>6. \A k \in 0..(c - a) : a + k \in 0..n /\ P[a + k] \in Int
  BY <1>1, <1>3, <1>5
<1>7. P[a] \in Int /\ P[c] \in Int /\ a + (c - a) = c /\ a + 0 = a
  BY <1>1, <1>3, <1>5
<1>8. Q \in [0..(c - a) -> Int]
  <2>1. ASSUME NEW k \in 0..(c - a) PROVE P[a + k] - P[a] \in Int
    <3> DEFINE x == P[a + k]
               y == P[a]
    <3>1. x \in Int
      BY <1>6, Zenon
    <3>2. y \in Int
      BY <1>7
    <3> HIDE DEF x, y
    <3>3. x - y \in Int
      BY <3>1, <3>2
    <3>4. QED
      BY <3>3 DEF x, y
  <2>2. QED
    BY <2>1
<1>9. Q[0] = 0 /\ Q[c - a] = P[c] - P[a]
  <2>1. 0 \in 0..(c - a) /\ c - a \in 0..(c - a)
    BY <1>3
  <2>2. Q[0] = P[a + 0] - P[a] /\ Q[c - a] = P[a + (c - a)] - P[a]
    BY <2>1
  <2> HIDE DEF Q
  <2>3. QED
    BY <1>7, <2>2
<1>10. ASSUME NEW k \in 1..(c - a) PROVE Q[k] = Q[k - 1] + t[k].size
  <2>1. k - 1 \in 0..(c - a) /\ k \in 0..(c - a) /\ a + k \in 1..n
        /\ (a + k) - 1 = a + (k - 1)
    BY <1>1, <1>3
  <2>2. Q[k] = P[a + k] - P[a] /\ Q[k - 1] = P[a + (k - 1)] - P[a]
    BY <2>1
  <2>3. P[a + k] = P[a + (k - 1)] + s[a + k].size
    <3>1. P[a + k] = P[(a + k) - 1] + s[a + k].size
      BY <1>5, <2>1
    <3>2. QED
      BY <2>1, <3>1
  <2>4. t[k] = s[a + k] /\ s[a + k].size \in Int
    BY <1>1, <1>2, <2>1 DEF Sized
  <2>5. P[a + (k - 1)] \in Int
    BY <1>6, <2>1
  <2> HIDE DEF Q
  <2>6. QED
    BY <1>7, <2>2, <2>3, <2>4, <2>5
<1> HIDE DEF Q
<1>11. PrefixSizes(Q, t)
  BY <1>2, <1>8, <1>9, <1>10 DEF PrefixSizes
<1>12. Tokens(t) = Q[c - a]
  BY <1>2, <1>4, <1>11, TokensOf
<1>13. QED
  BY <1>9, <1>12 DEF t

\* Prompt and response of a fragment are as long as the context they were cut from.
LEMMA TokensOfFragment ==
    ASSUME NEW s, Sized(s), NEW p \in 0..Len(s), NEW c \in p..Len(s)
    PROVE  /\ Tokens(SubSeq(s, 1, p)) + Tokens(SubSeq(s, p + 1, c))
                = Tokens(SubSeq(s, 1, c))
           /\ Tokens(SubSeq(s, 1, Len(s))) = Tokens(s)
<1>1. PICK P : PrefixSizes(P, s) /\ Tokens(s) = P[Len(s)]
  BY SomePrefixSizes
<1>2. Len(s) \in Nat
  BY SequenceFacts DEF Sized
<1>3. P \in [0..Len(s) -> Int] /\ P[0] = 0
  BY <1>1 DEF PrefixSizes
<1>4. 0 \in 0..Len(s) /\ p \in 0..Len(s) /\ c \in 0..Len(s) /\ Len(s) \in 0..Len(s)
      /\ 0 + 1 = 1
  BY <1>2
<1>5. /\ Tokens(SubSeq(s, 0 + 1, p)) = P[p] - P[0]
      /\ Tokens(SubSeq(s, p + 1, c)) = P[c] - P[p]
      /\ Tokens(SubSeq(s, 0 + 1, c)) = P[c] - P[0]
      /\ Tokens(SubSeq(s, 0 + 1, Len(s))) = P[Len(s)] - P[0]
  BY <1>1, <1>4, TokensOfCut
<1>6. P[p] \in Int /\ P[c] \in Int /\ P[Len(s)] \in Int
  BY <1>3, <1>4
<1>7. QED
  BY <1>1, <1>3, <1>4, <1>5, <1>6

\* A set of subsets of S that has those all of whose elements can be taken away
\* within it has them all.
LEMMA InductionOnSubsets ==
    ASSUME NEW S, IsFiniteSet(S), NEW Good \in SUBSET (SUBSET S),
           \A s \in SUBSET S : (\A x \in s : s \ {x} \in Good) => s \in Good
    PROVE  Good = SUBSET S
<1> DEFINE Small == {n \in Nat : \A s \in SUBSET S : Cardinality(s) = n => s \in Good}
<1>1. \A s \in SUBSET S : IsFiniteSet(s) /\ Cardinality(s) \in Nat
  BY FS_Subset, FS_CardinalityType
<1>2. 0 \in Small
  <2>1. \A s \in SUBSET S : Cardinality(s) = 0 => s = {}
    BY <1>1, FS_EmptySet
  <2>2. QED
    BY <2>1
<1>3. ASSUME NEW n \in Small PROVE n + 1 \in Small
  <2>1. ASSUME NEW s \in SUBSET S, Cardinality(s) = n + 1, NEW x \in s
        PROVE  s \ {x} \in Good
    <3>1. IsFiniteSet(s) /\ n \in Nat
      BY <1>1
    <3>2. Cardinality(s \ {x}) = n
      BY <2>1, <3>1, FS_RemoveElement
    <3>3. QED
      BY <3>2
  <2>2. QED
    BY <2>1
<1>4. Small = Nat
  <2>1. Small \in SUBSET Nat
    OBVIOUS
  <2> HIDE DEF Small
  <2>2. QED
    BY <1>2, <1>3, <2>1, InductionOnNaturals
<1>5. QED
  BY <1>1, <1>4

Chosen(s) == CHOOSE x \in s : TRUE

\* total is what the fold over messages computes for every subset of S.
Sums(total, S) ==
    total = [s \in SUBSET S |->
               IF s = {} THEN 0 ELSE Chosen(s).size + total[s \ {Chosen(s)}]]

LEMMA SomethingSums ==
    ASSUME NEW S, IsFiniteSet(S)
    PROVE  \E total : Sums(total, S)
<1> DEFINE Value(h, s) == IF s = {} THEN 0 ELSE Chosen(s).size + h[s \ {Chosen(s)}]
           Good == {n \in Nat : \E h : \A s \in SUBSET S :
                                   Cardinality(s) <= n => h[s] = Value(h, s)}
<1>1. \A s \in SUBSET S : IsFiniteSet(s) /\ Cardinality(s) \in Nat
  BY FS_Subset, FS_CardinalityType
<1>2. 0 \in Good
  <2> DEFINE h == [s \in SUBSET S |-> 0]
  <2>1. \A s \in SUBSET S : Cardinality(s) <= 0 => s = {}
    BY <1>1, FS_EmptySet
  <2>2. \A s \in SUBSET S : Cardinality(s) <= 0 => h[s] = Value(h, s)
    BY <2>1
  <2> HIDE DEF h, Value
  <2>3. QED
    BY <2>2
<1>3. ASSUME NEW n \in Good PROVE n + 1 \in Good
  <2>0. n \in Nat
    OBVIOUS
  <2>1. PICK h : \A s \in SUBSET S : Cardinality(s) <= n => h[s] = Value(h, s)
    OBVIOUS
  <2> DEFINE g == [s \in SUBSET S |-> IF Cardinality(s) <= n THEN h[s] ELSE Value(h, s)]
  <2>2. ASSUME NEW s \in SUBSET S, Cardinality(s) <= n + 1 PROVE g[s] = Value(g, s)
    <3>1. g[s] = Value(h, s)
      BY <2>1
    <3>2. CASE s = {}
      BY <3>1, <3>2
    <3>3. CASE s # {}
      <4> DEFINE u == s \ {Chosen(s)}
      <4>1. Chosen(s) \in s
        BY <3>3 DEF Chosen
      <4>2. Cardinality(u) = Cardinality(s) - 1
        BY <1>1, <4>1, FS_RemoveElement
      <4>3. u \in SUBSET S /\ Cardinality(u) <= n
        BY <1>1, <2>0, <2>2, <4>2
      <4>4. g[u] = h[u]
        BY <4>3
      <4> HIDE DEF g
      <4>5. QED
        BY <3>1, <3>3, <4>4
    <3>4. QED
      BY <3>2, <3>3
  <2> HIDE DEF g, Value
  <2>3. \E e : \A s \in SUBSET S : Cardinality(s) <= n + 1 => e[s] = Value(e, s)
    BY <2>2
  <2>4. QED
    BY <2>0, <2>3
<1>4. Good = Nat
  <2>1. Good \in SUBSET Nat
    OBVIOUS
  <2> HIDE DEF Good
  <2>2. QED
    BY <1>2, <1>3, <2>1, InductionOnNaturals
<1>5. PICK h : \A s \in SUBSET S : h[s] = Value(h, s)
  <2>1. Cardinality(S) \in Good /\ \A s \in SUBSET S : Cardinality(s) <= Cardinality(S)
    BY <1>1, <1>4, FS_Subset
  <2> HIDE DEF Value
  <2>2. QED
    BY <2>1
<1> DEFINE g == [s \in SUBSET S |-> h[s]]
<1>6. \A s \in SUBSET S : g[s] = Value(g, s)
  <2> SUFFICES ASSUME NEW s \in SUBSET S PROVE g[s] = Value(g, s)
    OBVIOUS
  <2>1. g[s] = h[s] /\ g[s \ {Chosen(s)}] = h[s \ {Chosen(s)}]
    OBVIOUS
  <2>2. h[s] = Value(h, s)
    BY <1>5
  <2> HIDE DEF g
  <2>3. QED
    BY <2>1, <2>2
<1>7. Sums(g, S)
  <2>1. g = [s \in SUBSET S |-> g[s]]
    OBVIOUS
  <2> HIDE DEF g
  <2>2. QED
    BY <1>6, <2>1 DEF Sums
<1>8. QED
  BY <1>7

LEMMA SumOfSizes ==
    ASSUME NEW S, IsFiniteSet(S), \A m \in S : m.size \in Int
    PROVE  MapThenSumSet(LAMBDA m : m.size, S) \in Int
<1> DEFINE total == CHOOSE total : Sums(total, S)
           Good == {s \in SUBSET S : total[s] \in Int}
<1>1. Sums(total, S)
  <2>1. \E t : Sums(t, S)
    BY SomethingSums
  <2>2. QED
    BY <2>1, Zenon
<1>2. MapThenSumSet(LAMBDA m : m.size, S) = total[S]
  BY DEF MapThenSumSet, MapThenFoldSet, Sums, Chosen
<1> HIDE DEF total
<1>3. ASSUME NEW s \in SUBSET S, \A x \in s : s \ {x} \in Good
      PROVE  s \in Good
  <2>1. CASE s = {}
    BY <1>1, <2>1 DEF Sums
  <2>2. CASE s # {}
    <3>1. Chosen(s) \in s
      BY <2>2 DEF Chosen
    <3>2. Chosen(s).size \in Int /\ total[s \ {Chosen(s)}] \in Int
      BY <1>3, <3>1
    <3>3. total[s] = Chosen(s).size + total[s \ {Chosen(s)}]
      BY <1>1, <2>2 DEF Sums
    <3>4. QED
      BY <3>2, <3>3
  <2>3. QED
    BY <2>1, <2>2
<1>4. Good = SUBSET S
  <2>1. Good \in SUBSET (SUBSET S)
    OBVIOUS
  <2> HIDE DEF Good
  <2>2. QED
    BY <1>3, <2>1, InductionOnSubsets
<1>5. QED
  BY <1>2, <1>4

LEMMA RangeIsFinite ==
    ASSUME NEW s, IsSeq(s)
    PROVE  IsFiniteSet(ToSet(s))
<1>1. Len(s) \in Nat /\ DOMAIN s = 1..Len(s)
  BY SequenceFacts
<1> DEFINE f == [i \in 1..Len(s) |-> s[i]]
<1>2. f \in Surjection(1..Len(s), ToSet(s))
  BY <1>1 DEF Surjection, ToSet
<1>3. IsFiniteSet(1..Len(s))
  BY <1>1, FS_Interval
<1>4. QED
  BY <1>2, <1>3, FS_Surjection

\* What the compacted context consists of has sizes.
LEMMA CompactedSized ==
    ASSUME NEW r, Sized(r.archive), NEW answers
    PROVE  Sized(Compacted(r, answers))
<1> DEFINE l == r.archive
<1>1. DOMAIN l = 1..Len(l) /\ Len(l) \in Nat /\ IsSeq(l)
  BY SequenceFacts DEF Sized
<1>2. ASSUME NEW t PROVE Memory(r, t).size \in Int
  <2> DEFINE S == Feedback(r, r.past[t + 1].group)
             k == MapThenSumSet(LAMBDA m : m.size, S)
  <2>1. S \subseteq ToSet(l)
    BY DEF Feedback
  <2>2. IsFiniteSet(S)
    BY <1>1, <2>1, RangeIsFinite, FS_Subset
  <2>3. \A m \in S : m.size \in Int
    BY <2>1 DEF ToSet, Sized
  <2>4. Memory(r, t).size = 1 + k
    BY DEF Memory, Span
  <2> HIDE DEF S
  <2>5. k \in Int
    BY <2>2, <2>3, SumOfSizes
  <2> HIDE DEF k
  <2>6. QED
    BY <2>4, <2>5
<1>3. PICK X : /\ Compacted(r, answers) \in Seq(X)
               /\ \A x \in X : x \in ToSet(l) \/ \E t : x = Memory(r, t)
  BY <1>1, CompactedFrom
<1>4. \A x \in X : x.size \in Int
  BY <1>2, <1>3 DEF ToSet, Sized
<1>5. QED
  BY <1>3, <1>4 DEF Sized, IsSeq
-----------------------------------------------------------------------------
(* Every fragment fits the context of the engine *)

InContext(f) == Tokens(f.prompt) + Tokens(f.response) <= MaxModelLen
AllInContext(fragments) == \A k \in DOMAIN fragments : InContext(fragments[k])

\* A request whose closed fragments fit, and whose open one has a boundary.
Roomy(r) ==
    /\ Sized(r.ledger) /\ Sized(r.archive)
    /\ AllInContext(r.records)
    /\ Open(r) => r.segment.bounds # <<>>

LEMMA CloseInContext ==
    ASSUME NEW r, IsRequest(r), Placed(r), Roomy(r), NEW cut,
           Open(r) => /\ cut \in r.segment.prompt..Len(r.ledger)
                      /\ Tokens(SubSeq(r.ledger, 1, cut)) <= MaxModelLen
    PROVE  Roomy(CloseFragment(r, cut))
<1> DEFINE c == CloseFragment(r, cut)
           p == r.segment.prompt
<1>1. /\ IsRequest(c) /\ c.ledger = r.ledger /\ c.archive = r.archive /\ ~Open(c)
  BY ClosedFields, ClosedIsNotLive
<1>2. AllInContext(c.records)
  <2>1. CASE ~Open(r) \/ cut = p
    <3>1. c.records = r.records
      BY <2>1, NothingClosed
    <3> HIDE DEF c
    <3>2. QED
      BY <3>1 DEF Roomy
  <2>2. CASE Open(r) /\ cut # p
    <3>1. PICK f : /\ c.records = Append(r.records, f)
                   /\ f.prompt = SubSeq(r.ledger, 1, p)
                   /\ f.response = SubSeq(r.ledger, p + 1, cut)
      <4>1. PICK x : c.records =
              Append(r.records, [prompt   |-> SubSeq(r.ledger, 1, p),
                                 response |-> SubSeq(r.ledger, p + 1, cut),
                                 turns    |-> r.segment.turns,
                                 bounds   |-> x])
        BY <2>2, OneClosed
      <4>2. QED
        BY <4>1
    <3>2. InContext(f)
      <4>1. p \in 0..Len(r.ledger) /\ cut \in p..Len(r.ledger) /\ Sized(r.ledger)
        BY <2>2 DEF Placed, Roomy
      <4> HIDE DEF p
      <4>2. Tokens(SubSeq(r.ledger, 1, p)) + Tokens(SubSeq(r.ledger, p + 1, cut))
              = Tokens(SubSeq(r.ledger, 1, cut))
        BY <4>1, TokensOfFragment
      <4>3. QED
        BY <2>2, <3>1, <4>2 DEF InContext
    <3> HIDE DEF c, p
    <3>3. IsSeq(r.records) /\ Len(r.records) \in Nat /\ DOMAIN r.records = 1..Len(r.records)
      BY SequenceFacts DEF IsRequest
    <3>4. /\ DOMAIN c.records = 1..(Len(r.records) + 1)
          /\ c.records[Len(r.records) + 1] = f
          /\ \A k \in 1..Len(r.records) : c.records[k] = r.records[k]
      BY <3>1, <3>3, AppendFacts
    <3>5. ASSUME NEW k \in DOMAIN c.records PROVE InContext(c.records[k])
      <4>1. CASE k \in 1..Len(r.records)
        BY <3>3, <3>4, <4>1 DEF Roomy, AllInContext
      <4>2. CASE k = Len(r.records) + 1
        BY <3>2, <3>4, <4>2
      <4>3. QED
        BY <3>3, <3>4, <4>1, <4>2
    <3>6. QED
      BY <3>5 DEF AllInContext
  <2>3. QED
    BY <2>1, <2>2
<1> HIDE DEF c
<1>3. QED
  BY <1>1, <1>2 DEF Roomy, c

\* A cleanup either changes nothing or leaves a context that fits, with room for
\* a turn when one is to follow.
LEMMA CleanupRecovers ==
    ASSUME NEW r, IsRequest(r), Sized(r.archive), NEW force, NEW needs, NEW works
    PROVE  \/ Cleanup(r, force, needs, works) = r
           \/ \E l, p :
                /\ Cleanup(r, force, needs, works)
                     = [CloseFragment(r, FragmentEnd(r)) EXCEPT !.ledger = l, !.past = p]
                /\ Sized(l)
                /\ Tokens(l) <= MaxModelLen
                /\ needs => Tokens(l) + NextTurnReserve <= MaxModelLen
                /\ Open(r) => Tokens(SubSeq(r.ledger, 1, FragmentEnd(r))) <= MaxModelLen
<1> DEFINE todo == Candidates(r)
           UpTo(k) == Cleaned(r) \cup Oldest(todo, k)
           Size(k) == Tokens(Compacted(r, UpTo(k)))
           Safe(k) == Size(k) + NextTurnReserve <= MaxModelLen
           Enough(k) == IF needs THEN Size(k) <= Target /\ Safe(k)
                                 ELSE Size(k) <= Target \/ Safe(k)
           chosen == Min({k \in 1 .. Cardinality(todo) : Enough(k)} \cup {Cardinality(todo)})
           l == Compacted(r, UpTo(chosen))
           p == [i \in DOMAIN r.past |->
                   [r.past[i] EXCEPT !.cleaned = i - 1 \in UpTo(chosen)]]
<1>1. \/ Cleanup(r, force, needs, works) = r
      \/ /\ Cleanup(r, force, needs, works)
              = [CloseFragment(r, FragmentEnd(r)) EXCEPT !.ledger = l, !.past = p]
         /\ IF needs THEN Safe(chosen) ELSE Size(chosen) <= MaxModelLen
         /\ Open(r) => Tokens(SubSeq(r.ledger, 1, FragmentEnd(r))) <= MaxModelLen
  BY Zenon DEF Cleanup
<1>2. Sized(l)
  BY CompactedSized
<1>3. /\ Safe(chosen) <=> Tokens(l) + NextTurnReserve <= MaxModelLen
      /\ Size(chosen) <= MaxModelLen <=> Tokens(l) <= MaxModelLen
  BY Zenon
<1> HIDE DEF l, p, Safe, Size, chosen
<1>4. Tokens(l) \in Int
  BY <1>2, TokensType
<1>5. NextTurnReserve \in Nat /\ MaxModelLen \in Nat
  BY SizesAreTokens
<1>6. Tokens(l) + NextTurnReserve <= MaxModelLen => Tokens(l) <= MaxModelLen
  BY <1>4, <1>5
<1>7. CASE Cleanup(r, force, needs, works) = r
  BY <1>7
<1>8. CASE /\ Cleanup(r, force, needs, works)
                = [CloseFragment(r, FragmentEnd(r)) EXCEPT !.ledger = l, !.past = p]
           /\ IF needs THEN Safe(chosen) ELSE Size(chosen) <= MaxModelLen
           /\ Open(r) => Tokens(SubSeq(r.ledger, 1, FragmentEnd(r))) <= MaxModelLen
  <2>1. /\ Tokens(l) <= MaxModelLen
        /\ needs => Tokens(l) + NextTurnReserve <= MaxModelLen
    BY <1>3, <1>6, <1>8, Zenon
  <2>2. QED
    BY <1>2, <1>8, <2>1, Zenon
<1>9. QED
  BY <1>1, <1>7, <1>8, Zenon

LEMMA CleanupFits ==
    ASSUME NEW r, IsRequest(r), Closable(r), Roomy(r), NEW force, NEW needs, NEW works
    PROVE  LET c == Cleanup(r, force, needs, works)
           IN  /\ Roomy(c)
               /\ \/ c = r
                  \/ /\ ~Open(c) /\ Tokens(c.ledger) <= MaxModelLen
                     /\ needs => Tokens(c.ledger) + NextTurnReserve <= MaxModelLen
<1> DEFINE c == Cleanup(r, force, needs, works)
           cut == FragmentEnd(r)
           d == CloseFragment(r, cut)
<1>1. ASSUME NEW l, NEW p, c = [d EXCEPT !.ledger = l, !.past = p],
             Sized(l), Tokens(l) <= MaxModelLen,
             needs => Tokens(l) + NextTurnReserve <= MaxModelLen,
             Open(r) => Tokens(SubSeq(r.ledger, 1, cut)) <= MaxModelLen
      PROVE  /\ Roomy(c) /\ ~Open(c) /\ Tokens(c.ledger) <= MaxModelLen
             /\ needs => Tokens(c.ledger) + NextTurnReserve <= MaxModelLen
  <2>1. IsRequest(d) /\ d.archive = r.archive /\ d.segment = NoSegment
    BY ClosedFields
  <2>2. Roomy(d)
    <3>1. Open(r) => cut \in r.segment.prompt..Len(r.ledger)
      BY CutIsBehindTargets
    <3>2. Placed(r)
      BY DEF Closable
    <3> HIDE DEF cut
    <3>3. QED
      BY <1>1, <3>1, <3>2, CloseInContext
  <2> HIDE DEF c, d, cut
  <2>3. /\ c.ledger = l /\ c.archive = d.archive /\ c.segment = NoSegment
        /\ c.records = d.records
    BY <1>1, <2>1 DEF IsRequest, Fields
  <2>4. ~Open(c)
    BY <2>3 DEF Open
  <2>5. Roomy(c)
    BY <1>1, <2>2, <2>3, <2>4 DEF Roomy
  <2>6. QED
    BY <1>1, <2>3, <2>4, <2>5
<1>2. \/ c = r
      \/ \E l, p : /\ c = [d EXCEPT !.ledger = l, !.past = p]
                   /\ Sized(l)
                   /\ Tokens(l) <= MaxModelLen
                   /\ needs => Tokens(l) + NextTurnReserve <= MaxModelLen
                   /\ Open(r) => Tokens(SubSeq(r.ledger, 1, cut)) <= MaxModelLen
  BY CleanupRecovers DEF Roomy
<1> HIDE DEF c, d, cut
<1>3. /\ Roomy(c)
      /\ \/ c = r
         \/ /\ ~Open(c) /\ Tokens(c.ledger) <= MaxModelLen
            /\ needs => Tokens(c.ledger) + NextTurnReserve <= MaxModelLen
  BY <1>1, <1>2
<1>4. QED
  BY <1>3 DEF c

\* The open fragment starts with the turn that is being opened.
JustOpened(r) == r.segment.bounds = <<0>>

LEMMA OpenTurnFits ==
    ASSUME NEW r, IsRequest(r), Placed(r), Roomy(r), NEW turn
    PROVE  LET c == OpenTurn(r, turn)
           IN  /\ Roomy(c) /\ Tokens(c.ledger) = Tokens(r.ledger) + 1
               /\ JustOpened(c) =>
                    /\ ~Open(r)
                    /\ Tokens(SubSeq(c.ledger, 1, c.segment.prompt)) = Tokens(c.ledger)
<1> DEFINE c == OpenTurn(r, turn)
           x == Marker(turn)
           bounds == r.segment.bounds
           b == Len(r.ledger) - r.segment.prompt
<1>1. /\ IsRequest(c) /\ c.ledger = Append(r.ledger, x) /\ c.records = r.records
      /\ c.archive = r.archive
      /\ c.segment.bounds = IF Open(r) THEN Append(bounds, b) ELSE <<0>>
      /\ ~Open(r) => c.segment.prompt = Len(r.ledger) + 1
  BY OpenTurnKeeps
<1> HIDE DEF c, b
<1>2. x.size = 1
  BY DEF Marker, Span
<1> HIDE DEF x
<1>3. /\ Sized(r.ledger) /\ Sized(c.ledger)
      /\ Tokens(c.ledger) = Tokens(r.ledger) + 1
  BY <1>1, <1>2, TokensOfAppend DEF Roomy
<1>4. Open(r) => Append(bounds, b) # <<>> /\ Append(bounds, b) # <<0>>
  <2>1. IsSeq(bounds) /\ Len(bounds) \in Nat
    BY SequenceFacts DEF IsRequest, IsSegment
  <2>2. Open(r) => Len(bounds) # 0
    BY <2>1, SequenceFacts DEF Roomy
  <2>3. Len(Append(bounds, b)) = Len(bounds) + 1
    BY <2>1, AppendFacts
  <2>4. Len(<<0>>) = 1 /\ Len(<<>>) = 0
    OBVIOUS
  <2> HIDE DEF bounds
  <2>5. QED
    BY <2>1, <2>2, <2>3, <2>4
<1>5. c.segment.bounds # <<>>
  <2>1. <<0>> # <<>>
    OBVIOUS
  <2>2. QED
    BY <1>1, <1>4, <2>1
<1>6. Roomy(c)
  BY <1>1, <1>3, <1>5 DEF Roomy
<1>7. ASSUME JustOpened(c)
      PROVE  ~Open(r) /\ Tokens(SubSeq(c.ledger, 1, c.segment.prompt)) = Tokens(c.ledger)
  <2>1. ~Open(r)
    BY <1>1, <1>4, <1>7 DEF JustOpened
  <2>2. Len(c.ledger) = Len(r.ledger) + 1 /\ Len(c.ledger) \in Nat
    BY <1>1, <1>3, AppendFacts, SequenceFacts DEF Sized
  <2>3. c.segment.prompt = Len(c.ledger)
    BY <1>1, <2>1, <2>2
  <2>4. 0 \in 0..Len(c.ledger)
    BY <2>2
  <2>5. Tokens(SubSeq(c.ledger, 1, Len(c.ledger))) = Tokens(c.ledger)
    BY <1>3, <2>2, <2>4, TokensOfFragment
  <2>6. QED
    BY <2>1, <2>3, <2>5
<1>8. QED
  BY <1>3, <1>6, <1>7 DEF c

LEMMA LeastOfTwo ==
    ASSUME NEW a \in Int, NEW b \in Int
    PROVE  Min({a, b}) \in {a, b} /\ Min({a, b}) <= a /\ Min({a, b}) <= b
<1>1. \E x \in {a, b} : \A y \in {a, b} : x <= y
  <2>1. CASE a <= b
    BY <2>1
  <2>2. CASE ~(a <= b)
    BY <2>2
  <2>3. QED
    BY <2>1, <2>2
<1>2. Min({a, b}) \in {a, b} /\ \A y \in {a, b} : Min({a, b}) <= y
  BY <1>1 DEF Min
<1>3. QED
  BY <1>2

\* The budget of a turn keeps the context within the limit; in a fragment that
\* begins with the turn something is left of it when the reserve was free.
LEMMA BudgetFits ==
    ASSUME NEW r, Sized(r.ledger), Sized(SubSeq(r.ledger, 1, r.segment.prompt))
    PROVE  /\ Budget(r) \in Int
           /\ Budget(r) <= MaxModelLen - Tokens(r.ledger) - ToolReserve - 1
           /\ (/\ Tokens(SubSeq(r.ledger, 1, r.segment.prompt)) = Tokens(r.ledger)
               /\ Tokens(r.ledger) + ToolReserve + 1 < MaxModelLen
               /\ ToolReserve < MaxResponseLen)
              => Budget(r) > 0
<1> DEFINE p == Tokens(SubSeq(r.ledger, 1, r.segment.prompt))
           k == Tokens(r.ledger)
           a == MaxResponseLen
           b == MaxModelLen - p
           m == Min({a, b})
           c == m - (k - p) - ToolReserve
           d == MaxModelLen - k - ToolReserve - 1
<1>1. Budget(r) = Min({c, d})
  BY Zenon DEF Budget
<1>2. p \in Int /\ k \in Int
  BY TokensType
<1>3. /\ MaxModelLen \in Nat /\ MaxResponseLen \in Nat /\ ToolReserve \in Nat
  BY SizesAreTokens
<1> HIDE DEF p, k
<1>4. a \in Int /\ b \in Int
  BY <1>2, <1>3
<1>5. m \in {a, b}
  <2> HIDE DEF a, b
  <2>1. QED
    BY <1>4, LeastOfTwo
<1> HIDE DEF m
<1>6. m \in Int
  BY <1>4, <1>5
<1>7. c \in Int /\ d \in Int
  BY <1>2, <1>3, <1>6
<1>8. Min({c, d}) \in {c, d} /\ Min({c, d}) <= d
  <2> HIDE DEF c, d
  <2>1. QED
    BY <1>7, LeastOfTwo
<1>9. ASSUME p = k, k + ToolReserve + 1 < MaxModelLen, ToolReserve < MaxResponseLen
      PROVE  Min({c, d}) > 0
  <2>1. m > ToolReserve
    BY <1>2, <1>3, <1>5, <1>9
  <2>2. c > 0 /\ d > 0
    BY <1>2, <1>3, <1>6, <1>9, <2>1
  <2> HIDE DEF c, d
  <2>3. QED
    BY <1>7, <1>8, <2>2
<1>10. Min({c, d}) \in Int
  <2> HIDE DEF c, d
  <2>1. QED
    BY <1>7, <1>8
<1>11. QED
  BY <1>1, <1>8, <1>9, <1>10 DEF p, k

LEMMA PrefixSized ==
    ASSUME NEW s, Sized(s), NEW p \in 0..Len(s)
    PROVE  Sized(SubSeq(s, 1, p))
<1> DEFINE t == SubSeq(s, 1, p)
<1>1. IsSeq(s) /\ Len(s) \in Nat /\ DOMAIN s = 1..Len(s)
  BY SequenceFacts DEF Sized
<1>2. 1 \in Nat \ {0} /\ p \in Nat /\ p <= Len(s)
  BY <1>1
<1>3. /\ IsSeq(t) /\ Len(t) = (IF 1 <= p THEN p - 1 + 1 ELSE 0)
      /\ \A i \in 1..Len(t) : t[i] = s[1 + i - 1]
  BY <1>1, <1>2, SubSeqFacts
<1> HIDE DEF t
<1>4. DOMAIN t = 1..p
  BY <1>2, <1>3, SequenceFacts
<1>5. ASSUME NEW i \in 1..p PROVE t[i].size \in Int
  <2>1. i \in 1..Len(t) /\ 1 + i - 1 = i /\ i \in 1..Len(s)
    BY <1>1, <1>2, <1>3
  <2>2. t[i] = s[i]
    BY <1>3, <2>1
  <2>3. QED
    BY <1>1, <2>1, <2>2 DEF Sized
<1>6. QED
  BY <1>3, <1>4, <1>5 DEF Sized, t

FitInv ==
    /\ SegInv
    /\ Roomy(req)
    /\ phase # "invalid" => Tokens(req.ledger) <= MaxModelLen
    /\ phase = "next" /\ ~Open(req) =>
         Tokens(req.ledger) + NextTurnReserve <= MaxModelLen

LEMMA FreshFits ==
    /\ Roomy(Fresh) /\ Tokens(Fresh.ledger) = BaseSize /\ ~Open(Fresh)
<1>1. /\ Fresh.ledger = <<Base>> /\ Fresh.archive = <<Base>> /\ Fresh.segment = NoSegment
      /\ Fresh.records = <<>>
  BY DEF Fresh
<1>2. Base.size = BaseSize /\ BaseSize \in Int
  BY SizesAreTokens DEF Base, Span
<1>3. IsSeq(<<>>) /\ DOMAIN <<>> = {} /\ Len(<<>>) = 0
  BY EmptyIsSeq, SequenceFacts
<1>4. Sized(<<>>)
  BY <1>3 DEF Sized
<1>5. Tokens(<<>>) = 0
  <2>1. 0 \in 0..Len(<<>>)
    BY <1>3
  <2>2. PICK P : PrefixSizes(P, <<>>) /\ Tokens(<<>>) = P[Len(<<>>)]
    BY <1>4, SomePrefixSizes
  <2>3. QED
    BY <1>3, <2>2 DEF PrefixSizes
<1>6. <<Base>> = Append(<<>>, Base)
  OBVIOUS
<1>7. Sized(<<Base>>) /\ Tokens(<<Base>>) = 0 + BaseSize
  BY <1>2, <1>4, <1>5, <1>6, TokensOfAppend
<1>8. ~Open(Fresh) /\ AllInContext(Fresh.records)
  BY <1>1, <1>3, ClosedIsNotLive DEF AllInContext
<1>9. QED
  BY <1>1, <1>2, <1>7, <1>8 DEF Roomy

LEMMA QuarantineFits == FitInv /\ Quarantine /\ UNCHANGED given => FitInv'
BY QuarantineSafe, FreshFits DEF FitInv, Quarantine

LEMMA FinalizeFits ==
    ASSUME NEW r, IsRequest(r), Placed(r), Roomy(r), Tokens(r.ledger) <= MaxModelLen,
           Finalize(r), phase' = "done", SegInv'
    PROVE  FitInv'
<1>1. Len(r.ledger) \in Nat /\ Sized(r.ledger)
  BY SequenceFacts DEF IsRequest, Roomy
<1>2. 0 \in 0..Len(r.ledger) /\ Len(r.ledger) \in 0..Len(r.ledger)
  BY <1>1
<1>3. Tokens(SubSeq(r.ledger, 1, Len(r.ledger))) = Tokens(r.ledger)
  BY <1>1, <1>2, TokensOfFragment
<1>4. Open(r) => Len(r.ledger) \in r.segment.prompt..Len(r.ledger)
  BY <1>1 DEF Placed
<1>5. req' = CloseFragment(r, Len(r.ledger))
  BY DEF Finalize
<1>6. Roomy(req') /\ req'.ledger = r.ledger
  BY <1>3, <1>4, <1>5, CloseInContext, ClosedFields
<1>7. QED
  BY <1>6 DEF FitInv

LEMMA GenerateFits ==
    ASSUME NEW works, FitInv, Generate(works)
    PROVE  FitInv'
<1> DEFINE n == Len(given)
           d == Cleanup(req, FALSE, TRUE, works)
           r == OpenTurn(d, n)
<1>1. SegInv'
  BY GenerateSafe DEF FitInv
<1>2. IsRequest(d) /\ Placed(d)
  <2>1. /\ IsRequest(req) /\ Closable(req) /\ AsGenerated(req, given) /\ InOrder(req, n)
        /\ n \in Nat
    BY SequenceFacts DEF FitInv, SegInv, Generate
  <2> HIDE DEF n
  <2>2. QED
    BY <2>1, CleanupKeeps DEF Closable
<1>3. Roomy(d)
  BY CleanupFits DEF FitInv, SegInv, Generate
<1> HIDE DEF d
<1>4. IsRequest(r) /\ Placed(r) /\ Open(r)
  BY <1>2, OpenTurnKeeps
<1>5. Roomy(r)
  BY <1>2, <1>3, OpenTurnFits
<1>6. PICK size \in ActorSizes :
         /\ size <= Budget(r)
         /\ req' = [r EXCEPT
              !.ledger = Append(r.ledger, Span("actor", n, size)),
              !.archive = r.archive \o <<Marker(n), Span("actor", n, size)>>]
         /\ phase' = "tools"
  BY Zenon DEF Generate, d
<1> HIDE DEF r
<1> DEFINE x == Span("actor", n, size)
           y == Marker(n)
<1>7. x.size = size /\ y.size = 1 /\ size \in Int
  BY SizesAreTokens DEF Span, Marker
<1> HIDE DEF x, y, n
<1>8. Sized(r.ledger) /\ Sized(r.archive)
  BY <1>5 DEF Roomy
<1>9. Sized(Append(r.ledger, x)) /\ Tokens(Append(r.ledger, x)) = Tokens(r.ledger) + size
  BY <1>7, <1>8, TokensOfAppend
<1>10. Sized(r.archive \o <<y, x>>)
  <2>1. Sized(Append(Append(r.archive, y), x))
    BY <1>7, <1>8, TokensOfAppend
  <2>2. r.archive \o <<y, x>> = Append(Append(r.archive, y), x)
    <3>1. PICK X : r.archive \in Seq(X)
      BY <1>8 DEF Sized, IsSeq
    <3> DEFINE Y == X \cup {x, y}
               s == r.archive
               u == s \o <<y, x>>
               v == Append(s, y)
               w == Append(v, x)
    <3>2. s \in Seq(Y) /\ <<y, x>> \in Seq(Y) /\ y \in Y /\ x \in Y
      BY <3>1
    <3> HIDE DEF Y, s
    <3>3. /\ u \in Seq(Y) /\ Len(u) = Len(s) + 2 /\ Len(s) \in Nat
          /\ \A i \in 1..(Len(s) + 2) :
               u[i] = IF i <= Len(s) THEN s[i] ELSE <<y, x>>[i - Len(s)]
      <4>1. /\ u \in Seq(Y) /\ Len(u) = Len(s) + Len(<<y, x>>)
            /\ \A i \in 1..(Len(s) + Len(<<y, x>>)) :
                 u[i] = IF i <= Len(s) THEN s[i] ELSE <<y, x>>[i - Len(s)]
        BY <3>2, ConcatProperties
      <4>2. Len(<<y, x>>) = 2 /\ Len(s) \in Nat
        BY <3>2
      <4> HIDE DEF u
      <4>3. QED
        BY <4>1, <4>2
    <3>4. /\ v \in Seq(Y) /\ Len(v) = Len(s) + 1 /\ v[Len(s) + 1] = y
          /\ \A i \in 1..Len(s) : v[i] = s[i]
      BY <3>2
    <3> HIDE DEF u, v
    <3>5. /\ w \in Seq(Y) /\ Len(w) = Len(v) + 1 /\ w[Len(v) + 1] = x
          /\ \A i \in 1..Len(v) : w[i] = v[i]
      BY <3>2, <3>4
    <3> HIDE DEF w
    <3>6. Len(w) = Len(u)
      BY <3>3, <3>4, <3>5
    <3>7. ASSUME NEW i \in 1..Len(u) PROVE u[i] = w[i]
      <4>1. i \in 1..(Len(s) + 2)
        BY <3>3
      <4>2. CASE i \in 1..Len(s)
        <5>1. u[i] = s[i]
          BY <3>3, <4>1, <4>2
        <5>2. i \in 1..Len(v)
          BY <3>3, <3>4, <4>2
        <5>3. QED
          BY <3>4, <3>5, <4>2, <5>1, <5>2
      <4>3. CASE i = Len(s) + 1
        <5>1. u[i] = <<y, x>>[1]
          <6>1. ~(i <= Len(s)) /\ i - Len(s) = 1
            BY <3>3, <4>3
          <6>2. u[i] = <<y, x>>[i - Len(s)]
            BY <3>3, <4>1, <6>1
          <6>3. QED
            BY <6>1, <6>2
        <5>2. w[i] = v[i]
          BY <3>3, <3>4, <3>5, <4>3
        <5>3. QED
          BY <3>4, <4>3, <5>1, <5>2
      <4>4. CASE i = Len(s) + 2
        <5>1. u[i] = <<y, x>>[2]
          <6>1. ~(i <= Len(s)) /\ i - Len(s) = 2
            BY <3>3, <4>4
          <6>2. u[i] = <<y, x>>[i - Len(s)]
            BY <3>3, <4>1, <6>1
          <6>3. QED
            BY <6>1, <6>2
        <5>2. w[i] = x
          BY <3>3, <3>4, <3>5, <4>4
        <5>3. QED
          BY <5>1, <5>2
      <4>5. QED
        BY <3>3, <4>1, <4>2, <4>3, <4>4
    <3>8. u = w
      BY <3>3, <3>5, <3>6, <3>7, SeqEqual
    <3>9. QED
      BY <3>8 DEF u, v, w, s
  <2>3. QED
    BY <2>1, <2>2
<1> DEFINE l == Append(r.ledger, x)
           a == r.archive \o <<y, x>>
<1>11. req' = [r EXCEPT !.ledger = l, !.archive = a]
  BY <1>6 DEF x, y
<1>12. Sized(l) /\ Tokens(l) = Tokens(r.ledger) + size /\ Sized(a)
  BY <1>9, <1>10
<1> HIDE DEF l, a
<1>13. /\ req'.ledger = l /\ req'.archive = a /\ req'.records = r.records
       /\ req'.segment = r.segment
  BY <1>4, <1>11 DEF IsRequest, Fields
<1>14. Roomy(req')
  BY <1>5, <1>12, <1>13 DEF Roomy, Open
<1>15. Tokens(req'.ledger) <= MaxModelLen
  <2>1. Sized(SubSeq(r.ledger, 1, r.segment.prompt))
    BY <1>4, <1>8, PrefixSized DEF Placed
  <2>2. /\ Budget(r) \in Int
        /\ Budget(r) <= MaxModelLen - Tokens(r.ledger) - ToolReserve - 1
    BY <1>8, <2>1, BudgetFits
  <2>3. Tokens(r.ledger) \in Int /\ MaxModelLen \in Nat /\ ToolReserve \in Nat
    BY <1>8, TokensType, SizesAreTokens
  <2> DEFINE b == Budget(r)
             k == Tokens(r.ledger)
             t == Tokens(req'.ledger)
  <2>4. size <= b /\ size \in Int /\ t = k + size
    BY <1>6, <1>7, <1>12, <1>13
  <2>5. b \in Int /\ b <= MaxModelLen - k - ToolReserve - 1
    BY <2>2
  <2>6. k \in Int
    BY <2>3
  <2> HIDE DEF b, k, t
  <2>7. t <= MaxModelLen
    BY <2>3, <2>4, <2>5, <2>6
  <2>8. QED
    BY <2>7 DEF t
<1>16. QED
  BY <1>1, <1>6, <1>14, <1>15 DEF FitInv

LEMMA RunToolsFits ==
    ASSUME NEW calls, NEW size \in ToolSizes, NEW stop \in BOOLEAN,
           NEW works \in BOOLEAN, FitInv, RunTools(calls, size, stop, works)
    PROVE  FitInv'
<1> DEFINE n == Len(given)
           answered == CompleteTurn(req, n - 1, calls, size)
           force == Tokens(answered.ledger) > MaxModelLen
           r == Cleanup(answered, force, ~stop, works)
           x == Span("tool", n - 1, size)
<1>1. SegInv'
  BY RunToolsSafe DEF FitInv
<1>2. UNCHANGED given
  BY DEF RunTools
<1>3. /\ IsRequest(answered) /\ Open(answered) /\ Closable(answered)
      /\ answered.ledger = Append(req.ledger, x)
      /\ answered.archive = Append(req.archive, x)
      /\ answered.records = req.records
      /\ answered.segment.bounds = req.segment.bounds
      /\ Live(answered) = Live(req)
  <2>1. IsRequest(req) /\ Placed(req) /\ Open(req)
    BY DEF FitInv, SegInv, RunTools
  <2> HIDE DEF n
  <2>2. QED
    BY <2>1, CompleteTurnKeeps
<1>4. \/ Quarantine
      \/ ~(Tokens(r.ledger) > MaxModelLen) /\ phase' = "done" /\ Finalize(r)
      \/ ~(Tokens(r.ledger) > MaxModelLen) /\ ~stop /\ phase' = "next" /\ req' = r
  BY Zenon DEF RunTools
<1>5. x.size \in Int
  BY SizesAreTokens DEF Span
<1> HIDE DEF answered, force, x
<1>6. Roomy(answered)
  <2>1. Roomy(req) /\ Open(req)
    BY DEF FitInv, SegInv, RunTools
  <2>2. Sized(answered.ledger) /\ Sized(answered.archive)
    BY <1>3, <1>5, <2>1, TokensOfAppend DEF Roomy
  <2>3. QED
    BY <1>3, <2>1, <2>2 DEF Roomy
<1>7. /\ Roomy(r)
      /\ \/ r = answered
         \/ /\ ~Open(r) /\ Tokens(r.ledger) <= MaxModelLen
            /\ ~stop => Tokens(r.ledger) + NextTurnReserve <= MaxModelLen
  BY <1>3, <1>6, CleanupFits
<1>8. IsRequest(r) /\ Placed(r)
  <2>1. AsGenerated(answered, given) /\ InOrder(answered, n) /\ n \in Nat
    <3>1. /\ IsRequest(req) /\ AsGenerated(req, given) /\ InOrder(req, n) /\ n \in Nat
      BY SequenceFacts DEF FitInv, SegInv, RunTools
    <3> HIDE DEF n
    <3>2. QED
      BY <1>3, <3>1, QuietGrowth
  <2> HIDE DEF n
  <2>2. QED
    BY <1>3, <2>1, CleanupKeeps DEF Closable
<1> HIDE DEF r
<1>9. Tokens(r.ledger) \in Int /\ MaxModelLen \in Nat
  BY <1>7, TokensType, SizesAreTokens DEF Roomy
<1>10. CASE Quarantine
  BY <1>2, <1>10, QuarantineFits
<1>11. CASE ~(Tokens(r.ledger) > MaxModelLen) /\ phase' = "done" /\ Finalize(r)
  <2>1. Tokens(r.ledger) <= MaxModelLen
    BY <1>9, <1>11
  <2>2. QED
    BY <1>1, <1>7, <1>8, <1>11, <2>1, FinalizeFits
<1>12. CASE ~(Tokens(r.ledger) > MaxModelLen) /\ ~stop /\ phase' = "next" /\ req' = r
  <2>1. Tokens(r.ledger) <= MaxModelLen
    BY <1>9, <1>12
  <2>2. ~Open(r) => Tokens(r.ledger) + NextTurnReserve <= MaxModelLen
    BY <1>3, <1>7, <1>12, Zenon
  <2>3. QED
    BY <1>1, <1>7, <1>12, <2>1, <2>2 DEF FitInv
<1>13. QED
  BY <1>4, <1>10, <1>11, <1>12

LEMMA OutOfTurnsFits == FitInv /\ OutOfTurns => FitInv'
<1> SUFFICES ASSUME FitInv, OutOfTurns PROVE FitInv'
  OBVIOUS
<1>1. SegInv'
  BY OutOfTurnsSafe DEF FitInv
<1>2. /\ IsRequest(req) /\ Placed(req) /\ Roomy(req) /\ Tokens(req.ledger) <= MaxModelLen
      /\ phase' = "done" /\ Finalize(req)
  BY DEF FitInv, SegInv, OutOfTurns
<1>3. QED
  BY <1>1, <1>2, FinalizeFits

\* What the properties ask of the configuration: the first prompt leaves room for
\* one turn, and the reserve of a turn is more than that of its observation.
\* (_next_turn_reserve adds two caps, which must be positive, and a margin.)
TurnsHaveRoom ==
    /\ BaseSize + NextTurnReserve <= MaxModelLen
    /\ ToolReserve + 2 < NextTurnReserve
    /\ ToolReserve < MaxResponseLen

LEMMA FitInvariant ==
    ASSUME TurnsHaveRoom
    PROVE  Spec => []FitInv
<1>1. Init => FitInv
  <2> SUFFICES ASSUME Init PROVE FitInv
    OBVIOUS
  <2>1. SegInv
    BY InitSafe
  <2>2. Tokens(Fresh.ledger) + NextTurnReserve <= MaxModelLen
        /\ Tokens(Fresh.ledger) <= MaxModelLen
    BY FreshFits, SizesAreTokens DEF TurnsHaveRoom
  <2>3. QED
    BY <2>1, <2>2, FreshFits DEF FitInv, Init
<1>2. FitInv /\ [Next]_vars => FitInv'
  <2> SUFFICES ASSUME FitInv, [Next]_vars PROVE FitInv'
    OBVIOUS
  <2>1. ASSUME NEW works \in BOOLEAN, Generate(works) PROVE FitInv'
    BY <2>1, GenerateFits
  <2>2. ASSUME NEW calls, NEW size \in ToolSizes, NEW stop \in BOOLEAN,
               NEW works \in BOOLEAN, RunTools(calls, size, stop, works)
        PROVE  FitInv'
    BY <2>2, RunToolsFits
  <2>3. CASE OutOfTurns
    BY <2>3, OutOfTurnsFits
  <2>4. CASE Reject
    BY <2>4, QuarantineFits DEF Reject
  <2>5. CASE UNCHANGED vars
    BY <2>5 DEF vars, FitInv, SegInv
  <2>6. QED
    BY <2>1, <2>2, <2>3, <2>4, <2>5 DEF Next
<1>3. QED
  BY <1>1, <1>2, PTL DEF Spec

\* No fragment is longer than the context of the engine, although an observation
\* may have gone over it; no turn starts from a longer context; and a turn that
\* opens a fragment, after a cleanup or at the start, has something left to
\* generate with: what maybe_cleanup_context keeps free covers what
\* compute_generation_budget takes away.
THEOREM FragmentsFitTheContext == TurnsHaveRoom /\ Spec => []FragmentsFit
<1> SUFFICES ASSUME TurnsHaveRoom PROVE Spec => []FragmentsFit
  OBVIOUS
<1>1. FitInv => FragmentsFit
  <2> SUFFICES ASSUME FitInv PROVE FragmentsFit
    OBVIOUS
  <2>1. ASSUME NEW f \in ToSet(req.records)
        PROVE  Tokens(f.prompt) + Tokens(f.response) <= MaxModelLen
    BY DEF FitInv, Roomy, AllInContext, InContext, ToSet
  <2>2. phase \in {"next", "done"} => Tokens(req.ledger) <= MaxModelLen
    BY DEF FitInv
  <2>3. ASSUME NEW works \in BOOLEAN, phase = "next",
               JustOpened(OpenTurn(Cleanup(req, FALSE, TRUE, works), Len(given)))
        PROVE  Budget(OpenTurn(Cleanup(req, FALSE, TRUE, works), Len(given))) > 0
    <3> DEFINE n == Len(given)
               d == Cleanup(req, FALSE, TRUE, works)
               r == OpenTurn(d, n)
    <3> SUFFICES ASSUME phase = "next", JustOpened(r) PROVE Budget(r) > 0
      BY <2>3
    <3>1. /\ IsRequest(req) /\ Closable(req) /\ AsGenerated(req, given) /\ InOrder(req, n)
          /\ n \in Nat /\ Roomy(req)
      BY SequenceFacts DEF FitInv, SegInv
    <3>2. IsRequest(d) /\ Placed(d)
      <4> HIDE DEF n
      <4>1. QED
        BY <3>1, CleanupKeeps DEF Closable
    <3>3. /\ Roomy(d)
          /\ d = req \/ Tokens(d.ledger) + NextTurnReserve <= MaxModelLen
      BY <3>1, CleanupFits
    <3> HIDE DEF d
    <3>4. /\ IsRequest(r) /\ Placed(r) /\ Open(r)
      BY <3>2, OpenTurnKeeps
    <3>5. /\ Roomy(r) /\ Tokens(r.ledger) = Tokens(d.ledger) + 1
          /\ ~Open(d)
          /\ Tokens(SubSeq(r.ledger, 1, r.segment.prompt)) = Tokens(r.ledger)
      BY <3>2, <3>3, OpenTurnFits
    <3> HIDE DEF r
    <3>6. Tokens(d.ledger) + NextTurnReserve <= MaxModelLen
      BY <3>3, <3>5 DEF FitInv
    <3>7. /\ Tokens(d.ledger) \in Int /\ NextTurnReserve \in Nat /\ MaxModelLen \in Nat
          /\ ToolReserve \in Nat
      BY <3>3, TokensType, SizesAreTokens DEF Roomy
    <3>8. Tokens(r.ledger) + ToolReserve + 1 < MaxModelLen
      BY <3>5, <3>6, <3>7 DEF TurnsHaveRoom
    <3>9. Sized(r.ledger) /\ Sized(SubSeq(r.ledger, 1, r.segment.prompt))
      BY <3>4, <3>5, PrefixSized DEF Roomy, Placed
    <3>10. QED
      BY <3>5, <3>8, <3>9, BudgetFits DEF TurnsHaveRoom
  <2>4. QED
    BY <2>1, <2>2, <2>3 DEF FragmentsFit, JustOpened
<1>2. QED
  BY <1>1, FitInvariant, PTL
-----------------------------------------------------------------------------
(* What the context tells: each message once, or the memory of its group *)

Once(s, x) == \E i \in DOMAIN s : \A j \in DOMAIN s : s[j] = x <=> j = i
Never(s, x) == \A j \in DOMAIN s : s[j] # x

LEMMA Appended ==
    ASSUME NEW s, IsSeq(s), NEW x, NEW t, t = Append(s, x)
    PROVE  /\ IsSeq(t) /\ Len(s) \in Nat /\ Len(t) = Len(s) + 1
           /\ DOMAIN s = 1..Len(s) /\ DOMAIN t = 1..(Len(s) + 1)
           /\ t[Len(s) + 1] = x
           /\ \A i \in 1..Len(s) : t[i] = s[i]
BY SequenceFacts, AppendFacts

LEMMA OnceInAppend ==
    ASSUME NEW s, IsSeq(s), NEW x, NEW y
    PROVE  /\ Never(s, x) => Once(Append(s, x), x)
           /\ Never(s, x) /\ y # x => Never(Append(s, y), x)
           /\ Once(s, x) /\ y # x => Once(Append(s, y), x)
<1>1. /\ Len(s) \in Nat /\ DOMAIN s = 1..Len(s)
      /\ \A z : /\ DOMAIN Append(s, z) = 1..(Len(s) + 1)
                /\ Append(s, z)[Len(s) + 1] = z
                /\ \A i \in 1..Len(s) : Append(s, z)[i] = s[i]
  BY SequenceFacts, AppendFacts
<1>2. Never(s, x) => Once(Append(s, x), x)
  <2> SUFFICES ASSUME Never(s, x) PROVE Once(Append(s, x), x)
    OBVIOUS
  <2> DEFINE t == Append(s, x)
             k == Len(s) + 1
  <2>1. k \in DOMAIN t /\ \A j \in DOMAIN t : t[j] = x <=> j = k
    BY <1>1 DEF Never
  <2> HIDE DEF t, k
  <2>2. Once(t, x)
    BY <2>1 DEF Once
  <2>3. QED
    BY <2>2 DEF t
<1>3. Never(s, x) /\ y # x => Never(Append(s, y), x)
  BY <1>1 DEF Never
<1>4. Once(s, x) /\ y # x => Once(Append(s, y), x)
  <2> SUFFICES ASSUME Once(s, x), y # x PROVE Once(Append(s, y), x)
    OBVIOUS
  <2>1. PICK i \in 1..Len(s) : \A j \in 1..Len(s) : s[j] = x <=> j = i
    BY <1>1 DEF Once
  <2> DEFINE t == Append(s, y)
  <2>2. i \in DOMAIN t /\ \A j \in DOMAIN t : t[j] = x <=> j = i
    BY <1>1, <2>1
  <2> HIDE DEF t
  <2>3. Once(t, x)
    BY <2>2 DEF Once
  <2>4. QED
    BY <2>3 DEF t
<1>5. QED
  BY <1>2, <1>3, <1>4

LEMMA OnceIsOneTime ==
    ASSUME NEW s, NEW x
    PROVE  /\ Once(s, x) => Cardinality({i \in DOMAIN s : s[i] = x}) = 1
           /\ Never(s, x) => Cardinality({i \in DOMAIN s : s[i] = x}) = 0
<1>1. ASSUME Once(s, x) PROVE Cardinality({i \in DOMAIN s : s[i] = x}) = 1
  <2>1. PICK i \in DOMAIN s : \A j \in DOMAIN s : s[j] = x <=> j = i
    BY <1>1 DEF Once
  <2>2. {j \in DOMAIN s : s[j] = x} = {i}
    BY <2>1
  <2>3. QED
    BY <2>2, FS_Singleton
<1>2. ASSUME Never(s, x) PROVE Cardinality({i \in DOMAIN s : s[i] = x}) = 0
  <2>1. {j \in DOMAIN s : s[j] = x} = {}
    BY <1>2 DEF Never
  <2>2. QED
    BY <2>1, FS_EmptySet
<1>3. QED
  BY <1>1, <1>2

\* What some pieces of one element each make of it, glued together: nothing else
\* is in the result, and what only one piece holds is in it once.
GluedFrom(all, some, one) ==
    /\ \A j \in DOMAIN all : \E i \in some : all[j] = one[i]
    /\ \A k \in some : (\A i \in some : one[i] = one[k] => i = k)
                         => Once(all, one[k])

LEMMA Flattened ==
    ASSUME NEW X, NEW n \in Nat, NEW some \in SUBSET (1..n), NEW one \in [1..n -> X],
           NEW ss, ss = [i \in 1..n |-> IF i \in some THEN <<one[i]>> ELSE <<>>],
           NEW all, all = FlattenSeq(ss)
    PROVE  GluedFrom(all, some, one)
<1> DEFINE Only(k) == \A i \in some : one[i] = one[k] => i = k
<1>1. ss \in Seq(Seq(X)) /\ Len(ss) = n
  <2>1. \A i \in 1..n : one[i] \in X
    OBVIOUS
  <2>2. \A x \in X : <<x>> \in Seq(X)
    OBVIOUS
  <2>3. <<>> \in Seq(X)
    OBVIOUS
  <2>4. ss \in [1..n -> Seq(X)]
    <3>1. \A i \in 1..n : (IF i \in some THEN <<one[i]>> ELSE <<>>) \in Seq(X)
      BY <2>1, <2>2, <2>3, Zenon
    <3>2. QED
      BY <3>1, Zenon
  <2>5. QED
    BY <2>4
<1>2. PICK f : /\ \A i \in 1..n : f[i] = IF i = 1 THEN ss[i] ELSE f[i - 1] \o ss[i]
               /\ all = IF n = 0 THEN <<>> ELSE f[n]
  BY <1>1, FlattenSteps
\* The same with Append.
<1>3. ASSUME NEW i \in 1..n, i = 1 \/ f[i - 1] \in Seq(X)
      PROVE  LET before == IF i = 1 THEN <<>> ELSE f[i - 1]
             IN  f[i] = IF i \in some THEN Append(before, one[i]) ELSE before
  <2> DEFINE before == IF i = 1 THEN <<>> ELSE f[i - 1]
  <2>1. before \in Seq(X)
    BY <1>3
  <2>2. f[i] = before \o ss[i]
    <3>1. ss[i] \in Seq(X)
      BY <1>1
    <3>2. <<>> \o ss[i] = ss[i]
      BY <3>1, ConcatEmptySeq
    <3>3. QED
      BY <1>2, <3>2
  <2> HIDE DEF before
  <2>3. before \o <<>> = before
    BY <2>1, ConcatEmptySeq
  <2>4. Append(before, one[i]) = before \o <<one[i]>>
    BY <2>1, AppendIsConcat
  <2>5. ss[i] = IF i \in some THEN <<one[i]>> ELSE <<>>
    BY Zenon
  <2>6. f[i] = IF i \in some THEN Append(before, one[i]) ELSE before
    BY <2>2, <2>3, <2>4, <2>5
  <2>7. QED
    BY <2>6 DEF before
<1> DEFINE Glued(s, i) ==
             /\ s \in Seq(X)
             /\ \A j \in DOMAIN s : \E m \in some : m <= i /\ s[j] = one[m]
             /\ \A k \in some : k <= i /\ Only(k) => Once(s, one[k])
           Good == {k \in Nat : \A i \in 1..n : i <= k => Glued(f[i], i)}
<1>4. Glued(<<>>, 0)
  BY DEF Once
<1>5. ASSUME NEW i \in 1..n, NEW s, Glued(s, i - 1)
      PROVE  Glued(IF i \in some THEN Append(s, one[i]) ELSE s, i)
  <2>1. CASE i \notin some
    <3>1. \A m \in some : m <= i <=> m <= i - 1
      BY <2>1
    <3> HIDE DEF Only
    <3>2. Glued(s, i)
      BY <1>5, <3>1
    <3> HIDE DEF Glued
    <3>3. QED
      BY <2>1, <3>2
  <2>2. CASE i \in some
    <3> DEFINE t == Append(s, one[i])
    <3>0. s \in Seq(X) /\ one[i] \in X /\ IsSeq(s)
      BY <1>5 DEF IsSeq
    <3>1. t \in Seq(X)
      BY <3>0
    <3>2. /\ Len(s) \in Nat /\ DOMAIN s = 1..Len(s)
          /\ DOMAIN t = 1..(Len(s) + 1)
          /\ t[Len(s) + 1] = one[i]
          /\ \A j \in 1..Len(s) : t[j] = s[j]
      BY <3>0, SequenceFacts, AppendFacts
    <3> HIDE DEF t
    <3>3. ASSUME NEW j \in DOMAIN t PROVE \E m \in some : m <= i /\ t[j] = one[m]
      <4>1. CASE j = Len(s) + 1
        BY <2>2, <3>2, <4>1
      <4>2. CASE j # Len(s) + 1
        <5>1. j \in DOMAIN s /\ t[j] = s[j]
          BY <3>2, <4>2
        <5>2. PICK m \in some : m <= i - 1 /\ s[j] = one[m]
          BY <1>5, <5>1
        <5>3. QED
          BY <5>1, <5>2
      <4>3. QED
        BY <4>1, <4>2
    <3>4. ASSUME NEW k \in some, k <= i, Only(k) PROVE Once(t, one[k])
      <4>1. CASE k = i
        <5>1. Never(s, one[i])
          <6> SUFFICES ASSUME NEW j \in DOMAIN s, s[j] = one[i] PROVE FALSE
            BY DEF Never
          <6>1. PICK m \in some : m <= i - 1 /\ s[j] = one[m]
            BY <1>5
          <6>2. m = i
            BY <3>4, <4>1, <6>1
          <6>3. QED
            BY <6>1, <6>2
        <5>2. QED
          BY <3>0, <4>1, <5>1, OnceInAppend DEF t
      <4>2. CASE k # i
        <5>1. k <= i - 1
          BY <3>4, <4>2
        <5>2. Once(s, one[k])
          <6> HIDE DEF Only
          <6>1. QED
            BY <1>5, <3>4, <5>1
        <5>3. one[i] # one[k]
          BY <2>2, <3>4, <4>2
        <5>4. QED
          BY <3>0, <5>2, <5>3, OnceInAppend DEF t
      <4>3. QED
        BY <4>1, <4>2
    <3> HIDE DEF Only
    <3>5. Glued(t, i)
      BY <3>1, <3>3, <3>4
    <3> HIDE DEF Glued
    <3>6. QED
      BY <2>2, <3>5 DEF t
  <2>3. QED
    BY <2>1, <2>2
<1>6. Good = Nat
  <2>1. 0 \in Good
    <3> HIDE DEF Glued
    <3>1. QED
      OBVIOUS
  <2>2. ASSUME NEW k \in Good PROVE k + 1 \in Good
    <3>0. k \in Nat /\ \A i \in 1..n : i <= k => Glued(f[i], i)
      OBVIOUS
    <3> SUFFICES ASSUME NEW i \in 1..n, i <= k + 1 PROVE Glued(f[i], i)
      BY <3>0
    <3> DEFINE before == IF i = 1 THEN <<>> ELSE f[i - 1]
    <3>1. Glued(before, i - 1)
      <4>1. CASE i = 1
        <5>1. before = <<>> /\ i - 1 = 0
          BY <4>1
        <5> HIDE DEF Glued, before
        <5>2. QED
          BY <1>4, <5>1
      <4>2. CASE i # 1
        <5>1. before = f[i - 1] /\ i - 1 \in 1..n /\ i - 1 <= k
          BY <3>0, <4>2
        <5> HIDE DEF Glued, before
        <5>2. QED
          BY <3>0, <5>1
      <4>3. QED
        BY <4>1, <4>2
    <3>2. i = 1 \/ f[i - 1] \in Seq(X)
      BY <3>1
    <3>3. f[i] = IF i \in some THEN Append(before, one[i]) ELSE before
      BY <1>3, <3>2
    <3> HIDE DEF before, Glued
    <3>4. QED
      BY <1>5, <3>1, <3>3
  <2>3. Good \in SUBSET Nat
    OBVIOUS
  <2> HIDE DEF Good
  <2>4. QED
    BY <2>1, <2>2, <2>3, InductionOnNaturals
<1>7. Glued(all, n)
  <2>1. CASE n = 0
    <3> HIDE DEF Glued
    <3>1. QED
      BY <1>2, <1>4, <2>1
  <2>2. CASE n # 0
    <3>1. n \in Good
      BY <1>6
    <3>2. n \in 1..n /\ n <= n
      BY <2>2
    <3> HIDE DEF Glued
    <3>3. QED
      BY <1>2, <2>2, <3>1, <3>2
  <2>3. QED
    BY <2>1, <2>2
<1>8. /\ \A j \in DOMAIN all : \E i \in some : all[j] = one[i]
      /\ \A k \in some : Only(k) => Once(all, one[k])
  <2>1. \A k \in some : k <= n
    OBVIOUS
  <2> HIDE DEF Only
  <2>2. QED
    BY <1>7, <2>1
<1>9. QED
  BY <1>8 DEF GluedFrom

-----------------------------------------------------------------------------
(* The archive, the groups of turns and what a context tells of them *)

Covered(r, turn) == {t \in Cleaned(r) : turn \in r.past[t + 1].group}

Spoken == {"marker", "actor", "tool"}

\* The archive holds the first prompt and at most one message of a kind from a
\* turn, a generation marker from each of the n turns so far; the observations
\* are those of the closed turns.
Archived(r, n) ==
    /\ Len(r.past) <= n
    /\ \A i \in DOMAIN r.archive :
         LET m == r.archive[i]
         IN  \/ m.kind = "base" /\ m.turn = -1
             \/ /\ m.kind \in Spoken
                /\ m.turn \in 0..(n - 1)
                /\ m.kind = "tool" => m.turn < Len(r.past)
    /\ \A i, j \in DOMAIN r.archive :
         /\ r.archive[i].kind = r.archive[j].kind
         /\ r.archive[i].turn = r.archive[j].turn
         => i = j
    /\ \A t \in 0..(n - 1) : \E i \in DOMAIN r.archive :
         r.archive[i].kind = "marker" /\ r.archive[i].turn = t

Entry(r, t) == r.past[t + 1]
IsTurn(e) ==
    /\ DOMAIN e = {"calls", "aspect", "cleanable", "cleaned", "actorEnd", "group"}
    /\ e = [k \in {"calls", "aspect", "cleanable", "cleaned", "actorEnd", "group"} |-> e[k]]
    /\ e.cleaned \in BOOLEAN

\* A turn that may be cleaned answered an aspect before a, as the only one, and
\* stands for the turns of that aspect up to itself.
Grouped(r, a) ==
    /\ \A t \in PastTurns(r) : IsTurn(Entry(r, t)) /\ (Entry(r, t).cleaned => Entry(r, t).cleanable)
    /\ \A t \in PastTurns(r) : Entry(r, t).cleanable =>
         /\ Entry(r, t).aspect \in 1..(a - 1)
         /\ Entry(r, t).group = {u \in 0..t : Entry(r, u).aspect = Entry(r, t).aspect}
    /\ \A t, u \in PastTurns(r) :
         /\ Entry(r, t).cleanable /\ Entry(r, u).cleanable
         /\ Entry(r, t).aspect = Entry(r, u).aspect
         => t = u

\* Every message of the archive is in the context once, or the memories of its
\* cleaned groups are there in its place.
ToldOf(r, m) ==
    IF Covered(r, m.turn) = {} THEN Once(r.ledger, m)
    ELSE /\ Never(r.ledger, m)
         /\ \A t \in Covered(r, m.turn) : Once(r.ledger, Memory(r, t))

Told(r) ==
    /\ \A i \in DOMAIN r.ledger :
         r.ledger[i].kind = "memory" \/ r.ledger[i] \in ToSet(r.archive)
    /\ \A i \in DOMAIN r.archive : ToldOf(r, r.archive[i])

\* A memory is made of the group's observations and calls, and of nothing else.
LEMMA MemorySame ==
    ASSUME NEW r, NEW c, NEW t, Entry(c, t).group = Entry(r, t).group,
           \A u \in Entry(r, t).group : Entry(c, u).calls = Entry(r, u).calls,
           \A m : m.turn \in Entry(r, t).group
                    => (m \in ToSet(c.archive) <=> m \in ToSet(r.archive))
    PROVE  Memory(c, t) = Memory(r, t)
<1> DEFINE G == Entry(r, t).group
<1>1. Feedback(c, G) = Feedback(r, G)
  <2>1. ASSUME NEW m, m.turn \in G
        PROVE  m \in Feedback(c, G) <=> m \in Feedback(r, G)
    <3>1. Entry(c, m.turn).calls = Entry(r, m.turn).calls
      BY <2>1
    <3>2. m \in ToSet(c.archive) <=> m \in ToSet(r.archive)
      BY <2>1
    <3> HIDE DEF G
    <3>3. QED
      BY <2>1, <3>1, <3>2, Zenon DEF Feedback, Entry
  <2>2. \A m : m \in Feedback(c, G) \/ m \in Feedback(r, G) => m.turn \in G
    BY DEF Feedback
  <2> HIDE DEF G
  <2>3. QED
    BY <2>1, <2>2
<1>2. Memory(c, t) = Span("memory", t, 1 + MapThenSumSet(LAMBDA m : m.size, Feedback(c, G)))
  BY Zenon DEF Memory, Entry
<1>3. Memory(r, t) = Span("memory", t, 1 + MapThenSumSet(LAMBDA m : m.size, Feedback(r, G)))
  BY Zenon DEF Memory, Entry
<1> HIDE DEF G
<1>4. QED
  BY <1>1, <1>2, <1>3, Zenon

LEMMA MemoryKind ==
    ASSUME NEW r, NEW t
    PROVE  Memory(r, t).kind = "memory" /\ Memory(r, t).turn = t
BY DEF Memory, Span

\* A group reaches back from the turn that stands for it, and no two of them
\* share a turn.
LEMMA GroupFacts ==
    ASSUME NEW r, NEW a, Grouped(r, a), NEW t \in PastTurns(r), Entry(r, t).cleanable
    PROVE  /\ Entry(r, t).group \subseteq 0..t
           /\ t \in Entry(r, t).group
           /\ \A u \in Entry(r, t).group : Entry(r, u).aspect \in 1..(a - 1)
           /\ \A v \in PastTurns(r) : \A u \in Entry(r, t).group :
                Entry(r, v).cleanable /\ u \in Entry(r, v).group => v = t
<1>1. /\ Entry(r, t).aspect \in 1..(a - 1)
      /\ Entry(r, t).group = {u \in 0..t : Entry(r, u).aspect = Entry(r, t).aspect}
  BY DEF Grouped
<1>2. t \in 0..t
  BY DEF PastTurns
<1>3. ASSUME NEW v \in PastTurns(r), NEW u \in Entry(r, t).group,
             Entry(r, v).cleanable, u \in Entry(r, v).group
      PROVE  v = t
  <2>1. Entry(r, v).group = {w \in 0..v : Entry(r, w).aspect = Entry(r, v).aspect}
    BY <1>3 DEF Grouped
  <2>2. Entry(r, v).aspect = Entry(r, t).aspect
    BY <1>1, <1>3, <2>1
  <2>3. QED
    BY <1>3, <2>2 DEF Grouped
<1>4. QED
  BY <1>1, <1>2, <1>3

LEMMA CleanedFacts ==
    ASSUME NEW r, NEW a, Grouped(r, a), NEW t \in Cleaned(r)
    PROVE  t \in PastTurns(r) /\ Entry(r, t).cleanable
BY DEF Grouped, Cleaned, Entry

\* A new message is told once; the old ones, and the memories, as before.
LEMMA GrowthTells ==
    ASSUME NEW r, NEW c, IsRequest(r), NEW a, Grouped(r, a), Told(r),
           NEW x, x.kind # "memory", x.turn \in Nat, x.turn >= Len(r.past),
           \A i \in DOMAIN r.archive : r.archive[i] # x,
           c.ledger = Append(r.ledger, x), c.archive = Append(r.archive, x),
           Cleaned(c) = Cleaned(r), \A t \in PastTurns(r) : Entry(c, t) = Entry(r, t)
    PROVE  Told(c)
<1>0. /\ IsSeq(r.ledger) /\ IsSeq(r.archive) /\ IsSeq(r.past)
      /\ Len(r.past) \in Nat
  BY SequenceFacts DEF IsRequest
<1>1. /\ Len(r.ledger) \in Nat /\ DOMAIN r.ledger = 1..Len(r.ledger)
      /\ DOMAIN c.ledger = 1..(Len(r.ledger) + 1)
      /\ c.ledger[Len(r.ledger) + 1] = x
      /\ \A i \in 1..Len(r.ledger) : c.ledger[i] = r.ledger[i]
  BY <1>0, Appended
<1>2. /\ Len(r.archive) \in Nat /\ DOMAIN r.archive = 1..Len(r.archive)
      /\ DOMAIN c.archive = 1..(Len(r.archive) + 1)
      /\ c.archive[Len(r.archive) + 1] = x
      /\ \A i \in 1..Len(r.archive) : c.archive[i] = r.archive[i]
  <2> DEFINE u == r.archive
             v == c.archive
  <2>1. IsSeq(u) /\ v = Append(u, x)
    BY <1>0
  <2> HIDE DEF u, v
  <2>2. /\ Len(u) \in Nat /\ DOMAIN u = 1..Len(u)
        /\ DOMAIN v = 1..(Len(u) + 1)
        /\ v[Len(u) + 1] = x
        /\ \A i \in 1..Len(u) : v[i] = u[i]
    BY <2>1, Appended
  <2>3. QED
    BY <2>2 DEF u, v
<1>3. ToSet(c.archive) = ToSet(r.archive) \cup {x}
  <2>1. ASSUME NEW i \in DOMAIN c.archive PROVE c.archive[i] \in ToSet(r.archive) \cup {x}
    <3>1. i \in 1..Len(r.archive) \/ i = Len(r.archive) + 1
      BY <1>2
    <3>2. QED
      BY <1>2, <3>1 DEF ToSet
  <2>2. ASSUME NEW i \in DOMAIN r.archive PROVE r.archive[i] \in ToSet(c.archive)
    <3>1. i \in DOMAIN c.archive /\ c.archive[i] = r.archive[i]
      BY <1>2
    <3>2. QED
      BY <3>1 DEF ToSet
  <2>3. x \in ToSet(c.archive)
    <3>1. Len(r.archive) + 1 \in DOMAIN c.archive
      BY <1>2
    <3>2. QED
      BY <1>2, <3>1 DEF ToSet
  <2>4. QED
    BY <2>1, <2>2, <2>3 DEF ToSet
\* The message belongs to no group, so the groups and memories are the same.
<1>4. ASSUME NEW t \in Cleaned(r)
      PROVE  /\ Entry(c, t) = Entry(r, t)
             /\ x.turn \notin Entry(r, t).group
             /\ Memory(c, t) = Memory(r, t)
  <2>1. t \in PastTurns(r) /\ Entry(r, t).cleanable
    BY <1>4, CleanedFacts
  <2>2. Entry(r, t).group \subseteq 0..t
    BY <2>1, GroupFacts
  <2>3. t \in 0..(Len(r.past) - 1)
    BY <2>1 DEF PastTurns
  <2>4. x.turn \notin Entry(r, t).group
    BY <1>0, <2>2, <2>3
  <2>5. \A u \in Entry(r, t).group : u \in PastTurns(r)
    BY <1>0, <2>2, <2>3 DEF PastTurns
  <2>6. Entry(c, t) = Entry(r, t) /\ \A u \in Entry(r, t).group : Entry(c, u) = Entry(r, u)
    BY <2>1, <2>5
  <2>7. \A m : m.turn \in Entry(r, t).group
                 => (m \in ToSet(c.archive) <=> m \in ToSet(r.archive))
    BY <1>3, <2>4
  <2>8. Memory(c, t) = Memory(r, t)
    BY <2>6, <2>7, MemorySame
  <2>9. QED
    BY <2>4, <2>6, <2>8
<1>5. \A u : Covered(c, u) = Covered(r, u)
  BY <1>4 DEF Covered, Entry
<1>6. Covered(c, x.turn) = {}
  BY <1>4, <1>5 DEF Covered, Entry
<1>7. Never(r.ledger, x)
  <2> SUFFICES ASSUME NEW i \in DOMAIN r.ledger, r.ledger[i] = x PROVE FALSE
    BY DEF Never
  <2>1. x \in ToSet(r.archive)
    BY DEF Told
  <2>2. QED
    BY <2>1 DEF ToSet
<1>8. Once(c.ledger, x)
  BY <1>0, <1>7, OnceInAppend
<1>9. ASSUME NEW i \in DOMAIN r.archive PROVE ToldOf(c, r.archive[i])
  <2> DEFINE m == r.archive[i]
  <2>1. ToldOf(r, m) /\ m # x
    BY DEF Told
  <2> HIDE DEF m
  <2>2. CASE Covered(r, m.turn) = {}
    <3>1. Once(r.ledger, m)
      BY <2>1, <2>2 DEF ToldOf
    <3>2. Once(c.ledger, m)
      BY <1>0, <2>1, <3>1, OnceInAppend
    <3>3. QED
      BY <1>5, <2>2, <3>2 DEF ToldOf, m
  <2>3. CASE Covered(r, m.turn) # {}
    <3>1. /\ Never(r.ledger, m)
          /\ \A t \in Covered(r, m.turn) : Once(r.ledger, Memory(r, t))
      BY <2>1, <2>3 DEF ToldOf
    <3>2. Never(c.ledger, m)
      BY <1>0, <2>1, <3>1, OnceInAppend
    <3>3. ASSUME NEW t \in Covered(r, m.turn) PROVE Once(c.ledger, Memory(c, t))
      <4>1. t \in Cleaned(r)
        BY DEF Covered
      <4>2. Memory(c, t) = Memory(r, t) /\ Memory(r, t) # x
        BY <1>4, <4>1, MemoryKind
      <4>3. Once(r.ledger, Memory(r, t))
        BY <3>1
      <4>4. Once(c.ledger, Memory(r, t))
        BY <1>0, <4>2, <4>3, OnceInAppend
      <4>5. QED
        BY <4>2, <4>4
    <3>4. ToldOf(c, m)
      BY <1>5, <2>3, <3>2, <3>3 DEF ToldOf
    <3>5. QED
      BY <3>4 DEF m
  <2>4. QED
    BY <2>2, <2>3
<1>10. ASSUME NEW i \in DOMAIN c.archive PROVE ToldOf(c, c.archive[i])
  <2>1. CASE i \in DOMAIN r.archive
    BY <1>2, <1>9, <2>1
  <2>2. CASE i \notin DOMAIN r.archive
    <3>1. c.archive[i] = x
      BY <1>2, <2>2
    <3>2. ToldOf(c, x)
      BY <1>6, <1>8 DEF ToldOf
    <3>3. QED
      BY <3>1, <3>2
  <2>3. QED
    BY <2>1, <2>2
<1>11. ASSUME NEW i \in DOMAIN c.ledger
       PROVE  c.ledger[i].kind = "memory" \/ c.ledger[i] \in ToSet(c.archive)
  <2>1. CASE i \in DOMAIN r.ledger
    BY <1>1, <1>3, <2>1 DEF Told
  <2>2. CASE i \notin DOMAIN r.ledger
    BY <1>1, <1>3, <2>2
  <2>3. QED
    BY <2>1, <2>2
<1>12. QED
  BY <1>10, <1>11 DEF Told

\* Compaction tells the groups it cleans by their memories and leaves the rest.
LEMMA CompactedTells ==
    ASSUME NEW r, NEW c, IsRequest(r), NEW n \in Nat, NEW a,
           Archived(r, n), Grouped(r, a),
           NEW answers \in SUBSET PastTurns(r), \A t \in answers : Entry(r, t).cleanable,
           c.archive = r.archive, c.ledger = Compacted(r, answers), Cleaned(c) = answers,
           \A t \in PastTurns(r) : /\ Entry(c, t).group = Entry(r, t).group
                                   /\ Entry(c, t).calls = Entry(r, t).calls
    PROVE  Told(c)
<1> DEFINE l == r.archive
           cleaned == UNION {Entry(r, t).group : t \in answers}
           Standing(m) == CHOOSE t \in answers : m.turn \in Entry(r, t).group
           Kept(i) == l[i].turn \notin cleaned
           First(i) == l[i].kind = "marker" /\ l[i].turn = Min(Entry(r, Standing(l[i])).group)
           some == {i \in DOMAIN l : Kept(i) \/ First(i)}
           one == [i \in DOMAIN l |-> IF Kept(i) THEN l[i] ELSE Memory(r, Standing(l[i]))]
           X == {one[i] : i \in DOMAIN l}
           ss == [i \in DOMAIN l |-> IF i \in some THEN <<one[i]>> ELSE <<>>]
<1>1. Len(l) \in Nat /\ DOMAIN l = 1..Len(l) /\ Len(r.past) \in Nat /\ Len(r.past) <= n
  BY SequenceFacts DEF IsRequest, Archived
<1>2. c.ledger = FlattenSeq(ss)
  <2> DEFINE Rendered(m, first) ==
        IF m.turn \notin UNION {r.past[t + 1].group : t \in answers} THEN <<m>>
        ELSE LET t == CHOOSE t \in answers : m.turn \in r.past[t + 1].group
             IN IF first /\ m.turn = Min(r.past[t + 1].group) THEN <<Memory(r, t)>> ELSE <<>>
  <2>1. c.ledger = FlattenSeq([i \in DOMAIN l |-> Rendered(l[i], l[i].kind = "marker")])
    BY DEF Compacted
  <2>2. ASSUME NEW i \in DOMAIN l
        PROVE  Rendered(l[i], l[i].kind = "marker") = IF i \in some THEN <<one[i]>> ELSE <<>>
    <3>1. CASE Kept(i)
      BY <3>1, Zenon DEF Entry
    <3>2. CASE ~Kept(i) /\ First(i)
      BY <3>2, Zenon DEF Entry
    <3>3. CASE ~Kept(i) /\ ~First(i)
      BY <3>3, Zenon DEF Entry
    <3>4. QED
      BY <3>1, <3>2, <3>3
  <2>3. [i \in DOMAIN l |-> Rendered(l[i], l[i].kind = "marker")] = ss
    <3> HIDE DEF Rendered, some, one, l
    <3>1. QED
      BY <2>2, Zenon
  <2>4. QED
    BY <2>1, <2>3
\* Which turn a covered message is remembered by.
<1>3. ASSUME NEW t \in answers, NEW u \in Entry(r, t).group
      PROVE  /\ u \in 0..(n - 1)
             /\ u \in cleaned
             /\ (CHOOSE s \in answers : u \in Entry(r, s).group) = t
  <2>1. t \in PastTurns(r) /\ Entry(r, t).cleanable
    OBVIOUS
  <2>2. u \in 0..t /\ t \in 0..(Len(r.past) - 1)
    BY <2>1, GroupFacts DEF PastTurns
  <2>3. \A s \in answers : u \in Entry(r, s).group => s = t
    BY <2>1, GroupFacts
  <2>4. QED
    BY <1>1, <2>2, <2>3
<1>4. ASSUME NEW t \in answers
      PROVE  /\ Min(Entry(r, t).group) \in Entry(r, t).group
             /\ \E k \in DOMAIN l : l[k].kind = "marker" /\ l[k].turn = Min(Entry(r, t).group)
  <2>1. t \in PastTurns(r) /\ Entry(r, t).cleanable
    OBVIOUS
  <2> DEFINE G == Entry(r, t).group
  <2>2. G \subseteq 0..t /\ t \in G /\ t \in Nat
    BY <2>1, GroupFacts DEF PastTurns
  <2>3. G \subseteq Nat /\ G # {}
    BY <2>2
  <2> HIDE DEF G
  <2>4. PICK m \in G : \A k \in G : m <= k
    BY <2>3, LeastNatural
  <2>5. Min(G) \in G
    BY <2>4, Zenon DEF Min
  <2>6. Min(G) \in 0..(n - 1)
    BY <1>3, <2>5 DEF G
  <2>7. QED
    BY <2>5, <2>6 DEF G, Archived
<1>5. \A i \in DOMAIN l : l[i].kind # "memory"
  BY DEF Archived, Spoken
<1>6. \A i, j \in DOMAIN l : l[i] = l[j] => i = j
  BY DEF Archived
<1>7. \A i \in DOMAIN l : one[i] = IF Kept(i) THEN l[i] ELSE Memory(r, Standing(l[i]))
  OBVIOUS
<1>8. \A i \in DOMAIN l : ~Kept(i) => /\ Standing(l[i]) \in answers
                                      /\ l[i].turn \in Entry(r, Standing(l[i])).group
  <2> SUFFICES ASSUME NEW i \in DOMAIN l, ~Kept(i)
               PROVE  /\ Standing(l[i]) \in answers
                      /\ l[i].turn \in Entry(r, Standing(l[i])).group
    OBVIOUS
  <2>1. PICK t \in answers : l[i].turn \in Entry(r, t).group
    OBVIOUS
  <2>2. Standing(l[i]) = t
    BY <1>3, <2>1
  <2>3. QED
    BY <2>1, <2>2
<1> HIDE DEF ss
<1>9. /\ \A j \in DOMAIN c.ledger : \E i \in some : c.ledger[j] = one[i]
      /\ \A k \in some : (\A i \in some : one[i] = one[k] => i = k) => Once(c.ledger, one[k])
  <2> DEFINE z == Len(l)
  <2>1. z \in Nat /\ one \in [1..z -> X] /\ some \in SUBSET (1..z)
    BY <1>1
  <2>2. ss = [i \in 1..z |-> IF i \in some THEN <<one[i]>> ELSE <<>>]
    BY <1>1 DEF ss
  <2> HIDE DEF one, some, X, l, z
  <2>3. GluedFrom(c.ledger, some, one)
    BY <1>2, <2>1, <2>2, Flattened
  <2>4. QED
    BY <2>3, Zenon DEF GluedFrom
\* What a kept message is told by.
<1>10. ASSUME NEW k \in DOMAIN l, Kept(k) PROVE Once(c.ledger, l[k])
  <2>1. k \in some /\ one[k] = l[k]
    BY <1>7, <1>10
  <2>2. ASSUME NEW i \in some, one[i] = one[k] PROVE i = k
    <3>1. CASE Kept(i)
      BY <1>6, <1>7, <2>1, <2>2, <3>1
    <3>2. CASE ~Kept(i)
      <4>1. one[i] = Memory(r, Standing(l[i]))
        BY <1>7, <3>2
      <4>2. one[i].kind = "memory"
        BY <4>1, MemoryKind
      <4>3. QED
        BY <1>5, <2>1, <2>2, <4>2
    <3>3. QED
      BY <3>1, <3>2
  <2> HIDE DEF one, some, Kept
  <2>3. QED
    BY <1>9, <2>1, <2>2
<1>11. ASSUME NEW k \in DOMAIN l, ~Kept(k) PROVE Never(c.ledger, l[k])
  <2> SUFFICES ASSUME NEW j \in DOMAIN c.ledger, c.ledger[j] = l[k] PROVE FALSE
    BY DEF Never
  <2>1. PICK i \in some : c.ledger[j] = one[i]
    BY <1>9
  <2>2. CASE Kept(i)
    BY <1>6, <1>7, <1>11, <2>1, <2>2
  <2>3. CASE ~Kept(i)
    <3>1. one[i] = Memory(r, Standing(l[i]))
      BY <1>7, <2>3
    <3>2. one[i].kind = "memory"
      BY <3>1, MemoryKind
    <3>3. QED
      BY <1>5, <2>1, <3>2
  <2>4. QED
    BY <2>2, <2>3
<1>12. ASSUME NEW t \in answers PROVE Once(c.ledger, Memory(r, t))
  <2>1. PICK k \in DOMAIN l : l[k].kind = "marker" /\ l[k].turn = Min(Entry(r, t).group)
    BY <1>4
  <2>2. l[k].turn \in Entry(r, t).group
    BY <1>4, <2>1
  <2>3. ~Kept(k) /\ Standing(l[k]) = t
    BY <1>3, <2>2
  <2>4. k \in some /\ one[k] = Memory(r, t)
    BY <1>7, <2>1, <2>3
  <2>5. ASSUME NEW i \in some, one[i] = one[k] PROVE i = k
    <3>1. one[i] = Memory(r, t) /\ one[i].kind = "memory" /\ one[i].turn = t
      BY <2>4, <2>5, MemoryKind
    <3>2. ~Kept(i)
      BY <1>5, <1>7, <3>1
    <3>3. one[i] = Memory(r, Standing(l[i]))
      BY <1>7, <3>2
    <3>4. Standing(l[i]) = t
      BY <3>1, <3>3, MemoryKind
    <3>5. l[i].kind = "marker" /\ l[i].turn = Min(Entry(r, t).group)
      BY <3>2, <3>4
    <3>6. QED
      BY <2>1, <3>5 DEF Archived
  <2> HIDE DEF one, some
  <2>6. QED
    BY <1>9, <2>4, <2>5
<1>13. ASSUME NEW t \in answers PROVE Memory(c, t) = Memory(r, t)
  <2>1. t \in PastTurns(r) /\ Entry(r, t).cleanable
    OBVIOUS
  <2>2. Entry(r, t).group \subseteq PastTurns(r)
    BY <2>1, GroupFacts DEF PastTurns
  <2>3. QED
    BY <2>1, <2>2, MemorySame
<1>14. \A u : Covered(c, u) = {t \in answers : u \in Entry(r, t).group}
  BY DEF Covered, Entry
<1>15. ASSUME NEW k \in DOMAIN c.archive PROVE ToldOf(c, c.archive[k])
  <2>1. k \in DOMAIN l /\ c.archive[k] = l[k]
    OBVIOUS
  <2>2. CASE Kept(k)
    <3>1. Covered(c, l[k].turn) = {}
      BY <1>14, <2>2
    <3>2. QED
      BY <1>10, <2>1, <2>2, <3>1 DEF ToldOf
  <2>3. CASE ~Kept(k)
    <3>1. Covered(c, l[k].turn) # {}
      BY <1>14, <2>3
    <3>2. \A t \in Covered(c, l[k].turn) : Once(c.ledger, Memory(c, t))
      BY <1>12, <1>13, <1>14
    <3>3. Never(c.ledger, l[k])
      BY <1>11, <2>1, <2>3
    <3> HIDE DEF l, Kept
    <3>4. QED
      BY <2>1, <3>1, <3>2, <3>3 DEF ToldOf
  <2>4. QED
    BY <2>2, <2>3
<1>16. ASSUME NEW j \in DOMAIN c.ledger
       PROVE  c.ledger[j].kind = "memory" \/ c.ledger[j] \in ToSet(c.archive)
  <2>1. PICK i \in some : c.ledger[j] = one[i]
    BY <1>9
  <2>2. CASE Kept(i)
    <3>1. c.ledger[j] = l[i] /\ i \in DOMAIN l
      BY <1>7, <2>1, <2>2
    <3>2. l[i] \in ToSet(l)
      BY <3>1 DEF ToSet
    <3>3. QED
      BY <3>1, <3>2
  <2>3. CASE ~Kept(i)
    <3>1. one[i] = Memory(r, Standing(l[i]))
      BY <1>7, <2>3
    <3>2. QED
      BY <2>1, <3>1, MemoryKind
  <2>4. QED
    BY <2>2, <2>3
<1>17. QED
  BY <1>15, <1>16 DEF Told

-----------------------------------------------------------------------------
(* The steps of a turn, and what the context tells after them *)

Remembers(r, n, a) ==
    /\ a \in Nat \ {0}
    /\ Archived(r, n) /\ Grouped(r, a) /\ Told(r)

\* Only the context, the archive and the closed turns matter.
LEMMA SameContext ==
    ASSUME NEW r, NEW c, NEW n, NEW a, Remembers(r, n, a),
           c.ledger = r.ledger, c.archive = r.archive, c.past = r.past
    PROVE  Remembers(c, n, a)
<1>1. PastTurns(c) = PastTurns(r) /\ Cleaned(c) = Cleaned(r) /\ \A t : Entry(c, t) = Entry(r, t)
  BY DEF PastTurns, Cleaned, Entry
<1>2. \A t : Memory(c, t) = Memory(r, t)
  BY <1>1, MemorySame
<1>3. \A u : Covered(c, u) = Covered(r, u)
  BY <1>1 DEF Covered, Entry
<1>4. Archived(c, n)
  BY DEF Remembers, Archived
<1>5. Grouped(c, a)
  <2>1. Grouped(r, a)
    BY DEF Remembers
  <2>2. QED
    BY <1>1, <2>1 DEF Grouped
<1>6. Told(c)
  <2>1. \A m : ToldOf(r, m) => ToldOf(c, m)
    BY <1>2, <1>3 DEF ToldOf
  <2>2. QED
    BY <2>1 DEF Remembers, Told
<1>7. QED
  BY <1>4, <1>5, <1>6 DEF Remembers

Marked(r, answers) ==
    [i \in DOMAIN r.past |-> [r.past[i] EXCEPT !.cleaned = i - 1 \in answers]]

\* A cleanup marks a set of turns and renders the archive without their groups.
CleanedTo(r, answers, c) ==
    /\ \A t \in answers : Entry(r, t).cleaned \/ Entry(r, t).cleanable
    /\ c = [CloseFragment(r, FragmentEnd(r)) EXCEPT
              !.ledger = Compacted(r, answers), !.past = Marked(r, answers)]

LEMMA CleanupExact ==
    ASSUME NEW r, IsRequest(r), NEW force, NEW needs, NEW works
    PROVE  \/ Cleanup(r, force, needs, works) = r
           \/ \E answers \in SUBSET PastTurns(r) :
                CleanedTo(r, answers, Cleanup(r, force, needs, works))
<1> DEFINE todo == Candidates(r)
           UpTo(k) == Cleaned(r) \cup Oldest(todo, k)
           Size(k) == Tokens(Compacted(r, UpTo(k)))
           Safe(k) == Size(k) + NextTurnReserve <= MaxModelLen
           Enough(k) == IF needs THEN Size(k) <= Target /\ Safe(k)
                                 ELSE Size(k) <= Target \/ Safe(k)
           chosen == Min({k \in 1 .. Cardinality(todo) : Enough(k)} \cup {Cardinality(todo)})
           answers == UpTo(chosen)
<1>1. \/ Cleanup(r, force, needs, works) = r
      \/ Cleanup(r, force, needs, works)
           = [CloseFragment(r, FragmentEnd(r)) EXCEPT
                !.ledger = Compacted(r, answers), !.past = Marked(r, answers)]
  BY Zenon DEF Cleanup, Marked
<1> HIDE DEF chosen
<1>2. /\ answers \in SUBSET PastTurns(r)
      /\ \A t \in answers : Entry(r, t).cleaned \/ Entry(r, t).cleanable
  BY DEF Cleaned, Candidates, Oldest, Entry
<1> HIDE DEF answers
<1>3. QED
  BY <1>1, <1>2 DEF CleanedTo

LEMMA MarkedTurn ==
    ASSUME NEW e, IsTurn(e), NEW b \in BOOLEAN, NEW d, d = [e EXCEPT !.cleaned = b]
    PROVE  /\ IsTurn(d) /\ d.cleaned = b
           /\ d.calls = e.calls /\ d.aspect = e.aspect
           /\ d.cleanable = e.cleanable /\ d.group = e.group
<1> DEFINE F == {"calls", "aspect", "cleanable", "cleaned", "actorEnd", "group"}
<1>1. DOMAIN e = F /\ DOMAIN d = F
  BY DEF IsTurn
<1>2. \A k \in F : d[k] = IF k = "cleaned" THEN b ELSE e[k]
  BY <1>1
<1>3. d = [k \in F |-> d[k]]
  BY <1>1
<1>4. d.cleaned = b
  BY <1>2
<1>5. /\ d.calls = e.calls /\ d.aspect = e.aspect
      /\ d.cleanable = e.cleanable /\ d.group = e.group
  BY <1>2
<1>6. IsTurn(d)
  BY <1>1, <1>3, <1>4, Zenon DEF IsTurn
<1>7. QED
  BY <1>4, <1>5, <1>6

LEMMA MarkedFacts ==
    ASSUME NEW r, IsRequest(r), NEW a, Grouped(r, a), NEW answers,
           NEW c, c.past = Marked(r, answers)
    PROVE  /\ IsSeq(c.past) /\ Len(c.past) = Len(r.past)
           /\ \A t \in PastTurns(r) :
                /\ IsTurn(Entry(c, t))
                /\ Entry(c, t).cleaned <=> t \in answers
                /\ Entry(c, t).calls = Entry(r, t).calls
                /\ Entry(c, t).aspect = Entry(r, t).aspect
                /\ Entry(c, t).cleanable = Entry(r, t).cleanable
                /\ Entry(c, t).group = Entry(r, t).group
<1>1. DOMAIN r.past = 1..Len(r.past) /\ Len(r.past) \in Nat
  BY SequenceFacts DEF IsRequest
<1>2. IsSeq(c.past) /\ Len(c.past) = Len(r.past)
  <2> DEFINE p == Marked(r, answers)
             X == {p[i] : i \in DOMAIN r.past}
  <2>1. p \in [1..Len(r.past) -> X]
    BY <1>1 DEF Marked
  <2> HIDE DEF p, X
  <2>2. p \in Seq(X) /\ Len(p) = Len(r.past)
    BY <1>1, <2>1
  <2>3. QED
    BY <2>2 DEF IsSeq, p
<1>3. ASSUME NEW t \in PastTurns(r)
      PROVE  Entry(c, t) = [Entry(r, t) EXCEPT !.cleaned = t \in answers]
  <2>1. t + 1 \in DOMAIN r.past /\ (t + 1) - 1 = t
    BY <1>1 DEF PastTurns
  <2>2. c.past[t + 1] = [r.past[t + 1] EXCEPT !.cleaned = (t + 1) - 1 \in answers]
    BY <2>1 DEF Marked
  <2>3. QED
    BY <2>1, <2>2 DEF Entry
<1>4. ASSUME NEW t \in PastTurns(r)
      PROVE  /\ IsTurn(Entry(c, t))
             /\ Entry(c, t).cleaned <=> t \in answers
             /\ Entry(c, t).calls = Entry(r, t).calls
             /\ Entry(c, t).aspect = Entry(r, t).aspect
             /\ Entry(c, t).cleanable = Entry(r, t).cleanable
             /\ Entry(c, t).group = Entry(r, t).group
  <2> DEFINE e == Entry(r, t)
             d == Entry(c, t)
  <2>1. IsTurn(e) /\ d = [e EXCEPT !.cleaned = t \in answers]
    BY <1>3 DEF Grouped
  <2> HIDE DEF e, d
  <2>2. /\ IsTurn(d) /\ (d.cleaned <=> t \in answers)
        /\ d.calls = e.calls /\ d.aspect = e.aspect
        /\ d.cleanable = e.cleanable /\ d.group = e.group
    <3> DEFINE b == t \in answers
    <3>0. IsTurn(e)
      BY <2>1
    <3>1. b \in BOOLEAN /\ d = [e EXCEPT !.cleaned = b]
      BY <2>1
    <3>2. (d.cleaned = b) => (d.cleaned <=> b)
      BY Zenon
    <3> HIDE DEF b
    <3>3. /\ IsTurn(d) /\ d.cleaned = b
          /\ d.calls = e.calls /\ d.aspect = e.aspect
          /\ d.cleanable = e.cleanable /\ d.group = e.group
      BY <3>0, <3>1, MarkedTurn
    <3>4. QED
      BY <3>2, <3>3, Zenon DEF b
  <2>3. QED
    BY <2>2 DEF e, d
<1>5. QED
  BY <1>2, <1>4

LEMMA CleanupRemembers ==
    ASSUME NEW r, IsRequest(r), NEW n \in Nat, NEW a, Remembers(r, n, a),
           NEW force, NEW needs, NEW works
    PROVE  LET c == Cleanup(r, force, needs, works)
           IN  /\ Remembers(c, n, a) /\ Len(c.past) = Len(r.past)
               /\ c.archive = r.archive
<1> DEFINE c == Cleanup(r, force, needs, works)
           d == CloseFragment(r, FragmentEnd(r))
<1>1. CASE c = r
  BY <1>1
<1>2. ASSUME NEW answers \in SUBSET PastTurns(r), CleanedTo(r, answers, c)
      PROVE  Remembers(c, n, a) /\ Len(c.past) = Len(r.past) /\ c.archive = r.archive
  <2>1. IsRequest(d) /\ d.archive = r.archive
    BY ClosedFields
  <2> HIDE DEF c
  <2>0. /\ \A t \in answers : Entry(r, t).cleaned \/ Entry(r, t).cleanable
        /\ c = [d EXCEPT !.ledger = Compacted(r, answers), !.past = Marked(r, answers)]
    BY <1>2, Zenon DEF CleanedTo
  <2> HIDE DEF d
  <2>2. /\ c.archive = r.archive
        /\ c.ledger = Compacted(r, answers)
        /\ c.past = Marked(r, answers)
    BY <2>0, <2>1 DEF IsRequest, Fields
  <2>3. Archived(r, n) /\ Grouped(r, a) /\ Told(r) /\ a \in Nat \ {0}
    BY DEF Remembers
  <2>4. /\ IsSeq(c.past) /\ Len(c.past) = Len(r.past)
        /\ \A t \in PastTurns(r) :
             /\ IsTurn(Entry(c, t))
             /\ Entry(c, t).cleaned <=> t \in answers
             /\ Entry(c, t).calls = Entry(r, t).calls
             /\ Entry(c, t).aspect = Entry(r, t).aspect
             /\ Entry(c, t).cleanable = Entry(r, t).cleanable
             /\ Entry(c, t).group = Entry(r, t).group
    BY <2>2, <2>3, MarkedFacts
  <2>5. PastTurns(c) = PastTurns(r)
    BY <2>4 DEF PastTurns
  <2>6. Cleaned(c) = answers
    BY <2>4, <2>5 DEF Cleaned, Entry
  <2>7. \A t \in answers : Entry(r, t).cleanable
    BY <2>0, <2>3 DEF Grouped
  <2>8. Told(c)
    BY <2>2, <2>3, <2>4, <2>6, <2>7, CompactedTells
  <2>9. Archived(c, n)
    BY <2>2, <2>3, <2>4 DEF Archived
  <2>10. Grouped(c, a)
    <3>1. ASSUME NEW t \in PastTurns(r), Entry(c, t).cleanable
          PROVE  /\ Entry(c, t).aspect \in 1..(a - 1)
                 /\ Entry(c, t).group = {u \in 0..t : Entry(c, u).aspect = Entry(c, t).aspect}
      <4>1. /\ Entry(r, t).aspect \in 1..(a - 1)
            /\ Entry(r, t).group = {u \in 0..t : Entry(r, u).aspect = Entry(r, t).aspect}
        BY <2>3, <2>4, <3>1 DEF Grouped
      <4>2. \A u \in 0..t : u \in PastTurns(r)
        <5>1. Len(r.past) \in Nat
          BY SequenceFacts DEF IsRequest
        <5>2. QED
          BY <5>1 DEF PastTurns
      <4>3. QED
        BY <2>4, <4>1, <4>2
    <3>2. \A t \in PastTurns(r) :
            IsTurn(Entry(c, t)) /\ (Entry(c, t).cleaned => Entry(c, t).cleanable)
      BY <2>4, <2>7
    <3>3. \A t, u \in PastTurns(r) :
            Entry(c, t).cleanable /\ Entry(c, u).cleanable
              /\ Entry(c, t).aspect = Entry(c, u).aspect => t = u
      <4>1. \A t, u \in PastTurns(r) :
              Entry(r, t).cleanable /\ Entry(r, u).cleanable
                /\ Entry(r, t).aspect = Entry(r, u).aspect => t = u
        BY <2>3 DEF Grouped
      <4>2. QED
        BY <2>4, <4>1
    <3>4. QED
      BY <2>5, <3>1, <3>2, <3>3 DEF Grouped
  <2>11. QED
    BY <2>2, <2>3, <2>4, <2>8, <2>9, <2>10 DEF Remembers
<1>3. Remembers(c, n, a) /\ Len(c.past) = Len(r.past) /\ c.archive = r.archive
  <2>1. \/ c = r
        \/ \E answers \in SUBSET PastTurns(r) : CleanedTo(r, answers, c)
    BY CleanupExact
  <2> HIDE DEF c
  <2>2. QED
    BY <1>1, <1>2, <2>1
<1>4. QED
  BY <1>3

LEMMA SamePast ==
    ASSUME NEW r, NEW c, c.past = r.past, NEW a, Grouped(r, a)
    PROVE  /\ Grouped(c, a) /\ Cleaned(c) = Cleaned(r)
           /\ PastTurns(c) = PastTurns(r) /\ \A t : Entry(c, t) = Entry(r, t)
<1>1. PastTurns(c) = PastTurns(r) /\ Cleaned(c) = Cleaned(r) /\ \A t : Entry(c, t) = Entry(r, t)
  BY DEF PastTurns, Cleaned, Entry
<1>2. Grouped(c, a)
  BY <1>1 DEF Grouped
<1>3. QED
  BY <1>1, <1>2

\* A turn of the actor is two messages: its marker and what it wrote.
LEMMA ActorTurnRemembers ==
    ASSUME NEW r, IsRequest(r), NEW n \in Nat, NEW a, Remembers(r, n, a), Len(r.past) = n,
           NEW size, NEW c, c.past = r.past,
           c.ledger = Append(Append(r.ledger, Marker(n)), Span("actor", n, size)),
           c.archive = Append(Append(r.archive, Marker(n)), Span("actor", n, size))
    PROVE  Remembers(c, n + 1, a)
<1> DEFINE x == Marker(n)
           y == Span("actor", n, size)
           e == [r EXCEPT !.ledger = Append(r.ledger, x), !.archive = Append(r.archive, x)]
           K == Len(r.archive)
<1>1. /\ x.kind = "marker" /\ x.turn = n
      /\ y.kind = "actor" /\ y.turn = n
  BY DEF Marker, Span
<1> HIDE DEF x, y
<1>2. Archived(r, n) /\ Grouped(r, a) /\ Told(r) /\ a \in Nat \ {0}
  BY DEF Remembers
<1>3. /\ IsSeq(Append(r.ledger, x)) /\ IsSeq(Append(r.archive, x))
      /\ K \in Nat /\ DOMAIN r.archive = 1..K
      /\ DOMAIN Append(r.archive, x) = 1..(K + 1) /\ Len(Append(r.archive, x)) = K + 1
      /\ Append(r.archive, x)[K + 1] = x
      /\ \A i \in 1..K : Append(r.archive, x)[i] = r.archive[i]
  BY SequenceFacts, AppendFacts DEF IsRequest
<1>4. /\ IsRequest(e) /\ e.past = r.past
      /\ e.ledger = Append(r.ledger, x) /\ e.archive = Append(r.archive, x)
  BY <1>3 DEF IsRequest, Fields
<1> HIDE DEF e, K
<1>5. /\ DOMAIN c.archive = 1..(K + 2)
      /\ c.archive[K + 1] = x /\ c.archive[K + 2] = y
      /\ \A i \in 1..K : c.archive[i] = r.archive[i]
  <2>1. c.archive = Append(e.archive, y) /\ IsSeq(e.archive) /\ Len(e.archive) = K + 1
    BY <1>3, <1>4 DEF x, y
  <2>2. /\ DOMAIN c.archive = 1..((K + 1) + 1)
        /\ c.archive[(K + 1) + 1] = y
        /\ \A i \in 1..(K + 1) : c.archive[i] = e.archive[i]
    <3> DEFINE u == e.archive
               v == c.archive
    <3>1. IsSeq(u) /\ v = Append(u, y) /\ Len(u) = K + 1
      BY <2>1
    <3> HIDE DEF u, v
    <3>2. /\ DOMAIN v = 1..(Len(u) + 1)
          /\ v[Len(u) + 1] = y
          /\ \A i \in 1..Len(u) : v[i] = u[i]
      BY <3>1, Appended
    <3>3. QED
      BY <3>1, <3>2 DEF u, v
  <2>3. (K + 1) + 1 = K + 2 /\ K + 1 \in 1..(K + 1) /\ \A i \in 1..K : i \in 1..(K + 1)
    BY <1>3
  <2>4. QED
    BY <1>3, <1>4, <2>2, <2>3
<1>6. \A i \in 1..K : \/ r.archive[i].kind = "base" /\ r.archive[i].turn = -1
                      \/ /\ r.archive[i].kind \in Spoken
                         /\ r.archive[i].turn \in 0..(n - 1)
                         /\ r.archive[i].kind = "tool" => r.archive[i].turn < n
  BY <1>2, <1>3 DEF Archived
<1>7. \A i \in 1..K : r.archive[i].turn # n /\ r.archive[i] # x /\ r.archive[i] # y
  BY <1>1, <1>6
<1>8. /\ Grouped(e, a) /\ Cleaned(e) = Cleaned(r)
      /\ PastTurns(e) = PastTurns(r) /\ \A t : Entry(e, t) = Entry(r, t)
  BY <1>2, <1>4, SamePast
<1>9. Told(e)
  <2>1. x.kind # "memory" /\ x.turn \in Nat /\ x.turn >= Len(r.past)
    BY <1>1
  <2>2. \A i \in DOMAIN r.archive : r.archive[i] # x
    BY <1>3, <1>7
  <2>3. QED
    BY <1>2, <1>4, <1>8, <2>1, <2>2, GrowthTells
<1>10. /\ Grouped(c, a) /\ Cleaned(c) = Cleaned(e) /\ \A t : Entry(c, t) = Entry(e, t)
  BY <1>4, <1>8, SamePast
<1>11. Told(c)
  <2>1. \A i \in DOMAIN e.archive : e.archive[i] # y
    <3>1. x # y
      BY <1>1
    <3>2. \A i \in 1..(K + 1) : i = K + 1 \/ i \in 1..K
      BY <1>3
    <3>3. QED
      BY <1>3, <1>4, <1>7, <3>1, <3>2
  <2>2. c.ledger = Append(e.ledger, y) /\ c.archive = Append(e.archive, y)
    BY <1>4 DEF x, y
  <2>3. y.kind # "memory" /\ y.turn \in Nat /\ y.turn >= Len(e.past)
    BY <1>1, <1>4
  <2>4. QED
    BY <1>4, <1>8, <1>9, <1>10, <2>1, <2>2, <2>3, GrowthTells
<1>12. Archived(c, n + 1)
  <2>1. \A i \in 1..(K + 2) : i \in 1..K \/ i = K + 1 \/ i = K + 2
    BY <1>3
  <2>2. ASSUME NEW i \in 1..(K + 2)
        PROVE  \/ c.archive[i].kind = "base" /\ c.archive[i].turn = -1
               \/ /\ c.archive[i].kind \in Spoken
                  /\ c.archive[i].turn \in 0..((n + 1) - 1)
                  /\ c.archive[i].kind = "tool" => c.archive[i].turn < Len(c.past)
    <3>1. CASE i \in 1..K
      <4>1. c.archive[i] = r.archive[i]
        BY <1>5, <3>1
      <4>2. CASE r.archive[i].kind = "base" /\ r.archive[i].turn = -1
        BY <4>1, <4>2
      <4>3. CASE /\ r.archive[i].kind \in Spoken
                 /\ r.archive[i].turn \in 0..(n - 1)
                 /\ r.archive[i].kind = "tool" => r.archive[i].turn < n
        <5>1. r.archive[i].turn \in 0..((n + 1) - 1)
          BY <4>3
        <5>2. QED
          BY <4>1, <4>3, <5>1
      <4>4. QED
        BY <1>6, <3>1, <4>2, <4>3
    <3>2. CASE i = K + 1 \/ i = K + 2
      <4>1. /\ c.archive[i].kind \in {"marker", "actor"}
            /\ c.archive[i].turn = n
        BY <1>1, <1>5, <3>2
      <4>2. n \in 0..((n + 1) - 1)
        OBVIOUS
      <4>3. QED
        BY <4>1, <4>2 DEF Spoken
    <3>3. QED
      BY <2>1, <3>1, <3>2
  <2>3. ASSUME NEW i \in 1..(K + 2), NEW j \in 1..(K + 2),
               c.archive[i].kind = c.archive[j].kind,
               c.archive[i].turn = c.archive[j].turn
        PROVE  i = j
    <3>1. CASE i \in 1..K /\ j \in 1..K
      <4>1. r.archive[i].kind = r.archive[j].kind /\ r.archive[i].turn = r.archive[j].turn
        BY <1>5, <2>3, <3>1
      <4>2. QED
        BY <1>2, <1>3, <3>1, <4>1 DEF Archived
    <3>2. CASE i \in 1..K /\ j \notin 1..K
      BY <1>1, <1>5, <1>7, <2>1, <2>3, <3>2
    <3>3. CASE i \notin 1..K /\ j \in 1..K
      BY <1>1, <1>5, <1>7, <2>1, <2>3, <3>3
    <3>4. CASE i \notin 1..K /\ j \notin 1..K
      BY <1>1, <1>5, <2>1, <2>3, <3>4
    <3>5. QED
      BY <3>1, <3>2, <3>3, <3>4
  <2>4. ASSUME NEW t \in 0..((n + 1) - 1)
        PROVE  \E i \in 1..(K + 2) : c.archive[i].kind = "marker" /\ c.archive[i].turn = t
    <3>1. CASE t = n
      <4>1. K + 1 \in 1..(K + 2)
        BY <1>3
      <4>2. QED
        BY <1>1, <1>5, <3>1, <4>1
    <3>2. CASE t # n
      <4>1. t \in 0..(n - 1)
        BY <3>2
      <4>2. PICK i \in 1..K : r.archive[i].kind = "marker" /\ r.archive[i].turn = t
        BY <1>2, <1>3, <4>1 DEF Archived
      <4>3. i \in 1..(K + 2)
        BY <1>3
      <4>4. QED
        BY <1>5, <4>2, <4>3
    <3>3. QED
      BY <3>1, <3>2
  <2>5. Len(c.past) <= n + 1
    OBVIOUS
  <2>6. QED
    BY <1>5, <2>2, <2>3, <2>4, <2>5 DEF Archived
<1>13. QED
  BY <1>2, <1>10, <1>11, <1>12 DEF Remembers

\* The turn that complete_turn files.
Owner(calls) == IF Len(calls) = 1 THEN calls[1].aspect ELSE 0
Answered(r, calls) ==
    Owner(calls) # 0 /\ calls[1].kind \in Answers /\ \A p \in ToSet(r.past) : p.aspect # 0
ClosedTurn(r, turn, calls) ==
    [calls |-> calls, aspect |-> Owner(calls),
     cleanable |-> Answered(r, calls), cleaned |-> FALSE,
     actorEnd |-> Len(r.ledger),
     group |-> IF Answered(r, calls)
               THEN {t \in PastTurns(r) : Entry(r, t).aspect = Owner(calls)} \cup {turn}
               ELSE {turn}]

LEMMA CompletedPast ==
    ASSUME NEW r, IsRequest(r), NEW turn, NEW calls, NEW size
    PROVE  CompleteTurn(r, turn, calls, size).past = Append(r.past, ClosedTurn(r, turn, calls))
<1> DEFINE observed == Span("tool", turn, size)
           l == Append(r.ledger, observed)
           a == Append(r.archive, observed)
           w == Append(r.segment.turns, turn)
           q == Append(r.past, ClosedTurn(r, turn, calls))
           c == [r EXCEPT !.ledger = l, !.archive = a, !.segment.turns = w, !.past = q]
<1>1. CompleteTurn(r, turn, calls, size) = c
  BY Zenon DEF CompleteTurn, ClosedTurn, Answered, Owner, Entry
<1> HIDE DEF l, a, w, q
<1>2. c.past = q
  BY DEF IsRequest, Fields
<1>3. QED
  BY <1>1, <1>2 DEF q

IsClosedTurn(e, r, turn, calls) ==
    /\ IsTurn(e) /\ e.cleaned = FALSE /\ e.aspect = Owner(calls)
    /\ e.cleanable => /\ Answered(r, calls)
                      /\ e.group = {t \in PastTurns(r) :
                                      Entry(r, t).aspect = Owner(calls)} \cup {turn}

LEMMA ClosedTurnFields ==
    ASSUME NEW r, NEW turn, NEW calls
    PROVE  IsClosedTurn(ClosedTurn(r, turn, calls), r, turn, calls)
<1> DEFINE e == ClosedTurn(r, turn, calls)
           m == Answered(r, calls)
           G == {t \in PastTurns(r) : Entry(r, t).aspect = Owner(calls)} \cup {turn}
           o == Owner(calls)
           k == Len(r.ledger)
           g == IF m THEN G ELSE {turn}
<1>1. e = [calls |-> calls, aspect |-> o, cleanable |-> m, cleaned |-> FALSE,
           actorEnd |-> k, group |-> g]
  BY Zenon DEF ClosedTurn
<1>2. m => g = G
  OBVIOUS
<1>3. m \in BOOLEAN
  BY DEF Answered
<1> HIDE DEF e, m, G, o, k, g
<1>4. /\ DOMAIN e = {"calls", "aspect", "cleanable", "cleaned", "actorEnd", "group"}
      /\ e.cleaned = FALSE /\ e.aspect = o /\ e.cleanable = m /\ e.group = g
  BY <1>1, <1>3
<1>5. e = [f \in {"calls", "aspect", "cleanable", "cleaned", "actorEnd", "group"} |-> e[f]]
  BY <1>1, <1>3
<1>6. IsTurn(e)
  BY <1>4, <1>5, Zenon DEF IsTurn
<1>7. e.cleanable => m /\ e.group = G
  BY <1>2, <1>3, <1>4
<1>8. IsClosedTurn(e, r, turn, calls)
  BY <1>4, <1>6, <1>7, Zenon DEF m, G, o, IsClosedTurn
<1>9. QED
  BY <1>8 DEF e

\* A turn whose calls have run is one message more and one closed turn more; when
\* it may be cleaned the aspect it answered is over.
LEMMA ClosedTurnRemembers ==
    ASSUME NEW r, IsRequest(r), NEW n \in Nat \ {0}, NEW a, Remembers(r, n, a),
           Len(r.past) = n - 1, NEW calls, NEW size, NEW c, IsRequest(c),
           c.past = Append(r.past, ClosedTurn(r, n - 1, calls)),
           c.ledger = Append(r.ledger, Span("tool", n - 1, size)),
           c.archive = Append(r.archive, Span("tool", n - 1, size)),
           Len(calls) = 1 => calls[1].aspect = a,
           NEW b \in {a, a + 1},
           Len(calls) = 1 /\ calls[1].kind \in Answers => b = a + 1
    PROVE  Remembers(c, n, b) /\ Len(c.past) = n
<1> DEFINE x == Span("tool", n - 1, size)
           e == ClosedTurn(r, n - 1, calls)
           K == Len(r.archive)
<1>1. x.kind = "tool" /\ x.turn = n - 1
  BY DEF Span
<1>2. Archived(r, n) /\ Grouped(r, a) /\ Told(r) /\ a \in Nat \ {0}
  BY DEF Remembers
<1>3. /\ IsTurn(e) /\ e.cleaned = FALSE /\ e.aspect = Owner(calls)
      /\ e.cleanable => /\ Answered(r, calls)
                        /\ e.group = {t \in PastTurns(r) :
                                        Entry(r, t).aspect = Owner(calls)} \cup {n - 1}
  <2>1. IsClosedTurn(e, r, n - 1, calls)
    BY ClosedTurnFields
  <2> HIDE DEF e
  <2>2. QED
    BY <2>1, Zenon DEF IsClosedTurn
<1>4. e.cleanable => b = a + 1 /\ e.aspect = a
  BY <1>2, <1>3 DEF Answered, Owner
<1> HIDE DEF x, e
<1>5. /\ Len(c.past) = n /\ c.past[n] = e
      /\ \A i \in 1..(n - 1) : c.past[i] = r.past[i]
  <2> DEFINE u == r.past
             v == c.past
  <2>1. IsSeq(u) /\ v = Append(u, e) /\ Len(u) = n - 1
    BY DEF IsRequest, e
  <2> HIDE DEF u, v
  <2>2. /\ Len(v) = Len(u) + 1 /\ v[Len(u) + 1] = e
        /\ \A i \in 1..Len(u) : v[i] = u[i]
    BY <2>1, Appended
  <2>3. QED
    BY <2>1, <2>2 DEF u, v
<1>6. /\ PastTurns(r) = 0..(n - 2) /\ PastTurns(c) = 0..(n - 1)
      /\ \A t \in PastTurns(r) : Entry(c, t) = Entry(r, t)
      /\ Entry(c, n - 1) = e
  <2>1. PastTurns(r) = 0..(n - 2) /\ PastTurns(c) = 0..(n - 1)
    BY <1>5 DEF PastTurns
  <2>2. ASSUME NEW t \in PastTurns(r) PROVE Entry(c, t) = Entry(r, t)
    <3>1. t + 1 \in 1..(n - 1)
      BY <2>1
    <3>2. QED
      BY <1>5, <3>1 DEF Entry
  <2>3. Entry(c, n - 1) = e
    <3>1. (n - 1) + 1 = n
      OBVIOUS
    <3>2. QED
      BY <1>5, <3>1 DEF Entry
  <2>4. QED
    BY <2>1, <2>2, <2>3
<1>7. Cleaned(c) = Cleaned(r)
  <2>1. \A t \in PastTurns(c) : t \in PastTurns(r) \/ t = n - 1
    BY <1>6
  <2>2. ASSUME NEW t \in PastTurns(r) PROVE t \in PastTurns(c)
    BY <1>6
  <2>3. ASSUME NEW t \in PastTurns(r) PROVE t \in Cleaned(c) <=> t \in Cleaned(r)
    <3>1. Entry(c, t) = Entry(r, t) /\ t \in PastTurns(c)
      BY <1>6, <2>2
    <3>2. QED
      BY <3>1 DEF Cleaned, Entry
  <2>4. n - 1 \notin Cleaned(c)
    BY <1>3, <1>6 DEF Cleaned, Entry
  <2>5. Cleaned(c) \subseteq PastTurns(c) /\ Cleaned(r) \subseteq PastTurns(r)
    BY DEF Cleaned
  <2>6. QED
    BY <2>1, <2>3, <2>4, <2>5
<1>8. /\ K \in Nat /\ DOMAIN r.archive = 1..K /\ DOMAIN c.archive = 1..(K + 1)
      /\ c.archive[K + 1] = x
      /\ \A i \in 1..K : c.archive[i] = r.archive[i]
  <2> DEFINE u == r.archive
             v == c.archive
  <2>1. IsSeq(u) /\ v = Append(u, x) /\ K = Len(u)
    BY DEF IsRequest, x
  <2> HIDE DEF u, v, K
  <2>2. /\ Len(u) \in Nat /\ DOMAIN u = 1..Len(u)
        /\ DOMAIN v = 1..(Len(u) + 1) /\ v[Len(u) + 1] = x
        /\ \A i \in 1..Len(u) : v[i] = u[i]
    BY <2>1, Appended
  <2>3. QED
    BY <2>1, <2>2 DEF u, v
<1> HIDE DEF K
<1>9. \A i \in 1..K : \/ r.archive[i].kind = "base" /\ r.archive[i].turn = -1
                      \/ /\ r.archive[i].kind \in Spoken
                         /\ r.archive[i].turn \in 0..(n - 1)
                         /\ r.archive[i].kind = "tool" => r.archive[i].turn < n - 1
  <2>1. \A i \in 1..K : \/ r.archive[i].kind = "base" /\ r.archive[i].turn = -1
                        \/ /\ r.archive[i].kind \in Spoken
                           /\ r.archive[i].turn \in 0..(n - 1)
                           /\ r.archive[i].kind = "tool" => r.archive[i].turn < Len(r.past)
    BY <1>2, <1>8, Zenon DEF Archived
  <2>2. QED
    BY <2>1
<1>10. \A i \in 1..K : ~(r.archive[i].kind = "tool" /\ r.archive[i].turn = n - 1)
  BY <1>9
<1>11. Told(c)
  <2>1. x.kind # "memory" /\ x.turn \in Nat /\ x.turn >= Len(r.past)
    BY <1>1
  <2>2. \A i \in DOMAIN r.archive : r.archive[i] # x
    BY <1>1, <1>8, <1>10
  <2>3. c.ledger = Append(r.ledger, x) /\ c.archive = Append(r.archive, x)
    BY DEF x
  <2>4. QED
    BY <1>2, <1>6, <1>7, <2>1, <2>2, <2>3, GrowthTells
<1>12. Archived(c, n)
  <2>1. \A i \in 1..(K + 1) : i \in 1..K \/ i = K + 1
    BY <1>8
  <2>2. ASSUME NEW i \in 1..(K + 1)
        PROVE  \/ c.archive[i].kind = "base" /\ c.archive[i].turn = -1
               \/ /\ c.archive[i].kind \in Spoken
                  /\ c.archive[i].turn \in 0..(n - 1)
                  /\ c.archive[i].kind = "tool" => c.archive[i].turn < Len(c.past)
    <3>1. CASE i \in 1..K
      <4>1. c.archive[i] = r.archive[i]
        BY <1>8, <3>1
      <4>2. CASE r.archive[i].kind = "base" /\ r.archive[i].turn = -1
        BY <4>1, <4>2
      <4>3. CASE /\ r.archive[i].kind \in Spoken
                 /\ r.archive[i].turn \in 0..(n - 1)
                 /\ r.archive[i].kind = "tool" => r.archive[i].turn < n - 1
        <5>1. r.archive[i].kind = "tool" => r.archive[i].turn < n
          BY <4>3
        <5>2. QED
          BY <1>5, <4>1, <4>3, <5>1
      <4>4. QED
        BY <1>9, <3>1, <4>2, <4>3
    <3>2. CASE i = K + 1
      <4>1. n - 1 \in 0..(n - 1) /\ n - 1 < n
        OBVIOUS
      <4>2. QED
        BY <1>1, <1>5, <1>8, <3>2, <4>1 DEF Spoken
    <3>3. QED
      BY <2>1, <3>1, <3>2
  <2>3. ASSUME NEW i \in 1..(K + 1), NEW j \in 1..(K + 1),
               c.archive[i].kind = c.archive[j].kind,
               c.archive[i].turn = c.archive[j].turn
        PROVE  i = j
    <3>1. CASE i \in 1..K /\ j \in 1..K
      <4>1. r.archive[i].kind = r.archive[j].kind /\ r.archive[i].turn = r.archive[j].turn
        BY <1>8, <2>3, <3>1
      <4>2. QED
        BY <1>2, <1>8, <3>1, <4>1 DEF Archived
    <3>2. CASE i \in 1..K /\ j = K + 1
      BY <1>1, <1>8, <1>10, <2>3, <3>2
    <3>3. CASE i = K + 1 /\ j \in 1..K
      BY <1>1, <1>8, <1>10, <2>3, <3>3
    <3>4. QED
      BY <2>1, <3>1, <3>2, <3>3
  <2>4. ASSUME NEW t \in 0..(n - 1)
        PROVE  \E i \in 1..(K + 1) : c.archive[i].kind = "marker" /\ c.archive[i].turn = t
    <3>1. PICK i \in 1..K : r.archive[i].kind = "marker" /\ r.archive[i].turn = t
      BY <1>2, <1>8 DEF Archived
    <3>2. i \in 1..(K + 1)
      BY <1>8
    <3>3. QED
      BY <1>8, <3>1, <3>2
  <2>5. Len(c.past) <= n
    BY <1>5
  <2>6. QED
    BY <1>8, <2>2, <2>3, <2>4, <2>5 DEF Archived
<1>13. Grouped(c, b)
  <2>0. \A t \in PastTurns(c) : t \in PastTurns(r) \/ t = n - 1
    BY <1>6
  <2>1. ASSUME NEW t \in PastTurns(c)
        PROVE  IsTurn(Entry(c, t)) /\ (Entry(c, t).cleaned => Entry(c, t).cleanable)
    <3>1. CASE t \in PastTurns(r)
      BY <1>2, <1>6, <3>1 DEF Grouped
    <3>2. CASE t = n - 1
      BY <1>3, <1>6, <3>2
    <3>3. QED
      BY <2>0, <3>1, <3>2
  <2>2. ASSUME NEW t \in PastTurns(r), Entry(r, t).cleanable
        PROVE  /\ Entry(r, t).aspect \in 1..(a - 1)
               /\ Entry(r, t).group = {u \in 0..t : Entry(r, u).aspect = Entry(r, t).aspect}
    BY <1>2, <2>2 DEF Grouped
  <2>3. ASSUME NEW t \in PastTurns(c), Entry(c, t).cleanable
        PROVE  /\ Entry(c, t).aspect \in 1..(b - 1)
               /\ Entry(c, t).group = {u \in 0..t : Entry(c, u).aspect = Entry(c, t).aspect}
    <3>1. CASE t \in PastTurns(r)
      <4>1. Entry(c, t) = Entry(r, t)
        BY <1>6, <3>1
      <4>2. \A u \in 0..t : Entry(c, u) = Entry(r, u)
        BY <1>6, <3>1
      <4>3. Entry(r, t).aspect \in 1..(b - 1)
        BY <1>2, <2>2, <2>3, <3>1, <4>1
      <4>4. Entry(r, t).group = {u \in 0..t : Entry(r, u).aspect = Entry(r, t).aspect}
        BY <2>2, <2>3, <3>1, <4>1
      <4>5. QED
        BY <4>1, <4>2, <4>3, <4>4
    <3>2. CASE t = n - 1
      <4>1. Entry(c, t) = e /\ b = a + 1 /\ e.aspect = a /\ Owner(calls) = a
        BY <1>3, <1>4, <1>6, <2>3, <3>2
      <4>2. e.group = {s \in PastTurns(r) : Entry(r, s).aspect = a} \cup {n - 1}
        BY <1>3, <2>3, <4>1
      <4>3. a \in 1..(b - 1)
        BY <1>2, <4>1
      <4>4. \A u \in 0..t : u \in PastTurns(r) \/ u = n - 1
        BY <1>6, <3>2
      <4>5. \A s \in PastTurns(r) : s \in 0..t
        BY <1>6, <3>2
      <4>6. t \in 0..t
        BY <3>2
      <4>7. e.group = {u \in 0..t : Entry(c, u).aspect = a}
        BY <1>6, <3>2, <4>1, <4>2, <4>4, <4>5, <4>6
      <4>8. QED
        BY <4>1, <4>3, <4>7
    <3>3. QED
      BY <2>0, <3>1, <3>2
  <2>4. ASSUME NEW t \in PastTurns(c), NEW u \in PastTurns(c),
               Entry(c, t).cleanable, Entry(c, u).cleanable,
               Entry(c, t).aspect = Entry(c, u).aspect
        PROVE  t = u
    <3>1. CASE t \in PastTurns(r) /\ u \in PastTurns(r)
      BY <1>2, <1>6, <2>4, <3>1 DEF Grouped
    <3>2. \A s \in PastTurns(r) : Entry(c, s).cleanable => Entry(c, s).aspect # a
      BY <1>2, <1>6, <2>2
    <3>3. e.cleanable => e.aspect = a
      BY <1>4
    <3>4. QED
      BY <1>6, <2>0, <2>4, <3>1, <3>2, <3>3
  <2>5. QED
    BY <2>1, <2>3, <2>4 DEF Grouped
<1>14. b \in Nat \ {0}
  BY <1>2
<1>15. QED
  BY <1>5, <1>11, <1>12, <1>13, <1>14 DEF Remembers

LEMMA FreshRemembers == Remembers(Fresh, 0, 1) /\ Len(Fresh.past) = 0
<1>1. /\ Fresh.past = <<>> /\ Fresh.ledger = <<Base>> /\ Fresh.archive = <<Base>>
      /\ Base.kind = "base" /\ Base.turn = -1
  BY DEF Fresh, Base, Span
<1> HIDE DEF Fresh
<1>2. PastTurns(Fresh) = {}
  BY <1>1 DEF PastTurns
<1>3. Cleaned(Fresh) = {} /\ \A u : Covered(Fresh, u) = {}
  BY <1>2 DEF Cleaned, Covered
<1> DEFINE s == <<Base>>
<1>4. DOMAIN s = {1} /\ s[1] = Base
  OBVIOUS
<1> HIDE DEF s
<1>5. Once(s, Base)
  BY <1>4 DEF Once
<1>6. Archived(Fresh, 0)
  <2>1. Len(Fresh.past) = 0
    BY <1>1
  <2>2. Fresh.archive = s
    BY <1>1 DEF s
  <2>3. 0..(0 - 1) = {}
    OBVIOUS
  <2>4. QED
    BY <1>1, <1>4, <2>1, <2>2, <2>3 DEF Archived
<1>7. Grouped(Fresh, 1)
  BY <1>2 DEF Grouped
<1>8. Told(Fresh)
  <2>1. Fresh.archive = s /\ Fresh.ledger = s
    BY <1>1 DEF s
  <2>2. Base \in ToSet(s)
    BY <1>4 DEF ToSet
  <2>3. ToldOf(Fresh, Base)
    BY <1>3, <1>5, <2>1 DEF ToldOf
  <2>4. QED
    BY <1>4, <2>1, <2>2, <2>3 DEF Told
<1>9. QED
  BY <1>1, <1>6, <1>7, <1>8 DEF Remembers

\* The inductive invariant: until the request is quarantined its context tells
\* everything.  SegInv only says here that the request is one.
MemInv ==
    /\ SegInv
    /\ phase # "invalid" => Remembers(req, Len(given), aspect)
    /\ phase = "next" => Len(req.past) = Len(given)
    /\ phase = "tools" => Len(given) # 0 /\ Len(req.past) = Len(given) - 1

LEMMA GenerateRemembers ==
    ASSUME NEW works, MemInv, Generate(works)
    PROVE  MemInv'
<1> DEFINE n == Len(given)
           force == FALSE
           needs == TRUE
           d == Cleanup(req, force, needs, works)
           r == OpenTurn(d, n)
<1>1. n \in Nat /\ IsSeq(given) /\ SegInv
  BY SequenceFacts DEF MemInv, SegInv
<1>2. IsRequest(req) /\ Closable(req) /\ Remembers(req, n, aspect) /\ Len(req.past) = n
  BY DEF MemInv, SegInv, Generate
<1>3. IsRequest(d) /\ Placed(d)
  <2>1. AsGenerated(req, given) /\ InOrder(req, n)
    BY DEF MemInv, SegInv, Generate
  <2> HIDE DEF n
  <2>2. QED
    BY <1>1, <1>2, <2>1, CleanupKeeps DEF Closable
<1>4. Remembers(d, n, aspect) /\ Len(d.past) = n
  <2> HIDE DEF n, force, needs
  <2>1. QED
    BY <1>1, <1>2, CleanupRemembers
<1> HIDE DEF d
<1>5. /\ r.ledger = Append(d.ledger, Marker(n)) /\ r.past = d.past /\ r.archive = d.archive
      /\ IsRequest(r)
  BY <1>3, OpenTurnKeeps
<1>6. PICK size : /\ req' = [r EXCEPT
                       !.ledger = Append(r.ledger, Span("actor", n, size)),
                       !.archive = r.archive \o <<Marker(n), Span("actor", n, size)>>]
                  /\ given' = Append(given, r.ledger)
                  /\ phase' = "tools" /\ aspect' = aspect
  BY Zenon DEF Generate, d
<1> HIDE DEF r
<1> DEFINE x == Marker(n)
           y == Span("actor", n, size)
<1>7. r.archive \o <<x, y>> = Append(Append(r.archive, x), y)
  <2>1. PICK X : r.archive \in Seq(X)
    BY <1>5 DEF IsRequest, IsSeq
  <2> DEFINE Y == X \cup {x, y}
             s == r.archive
             u == s \o <<x, y>>
             v == Append(Append(s, x), y)
  <2> HIDE DEF x, y
  <2>2. s \in Seq(Y) /\ x \in Y /\ y \in Y
    BY <2>1
  <2> HIDE DEF Y, s
  <2>3. u \in Seq(Y) /\ Len(u) = Len(s) + 2
    BY <2>2
  <2>4. v \in Seq(Y) /\ Len(v) = Len(s) + 2
    BY <2>2
  <2>5. \A i \in 1..(Len(s) + 2) : u[i] = v[i]
    BY <2>2
  <2> HIDE DEF u, v
  <2>6. u = v
    BY <2>3, <2>4, <2>5, SeqEqual
  <2>7. QED
    BY <2>6 DEF u, v, s
<1>8. /\ req'.past = d.past
      /\ req'.ledger = Append(Append(d.ledger, x), y)
      /\ req'.archive = Append(Append(d.archive, x), y)
  BY <1>5, <1>6, <1>7 DEF IsRequest, Fields
<1>9. Remembers(req', n + 1, aspect)
  <2> DEFINE e == req'
  <2>1. /\ e.past = d.past
        /\ e.ledger = Append(Append(d.ledger, Marker(n)), Span("actor", n, size))
        /\ e.archive = Append(Append(d.archive, Marker(n)), Span("actor", n, size))
    BY <1>8
  <2> HIDE DEF e, n
  <2>2. Remembers(e, n + 1, aspect)
    BY <1>1, <1>3, <1>4, <2>1, ActorTurnRemembers
  <2>3. QED
    BY <2>2 DEF e
<1>10. Len(given') = n + 1 /\ Len(req'.past) = n
  BY <1>1, <1>4, <1>6, <1>8, AppendFacts
<1>11. SegInv'
  BY <1>1, GenerateSafe
<1> HIDE DEF n
<1>12. \A k : k = n + 1 => Remembers(req', k, aspect)
  BY <1>9
<1>13. Remembers(req', Len(given'), aspect')
  BY <1>6, <1>10, <1>12
<1>14. Len(given') # 0 /\ Len(req'.past) = Len(given') - 1
  BY <1>1, <1>10
<1>15. QED
  BY <1>6, <1>11, <1>13, <1>14 DEF MemInv

\* What the calls of a message are about.
LEMMA CallsFacts ==
    ASSUME NEW calls \in CallsNow, Len(calls) = 1
    PROVE  /\ calls[1].aspect = aspect
           /\ "right" \notin calls[1].also
           /\ calls[1].kind \in Answers => HasAnswer(calls)
<1>1. \E c : calls = <<c>> /\ c.aspect = aspect /\ "right" \notin c.also
  BY DEF CallsNow
<1>2. PICK c : calls = <<c>> /\ c.aspect = aspect /\ "right" \notin c.also
  BY <1>1
<1>3. calls[1].aspect = aspect /\ "right" \notin calls[1].also /\ 1 \in DOMAIN calls
  BY <1>2
<1>4. calls[1].kind \in Answers => HasAnswer(calls)
  BY <1>3 DEF HasAnswer, ToSet
<1>5. QED
  BY <1>3, <1>4

LEMMA FinalizeRemembers ==
    ASSUME NEW r, IsRequest(r), NEW n, n = Len(given), NEW a, a = aspect',
           Remembers(r, n, a), Finalize(r),
           UNCHANGED given, phase' = "done", SegInv'
    PROVE  MemInv'
<1> DEFINE c == CloseFragment(r, Len(r.ledger))
<1>1. c.ledger = r.ledger /\ c.archive = r.archive /\ c.past = r.past
  BY ClosedFields
<1>2. req' = c
  BY DEF Finalize
<1> HIDE DEF c
<1>3. Remembers(c, n, a)
  BY <1>1, SameContext
<1>4. Remembers(req', Len(given'), aspect')
  BY <1>2, <1>3
<1>5. QED
  BY <1>4 DEF MemInv

LEMMA RunToolsRemembers ==
    ASSUME NEW calls, NEW size, NEW stop, NEW works, MemInv,
           RunTools(calls, size, stop, works)
    PROVE  MemInv'
<1> DEFINE n == Len(given)
           answered == CompleteTurn(req, n - 1, calls, size)
           force == Tokens(answered.ledger) > MaxModelLen
           r == Cleanup(answered, force, ~stop, works)
<1>1. n \in Nat \ {0} /\ IsSeq(given) /\ SegInv
  BY SequenceFacts DEF MemInv, SegInv, RunTools
<1>2. /\ IsRequest(req) /\ Placed(req) /\ Open(req)
      /\ Remembers(req, n, aspect) /\ Len(req.past) = n - 1
      /\ AsGenerated(req, given) /\ InOrder(req, n)
  BY DEF MemInv, SegInv, RunTools
<1>3. SegInv'
  BY <1>1, RunToolsSafe
<1>4. /\ IsRequest(answered) /\ Closable(answered)
      /\ answered.ledger = Append(req.ledger, Span("tool", n - 1, size))
      /\ answered.archive = Append(req.archive, Span("tool", n - 1, size))
      /\ answered.records = req.records /\ Live(answered) = Live(req)
  <2> HIDE DEF n
  <2>1. QED
    BY <1>2, CompleteTurnKeeps
<1>5. answered.past = Append(req.past, ClosedTurn(req, n - 1, calls))
  <2> HIDE DEF n
  <2>1. QED
    BY <1>2, CompletedPast
<1>6. /\ calls \in CallsNow /\ UNCHANGED given
      /\ aspect' = IF HasAnswer(calls) THEN aspect + 1 ELSE aspect
  BY DEF RunTools
<1>7. \/ phase' = "invalid"
      \/ phase' = "done" /\ Finalize(r)
      \/ phase' = "next" /\ req' = r
  BY Zenon DEF RunTools, Quarantine
<1> HIDE DEF answered, force, n
<1> DEFINE b == aspect'
<1>8. /\ b \in {aspect, aspect + 1}
      /\ Len(calls) = 1 => calls[1].aspect = aspect
      /\ Len(calls) = 1 /\ calls[1].kind \in Answers => b = aspect + 1
  BY <1>6, CallsFacts
<1> HIDE DEF b
<1>9. Remembers(answered, n, b) /\ Len(answered.past) = n
  <2> HIDE DEF r
  <2>1. /\ IsRequest(req) /\ n \in Nat \ {0} /\ Remembers(req, n, aspect)
        /\ Len(req.past) = n - 1 /\ IsRequest(answered)
    BY <1>1, <1>2, <1>4
  <2>2. QED
    BY <1>4, <1>5, <1>8, <2>1, ClosedTurnRemembers
<1>10. Remembers(r, n, b) /\ Len(r.past) = n
  BY <1>1, <1>4, <1>9, CleanupRemembers
<1>11. IsRequest(r)
  <2>1. AsGenerated(answered, given) /\ InOrder(answered, n)
    BY <1>1, <1>2, <1>4, QuietGrowth
  <2>2. QED
    BY <1>1, <1>4, <2>1, CleanupKeeps
<1> HIDE DEF r
<1>12. CASE phase' = "invalid"
  BY <1>3, <1>12 DEF MemInv
<1>13. CASE phase' = "done" /\ Finalize(r)
  BY <1>3, <1>6, <1>10, <1>11, <1>13, FinalizeRemembers DEF b, n
<1>14. CASE phase' = "next" /\ req' = r
  <2>1. Remembers(req', Len(given'), aspect') /\ Len(req'.past) = Len(given')
    BY <1>6, <1>10, <1>14 DEF b, n
  <2>2. QED
    BY <1>3, <1>14, <2>1 DEF MemInv
<1>15. QED
  BY <1>7, <1>12, <1>13, <1>14

LEMMA OutOfTurnsRemembers == MemInv /\ OutOfTurns => MemInv'
<1> SUFFICES ASSUME MemInv, OutOfTurns PROVE MemInv'
  OBVIOUS
<1>1. /\ SegInv /\ IsRequest(req) /\ Remembers(req, Len(given), aspect)
      /\ Finalize(req) /\ UNCHANGED <<aspect, given>> /\ phase' = "done"
  BY DEF MemInv, SegInv, OutOfTurns
<1>2. SegInv'
  BY <1>1, OutOfTurnsSafe
<1>3. QED
  BY <1>1, <1>2, FinalizeRemembers

LEMMA MemoryInvariant == Spec => []MemInv
<1>1. Init => MemInv
  <2> SUFFICES ASSUME Init PROVE MemInv
    OBVIOUS
  <2>1. SegInv
    BY InitSafe
  <2>2. req = Fresh /\ phase = "next" /\ aspect = 1 /\ given = <<>> /\ Len(given) = 0
    BY DEF Init
  <2>3. Remembers(req, Len(given), aspect) /\ Len(req.past) = Len(given)
    BY <2>2, FreshRemembers
  <2>4. QED
    BY <2>1, <2>2, <2>3 DEF MemInv
<1>2. MemInv /\ [Next]_vars => MemInv'
  <2> SUFFICES ASSUME MemInv, [Next]_vars PROVE MemInv'
    OBVIOUS
  <2>1. ASSUME NEW works \in BOOLEAN, Generate(works) PROVE MemInv'
    BY <2>1, GenerateRemembers
  <2>2. ASSUME NEW calls \in CallsNow, NEW size \in ToolSizes, NEW stop \in BOOLEAN,
               NEW works \in BOOLEAN, RunTools(calls, size, stop, works)
        PROVE  MemInv'
    BY <2>2, RunToolsRemembers
  <2>3. CASE OutOfTurns
    BY <2>3, OutOfTurnsRemembers
  <2>4. CASE Reject
    <3>1. SegInv /\ Quarantine /\ UNCHANGED given
      BY <2>4 DEF MemInv, Reject
    <3>2. SegInv' /\ phase' = "invalid"
      BY <3>1, QuarantineSafe DEF Quarantine
    <3>3. QED
      BY <3>2 DEF MemInv
  <2>5. CASE UNCHANGED vars
    <3>1. SegInv'
      BY <2>5 DEF MemInv, SegInv, vars
    <3>2. QED
      BY <2>5, <3>1 DEF MemInv, vars
  <2>6. QED
    BY <2>1, <2>2, <2>3, <2>4, <2>5 DEF Next
<1>3. QED
  BY <1>1, <1>2, PTL DEF Spec

\* Compaction loses no public message and repeats none (_compacted_messages and
\* maybe_cleanup_context): until a request is quarantined, each message the actor
\* wrote or was shown is in its context exactly once, or its turn belongs to a
\* completed aspect of which exactly one memory is there instead.
THEOREM NothingIsForgotten == Spec => []NothingForgotten
<1>1. MemInv => NothingForgotten
  <2> SUFFICES ASSUME MemInv, phase # "invalid", NEW m \in ToSet(req.archive)
               PROVE  LET Times(x) == Cardinality({i \in DOMAIN req.ledger : req.ledger[i] = x})
                      IN  IF m.turn = -1 \/ Covered(req, m.turn) = {} THEN Times(m) = 1
                          ELSE /\ Times(m) = 0
                               /\ req.past[m.turn + 1].aspect < aspect
                               /\ \A t \in Covered(req, m.turn) : Times(Memory(req, t)) = 1
    BY Zenon DEF NothingForgotten, Covered
  <2> DEFINE Times(x) == Cardinality({i \in DOMAIN req.ledger : req.ledger[i] = x})
  <2>1. /\ Archived(req, Len(given)) /\ Grouped(req, aspect) /\ Told(req)
        /\ aspect \in Nat \ {0}
    BY DEF MemInv, Remembers
  <2>2. PICK k \in DOMAIN req.archive : req.archive[k] = m
    BY DEF ToSet
  <2>3. ToldOf(req, m)
    BY <2>1, <2>2 DEF Told
  <2>4. ASSUME NEW t \in Covered(req, m.turn)
        PROVE  m.turn # -1 /\ Entry(req, m.turn).aspect \in 1..(aspect - 1)
    <3>1. t \in Cleaned(req) /\ m.turn \in Entry(req, t).group
      BY DEF Covered, Entry
    <3>2. t \in PastTurns(req) /\ Entry(req, t).cleanable
      BY <2>1, <3>1, CleanedFacts
    <3>3. Entry(req, t).group \subseteq 0..t
      BY <2>1, <3>2, GroupFacts
    <3>4. Entry(req, m.turn).aspect \in 1..(aspect - 1)
      BY <2>1, <3>1, <3>2, GroupFacts
    <3>5. QED
      BY <3>1, <3>3, <3>4
  <2>5. \A x : /\ Once(req.ledger, x) => Times(x) = 1
               /\ Never(req.ledger, x) => Times(x) = 0
    BY OnceIsOneTime
  <2> HIDE DEF Times
  <2>6. CASE Covered(req, m.turn) = {}
    <3>1. Times(m) = 1
      BY <2>3, <2>5, <2>6 DEF ToldOf
    <3>2. QED
      BY <2>6, <3>1 DEF Times
  <2>7. CASE Covered(req, m.turn) # {}
    <3>1. Never(req.ledger, m) /\ \A t \in Covered(req, m.turn) : Once(req.ledger, Memory(req, t))
      BY <2>3, <2>7 DEF ToldOf
    <3>2. Times(m) = 0 /\ \A t \in Covered(req, m.turn) : Times(Memory(req, t)) = 1
      BY <2>5, <3>1
    <3>3. m.turn # -1 /\ Entry(req, m.turn).aspect < aspect
      BY <2>1, <2>4, <2>7
    <3>4. req.past[m.turn + 1].aspect < aspect
      BY <3>3 DEF Entry
    <3>5. QED
      BY <2>7, <3>2, <3>3, <3>4 DEF Times
  <2>8. QED
    BY <2>6, <2>7
<1>2. QED
  BY <1>1, MemoryInvariant, PTL

-----------------------------------------------------------------------------
(* Sums of weights.  SumFunction folds over a set in the order in which CHOOSE *)
(* takes its elements; what is added up does not depend on it.                *)

\* total is what the fold computes for every subset of S.
Adds(total, f, S) ==
    total = [s \in SUBSET S |->
               IF s = {} THEN 0 ELSE f[Chosen(s)] + total[s \ {Chosen(s)}]]

\* The fold is well defined.
LEMMA SomethingAdds ==
    ASSUME NEW S, IsFiniteSet(S), NEW f \in [S -> Nat]
    PROVE  \E total : Adds(total, f, S)
<1> DEFINE Equation(h, s) == h[s] = IF s = {} THEN 0
                                    ELSE f[Chosen(s)] + h[s \ {Chosen(s)}]
           Good == {n \in Nat : \E h \in [SUBSET S -> Nat] :
                      \A s \in SUBSET S : Cardinality(s) <= n => Equation(h, s)}
<1>1. \A s \in SUBSET S : IsFiniteSet(s) /\ Cardinality(s) \in Nat
  BY FS_Subset, FS_CardinalityType
<1>2. \A s \in SUBSET S : s # {} => Chosen(s) \in s
  BY DEF Chosen
<1>3. 0 \in Good
  <2> DEFINE h == [s \in SUBSET S |-> 0]
  <2>1. \A s \in SUBSET S : Cardinality(s) <= 0 => s = {}
    BY <1>1, FS_EmptySet
  <2>2. h \in [SUBSET S -> Nat] /\ \A s \in SUBSET S : Cardinality(s) <= 0 => Equation(h, s)
    BY <2>1
  <2>3. QED
    BY <2>2
<1>4. ASSUME NEW n \in Good PROVE n + 1 \in Good
  <2>1. PICK h \in [SUBSET S -> Nat] :
          \A s \in SUBSET S : Cardinality(s) <= n => Equation(h, s)
    OBVIOUS
  <2> DEFINE g == [s \in SUBSET S |-> IF Cardinality(s) <= n THEN h[s]
                                      ELSE f[Chosen(s)] + h[s \ {Chosen(s)}]]
  <2>2. \A s \in SUBSET S : s # {} =>
          /\ s \ {Chosen(s)} \in SUBSET S
          /\ Cardinality(s \ {Chosen(s)}) = Cardinality(s) - 1
    BY <1>1, <1>2, FS_RemoveElement
  <2>3. \A s \in SUBSET S : ~(Cardinality(s) <= n) => s # {}
    BY <1>1, FS_EmptySet
  <2>4. g \in [SUBSET S -> Nat]
    <3> SUFFICES ASSUME NEW s \in SUBSET S PROVE g[s] \in Nat
      OBVIOUS
    <3>1. CASE Cardinality(s) <= n
      BY <3>1
    <3>2. CASE ~(Cardinality(s) <= n)
      <4>1. f[Chosen(s)] \in Nat /\ h[s \ {Chosen(s)}] \in Nat
        BY <1>2, <2>3, <3>2
      <4>2. QED
        BY <3>2, <4>1
    <3>3. QED
      BY <3>1, <3>2
  <2>5. ASSUME NEW s \in SUBSET S, Cardinality(s) <= n + 1 PROVE Equation(g, s)
    <3>1. CASE s = {}
      <4>1. Cardinality(s) <= n
        BY <3>1, FS_EmptySet
      <4>2. QED
        BY <2>1, <3>1, <4>1
    <3>2. CASE s # {}
      <4> DEFINE u == s \ {Chosen(s)}
      <4>1. u \in SUBSET S /\ Cardinality(u) <= n
        BY <1>1, <2>2, <2>5, <3>2
      <4>2. g[u] = h[u]
        BY <4>1
      <4>3. g[s] = f[Chosen(s)] + h[u]
        <5>1. CASE Cardinality(s) <= n
          BY <2>1, <3>2, <5>1
        <5>2. CASE ~(Cardinality(s) <= n)
          BY <5>2
        <5>3. QED
          BY <5>1, <5>2
      <4>4. QED
        BY <3>2, <4>2, <4>3
    <3>3. QED
      BY <3>1, <3>2
  <2> HIDE DEF g, Equation
  <2>6. QED
    BY <2>4, <2>5
<1>5. Good = Nat
  <2>1. Good \in SUBSET Nat
    OBVIOUS
  <2> HIDE DEF Good
  <2>2. QED
    BY <1>3, <1>4, <2>1, InductionOnNaturals
<1>6. Cardinality(S) \in Good /\ \A s \in SUBSET S : Cardinality(s) <= Cardinality(S)
  BY <1>1, <1>5, FS_Subset
<1>7. PICK h \in [SUBSET S -> Nat] : \A s \in SUBSET S : Equation(h, s)
  BY <1>6
<1>8. Adds(h, f, S)
  BY <1>7 DEF Adds
<1>9. QED
  BY <1>8

LEMMA SumAdds ==
    ASSUME NEW S, IsFiniteSet(S), NEW f \in [S -> Nat]
    PROVE  \E total : Adds(total, f, S) /\ SumFunction(f) = total[S]
<1> DEFINE total == CHOOSE t : Adds(t, f, S)
<1>1. Adds(total, f, S)
  BY SomethingAdds, Zenon
<1>2. DOMAIN f = S
  OBVIOUS
<1>3. SumFunctionOnSet(f, S) = total[S]
  BY DEF SumFunctionOnSet, FoldFunctionOnSet, MapThenFoldSet, Chosen, Adds
<1>4. SumFunction(f) = total[S]
  BY <1>2, <1>3 DEF SumFunction
<1>5. QED
  BY <1>1, <1>4

LEMMA AddsType ==
    ASSUME NEW S, IsFiniteSet(S), NEW f \in [S -> Nat], NEW total, Adds(total, f, S)
    PROVE  \A s \in SUBSET S : total[s] \in Nat
<1> DEFINE Good == {s \in SUBSET S : total[s] \in Nat}
<1>1. ASSUME NEW s \in SUBSET S, \A x \in s : s \ {x} \in Good
      PROVE  s \in Good
  <2>1. CASE s = {}
    BY <2>1 DEF Adds
  <2>2. CASE s # {}
    <3>1. Chosen(s) \in s
      BY <2>2 DEF Chosen
    <3>2. f[Chosen(s)] \in Nat /\ total[s \ {Chosen(s)}] \in Nat
      BY <1>1, <3>1
    <3>3. total[s] = f[Chosen(s)] + total[s \ {Chosen(s)}]
      BY <2>2 DEF Adds
    <3>4. QED
      BY <3>2, <3>3
  <2>3. QED
    BY <2>1, <2>2
<1>2. Good = SUBSET S
  <2>1. Good \in SUBSET (SUBSET S)
    OBVIOUS
  <2> HIDE DEF Good
  <2>2. QED
    BY <1>1, <2>1, InductionOnSubsets
<1>3. QED
  BY <1>2

\* Any element may be taken first.
FreeOrder(total, f, S) == \A s \in SUBSET S : \A x \in s : total[s] = f[x] + total[s \ {x}]

LEMMA AddsInAnyOrder ==
    ASSUME NEW S, IsFiniteSet(S), NEW f \in [S -> Nat], NEW total, Adds(total, f, S)
    PROVE  FreeOrder(total, f, S)
<1> DEFINE Good == {s \in SUBSET S : \A x \in s : total[s] = f[x] + total[s \ {x}]}
<1>1. ASSUME NEW s \in SUBSET S, \A x \in s : s \ {x} \in Good
      PROVE  s \in Good
  <2> SUFFICES ASSUME NEW x \in s PROVE total[s] = f[x] + total[s \ {x}]
    OBVIOUS
  <2> DEFINE c == Chosen(s)
             u == (s \ {c}) \ {x}
  <2>1. c \in s
    BY DEF Chosen
  <2>2. total[s] = f[c] + total[s \ {c}]
    BY DEF Adds
  <2> HIDE DEF c
  <2>3. CASE c = x
    BY <2>2, <2>3
  <2>4. CASE c # x
    <3>1. x \in s \ {c} /\ c \in s \ {x} /\ u = (s \ {x}) \ {c}
      BY <2>1, <2>4
    <3>2. total[s \ {c}] = f[x] + total[u]
      BY <1>1, <2>1, <3>1
    <3>3. total[s \ {x}] = f[c] + total[u]
      BY <1>1, <3>1
    <3>4. f[c] \in Nat /\ f[x] \in Nat /\ total[u] \in Nat
      BY <2>1, AddsType
    <3>5. QED
      BY <2>2, <3>2, <3>3, <3>4
  <2>5. QED
    BY <2>3, <2>4
<1>2. Good = SUBSET S
  <2>1. Good \in SUBSET (SUBSET S)
    OBVIOUS
  <2> HIDE DEF Good
  <2>2. QED
    BY <1>1, <2>1, InductionOnSubsets
<1>3. QED
  BY <1>2 DEF FreeOrder

\* What is added up over a smaller set does not depend on the larger one.
LEMMA AddsOnSubset ==
    ASSUME NEW S, IsFiniteSet(S), NEW f, NEW total, Adds(total, f, S),
           NEW T \in SUBSET S, NEW g, NEW part, Adds(part, g, T), \A x \in T : g[x] = f[x]
    PROVE  \A s \in SUBSET T : part[s] = total[s]
<1> DEFINE Good == {s \in SUBSET T : part[s] = total[s]}
<1>1. ASSUME NEW s \in SUBSET T, \A x \in s : s \ {x} \in Good
      PROVE  s \in Good
  <2>1. s \in SUBSET S
    OBVIOUS
  <2>2. CASE s = {}
    BY <2>1, <2>2 DEF Adds
  <2>3. CASE s # {}
    <3> DEFINE x == Chosen(s)
    <3>1. x \in s
      BY <2>3 DEF Chosen
    <3>2. part[s] = g[x] + part[s \ {x}]
      BY <2>3 DEF Adds
    <3>3. total[s] = f[x] + total[s \ {x}]
      BY <2>1, <2>3 DEF Adds
    <3>4. g[x] = f[x] /\ part[s \ {x}] = total[s \ {x}]
      BY <1>1, <3>1
    <3>5. QED
      BY <3>2, <3>3, <3>4
  <2>4. QED
    BY <2>2, <2>3
<1>2. Good = SUBSET T
  <2>1. Good \in SUBSET (SUBSET T)
    OBVIOUS
  <2>2. IsFiniteSet(T)
    BY FS_Subset
  <2> HIDE DEF Good
  <2>3. QED
    BY <1>1, <2>1, <2>2, InductionOnSubsets
<1>3. QED
  BY <1>2

\* The part of a sum over the elements of s.
Part(f, s) == SumFunction([x \in s |-> f[x]])

LEMMA PartOfSum ==
    ASSUME NEW S, IsFiniteSet(S), NEW f \in [S -> Nat]
    PROVE  \E total : Adds(total, f, S) /\ \A s \in SUBSET S : Part(f, s) = total[s]
<1>1. PICK total : Adds(total, f, S)
  BY SomethingAdds
<1>2. ASSUME NEW s \in SUBSET S PROVE Part(f, s) = total[s]
  <2> DEFINE g == [x \in s |-> f[x]]
  <2>1. IsFiniteSet(s) /\ g \in [s -> Nat] /\ \A x \in s : g[x] = f[x]
    BY FS_Subset
  <2> HIDE DEF g
  <2>2. PICK part : Adds(part, g, s) /\ SumFunction(g) = part[s]
    BY <2>1, SumAdds
  <2>3. \A u \in SUBSET s : part[u] = total[u]
    BY <1>1, <2>1, <2>2, AddsOnSubset
  <2>4. QED
    BY <2>2, <2>3 DEF Part, g
<1>3. QED
  BY <1>1, <1>2

\* Taking an element out of a sum.
LEMMA TakeOut ==
    ASSUME NEW S, IsFiniteSet(S), NEW f \in [S -> Nat]
    PROVE  /\ Part(f, {}) = 0
           /\ SumFunction(f) = Part(f, S)
           /\ \A s \in SUBSET S : Part(f, s) \in Nat
           /\ \A s \in SUBSET S : \A x \in s : Part(f, s) = f[x] + Part(f, s \ {x})
<1>1. PICK total : Adds(total, f, S) /\ \A s \in SUBSET S : Part(f, s) = total[s]
  BY PartOfSum
<1>2. f = [x \in S |-> f[x]]
  OBVIOUS
<1>3. SumFunction(f) = Part(f, S)
  BY <1>2, Zenon DEF Part
<1>4. total[{}] = 0
  BY <1>1 DEF Adds
<1>5. \A s \in SUBSET S : total[s] \in Nat
  BY <1>1, AddsType
<1>6. FreeOrder(total, f, S)
  BY <1>1, AddsInAnyOrder
<1>7. \A s \in SUBSET S : \A x \in s : s \ {x} \in SUBSET S
  OBVIOUS
<1>8. QED
  BY <1>1, <1>3, <1>4, <1>5, <1>6, <1>7 DEF FreeOrder

LEMMA SumType ==
    ASSUME NEW S, IsFiniteSet(S), NEW f \in [S -> Nat]
    PROVE  SumFunction(f) \in Nat
<1>1. S \in SUBSET S /\ SumFunction(f) = Part(f, S)
  BY TakeOut
<1>2. QED
  BY <1>1, TakeOut

\* A sum with one element that counts.
LEMMA PartOfZeros ==
    ASSUME NEW S, IsFiniteSet(S), NEW f \in [S -> Nat], NEW K \in SUBSET S,
           \A x \in S \ K : f[x] = 0
    PROVE  \A s \in SUBSET S : s \cap K = {} => Part(f, s) = 0
<1> DEFINE Good == {s \in SUBSET S : s \cap K = {} => Part(f, s) = 0}
<1>1. ASSUME NEW s \in SUBSET S, \A x \in s : s \ {x} \in Good
      PROVE  s \in Good
  <2>1. CASE s = {} \/ s \cap K # {}
    BY <2>1, TakeOut
  <2>2. CASE s # {} /\ s \cap K = {}
    <3>1. PICK x \in s : TRUE
      BY <2>2
    <3>2. Part(f, s) = f[x] + Part(f, s \ {x})
      BY TakeOut
    <3>3. f[x] = 0 /\ Part(f, s \ {x}) = 0
      BY <1>1, <2>2
    <3>4. QED
      BY <3>2, <3>3
  <2>3. QED
    BY <2>1, <2>2
<1>2. Good = SUBSET S
  <2>1. Good \in SUBSET (SUBSET S)
    OBVIOUS
  <2> HIDE DEF Good
  <2>2. QED
    BY <1>1, <2>1, InductionOnSubsets
<1>3. QED
  BY <1>2

LEMMA SumOfZeros ==
    ASSUME NEW S, IsFiniteSet(S), NEW f \in [S -> Nat], \A x \in S : f[x] = 0
    PROVE  SumFunction(f) = 0
<1>1. SumFunction(f) = Part(f, S)
  BY TakeOut
<1>2. \A s \in SUBSET S : s \cap {} = {} => Part(f, s) = 0
  BY PartOfZeros
<1>3. QED
  BY <1>1, <1>2

OnlyAt(f, S, x) == x \in S /\ \A y \in S \ {x} : f[y] = 0

LEMMA SumOfOne ==
    ASSUME NEW S, IsFiniteSet(S), NEW f, f \in [S -> Nat], NEW x, OnlyAt(f, S, x)
    PROVE  SumFunction(f) = f[x]
<1>0. x \in S /\ \A y \in S \ {x} : f[y] = 0
  BY DEF OnlyAt
<1>1. SumFunction(f) = Part(f, S) /\ Part(f, S) = f[x] + Part(f, S \ {x})
  BY <1>0, TakeOut
<1>2. \A s \in SUBSET S : s \cap {x} = {} => Part(f, s) = 0
  BY <1>0, PartOfZeros
<1>3. Part(f, S \ {x}) = 0
  <2>1. (S \ {x}) \cap {x} = {} /\ S \ {x} \in SUBSET S
    OBVIOUS
  <2>2. QED
    BY <1>2, <2>1
<1>4. f[x] \in Nat
  BY <1>0
<1>5. QED
  BY <1>1, <1>3, <1>4

\* The elements of K, each with the weight c.
EqualOn(f, S, K, c) ==
    /\ K \in SUBSET S /\ c \in Nat
    /\ \A x \in S : f[x] = IF x \in K THEN c ELSE 0

LEMMA SumOfEqual ==
    ASSUME NEW S, IsFiniteSet(S), NEW f, f \in [S -> Nat], NEW K, NEW c, EqualOn(f, S, K, c)
    PROVE  SumFunction(f) = c * Cardinality(K)
<1>0. /\ K \in SUBSET S /\ c \in Nat
      /\ \A x \in S : f[x] = IF x \in K THEN c ELSE 0
  BY DEF EqualOn
<1> DEFINE Good == {s \in SUBSET S : Part(f, s) = c * Cardinality(s \cap K)}
<1>1. ASSUME NEW s \in SUBSET S, \A x \in s : s \ {x} \in Good
      PROVE  s \in Good
  <2>1. CASE s = {}
    <3>1. Part(f, s) = 0
      BY <2>1, TakeOut
    <3>2. s \cap K = {} /\ Cardinality({}) = 0 /\ c * 0 = 0
      BY <1>0, <2>1, FS_EmptySet
    <3>3. QED
      BY <3>1, <3>2
  <2>2. CASE s # {}
    <3>1. PICK x \in s : TRUE
      BY <2>2
    <3> DEFINE u == s \ {x}
               m == Cardinality(u \cap K)
    <3>2. Part(f, s) = f[x] + Part(f, u)
      BY TakeOut
    <3>3. Part(f, u) = c * m
      BY <1>1
    <3>4. IsFiniteSet(s \cap K) /\ m \in Nat
      BY <1>0, FS_Subset, FS_CardinalityType
    <3>5. CASE x \in K
      <4>1. u \cap K = (s \cap K) \ {x} /\ x \in s \cap K
        BY <3>5
      <4> DEFINE v == s \cap K
      <4>2. m = Cardinality(v) - 1 /\ Cardinality(v) \in Nat
        <5>1. IsFiniteSet(v) /\ x \in v /\ u \cap K = v \ {x}
          BY <3>4, <4>1
        <5> HIDE DEF v
        <5>2. Cardinality(v \ {x}) = Cardinality(v) - 1 /\ Cardinality(v) \in Nat
          BY <5>1, FS_RemoveElement, FS_CardinalityType
        <5>3. QED
          BY <5>1, <5>2
      <4>3. f[x] = c
        BY <1>0, <3>5
      <4>4. Part(f, s) = c + c * m /\ Cardinality(s \cap K) = m + 1
        BY <3>2, <3>3, <4>2, <4>3
      <4> HIDE DEF m
      <4>5. c * (m + 1) = c + c * m
        BY <1>0, <3>4
      <4>6. QED
        BY <4>4, <4>5
    <3>6. CASE x \notin K
      <4>1. u \cap K = s \cap K
        BY <3>6
      <4>2. f[x] = 0
        BY <1>0, <3>6
      <4> HIDE DEF u, m
      <4>3. c * m \in Nat
        BY <1>0, <3>4
      <4>4. Part(f, s) = c * m
        BY <3>2, <3>3, <4>2, <4>3
      <4>5. QED
        BY <4>1, <4>4 DEF m
    <3>7. QED
      BY <3>5, <3>6
  <2>3. QED
    BY <2>1, <2>2
<1>2. Good = SUBSET S
  <2>1. Good \in SUBSET (SUBSET S)
    OBVIOUS
  <2> HIDE DEF Good
  <2>2. QED
    BY <1>1, <2>1, InductionOnSubsets
<1>3. SumFunction(f) = Part(f, S) /\ S \cap K = K
  BY <1>0, TakeOut
<1>4. QED
  BY <1>2, <1>3

AddsTo(g, h, f, S) == \A x \in S : f[x] = g[x] + h[x]

LEMMA SumOfSum ==
    ASSUME NEW S, IsFiniteSet(S), NEW f, f \in [S -> Nat], NEW g, g \in [S -> Nat],
           NEW h, h \in [S -> Nat], AddsTo(g, h, f, S)
    PROVE  SumFunction(f) = SumFunction(g) + SumFunction(h)
<1> DEFINE Good == {s \in SUBSET S : Part(f, s) = Part(g, s) + Part(h, s)}
<1>1. ASSUME NEW s \in SUBSET S, \A x \in s : s \ {x} \in Good
      PROVE  s \in Good
  <2>1. CASE s = {}
    BY <2>1, TakeOut
  <2>2. CASE s # {}
    <3>1. PICK x \in s : TRUE
      BY <2>2
    <3> DEFINE u == s \ {x}
    <3>2. u \in SUBSET S
      OBVIOUS
    <3>3. /\ Part(f, s) = f[x] + Part(f, u)
          /\ Part(g, s) = g[x] + Part(g, u)
          /\ Part(h, s) = h[x] + Part(h, u)
      BY TakeOut
    <3>4. /\ Part(f, u) \in Nat
          /\ Part(g, u) \in Nat
          /\ Part(h, u) \in Nat
      BY <3>2, TakeOut
    <3>5. Part(f, u) = Part(g, u) + Part(h, u) /\ f[x] = g[x] + h[x]
      BY <1>1 DEF AddsTo
    <3>6. f[x] \in Nat /\ g[x] \in Nat /\ h[x] \in Nat
      OBVIOUS
    <3> HIDE DEF u
    <3>7. QED
      BY <3>3, <3>4, <3>5, <3>6
  <2>3. QED
    BY <2>1, <2>2
<1>2. Good = SUBSET S
  <2>1. Good \in SUBSET (SUBSET S)
    OBVIOUS
  <2> HIDE DEF Good
  <2>2. QED
    BY <1>1, <2>1, InductionOnSubsets
<1>3. /\ SumFunction(f) = Part(f, S)
      /\ SumFunction(g) = Part(g, S)
      /\ SumFunction(h) = Part(h, S)
  BY TakeOut
<1>4. QED
  BY <1>2, <1>3

LEMMA SumIsPositive ==
    ASSUME NEW S, IsFiniteSet(S), NEW f \in [S -> Nat], NEW x \in S, f[x] > 0
    PROVE  SumFunction(f) > 0
<1>1. SumFunction(f) = Part(f, S) /\ Part(f, S) = f[x] + Part(f, S \ {x})
  BY TakeOut
<1>2. Part(f, S \ {x}) \in Nat
  BY TakeOut
<1>3. f[x] \in Nat
  OBVIOUS
<1>4. QED
  BY <1>1, <1>2, <1>3
-----------------------------------------------------------------------------
(* What a correct answer shares out *)

LEMMA ExactDivision ==
    ASSUME NEW k \in Nat \ {0}, NEW w \in Nat
    PROVE  (k * w) \div k = w
<1> DEFINE q == (k * w) \div k
           m == (k * w) % k
<1>1. k * w \in Nat
  OBVIOUS
<1>2. q \in Int /\ m \in 0..(k - 1) /\ k * w = k * q + m
  BY <1>1
<1> HIDE DEF q, m
<1>3. m = k * (w - q)
  BY <1>2
<1>4. CASE w - q <= 0 - 1
  <2>1. k * (w - q) <= k * (0 - 1)
    BY <1>2, <1>4
  <2>2. QED
    BY <1>2, <1>3, <2>1
<1>5. CASE w - q >= 1
  <2>1. k * (w - q) >= k * 1
    BY <1>2, <1>5
  <2>2. QED
    BY <1>2, <1>3, <2>1
<1>6. w = q
  BY <1>2, <1>4, <1>5
<1>7. QED
  BY <1>6 DEF q

\* Equal parts of a component for k turns, where k divides Scale.
LEMMA EqualParts ==
    ASSUME NEW k \in Nat \ {0}, Scale % k = 0
    PROVE  /\ (25 * Scale) \div k \in Nat
           /\ ((25 * Scale) \div k) * k = 25 * Scale
<1> DEFINE w == Scale \div k
<1>1. Scale \in Nat /\ w \in Nat /\ Scale = k * w
  <2>1. Scale \in Nat /\ Scale \div k \in Int /\ Scale = k * (Scale \div k) + (Scale % k)
    BY ScaleIsPositive
  <2>2. Scale \div k >= 0
    BY <2>1
  <2>3. QED
    BY <2>1, <2>2
<1> HIDE DEF w
<1>2. 25 * w \in Nat /\ 25 * Scale = k * (25 * w)
  BY <1>1
<1>3. (25 * Scale) \div k = 25 * w
  BY <1>2, ExactDivision
<1>4. (25 * w) * k = k * (25 * w)
  BY <1>1
<1>5. QED
  BY <1>2, <1>3, <1>4

LEMMA LeastInSet ==
    ASSUME NEW T, T \subseteq Nat, T # {}
    PROVE  Min(T) \in T
<1>1. \E m \in T : \A n \in T : m <= n
  BY LeastNatural
<1>2. QED
  BY <1>1 DEF Min

TurnsOf(events, a) == {i \in DOMAIN events : events[i].aspect = a}
RightIn(events, a) == \E i \in TurnsOf(events, a) : "right" \in events[i].kinds

\* The weights of the turns of an aspect.
WeightsOf(weights, events, a) == [i \in TurnsOf(events, a) |-> weights[i]]

\* Each answered aspect gets a whole share, an aspect without an answer none,
\* when no aspect is answered twice.
SharedByAspect(weights, events) ==
    \A a : SumFunction(WeightsOf(weights, events, a)) =
             IF RightIn(events, a) THEN 100 * Scale ELSE 0

AnsweredOnce(events) ==
    \A a, b \in With(events, {"right"}) : events[a].aspect = events[b].aspect => a = b

PartsAreWhole(n) == \A k \in 1..n : Scale % k = 0

\* The weights of the turns behind the correct answers.
CorrectAnswers(events) == AnswerChain(events, AnswerRoutes["correct_completion"])

LEMMA AnswerCredit ==
    ASSUME NEW n \in Nat, NEW events, DOMAIN events = 1..n,
           PartsAreWhole(n), AnsweredOnce(events)
    PROVE  /\ CorrectAnswers(events) \in [1..n -> Nat]
           /\ \A a \in With(events, {"right"}) : CorrectAnswers(events)[a] > 0
           /\ SharedByAspect(CorrectAnswers(events), events)
<1> DEFINE Rights == With(events, {"right"})
           Before(a, kind) ==
             {i \in With(events, {kind}) : i < a /\ events[i].aspect = events[a].aspect}
           Searcher(a) == IF Before(a, "search") = {} THEN a ELSE Min(Before(a, "search"))
           Askers(a) == IF Before(a, "useful") = {} THEN {a} ELSE Before(a, "useful")
           Quota(a) == (25 * Scale) \div Cardinality(Askers(a))
           Shares(i) == [a \in Rights |->
             (IF i = Searcher(a) THEN 15 * Scale ELSE 0)
               + (IF i \in Askers(a) THEN Quota(a) ELSE 0)
               + (IF i = a THEN 60 * Scale ELSE 0)]
           W == CorrectAnswers(events)
<1>1. W = [i \in 1..n |-> SumFunction(Shares(i))]
  <2>1. AnswerRoutes["correct_completion"] = Chain("right", 15, 25, 60)
    BY DEF AnswerRoutes
  <2>2. CorrectAnswers(events) = AnswerChain(events, Chain("right", 15, 25, 60))
    BY <2>1 DEF CorrectAnswers
  <2>3. AnswerChain(events, Chain("right", 15, 25, 60)) = [i \in 1..n |-> SumFunction(Shares(i))]
    BY DEF AnswerChain, Chain
  <2>4. QED
    BY <2>2, <2>3
<1> HIDE DEF W
<1>2. Rights \in SUBSET (1..n) /\ IsFiniteSet(1..n) /\ IsFiniteSet(Rights)
  <2>1. Rights \in SUBSET (1..n)
    BY DEF With
  <2>2. QED
    BY <2>1, FS_Interval, FS_Subset
<1>3. Scale \in Nat /\ Scale > 0
  BY ScaleIsPositive
<1>4. ASSUME NEW a \in Rights
      PROVE  /\ Searcher(a) \in 1..n /\ events[Searcher(a)].aspect = events[a].aspect
             /\ Askers(a) \in SUBSET (1..n) /\ Askers(a) # {}
             /\ \A i \in Askers(a) : events[i].aspect = events[a].aspect
  <2>1. a \in 1..n
    BY <1>2
  <2>2. /\ Before(a, "search") \in SUBSET (1..n)
        /\ \A i \in Before(a, "search") : events[i].aspect = events[a].aspect
    BY DEF With
  <2>3. /\ Before(a, "useful") \in SUBSET (1..n)
        /\ \A i \in Before(a, "useful") : events[i].aspect = events[a].aspect
    BY DEF With
  <2> HIDE DEF Before
  <2>4. Before(a, "search") # {} => Min(Before(a, "search")) \in Before(a, "search")
    <3>1. Before(a, "search") \subseteq Nat
      BY <2>2
    <3>2. QED
      BY <3>1, LeastInSet
  <2>5. QED
    BY <2>1, <2>2, <2>3, <2>4
<1> HIDE DEF Searcher, Askers
<1>5. ASSUME NEW a \in Rights
      PROVE  /\ IsFiniteSet(Askers(a))
             /\ Quota(a) \in Nat /\ Quota(a) * Cardinality(Askers(a)) = 25 * Scale
  <2>1. Askers(a) \in SUBSET (1..n) /\ Askers(a) # {}
    BY <1>4
  <2>2. IsFiniteSet(Askers(a)) /\ Cardinality(Askers(a)) \in Nat /\ Cardinality(Askers(a)) <= n
    <3> DEFINE K == Askers(a)
               D == 1..n
    <3>1. IsFiniteSet(D) /\ Cardinality(D) = n
      BY FS_Interval
    <3> HIDE DEF K, D
    <3>2. K \in SUBSET D
      BY <2>1 DEF K, D
    <3>3. IsFiniteSet(K) /\ Cardinality(K) <= n
      BY <3>1, <3>2, FS_Subset
    <3>4. Cardinality(K) \in Nat
      BY <3>3, FS_CardinalityType
    <3>5. QED
      BY <3>3, <3>4 DEF K
  <2>4. Cardinality(Askers(a)) # 0
    BY <2>1, <2>2, FS_EmptySet
  <2> DEFINE k == Cardinality(Askers(a))
  <2>5. k \in Nat \ {0} /\ Scale % k = 0
    BY <2>2, <2>4 DEF PartsAreWhole
  <2> HIDE DEF k
  <2>6. (25 * Scale) \div k \in Nat /\ ((25 * Scale) \div k) * k = 25 * Scale
    BY <2>5, EqualParts
  <2>7. QED
    BY <2>2, <2>6 DEF k
<1> HIDE DEF Quota
<1>6. ASSUME NEW i \in 1..n PROVE Shares(i) \in [Rights -> Nat]
  BY <1>3, <1>5
<1>7. ASSUME NEW i \in 1..n, NEW a \in Rights, events[i].aspect # events[a].aspect
      PROVE  Shares(i)[a] = 0
  BY <1>3, <1>4, <1>7
<1>8. ASSUME NEW i \in 1..n PROVE W[i] \in Nat
  <2> DEFINE f == Shares(i)
  <2>1. f \in [Rights -> Nat]
    BY <1>6
  <2> HIDE DEF f, Rights
  <2>2. SumFunction(f) \in Nat
    BY <1>2, <2>1, SumType
  <2>3. QED
    BY <1>1, <2>2 DEF f
<1>9. W \in [1..n -> Nat]
  BY <1>1, <1>8
<1>10. ASSUME NEW a \in Rights PROVE W[a] > 0
  <2> DEFINE f == Shares(a)
  <2>1. a \in 1..n /\ f \in [Rights -> Nat]
    BY <1>2, <1>6
  <2>2. f[a] > 0
    BY <1>3, <1>5
  <2> HIDE DEF f, Rights
  <2>3. SumFunction(f) > 0
    BY <1>2, <2>1, <2>2, SumIsPositive
  <2>4. QED
    BY <1>1, <2>1, <2>3 DEF f
<1>11. ASSUME NEW asp
       PROVE  SumFunction(WeightsOf(W, events, asp)) =
                IF RightIn(events, asp) THEN 100 * Scale ELSE 0
  <2> DEFINE T == TurnsOf(events, asp)
             V == WeightsOf(W, events, asp)
  <2>1. /\ T \in SUBSET (1..n) /\ IsFiniteSet(T)
        /\ \A i \in T : events[i].aspect = asp
    <3>1. T \in SUBSET (1..n) /\ \A i \in T : events[i].aspect = asp
      BY DEF TurnsOf
    <3>2. QED
      BY <1>2, <3>1, FS_Subset
  <2>7. IsFiniteSet(T)
    BY <2>1
  <2>2. V \in [T -> Nat] /\ \A i \in T : V[i] = W[i]
    BY <1>9, <2>1 DEF WeightsOf
  <2>3. RightIn(events, asp) <=> \E a \in Rights : events[a].aspect = asp
    BY DEF RightIn, TurnsOf, With
  <2>4. CASE \A a \in Rights : events[a].aspect # asp
    <3>1. ASSUME NEW i \in T PROVE V[i] = 0
      <4> DEFINE f == Shares(i)
      <4>1. f \in [Rights -> Nat]
        BY <1>6, <2>1
      <4>2. \A a \in Rights : f[a] = 0
        BY <1>7, <2>1, <2>4
      <4> HIDE DEF f, Rights
      <4>3. SumFunction(f) = 0
        BY <1>2, <4>1, <4>2, SumOfZeros
      <4>4. QED
        BY <1>1, <2>1, <2>2, <4>3 DEF f
    <3> HIDE DEF T, V
    <3>2. SumFunction(V) = 0
      BY <2>1, <2>2, <3>1, SumOfZeros
    <3>3. QED
      BY <2>3, <2>4, <3>2 DEF V
  <2>5. ASSUME NEW a \in Rights, events[a].aspect = asp
        PROVE  SumFunction(V) = 100 * Scale
    <3> DEFINE first == [i \in T |-> IF i = Searcher(a) THEN 15 * Scale ELSE 0]
               asked == [i \in T |-> IF i \in Askers(a) THEN Quota(a) ELSE 0]
               last  == [i \in T |-> IF i = a THEN 60 * Scale ELSE 0]
               both  == [i \in T |-> first[i] + asked[i]]
    <3>1. ASSUME NEW i \in T PROVE V[i] = both[i] + last[i]
      <4> DEFINE f == Shares(i)
      <4>1. i \in 1..n /\ f \in [Rights -> Nat]
        BY <1>6, <2>1
      <4>2. OnlyAt(f, Rights, a)
        <5>1. \A b \in Rights \ {a} : events[b].aspect # asp
          BY <2>5 DEF AnsweredOnce
        <5>2. QED
          BY <1>7, <2>1, <2>5, <5>1 DEF OnlyAt
      <4>3. f[a] = both[i] + last[i]
        OBVIOUS
      <4> HIDE DEF f, Rights
      <4>4. SumFunction(f) = f[a]
        BY <1>2, <4>1, <4>2, SumOfOne
      <4>5. W[i] = SumFunction(f)
        BY <1>1, <4>1 DEF f
      <4> HIDE DEF both, last
      <4>6. QED
        BY <2>2, <4>3, <4>4, <4>5
    <3>2. a \in T /\ Searcher(a) \in T /\ Askers(a) \in SUBSET T
      BY <1>2, <1>4, <2>5 DEF TurnsOf
    <3>3. /\ first \in [T -> Nat] /\ asked \in [T -> Nat]
          /\ last \in [T -> Nat]
      BY <1>3, <1>5
    <3>4. both \in [T -> Nat]
      BY <3>3
    <3>5. SumFunction(first) = 15 * Scale
      <4>1. first[Searcher(a)] = 15 * Scale /\ OnlyAt(first, T, Searcher(a))
        BY <3>2 DEF OnlyAt
      <4> HIDE DEF first, T
      <4>2. SumFunction(first) = first[Searcher(a)]
        BY <2>7, <3>3, <4>1, SumOfOne
      <4>3. QED
        BY <4>1, <4>2
    <3>6. SumFunction(last) = 60 * Scale
      <4>1. last[a] = 60 * Scale /\ OnlyAt(last, T, a)
        BY <3>2 DEF OnlyAt
      <4> HIDE DEF last, T
      <4>2. SumFunction(last) = last[a]
        BY <2>7, <3>3, <4>1, SumOfOne
      <4>3. QED
        BY <4>1, <4>2
    <3>7. SumFunction(asked) = 25 * Scale
      <4>1. EqualOn(asked, T, Askers(a), Quota(a))
        BY <1>5, <3>2 DEF EqualOn
      <4> HIDE DEF asked, T
      <4>2. SumFunction(asked) = Quota(a) * Cardinality(Askers(a))
        BY <2>7, <3>3, <4>1, SumOfEqual
      <4>3. QED
        BY <1>5, <4>2
    <3>8. SumFunction(both) = SumFunction(first) + SumFunction(asked)
      <4>1. AddsTo(first, asked, both, T)
        BY DEF AddsTo
      <4> HIDE DEF both, first, asked, T
      <4>2. QED
        BY <2>7, <3>3, <3>4, <4>1, SumOfSum
    <3> HIDE DEF both, last, first, asked, T, V
    <3>9. AddsTo(both, last, V, T)
      BY <3>1 DEF AddsTo
    <3>10. /\ V \in [T -> Nat] /\ both \in [T -> Nat]
           /\ last \in [T -> Nat]
      BY <2>2, <3>3, <3>4
    <3>11. SumFunction(V) = SumFunction(both) + SumFunction(last)
      BY <2>7, <3>9, <3>10, SumOfSum
    <3>12. QED
      BY <1>3, <3>5, <3>6, <3>7, <3>8, <3>11
  <2>6. QED
    BY <2>3, <2>4, <2>5
<1>12. QED
  BY <1>9, <1>10, <1>11 DEF SharedByAspect, W
-----------------------------------------------------------------------------
(* Which aspect a turn is about, and how far the credit depends on it *)

\* Two records of the closed turns that differ in what was cleaned only.
SameTurns(p, q) ==
    /\ IsSeq(p) /\ IsSeq(q) /\ Len(p) = Len(q)
    /\ \A i \in DOMAIN q : p[i].calls = q[i].calls /\ p[i].aspect = q[i].aspect

LEMMA CleanupKeepsTurns ==
    ASSUME NEW r, IsRequest(r), NEW a, Grouped(r, a), NEW force, NEW needs, NEW works,
           NEW c, c = Cleanup(r, force, needs, works)
    PROVE  SameTurns(c.past, r.past)
<1>1. IsSeq(r.past) /\ DOMAIN r.past = 1..Len(r.past) /\ Len(r.past) \in Nat
  BY SequenceFacts DEF IsRequest
<1>2. CASE c = r
  BY <1>1, <1>2 DEF SameTurns
<1>3. ASSUME NEW answers \in SUBSET PastTurns(r), CleanedTo(r, answers, c)
      PROVE  SameTurns(c.past, r.past)
  <2> DEFINE d == CloseFragment(r, FragmentEnd(r))
  <2>1. IsRequest(d)
    BY ClosedFields
  <2>2. c = [d EXCEPT !.ledger = Compacted(r, answers), !.past = Marked(r, answers)]
    BY <1>3, Zenon DEF CleanedTo
  <2> HIDE DEF d
  <2>3. c.past = Marked(r, answers)
    BY <2>1, <2>2 DEF IsRequest, Fields
  <2>4. /\ IsSeq(c.past) /\ Len(c.past) = Len(r.past)
        /\ \A t \in PastTurns(r) : /\ Entry(c, t).calls = Entry(r, t).calls
                                   /\ Entry(c, t).aspect = Entry(r, t).aspect
    BY <2>3, MarkedFacts
  <2>5. ASSUME NEW i \in DOMAIN r.past
        PROVE  c.past[i].calls = r.past[i].calls /\ c.past[i].aspect = r.past[i].aspect
    <3>1. i - 1 \in PastTurns(r) /\ (i - 1) + 1 = i
      BY <1>1 DEF PastTurns
    <3>2. Entry(c, i - 1) = c.past[i] /\ Entry(r, i - 1) = r.past[i]
      BY <3>1 DEF Entry
    <3>3. QED
      BY <2>4, <3>1, <3>2
  <2>6. QED
    BY <1>1, <2>4, <2>5 DEF SameTurns
<1>4. c = r \/ \E answers \in SUBSET PastTurns(r) : CleanedTo(r, answers, c)
  BY CleanupExact
<1>5. QED
  BY <1>2, <1>3, <1>4

\* A turn of aspect p.aspect made one call, about that aspect, no later than a,
\* and before a if it was an answer.
OneCall(p, a) ==
    /\ Len(p.calls) = 1 /\ DOMAIN p.calls = {1}
    /\ p.calls[1].aspect = p.aspect /\ "right" \notin p.calls[1].also
    /\ p.aspect \in 1..a
    /\ p.calls[1].kind \in Answers => p.aspect < a

\* The turns that made one call are in the order of their aspects, and what
\* follows an answer is about a later one.
InTurn(past, a) ==
    /\ a \in Nat \ {0}
    /\ \A i \in DOMAIN past : past[i].aspect # 0 => OneCall(past[i], a)
    /\ \A i, j \in DOMAIN past :
         /\ i < j /\ past[i].aspect # 0 /\ past[j].aspect # 0
         /\ past[i].calls[1].kind \in Answers
         => past[i].aspect < past[j].aspect

LEMMA SameInTurn ==
    ASSUME NEW p, NEW q, SameTurns(p, q), NEW a, InTurn(q, a)
    PROVE  InTurn(p, a)
<1>1. DOMAIN p = DOMAIN q
  BY SequenceFacts DEF SameTurns
<1>2. \A i \in DOMAIN q : p[i].calls = q[i].calls /\ p[i].aspect = q[i].aspect
  BY DEF SameTurns
<1>3. QED
  BY <1>1, <1>2 DEF InTurn, OneCall

\* One more turn, about the aspect the environment is at.
LEMMA NextInTurn ==
    ASSUME NEW past, IsSeq(past), NEW a, InTurn(past, a), NEW b \in {a, a + 1},
           NEW e, e.aspect # 0 => e.aspect = a /\ OneCall(e, b)
    PROVE  InTurn(Append(past, e), b)
<1> DEFINE t == Append(past, e)
           k == Len(past)
<1>1. /\ k \in Nat /\ DOMAIN past = 1..k /\ DOMAIN t = 1..(k + 1)
      /\ t[k + 1] = e /\ \A i \in 1..k : t[i] = past[i]
  BY Appended
<1> HIDE DEF t, k
<1>2. a \in Nat \ {0} /\ b \in Nat \ {0} /\ a <= b
  BY DEF InTurn
<1>3. \A i \in 1..k : past[i].aspect # 0 =>
        /\ OneCall(past[i], a) /\ OneCall(past[i], b)
        /\ past[i].aspect \in Nat
        /\ past[i].calls[1].kind \in Answers => past[i].aspect < a
  BY <1>1, <1>2 DEF InTurn, OneCall
<1>4. ASSUME NEW i \in DOMAIN t, t[i].aspect # 0 PROVE OneCall(t[i], b)
  <2>1. i \in 1..k \/ i = k + 1
    BY <1>1
  <2>2. QED
    BY <1>1, <1>3, <1>4, <2>1
<1>5. ASSUME NEW i \in DOMAIN t, NEW j \in DOMAIN t, i < j,
             t[i].aspect # 0, t[j].aspect # 0, t[i].calls[1].kind \in Answers
      PROVE  t[i].aspect < t[j].aspect
  <2>1. i \in 1..k /\ (j \in 1..k \/ j = k + 1)
    BY <1>1, <1>5
  <2>2. t[i] = past[i] /\ past[i].aspect < a
    BY <1>1, <1>3, <1>5, <2>1
  <2>3. CASE j \in 1..k
    <3>1. t[j] = past[j]
      BY <1>1, <2>3
    <3>2. QED
      BY <1>1, <1>5, <2>1, <2>2, <2>3, <3>1 DEF InTurn
  <2>4. CASE j = k + 1
    BY <1>1, <1>5, <2>2, <2>4
  <2>5. QED
    BY <2>1, <2>3, <2>4
<1>6. QED
  BY <1>2, <1>4, <1>5 DEF InTurn, t

\* The inductive invariant: until the request is quarantined, its closed turns
\* are about the aspects in their order; and there are at most MaxTurns of them.
CreditInv ==
    /\ MemInv
    /\ phase # "invalid" => InTurn(req.past, aspect)
    /\ Len(given) \in 0..MaxTurns
    /\ phase = "next" => Len(given) < MaxTurns

\* What a message with one call is about.
LEMMA CallInTurn ==
    ASSUME NEW calls \in CallsNow, aspect \in Nat \ {0},
           NEW b, b = (IF HasAnswer(calls) THEN aspect + 1 ELSE aspect),
           NEW r, NEW turn, NEW e, e = ClosedTurn(r, turn, calls), e.aspect # 0
    PROVE  e.aspect = aspect /\ OneCall(e, b)
<1>1. e.calls = calls /\ e.aspect = Owner(calls)
  BY DEF ClosedTurn
<1>2. Len(calls) = 1 /\ e.aspect = calls[1].aspect
  BY <1>1 DEF Owner
<1>3. /\ calls[1].aspect = aspect /\ "right" \notin calls[1].also
      /\ calls[1].kind \in Answers => HasAnswer(calls)
  BY <1>2, CallsFacts
<1>4. DOMAIN calls = {1}
  <2>1. \A c \in CallsNow : DOMAIN c = 1..Len(c)
    BY DEF CallsNow
  <2>2. QED
    BY <1>2, <2>1
<1>5. b \in Nat /\ aspect <= b /\ (HasAnswer(calls) => aspect < b)
  OBVIOUS
<1>6. QED
  BY <1>1, <1>2, <1>3, <1>4, <1>5 DEF OneCall

LEMMA FinalizeInTurn ==
    ASSUME NEW r, IsRequest(r), Finalize(r), NEW a, InTurn(r.past, a)
    PROVE  InTurn(req'.past, a)
<1> DEFINE c == CloseFragment(r, Len(r.ledger))
<1>1. c.past = r.past
  BY ClosedFields
<1>2. req' = c
  BY DEF Finalize
<1>3. QED
  BY <1>1, <1>2

LEMMA GenerateInTurn ==
    ASSUME NEW works, CreditInv, Generate(works)
    PROVE  CreditInv'
<1> DEFINE n == Len(given)
           force == FALSE
           needs == TRUE
           d == Cleanup(req, force, needs, works)
           r == OpenTurn(d, n)
<1>1. /\ MemInv /\ SegInv /\ n \in Nat /\ IsSeq(given) /\ n < MaxTurns
      /\ IsRequest(req) /\ Closable(req) /\ Remembers(req, n, aspect)
      /\ InTurn(req.past, aspect) /\ AsGenerated(req, given) /\ InOrder(req, n)
  BY SequenceFacts DEF CreditInv, MemInv, SegInv, Generate
<1>2. IsRequest(d) /\ Placed(d)
  <2> HIDE DEF n
  <2>1. QED
    BY <1>1, CleanupKeeps DEF Closable
<1>3. SameTurns(d.past, req.past)
  <2>1. Grouped(req, aspect)
    BY <1>1 DEF Remembers
  <2> HIDE DEF d
  <2>2. d = Cleanup(req, force, needs, works)
    BY DEF d
  <2> HIDE DEF force, needs
  <2>3. QED
    BY <1>1, <2>1, <2>2, CleanupKeepsTurns
<1> HIDE DEF d
<1>4. r.past = d.past /\ IsRequest(r)
  BY <1>2, OpenTurnKeeps
<1>5. PICK size : /\ req' = [r EXCEPT
                       !.ledger = Append(r.ledger, Span("actor", n, size)),
                       !.archive = r.archive \o <<Marker(n), Span("actor", n, size)>>]
                  /\ given' = Append(given, r.ledger)
                  /\ phase' = "tools" /\ aspect' = aspect
  BY Zenon DEF Generate, d
<1> HIDE DEF r
<1>6. req'.past = d.past
  BY <1>4, <1>5 DEF IsRequest, Fields
<1>7. InTurn(d.past, aspect)
  BY <1>1, <1>3, SameInTurn
<1>8. InTurn(req'.past, aspect')
  BY <1>5, <1>6, <1>7
<1>9. Len(given') \in 0..MaxTurns
  <2>1. Len(given') = n + 1
    BY <1>1, <1>5, AppendFacts
  <2>2. MaxTurns \in Nat
    BY SizesAreTokens
  <2> HIDE DEF n
  <2>3. QED
    BY <1>1, <2>1, <2>2
<1>10. MemInv'
  BY <1>1, GenerateRemembers
<1>11. QED
  BY <1>5, <1>8, <1>9, <1>10 DEF CreditInv

LEMMA RunToolsInTurn ==
    ASSUME NEW calls, NEW size, NEW stop, NEW works, CreditInv,
           RunTools(calls, size, stop, works)
    PROVE  CreditInv'
<1> DEFINE n == Len(given)
           answered == CompleteTurn(req, n - 1, calls, size)
           force == Tokens(answered.ledger) > MaxModelLen
           r == Cleanup(answered, force, ~stop, works)
           e == ClosedTurn(req, n - 1, calls)
           b == IF HasAnswer(calls) THEN aspect + 1 ELSE aspect
<1>1. /\ MemInv /\ SegInv /\ n \in Nat \ {0} /\ IsSeq(given) /\ n < MaxTurns
      /\ IsRequest(req) /\ Placed(req) /\ Open(req)
      /\ Remembers(req, n, aspect) /\ Len(req.past) = n - 1
      /\ AsGenerated(req, given) /\ InOrder(req, n) /\ InTurn(req.past, aspect)
  <2>1. MemInv /\ SegInv /\ phase = "tools" /\ n < MaxTurns
    BY DEF CreditInv, MemInv, RunTools
  <2>2. n \in Nat \ {0} /\ Remembers(req, n, aspect) /\ Len(req.past) = n - 1
    BY <2>1, SequenceFacts DEF MemInv, SegInv
  <2>3. QED
    BY <2>1, <2>2 DEF CreditInv, SegInv
<1>2. MemInv'
  BY <1>1, RunToolsRemembers
<1>3. /\ IsRequest(answered) /\ Closable(answered)
      /\ answered.past = Append(req.past, e)
      /\ answered.ledger = Append(req.ledger, Span("tool", n - 1, size))
      /\ answered.archive = Append(req.archive, Span("tool", n - 1, size))
      /\ answered.records = req.records /\ Live(answered) = Live(req)
  <2> HIDE DEF n
  <2>1. QED
    BY <1>1, CompleteTurnKeeps, CompletedPast
<1>4. calls \in CallsNow /\ UNCHANGED given /\ aspect' = b
  BY DEF RunTools
<1>5. \/ phase' = "invalid"
      \/ phase' = "done" /\ Finalize(r)
      \/ phase' = "next" /\ req' = r
  BY Zenon DEF RunTools, Quarantine
<1> HIDE DEF answered, force, n, e
<1>6. aspect \in Nat \ {0} /\ b \in {aspect, aspect + 1}
  BY <1>1 DEF InTurn
<1>7. e.aspect # 0 => e.aspect = aspect /\ OneCall(e, b)
  BY <1>4, <1>6, CallInTurn DEF e
<1> HIDE DEF b
<1>8. InTurn(answered.past, b)
  <2>1. IsSeq(req.past)
    BY <1>1 DEF IsRequest
  <2>2. QED
    BY <1>1, <1>3, <1>6, <1>7, <2>1, NextInTurn
<1>9. Grouped(answered, b)
  <2>1. /\ Len(calls) = 1 => calls[1].aspect = aspect
        /\ Len(calls) = 1 /\ calls[1].kind \in Answers => b = aspect + 1
    BY <1>4, CallsFacts DEF b
  <2>2. answered.past = Append(req.past, ClosedTurn(req, n - 1, calls))
    BY <1>3 DEF e
  <2>3. Remembers(answered, n, b)
    BY <1>1, <1>3, <1>6, <2>1, <2>2, ClosedTurnRemembers
  <2>4. QED
    BY <2>3 DEF Remembers
<1>10. SameTurns(r.past, answered.past)
  <2> DEFINE needs == ~stop
  <2> HIDE DEF r, needs
  <2>1. r = Cleanup(answered, force, needs, works)
    BY DEF r, needs
  <2>2. QED
    BY <1>3, <1>9, <2>1, CleanupKeepsTurns
<1>11. InTurn(r.past, b)
  BY <1>8, <1>10, SameInTurn
<1>12. IsRequest(r)
  <2>1. AsGenerated(answered, given) /\ InOrder(answered, n)
    BY <1>1, <1>3, QuietGrowth
  <2>2. QED
    BY <1>1, <1>3, <2>1, CleanupKeeps
<1> HIDE DEF r
<1>13. phase' # "invalid" => InTurn(req'.past, aspect')
  <2>1. CASE phase' = "done" /\ Finalize(r)
    <3>1. InTurn(req'.past, b)
      BY <1>11, <1>12, <2>1, FinalizeInTurn
    <3>2. QED
      BY <1>4, <3>1
  <2>2. CASE phase' = "next" /\ req' = r
    BY <1>4, <1>11, <2>2
  <2>3. QED
    BY <1>5, <2>1, <2>2
<1>14. Len(given') \in 0..MaxTurns /\ Len(given') < MaxTurns
  <2>1. Len(given') = n
    BY <1>4 DEF n
  <2>2. MaxTurns \in Nat
    BY SizesAreTokens
  <2>3. QED
    BY <1>1, <2>1, <2>2
<1>15. QED
  BY <1>2, <1>13, <1>14 DEF CreditInv

LEMMA CreditStarts == Init => CreditInv
<1> SUFFICES ASSUME Init PROVE CreditInv
  OBVIOUS
<1>1. MemInv
  <2>1. SegInv
    BY InitSafe
  <2>2. req = Fresh /\ phase = "next" /\ aspect = 1 /\ given = <<>> /\ Len(given) = 0
    BY DEF Init
  <2>3. Remembers(req, Len(given), aspect) /\ Len(req.past) = Len(given)
    BY <2>2, FreshRemembers
  <2>4. QED
    BY <2>1, <2>2, <2>3 DEF MemInv
<1>2. req.past = <<>> /\ aspect = 1 /\ Len(given) = 0
  BY DEF Init, Fresh
<1>3. InTurn(req.past, aspect)
  BY <1>2 DEF InTurn
<1>4. MaxTurns \in Nat /\ MaxTurns > 0
  BY SizesAreTokens
<1>5. QED
  BY <1>1, <1>2, <1>3, <1>4 DEF CreditInv

LEMMA CreditKept == CreditInv /\ [Next]_vars => CreditInv'
<1> SUFFICES ASSUME CreditInv, [Next]_vars PROVE CreditInv'
  OBVIOUS
<1>1. ASSUME NEW works \in BOOLEAN, Generate(works) PROVE CreditInv'
  BY <1>1, GenerateInTurn
<1>2. ASSUME NEW calls \in CallsNow, NEW size \in ToolSizes, NEW stop \in BOOLEAN,
             NEW works \in BOOLEAN, RunTools(calls, size, stop, works)
      PROVE  CreditInv'
  BY <1>2, RunToolsInTurn
<1>3. CASE OutOfTurns
  <2>1. /\ MemInv' /\ Finalize(req) /\ UNCHANGED <<aspect, given>> /\ phase' = "done"
        /\ IsRequest(req) /\ InTurn(req.past, aspect)
    BY <1>3, OutOfTurnsRemembers DEF CreditInv, MemInv, SegInv, OutOfTurns
  <2>2. InTurn(req'.past, aspect)
    BY <2>1, FinalizeInTurn
  <2>3. QED
    BY <2>1, <2>2 DEF CreditInv
<1>4. CASE Reject
  <2>1. SegInv /\ Quarantine /\ UNCHANGED given
    BY <1>4 DEF CreditInv, MemInv, Reject
  <2>2. SegInv' /\ phase' = "invalid"
    BY <2>1, QuarantineSafe DEF Quarantine
  <2>3. MemInv'
    BY <2>2 DEF MemInv
  <2>4. QED
    BY <2>1, <2>2, <2>3 DEF CreditInv
<1>5. CASE UNCHANGED vars
  <2>1. MemInv'
    BY <1>5 DEF CreditInv, MemInv, SegInv, vars
  <2>2. QED
    BY <1>5, <2>1 DEF CreditInv, vars
<1>6. QED
  BY <1>1, <1>2, <1>3, <1>4, <1>5 DEF Next

LEMMA CreditInvariant == Spec => []CreditInv
BY CreditStarts, CreditKept, PTL DEF Spec

\* What the closed turns did, one call each, as the events of the rollout.
LEMMA EventsOfTurns ==
    ASSUME CreditInv, phase # "invalid", \A p \in ToSet(req.past) : p.aspect # 0
    PROVE  /\ Len(given) \in Nat /\ DOMAIN TurnEvents = 1..Len(given)
           /\ PartsAreWhole(Len(given)) /\ AnsweredOnce(TurnEvents)
           /\ \A i \in With(TurnEvents, {"right"}) : TurnEvents[i].reported
<1> DEFINE n == Len(given)
           P == req.past
<1>1. /\ n \in 0..MaxTurns /\ n \in Nat /\ DOMAIN given = 1..n
      /\ IsSeq(P) /\ Len(P) \in Nat /\ DOMAIN P = 1..Len(P)
      /\ InTurn(P, aspect)
  BY SequenceFacts DEF CreditInv, MemInv, SegInv, IsRequest
<1>2. DOMAIN TurnEvents = 1..n
  BY <1>1 DEF TurnEvents
<1>3. PartsAreWhole(n)
  BY <1>1, SharesAreWhole, SizesAreTokens DEF PartsAreWhole
<1> HIDE DEF n, P
<1>4. \A i \in DOMAIN P : P[i].aspect # 0
  BY DEF ToSet, P
<1>5. ASSUME NEW i \in With(TurnEvents, {"right"})
      PROVE  /\ i \in DOMAIN P
             /\ TurnEvents[i].aspect = P[i].aspect /\ P[i].calls[1].kind \in Answers
             /\ TurnEvents[i].reported
  <2>1. i \in 1..n /\ "right" \in TurnEvents[i].kinds
    BY <1>2 DEF With
  <2>2. TurnEvents[i] = IF i <= Len(P) THEN Coalesced(P[i].calls) ELSE Unreported
    BY <1>1, <2>1 DEF TurnEvents, P
  <2>3. i <= Len(P)
    BY <2>1, <2>2 DEF Unreported
  <2>4. i \in DOMAIN P
    BY <1>1, <2>1, <2>3
  <2>5. OneCall(P[i], aspect)
    BY <1>1, <1>4, <2>4 DEF InTurn
  <2>6. /\ TurnEvents[i].kinds =
             UNION {{P[i].calls[k].kind} \cup P[i].calls[k].also : k \in DOMAIN P[i].calls}
        /\ TurnEvents[i].aspect = P[i].calls[Len(P[i].calls)].aspect
        /\ TurnEvents[i].reported
    BY <2>2, <2>3 DEF Coalesced
  <2>7. P[i].calls[1].kind = "right" /\ TurnEvents[i].aspect = P[i].aspect
    BY <2>1, <2>5, <2>6 DEF OneCall
  <2>8. QED
    BY <2>4, <2>6, <2>7 DEF Answers
<1>6. ASSUME NEW i \in With(TurnEvents, {"right"}), NEW j \in With(TurnEvents, {"right"}),
             i < j
      PROVE  TurnEvents[i].aspect # TurnEvents[j].aspect
  <2>1. /\ i \in DOMAIN P /\ j \in DOMAIN P
        /\ TurnEvents[i].aspect = P[i].aspect /\ P[i].calls[1].kind \in Answers
        /\ TurnEvents[j].aspect = P[j].aspect
    BY <1>5
  <2>2. P[i].aspect \in Int /\ P[j].aspect \in Int
    BY <1>1, <1>4, <2>1 DEF InTurn, OneCall
  <2>3. P[i].aspect < P[j].aspect
    BY <1>1, <1>4, <1>6, <2>1 DEF InTurn
  <2>4. QED
    BY <2>1, <2>2, <2>3
<1>7. \A i \in With(TurnEvents, {"right"}) : i \in Int
  BY <1>1, <1>5
<1>8. AnsweredOnce(TurnEvents)
  BY <1>6, <1>7 DEF AnsweredOnce
<1>9. QED
  BY <1>1, <1>2, <1>3, <1>5, <1>8 DEF n

\* A component that rewards a correct answer takes the route of the answer.
LEMMA AnswerRoute ==
    ASSUME NEW events, With(events, {"right"}) # {},
           \E i \in DOMAIN events : events[i].reported,
           SumFunction(CorrectAnswers(events)) > 0
    PROVE  Credit("correct_completion", TRUE, events) = CorrectAnswers(events)
<1>1. /\ "correct_completion" \in DOMAIN AnswerRoutes
      /\ AnswerRoutes["correct_completion"].flag = "right"
  BY DEF AnswerRoutes, Chain
<1>2. Routed("correct_completion", TRUE, events) = CorrectAnswers(events)
  BY <1>1, Zenon DEF Routed, CorrectAnswers
<1>3. QED
  BY <1>2 DEF Credit

LEMMA StaysIfShared ==
    ASSUME phase = "done" /\ (\A p \in ToSet(req.past) : p.aspect # 0)
             /\ (\E a \in 1..Aspects : RightIn(TurnEvents, a))
           => SharedByAspect(Credit("correct_completion", TRUE, TurnEvents), TurnEvents)
    PROVE  CreditStaysWithItsAspect
<1> DEFINE A == Credit("correct_completion", TRUE, TurnEvents)
           T(a) == {i \in DOMAIN TurnEvents : TurnEvents[i].aspect = a}
           R(a) == \E i \in T(a) : "right" \in TurnEvents[i].kinds
           Given == phase = "done" /\ \A p \in ToSet(req.past) : p.aspect # 0
           Shared(a) == SumFunction([i \in T(a) |-> A[i]]) = IF R(a) THEN 100 * Scale ELSE 0
<1>1. CreditStaysWithItsAspect <=>
        (Given /\ (\E a \in 1..Aspects : R(a)) => \A a \in 0..Aspects : Shared(a))
  BY DEF CreditStaysWithItsAspect
<1>2. \A a : RightIn(TurnEvents, a) <=> R(a)
  BY DEF RightIn, TurnsOf
<1>3. SharedByAspect(A, TurnEvents) => \A a \in 0..Aspects : Shared(a)
  BY DEF SharedByAspect, RightIn, TurnsOf, WeightsOf
<1>4. Given /\ (\E a \in 1..Aspects : RightIn(TurnEvents, a)) => SharedByAspect(A, TurnEvents)
  OBVIOUS
<1> HIDE DEF A, R, T, Given, Shared
<1>5. QED
  BY <1>1, <1>2, <1>3, <1>4

\* A correct answer is credited to the turns of its own aspect and to no other
\* (_answer_chain_turn_weights): in a finished request whose messages made one call
\* each, the weights of the turns of an aspect add up to the whole component when
\* the aspect was answered correctly and to nothing when it was not.
THEOREM CreditStays == Spec => []CreditStaysWithItsAspect
<1>1. CreditInv => CreditStaysWithItsAspect
  <2> DEFINE events == TurnEvents
             credit == Credit("correct_completion", TRUE, events)
             W == CorrectAnswers(events)
             n == Len(given)
  <2> SUFFICES ASSUME CreditInv, phase = "done", \A p \in ToSet(req.past) : p.aspect # 0,
                      \E a \in 1..Aspects : RightIn(events, a)
               PROVE  SharedByAspect(credit, events)
    BY StaysIfShared
  <2>1. /\ n \in Nat /\ DOMAIN events = 1..n
        /\ PartsAreWhole(n) /\ AnsweredOnce(events)
        /\ \A b \in With(events, {"right"}) : events[b].reported
    BY EventsOfTurns
  <2> HIDE DEF events, n
  <2>2. /\ W \in [1..n -> Nat]
        /\ \A b \in With(events, {"right"}) : W[b] > 0
        /\ SharedByAspect(W, events)
    BY <2>1, AnswerCredit
  <2>3. PICK b : b \in With(events, {"right"})
    BY DEF RightIn, TurnsOf, With
  <2>4. SumFunction(W) > 0
    <3> HIDE DEF W
    <3> DEFINE D == 1..n
    <3>1. IsFiniteSet(D)
      BY <2>1, FS_Interval
    <3>2. b \in D
      BY <2>1, <2>3 DEF With
    <3>3. W \in [D -> Nat] /\ W[b] > 0
      BY <2>2, <2>3
    <3> HIDE DEF D
    <3>4. QED
      BY <3>1, <3>2, <3>3, SumIsPositive
  <2>5. credit = W
    <3>1. \E i \in DOMAIN events : events[i].reported
      BY <2>1, <2>3 DEF With
    <3>2. QED
      BY <2>3, <2>4, <3>1, AnswerRoute
  <2> HIDE DEF W, credit
  <2>6. QED
    BY <2>2, <2>5
<1>2. QED
  BY <1>1, CreditInvariant, PTL

-----------------------------------------------------------------------------
(* How the turns lie in a fragment *)

\* Where the boundary of the i-th turn of a fragment is: the first turn begins
\* behind the prompt, a later one with its marker, before what the actor wrote.
Place(i) == IF i = 1 THEN 0 ELSE 3 * i - 4

Bounded(b, n) == IsSeq(b) /\ Len(b) = n /\ \A i \in 1..n : b[i] = Place(i)

\* The m turns from turn t on.
Numbered(u, m, t) == IsSeq(u) /\ Len(u) = m /\ \A i \in 1..m : u[i] = t + i - 1

\* Behind position p, what the actor wrote in the n turns from turn t on is at
\* every third position, and nothing else there carries loss.
Stretch(l, p, n, t) ==
    /\ \A i \in 1..n : /\ l[p + 3 * i - 2].kind = "actor"
                       /\ l[p + 3 * i - 2].turn = t + i - 1
    /\ \A j \in (p + 1)..Len(l) :
         l[j].kind = "actor" => \E i \in 1..n : j = p + 3 * i - 2

\* A stretch that ends with the n-th message of the actor or its observation.
Ending(l, p, n) == IsSeq(l) /\ Len(l) - p \in {3 * n - 2, 3 * n - 1}

\* The fragment holds n turns, m of them closed, from turn t on.
ShapedRecord(f, n, m, t) ==
    /\ Ending(f.response, 0, n) /\ Stretch(f.response, 0, n, t)
    /\ Bounded(f.bounds, n) /\ Numbered(f.turns, m, t)

ShapedSegment(r, n, m, t) ==
    /\ Ending(r.ledger, r.segment.prompt, n) /\ Stretch(r.ledger, r.segment.prompt, n, t)
    /\ Bounded(r.segment.bounds, n) /\ Numbered(r.segment.turns, m, t)

LEMMA FullPrefix ==
    ASSUME NEW s, IsSeq(s)
    PROVE  SubSeq(s, 1, Len(s)) = s
<1>1. PICK X : s \in Seq(X)
  BY DEF IsSeq
<1>2. QED
  BY <1>1, SubSeqFull

\* No boundary of a fragment is lost when it is closed behind its last target.
LEMMA BoundsKept ==
    ASSUME NEW n \in Nat, NEW b, Bounded(b, n), NEW k \in Nat, k >= 3 * n - 2
    PROVE  BoundsBelow(b, k) = b
<1>1. DOMAIN b = 1..n /\ IsSeq(b) /\ Len(b) = n
  BY SequenceFacts DEF Bounded
<1>2. \A i \in 1..n : b[i] < k
  BY DEF Bounded, Place
<1>3. {i \in DOMAIN b : b[i] < k} = 1..n
  BY <1>1, <1>2
<1>4. Cardinality(1..n) = n
  BY FS_Interval
<1>5. QED
  BY <1>1, <1>3, <1>4, FullPrefix DEF BoundsBelow

\* A closed fragment has the shape the open one had.
LEMMA ClosedShape ==
    ASSUME NEW r, IsRequest(r), Placed(r), Open(r),
           NEW n \in Nat \ {0}, NEW m, NEW t \in Nat, ShapedSegment(r, n, m, t),
           NEW cut \in 0..Len(r.ledger), cut >= r.segment.prompt + 3 * n - 2
    PROVE  \E f : /\ CloseFragment(r, cut).records = Append(r.records, f)
                  /\ ShapedRecord(f, n, m, t)
<1> DEFINE p == r.segment.prompt
           l == r.ledger
           a == SubSeq(l, 1, p)
           b == SubSeq(l, p + 1, cut)
           u == r.segment.turns
           w == r.segment.bounds
           f == [prompt |-> a, response |-> b, turns |-> u, bounds |-> w]
<1>1. /\ p \in Nat /\ cut \in Nat /\ cut <= Len(l) /\ IsSeq(l)
      /\ Len(l) \in Nat /\ Len(l) - p \in {3 * n - 2, 3 * n - 1}
      /\ cut >= p + 3 * n - 2
  BY SequenceFacts DEF Placed, IsRequest, ShapedSegment, Ending
<1>2. BoundsBelow(w, cut - p) = w
  <2>1. cut - p \in Nat /\ cut - p >= 3 * n - 2
    BY <1>1
  <2>2. Bounded(w, n)
    BY DEF ShapedSegment
  <2> HIDE DEF w, p
  <2>3. QED
    BY <2>1, <2>2, BoundsKept
<1>3. CloseFragment(r, cut).records = Append(r.records, f)
  <2>1. cut # p
    BY <1>1
  <2>2. QED
    BY <1>2, <2>1, OneClosed
<1>4. /\ IsSeq(b) /\ Len(b) = cut - p
      /\ \A i \in 1..(cut - p) : b[i] = l[p + i]
  <2>1. /\ IsSeq(b)
        /\ Len(b) = IF p + 1 <= cut THEN cut - (p + 1) + 1 ELSE 0
        /\ \A i \in 1..Len(b) : b[i] = l[(p + 1) + i - 1]
    <3>1. p + 1 \in Nat \ {0}
      BY <1>1
    <3> HIDE DEF p, l
    <3>2. QED
      BY <1>1, <3>1, SubSeqFacts
  <2> HIDE DEF b, p, l
  <2>2. Len(b) = cut - p
    <3>1. p \in Int /\ cut \in Int /\ p + 1 <= cut
      BY <1>1
    <3>2. cut - (p + 1) + 1 = cut - p
      BY <3>1
    <3>3. QED
      BY <2>1, <3>1, <3>2, Zenon
  <2>3. \A i \in 1..(cut - p) : (p + 1) + i - 1 = p + i
    BY <1>1
  <2>4. QED
    BY <2>1, <2>2, <2>3
<1>5. Stretch(l, p, n, t) /\ Bounded(w, n) /\ Numbered(u, m, t)
  BY DEF ShapedSegment
<1>6. f.response = b /\ f.turns = u /\ f.bounds = w
  OBVIOUS
<1> HIDE DEF f, a, b, p, l, u, w
<1>7. Ending(b, 0, n)
  <2>1. cut - p - 0 \in {3 * n - 2, 3 * n - 1}
    <3>1. 3 * n \in Int /\ cut - p - 0 \in Int /\ cut - p <= Len(l) - p
      BY <1>1
    <3>2. QED
      BY <1>1, <3>1
  <2>2. Len(b) - 0 = cut - p - 0
    BY <1>4
  <2>3. QED
    BY <1>4, <2>1, <2>2 DEF Ending
<1>8. Stretch(b, 0, n, t)
  <2>1. ASSUME NEW i \in 1..n
        PROVE  b[0 + 3 * i - 2].kind = "actor" /\ b[0 + 3 * i - 2].turn = t + i - 1
    <3>1. 0 + 3 * i - 2 \in 1..(cut - p) /\ p + (0 + 3 * i - 2) = p + 3 * i - 2
      BY <1>1
    <3>2. b[0 + 3 * i - 2] = l[p + 3 * i - 2]
      BY <1>4, <3>1
    <3>3. QED
      BY <1>5, <3>2 DEF Stretch
  <2>2. ASSUME NEW j \in (0 + 1)..Len(b), b[j].kind = "actor"
        PROVE  \E i \in 1..n : j = 0 + 3 * i - 2
    <3>1. j \in 1..(cut - p) /\ p + j \in (p + 1)..Len(l)
      BY <1>1, <1>4
    <3>2. b[j] = l[p + j]
      BY <1>4, <3>1
    <3>3. PICK i \in 1..n : p + j = p + 3 * i - 2
      BY <1>5, <2>2, <3>1, <3>2 DEF Stretch
    <3>4. j = 0 + 3 * i - 2
      BY <1>1, <3>1, <3>3
    <3>5. QED
      BY <3>4
  <2>3. QED
    BY <2>1, <2>2 DEF Stretch
<1>9. QED
  BY <1>3, <1>5, <1>6, <1>7, <1>8 DEF ShapedRecord

\* One more element.
GrownBy(s, x, u) ==
    /\ IsSeq(u) /\ Len(s) \in Nat /\ Len(u) = Len(s) + 1
    /\ u[Len(s) + 1] = x /\ \A i \in 1..Len(s) : u[i] = s[i]

LEMMA OneMore ==
    ASSUME NEW s, IsSeq(s), NEW x, NEW u, u = Append(s, x)
    PROVE  GrownBy(s, x, u)
<1>1. IsSeq(u) /\ Len(s) \in Nat /\ Len(u) = Len(s) + 1
  BY Appended
<1>2. u[Len(s) + 1] = x /\ \A i \in 1..Len(s) : u[i] = s[i]
  BY Appended
<1>3. QED
  BY <1>1, <1>2 DEF GrownBy

\* A stretch that grows by something without loss.
LEMMA QuietStretch ==
    ASSUME NEW l, IsSeq(l), NEW p \in Nat, NEW n \in Nat \ {0}, NEW t \in Nat,
           Len(l) - p \in {3 * n - 2, 3 * n - 1}, Stretch(l, p, n, t),
           NEW x, x.kind # "actor", NEW k, k = Append(l, x)
    PROVE  Stretch(k, p, n, t)
<1>1. /\ IsSeq(k) /\ Len(l) \in Nat /\ Len(k) = Len(l) + 1
      /\ k[Len(l) + 1] = x /\ \A i \in 1..Len(l) : k[i] = l[i]
  <2>1. GrownBy(l, x, k)
    BY OneMore
  <2>2. QED
    BY <2>1 DEF GrownBy
<1>2. ASSUME NEW i \in 1..n
      PROVE  k[p + 3 * i - 2].kind = "actor" /\ k[p + 3 * i - 2].turn = t + i - 1
  <2>1. p + 3 * i - 2 \in 1..Len(l)
    BY <1>1
  <2>2. k[p + 3 * i - 2] = l[p + 3 * i - 2]
    BY <1>1, <2>1
  <2>3. QED
    BY <2>2 DEF Stretch
<1>3. ASSUME NEW j \in (p + 1)..Len(k), k[j].kind = "actor"
      PROVE  \E i \in 1..n : j = p + 3 * i - 2
  <2>1. j # Len(l) + 1
    BY <1>1, <1>3
  <2>2. j \in (p + 1)..Len(l) /\ j \in 1..Len(l)
    BY <1>1, <2>1
  <2>3. l[j].kind = "actor"
    BY <1>1, <1>3, <2>2
  <2>4. QED
    BY <2>2, <2>3 DEF Stretch
<1>4. QED
  BY <1>2, <1>3 DEF Stretch

\* A stretch that ends with the observation of its n-th turn, or with what the
\* actor wrote in it.
EndsAtRest(l, p, n, t) == IsSeq(l) /\ Len(l) - p = 3 * n - 1 /\ Stretch(l, p, n, t)
EndsWithActor(l, p, n, t) == IsSeq(l) /\ Len(l) - p = 3 * n - 2 /\ Stretch(l, p, n, t)

\* The marker of the next turn and what the actor writes after it.
LEMMA LongerStretch ==
    ASSUME NEW p \in Nat, NEW n \in Nat \ {0}, NEW t \in Nat,
           NEW l, EndsAtRest(l, p, n, t),
           NEW x, x.kind # "actor", NEW y, y.kind = "actor", NEW e, e = t + n, y.turn = e,
           NEW k, k = Append(Append(l, x), y)
    PROVE  EndsWithActor(k, p, n + 1, t)
<1> DEFINE h == Append(l, x)
<1>0. IsSeq(l) /\ Len(l) - p = 3 * n - 1 /\ Stretch(l, p, n, t)
  BY DEF EndsAtRest
<1>1. /\ IsSeq(h) /\ Len(l) \in Nat /\ Len(h) = Len(l) + 1
      /\ h[Len(l) + 1] = x /\ \A i \in 1..Len(l) : h[i] = l[i]
  <2>1. GrownBy(l, x, h)
    BY <1>0, OneMore
  <2>2. QED
    BY <2>1 DEF GrownBy
<1> HIDE DEF h
<1>2. k = Append(h, y)
  BY DEF h
<1>3. /\ IsSeq(k) /\ Len(k) = Len(h) + 1 /\ k[Len(h) + 1] = y
      /\ \A i \in 1..Len(h) : k[i] = h[i]
  <2>1. GrownBy(h, y, k)
    BY <1>1, <1>2, OneMore
  <2>2. QED
    BY <2>1 DEF GrownBy
<1>4. /\ Len(k) = Len(l) + 2 /\ k[Len(l) + 1] = x /\ k[Len(l) + 2] = y
      /\ \A i \in 1..Len(l) : k[i] = l[i]
  BY <1>1, <1>3
<1>5. Len(l) = p + 3 * n - 1
  BY <1>0, <1>1
<1>6. ASSUME NEW i \in 1..(n + 1)
      PROVE  k[p + 3 * i - 2].kind = "actor" /\ k[p + 3 * i - 2].turn = t + i - 1
  <2>1. CASE i \in 1..n
    <3>1. p + 3 * i - 2 \in 1..Len(l)
      BY <1>1, <1>5, <2>1
    <3>2. k[p + 3 * i - 2] = l[p + 3 * i - 2]
      BY <1>4, <3>1
    <3>3. QED
      BY <1>0, <2>1, <3>2 DEF Stretch
  <2>2. CASE i = n + 1
    <3>1. p + 3 * i - 2 = Len(l) + 2 /\ t + i - 1 = t + n
      BY <1>5, <2>2
    <3>2. QED
      BY <1>4, <3>1
  <2>3. i \in 1..n \/ i = n + 1
    OBVIOUS
  <2>4. QED
    BY <2>1, <2>2, <2>3, Zenon
<1>7. ASSUME NEW j \in (p + 1)..Len(k), k[j].kind = "actor"
      PROVE  \E i \in 1..(n + 1) : j = p + 3 * i - 2
  <2>1. j # Len(l) + 1
    BY <1>4, <1>7
  <2>2. CASE j = Len(l) + 2
    <3>1. j = p + 3 * (n + 1) - 2 /\ n + 1 \in 1..(n + 1)
      BY <1>5, <2>2
    <3>2. QED
      BY <3>1
  <2>3. CASE j # Len(l) + 2
    <3>1. j \in (p + 1)..Len(l) /\ j \in 1..Len(l)
      BY <1>1, <1>4, <2>1, <2>3
    <3>2. l[j].kind = "actor"
      BY <1>4, <1>7, <3>1
    <3>3. PICK i \in 1..n : j = p + 3 * i - 2
      BY <1>0, <3>1, <3>2 DEF Stretch
    <3>4. i \in 1..(n + 1)
      OBVIOUS
    <3>5. QED
      BY <3>3, <3>4
  <2>4. QED
    BY <2>2, <2>3
<1>8. Len(k) - p = 3 * (n + 1) - 2
  BY <1>4, <1>5
<1>9. QED
  BY <1>3, <1>6, <1>7, <1>8 DEF Stretch, EndsWithActor

\* The first message of a fragment, behind a prompt that ends with its marker.
LEMMA FirstStretch ==
    ASSUME NEW h, IsSeq(h), NEW y, y.kind = "actor", NEW t \in Nat, y.turn = t,
           NEW k, k = Append(h, y), NEW p, p = Len(h)
    PROVE  EndsWithActor(k, p, 1, t)
<1>1. IsSeq(k) /\ p \in Nat /\ Len(k) = p + 1 /\ k[p + 1] = y
  <2>1. GrownBy(h, y, k)
    BY OneMore
  <2>2. QED
    BY <2>1 DEF GrownBy
<1>2. \A i \in 1..1 : i = 1 /\ p + 3 * i - 2 = p + 1 /\ t + i - 1 = t
  BY <1>1
<1>3. \A j \in (p + 1)..Len(k) : j = p + 3 * 1 - 2
  BY <1>1
<1>4. 1 \in 1..1
  OBVIOUS
<1>5. \A i \in 1..1 : k[p + 3 * i - 2].kind = "actor" /\ k[p + 3 * i - 2].turn = t + i - 1
  BY <1>1, <1>2
<1>6. \A j \in (p + 1)..Len(k) : k[j].kind = "actor" => \E i \in 1..1 : j = p + 3 * i - 2
  BY <1>3, <1>4
<1>7. QED
  BY <1>1, <1>5, <1>6 DEF Stretch, EndsWithActor

LEMMA NextBound ==
    ASSUME NEW n \in Nat \ {0}, NEW b, Bounded(b, n), NEW c,
           NEW k, k = 3 * n - 1, c = Append(b, k)
    PROVE  Bounded(c, n + 1)
<1>0. IsSeq(b) /\ Len(b) = n /\ \A i \in 1..n : b[i] = Place(i)
  BY DEF Bounded
<1>1. /\ IsSeq(c) /\ Len(c) = n + 1 /\ c[n + 1] = k
      /\ \A i \in 1..n : c[i] = b[i] /\ b[i] = Place(i)
  <2>1. GrownBy(b, k, c)
    BY <1>0, OneMore
  <2>2. QED
    BY <1>0, <2>1 DEF GrownBy
<1>2. Place(n + 1) = k
  BY DEF Place
<1>3. \A i \in 1..(n + 1) : c[i] = Place(i)
  <2> SUFFICES ASSUME NEW i \in 1..(n + 1) PROVE c[i] = Place(i)
    OBVIOUS
  <2>1. i \in 1..n \/ i = n + 1
    OBVIOUS
  <2>2. QED
    BY <1>1, <1>2, <2>1
<1>4. QED
  BY <1>1, <1>3 DEF Bounded

LEMMA NextNumber ==
    ASSUME NEW m \in Nat, NEW t \in Nat, NEW u, Numbered(u, m, t),
           NEW x, x = t + m, NEW w, w = Append(u, x)
    PROVE  Numbered(w, m + 1, t)
<1>0. IsSeq(u) /\ Len(u) = m /\ \A i \in 1..m : u[i] = t + i - 1
  BY DEF Numbered
<1>1. /\ IsSeq(w) /\ Len(w) = m + 1 /\ w[m + 1] = x
      /\ \A i \in 1..m : w[i] = u[i] /\ u[i] = t + i - 1
  <2>1. GrownBy(u, x, w)
    BY <1>0, OneMore
  <2>2. QED
    BY <1>0, <2>1 DEF GrownBy
<1>2. \A i \in 1..(m + 1) : w[i] = t + i - 1
  <2> SUFFICES ASSUME NEW i \in 1..(m + 1) PROVE w[i] = t + i - 1
    OBVIOUS
  <2>1. i \in 1..m \/ (i = m + 1 /\ t + i - 1 = x)
    OBVIOUS
  <2>2. QED
    BY <1>1, <2>1
<1>3. QED
  BY <1>1, <1>2 DEF Numbered

\* A fragment whose turns were all closed, e of them so far, and one that the
\* end of the rollout closed during its last turn.
Complete(f, e) ==
    \E n \in Nat \ {0}, t \in Nat : ShapedRecord(f, n, n, t) /\ t + n <= e
Broken(f, e) ==
    \E n \in Nat \ {0}, t \in Nat : ShapedRecord(f, n, n - 1, t) /\ t + n = e + 1

AllComplete(r) == \A k \in DOMAIN r.records : Complete(r.records[k], Len(r.past))

\* Between two turns, during one, and at the end of the rollout.
RestsAt(r, n, t) ==
    /\ ShapedSegment(r, n, n, t) /\ t + n = Len(r.past)
    /\ Len(r.ledger) - r.segment.prompt = 3 * n - 1
ActsAt(r, n, t) ==
    /\ ShapedSegment(r, n, n - 1, t) /\ t + n = Len(r.past) + 1
    /\ Len(r.ledger) - r.segment.prompt = 3 * n - 2
AtRest(r) ==
    /\ AllComplete(r)
    /\ Open(r) => \E n \in Nat \ {0}, t \in Nat : RestsAt(r, n, t)
MidTurn(r) ==
    /\ AllComplete(r)
    /\ Open(r) /\ \E n \in Nat \ {0}, t \in Nat : ActsAt(r, n, t)
Ended(r) ==
    /\ ~Open(r)
    /\ \A k \in DOMAIN r.records :
         Complete(r.records[k], Len(r.past)) \/ Broken(r.records[k], Len(r.past))

\* A property of the fragments and of one more.
LEMMA OneMoreRecord ==
    ASSUME NEW s, IsSeq(s), NEW e, NEW f, NEW u, u = Append(s, f),
           \A k \in DOMAIN s : Complete(s[k], e)
    PROVE  /\ Complete(f, e) => \A k \in DOMAIN u : Complete(u[k], e)
           /\ Broken(f, e) => \A k \in DOMAIN u : Complete(u[k], e) \/ Broken(u[k], e)
<1>1. GrownBy(s, f, u)
  BY OneMore
<1>2. DOMAIN s = 1..Len(s) /\ DOMAIN u = 1..(Len(s) + 1)
  BY <1>1, SequenceFacts DEF GrownBy
<1>3. ASSUME NEW k \in DOMAIN u PROVE u[k] = f \/ Complete(u[k], e)
  <2>1. k = Len(s) + 1 \/ k \in 1..Len(s)
    BY <1>1, <1>2 DEF GrownBy
  <2>2. QED
    BY <1>1, <1>2, <2>1 DEF GrownBy
<1>4. QED
  BY <1>3

LEMMA CleanupRests ==
    ASSUME NEW r, IsRequest(r), Closable(r), AtRest(r),
           NEW c, c = r \/ IsCleaned(r, c), Len(c.past) = Len(r.past)
    PROVE  AtRest(c)
<1>1. CASE c = r
  BY <1>1
<1>2. CASE IsCleaned(r, c)
  <2> DEFINE cut == FragmentEnd(r)
             d == CloseFragment(r, cut)
             e == Len(r.past)
  <2>1. PICK l, p : c = [d EXCEPT !.ledger = l, !.past = p]
    BY <1>2 DEF IsCleaned
  <2>2. IsRequest(d) /\ d.segment = NoSegment
    BY ClosedFields
  <2> HIDE DEF d
  <2>3. c.records = d.records /\ c.segment = NoSegment
    BY <2>1, <2>2 DEF IsRequest, Fields
  <2>4. ~Open(c)
    BY <2>3 DEF Open
  <2>5. IsSeq(r.records) /\ \A k \in DOMAIN r.records : Complete(r.records[k], e)
    BY DEF AtRest, AllComplete, IsRequest
  <2>6. \A k \in DOMAIN d.records : Complete(d.records[k], e)
    <3>1. CASE ~Open(r)
      <4>1. d.records = r.records
        BY <3>1, NothingClosed DEF d
      <4>2. QED
        BY <2>5, <4>1
    <3>2. CASE Open(r)
      <4>1. PICK n \in Nat \ {0}, t \in Nat : RestsAt(r, n, t)
        BY <3>2 DEF AtRest
      <4>2. cut \in 0..Len(r.ledger) /\ \A i \in Live(r) : i <= cut
        BY <3>2, CutIsBehindTargets
      <4>3. cut >= r.segment.prompt + 3 * n - 2
        <5>1. r.segment.prompt \in Nat /\ Len(r.ledger) \in Nat
              /\ DOMAIN r.ledger = 1..Len(r.ledger)
          BY <3>2, SequenceFacts DEF Closable, Placed, IsRequest
        <5>2. n \in 1..n
          OBVIOUS
        <5>3. r.ledger[r.segment.prompt + 3 * n - 2].kind = "actor"
          BY <4>1, <5>2 DEF RestsAt, ShapedSegment, Stretch
        <5>4. Len(r.ledger) = r.segment.prompt + 3 * n - 1
          BY <4>1, <5>1 DEF RestsAt
        <5>5. /\ r.segment.prompt + 3 * n - 2 \in 1..Len(r.ledger)
              /\ r.segment.prompt + 3 * n - 2 > r.segment.prompt
          BY <5>1, <5>4
        <5>6. r.segment.prompt + 3 * n - 2 \in Live(r)
          BY <3>2, <5>1, <5>3, <5>5 DEF Live
        <5>7. r.segment.prompt + 3 * n - 2 <= cut
          BY <4>2, <5>6
        <5>8. QED
          BY <4>2, <5>1, <5>7
      <4>4. ShapedSegment(r, n, n, t) /\ t + n <= e
        BY <4>1 DEF RestsAt
      <4>5. Placed(r)
        BY DEF Closable
      <4>6. PICK f : d.records = Append(r.records, f) /\ ShapedRecord(f, n, n, t)
        <5> HIDE DEF cut
        <5>1. QED
          BY <3>2, <4>2, <4>3, <4>4, <4>5, ClosedShape DEF d
      <4>7. Complete(f, e)
        BY <4>4, <4>6 DEF Complete
      <4> HIDE DEF e
      <4>8. QED
        BY <2>5, <4>6, <4>7, OneMoreRecord
    <3>3. QED
      BY <3>1, <3>2
  <2>7. QED
    BY <2>3, <2>4, <2>6 DEF AtRest, AllComplete
<1>3. QED
  BY <1>1, <1>2

\* The end of the rollout closes what is open.
LEMMA FinalizeEnds ==
    ASSUME NEW r, IsRequest(r), Placed(r), AtRest(r) \/ MidTurn(r),
           NEW c, c = CloseFragment(r, Len(r.ledger))
    PROVE  Ended(c)
<1> DEFINE e == Len(r.past)
<1>1. IsRequest(c) /\ c.segment = NoSegment /\ c.past = r.past
  BY ClosedFields
<1>2. ~Open(c)
  BY <1>1 DEF Open
<1>3. IsSeq(r.records) /\ \A k \in DOMAIN r.records : Complete(r.records[k], e)
  BY DEF AtRest, MidTurn, AllComplete, IsRequest
<1>4. \A k \in DOMAIN c.records : Complete(c.records[k], e) \/ Broken(c.records[k], e)
  <2>1. CASE ~Open(r)
    <3>1. c.records = r.records
      BY <2>1, NothingClosed
    <3>2. QED
      BY <1>3, <3>1
  <2>2. CASE Open(r)
    <3>1. Len(r.ledger) \in 0..Len(r.ledger) /\ Len(r.ledger) \in Nat
          /\ r.segment.prompt \in Nat
      BY <2>2, SequenceFacts DEF IsRequest, Placed
    <3>2. CASE AtRest(r)
      <4>1. PICK n \in Nat \ {0}, t \in Nat : RestsAt(r, n, t)
        BY <2>2, <3>2 DEF AtRest
      <4>2. /\ ShapedSegment(r, n, n, t) /\ t + n <= e
            /\ Len(r.ledger) >= r.segment.prompt + 3 * n - 2
        BY <3>1, <4>1 DEF RestsAt
      <4>3. PICK f : c.records = Append(r.records, f) /\ ShapedRecord(f, n, n, t)
        BY <2>2, <3>1, <4>2, ClosedShape
      <4>4. Complete(f, e)
        BY <4>2, <4>3 DEF Complete
      <4> HIDE DEF e
      <4>5. QED
        BY <1>3, <4>3, <4>4, OneMoreRecord
    <3>3. CASE MidTurn(r)
      <4>1. PICK n \in Nat \ {0}, t \in Nat : ActsAt(r, n, t)
        BY <3>3 DEF MidTurn
      <4>2. /\ ShapedSegment(r, n, n - 1, t) /\ t + n = e + 1
            /\ Len(r.ledger) >= r.segment.prompt + 3 * n - 2
        BY <3>1, <4>1 DEF ActsAt
      <4> DEFINE m == n - 1
      <4>3. PICK f : c.records = Append(r.records, f) /\ ShapedRecord(f, n, m, t)
        <5>1. ShapedSegment(r, n, m, t)
          BY <4>2
        <5> HIDE DEF m
        <5>2. QED
          BY <2>2, <3>1, <4>2, <5>1, ClosedShape
      <4>4. Broken(f, e)
        BY <4>2, <4>3 DEF Broken
      <4> HIDE DEF e
      <4>5. QED
        BY <1>3, <4>3, <4>4, OneMoreRecord
    <3>4. QED
      BY <3>2, <3>3
  <2>3. QED
    BY <2>1, <2>2
<1>5. QED
  BY <1>1, <1>2, <1>4 DEF Ended

\* The actor's turn, behind the turns of the open fragment or first in its own.
LEMMA TurnActs ==
    ASSUME NEW d, IsRequest(d), Placed(d), AtRest(d), NEW k, k = Len(d.past), NEW size,
           NEW r, r = OpenTurn(d, k),
           NEW q, q.ledger = Append(r.ledger, Span("actor", k, size)),
           q.segment = r.segment, q.records = r.records, q.past = r.past
    PROVE  MidTurn(q)
<1> DEFINE x == Marker(k)
           y == Span("actor", k, size)
           w == OpenTurn(d, k)
<1>1. /\ IsRequest(w) /\ Open(w)
      /\ w.ledger = Append(d.ledger, Marker(k)) /\ w.records = d.records /\ w.past = d.past
      /\ w.segment.bounds = IF Open(d)
           THEN Append(d.segment.bounds, Len(d.ledger) - d.segment.prompt)
           ELSE <<0>>
      /\ w.segment.prompt = IF Open(d) THEN d.segment.prompt ELSE Len(d.ledger) + 1
      /\ w.segment.turns = IF Open(d) THEN d.segment.turns ELSE <<>>
  BY OpenTurnKeeps
<1>2. r = w
  OBVIOUS
<1>3. x.kind # "actor" /\ y.kind = "actor" /\ y.turn = k
  BY DEF Marker, Span
<1> HIDE DEF w, x, y
<1>4. /\ Open(q) /\ q.records = d.records /\ q.past = d.past
      /\ q.ledger = Append(Append(d.ledger, x), y)
      /\ q.segment.prompt = IF Open(d) THEN d.segment.prompt ELSE Len(d.ledger) + 1
      /\ q.segment.turns = IF Open(d) THEN d.segment.turns ELSE <<>>
      /\ q.segment.bounds = IF Open(d)
           THEN Append(d.segment.bounds, Len(d.ledger) - d.segment.prompt)
           ELSE <<0>>
  BY <1>1, <1>2 DEF Open, x, y
<1>5. AllComplete(q)
  BY <1>4 DEF AtRest, AllComplete
<1>6. k \in Nat /\ IsSeq(d.ledger)
  BY SequenceFacts DEF IsRequest
<1>7. CASE Open(d)
  <2>1. PICK n \in Nat \ {0}, t \in Nat : RestsAt(d, n, t)
    BY <1>7 DEF AtRest
  <2> DEFINE l == d.ledger
             p == d.segment.prompt
             h == q.ledger
  <2>2. /\ p \in Nat /\ IsSeq(l) /\ Len(l) - p = 3 * n - 1 /\ Stretch(l, p, n, t)
        /\ k = t + n /\ Bounded(d.segment.bounds, n) /\ Numbered(d.segment.turns, n, t)
    BY <1>6, <1>7, <2>1 DEF Placed, RestsAt, ShapedSegment
  <2>3. h = Append(Append(l, x), y)
    BY <1>4
  <2>4. /\ q.segment.prompt = p /\ q.segment.turns = d.segment.turns
        /\ q.segment.bounds = Append(d.segment.bounds, 3 * n - 1)
    BY <1>4, <1>7, <2>2
  <2> HIDE DEF l, p, h
  <2>5. IsSeq(h) /\ Len(h) - p = 3 * (n + 1) - 2 /\ Stretch(h, p, n + 1, t)
    <3>1. EndsAtRest(l, p, n, t)
      BY <2>2 DEF EndsAtRest
    <3>2. EndsWithActor(h, p, n + 1, t)
      BY <1>3, <2>2, <2>3, <3>1, LongerStretch
    <3>3. QED
      BY <3>2 DEF EndsWithActor
  <2>6. Bounded(q.segment.bounds, n + 1)
    <3> DEFINE j == 3 * n - 1
               c == q.segment.bounds
               b == d.segment.bounds
    <3>1. c = Append(b, j) /\ Bounded(b, n)
      BY <2>2, <2>4
    <3> HIDE DEF b, c
    <3>2. Bounded(c, n + 1)
      BY <3>1, NextBound
    <3>3. QED
      BY <3>2 DEF c
  <2>7. ShapedSegment(q, n + 1, (n + 1) - 1, t)
    <3>1. Ending(h, p, n + 1)
      BY <2>5 DEF Ending
    <3>2. (n + 1) - 1 = n
      OBVIOUS
    <3>3. Numbered(q.segment.turns, (n + 1) - 1, t)
      BY <2>2, <2>4, <3>2
    <3>4. QED
      BY <2>4, <2>5, <2>6, <3>1, <3>3 DEF ShapedSegment, h
  <2>8. t + (n + 1) = Len(q.past) + 1
    BY <1>4, <1>6, <2>2
  <2>9. Len(q.ledger) - q.segment.prompt = 3 * (n + 1) - 2
    BY <2>4, <2>5 DEF h
  <2>10. ActsAt(q, n + 1, t) /\ n + 1 \in Nat \ {0}
    BY <2>7, <2>8, <2>9 DEF ActsAt
  <2>11. QED
    BY <1>4, <1>5, <2>10 DEF MidTurn
<1>8. CASE ~Open(d)
  <2> DEFINE g == Append(d.ledger, x)
             h == q.ledger
             p == q.segment.prompt
  <2>1. IsSeq(g) /\ Len(g) = Len(d.ledger) + 1
    BY <1>6, AppendFacts
  <2>2. /\ h = Append(g, y) /\ p = Len(g)
        /\ q.segment.turns = <<>> /\ q.segment.bounds = <<0>>
    BY <1>4, <1>8, <2>1
  <2> HIDE DEF g, h, p
  <2>3. IsSeq(h) /\ Len(h) - p = 3 * 1 - 2 /\ Stretch(h, p, 1, k)
    <3>1. EndsWithActor(h, p, 1, k)
      BY <1>3, <1>6, <2>1, <2>2, FirstStretch
    <3>2. QED
      BY <3>1 DEF EndsWithActor
  <2>4. Bounded(q.segment.bounds, 1)
    <3>1. <<0>> \in Seq(Nat) /\ Len(<<0>>) = 1 /\ <<0>>[1] = 0 /\ Place(1) = 0
      BY DEF Place
    <3>2. IsSeq(q.segment.bounds)
      BY <2>2, <3>1 DEF IsSeq
    <3>3. QED
      BY <2>2, <3>1, <3>2 DEF Bounded
  <2>5. Numbered(q.segment.turns, 1 - 1, k)
    BY <2>2, EmptyIsSeq DEF Numbered
  <2>6. Ending(h, p, 1)
    BY <2>3 DEF Ending
  <2>7. ShapedSegment(q, 1, 1 - 1, k)
    BY <2>3, <2>4, <2>5, <2>6 DEF ShapedSegment, h, p
  <2>8. k + 1 = Len(q.past) + 1
    BY <1>4
  <2>9. Len(q.ledger) - q.segment.prompt = 3 * 1 - 2
    BY <2>3 DEF h, p
  <2>10. ActsAt(q, 1, k)
    BY <2>7, <2>8, <2>9 DEF ActsAt
  <2>11. QED
    BY <1>4, <1>5, <1>6, <2>10 DEF MidTurn
<1>9. QED
  BY <1>7, <1>8

\* A fragment complete so far stays so when more turns are closed.
LEMMA StaysComplete ==
    ASSUME NEW f, NEW e \in Nat, Complete(f, e)
    PROVE  Complete(f, e + 1)
<1>1. PICK n \in Nat \ {0}, t \in Nat : ShapedRecord(f, n, n, t) /\ t + n <= e
  BY DEF Complete
<1>2. t + n <= e + 1
  BY <1>1
<1>3. QED
  BY <1>1, <1>2 DEF Complete

\* complete_turn closes the turn the actor has just taken.
LEMMA TurnRests ==
    ASSUME NEW r, IsRequest(r), Placed(r), MidTurn(r),
           NEW k, k = Len(r.past), NEW calls, NEW size,
           NEW c, c = CompleteTurn(r, k, calls, size), Len(c.past) = k + 1
    PROVE  AtRest(c)
<1> DEFINE x == Span("tool", k, size)
           w == CompleteTurn(r, k, calls, size)
<1>0. Open(r)
  BY DEF MidTurn
<1>1. /\ IsRequest(w) /\ Open(w) /\ w.ledger = Append(r.ledger, Span("tool", k, size))
      /\ w.records = r.records /\ w.segment.prompt = r.segment.prompt
      /\ w.segment.bounds = r.segment.bounds
      /\ w.segment.turns = Append(r.segment.turns, k)
  BY <1>0, CompleteTurnKeeps
<1>2. x.kind # "actor"
  BY DEF Span
<1> HIDE DEF w
<1>3. /\ Open(c) /\ c.ledger = Append(r.ledger, x)
      /\ c.records = r.records /\ c.segment.prompt = r.segment.prompt
      /\ c.segment.bounds = r.segment.bounds
      /\ c.segment.turns = Append(r.segment.turns, k)
  BY <1>1 DEF w
<1> HIDE DEF x
<1>4. k \in Nat /\ IsSeq(r.ledger) /\ r.segment.prompt \in Nat
  BY <1>0, SequenceFacts DEF IsRequest, Placed
<1>5. AllComplete(c)
  <2>1. \A j \in DOMAIN r.records : Complete(r.records[j], k)
    BY DEF MidTurn, AllComplete
  <2>2. \A j \in DOMAIN r.records : Complete(r.records[j], k + 1)
    BY <1>4, <2>1, StaysComplete
  <2>3. QED
    BY <1>3, <2>2 DEF AllComplete
<1>6. PICK n \in Nat \ {0}, t \in Nat : ActsAt(r, n, t)
  BY DEF MidTurn
<1> DEFINE l == r.ledger
           p == r.segment.prompt
           h == c.ledger
           m == n - 1
           u == r.segment.turns
           v == c.segment.turns
<1>7. /\ Len(l) - p = 3 * n - 2 /\ Len(l) - p \in {3 * n - 2, 3 * n - 1}
      /\ Stretch(l, p, n, t) /\ Bounded(r.segment.bounds, n)
      /\ Numbered(u, m, t) /\ m \in Nat /\ k = t + m /\ m + 1 = n
  BY <1>4, <1>6 DEF ActsAt, ShapedSegment
<1>8. IsSeq(l) /\ p \in Nat /\ h = Append(l, x) /\ v = Append(u, k)
  BY <1>3, <1>4
<1>9. c.segment.prompt = p /\ c.segment.bounds = r.segment.bounds
  BY <1>3
<1> HIDE DEF l, p, h, m, u, v
<1>10. Stretch(h, p, n, t)
  BY <1>2, <1>7, <1>8, QuietStretch
<1>11. Numbered(v, m + 1, t)
  BY <1>7, <1>8, NextNumber
<1>12. IsSeq(h) /\ Len(h) = Len(l) + 1 /\ Len(l) \in Nat
  BY <1>8, AppendFacts, SequenceFacts
<1>13. Len(h) - p = 3 * n - 1
  BY <1>7, <1>8, <1>12
<1>14. Ending(h, p, n)
  BY <1>12, <1>13 DEF Ending
<1>15. ShapedSegment(c, n, n, t)
  <2>1. Numbered(v, n, t)
    BY <1>7, <1>11
  <2>2. QED
    BY <1>7, <1>9, <1>10, <1>14, <2>1 DEF ShapedSegment, h, v
<1>16. t + n = Len(c.past)
  BY <1>4, <1>7
<1>17. RestsAt(c, n, t)
  BY <1>9, <1>13, <1>15, <1>16 DEF RestsAt, h
<1>18. QED
  BY <1>5, <1>17 DEF AtRest

\* The inductive invariant: every fragment holds consecutive turns, each in its
\* own stretch; only the end of the rollout closes one during a turn.
UnitInv ==
    /\ CreditInv
    /\ phase = "next" => AtRest(req)
    /\ phase = "tools" => MidTurn(req)
    /\ phase = "done" => /\ Ended(req)
                         /\ Len(req.past) \in {Len(given), Len(given) - 1}

LEMMA GenerateUnits ==
    ASSUME NEW works, UnitInv, Generate(works)
    PROVE  UnitInv'
<1> DEFINE n == Len(given)
           force == FALSE
           needs == TRUE
           d == Cleanup(req, force, needs, works)
           r == OpenTurn(d, n)
<1>1. /\ CreditInv /\ IsRequest(req) /\ Closable(req) /\ Grouped(req, aspect)
      /\ AsGenerated(req, given) /\ InOrder(req, n) /\ n \in Nat
      /\ Len(req.past) = n /\ AtRest(req)
  <2>1. phase = "next"
    BY DEF Generate
  <2>2. CreditInv /\ MemInv /\ SegInv /\ AtRest(req)
    BY <2>1 DEF UnitInv, CreditInv, MemInv
  <2>3. Remembers(req, n, aspect) /\ Len(req.past) = n
    BY <2>1, <2>2 DEF MemInv
  <2>4. /\ IsRequest(req) /\ Closable(req) /\ AsGenerated(req, given) /\ InOrder(req, n)
        /\ n \in Nat
    BY <2>1, <2>2, SequenceFacts DEF SegInv
  <2>5. QED
    BY <2>2, <2>3, <2>4 DEF Remembers
<1>2. IsRequest(d) /\ Placed(d)
  <2> HIDE DEF n
  <2>1. QED
    BY <1>1, CleanupKeeps DEF Closable
<1>3. SameTurns(d.past, req.past) /\ (d = req \/ IsCleaned(req, d))
  <2> HIDE DEF d
  <2>1. d = Cleanup(req, force, needs, works)
    BY DEF d
  <2> HIDE DEF force, needs
  <2>2. SameTurns(d.past, req.past)
    BY <1>1, <2>1, CleanupKeepsTurns
  <2>3. d = req \/ IsCleaned(req, d)
    BY <1>1, <2>1, CleanupEffect
  <2>4. QED
    BY <2>2, <2>3
<1> HIDE DEF d
<1>4. AtRest(d) /\ Len(d.past) = n
  <2>1. Len(d.past) = Len(req.past)
    BY <1>3 DEF SameTurns
  <2>2. AtRest(d)
    BY <1>1, <1>3, <2>1, CleanupRests
  <2>3. QED
    BY <1>1, <2>1, <2>2
<1>5. IsRequest(r)
  BY <1>2, OpenTurnKeeps
<1>6. PICK size : /\ req' = [r EXCEPT
                       !.ledger = Append(r.ledger, Span("actor", n, size)),
                       !.archive = r.archive \o <<Marker(n), Span("actor", n, size)>>]
                  /\ phase' = "tools"
  BY Zenon DEF Generate, d
<1>7. r = OpenTurn(d, n)
  OBVIOUS
<1> HIDE DEF r
<1>8. /\ req'.ledger = Append(r.ledger, Span("actor", n, size))
      /\ req'.segment = r.segment /\ req'.records = r.records /\ req'.past = r.past
  BY <1>5, <1>6 DEF IsRequest, Fields
<1>9. MidTurn(req')
  <2> DEFINE q == req'
             k == n
  <2>1. /\ q.ledger = Append(r.ledger, Span("actor", k, size))
        /\ q.segment = r.segment /\ q.records = r.records /\ q.past = r.past
        /\ k = Len(d.past) /\ r = OpenTurn(d, k)
    BY <1>4, <1>7, <1>8
  <2> HIDE DEF q, k
  <2>2. MidTurn(q)
    BY <1>2, <1>4, <2>1, TurnActs
  <2>3. QED
    BY <2>2 DEF q
<1>10. CreditInv'
  BY <1>1, GenerateInTurn
<1>11. QED
  BY <1>6, <1>9, <1>10 DEF UnitInv

LEMMA RunToolsUnits ==
    ASSUME NEW calls, NEW size, NEW stop, NEW works, UnitInv,
           RunTools(calls, size, stop, works)
    PROVE  UnitInv'
<1> DEFINE n == Len(given)
           k == n - 1
           answered == CompleteTurn(req, k, calls, size)
           force == Tokens(answered.ledger) > MaxModelLen
           needs == ~stop
           r == Cleanup(answered, force, needs, works)
           e == ClosedTurn(req, k, calls)
           b == IF HasAnswer(calls) THEN aspect + 1 ELSE aspect
<1>1. /\ CreditInv /\ MemInv /\ SegInv /\ n \in Nat \ {0} /\ IsSeq(given)
      /\ IsRequest(req) /\ Placed(req) /\ Open(req) /\ MidTurn(req)
      /\ Remembers(req, n, aspect) /\ Len(req.past) = k
      /\ AsGenerated(req, given) /\ InOrder(req, n) /\ InTurn(req.past, aspect)
  <2>1. phase = "tools" /\ CreditInv /\ MemInv /\ SegInv /\ MidTurn(req)
    BY DEF UnitInv, CreditInv, MemInv, RunTools
  <2>2. n \in Nat \ {0} /\ Remembers(req, n, aspect) /\ Len(req.past) = k
    BY <2>1, SequenceFacts DEF MemInv, SegInv
  <2>3. QED
    BY <2>1, <2>2 DEF CreditInv, SegInv
<1>2. CreditInv'
  BY <1>1, RunToolsInTurn
<1>3. /\ IsRequest(answered) /\ Closable(answered)
      /\ answered.past = Append(req.past, e)
      /\ answered.ledger = Append(req.ledger, Span("tool", k, size))
      /\ answered.archive = Append(req.archive, Span("tool", k, size))
      /\ answered.records = req.records /\ Live(answered) = Live(req)
  <2> HIDE DEF k, n
  <2>1. QED
    BY <1>1, CompleteTurnKeeps, CompletedPast
<1>4. calls \in CallsNow /\ UNCHANGED given
  BY DEF RunTools
<1>5. \/ phase' = "invalid"
      \/ phase' = "done" /\ Finalize(r)
      \/ phase' = "next" /\ req' = r
  BY Zenon DEF RunTools, Quarantine
<1>6. answered = CompleteTurn(req, k, calls, size)
  OBVIOUS
<1> HIDE DEF answered, force, k, e, b
<1>7. Len(answered.past) = k + 1 /\ k + 1 = n
  <2>1. IsSeq(req.past)
    BY <1>1 DEF IsRequest
  <2>2. Len(answered.past) = Len(req.past) + 1
    BY <1>3, <2>1, AppendFacts
  <2>3. QED
    BY <1>1, <2>2 DEF k
<1>8. AtRest(answered)
  BY <1>1, <1>6, <1>7, TurnRests
<1>9. aspect \in Nat \ {0} /\ b \in {aspect, aspect + 1}
  BY <1>1 DEF InTurn, b
<1>10. Grouped(answered, b)
  <2>1. /\ Len(calls) = 1 => calls[1].aspect = aspect
        /\ Len(calls) = 1 /\ calls[1].kind \in Answers => b = aspect + 1
    BY <1>4, CallsFacts DEF b
  <2>2. answered.past = Append(req.past, ClosedTurn(req, n - 1, calls))
    BY <1>3 DEF e, k
  <2>3. /\ answered.ledger = Append(req.ledger, Span("tool", n - 1, size))
        /\ answered.archive = Append(req.archive, Span("tool", n - 1, size))
    BY <1>3 DEF k
  <2>4. Len(req.past) = n - 1
    BY <1>1 DEF k
  <2> HIDE DEF n
  <2>5. Remembers(answered, n, b)
    <3>1. /\ IsRequest(req) /\ IsRequest(answered) /\ Remembers(req, n, aspect)
          /\ n \in Nat \ {0} /\ aspect \in Nat \ {0} /\ b \in {aspect, aspect + 1}
      BY <1>1, <1>3, <1>9
    <3>2. QED
      BY <2>1, <2>2, <2>3, <2>4, <3>1, ClosedTurnRemembers
  <2>6. QED
    BY <2>5 DEF Remembers
<1>11. SameTurns(r.past, answered.past) /\ (r = answered \/ IsCleaned(answered, r))
  <2> HIDE DEF r, needs
  <2>1. r = Cleanup(answered, force, needs, works)
    BY DEF r
  <2>2. SameTurns(r.past, answered.past)
    BY <1>3, <1>10, <2>1, CleanupKeepsTurns
  <2>3. r = answered \/ IsCleaned(answered, r)
    BY <1>3, <2>1, CleanupEffect
  <2>4. QED
    BY <2>2, <2>3
<1>12. IsRequest(r) /\ Placed(r)
  <2> HIDE DEF n, needs
  <2>1. AsGenerated(answered, given) /\ InOrder(answered, n)
    BY <1>1, <1>3, QuietGrowth
  <2>2. QED
    BY <1>1, <1>3, <2>1, CleanupKeeps DEF Closable
<1> HIDE DEF r
<1>13. AtRest(r) /\ Len(r.past) = n
  <2>1. Len(r.past) = Len(answered.past)
    BY <1>11 DEF SameTurns
  <2>2. AtRest(r)
    BY <1>3, <1>8, <1>11, <2>1, CleanupRests
  <2>3. QED
    BY <1>7, <2>1, <2>2
<1>14. CASE phase' = "done" /\ Finalize(r)
  <2> DEFINE c == req'
  <2>1. c = CloseFragment(r, Len(r.ledger))
    BY <1>14 DEF Finalize
  <2>2. c.past = r.past
    BY <1>12, <2>1, ClosedFields
  <2> HIDE DEF c
  <2>3. Ended(c)
    BY <1>12, <1>13, <2>1, FinalizeEnds
  <2>4. Len(c.past) = Len(given')
    BY <1>4, <1>13, <2>2
  <2>5. Ended(req') /\ Len(req'.past) = Len(given')
    BY <2>3, <2>4 DEF c
  <2>6. QED
    BY <1>2, <1>14, <2>5 DEF UnitInv
<1>15. CASE phase' = "next" /\ req' = r
  BY <1>2, <1>13, <1>15 DEF UnitInv
<1>16. CASE phase' = "invalid"
  BY <1>2, <1>16 DEF UnitInv
<1>17. QED
  BY <1>5, <1>14, <1>15, <1>16

LEMMA OutOfTurnsUnits == UnitInv /\ OutOfTurns => UnitInv'
<1> SUFFICES ASSUME UnitInv, OutOfTurns PROVE UnitInv'
  OBVIOUS
<1> DEFINE c == req'
<1>1. /\ phase = "tools" /\ phase' = "done" /\ UNCHANGED given
      /\ c = CloseFragment(req, Len(req.ledger))
  BY DEF OutOfTurns, Finalize
<1>2. /\ IsRequest(req) /\ Placed(req) /\ MidTurn(req)
      /\ Len(req.past) = Len(given) - 1
  BY <1>1 DEF UnitInv, CreditInv, MemInv, SegInv
<1>3. CreditInv'
  <2>1. CreditInv /\ Next
    BY DEF UnitInv, Next
  <2>2. QED
    BY <2>1, CreditKept
<1> HIDE DEF c
<1>4. Ended(c) /\ c.past = req.past
  BY <1>1, <1>2, FinalizeEnds, ClosedFields
<1>5. Ended(req') /\ Len(req'.past) = Len(given') - 1
  BY <1>1, <1>2, <1>4 DEF c
<1>6. QED
  BY <1>1, <1>3, <1>5 DEF UnitInv

LEMMA UnitsInvariant == Spec => []UnitInv
<1>1. Init => UnitInv
  <2> SUFFICES ASSUME Init PROVE UnitInv
    OBVIOUS
  <2>1. req = Fresh /\ phase = "next"
    BY DEF Init
  <2>2. AtRest(Fresh)
    <3>1. Fresh.records = <<>> /\ Fresh.segment = NoSegment
      BY DEF Fresh
    <3>2. ~Open(Fresh)
      BY <3>1 DEF Open
    <3>3. AllComplete(Fresh)
      BY <3>1 DEF AllComplete
    <3>4. QED
      BY <3>2, <3>3 DEF AtRest
  <2>3. CreditInv
    BY CreditStarts
  <2>4. QED
    BY <2>1, <2>2, <2>3 DEF UnitInv
<1>2. UnitInv /\ [Next]_vars => UnitInv'
  <2> SUFFICES ASSUME UnitInv, [Next]_vars PROVE UnitInv'
    OBVIOUS
  <2>1. ASSUME NEW works \in BOOLEAN, Generate(works) PROVE UnitInv'
    BY <2>1, GenerateUnits
  <2>2. ASSUME NEW calls \in CallsNow, NEW size \in ToolSizes, NEW stop \in BOOLEAN,
               NEW works \in BOOLEAN, RunTools(calls, size, stop, works)
        PROVE  UnitInv'
    BY <2>2, RunToolsUnits
  <2>3. CASE OutOfTurns
    BY <2>3, OutOfTurnsUnits
  <2>4. CASE Reject
    <3>1. phase' = "invalid"
      BY <2>4 DEF Reject, Quarantine
    <3>2. CreditInv'
      BY <2>4, CreditKept DEF UnitInv, Next
    <3>3. QED
      BY <3>1, <3>2 DEF UnitInv
  <2>5. CASE UNCHANGED vars
    <3>1. CreditInv'
      BY <2>5, CreditKept DEF UnitInv
    <3>2. QED
      BY <2>5, <3>1 DEF UnitInv, vars
  <2>6. QED
    BY <2>1, <2>2, <2>3, <2>4, <2>5 DEF Next
<1>3. QED
  BY <1>1, <1>2, PTL DEF Spec

-----------------------------------------------------------------------------
(* The units of all fragments, in their order *)

\* Every index below n is that of exactly one unit.
OnePerIndex(U, n) ==
    /\ \A u \in U : u.index \in 0..(n - 1) /\ u.row \in Nat /\ u.local \in Nat
    /\ \A u, v \in U : u.index = v.index => u = v
    /\ \A i \in 0..(n - 1) : \E u \in U : u.index = i

IndexBelow(U, i) == {v \in U : v.index < i}

LEMMA CountBelow ==
    ASSUME NEW U, NEW n \in Nat, OnePerIndex(U, n), NEW i \in 0..n
    PROVE  IsFiniteSet(IndexBelow(U, i)) /\ Cardinality(IndexBelow(U, i)) = i
<1> DEFINE S == 0..(i - 1)
           T == IndexBelow(U, i)
           f == [j \in S |-> CHOOSE u \in U : u.index = j]
<1>1. \A j \in S : f[j] \in U /\ f[j].index = j
  <2> SUFFICES ASSUME NEW j \in S PROVE f[j] \in U /\ f[j].index = j
    OBVIOUS
  <2>1. j \in 0..(n - 1)
    OBVIOUS
  <2>2. \E u \in U : u.index = j
    BY <2>1 DEF OnePerIndex
  <2>3. f[j] = CHOOSE u \in U : u.index = j
    OBVIOUS
  <2> HIDE DEF f
  <2>4. QED
    BY <2>2, <2>3
<1>2. f \in [S -> T]
  <2>1. \A j \in S : f[j] \in T
    <3> HIDE DEF f
    <3>1. \A j \in S : j < i
      OBVIOUS
    <3>2. QED
      BY <1>1, <3>1 DEF IndexBelow
  <2>2. QED
    BY <2>1
<1> HIDE DEF f
<1>3. \A a, b \in S : f[a] = f[b] => a = b
  BY <1>1
<1>4. \A u \in T : \E j \in S : f[j] = u
  <2> SUFFICES ASSUME NEW u \in T PROVE \E j \in S : f[j] = u
    OBVIOUS
  <2>1. u \in U /\ u.index \in S
    BY DEF OnePerIndex, IndexBelow
  <2>2. f[u.index] \in U /\ f[u.index].index = u.index
    BY <1>1, <2>1
  <2>3. f[u.index] = u
    BY <2>1, <2>2 DEF OnePerIndex
  <2>4. QED
    BY <2>1, <2>3
<1>5. IsFiniteSet(S) /\ Cardinality(S) = i
  BY FS_Interval
<1> HIDE DEF S, T
<1>6. f \in Bijection(S, T)
  BY <1>2, <1>3, <1>4 DEF Bijection, Injection, Surjection, IsInjective
<1>7. ExistsBijection(S, T)
  BY <1>6 DEF ExistsBijection
<1>8. IsFiniteSet(T) /\ Cardinality(T) = Cardinality(S)
  BY <1>5, <1>7, FS_Bijection
<1>9. QED
  BY <1>5, <1>8 DEF T

\* The units come before one another as their indices do.
LEMMA BeforeIsBelow ==
    ASSUME NEW U, NEW n \in Nat, OnePerIndex(U, n), NEW u \in U
    PROVE  {v \in U : UnitBefore(v, u)} = IndexBelow(U, u.index)
<1>1. ASSUME NEW v \in U PROVE UnitBefore(v, u) <=> v.index < u.index
  <2>1. /\ v.index \in Int /\ u.index \in Int /\ u.row \in Nat /\ u.local \in Nat
        /\ v.index = u.index => v = u
    BY DEF OnePerIndex
  <2>2. CASE v.index = u.index
    <3>1. v = u
      BY <2>1, <2>2
    <3>2. ~(u.index < u.index) /\ ~(u.row < u.row) /\ ~(u.local < u.local)
      BY <2>1
    <3>3. QED
      BY <3>1, <3>2 DEF UnitBefore
  <2>3. CASE v.index # u.index
    BY <2>3 DEF UnitBefore
  <2>4. QED
    BY <2>2, <2>3
<1>2. QED
  BY <1>1 DEF IndexBelow

\* The k-th unit of a rollout is the one with index k - 1.
IsInOrder(order, U, n) ==
    /\ DOMAIN order = 1..n /\ order \in [1..n -> U]
    /\ \A k \in 1..n : order[k] \in U /\ order[k].index = k - 1

LEMMA UnitsInOrder ==
    ASSUME NEW fragments, NEW n \in Nat, OnePerIndex(Units(fragments), n)
    PROVE  IsInOrder(UnitOrder(fragments), Units(fragments), n)
<1> DEFINE U == Units(fragments)
           order == UnitOrder(fragments)
           Is(u, k) == Cardinality({v \in U : UnitBefore(v, u)}) = k - 1
<1>1. order = [k \in 1..Cardinality(U) |-> CHOOSE u \in U : Is(u, k)]
  BY DEF UnitOrder
<1>2. OnePerIndex(U, n)
  OBVIOUS
<1> HIDE DEF U, order
<1>3. Cardinality(U) = n
  <2>1. IndexBelow(U, n) = U
    BY <1>2 DEF IndexBelow, OnePerIndex
  <2>2. n \in 0..n
    OBVIOUS
  <2>3. Cardinality(IndexBelow(U, n)) = n
    BY <1>2, <2>2, CountBelow
  <2>4. QED
    BY <2>1, <2>3
<1>4. ASSUME NEW u \in U, NEW k \in 1..n PROVE Is(u, k) <=> u.index = k - 1
  <2>1. u.index \in 0..n
    BY <1>2 DEF OnePerIndex
  <2>2. {v \in U : UnitBefore(v, u)} = IndexBelow(U, u.index)
    BY <1>2, BeforeIsBelow
  <2> DEFINE i == u.index
  <2> HIDE DEF i
  <2>3. i \in 0..n
    BY <2>1 DEF i
  <2>4. Cardinality(IndexBelow(U, i)) = i
    BY <1>2, <2>3, CountBelow
  <2>5. QED
    BY <2>2, <2>4 DEF i
<1> HIDE DEF Is
<1>5. ASSUME NEW k \in 1..n PROVE order[k] \in U /\ order[k].index = k - 1
  <2>1. order[k] = CHOOSE u \in U : Is(u, k)
    BY <1>1, <1>3
  <2>2. k - 1 \in 0..(n - 1)
    OBVIOUS
  <2>3. \E u \in U : u.index = k - 1
    BY <1>2, <2>2 DEF OnePerIndex
  <2>4. \E u \in U : Is(u, k)
    BY <1>4, <2>3
  <2>5. order[k] \in U /\ Is(order[k], k)
    BY <2>1, <2>4
  <2>6. QED
    BY <1>4, <2>5
<1>6. DOMAIN order = 1..n /\ order \in [1..n -> U]
  <2> DEFINE At(k) == CHOOSE u \in U : Is(u, k)
  <2>1. order = [k \in 1..n |-> At(k)]
    BY <1>1, <1>3
  <2> HIDE DEF At
  <2>2. \A k \in 1..n : At(k) \in U
    BY <1>5, <2>1
  <2>3. QED
    BY <2>1, <2>2
<1>7. QED
  BY <1>5, <1>6 DEF IsInOrder, order, U

\* The turn of the i-th unit of a fragment, the one its target was generated in.
TurnOf(f, i) == f.response[3 * i - 2].turn

\* Each unit of the fragment has one target, and an index if its turn is one of
\* the e closed ones.
HoldsTurns(f, e) ==
    /\ Len(f.bounds) \in Nat \ {0} /\ DOMAIN f.bounds = 1..Len(f.bounds)
    /\ \A i \in DOMAIN f.bounds :
         /\ UnitTargets(f, i) = {3 * i - 2} /\ 3 * i - 2 \in Trained(f)
         /\ TurnOf(f, i) = TurnOf(f, 1) + i - 1
         /\ i <= Len(f.turns) <=> TurnOf(f, i) < e
         /\ i <= Len(f.turns) => f.turns[i] = TurnOf(f, i)
    /\ \A j \in Trained(f) : \E i \in DOMAIN f.bounds : j = 3 * i - 2
    /\ TurnOf(f, 1) \in Nat

LEMMA ShapeHoldsTurns ==
    ASSUME NEW f, NEW n \in Nat \ {0}, NEW m \in Nat, NEW t \in Nat, NEW e \in Nat,
           ShapedRecord(f, n, m, t), m <= n,
           \A i \in 1..n : i <= m <=> t + i - 1 < e
    PROVE  HoldsTurns(f, e)
<1> DEFINE s == f.response
           b == f.bounds
           K == Len(s)
<1>1. /\ IsSeq(s) /\ K \in Nat /\ DOMAIN s = 1..K /\ K \in {3 * n - 2, 3 * n - 1}
  <2>1. IsSeq(s) /\ Len(s) - 0 \in {3 * n - 2, 3 * n - 1}
    BY DEF ShapedRecord, Ending
  <2>2. Len(s) \in Nat /\ DOMAIN s = 1..Len(s)
    BY <2>1, SequenceFacts
  <2>3. QED
    BY <2>1, <2>2
<1>2. /\ Len(b) = n /\ DOMAIN b = 1..n /\ \A i \in 1..n : b[i] = Place(i)
  <2>1. IsSeq(b) /\ Len(b) = n /\ \A i \in 1..n : b[i] = Place(i)
    BY DEF ShapedRecord, Bounded
  <2>2. QED
    BY <2>1, SequenceFacts
<1>3. \A i \in 1..n : s[3 * i - 2].kind = "actor" /\ s[3 * i - 2].turn = t + i - 1
  <2> SUFFICES ASSUME NEW i \in 1..n
               PROVE  s[3 * i - 2].kind = "actor" /\ s[3 * i - 2].turn = t + i - 1
    OBVIOUS
  <2>1. 0 + 3 * i - 2 = 3 * i - 2
    OBVIOUS
  <2>2. s[0 + 3 * i - 2].kind = "actor" /\ s[0 + 3 * i - 2].turn = t + i - 1
    BY DEF ShapedRecord, Stretch
  <2>3. QED
    BY <2>1, <2>2
<1>4. \A j \in 1..K : s[j].kind = "actor" => \E i \in 1..n : j = 3 * i - 2
  <2> SUFFICES ASSUME NEW j \in 1..K, s[j].kind = "actor"
               PROVE  \E i \in 1..n : j = 3 * i - 2
    OBVIOUS
  <2>1. j \in (0 + 1)..Len(s)
    OBVIOUS
  <2>2. PICK i \in 1..n : j = 0 + 3 * i - 2
    BY <2>1 DEF ShapedRecord, Stretch
  <2>3. j = 3 * i - 2
    BY <2>2
  <2>4. QED
    BY <2>3
<1>5. Len(f.turns) = m /\ \A i \in 1..m : f.turns[i] = t + i - 1
  BY DEF ShapedRecord, Numbered
<1> HIDE DEF s, b, K
<1>6. \A j : j \in Trained(f) <=> j \in 1..K /\ s[j].kind = "actor"
  BY <1>1 DEF Trained, s
<1>7. \A i \in 1..n : 3 * i - 2 \in 1..K
  BY <1>1
<1>8. \A i \in 1..n : 3 * i - 2 \in Trained(f)
  BY <1>3, <1>6, <1>7
<1>9. \A j \in Trained(f) : \E i \in 1..n : j = 3 * i - 2
  BY <1>4, <1>6
<1>10. \A i \in 1..n : TurnOf(f, i) = t + i - 1
  BY <1>3 DEF TurnOf, s
<1>11. ASSUME NEW i \in 1..n PROVE UnitTargets(f, i) = {3 * i - 2}
  <2> DEFINE end == IF i < Len(b) THEN b[i + 1] ELSE K
  <2>1. UnitTargets(f, i) = {j \in Trained(f) : b[i] < j /\ j <= end}
    BY DEF UnitTargets, b, K, s
  <2>2. end = IF i < n THEN 3 * i - 1 ELSE K
    <3>1. CASE i < n
      <4>1. i + 1 \in 1..n /\ i + 1 # 1 /\ 3 * (i + 1) - 4 = 3 * i - 1
        BY <3>1
      <4>2. b[i + 1] = 3 * i - 1
        BY <1>2, <4>1 DEF Place
      <4>3. QED
        BY <1>2, <3>1, <4>2
    <3>2. CASE ~(i < n)
      BY <1>2, <3>2
    <3>3. QED
      BY <3>1, <3>2
  <2>3. b[i] = IF i = 1 THEN 0 ELSE 3 * i - 4
    BY <1>2 DEF Place
  <2> HIDE DEF end
  <2>4. b[i] < 3 * i - 2 /\ 3 * i - 2 <= end
    BY <1>1, <2>2, <2>3
  <2>5. ASSUME NEW j \in Trained(f), b[i] < j, j <= end PROVE j = 3 * i - 2
    <3>1. PICK k \in 1..n : j = 3 * k - 2
      BY <1>9
    <3>2. i <= k
      BY <2>3, <2>5, <3>1
    <3>3. k <= i
      BY <1>1, <2>2, <2>5, <3>1
    <3>4. QED
      BY <3>1, <3>2, <3>3
  <2>6. QED
    BY <1>8, <2>1, <2>4, <2>5
<1>12. ASSUME NEW i \in 1..n
       PROVE  /\ TurnOf(f, i) = TurnOf(f, 1) + i - 1
              /\ i <= Len(f.turns) <=> TurnOf(f, i) < e
              /\ i <= Len(f.turns) => f.turns[i] = TurnOf(f, i)
  <2>1. TurnOf(f, i) = t + i - 1 /\ TurnOf(f, 1) = t
    <3>1. 1 \in 1..n /\ t + 1 - 1 = t
      OBVIOUS
    <3>2. QED
      BY <1>10, <3>1
  <2>2. i <= m => i \in 1..m
    OBVIOUS
  <2>3. QED
    BY <1>5, <2>1, <2>2
<1>13. TurnOf(f, 1) \in Nat
  <2>1. 1 \in 1..n /\ t + 1 - 1 = t
    OBVIOUS
  <2>2. QED
    BY <1>10, <2>1
<1>14. QED
  BY <1>2, <1>8, <1>9, <1>11, <1>12, <1>13 DEF HoldsTurns, b

LEMMA RecordHoldsTurns ==
    ASSUME NEW f, NEW e \in Nat, Complete(f, e) \/ Broken(f, e)
    PROVE  HoldsTurns(f, e)
<1>1. CASE Complete(f, e)
  <2>1. PICK n \in Nat \ {0}, t \in Nat : ShapedRecord(f, n, n, t) /\ t + n <= e
    BY <1>1 DEF Complete
  <2>2. \A i \in 1..n : i <= n <=> t + i - 1 < e
    BY <2>1
  <2>3. n \in Nat /\ n <= n
    OBVIOUS
  <2>4. QED
    BY <2>1, <2>2, <2>3, ShapeHoldsTurns
<1>2. CASE Broken(f, e)
  <2>1. PICK n \in Nat \ {0}, t \in Nat : ShapedRecord(f, n, n - 1, t) /\ t + n = e + 1
    BY <1>2 DEF Broken
  <2> DEFINE m == n - 1
  <2>2. \A i \in 1..n : i <= m <=> t + i - 1 < e
    BY <2>1
  <2>3. m \in Nat /\ m <= n /\ ShapedRecord(f, n, m, t)
    BY <2>1
  <2> HIDE DEF m
  <2>4. QED
    BY <2>2, <2>3, ShapeHoldsTurns
<1>3. QED
  BY <1>1, <1>2

-----------------------------------------------------------------------------
(* The theorem on split credit *)

UnitPlaces(R, k) == DOMAIN R[k].bounds

\* Every turn is that of exactly one unit, and the index of the unit.
IndexedByTurn(R, n) ==
    /\ \A k \in DOMAIN R : \A i \in UnitPlaces(R, k) :
         UnitIndex(R[k], i) = TurnOf(R[k], i) /\ TurnOf(R[k], i) \in 0..(n - 1)
    /\ \A t \in 0..(n - 1) :
         \E k \in DOMAIN R : \E i \in UnitPlaces(R, k) : TurnOf(R[k], i) = t
    /\ \A k, l \in DOMAIN R : \A i \in UnitPlaces(R, k), j \in UnitPlaces(R, l) :
         TurnOf(R[k], i) = TurnOf(R[l], j) => k = l /\ i = j

\* An index is missing only where a turn was not closed; if the rollout stayed in
\* one fragment, the position there is the turn all the same.
LEMMA TurnsAreIndices ==
    ASSUME NEW R, IsSeq(R), NEW n \in Nat, NEW e \in Nat,
           \A k \in DOMAIN R : HoldsTurns(R[k], e),
           TrainedInOrder(R, n), e = n \/ Len(R) = 1
    PROVE  IndexedByTurn(R, n)
<1>1. DOMAIN R = 1..Len(R) /\ Len(R) \in Nat
  BY SequenceFacts
<1>2. ASSUME NEW k \in DOMAIN R
      PROVE  /\ \A i \in UnitPlaces(R, k) : i \in Nat \ {0} /\ 3 * i - 2 \in Trained(R[k])
             /\ 1 \in UnitPlaces(R, k)
             /\ \A j \in Trained(R[k]) : \E i \in UnitPlaces(R, k) : j = 3 * i - 2
  <2> DEFINE f == R[k]
             m == Len(f.bounds)
  <2>1. /\ m \in Nat \ {0} /\ UnitPlaces(R, k) = 1..m
        /\ \A i \in UnitPlaces(R, k) : 3 * i - 2 \in Trained(f)
        /\ \A j \in Trained(f) : \E i \in UnitPlaces(R, k) : j = 3 * i - 2
    <3>1. HoldsTurns(f, e)
      OBVIOUS
    <3> HIDE DEF f
    <3>2. QED
      BY <3>1 DEF HoldsTurns, UnitPlaces, f
  <2> HIDE DEF f, m
  <2>2. \A i \in 1..m : i \in Nat \ {0}
    BY <2>1
  <2>3. 1 \in 1..m
    BY <2>1
  <2>4. QED
    BY <2>1, <2>2, <2>3 DEF f
<1>3. ASSUME NEW k \in DOMAIN R, NEW i \in UnitPlaces(R, k)
      PROVE  TurnOf(R[k], i) \in 0..(n - 1)
  BY <1>2 DEF TrainedInOrder, TurnOf
<1>4. ASSUME NEW t \in 0..(n - 1)
      PROVE  \E k \in DOMAIN R : \E i \in UnitPlaces(R, k) : TurnOf(R[k], i) = t
  <2>1. PICK k \in DOMAIN R : \E j \in Trained(R[k]) : R[k].response[j].turn = t
    BY DEF TrainedInOrder
  <2>2. PICK j \in Trained(R[k]) : R[k].response[j].turn = t
    BY <2>1
  <2>3. PICK i \in UnitPlaces(R, k) : j = 3 * i - 2
    BY <1>2
  <2>4. TurnOf(R[k], i) = t
    BY <2>2, <2>3 DEF TurnOf
  <2>5. QED
    BY <2>4
<1>5. ASSUME NEW k \in DOMAIN R, NEW l \in DOMAIN R,
             NEW i \in UnitPlaces(R, k), NEW j \in UnitPlaces(R, l),
             TurnOf(R[k], i) = TurnOf(R[l], j)
      PROVE  k = l /\ i = j
  <2>1. /\ 3 * i - 2 \in Trained(R[k]) /\ 3 * j - 2 \in Trained(R[l])
        /\ i \in Nat \ {0} /\ j \in Nat \ {0} /\ k \in Nat /\ l \in Nat
    <3>1. k \in Nat /\ l \in Nat
      BY <1>1
    <3>2. 3 * i - 2 \in Trained(R[k]) /\ i \in Nat \ {0}
      BY <1>2
    <3>3. 3 * j - 2 \in Trained(R[l]) /\ j \in Nat \ {0}
      BY <1>2
    <3>4. QED
      BY <3>1, <3>2, <3>3
  <2>2. TurnOf(R[k], i) \in Int /\ TurnOf(R[l], j) \in Int
    BY <1>3
  <2> DEFINE a == 3 * i - 2
             b == 3 * j - 2
  <2>3. /\ TurnOf(R[k], i) < TurnOf(R[l], j) <=> k < l \/ (k = l /\ a < b)
        /\ TurnOf(R[l], j) < TurnOf(R[k], i) <=> l < k \/ (l = k /\ b < a)
    <3>1. a \in Trained(R[k]) /\ b \in Trained(R[l])
      BY <2>1
    <3> HIDE DEF a, b
    <3>2. /\ R[k].response[a].turn < R[l].response[b].turn <=> k < l \/ (k = l /\ a < b)
          /\ R[l].response[b].turn < R[k].response[a].turn <=> l < k \/ (l = k /\ b < a)
      BY <3>1 DEF TrainedInOrder
    <3>3. TurnOf(R[k], i) = R[k].response[a].turn /\ TurnOf(R[l], j) = R[l].response[b].turn
      BY DEF TurnOf, a, b
    <3>4. QED
      BY <3>2, <3>3
  <2>4. /\ ~(TurnOf(R[k], i) < TurnOf(R[l], j)) /\ ~(TurnOf(R[l], j) < TurnOf(R[k], i))
    BY <1>5, <2>2
  <2>5. QED
    BY <2>1, <2>3, <2>4
<1>6. ASSUME NEW k \in DOMAIN R, NEW i \in UnitPlaces(R, k)
      PROVE  UnitIndex(R[k], i) = TurnOf(R[k], i)
  <2>1. /\ i <= Len(R[k].turns) <=> TurnOf(R[k], i) < e
        /\ i <= Len(R[k].turns) => R[k].turns[i] = TurnOf(R[k], i)
        /\ TurnOf(R[k], i) = TurnOf(R[k], 1) + i - 1
        /\ TurnOf(R[k], 1) \in Nat
    BY DEF HoldsTurns, UnitPlaces
  <2>2. CASE i <= Len(R[k].turns)
    BY <2>1, <2>2 DEF UnitIndex
  <2>3. CASE ~(i <= Len(R[k].turns))
    <3>1. Len(R) = 1
      <4>1. TurnOf(R[k], i) \in 0..(n - 1)
        BY <1>3
      <4>2. ~(TurnOf(R[k], i) < e)
        BY <2>1, <2>3
      <4>3. e # n
        BY <4>1, <4>2
      <4>4. QED
        BY <4>3
    <3>2. k = 1 /\ \A l \in DOMAIN R : l = 1
      BY <1>1, <3>1
    <3>3. 0 \in 0..(n - 1)
      BY <1>3
    <3>4. \E l \in DOMAIN R : \E j \in UnitPlaces(R, l) : TurnOf(R[l], j) = 0
      BY <1>4, <3>3
    <3>5. PICK j \in UnitPlaces(R, k) : TurnOf(R[k], j) = 0
      BY <3>2, <3>4
    <3>6. j \in Nat \ {0} /\ TurnOf(R[k], j) = TurnOf(R[k], 1) + j - 1
      BY <1>2 DEF HoldsTurns, UnitPlaces
    <3>7. TurnOf(R[k], 1) = 0
      BY <2>1, <3>5, <3>6
    <3>8. UnitIndex(R[k], i) = i - 1
      BY <2>3 DEF UnitIndex
    <3>9. i \in Nat
      BY <1>2
    <3>10. QED
      BY <2>1, <3>7, <3>8, <3>9
  <2>4. QED
    BY <2>2, <2>3
<1>7. QED
  BY <1>3, <1>4, <1>5, <1>6 DEF IndexedByTurn

\* What a turn was reported to do, and nothing when it was not closed.
EventOf(t) == IF t < Len(req.past) THEN Coalesced(req.past[t + 1].calls) ELSE Unreported

\* The units of an indexed rollout are its turns.
UnitsAreTurns(U, n) ==
    /\ OnePerIndex(U, n)
    /\ \A u \in U : u.turns = {u.index} /\ u.event = EventOf(u.index)

LEMMA TurnsAreUnits ==
    ASSUME NEW R, IsSeq(R), NEW n \in Nat,
           \A k \in DOMAIN R : HoldsTurns(R[k], Len(req.past)),
           IndexedByTurn(R, n)
    PROVE  UnitsAreTurns(Units(R), n)
<1> DEFINE U == Units(R)
<1>1. DOMAIN R = 1..Len(R) /\ Len(R) \in Nat
  BY SequenceFacts
<1>2. ASSUME NEW k \in DOMAIN R, NEW i \in UnitPlaces(R, k)
      PROVE  /\ UnitTargets(R[k], i) = {3 * i - 2} /\ i \in Nat
             /\ UnitIndex(R[k], i) = TurnOf(R[k], i) /\ TurnOf(R[k], i) \in 0..(n - 1)
             /\ i <= Len(R[k].turns) <=> TurnOf(R[k], i) < Len(req.past)
             /\ i <= Len(R[k].turns) => R[k].turns[i] = TurnOf(R[k], i)
  <2>1. UnitIndex(R[k], i) = TurnOf(R[k], i) /\ TurnOf(R[k], i) \in 0..(n - 1)
    BY DEF IndexedByTurn
  <2>2. HoldsTurns(R[k], Len(req.past))
    OBVIOUS
  <2>3. i \in DOMAIN R[k].bounds
    BY DEF UnitPlaces
  <2>4. UnitTargets(R[k], i) = {3 * i - 2} /\ i \in Nat
    <3>1. UnitTargets(R[k], i) = {3 * i - 2}
      BY <2>2, <2>3 DEF HoldsTurns
    <3>2. DOMAIN R[k].bounds = 1..Len(R[k].bounds) /\ Len(R[k].bounds) \in Nat
      BY <2>2 DEF HoldsTurns
    <3>3. QED
      BY <2>3, <3>1, <3>2
  <2>5. /\ i <= Len(R[k].turns) <=> TurnOf(R[k], i) < Len(req.past)
        /\ i <= Len(R[k].turns) => R[k].turns[i] = TurnOf(R[k], i)
    BY <2>2, <2>3 DEF HoldsTurns
  <2>6. QED
    BY <2>1, <2>4, <2>5
<1>3. ASSUME NEW k \in DOMAIN R, NEW i \in UnitPlaces(R, k)
      PROVE  LET u == Unit(k, R[k], i)
             IN  /\ u.index = TurnOf(R[k], i) /\ u.row = k /\ u.local = i
                 /\ u.turns = {TurnOf(R[k], i)} /\ u.event = EventOf(TurnOf(R[k], i))
  <2> DEFINE u == Unit(k, R[k], i)
  <2>1. /\ u.index = UnitIndex(R[k], i) /\ u.row = k /\ u.local = i
        /\ u.turns = {R[k].response[j].turn : j \in UnitTargets(R[k], i)}
        /\ u.event = UnitEvent(R[k], i)
    BY DEF Unit
  <2> HIDE DEF u
  <2>2. u.turns = {TurnOf(R[k], i)}
    BY <1>2, <2>1 DEF TurnOf
  <2>3. UnitEvent(R[k], i) = EventOf(TurnOf(R[k], i))
    BY <1>2 DEF UnitEvent, EventOf
  <2>4. QED
    BY <1>2, <2>1, <2>2, <2>3 DEF u
<1>4. U = UNION {{Unit(k, R[k], i) : i \in UnitPlaces(R, k)} : k \in DOMAIN R}
  <2>1. ASSUME NEW k \in DOMAIN R
        PROVE  {l \in DOMAIN R[k].bounds : UnitTargets(R[k], l) # {}} = UnitPlaces(R, k)
    BY <1>2 DEF UnitPlaces
  <2>2. QED
    BY <2>1 DEF Units
<1>5. \A u \in U : \E k \in DOMAIN R : \E i \in UnitPlaces(R, k) : u = Unit(k, R[k], i)
  BY <1>4
<1>6. \A k \in DOMAIN R : \A i \in UnitPlaces(R, k) : Unit(k, R[k], i) \in U
  BY <1>4
<1> HIDE DEF U
<1>7. ASSUME NEW u \in U
      PROVE  /\ u.index \in 0..(n - 1) /\ u.row \in Nat /\ u.local \in Nat
             /\ u.turns = {u.index} /\ u.event = EventOf(u.index)
  <2>1. PICK k \in DOMAIN R : \E i \in UnitPlaces(R, k) : u = Unit(k, R[k], i)
    BY <1>5
  <2>2. PICK i \in UnitPlaces(R, k) : u = Unit(k, R[k], i)
    BY <2>1
  <2>3. k \in Nat
    BY <1>1
  <2>4. QED
    BY <1>2, <1>3, <2>2, <2>3
<1>8. ASSUME NEW u \in U, NEW v \in U, u.index = v.index PROVE u = v
  <2>1. PICK k \in DOMAIN R : \E i \in UnitPlaces(R, k) : u = Unit(k, R[k], i)
    BY <1>5
  <2>2. PICK i \in UnitPlaces(R, k) : u = Unit(k, R[k], i)
    BY <2>1
  <2>3. PICK l \in DOMAIN R : \E j \in UnitPlaces(R, l) : v = Unit(l, R[l], j)
    BY <1>5
  <2>4. PICK j \in UnitPlaces(R, l) : v = Unit(l, R[l], j)
    BY <2>3
  <2>5. TurnOf(R[k], i) = TurnOf(R[l], j)
    BY <1>3, <1>8, <2>2, <2>4
  <2>6. k = l /\ i = j
    BY <2>5 DEF IndexedByTurn
  <2>7. QED
    BY <2>2, <2>4, <2>6
<1>9. ASSUME NEW t \in 0..(n - 1) PROVE \E u \in U : u.index = t
  <2>1. PICK k \in DOMAIN R : \E i \in UnitPlaces(R, k) : TurnOf(R[k], i) = t
    BY DEF IndexedByTurn
  <2>2. PICK i \in UnitPlaces(R, k) : TurnOf(R[k], i) = t
    BY <2>1
  <2>3. Unit(k, R[k], i) \in U /\ Unit(k, R[k], i).index = t
    BY <1>3, <1>6, <2>2
  <2>4. QED
    BY <2>3
<1>10. OnePerIndex(U, n)
  BY <1>7, <1>8, <1>9 DEF OnePerIndex
<1>11. QED
  BY <1>7, <1>10 DEF UnitsAreTurns, U

\* Credit counted by unit is credit counted by turn.
LEMMA CreditByUnit ==
    ASSUME NEW n \in Nat, DOMAIN given = 1..n, Len(given) = n,
           Len(req.past) \in Nat, UnitsAreTurns(Units(req.records), n),
           NEW component, NEW gain
    PROVE  SplitCredit(component, gain, UnitOrder(req.records))
             = WholeCredit(component, gain, TurnEvents)
<1> DEFINE U == Units(req.records)
           order == UnitOrder(req.records)
           events == [k \in DOMAIN order |-> order[k].event]
           weights == Credit(component, gain, events)
           whole == Credit(component, gain, TurnEvents)
           Holder(t) == CHOOSE k \in DOMAIN order : t \in order[k].turns
<1>1. /\ SplitCredit(component, gain, order)
           = [t \in 0..(Len(given) - 1) |-> weights[Holder(t)]]
      /\ WholeCredit(component, gain, TurnEvents)
           = [t \in 0..(Len(given) - 1) |-> whole[t + 1]]
  BY DEF SplitCredit, WholeCredit
<1>2. UnitsAreTurns(U, n)
  OBVIOUS
<1>3. IsInOrder(order, U, n)
  <2>1. OnePerIndex(Units(req.records), n)
    BY <1>2 DEF UnitsAreTurns
  <2>2. QED
    BY <2>1, UnitsInOrder
<1> HIDE DEF U, order
<1>4. /\ DOMAIN order = 1..n
      /\ \A k \in 1..n : order[k].turns = {k - 1} /\ order[k].event = EventOf(k - 1)
  <2>1. DOMAIN order = 1..n
    BY <1>3 DEF IsInOrder
  <2>2. ASSUME NEW k \in 1..n
        PROVE  order[k].turns = {k - 1} /\ order[k].event = EventOf(k - 1)
    <3>1. order[k] \in U /\ order[k].index = k - 1
      BY <1>3 DEF IsInOrder
    <3>2. QED
      BY <1>2, <3>1 DEF UnitsAreTurns
  <2>3. QED
    BY <2>1, <2>2
<1>5. events = TurnEvents
  <2>1. ASSUME NEW k \in 1..n
        PROVE  EventOf(k - 1) = IF k <= Len(req.past) THEN Coalesced(req.past[k].calls)
                                ELSE Unreported
    <3>1. (k - 1) + 1 = k /\ (k - 1 < Len(req.past) <=> k <= Len(req.past))
      OBVIOUS
    <3>2. QED
      BY <3>1 DEF EventOf
  <2>2. QED
    BY <1>4, <2>1 DEF TurnEvents
<1>6. weights = whole
  BY <1>5
<1>7. ASSUME NEW t \in 0..(n - 1) PROVE Holder(t) = t + 1
  <2>1. t + 1 \in 1..n /\ (t + 1) - 1 = t
    OBVIOUS
  <2>2. t + 1 \in DOMAIN order /\ t \in order[t + 1].turns
    BY <1>4, <2>1
  <2>3. ASSUME NEW k \in DOMAIN order, t \in order[k].turns PROVE k = t + 1
    <3>1. k \in 1..n /\ t \in {k - 1}
      BY <1>4, <2>3
    <3>2. QED
      BY <3>1
  <2>4. QED
    BY <2>2, <2>3, Zenon
<1> HIDE DEF events, weights, whole, Holder
<1>8. QED
  BY <1>1, <1>6, <1>7 DEF order

\* Splitting a rollout into fragments leaves the credit of its turns as it was
\* (_segmented_turn_units, redistribute_segmented_behavior_component_turn_credit), for
\* every reward component and either form of it, when every turn of the rollout was
\* closed or the rollout stayed in one fragment.  An open last turn behind a cleanup
\* is what the run on split credit shows to break it.
THEOREM CreditIgnoresSplits == Spec => []CreditIgnoresFragmentsOfClosedTurns
<1>1. UnitInv => CreditIgnoresFragmentsOfClosedTurns
  <2> DEFINE R == req.records
             n == Len(given)
             e == Len(req.past)
             order == UnitOrder(R)
             events == TurnEvents
             Same(component, gain) ==
               SplitCredit(component, gain, order) = WholeCredit(component, gain, events)
             SameListed(component, gain) ==
               SplitCredit(component, gain, SubSeq(order, 1, Len(order)))
                 = WholeCredit(component, gain, SubSeq(events, 1, Len(events)))
  <2>1. CreditIgnoresFragmentsOfClosedTurns
          <=> (e = n \/ Len(R) = 1 =>
                 (phase = "done" => \A component \in Components, gain \in BOOLEAN :
                                      SameListed(component, gain)))
    BY DEF CreditIgnoresFragmentsOfClosedTurns, CreditIgnoresFragments
  <2> HIDE DEF SameListed
  <2> SUFFICES ASSUME UnitInv, e = n \/ Len(R) = 1, phase = "done",
                      NEW component \in Components, NEW gain \in BOOLEAN
               PROVE  SameListed(component, gain)
    BY <2>1
  <2>2. /\ SegInv /\ IsSeq(R) /\ e \in Nat /\ n \in Nat /\ DOMAIN given = 1..n
        /\ Ended(req)
    BY SequenceFacts DEF UnitInv, CreditInv, MemInv, SegInv, IsRequest
  <2>3. TrainedInOrder(R, n)
    <3>1. TrainedInOrder(Fragments, n)
      BY <2>2, FinalizeKeeps DEF SegInv, Fragments
    <3>2. Fragments = R
      BY <2>2, NothingClosed DEF Ended, Fragments, SegInv
    <3>3. QED
      BY <3>1, <3>2
  <2>4. \A k \in DOMAIN R : HoldsTurns(R[k], e)
    <3> SUFFICES ASSUME NEW k \in DOMAIN R PROVE HoldsTurns(R[k], e)
      OBVIOUS
    <3>1. Complete(R[k], e) \/ Broken(R[k], e)
      BY <2>2 DEF Ended
    <3>2. QED
      BY <2>2, <3>1, RecordHoldsTurns
  <2>5. IndexedByTurn(R, n)
    <3> HIDE DEF R, n, e
    <3>1. QED
      BY <2>2, <2>3, <2>4, TurnsAreIndices
  <2>6. UnitsAreTurns(Units(R), n)
    <3> HIDE DEF R, n
    <3>1. QED
      BY <2>2, <2>4, <2>5, TurnsAreUnits DEF e
  <2>7. Same(component, gain)
    BY <2>2, <2>6, CreditByUnit
  <2>8. SubSeq(order, 1, Len(order)) = order
    <3>1. OnePerIndex(Units(R), n)
      BY <2>6 DEF UnitsAreTurns
    <3> HIDE DEF n, R
    <3>2. order \in [1..n -> Units(R)]
      BY <2>2, <3>1, UnitsInOrder DEF IsInOrder
    <3> HIDE DEF order
    <3>3. order \in Seq(Units(R))
      BY <2>2, <3>2
    <3>4. QED
      BY <3>3, SubSeqFull
  <2>9. SubSeq(events, 1, Len(events)) = events
    <3> DEFINE Event(i) == IF i <= e THEN Coalesced(req.past[i].calls) ELSE Unreported
               X == {Event(i) : i \in 1..n}
    <3>1. events = [i \in 1..n |-> Event(i)]
      BY <2>2 DEF TurnEvents
    <3> HIDE DEF n, e, Event
    <3>2. events \in [1..n -> X]
      BY <3>1
    <3> HIDE DEF events, X
    <3>3. events \in Seq(X)
      BY <2>2, <3>2
    <3>4. QED
      BY <3>3, SubSeqFull
  <2>10. QED
    BY <2>7, <2>8, <2>9 DEF SameListed
<1>2. QED
  BY <1>1, UnitsInvariant, PTL

================================================================================
