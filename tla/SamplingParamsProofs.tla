------------------------- MODULE SamplingParamsProofs -------------------------
(***************************************************************************)
(* Blocks of the shared sampling parameters that are left in nested order  *)
(* undo themselves, for any number of requests: the innermost block's      *)
(* values are the ones in force, whenever the engine reads them.           *)
(***************************************************************************)
EXTENDS SamplingParams, SequenceTheorems, TLAPS

\* A sequence without its i-th element.
LEMMA RemoveAtFacts ==
    ASSUME NEW X, NEW s \in Seq(X), NEW i \in DOMAIN s
    PROVE  /\ RemoveAt(s, i) \in Seq(X)
           /\ DOMAIN RemoveAt(s, i) = 1..(Len(s) - 1)
           /\ \A j \in 1..(Len(s) - 1) :
                RemoveAt(s, i)[j] = IF j < i THEN s[j] ELSE s[j + 1]
<1>1. i \in 1..Len(s) /\ Len(s) \in Nat /\ DOMAIN s = 1..Len(s)
  OBVIOUS
<1> DEFINE a == SubSeq(s, 1, i - 1)
           b == SubSeq(s, i + 1, Len(s))
<1>2. /\ a \in Seq(X) /\ Len(a) = i - 1
      /\ \A j \in 1..(i - 1) : a[j] = s[j]
  BY <1>1, SubSeqProperties
<1>3. /\ b \in Seq(X) /\ Len(b) = Len(s) - i
      /\ \A j \in 1..(Len(s) - i) : b[j] = s[i + j]
  BY <1>1, SubSeqProperties
<1>4. RemoveAt(s, i) = a \o b
  BY DEF RemoveAt
<1> HIDE DEF a, b
<1>5. /\ a \o b \in Seq(X) /\ Len(a \o b) = Len(s) - 1
      /\ \A j \in 1..(Len(s) - 1) :
           (a \o b)[j] = IF j <= i - 1 THEN a[j] ELSE b[j - (i - 1)]
  <2>1. /\ a \o b \in Seq(X) /\ Len(a \o b) = Len(a) + Len(b)
        /\ \A j \in 1..(Len(a) + Len(b)) :
             (a \o b)[j] = IF j <= Len(a) THEN a[j] ELSE b[j - Len(a)]
    BY <1>2, <1>3, ConcatProperties
  <2>2. Len(a) + Len(b) = Len(s) - 1
    BY <1>1, <1>2, <1>3
  <2> DEFINE c == a \o b
  <2> HIDE DEF c
  <2>3. /\ c \in Seq(X) /\ Len(c) = Len(s) - 1
        /\ \A j \in 1..(Len(s) - 1) : c[j] = IF j <= i - 1 THEN a[j] ELSE b[j - (i - 1)]
    BY <1>2, <2>1, <2>2 DEF c
  <2>4. QED
    BY <2>3 DEF c
<1>6. ASSUME NEW j \in 1..(Len(s) - 1)
      PROVE  (a \o b)[j] = IF j < i THEN s[j] ELSE s[j + 1]
  <2>1. CASE j < i
    BY <1>1, <1>2, <1>5, <2>1
  <2>2. CASE ~(j < i)
    <3>1. j - (i - 1) \in 1..(Len(s) - i) /\ i + (j - (i - 1)) = j + 1
      BY <1>1, <2>2
    <3>2. (a \o b)[j] = b[j - (i - 1)]
      BY <1>1, <1>5, <2>2
    <3>3. b[j - (i - 1)] = s[i + (j - (i - 1))]
      BY <1>3, <3>1
    <3>4. QED
      BY <2>2, <3>1, <3>2, <3>3
  <2>3. QED
    BY <2>1, <2>2
<1>7. QED
  BY <1>4, <1>5, <1>6

IsSequence(s) == \E X : s \in Seq(X)

Uses(i, k) == k \in DOMAIN open[i].saved

\* In a key that was never crossed, the outermost block saved the default and
\* every other one the value of the block around it.
OutermostSavedDefault ==
    \A k \in Key \ crossed : \A i \in Blocks(k) :
      (\A j \in Blocks(k) : i <= j) => open[i].saved[k] = Default

Around(j, i, k) ==
    /\ j \in Blocks(k) /\ j < i
    /\ \A l \in Blocks(k) : l < i => l <= j

SavedTheBlockAround ==
    \A k \in Key \ crossed : \A i \in Blocks(k), j \in Blocks(k) :
      Around(j, i, k) => open[i].saved[k] = Argument(open[j].request, k)

\* The innermost block of such a key has its value in force.
InnermostInForce ==
    \A k \in Key \ crossed : \A i \in Blocks(k) :
      Innermost(i, k) => params[k] = Argument(open[i].request, k)

OneBlockEach ==
    /\ IsSequence(open)
    /\ \A i \in DOMAIN open : open[i].request \in Request
    /\ \A i, j \in DOMAIN open : open[i].request = open[j].request => i = j

\* The inductive invariant: a request is in one block at a time, and a key that
\* was never crossed is a stack: every block saved what the one around it set.
ParamsInv ==
    /\ DOMAIN phase = Request /\ DOMAIN given = Request
    /\ OneBlockEach
    /\ OutermostSavedDefault
    /\ SavedTheBlockAround
    /\ InnermostInForce
    /\ NestedBlocksRestore

LEMMA SequenceDomain ==
    ASSUME NEW s, IsSequence(s)
    PROVE  Len(s) \in Nat /\ DOMAIN s = 1..Len(s)
BY DEF IsSequence

\* What a block overrides does not depend on who else is in one.
LEMMA EnterSafe ==
    ASSUME ParamsInv, NEW r \in Request, Enter(r)
    PROVE  ParamsInv'
<1> DEFINE args == Overrides(r, phase[r])
           block == [request |-> r, saved |-> [k \in DOMAIN args |-> params[k]]]
           n == Len(open)
<1>1. Len(open) \in Nat /\ DOMAIN open = 1..n
  BY SequenceDomain DEF ParamsInv, OneBlockEach
<1>2. /\ open' = Append(open, block)
      /\ params' = Updated(args)
      /\ phase' = phase /\ crossed' = crossed /\ given' = given
      /\ \A i \in DOMAIN open : open[i].request # r
  BY DEF Enter, CanCall, InCall
<1> DEFINE old == DOMAIN args
<1>3. /\ block.request = r /\ DOMAIN block.saved = old
      /\ \A k \in old : block.saved[k] = params[k]
  <2> HIDE DEF args
  <2>1. QED
    OBVIOUS
<1> HIDE DEF block
<1>4. /\ IsSequence(open') /\ DOMAIN open' = 1..(n + 1) /\ open'[n + 1] = block
      /\ \A i \in 1..n : open'[i] = open[i]
  <2>1. PICK X : open \in Seq(X)
    BY DEF ParamsInv, OneBlockEach, IsSequence
  <2>2. open \in Seq(X \cup {block}) /\ block \in X \cup {block}
    BY <2>1
  <2>3. /\ Append(open, block) \in Seq(X \cup {block})
        /\ Len(Append(open, block)) = n + 1
        /\ Append(open, block)[n + 1] = block
        /\ \A i \in 1..n : Append(open, block)[i] = open[i]
    BY <2>2
  <2>4. QED
    BY <1>1, <1>2, <2>3 DEF IsSequence
<1>5. OneBlockEach'
  BY <1>1, <1>2, <1>3, <1>4 DEF ParamsInv, OneBlockEach
<1>6. DOMAIN phase' = Request /\ DOMAIN given' = Request
  BY <1>2 DEF ParamsInv
<1>7. old \subseteq Key /\ \A k \in old : params'[k] = Argument(r, k)
  BY <1>2 DEF Overrides, Updated, Key
<1>8. \A k \in Key \ old : params'[k] = params[k]
  BY <1>2 DEF Updated
<1>10. \A k : \A i \in 1..n : Uses(i, k)' <=> Uses(i, k)
  BY <1>4 DEF Uses
<1>11. \A i : i = n + 1 => \A k : Uses(i, k)' <=> k \in old
  BY <1>3, <1>4 DEF Uses
<1>9. ASSUME NEW k
      PROVE  /\ Blocks(k) \subseteq 1..n
             /\ \A j \in 1..n : j \in Blocks(k)' <=> j \in Blocks(k)
             /\ n + 1 \in Blocks(k)' <=> k \in old
             /\ Blocks(k)' \subseteq 1..(n + 1)
             /\ k \notin old => Blocks(k)' = Blocks(k)
  BY <1>1, <1>4, <1>10, <1>11 DEF Blocks, Uses
<1>12. OutermostSavedDefault'
  <2>1. ASSUME NEW k \in Key \ crossed', NEW i \in Blocks(k)',
               \A j \in Blocks(k)' : i <= j
        PROVE  open'[i].saved[k] = Default
    <3>1. k \in Key \ crossed
      BY <1>2
    <3>2. CASE i \in 1..n
      <4>1. i \in Blocks(k) /\ \A j \in Blocks(k) : i <= j
        BY <1>9, <2>1, <3>2
      <4>2. QED
        BY <1>4, <3>1, <3>2, <4>1 DEF ParamsInv, OutermostSavedDefault
    <3>3. CASE i = n + 1
      <4>1. k \in old
        BY <1>9, <2>1, <3>3
      <4>2. Blocks(k) = {}
        <5>1. \A j \in 1..n : ~(n + 1 <= j)
          BY <1>1
        <5>2. QED
          BY <1>9, <2>1, <3>3, <5>1
      <4>3. params[k] = Default
        BY <3>1, <4>2 DEF ParamsInv, NestedBlocksRestore
      <4>4. QED
        BY <1>3, <1>4, <3>3, <4>1, <4>3
    <3>4. QED
      BY <1>1, <1>9, <2>1, <3>2, <3>3
  <2>2. QED
    BY <2>1 DEF OutermostSavedDefault
<1>13. SavedTheBlockAround'
  <2>1. ASSUME NEW k \in Key \ crossed', NEW i \in Blocks(k)',
               NEW j \in Blocks(k)', Around(j, i, k)'
        PROVE  open'[i].saved[k] = Argument(open'[j].request, k)
    <3>1. k \in Key \ crossed
      BY <1>2
    <3>2. j < i /\ \A l \in Blocks(k)' : l < i => l <= j
      BY <2>1 DEF Around
    <3>3. j \in 1..n /\ j \in Blocks(k) /\ open'[j] = open[j]
      BY <1>1, <1>4, <1>9, <2>1, <3>2
    <3>4. CASE i \in 1..n
      <4>1. i \in Blocks(k) /\ Around(j, i, k)
        BY <1>9, <2>1, <3>2, <3>3, <3>4 DEF Around
      <4>2. QED
        BY <1>4, <3>1, <3>3, <3>4, <4>1 DEF ParamsInv, SavedTheBlockAround
    <3>5. CASE i = n + 1
      <4>1. Innermost(j, k)
        BY <1>1, <1>9, <3>2, <3>3, <3>5 DEF Innermost
      <4>2. params[k] = Argument(open[j].request, k)
        BY <3>1, <3>3, <4>1 DEF ParamsInv, InnermostInForce
      <4>3. k \in old
        BY <1>9, <2>1, <3>5
      <4>4. QED
        BY <1>3, <1>4, <3>3, <3>5, <4>2, <4>3
    <3>6. QED
      BY <1>1, <1>9, <2>1, <3>4, <3>5
  <2>2. QED
    BY <2>1 DEF SavedTheBlockAround
<1>14. InnermostInForce'
  <2>1. ASSUME NEW k \in Key \ crossed', NEW i \in Blocks(k)', Innermost(i, k)'
        PROVE  params'[k] = Argument(open'[i].request, k)
    <3>1. k \in Key \ crossed /\ \A j \in Blocks(k)' : j <= i
      BY <1>2, <2>1 DEF Innermost
    <3>2. CASE k \in old
      <4>1. i = n + 1
        BY <1>1, <1>9, <2>1, <3>1, <3>2
      <4>2. QED
        BY <1>3, <1>4, <1>7, <3>2, <4>1
    <3>3. CASE k \notin old
      <4>1. i \in 1..n /\ i \in Blocks(k) /\ Innermost(i, k)
        BY <1>9, <2>1, <3>1, <3>3 DEF Innermost
      <4>2. params[k] = Argument(open[i].request, k)
        BY <3>1, <4>1 DEF ParamsInv, InnermostInForce
      <4>3. QED
        BY <1>4, <1>8, <3>1, <3>3, <4>1, <4>2
    <3>4. QED
      BY <3>2, <3>3
  <2>2. QED
    BY <2>1 DEF InnermostInForce
<1>15. NestedBlocksRestore'
  <2>1. ASSUME NEW k \in Key \ crossed', Blocks(k)' = {}
        PROVE  params'[k] = Default
    <3>1. k \in Key \ crossed /\ k \notin old
      BY <1>2, <1>9, <2>1
    <3>2. Blocks(k) = {}
      BY <1>9, <2>1, <3>1
    <3>3. QED
      BY <1>8, <3>1, <3>2 DEF ParamsInv, NestedBlocksRestore
  <2>2. QED
    BY <2>1 DEF NestedBlocksRestore
<1>16. QED
  BY <1>5, <1>6, <1>12, <1>13, <1>14, <1>15 DEF ParamsInv

\* A block that is left takes its request out of its call; only one of several
\* blocks of a key that is the last of them leaves the key uncrossed.
LEMMA LeaveSafe ==
    ASSUME ParamsInv, NEW i \in DOMAIN open, Leave(i), NEW next,
           phase' = [phase EXCEPT ![open[i].request] = next]
    PROVE  ParamsInv'
<1> DEFINE n == Len(open)
           was(j) == IF j < i THEN j ELSE j + 1
           saved == open[i].saved
<1>1. n \in Nat /\ DOMAIN open = 1..n /\ i \in 1..n
  BY SequenceDomain DEF ParamsInv, OneBlockEach
<1>2. /\ params' = Updated(saved) /\ open' = RemoveAt(open, i)
      /\ crossed' = crossed \cup
           {k \in DOMAIN saved : \E j \in DOMAIN open : j > i /\ Uses(j, k)}
  BY DEF Leave, Uses
<1> HIDE DEF saved
<1>3. /\ IsSequence(open') /\ DOMAIN open' = 1..(n - 1)
      /\ \A j \in 1..(n - 1) : open'[j] = open[was(j)]
  <2>1. PICK X : open \in Seq(X)
    BY DEF ParamsInv, OneBlockEach, IsSequence
  <2>2. QED
    BY <1>1, <1>2, <2>1, RemoveAtFacts DEF IsSequence
<1>4. /\ \A j \in 1..(n - 1) : was(j) \in 1..n \ {i}
      /\ \A j, l \in 1..(n - 1) : was(j) <= was(l) <=> j <= l
      /\ \A j \in 1..n \ {i} : \E l \in 1..(n - 1) : j = was(l)
  <2>1. ASSUME NEW j \in 1..n \ {i} PROVE \E l \in 1..(n - 1) : j = was(l)
    <3>1. CASE j < i
      BY <1>1, <3>1
    <3>2. CASE j > i
      <4>1. j - 1 \in 1..(n - 1) /\ ~(j - 1 < i) /\ (j - 1) + 1 = j
        BY <1>1, <3>2
      <4>2. QED
        BY <4>1
    <3>3. QED
      BY <1>1, <3>1, <3>2
  <2>2. QED
    BY <1>1, <2>1
<1> HIDE DEF was
<1>5. OneBlockEach'
  <2>1. ASSUME NEW j \in 1..(n - 1), NEW l \in 1..(n - 1),
               open[was(j)].request = open[was(l)].request
        PROVE  j = l
    <3>1. was(j) = was(l) /\ was(j) \in Int
      BY <1>1, <1>4, <2>1 DEF ParamsInv, OneBlockEach
    <3>2. QED
      BY <1>1, <1>4, <3>1
  <2>2. QED
    BY <1>1, <1>3, <1>4, <2>1 DEF ParamsInv, OneBlockEach
<1>6. DOMAIN phase' = Request /\ DOMAIN given' = Request
  BY DEF ParamsInv, Leave
<1>7. \A k : \A j \in 1..(n - 1) : Uses(j, k)' <=> Uses(was(j), k)
  BY <1>3 DEF Uses
<1>8. ASSUME NEW k \in Key \ crossed'
      PROVE  /\ k \in Key \ crossed
             /\ Blocks(k) \subseteq 1..n /\ Blocks(k)' \subseteq 1..(n - 1)
             /\ \A j \in 1..(n - 1) : j \in Blocks(k)' <=> was(j) \in Blocks(k)
             /\ \A l \in Blocks(k) : l # i => \E j \in Blocks(k)' : l = was(j)
             /\ i \in Blocks(k) <=> k \in DOMAIN saved
             /\ i \in Blocks(k) => \A l \in Blocks(k) : l <= i
  <2>1. /\ k \in Key \ crossed
        /\ k \in DOMAIN saved => \A l \in 1..n : l > i => ~Uses(l, k)
    BY <1>1, <1>2
  <2>2. /\ \A l : l \in Blocks(k) <=> l \in 1..n /\ Uses(l, k)
        /\ \A j : j \in Blocks(k)' <=> j \in 1..(n - 1) /\ Uses(was(j), k)
    BY <1>1, <1>3, <1>7 DEF Blocks, Uses
  <2>3. i \in Blocks(k) <=> k \in DOMAIN saved
    BY <1>1, <2>2 DEF Uses, saved
  <2>4. ASSUME NEW l \in Blocks(k), l # i
        PROVE  \E j \in Blocks(k)' : l = was(j)
    <3>1. PICK j \in 1..(n - 1) : l = was(j)
      BY <1>4, <2>2, <2>4
    <3>2. QED
      BY <2>2, <3>1
  <2>5. ASSUME i \in Blocks(k), NEW l \in Blocks(k)
        PROVE  l <= i
    BY <1>1, <2>1, <2>2, <2>3, <2>5
  <2>6. QED
    BY <1>4, <2>1, <2>2, <2>3, <2>4, <2>5
<1>9. OutermostSavedDefault'
  <2>1. ASSUME NEW k \in Key \ crossed', NEW j \in Blocks(k)',
               \A l \in Blocks(k)' : j <= l
        PROVE  open'[j].saved[k] = Default
    <3>1. j \in 1..(n - 1) /\ was(j) \in Blocks(k) /\ was(j) \in 1..n \ {i}
      BY <1>4, <1>8, <2>1
    <3>2. ASSUME NEW l \in Blocks(k) PROVE was(j) <= l
      <4>1. CASE l # i
        <5>1. PICK m \in Blocks(k)' : l = was(m)
          BY <1>8, <4>1
        <5>2. QED
          BY <1>4, <1>8, <2>1, <3>1, <5>1
      <4>2. CASE l = i
        BY <1>8, <3>1, <4>2
      <4>3. QED
        BY <4>1, <4>2
    <3>3. QED
      BY <1>3, <1>8, <3>1, <3>2 DEF ParamsInv, OutermostSavedDefault
  <2>2. QED
    BY <2>1 DEF OutermostSavedDefault
<1>10. SavedTheBlockAround'
  <2>1. ASSUME NEW k \in Key \ crossed', NEW m \in Blocks(k)',
               NEW j \in Blocks(k)', Around(j, m, k)'
        PROVE  open'[m].saved[k] = Argument(open'[j].request, k)
    <3>1. j < m /\ \A l \in Blocks(k)' : l < m => l <= j
      BY <2>1 DEF Around
    <3>2. /\ j \in 1..(n - 1) /\ was(j) \in Blocks(k) /\ was(j) \in 1..n \ {i}
          /\ m \in 1..(n - 1) /\ was(m) \in Blocks(k) /\ was(m) \in 1..n \ {i}
      BY <1>4, <1>8, <2>1
    <3>3. was(j) < was(m)
      <4>1. ~(was(m) <= was(j))
        BY <1>1, <1>4, <3>1, <3>2
      <4>2. QED
        BY <1>1, <3>2, <4>1
    <3>4. ASSUME NEW l \in Blocks(k), l < was(m) PROVE l <= was(j)
      <4>1. l # i
        BY <1>1, <1>8, <3>2, <3>4
      <4>2. PICK q \in Blocks(k)' : l = was(q)
        BY <1>8, <4>1
      <4>3. q \in 1..(n - 1) /\ ~(m <= q)
        <5>1. q \in 1..(n - 1)
          BY <1>8
        <5>2. m <= q => was(m) <= was(q)
          BY <1>4, <3>2, <5>1
        <5>3. ~(was(m) <= was(q))
          BY <1>4, <3>2, <3>4, <4>2, <5>1
        <5>4. QED
          BY <5>1, <5>2, <5>3
      <4>4. q <= j
        BY <1>1, <3>1, <3>2, <4>2, <4>3
      <4>5. QED
        BY <1>4, <3>2, <4>2, <4>3, <4>4
    <3>5. Around(was(j), was(m), k)
      BY <3>2, <3>3, <3>4 DEF Around
    <3>6. QED
      BY <1>3, <1>8, <3>2, <3>5 DEF ParamsInv, SavedTheBlockAround
  <2>2. QED
    BY <2>1 DEF SavedTheBlockAround
<1>11. InnermostInForce'
  <2>1. ASSUME NEW k \in Key \ crossed', NEW j \in Blocks(k)', Innermost(j, k)'
        PROVE  params'[k] = Argument(open'[j].request, k)
    <3>1. /\ \A l \in Blocks(k)' : l <= j
          /\ j \in 1..(n - 1) /\ was(j) \in Blocks(k) /\ was(j) \in 1..n \ {i}
      BY <1>4, <1>8, <2>1 DEF Innermost
    <3>2. ASSUME NEW l \in Blocks(k), l # i PROVE l <= was(j)
      <4>1. PICK q \in Blocks(k)' : l = was(q)
        BY <1>8, <3>2
      <4>2. QED
        BY <1>4, <1>8, <3>1, <4>1
    <3>3. CASE k \in DOMAIN saved
      <4>1. i \in Blocks(k)
        BY <1>8, <3>3
      <4>2. was(j) < i
        BY <1>1, <1>8, <3>1, <4>1
      <4>3. Around(was(j), i, k)
        BY <1>1, <1>8, <3>1, <3>2, <4>2 DEF Around
      <4>4. saved[k] = Argument(open[was(j)].request, k)
        BY <1>8, <3>1, <4>1, <4>3 DEF ParamsInv, SavedTheBlockAround, saved
      <4>5. QED
        BY <1>2, <1>3, <1>8, <3>1, <3>3, <4>4 DEF Updated
    <3>4. CASE k \notin DOMAIN saved
      <4>1. Innermost(was(j), k)
        BY <1>8, <3>1, <3>2, <3>4 DEF Innermost
      <4>2. params[k] = Argument(open[was(j)].request, k)
        BY <1>8, <3>1, <4>1 DEF ParamsInv, InnermostInForce
      <4>3. QED
        BY <1>2, <1>3, <1>8, <3>1, <3>4, <4>2 DEF Updated
    <3>5. QED
      BY <3>3, <3>4
  <2>2. QED
    BY <2>1 DEF InnermostInForce
<1>12. NestedBlocksRestore'
  <2>1. ASSUME NEW k \in Key \ crossed', Blocks(k)' = {}
        PROVE  params'[k] = Default
    <3>1. k \in Key \ crossed /\ \A l \in Blocks(k) : l = i
      BY <1>8, <2>1
    <3>2. CASE k \in DOMAIN saved
      <4>1. i \in Blocks(k) /\ \A j \in Blocks(k) : i <= j
        BY <1>1, <1>8, <3>1, <3>2
      <4>2. saved[k] = Default
        BY <3>1, <4>1 DEF ParamsInv, OutermostSavedDefault, saved
      <4>3. QED
        BY <1>2, <3>1, <3>2, <4>2 DEF Updated
    <3>3. CASE k \notin DOMAIN saved
      <4>1. Blocks(k) = {}
        BY <1>8, <3>1, <3>3
      <4>2. params[k] = Default
        BY <3>1, <4>1 DEF ParamsInv, NestedBlocksRestore
      <4>3. QED
        BY <1>2, <3>1, <3>3, <4>2 DEF Updated
    <3>4. QED
      BY <3>2, <3>3
  <2>2. QED
    BY <2>1 DEF NestedBlocksRestore
<1>13. QED
  BY <1>5, <1>6, <1>9, <1>10, <1>11, <1>12 DEF ParamsInv

LEMMA ParamsInvariant == Spec => []ParamsInv
<1>1. Init => ParamsInv
  <2>1. Init => /\ DOMAIN phase = Request /\ DOMAIN given = Request
                /\ open = <<>> /\ DOMAIN open = {} /\ params = Defaults
    BY DEF Init
  <2>2. IsSequence(<<>>)
    BY DEF IsSequence
  <2>3. QED
    BY <2>1, <2>2 DEF ParamsInv, OneBlockEach, OutermostSavedDefault,
       SavedTheBlockAround, InnermostInForce, NestedBlocksRestore, Blocks, Defaults
<1>2. ParamsInv /\ [Next]_vars => ParamsInv'
  <2> SUFFICES ASSUME ParamsInv, [Next]_vars PROVE ParamsInv'
    OBVIOUS
  <2>1. ASSUME NEW r \in Request, Enter(r) PROVE ParamsInv'
    BY <2>1, EnterSafe
  <2>2. ASSUME NEW r \in Request, Exit(r) \/ ExitOnError(r) PROVE ParamsInv'
    <3>1. PICK i \in DOMAIN open :
            /\ Leave(i)
            /\ \E next : phase' = [phase EXCEPT ![open[i].request] = next]
      BY <2>2, Zenon DEF Exit, ExitOnError
    <3>2. PICK next : phase' = [phase EXCEPT ![open[i].request] = next]
      BY <3>1
    <3>3. QED
      BY <3>1, <3>2, LeaveSafe
  <2>3. ASSUME NEW r \in Request, EngineReads(r) PROVE ParamsInv'
    BY <2>3 DEF EngineReads, ParamsInv, OneBlockEach, OutermostSavedDefault, Around,
       SavedTheBlockAround, InnermostInForce, NestedBlocksRestore, Blocks, Innermost
  <2>4. CASE UNCHANGED vars
    BY <2>4 DEF vars, ParamsInv, OneBlockEach, OutermostSavedDefault, Around,
       SavedTheBlockAround, InnermostInForce, NestedBlocksRestore, Blocks, Innermost
  <2>5. QED
    BY <2>1, <2>2, <2>3, <2>4 DEF Next
<1>3. QED
  BY <1>1, <1>2, PTL DEF Spec

\* Whenever the engine reads the parameters of a call, it finds the call's own
\* value in every key that was never crossed and that no later block overrides
\* (the override and the finally of update_sampling_params), for any number of
\* requests.
THEOREM InnermostReadsItsOwn == Spec => ReadsOwnArguments
<1>1. ASSUME ParamsInv, [Next]_vars,
             NEW i \in DOMAIN open, NEW k \in Key \ crossed,
             given[open[i].request] = Unread, given'[open[i].request] # Unread,
             Innermost(i, k)
      PROVE  given'[open[i].request][k] = Argument(open[i].request, k)
  <2>1. params[k] = Argument(open[i].request, k)
    BY <1>1 DEF ParamsInv, InnermostInForce, Innermost
  <2>2. \A r \in Request : ~Enter(r)
    BY <1>1 DEF Enter
  <2>3. ASSUME NEW r \in Request, Exit(r) \/ ExitOnError(r) PROVE FALSE
    <3>1. PICK j \in DOMAIN open : Leave(j)
      BY <2>3 DEF Exit, ExitOnError
    <3>2. QED
      BY <1>1, <3>1 DEF Leave, ParamsInv, OneBlockEach
  <2>4. PICK r \in Request : EngineReads(r)
    BY <1>1, <2>2, <2>3 DEF Next, vars
  <2>5. given' = [given EXCEPT ![r] = params] /\ open[i].request \in DOMAIN given
    BY <1>1, <2>4 DEF EngineReads, ParamsInv, OneBlockEach
  <2>6. open[i].request = r
    BY <1>1, <2>5
  <2>7. QED
    BY <2>1, <2>5, <2>6
<1>2. ParamsInv /\ [Next]_vars =>
        [\A i \in DOMAIN open, k \in Key \ crossed :
           LET r == open[i].request
           IN  given[r] = Unread /\ given'[r] # Unread /\ Innermost(i, k)
                 => given'[r][k] = Argument(r, k)]_vars
  BY <1>1
<1>3. QED
  BY <1>2, ParamsInvariant, PTL DEF Spec, ReadsOwnArguments

\* A key whose blocks were left in nested order has its original value once all
\* of them are left, also when calls fail (the finally of update_sampling_params).
THEOREM BlocksAreUndone == Spec => []NestedBlocksRestore
<1>1. ParamsInv => NestedBlocksRestore
  BY DEF ParamsInv
<1>2. QED
  BY <1>1, ParamsInvariant, PTL

===============================================================================
