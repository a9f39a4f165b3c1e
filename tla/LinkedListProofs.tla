-------------------------- MODULE LinkedListProofs --------------------------
(***************************************************************************)
(* The list of Lab 7 proved for any number of nodes, any values and either *)
(* edition of linkedlist.c: the types, the shape of the chain, and that    *)
(* every call does what ListContract says.                                 *)
(***************************************************************************)
EXTENDS LinkedList, SequencesExt, SequenceTheorems, WellFoundedInduction, TLAPS

-----------------------------------------------------------------------------
(* Walking the links *)

(* A nonempty set of naturals has a least element: what the lemmas below   *)
(* use in place of an induction over the length of a walk.                 *)
LEMMA LeastNatural ==
    ASSUME NEW T, T \subseteq Nat, T # {}
    PROVE  \E m \in T : \A k \in T : m <= k
<1>1. \E x \in T : \A y \in T : <<y, x>> \notin OpToRel(<, Nat)
  BY NatLessThanWellFounded, WFMin, Zenon
<1>2. PICK x \in T : \A y \in T : <<y, x>> \notin OpToRel(<, Nat)
  BY <1>1
<1>3. x \in Nat
  OBVIOUS
<1>4. \A y \in Nat : y < x => <<y, x>> \in OpToRel(<, Nat)
  BY <1>3 DEF OpToRel
<1>5. \A y \in T : y \in Nat /\ ~(y < x)
  BY <1>2, <1>4
<1> QED
  BY <1>3, <1>5

(* Two functions that start alike and continue alike are alike: the walk   *)
(* of __jumpToNode is determined by its first node and its links.          *)
LEMMA WalkAlong ==
    ASSUME NEW first, NEW link, NEW nodes, NEW n \in Nat, NEW c,
           c[0] = first,
           \A i \in 1..n : c[i] = IF c[i - 1] \in nodes THEN link[c[i - 1]] ELSE NULL
    PROVE  WalkFrom(first, link, nodes, n) = c[n]
<1> DEFINE Onward(a) == IF a \in nodes THEN link[a] ELSE NULL
           Step(f) == [i \in 0..n |-> IF i = 0 THEN first
                                      ELSE IF f[i - 1] \in nodes THEN link[f[i - 1]] ELSE NULL]
           d == [i \in 0..n |-> c[i]]
           g == CHOOSE f : f = Step(f)
<1>1. d = Step(d)
  <2>1. ASSUME NEW i \in 0..n
        PROVE  d[i] = Step(d)[i]
    <3>1. CASE i = 0
      BY <3>1
    <3>2. CASE i # 0
      <4>1. i \in 1..n /\ i - 1 \in 0..n
        BY <3>2
      <4>2. c[i] = Onward(c[i - 1])
        BY <4>1
      <4>3. d[i] = c[i] /\ d[i - 1] = c[i - 1]
        BY <4>1
      <4>4. Step(d)[i] = Onward(d[i - 1])
        BY <3>2
      <4> QED
        BY <4>2, <4>3, <4>4
    <3> QED
      BY <3>1, <3>2
  <2> QED
    BY <2>1
<1>2. g = Step(g)
  BY <1>1
<1>3. WalkFrom(first, link, nodes, n) = g[n]
  BY DEF WalkFrom
<1> HIDE DEF g
<1>4. \A i \in 0..n : g[i] = IF i = 0 THEN first
                             ELSE IF g[i - 1] \in nodes THEN link[g[i - 1]] ELSE NULL
  BY <1>2
<1> DEFINE Apart == {i \in 0..n : g[i] # c[i]}
<1>5. Apart = {}
  <2> SUFFICES ASSUME Apart # {} PROVE FALSE
    OBVIOUS
  <2>1. Apart \subseteq Nat
    OBVIOUS
  <2>2. PICK m \in Apart : \A k \in Apart : m <= k
    <3> HIDE DEF Apart
    <3> QED
      BY <2>1, LeastNatural
  <2>3. m \in 0..n /\ g[m] # c[m]
    BY <2>2
  <2>4. CASE m = 0
    BY <1>4, <2>3, <2>4
  <2>5. CASE m # 0
    <3>1. m \in 1..n /\ m - 1 \in 0..n /\ m - 1 \notin Apart
      BY <2>2, <2>3, <2>5
    <3>2. g[m - 1] = c[m - 1]
      BY <3>1
    <3>3. g[m] = Onward(g[m - 1])
      BY <1>4, <2>3, <2>5
    <3>4. c[m] = Onward(c[m - 1])
      BY <3>1
    <3> QED
      BY <2>3, <3>2, <3>3, <3>4
  <2> QED
    BY <2>4, <2>5
<1> QED
  BY <1>3, <1>5

(* c lists n nodes that the links lead along, starting at the first one.   *)
Runs(first, link, nodes, n, c) ==
    /\ n \in Nat
    /\ c \in [1..n -> nodes]
    /\ n # 0 => first = c[1]
    /\ \A i \in 1..(n - 1) : link[c[i]] = c[i + 1]

(* Walking k links along such a list ends at its node k, counted from 0.   *)
LEMMA WalkInChain ==
    ASSUME NEW first, NEW link, NEW nodes, NEW n, NEW c, Runs(first, link, nodes, n, c),
           NEW k \in Nat, k < n
    PROVE  WalkFrom(first, link, nodes, k) = c[k + 1]
<1> DEFINE d == [i \in 0..k |-> c[i + 1]]
<1> USE DEF Runs
<1>1. d[0] = first
  OBVIOUS
<1>2. ASSUME NEW i \in 1..k
      PROVE  d[i] = IF d[i - 1] \in nodes THEN link[d[i - 1]] ELSE NULL
  <2>1. d[i] = c[i + 1] /\ d[i - 1] = c[i]
    OBVIOUS
  <2>2. i \in 1..(n - 1) /\ c[i] \in nodes
    OBVIOUS
  <2> QED
    BY <2>1, <2>2
<1>3. d[k] = c[k + 1]
  OBVIOUS
<1> HIDE DEF d
<1> QED
  BY <1>1, <1>2, <1>3, WalkAlong

(* From NULL there is nowhere to go.                                       *)
LEMMA WalkFromNull ==
    ASSUME NEW link, NEW nodes, NULL \notin nodes, NEW n \in Nat
    PROVE  WalkFrom(NULL, link, nodes, n) = NULL
<1> DEFINE d == [i \in 0..n |-> NULL]
<1>1. d[0] = NULL /\ d[n] = NULL
  OBVIOUS
<1>2. \A i \in 1..n : d[i] = IF d[i - 1] \in nodes THEN link[d[i - 1]] ELSE NULL
  OBVIOUS
<1> HIDE DEF d
<1> QED
  BY <1>1, <1>2, WalkAlong

-----------------------------------------------------------------------------
(* Chains *)

(* The chain with one more node behind its first ix, and the chain without *)
(* its node ix (counted from 0, like the indices of the list).             *)
Spliced(c, n, ix, new) ==
    [j \in 1..(n + 1) |-> IF j <= ix THEN c[j] ELSE IF j = ix + 1 THEN new ELSE c[j - 1]]

Cut(c, n, ix) == [j \in 1..(n - 1) |-> IF j <= ix THEN c[j] ELSE c[j + 1]]

(* insertVal: whichever way the new node is linked, the result is the      *)
(* chain with the node at its place.                                       *)
LEMMA SplicedIsChain ==
    ASSUME TypeOK, NEW c, IsChain(c), NEW ix \in 0..size, NEW new \in Addr \ live,
           live' = live \cup {new}, size' = size + 1,
           \/ size = 0 /\ initList(new)
           \/ size # 0 /\ ix = 0 /\ prependNode(new)
           \/ size # 0 /\ ix = size /\ appendNode(new)
           \/ 0 < ix /\ ix < size /\ linkBefore(new, c[ix + 1]),
           NEW d, d = Spliced(c, size, ix, new)
    PROVE  IsChain(d)'
<1> USE NullAssumption
<1>1. /\ size \in Nat
      /\ live \subseteq Addr
      /\ next \in [Addr -> Pointer] /\ prev \in [Addr -> Pointer]
  BY DEF TypeOK
<1>2. /\ c \in [1..size -> live]
      /\ \A i, j \in 1..size : c[i] = c[j] => i = j
      /\ \A a \in live : \E i \in 1..size : c[i] = a
  BY DEF IsChain
<1>3. d = [j \in 1..(size + 1) |-> IF j <= ix THEN c[j] ELSE IF j = ix + 1 THEN new ELSE c[j - 1]]
  BY DEF Spliced
<1>4. /\ \A j \in 1..ix : d[j] = c[j]
      /\ d[ix + 1] = new
      /\ \A j \in (ix + 2)..(size + 1) : d[j] = c[j - 1] /\ j - 1 \in 1..size
  BY <1>1, <1>3
<1>5. d \in [1..size' -> live']
  BY <1>1, <1>2, <1>3
<1>6. \A i, j \in 1..size' : d[i] = d[j] => i = j
  BY <1>1, <1>2, <1>3
<1>7. ASSUME NEW a \in live' PROVE \E i \in 1..size' : d[i] = a
  <2>1. CASE a = new
    BY <1>1, <1>4, <2>1
  <2>2. CASE a \in live
    <3>1. PICK i \in 1..size : c[i] = a
      BY <1>2, <2>2
    <3>2. CASE i <= ix
      BY <1>1, <1>4, <3>1, <3>2
    <3>3. CASE i > ix
      BY <1>1, <1>4, <3>1, <3>3
    <3> QED
      BY <1>1, <3>2, <3>3
  <2> QED
    BY <2>1, <2>2
<1> DEFINE Ends == /\ head' = d[1] /\ tail' = d[size']
                   /\ prev'[d[1]] = NULL /\ next'[d[size']] = NULL
           Links == \A j \in 1..(size' - 1) : next'[d[j]] = d[j + 1] /\ prev'[d[j + 1]] = d[j]
<1>8. CASE size = 0 /\ initList(new)
  BY <1>1, <1>3, <1>5, <1>6, <1>7, <1>8 DEF IsChain, initList
<1>9. CASE size # 0
  <2>1. /\ head = c[1] /\ tail = c[size]
        /\ prev[c[1]] = NULL /\ next[c[size]] = NULL
        /\ \A j \in 1..(size - 1) : next[c[j]] = c[j + 1] /\ prev[c[j + 1]] = c[j]
    BY <1>9 DEF IsChain
  <2>2. Ends /\ Links
    <3>1. CASE ix = 0 /\ prependNode(new)
      BY <1>1, <1>2, <1>3, <1>4, <1>9, <2>1, <3>1 DEF prependNode
    <3>2. CASE ix = size /\ appendNode(new)
      BY <1>1, <1>2, <1>3, <1>4, <1>9, <2>1, <3>2 DEF appendNode
    <3>3. CASE 0 < ix /\ ix < size /\ linkBefore(new, c[ix + 1])
      <4>1. /\ next' = [next EXCEPT ![new] = c[ix + 1], ![prev[c[ix + 1]]] = new]
            /\ prev' = [prev EXCEPT ![new] = prev[c[ix + 1]], ![c[ix + 1]] = new]
            /\ head' = head /\ tail' = tail
        BY <3>3 DEF linkBefore
      <4>2. prev[c[ix + 1]] = c[ix]
        BY <1>1, <2>1, <3>3
      <4>3. Ends
        BY <1>1, <1>2, <1>3, <1>4, <2>1, <3>3, <4>1, <4>2
      <4>4. ASSUME NEW j \in 1..size
            PROVE  next'[d[j]] = d[j + 1] /\ prev'[d[j + 1]] = d[j]
        <5>1. CASE j < ix
          BY <1>1, <1>2, <1>4, <2>1, <3>3, <4>1, <4>2, <5>1
        <5>2. CASE j = ix \/ j = ix + 1
          BY <1>1, <1>2, <1>4, <2>1, <3>3, <4>1, <4>2, <5>2
        <5>3. CASE j > ix + 1
          BY <1>1, <1>2, <1>4, <2>1, <3>3, <4>1, <4>2, <5>3
        <5> QED
          BY <1>1, <5>1, <5>2, <5>3
      <4> QED
        BY <1>1, <4>3, <4>4
    <3>4. \/ ix = 0 /\ prependNode(new)
          \/ ix = size /\ appendNode(new)
          \/ 0 < ix /\ ix < size /\ linkBefore(new, c[ix + 1])
      BY <1>9, Zenon
    <3> QED
      BY <3>1, <3>2, <3>3, <3>4, Zenon
  <2>3. size' # 0
    BY <1>1
  <2> QED
    BY <1>5, <1>6, <1>7, <2>2, <2>3, Zenon DEF IsChain
<1> QED
  BY <1>8, <1>9

(* deleteVal: whichever way the node is unlinked, the result is the chain  *)
(* without it.                                                             *)
LEMMA CutIsChain ==
    ASSUME TypeOK, NEW c, IsChain(c), NEW ix \in 0..(size - 1),
           live' = live \ {c[ix + 1]}, size' = size - 1,
           \/ size = 1 /\ head' = NULL /\ tail' = NULL
           \/ size > 1 /\ ix = 0 /\ unlinkFirst
           \/ size > 1 /\ ix = size - 1 /\ unlinkLast
           \/ 0 < ix /\ ix < size - 1 /\ unlink(c[ix + 1]),
           NEW d, d = Cut(c, size, ix)
    PROVE  IsChain(d)'
<1> USE NullAssumption
<1>1. /\ size \in Nat
      /\ live \subseteq Addr
      /\ next \in [Addr -> Pointer] /\ prev \in [Addr -> Pointer]
  BY DEF TypeOK
<1>2. /\ c \in [1..size -> live]
      /\ \A i, j \in 1..size : c[i] = c[j] => i = j
      /\ \A a \in live : \E i \in 1..size : c[i] = a
      /\ head = c[1] /\ tail = c[size]
      /\ prev[c[1]] = NULL /\ next[c[size]] = NULL
      /\ \A j \in 1..(size - 1) : next[c[j]] = c[j + 1] /\ prev[c[j + 1]] = c[j]
  BY <1>1 DEF IsChain
<1>3. d = [j \in 1..(size - 1) |-> IF j <= ix THEN c[j] ELSE c[j + 1]]
  BY DEF Cut
<1>4. /\ \A j \in 1..ix : j < size => d[j] = c[j]
      /\ \A j \in (ix + 1)..(size - 1) : d[j] = c[j + 1] /\ j + 1 \in 1..size
  BY <1>1, <1>3
<1>5. d \in [1..size' -> live']
  <2>1. ASSUME NEW j \in 1..(size - 1)
        PROVE  d[j] \in live /\ d[j] # c[ix + 1]
    <3>1. CASE j <= ix
      BY <1>1, <1>2, <1>4, <3>1
    <3>2. CASE j > ix
      BY <1>1, <1>2, <1>4, <3>2
    <3> QED
      BY <1>1, <3>1, <3>2
  <2> QED
    BY <1>1, <1>3, <2>1
<1>6. \A i, j \in 1..size' : d[i] = d[j] => i = j
  BY <1>1, <1>2, <1>3
<1>7. ASSUME NEW a \in live' PROVE \E i \in 1..size' : d[i] = a
  <2>1. PICK i \in 1..size : c[i] = a
    BY <1>2
  <2>2. i # ix + 1
    BY <2>1
  <2>3. CASE i <= ix
    BY <1>1, <1>4, <2>1, <2>3
  <2>4. CASE i > ix + 1
    <3>1. i - 1 \in (ix + 1)..(size - 1)
      BY <1>1, <2>4
    <3> QED
      BY <1>1, <1>4, <2>1, <3>1
  <2> QED
    BY <1>1, <2>2, <2>3, <2>4
<1> DEFINE Ends == /\ head' = d[1] /\ tail' = d[size']
                   /\ prev'[d[1]] = NULL /\ next'[d[size']] = NULL
           Links == \A j \in 1..(size' - 1) : next'[d[j]] = d[j + 1] /\ prev'[d[j + 1]] = d[j]
<1>8. CASE size = 1
  <2>1. size' = 0
    BY <1>8
  <2>2. head' = NULL /\ tail' = NULL
    BY <1>8
  <2>3. Links
    BY <2>1
  <2> QED
    BY <1>5, <1>6, <1>7, <2>1, <2>2, <2>3, Zenon DEF IsChain
<1>9. CASE size > 1
  <2>1. Ends /\ Links
    <3>1. CASE ix = 0 /\ unlinkFirst
      BY <1>1, <1>2, <1>3, <1>4, <1>9, <3>1 DEF unlinkFirst
    <3>2. CASE ix = size - 1 /\ unlinkLast
      <4>1. /\ next' = [next EXCEPT ![c[size - 1]] = NULL]
            /\ tail' = c[size - 1] /\ head' = head /\ prev' = prev
        <5>1. prev[c[size]] = c[size - 1]
          BY <1>1, <1>2, <1>9
        <5> QED
          BY <1>2, <3>2, <5>1 DEF unlinkLast
      <4> QED
        BY <1>1, <1>2, <1>3, <1>4, <1>9, <3>2, <4>1
    <3>3. CASE 0 < ix /\ ix < size - 1 /\ unlink(c[ix + 1])
      <4>1. /\ next' = [next EXCEPT ![c[ix]] = c[ix + 2]]
            /\ prev' = [prev EXCEPT ![c[ix + 2]] = c[ix]]
            /\ head' = head /\ tail' = tail
        <5>1. prev[c[ix + 1]] = c[ix]
          BY <1>1, <1>2, <3>3
        <5>2. next[c[ix + 1]] = c[ix + 2]
          BY <1>1, <1>2, <3>3
        <5> QED
          BY <3>3, <5>1, <5>2 DEF unlink
      <4>2. Ends
        BY <1>1, <1>2, <1>3, <1>4, <3>3, <4>1
      <4>3. ASSUME NEW j \in 1..(size - 2)
            PROVE  next'[d[j]] = d[j + 1] /\ prev'[d[j + 1]] = d[j]
        <5>1. CASE j < ix
          BY <1>1, <1>2, <1>4, <3>3, <4>1, <5>1
        <5>2. CASE j = ix
          BY <1>1, <1>2, <1>4, <3>3, <4>1, <5>2
        <5>3. CASE j > ix
          BY <1>1, <1>2, <1>4, <3>3, <4>1, <5>3
        <5> QED
          BY <1>1, <5>1, <5>2, <5>3
      <4> QED
        BY <1>1, <4>2, <4>3
    <3>4. \/ ix = 0 /\ unlinkFirst
          \/ ix = size - 1 /\ unlinkLast
          \/ 0 < ix /\ ix < size - 1 /\ unlink(c[ix + 1])
      <4>1. size # 1
        BY <1>9
      <4> QED
        BY <4>1, Zenon
    <3> QED
      BY <3>1, <3>2, <3>3, <3>4, Zenon
  <2>2. size' # 0
    BY <1>1, <1>9
  <2> QED
    BY <1>5, <1>6, <1>7, <2>1, <2>2, Zenon DEF IsChain
<1> QED
  BY <1>1, <1>8, <1>9

-----------------------------------------------------------------------------
(* Sequences *)

(* What InsertAt and RemoveAt leave at each position. *)
LEMMA InsertAtPositions ==
    ASSUME NEW S, NEW s \in Seq(S), NEW i \in 1..(Len(s) + 1), NEW e \in S
    PROVE  /\ InsertAt(s, i, e) \in [1..(Len(s) + 1) -> S]
           /\ \A j \in 1..(Len(s) + 1) :
                /\ j < i => InsertAt(s, i, e)[j] = s[j]
                /\ j = i => InsertAt(s, i, e)[j] = e
                /\ j > i => InsertAt(s, i, e)[j] = s[j - 1]
<1> DEFINE a == SubSeq(s, 1, i - 1) \o <<e>>
           b == SubSeq(s, i, Len(s))
           r == [j \in 1..(Len(s) + 1) |-> IF j < i THEN s[j] ELSE IF j = i THEN e ELSE s[j - 1]]
           w == a \o b
<1>1. /\ a \in Seq(S) /\ Len(a) = i
      /\ \A j \in 1..i : a[j] = IF j < i THEN s[j] ELSE e
  <2> DEFINE f == SubSeq(s, 1, i - 1)
  <2>1. /\ f \in Seq(S) /\ Len(f) = i - 1
        /\ \A j \in 1..(i - 1) : f[j] = s[j]
    BY SubSeqProperties
  <2> HIDE DEF f
  <2>2. f \o <<e>> \in Seq(S) /\ Len(f \o <<e>>) = i
    BY <2>1
  <2>3. \A j \in 1..i : (f \o <<e>>)[j] = IF j < i THEN s[j] ELSE e
    BY <2>1
  <2> QED
    BY <2>2, <2>3 DEF f
<1>2. /\ b \in Seq(S) /\ Len(b) = Len(s) - i + 1
      /\ \A j \in 1..(Len(s) - i + 1) : b[j] = s[i + j - 1]
  BY SubSeqProperties
<1>3. r \in Seq(S) /\ Len(r) = Len(s) + 1
  OBVIOUS
<1>4. InsertAt(s, i, e) = w
  BY DEF InsertAt
<1> HIDE DEF a, b
<1>5. /\ w \in Seq(S) /\ Len(w) = Len(a) + Len(b)
      /\ \A j \in 1..(Len(a) + Len(b)) : w[j] = IF j <= Len(a) THEN a[j] ELSE b[j - Len(a)]
  BY <1>1, <1>2, ConcatProperties
<1> HIDE DEF w
<1>6. ASSUME NEW j \in 1..Len(r) PROVE w[j] = r[j]
  <2>1. CASE j <= i
    BY <1>1, <1>2, <1>3, <1>5, <2>1
  <2>2. CASE j > i
    BY <1>1, <1>2, <1>3, <1>5, <2>2
  <2> QED
    BY <1>3, <2>1, <2>2
<1>7. Len(w) = Len(r)
  BY <1>1, <1>2, <1>3, <1>5
<1>8. w = r
  <2> HIDE DEF r
  <2> QED
    BY <1>3, <1>5, <1>6, <1>7, SeqEqual
<1> QED
  BY <1>4, <1>8

(* Inserting into the empty sequence. *)
LEMMA InsertAtEmpty ==
    ASSUME NEW e
    PROVE  InsertAt(<< >>, 0 + 1, e) = <<e>>
<1>1. SubSeq(<< >>, 1, (0 + 1) - 1) = << >>
  BY SubSeqEmpty
<1>2. SubSeq(<< >>, 0 + 1, Len(<< >>)) = << >>
  BY SubSeqEmpty
<1>3. << >> \o <<e>> \o << >> = <<e>>
  OBVIOUS
<1> QED
  BY <1>1, <1>2, <1>3, Zenon DEF InsertAt

(* The sequence without its i-th element, position by position. *)
LEMMA RemoveAtPositions ==
    ASSUME NEW S, NEW s \in Seq(S), NEW i \in 1..Len(s)
    PROVE  /\ RemoveAt(s, i) \in [1..(Len(s) - 1) -> S]
           /\ \A j \in 1..(Len(s) - 1) :
                RemoveAt(s, i)[j] = IF j < i THEN s[j] ELSE s[j + 1]
<1> DEFINE a == SubSeq(s, 1, i - 1)
           b == SubSeq(s, i + 1, Len(s))
           r == [j \in 1..(Len(s) - 1) |-> IF j < i THEN s[j] ELSE s[j + 1]]
           w == a \o b
<1>1. /\ a \in Seq(S) /\ Len(a) = i - 1
      /\ \A j \in 1..(i - 1) : a[j] = s[j]
  BY SubSeqProperties
<1>2. /\ b \in Seq(S) /\ Len(b) = Len(s) - i
      /\ \A j \in 1..(Len(s) - i) : b[j] = s[i + j]
  BY SubSeqProperties
<1>3. /\ r \in Seq(S) /\ Len(r) = Len(s) - 1
      /\ \A j \in 1..(Len(s) - 1) : r[j] = IF j < i THEN s[j] ELSE s[j + 1]
  OBVIOUS
<1>4. RemoveAt(s, i) = w
  BY DEF RemoveAt
<1> HIDE DEF a, b
<1>5. /\ w \in Seq(S) /\ Len(w) = Len(a) + Len(b)
      /\ \A j \in 1..(Len(a) + Len(b)) : w[j] = IF j <= Len(a) THEN a[j] ELSE b[j - Len(a)]
  BY <1>1, <1>2, ConcatProperties
<1> HIDE DEF r, w
<1>6. ASSUME NEW j \in 1..Len(r) PROVE w[j] = r[j]
  <2>0. w[j] = IF j <= i - 1 THEN a[j] ELSE b[j - (i - 1)]
    <3>1. j \in 1..(Len(a) + Len(b))
      BY <1>1, <1>2, <1>3
    <3> QED
      BY <1>1, <1>5, <3>1
  <2>1. CASE j < i
    <3>1. w[j] = a[j] /\ a[j] = s[j]
      BY <1>1, <1>3, <2>0, <2>1
    <3> QED
      BY <1>3, <2>1, <3>1
  <2>2. CASE j >= i
    <3>1. j - (i - 1) \in 1..(Len(s) - i) /\ ~(j <= i - 1)
      BY <1>3, <2>2
    <3>2. w[j] = b[j - (i - 1)]
      BY <2>0, <3>1
    <3>3. b[j - (i - 1)] = s[i + (j - (i - 1))]
      BY <1>2, <3>1
    <3>4. r[j] = s[j + 1]
      BY <1>3, <2>2
    <3> QED
      BY <3>2, <3>3, <3>4
  <2> QED
    BY <1>3, <2>1, <2>2
<1>7. Len(w) = Len(r)
  BY <1>1, <1>2, <1>3, <1>5
<1>8. w = r
  BY <1>3, <1>5, <1>6, <1>7, SeqEqual
<1> QED
  BY <1>4, <1>8 DEF r

-----------------------------------------------------------------------------
(* Calls *)

(* The invariant that is inductive: types and the chain.  The types alone  *)
(* do not say that jumpToNode stays among the nodes.                       *)
IInv == TypeOK /\ WellLinked

(* What a chain says of the walk and of the contents before a call ...     *)
LEMMA ChainNow ==
    ASSUME TypeOK, NEW c, IsChain(c)
    PROVE  /\ contents = [i \in 1..size |-> val[c[i]]]
           /\ contents \in Seq(Val) /\ Len(contents) = size
           /\ \A ix \in Nat : ix < size => jumpToNode(ix) = c[ix + 1]
<1>1. Runs(head, next, live, size, c)
  BY DEF TypeOK, IsChain, Runs
<1>2. \A ix \in Nat : ix < size => jumpToNode(ix) = c[ix + 1]
  BY <1>1, WalkInChain DEF jumpToNode
<1>3. /\ size \in Nat /\ c \in [1..size -> live]
      /\ live \subseteq Addr /\ val \in [Addr -> Val]
  BY DEF TypeOK, IsChain
<1>4. \A i \in 1..size : i - 1 \in Nat /\ i - 1 < size /\ (i - 1) + 1 = i
  BY <1>3
<1>5. \A i \in 1..size : jumpToNode(i - 1) = c[i] /\ val[c[i]] \in Val
  BY <1>2, <1>3, <1>4
<1>6. contents = [i \in 1..size |-> val[c[i]]]
  BY <1>5 DEF contents
<1> QED
  BY <1>2, <1>3, <1>5, <1>6

(* ... and after it. *)
LEMMA ChainNext ==
    ASSUME TypeOK', NEW d, IsChain(d)'
    PROVE  contents' = [i \in 1..size' |-> val'[d[i]]]
<1>1. Runs(head', next', live', size', d)
  BY DEF TypeOK, IsChain, Runs
<1>2. \A ix \in Nat : ix < size' => WalkFrom(head', next', live', ix) = d[ix + 1]
  BY <1>1, WalkInChain
<1>3. size' \in Nat
  BY DEF TypeOK
<1>4. \A i \in 1..size' : i - 1 \in Nat /\ i - 1 < size' /\ (i - 1) + 1 = i
  BY <1>3
<1>5. \A i \in 1..size' : WalkFrom(head', next', live', i - 1) = d[i]
  BY <1>2, <1>4
<1> QED
  BY <1>5 DEF contents, jumpToNode

(* A call that links nothing keeps the chain and the contents.             *)
LEMMA StillChain ==
    ASSUME IInv, UNCHANGED <<list, fields, live>>, fault' \in BOOLEAN
    PROVE  IInv' /\ contents' = contents
<1>1. /\ head' = head /\ tail' = tail /\ size' = size
      /\ val' = val /\ next' = next /\ prev' = prev /\ live' = live
  BY DEF list, fields
<1>2. TypeOK'
  BY <1>1 DEF IInv, TypeOK
<1>3. WellLinked'
  <2>1. PICK c \in [1..size -> live] : IsChain(c)
    BY DEF IInv, WellLinked
  <2>2. IsChain(c)'
    BY <1>1, <2>1 DEF IsChain
  <2> QED
    BY <1>1, <2>1, <2>2 DEF WellLinked
<1>4. contents' = contents
  BY <1>1 DEF contents, jumpToNode
<1> QED
  BY <1>2, <1>3, <1>4 DEF IInv

(* A call that links a new node at place ix. *)
LEMMA LinkedCall ==
    ASSUME IInv, NEW c, IsChain(c), NEW ix \in 0..size, NEW v \in Val, NEW new \in Addr \ live,
           newNode(new, v), size' = size + 1, Return(OK),
           \/ size = 0 /\ initList(new)
           \/ size # 0 /\ ix = 0 /\ prependNode(new)
           \/ size # 0 /\ ix = size /\ appendNode(new)
           \/ 0 < ix /\ ix < size /\ linkBefore(new, c[ix + 1])
    PROVE  IInv' /\ contents' = InsertAt(contents, ix + 1, v)
<1>0. PICK d : d = Spliced(c, size, ix, new)
  OBVIOUS
<1>1. /\ size \in Nat /\ c \in [1..size -> live] /\ live \subseteq Addr
      /\ val \in [Addr -> Val]
      /\ head \in Pointer /\ tail \in Pointer
      /\ next \in [Addr -> Pointer] /\ prev \in [Addr -> Pointer]
      /\ fault \in BOOLEAN
  BY DEF IInv, TypeOK, IsChain
<1>2. /\ live' = live \cup {new}
      /\ val' = [val EXCEPT ![new] = v]
      /\ fault' = fault
  BY DEF newNode, Return
<1>3. TypeOK'
  <2>1. /\ size' \in Nat /\ val' \in [Addr -> Val]
        /\ live' \in SUBSET Addr /\ fault' \in BOOLEAN
    BY <1>1, <1>2
  <2>2. /\ head' \in Pointer /\ tail' \in Pointer
        /\ next' \in [Addr -> Pointer] /\ prev' \in [Addr -> Pointer]
    <3>1. CASE size = 0 /\ initList(new)
      BY <1>1, <3>1 DEF initList, Pointer
    <3>2. CASE prependNode(new)
      BY <1>1, <3>2 DEF prependNode, Pointer
    <3>3. CASE appendNode(new)
      BY <1>1, <3>3 DEF appendNode, Pointer
    <3>4. CASE 0 < ix /\ ix < size /\ linkBefore(new, c[ix + 1])
      <4>1. c[ix + 1] \in Addr
        BY <1>1, <3>4
      <4> QED
        BY <1>1, <3>4, <4>1 DEF linkBefore, Pointer
    <3> QED
      BY <3>1, <3>2, <3>3, <3>4, Zenon
  <2> QED
    BY <2>1, <2>2 DEF TypeOK
<1>4. IsChain(d)'
  <2>1. TypeOK
    BY DEF IInv
  <2> QED
    BY <1>0, <1>2, <2>1, SplicedIsChain
<1>5. WellLinked'
  <2>1. d \in [1..size' -> live']
    BY <1>4 DEF IsChain
  <2> QED
    BY <1>4, <2>1 DEF WellLinked
<1>6. contents' = [i \in 1..size' |-> val'[d[i]]]
  BY <1>3, <1>4, ChainNext
<1>7. /\ contents = [i \in 1..size |-> val[c[i]]]
      /\ contents \in Seq(Val) /\ Len(contents) = size
  BY ChainNow DEF IInv
<1>8. /\ InsertAt(contents, ix + 1, v) \in [1..(size + 1) -> Val]
      /\ \A j \in 1..(size + 1) :
           InsertAt(contents, ix + 1, v)[j] = IF j < ix + 1 THEN contents[j]
                                              ELSE IF j = ix + 1 THEN v ELSE contents[j - 1]
  <2>1. ix + 1 \in 1..(Len(contents) + 1) /\ v \in Val
    BY <1>1, <1>7
  <2> DEFINE w == InsertAt(contents, ix + 1, v)
  <2>2. ASSUME NEW s \in Seq(Val), NEW i \in 1..(Len(s) + 1)
        PROVE  /\ InsertAt(s, i, v) \in [1..(Len(s) + 1) -> Val]
               /\ \A j \in 1..(Len(s) + 1) :
                    /\ j < i => InsertAt(s, i, v)[j] = s[j]
                    /\ j = i => InsertAt(s, i, v)[j] = v
                    /\ j > i => InsertAt(s, i, v)[j] = s[j - 1]
    BY InsertAtPositions
  <2>3. /\ w \in [1..(Len(contents) + 1) -> Val]
        /\ \A j \in 1..(Len(contents) + 1) :
             /\ j < ix + 1 => w[j] = contents[j]
             /\ j = ix + 1 => w[j] = v
             /\ j > ix + 1 => w[j] = contents[j - 1]
    BY <1>7, <2>1, <2>2, Zenon
  <2> HIDE DEF w
  <2>4. /\ w \in [1..(size + 1) -> Val]
        /\ \A j \in 1..(size + 1) :
             w[j] = IF j < ix + 1 THEN contents[j] ELSE IF j = ix + 1 THEN v ELSE contents[j - 1]
    <3>1. Len(contents) + 1 = size + 1
      BY <1>7
    <3>2. ASSUME NEW j \in 1..(size + 1)
          PROVE  w[j] = IF j < ix + 1 THEN contents[j] ELSE IF j = ix + 1 THEN v ELSE contents[j - 1]
      <4>1. /\ j < ix + 1 => w[j] = contents[j]
            /\ j = ix + 1 => w[j] = v
            /\ j > ix + 1 => w[j] = contents[j - 1]
        BY <2>3, <3>1, Zenon
      <4>2. j \in Int /\ ix \in Int
        BY <1>1
      <4> QED
        BY <4>1, <4>2
    <3> QED
      BY <2>3, <3>1, <3>2, Zenon
  <2> QED
    BY <2>4 DEF w
<1>9. ASSUME NEW j \in 1..(size + 1)
      PROVE  val'[d[j]] = IF j < ix + 1 THEN contents[j]
                          ELSE IF j = ix + 1 THEN v ELSE contents[j - 1]
  <2>1. d[j] = IF j <= ix THEN c[j] ELSE IF j = ix + 1 THEN new ELSE c[j - 1]
    BY <1>0 DEF Spliced
  <2>2. CASE j < ix + 1
    <3>1. d[j] = c[j] /\ j \in 1..size
      BY <1>1, <2>1, <2>2
    <3>2. c[j] \in live /\ c[j] \in Addr /\ c[j] # new
      BY <1>1, <3>1
    <3> QED
      BY <1>1, <1>2, <1>7, <2>2, <3>1, <3>2
  <2>3. CASE j = ix + 1
    BY <1>1, <1>2, <2>1, <2>3
  <2>4. CASE j > ix + 1
    <3>1. d[j] = c[j - 1] /\ j - 1 \in 1..size
      BY <1>1, <2>1, <2>4
    <3>2. c[j - 1] \in live /\ c[j - 1] \in Addr /\ c[j - 1] # new
      BY <1>1, <3>1
    <3> QED
      BY <1>1, <1>2, <1>7, <2>4, <3>1, <3>2
  <2> QED
    BY <2>2, <2>3, <2>4
<1>10. contents' = InsertAt(contents, ix + 1, v)
  BY <1>6, <1>8, <1>9, <1>2
<1> QED
  BY <1>3, <1>5, <1>10 DEF IInv

(* A call that unlinks node ix. *)
LEMMA UnlinkedCall ==
    ASSUME IInv, NEW c, IsChain(c), NEW ix \in 0..(size - 1),
           free(c[ix + 1]), size' = size - 1, Return(OK),
           \/ size = 1 /\ head' = NULL /\ tail' = NULL /\ UNCHANGED <<next, prev>>
           \/ size > 1 /\ ix = 0 /\ unlinkFirst
           \/ size > 1 /\ ix = size - 1 /\ unlinkLast
           \/ 0 < ix /\ ix < size - 1 /\ unlink(c[ix + 1])
    PROVE  IInv' /\ contents' = RemoveAt(contents, ix + 1)
<1>0. PICK d : d = Cut(c, size, ix)
  OBVIOUS
<1>1. /\ size \in Nat /\ c \in [1..size -> live] /\ live \subseteq Addr
      /\ \A i, j \in 1..size : c[i] = c[j] => i = j
      /\ head = c[1] /\ tail = c[size]
      /\ val \in [Addr -> Val]
      /\ head \in Pointer /\ tail \in Pointer
      /\ next \in [Addr -> Pointer] /\ prev \in [Addr -> Pointer]
      /\ fault \in BOOLEAN
  BY DEF IInv, TypeOK, IsChain
<1>2. /\ live' = live \ {c[ix + 1]}
      /\ val' = val
      /\ fault' = fault
  BY DEF free, Return
<1>3. TypeOK'
  <2>1. /\ size' \in Nat /\ val' \in [Addr -> Val]
        /\ live' \in SUBSET Addr /\ fault' \in BOOLEAN
    BY <1>1, <1>2
  <2>2. c[ix + 1] \in Addr /\ head \in Addr /\ tail \in Addr
    BY <1>1
  <2>3. /\ head' \in Pointer /\ tail' \in Pointer
        /\ next' \in [Addr -> Pointer] /\ prev' \in [Addr -> Pointer]
    <3>1. CASE head' = NULL /\ tail' = NULL /\ UNCHANGED <<next, prev>>
      BY <1>1, <3>1 DEF Pointer
    <3>2. CASE unlinkFirst
      BY <1>1, <2>2, <3>2 DEF unlinkFirst, Pointer
    <3>3. CASE unlinkLast
      BY <1>1, <2>2, <3>3 DEF unlinkLast, Pointer
    <3>4. CASE unlink(c[ix + 1])
      BY <1>1, <2>2, <3>4 DEF unlink, Pointer
    <3> QED
      BY <3>1, <3>2, <3>3, <3>4, Zenon
  <2> QED
    BY <2>1, <2>3 DEF TypeOK
<1>4. IsChain(d)'
  <2>1. TypeOK
    BY DEF IInv
  <2> QED
    BY <1>0, <1>2, <2>1, CutIsChain
<1>5. WellLinked'
  <2>1. d \in [1..size' -> live']
    BY <1>4 DEF IsChain
  <2> QED
    BY <1>4, <2>1 DEF WellLinked
<1>6. contents' = [i \in 1..size' |-> val'[d[i]]]
  BY <1>3, <1>4, ChainNext
<1>7. /\ contents = [i \in 1..size |-> val[c[i]]]
      /\ contents \in Seq(Val) /\ Len(contents) = size
  BY ChainNow DEF IInv
<1>8. /\ RemoveAt(contents, ix + 1) \in [1..(size - 1) -> Val]
      /\ \A j \in 1..(size - 1) :
           RemoveAt(contents, ix + 1)[j] = IF j < ix + 1 THEN contents[j] ELSE contents[j + 1]
  <2>1. ix + 1 \in 1..Len(contents)
    BY <1>1, <1>7
  <2> DEFINE w == RemoveAt(contents, ix + 1)
  <2>2. /\ w \in [1..(Len(contents) - 1) -> Val]
        /\ \A j \in 1..(Len(contents) - 1) :
             w[j] = IF j < ix + 1 THEN contents[j] ELSE contents[j + 1]
    BY <1>7, <2>1, RemoveAtPositions, Zenon
  <2> HIDE DEF w
  <2>3. /\ w \in [1..(size - 1) -> Val]
        /\ \A j \in 1..(size - 1) :
             w[j] = IF j < ix + 1 THEN contents[j] ELSE contents[j + 1]
    BY <1>7, <2>2
  <2> QED
    BY <2>3 DEF w
<1>9. ASSUME NEW j \in 1..(size - 1)
      PROVE  val'[d[j]] = IF j < ix + 1 THEN contents[j] ELSE contents[j + 1]
  BY <1>0, <1>1, <1>2, <1>7 DEF Cut
<1>10. contents' = RemoveAt(contents, ix + 1)
  <2>1. contents' = [j \in 1..(size - 1) |-> val'[d[j]]]
    BY <1>6
  <2> DEFINE w == RemoveAt(contents, ix + 1)
  <2>2. w \in [1..(size - 1) -> Val] /\ \A j \in 1..(size - 1) : w[j] = val'[d[j]]
    BY <1>8, <1>9
  <2> HIDE DEF w
  <2>3. contents' = w
    BY <2>1, <2>2
  <2> QED
    BY <2>3 DEF w
<1> QED
  BY <1>3, <1>5, <1>10 DEF IInv

(* Each of the four calls keeps the invariant and is a call of the         *)
(* contract.  First what all of them use of the invariant.                 *)
LEMMA Ground ==
    ASSUME IInv
    PROVE  /\ size \in Nat /\ live \subseteq Addr /\ NULL \notin live
           /\ fault \in BOOLEAN
           /\ contents \in Seq(Val) /\ Len(contents) = size
           /\ size = 0 => contents = << >>
           /\ contents = << >> => size = 0
           /\ \A ix \in Nat : size = 0 => jumpToNode(ix) = NULL
<1>1. PICK c \in [1..size -> live] : IsChain(c)
  BY DEF IInv, WellLinked
<1>2. /\ size \in Nat /\ live \subseteq Addr /\ fault \in BOOLEAN
      /\ NULL \notin live
      /\ size = 0 => head = NULL
  BY <1>1, NullAssumption DEF IInv, TypeOK, IsChain
<1>3. contents \in Seq(Val) /\ Len(contents) = size
  BY <1>1, ChainNow DEF IInv
<1>4. (size = 0 => contents = << >>) /\ (contents = << >> => size = 0)
  BY <1>2, <1>3
<1>5. ASSUME NEW ix \in Nat, size = 0
      PROVE  jumpToNode(ix) = NULL
  BY <1>2, <1>5, WalkFromNull DEF jumpToNode
<1> QED
  BY <1>2, <1>3, <1>4, <1>5

(* A call that only returns r. *)
LEMMA RefuseStep ==
    ASSUME IInv, NEW r, Refuse(r)
    PROVE  IInv' /\ contents' = contents /\ ret' = r /\ fault' = fault
<1>1. UNCHANGED <<list, fields, live>> /\ ret' = r /\ fault' = fault
  BY DEF Refuse, Return
<1>2. fault' \in BOOLEAN
  BY <1>1, Ground
<1> QED
  BY <1>1, <1>2, StillChain

(* insertVal: the accesses it makes stay among the nodes, so it links the  *)
(* node or refuses.                                                        *)
LEMMA InsertStep ==
    ASSUME IInv, NEW ix \in 0..MaxIndex, NEW v \in Val, insertVal(ix, v)
    PROVE  IInv' /\ Contract!insertVal(ix, v)
<1>1. CASE Refuse(FAIL)
  BY <1>1, RefuseStep DEF Contract!insertVal, Contract!Return, FAIL, Contract!FAIL
<1>2. ASSUME NEW new \in Addr \ live,
             newNode(new, v), size' = size + 1, Return(OK),
             \/ size = 0 /\ initList(new)
             \/ size # 0 /\ ix = 0 /\ prependNode(new)
             \/ size # 0 /\ ix = size /\ appendNode(new)
             \/ 0 < ix /\ ix < size /\ linkBefore(new, jumpToNode(ix))
      PROVE  IInv' /\ Contract!insertVal(ix, v)
  <2>1. PICK c : IsChain(c)
    BY DEF IInv, WellLinked
  <2>2. size \in Nat /\ ix \in Nat
    BY Ground, MaxIndexAssumption
  <2>3. CASE size = 0
    <3>1. 0 \in 0..size /\ initList(new)
      BY <1>2, <2>2, <2>3
    <3>2. IInv' /\ contents' = InsertAt(contents, 0 + 1, v)
      BY <1>2, <2>1, <2>3, <3>1, LinkedCall
    <3>3. contents = << >>
      BY <2>3, Ground
    <3>4. contents' = <<v>>
      BY <3>2, <3>3, InsertAtEmpty
    <3> QED
      BY <1>2, <3>2, <3>3, <3>4 DEF Contract!insertVal, Contract!Return, Return, OK, Contract!OK
  <2>4. CASE size # 0
    <3>1. ix \in 0..size
      BY <1>2, <2>2, <2>4
    <3>2. 0 < ix /\ ix < size => jumpToNode(ix) = c[ix + 1]
      BY <2>1, <2>2, ChainNow DEF IInv
    <3>3. IInv' /\ contents' = InsertAt(contents, ix + 1, v)
      BY <1>2, <2>1, <2>4, <3>1, <3>2, LinkedCall
    <3>4. contents # << >> /\ ix <= Len(contents)
      BY <2>2, <2>4, <3>1, Ground
    <3>5. ret' = 0 /\ fault' = fault
      BY <1>2 DEF Return, OK
    <3> QED
      BY <3>3, <3>4, <3>5, Zenon
      DEF Contract!insertVal, Contract!Return, Contract!OK, Contract!InsertAt, InsertAt
  <2> QED
    BY <2>3, <2>4
<1>3. /\ size # 0 => head \in live /\ tail \in live
      /\ 0 < ix /\ ix < size => jumpToNode(ix) \in live /\ prev[jumpToNode(ix)] \in live
  <2>1. PICK c : IsChain(c)
    BY DEF IInv, WellLinked
  <2>2. /\ size \in Nat /\ ix \in Nat /\ c \in [1..size -> live]
        /\ size # 0 => head = c[1] /\ tail = c[size]
        /\ \A i \in 1..(size - 1) : prev[c[i + 1]] = c[i]
    BY <2>1, Ground, MaxIndexAssumption DEF IsChain
  <2>3. 0 < ix /\ ix < size => jumpToNode(ix) = c[ix + 1]
    BY <2>1, <2>2, ChainNow DEF IInv
  <2> QED
    BY <2>2, <2>3
<1>4. CASE ~Refuse(FAIL)
  <2>1. PICK new \in Addr \ live :
          LET Linked(Link) == /\ newNode(new, v)
                              /\ Link
                              /\ size' = size + 1
                              /\ Return(OK)
              current == jumpToNode(ix)
          IN  \/ size = 0 /\ Linked(initList(new))
              \/ /\ size # 0 /\ ix = 0
                 /\ Through(head \in live, Linked(prependNode(new)))
              \/ /\ size # 0 /\ ix = size
                 /\ Through(tail \in live, Linked(appendNode(new)))
              \/ /\ 0 < ix /\ ix < size
                 /\ Through(current \in live /\ prev[current] \in live,
                            Linked(linkBefore(new, current)))
    BY <1>4, Zenon DEF insertVal
  <2>2. newNode(new, v) /\ size' = size + 1 /\ Return(OK)
    BY <1>3, <2>1 DEF Through
  <2>3. \/ size = 0 /\ initList(new)
        \/ size # 0 /\ ix = 0 /\ prependNode(new)
        \/ size # 0 /\ ix = size /\ appendNode(new)
        \/ 0 < ix /\ ix < size /\ linkBefore(new, jumpToNode(ix))
    BY <1>3, <2>1 DEF Through
  <2> QED
    BY <1>2, <2>2, <2>3, Zenon
<1> QED
  BY <1>1, <1>4

(* A call that goes through a pointer to no node. *)
LEMMA CrashStep ==
    ASSUME IInv, Crash
    PROVE  IInv' /\ Contract!Crash
<1>1. UNCHANGED <<list, fields, live>> /\ fault' = TRUE /\ ret' = ret
  BY DEF Crash
<1>2. IInv' /\ contents' = contents
  BY <1>1, StillChain
<1> QED
  BY <1>1, <1>2 DEF Contract!Crash

(* deleteVal: inside a list of two or more values it unlinks the node; the *)
(* Windows edition also empties a list of one; the Linux edition goes      *)
(* through NULL on a list of one or none.                                  *)
LEMMA DeleteStep ==
    ASSUME IInv, NEW ix \in 0..MaxIndex, deleteVal(ix)
    PROVE  IInv' /\ Contract!deleteVal(ix)
<1>1. PICK c : IsChain(c)
  BY DEF IInv, WellLinked
<1>2. /\ size \in Nat /\ ix \in Nat /\ c \in [1..size -> live]
      /\ \A i, j \in 1..size : c[i] = c[j] => i = j
      /\ size = 0 => head = NULL /\ tail = NULL
      /\ size # 0 => head = c[1] /\ tail = c[size] /\ prev[c[1]] = NULL /\ next[c[size]] = NULL
      /\ \A i \in 1..(size - 1) : next[c[i]] = c[i + 1] /\ prev[c[i + 1]] = c[i]
      /\ Build \in {"linux", "windows"}
  BY <1>1, Ground, MaxIndexAssumption, BuildAssumption DEF IsChain
<1>3. Len(contents) = size /\ (size = 0 <=> contents = << >>) /\ NULL \notin live
  BY Ground
<1>4. ix < size => jumpToNode(ix) = c[ix + 1]
  BY <1>1, <1>2, ChainNow DEF IInv
<1>5. CASE DeleteRefused(ix) /\ Refuse(FAIL)
  <2>1. IInv' /\ contents' = contents /\ ret' = FAIL /\ fault' = fault
    BY <1>5, RefuseStep
  <2>2. ix >= Len(contents) /\ (Build = "windows" \/ contents # << >>)
    BY <1>2, <1>3, <1>5 DEF DeleteRefused
  <2> QED
    BY <2>1, <2>2 DEF Contract!deleteVal, Contract!Return, FAIL, Contract!FAIL
<1>6. ASSUME ix < size, Build = "windows" \/ size > 1,
             free(c[ix + 1]), size' = size - 1, Return(OK),
             \/ size = 1 /\ head' = NULL /\ tail' = NULL /\ UNCHANGED <<next, prev>>
             \/ size > 1 /\ ix = 0 /\ unlinkFirst
             \/ size > 1 /\ ix = size - 1 /\ unlinkLast
             \/ 0 < ix /\ ix < size - 1 /\ unlink(c[ix + 1])
      PROVE  IInv' /\ Contract!deleteVal(ix)
  <2>1. ix \in 0..(size - 1)
    BY <1>2, <1>6
  <2>2. IInv' /\ contents' = RemoveAt(contents, ix + 1)
    BY <1>1, <1>6, <2>1, UnlinkedCall
  <2>3. ret' = 0 /\ fault' = fault
    BY <1>6 DEF Return, OK
  <2>4. ix < Len(contents) /\ (Build = "windows" \/ Len(contents) > 1)
    BY <1>3, <1>6
  <2> QED
    BY <2>2, <2>3, <2>4, Zenon
      DEF Contract!deleteVal, Contract!Return, Contract!OK, Contract!RemoveAt, RemoveAt
<1>7. ASSUME Build = "linux", size = 0 \/ (size = 1 /\ ix = 0), Crash
      PROVE  IInv' /\ Contract!deleteVal(ix)
  <2>1. IInv' /\ Contract!Crash
    BY <1>7, CrashStep
  <2>2. contents = << >> \/ (Len(contents) = 1 /\ ix = 0)
    BY <1>3, <1>7
  <2> QED
    BY <1>7, <2>1, <2>2, Zenon DEF Contract!deleteVal
<1>8. CASE ~DeleteRefused(ix)
  <2>1. ix < size \/ (Build = "linux" /\ size = 0)
    BY <1>2, <1>8 DEF DeleteRefused
  <2>2. CASE Build = "windows" /\ size = 1
    <3>1. head' = NULL /\ tail' = NULL /\ UNCHANGED <<next, prev>>
      BY <1>8, <2>2 DEF deleteVal
    <3>2. free(head) /\ size' = size - 1 /\ Return(OK)
      BY <1>8, <2>2 DEF deleteVal
    <3>3. ix < size /\ c[ix + 1] = head
      BY <1>2, <2>1, <2>2
    <3> QED
      BY <1>6, <2>2, <3>1, <3>2, <3>3
  <2>3. CASE ~(Build = "windows" /\ size = 1) /\ ix = 0
    <3>1. Through(head \in live /\ next[head] \in live,
                  unlinkFirst /\ free(head) /\ size' = size - 1 /\ Return(OK))
      BY <1>8, <2>3 DEF deleteVal
    <3>2. CASE size > 1
      <4>1. head \in live /\ next[head] \in live /\ c[ix + 1] = head
        BY <1>2, <2>3, <3>2
      <4>2. ix < size
        BY <1>2, <2>3, <3>2
      <4>3. unlinkFirst /\ free(head) /\ size' = size - 1 /\ Return(OK)
        BY <3>1, <4>1 DEF Through
      <4> QED
        BY <1>6, <2>3, <3>2, <4>1, <4>2, <4>3
    <3>3. CASE size <= 1
      <4>1. Build = "linux"
        BY <1>2, <2>1, <2>3, <3>3
      <4>2. ~(head \in live /\ next[head] \in live)
        BY <1>2, <1>3, <3>3
      <4>3. Crash
        BY <3>1, <4>2 DEF Through
      <4> QED
        BY <1>2, <1>7, <2>3, <3>3, <4>1, <4>3
    <3> QED
      BY <1>2, <3>2, <3>3
  <2>4. CASE ix # 0 /\ ix = size - 1
    <3>1. size > 1 /\ ix < size
      BY <1>2, <2>4
    <3>2. Through(tail \in live /\ prev[tail] \in live,
                  unlinkLast /\ free(tail) /\ size' = size - 1 /\ Return(OK))
      <4>1. size # 1
        BY <1>2, <3>1
      <4> QED
        BY <1>8, <2>4, <4>1, Zenon DEF deleteVal
    <3>3. tail \in live /\ prev[tail] \in live /\ c[ix + 1] = tail
      BY <1>2, <2>4, <3>1
    <3>4. unlinkLast /\ free(tail) /\ size' = size - 1 /\ Return(OK)
      BY <3>2, <3>3 DEF Through
    <3> QED
      BY <1>6, <2>4, <3>1, <3>3, <3>4
  <2>5. CASE ~(Build = "windows" /\ size = 1) /\ ix # 0 /\ ix # size - 1
    <3>1. LET current == jumpToNode(ix)
          IN  Through(/\ current \in live
                      /\ next[current] \in live
                      /\ prev[current] \in live,
                      unlink(current) /\ free(current) /\ size' = size - 1 /\ Return(OK))
      BY <1>8, <2>5 DEF deleteVal
    <3>2. CASE ix < size
      <4>1. jumpToNode(ix) = c[ix + 1] /\ 0 < ix /\ ix < size - 1 /\ size > 1
        BY <1>2, <1>4, <2>5, <3>2
      <4>2. c[ix + 1] \in live /\ next[c[ix + 1]] \in live /\ prev[c[ix + 1]] \in live
        <5>1. next[c[ix + 1]] = c[(ix + 1) + 1] /\ prev[c[ix + 1]] = c[ix]
          BY <1>2, <4>1
        <5> QED
          BY <1>2, <4>1, <5>1
      <4>3. unlink(c[ix + 1]) /\ free(c[ix + 1]) /\ size' = size - 1 /\ Return(OK)
        BY <3>1, <4>1, <4>2 DEF Through
      <4> QED
        BY <1>6, <3>2, <4>1, <4>3
    <3>3. CASE size = 0 /\ Build = "linux"
      <4>1. jumpToNode(ix) \notin live
        BY <1>2, <3>3, Ground
      <4>2. Crash
        BY <3>1, <4>1 DEF Through
      <4> QED
        BY <1>7, <3>3, <4>2
    <3> QED
      BY <2>1, <3>2, <3>3
  <2> QED
    BY <1>2, <2>1, <2>2, <2>3, <2>4, <2>5
<1> QED
  BY <1>5, <1>8 DEF deleteVal

(* getVal: it reads the value at its place; past the end it returns NULL,  *)
(* unless the list is empty, where it goes through NULL.                   *)
LEMMA GetStep ==
    ASSUME IInv, NEW ix \in 0..MaxIndex, getVal(ix)
    PROVE  IInv' /\ Contract!getVal(ix)
<1>1. PICK c : IsChain(c)
  BY DEF IInv, WellLinked
<1>2. /\ size \in Nat /\ ix \in Nat /\ c \in [1..size -> live]
      /\ Len(contents) = size /\ (size = 0 <=> contents = << >>) /\ NULL \notin live
  BY <1>1, Ground, MaxIndexAssumption DEF IsChain
<1>3. CASE ix >= size /\ size # 0 /\ Refuse(NULL)
  <2>1. IInv' /\ contents' = contents /\ ret' = NULL /\ fault' = fault
    BY <1>3, RefuseStep
  <2>2. ix >= Len(contents) /\ contents # << >>
    BY <1>2, <1>3
  <2> QED
    BY <2>1, <2>2 DEF Contract!getVal, Contract!Return
<1>4. CASE (ix < size \/ size = 0) /\ Through(jumpToNode(ix) \in live, Refuse(val[jumpToNode(ix)]))
  <2>1. CASE size = 0
    <3>1. jumpToNode(ix) \notin live /\ contents = << >>
      BY <1>2, <2>1, Ground
    <3>2. Crash
      BY <1>4, <3>1 DEF Through
    <3>3. IInv' /\ Contract!Crash
      BY <3>2, CrashStep
    <3> QED
      BY <3>1, <3>3, Zenon DEF Contract!getVal
  <2>2. CASE ix < size
    <3>1. jumpToNode(ix) = c[ix + 1] /\ contents = [i \in 1..size |-> val[c[i]]]
      BY <1>1, <1>2, <2>2, ChainNow DEF IInv
    <3>2. ix + 1 \in 1..size
      BY <1>2, <2>2
    <3>3. c[ix + 1] \in live /\ contents[ix + 1] = val[c[ix + 1]]
      BY <1>2, <3>1, <3>2
    <3>4. Refuse(contents[ix + 1])
      BY <1>4, <3>1, <3>3 DEF Through
    <3>5. IInv' /\ contents' = contents /\ ret' = contents[ix + 1] /\ fault' = fault
      BY <3>4, RefuseStep
    <3>6. ix < Len(contents)
      BY <1>2, <2>2
    <3> QED
      BY <3>5, <3>6, Zenon DEF Contract!getVal, Contract!Return
  <2> QED
    BY <1>4, <2>1, <2>2
<1> QED
  BY <1>3, <1>4 DEF getVal

(* findVal: its loop compares the values in order and never leaves the     *)
(* nodes, so it returns the first position of v or -1.                     *)
LEMMA FindStep ==
    ASSUME IInv, NEW v \in Val, findVal(v)
    PROVE  IInv' /\ Contract!findVal(v)
<1> DEFINE Stops(i) == jumpToNode(i) \notin live \/ val[jumpToNode(i)] = v
<1>1. PICK c : IsChain(c)
  BY DEF IInv, WellLinked
<1>2. /\ size \in Nat /\ c \in [1..size -> live] /\ Len(contents) = size
      /\ contents = [i \in 1..size |-> val[c[i]]]
      /\ \A i \in Nat : i < size => jumpToNode(i) = c[i + 1]
  BY <1>1, Ground, ChainNow DEF IsChain, IInv
<1>3. ASSUME NEW i \in 0..(size - 1)
      PROVE  jumpToNode(i) \in live /\ val[jumpToNode(i)] = contents[i + 1]
  <2>1. i \in Nat /\ i < size /\ i + 1 \in 1..size
    BY <1>2
  <2> QED
    BY <1>2, <2>1
<1>4. \A i \in 0..(size - 1) : Stops(i) <=> contents[i + 1] = v
  BY <1>3
<1>5. CASE (\A i \in 0..(size - 1) : ~Stops(i)) /\ Refuse(-1)
  <2>1. \A i \in 1..Len(contents) : contents[i] # v
    <3>1. ASSUME NEW i \in 1..Len(contents)
          PROVE  contents[i] # v
      <4>1. i - 1 \in 0..(size - 1) /\ (i - 1) + 1 = i
        BY <1>2
      <4> QED
        BY <1>4, <1>5, <4>1
    <3> QED
      BY <3>1
  <2>2. IInv' /\ contents' = contents /\ ret' = -1 /\ fault' = fault
    BY <1>5, RefuseStep
  <2> QED
    BY <2>1, <2>2 DEF Contract!findVal, Contract!Return
<1>6. ASSUME NEW i \in 0..(size - 1), Stops(i), \A j \in 0..(i - 1) : ~Stops(j),
             Through(jumpToNode(i) \in live, Refuse(i))
      PROVE  IInv' /\ Contract!findVal(v)
  <2>1. Refuse(i)
    BY <1>3, <1>6 DEF Through
  <2>2. IInv' /\ contents' = contents /\ ret' = i /\ fault' = fault
    BY <2>1, RefuseStep
  <2>3. i + 1 \in 1..Len(contents) /\ (i + 1) - 1 = i /\ contents[i + 1] = v
    BY <1>2, <1>4, <1>6
  <2>4. \A j \in 1..((i + 1) - 1) : contents[j] # v
    <3>1. ASSUME NEW j \in 1..i
          PROVE  contents[j] # v
      <4>1. j - 1 \in 0..(i - 1) /\ j - 1 \in 0..(size - 1) /\ (j - 1) + 1 = j
        BY <1>2
      <4> QED
        BY <1>4, <1>6, <4>1
    <3> QED
      BY <3>1
  <2> HIDE DEF Stops
  <2> QED
    BY <2>2, <2>3, <2>4 DEF Contract!findVal, Contract!Return
<1> QED
  BY <1>5, <1>6 DEF findVal

-----------------------------------------------------------------------------
(* Theorems *)

(* The initial list is the empty chain and the empty sequence. *)
LEMMA Initially ==
    ASSUME Init
    PROVE  IInv /\ Contract!Init
<1>1. TypeOK
  BY DEF Init, TypeOK, Pointer
<1> DEFINE c == [i \in 1..size |-> NULL]
<1>2. IsChain(c) /\ c \in [1..size -> live]
  BY DEF Init, IsChain
<1>3. IInv
  BY <1>1, <1>2, Zenon DEF IInv, WellLinked
<1>4. contents = << >>
  BY <1>3, Ground DEF Init
<1> QED
  BY <1>3, <1>4 DEF Init, Contract!Init, OK, Contract!OK

(* A step keeps the invariant and is a step of the contract or none of it. *)
LEMMA Step ==
    ASSUME IInv, [Next]_vars
    PROVE  IInv' /\ [Contract!Next]_(Contract!vars)
<1>1. CASE UNCHANGED vars
  <2>1. UNCHANGED <<list, fields, live>> /\ ret' = ret /\ fault' = fault
    BY <1>1 DEF vars
  <2>2. fault' \in BOOLEAN
    BY <2>1, Ground
  <2>3. IInv' /\ contents' = contents
    BY <2>1, <2>2, StillChain
  <2> QED
    BY <2>1, <2>3 DEF Contract!vars
<1>2. ASSUME ~fault, NEW ix \in 0..MaxIndex, NEW v \in Val, insertVal(ix, v)
      PROVE  IInv' /\ Contract!Next
  BY <1>2, InsertStep DEF Contract!Next
<1>3. ASSUME ~fault, NEW ix \in 0..MaxIndex, deleteVal(ix)
      PROVE  IInv' /\ Contract!Next
  BY <1>3, DeleteStep DEF Contract!Next
<1>4. ASSUME ~fault, NEW ix \in 0..MaxIndex, getVal(ix)
      PROVE  IInv' /\ Contract!Next
  BY <1>4, GetStep DEF Contract!Next
<1>5. ASSUME ~fault, NEW v \in Val, findVal(v)
      PROVE  IInv' /\ Contract!Next
  BY <1>5, FindStep DEF Contract!Next
<1> QED
  BY <1>1, <1>2, <1>3, <1>4, <1>5, Zenon DEF Next

(* The list keeps its types and its shape under any sequence of calls.     *)
THEOREM Invariance == Spec => []IInv
<1>1. Init => IInv
  BY Initially
<1>2. IInv /\ [Next]_vars => IInv'
  BY Step
<1> QED
  BY <1>1, <1>2, PTL DEF Spec

(* Every variable keeps its type. *)
THEOREM Typing == Spec => []TypeOK
<1>1. IInv => TypeOK
  BY DEF IInv
<1> QED
  BY <1>1, Invariance, PTL

(* insertVal and deleteVal keep the nodes one doubly linked chain, without *)
(* a leak and without a dangling link, however many nodes there are.       *)
THEOREM Shape == Spec => []WellLinked
<1>1. IInv => WellLinked
  BY DEF IInv
<1> QED
  BY <1>1, Invariance, PTL

(* The pointer-level list implements the sequence of ListContract: every   *)
(* call returns what the contract says, leaves the values it says, and     *)
(* dies only where it says.                                                *)
THEOREM Implementation == Spec => Implements
<1>1. Init => Contract!Init
  BY Initially
<1>2. IInv /\ [Next]_vars => [Contract!Next]_(Contract!vars)
  BY Step
<1> QED
  BY <1>1, <1>2, Invariance, PTL DEF Spec, Implements, Contract!Spec

(* In the Linux edition no call empties a list that holds a value.         *)
LEMMA LastValueStep ==
    ASSUME IInv, Build = "linux", [Next]_vars, size > 0
    PROVE  size' > 0
<1>1. size \in Nat
  BY Ground
<1>2. CASE UNCHANGED vars
  BY <1>1, <1>2 DEF vars, list
<1>3. ASSUME NEW ix \in 0..MaxIndex, NEW v \in Val, insertVal(ix, v)
      PROVE  size' > 0
  <2>1. size' = size \/ size' = size + 1
    BY <1>3 DEF insertVal, Through, Refuse, Crash, list
  <2> QED
    BY <1>1, <2>1
<1>4. ASSUME NEW ix \in 0..MaxIndex, deleteVal(ix)
      PROVE  size' > 0
  <2>1. size' = size \/ (size' = size - 1 /\ (ix # 0 \/ next[head] \in live))
    BY <1>4 DEF deleteVal, Through, Refuse, Crash, list
  <2>2. size' = size - 1 => ~DeleteRefused(ix)
    BY <1>1, <1>4 DEF deleteVal, Through, Refuse, Crash, list
  <2>3. size' = size - 1 => ix < size
    BY <1>1, <2>2, MaxIndexAssumption DEF DeleteRefused
  <2>4. ASSUME size = 1
        PROVE  next[head] \notin live
    <3>1. PICK c \in [1..size -> live] : IsChain(c)
      BY DEF IInv, WellLinked
    <3> QED
      BY <2>4, <3>1, Ground DEF IsChain
  <2> QED
    BY <1>1, <2>1, <2>3, <2>4
<1>5. ASSUME NEW ix \in 0..MaxIndex, getVal(ix)
      PROVE  size' > 0
  BY <1>5 DEF getVal, Through, Refuse, Crash, list
<1>6. ASSUME NEW v \in Val, findVal(v)
      PROVE  size' > 0
  BY <1>6 DEF findVal, Through, Refuse, Crash, list
<1> QED
  BY <1>2, <1>3, <1>4, <1>5, <1>6, Zenon DEF Next

(* The Linux deleteVal never takes the last value out of a list, whatever  *)
(* its length and whatever the calls (linkedlist.c:97-119).                *)
THEOREM LastValue ==
    ASSUME Build = "linux"
    PROVE  Spec => NeverEmptiesAgain
<1>1. IInv /\ [Next]_vars => [size > 0 => size' > 0]_vars
  BY LastValueStep
<1> QED
  BY <1>1, Invariance, PTL DEF Spec, NeverEmptiesAgain

(* The contract's calls end the process on short lists only.               *)
LEMMA ContractFaults ==
    ASSUME IInv, ~fault, fault', Contract!Next
    PROVE  size = 0 \/ (Build = "linux" /\ size = 1)
<1>1. Len(contents) = size /\ (contents = << >> => size = 0)
  BY Ground
<1>2. ASSUME UNCHANGED fault
      PROVE  FALSE
  BY <1>2
<1>3. ASSUME NEW ix \in 0..MaxIndex, NEW v \in Val, Contract!insertVal(ix, v)
      PROVE  FALSE
  BY <1>2, <1>3 DEF Contract!insertVal, Contract!Return
<1>4. ASSUME NEW ix \in 0..MaxIndex, Contract!deleteVal(ix)
      PROVE  size = 0 \/ (Build = "linux" /\ size = 1)
  <2>1. CASE Build = "linux" /\ (contents = << >> \/ (Len(contents) = 1 /\ ix = 0))
    BY <1>1, <2>1
  <2>2. CASE ~(Build = "linux" /\ (contents = << >> \/ (Len(contents) = 1 /\ ix = 0)))
    BY <1>2, <1>4, <2>2, Zenon DEF Contract!deleteVal, Contract!Return
  <2> QED
    BY <2>1, <2>2
<1>5. ASSUME NEW ix \in 0..MaxIndex, Contract!getVal(ix)
      PROVE  size = 0 \/ (Build = "linux" /\ size = 1)
  BY <1>1, <1>2, <1>5 DEF Contract!getVal, Contract!Return
<1>6. ASSUME NEW v \in Val, Contract!findVal(v)
      PROVE  FALSE
  BY <1>2, <1>6 DEF Contract!findVal, Contract!Return
<1> QED
  BY <1>3, <1>4, <1>5, <1>6, Zenon DEF Contract!Next

(* However long the list has been and whatever malloc refused, a call goes *)
(* through NULL only on an empty list or, in the Linux edition, on a list  *)
(* of one value: the checks of deleteVal (linkedlist.c:98) and getVal.     *)
THEOREM OnlyShortListsFault ==
    Spec => [][~fault /\ fault' => size = 0 \/ (Build = "linux" /\ size = 1)]_vars
<1>1. ASSUME IInv, [Next]_vars, ~fault, fault'
      PROVE  size = 0 \/ (Build = "linux" /\ size = 1)
  <2>1. Contract!Next \/ fault' = fault
    BY <1>1, Step, Zenon DEF Contract!vars
  <2>2. ~(fault' = fault)
    BY <1>1, Zenon
  <2> QED
    BY <1>1, <2>1, <2>2, ContractFaults
<1>2. IInv /\ [Next]_vars =>
        [~fault /\ fault' => size = 0 \/ (Build = "linux" /\ size = 1)]_vars
  BY <1>1
<1> QED
  BY <1>2, Invariance, PTL DEF Spec
=============================================================================
