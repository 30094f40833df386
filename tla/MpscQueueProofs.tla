-------------------------- MODULE MpscQueueProofs --------------------------
(***************************************************************************)
(* Proofs about the MPSC list, for every set of producers and every finite *)
(* set of elements: the types, with which no poisoned link is followed,    *)
(* and that the list implements the FIFO of MpscFifo.                      *)
(***************************************************************************)
EXTENDS MpscQueue, SequenceTheorems, FiniteSetTheorems, WellFoundedInduction, TLAPS

-----------------------------------------------------------------------------
(* What the memory says about a queue q and a batch b *)

(* A producer is about to link x to the element after it.                  *)
Awaited(x) == \E p \in Producers : ppc[p] = "linking" /\ prev[p] = x

(* y comes after x, in the list or in the mind of a producer.              *)
Follows(x, y) ==
    \/ mpqc_next[x] = y
    \/ /\ mpqc_next[x] = NULL
       /\ \E p \in Producers : ppc[p] = "linking" /\ prev[p] = x /\ first[p] = y

Linked(s) == \A i \in 1 .. Len(s) - 1 : Follows(s[i], s[i + 1])

(* The end of a list: nobody has linked x, and nobody is going to.         *)
Ends(x) == mpqc_next[x] = NULL /\ ~ Awaited(x)

(* No element is twice in the queue and the batch.                         *)
Separate(q, b) ==
    /\ IsInjective(q) /\ IsInjective(b)
    /\ \A i \in DOMAIN q, j \in DOMAIN b : q[i] # b[j]

(* Elements elsewhere are poisoned, these are not.                         *)
Marked(q, b) ==
    \A e \in Elements : mpqc_next[e] # NOTQUEUED <=>
        (\E i \in DOMAIN q : q[i] = e) \/ (\E i \in DOMAIN b : b[i] = e)

(* Producers fill gaps, and each its own.                                  *)
Gaps ==
    /\ \A p \in Producers : ppc[p] = "linking" =>
          /\ prev[p] \in Elements \union {HEAD} /\ mpqc_next[prev[p]] = NULL
          /\ first[p] \in Elements
    /\ \A p, r \in Producers :
          ppc[p] = "linking" /\ ppc[r] = "linking" /\ prev[p] = prev[r] => p = r

(* The tail is the end of the queue.                                       *)
TailOf(q) ==
    IF q = <<>> THEN mpqh_tail = HEAD
    ELSE mpqh_tail = q[Len(q)] /\ Ends(q[Len(q)])

(* The head is the start of the queue, unless the consumer has detached it *)
(* or has to attach it.                                                    *)
HeadOf(q) ==
    /\ cpc \in {"head", "clear", "xchg", "restore_wait", "restore_head"} => q # <<>>
    /\ cpc \in {"xchg", "restore_head"} => cur = q[1] /\ ~ Awaited(HEAD)
    /\ cpc = "xchg" => mpqc_next[HEAD] = NULL
    /\ cpc = "clear" => cur = q[1] /\ mpqc_next[HEAD] = q[1]
    /\ cpc \notin {"xchg", "restore_head"} =>
          IF q = <<>> THEN Ends(HEAD) ELSE Follows(HEAD, q[1])

(* The consumer walks the batch and knows its end.                         *)
BatchOf(b) ==
    /\ cpc \in {"next", "body", "restore_cas", "restore_wait"} <=> b # <<>>
    /\ b # <<>> => cur = b[1] /\ last = b[Len(b)] /\ Ends(b[Len(b)])
    /\ cpc = "body" => IF Len(b) = 1 THEN tmp = NULL
                       ELSE tmp = b[2] /\ mpqc_next[b[1]] = b[2]

Represents(q, b) ==
    /\ Separate(q, b) /\ Marked(q, b) /\ Gaps
    /\ Linked(q) /\ Linked(b)
    /\ TailOf(q) /\ HeadOf(q) /\ BatchOf(b)

(* The inductive invariant: the memory is some queue and some batch.       *)
ListInv ==
    /\ TypeOK
    /\ \E q, b \in Seq(Elements) : Represents(q, b)

-----------------------------------------------------------------------------
(* Sequences *)

(* r is s followed by t, index by index.                                   *)
IsConcat(r, s, t) ==
    /\ Len(r) = Len(s) + Len(t)
    /\ \A i \in 1 .. Len(s) : r[i] = s[i]
    /\ \A i \in 1 .. Len(t) : r[Len(s) + i] = t[i]

LEMMA ConcatIs ==
    ASSUME NEW S, NEW s \in Seq(S), NEW t \in Seq(S)
    PROVE  s \o t \in Seq(S) /\ IsConcat(s \o t, s, t)
BY DEF IsConcat

(* Every place of r is one of s or one of t.                               *)
LEMMA ConcatSplit ==
    ASSUME NEW S, NEW s \in Seq(S), NEW t \in Seq(S), NEW r \in Seq(S),
           IsConcat(r, s, t), NEW i \in 1 .. Len(r)
    PROVE  \/ i \in 1 .. Len(s) /\ r[i] = s[i]
           \/ \E j \in 1 .. Len(t) : i = Len(s) + j /\ r[i] = t[j]
<1>1. Len(s) \in Nat /\ Len(t) \in Nat /\ Len(r) = Len(s) + Len(t) /\ i \in Nat
  BY DEF IsConcat
<1>2. CASE i <= Len(s)
  BY <1>1, <1>2 DEF IsConcat
<1>3. CASE i > Len(s)
  <2>1. i - Len(s) \in 1 .. Len(t) /\ i = Len(s) + (i - Len(s))
    BY <1>1, <1>3
  <2>2. r[Len(s) + (i - Len(s))] = t[i - Len(s)]
    BY <2>1 DEF IsConcat
  <2> QED
    BY <2>1, <2>2
<1> QED
  BY <1>1, <1>2, <1>3

(* What mpsc_queue_append_list() may be given.                             *)
LEMMA ListsAre ==
    ASSUME NEW l \in Lists
    PROVE  l \in Seq(Elements) /\ Len(l) \in {1, 2}
<1>1. CASE l \in {<<e>> : e \in Elements}
  <2>1. PICK e \in Elements : l = <<e>>
    BY <1>1
  <2> QED
    BY <2>1
<1>2. CASE l \in {<<e, f>> : e, f \in Elements}
  <2>1. PICK e, f \in Elements : l = <<e, f>>
    BY <1>2
  <2> QED
    BY <2>1
<1> QED
  BY <1>1, <1>2 DEF Lists

(* A set of natural numbers has a least one.                               *)
LEMMA LeastIn ==
    ASSUME NEW R, IsWellFoundedOn(R, Nat),
           \A x, y \in Nat : y < x => <<y, x>> \in R,
           NEW T, T \subseteq Nat, T # {}
    PROVE  \E x \in T : \A y \in T : x <= y
<1>1. PICK x \in T : \A y \in T : ~ (<<y, x>> \in R)
  BY WFMin
<1>2. ASSUME NEW y \in T PROVE x <= y
  <2>1. x \in Nat /\ y \in Nat
    OBVIOUS
  <2>2. ~ (y < x)
    BY <1>1, <2>1
  <2> QED
    BY <2>1, <2>2
<1> QED
  BY <1>2

LEMMA LeastElement ==
    ASSUME NEW T, T \subseteq Nat, T # {}
    PROVE  \E x \in T : \A y \in T : x <= y
<1>1. \A x, y \in Nat : y < x => <<y, x>> \in OpToRel(<, Nat)
  BY DEF OpToRel
<1> QED
  BY <1>1, LeastIn, NatLessThanWellFounded

(* Two sequences without repetition that start and end together, and step  *)
(* alike, are the same.                                                    *)
LEMMA ChainUnique ==
    ASSUME NEW S, NEW s \in Seq(S), NEW t \in Seq(S), s # <<>>, t # <<>>,
           IsInjective(s), IsInjective(t), s[1] = t[1], s[Len(s)] = t[Len(t)],
           \A i \in 1 .. Len(s) - 1 : i < Len(t) /\ s[i] = t[i] => s[i + 1] = t[i + 1]
    PROVE  s = t
<1>1. PICK m \in Nat, n \in Nat : /\ m = Len(s) /\ n = Len(t) /\ m # 0 /\ n # 0
                                  /\ DOMAIN s = 1 .. m /\ DOMAIN t = 1 .. n
  OBVIOUS
<1>2. ASSUME NEW i \in 1 .. m, i <= n PROVE s[i] = t[i]
  <2> DEFINE Bad == {j \in 1 .. m : j <= n /\ s[j] # t[j]}
  <2> SUFFICES ASSUME Bad # {} PROVE FALSE
    BY <1>2
  <2>1. PICK x \in Bad : \A y \in Bad : x <= y
    <3>1. Bad \subseteq Nat
      OBVIOUS
    <3> QED
      BY <3>1, LeastElement
  <2>2. x \in 1 .. m /\ x <= n /\ s[x] # t[x] /\ x # 1
    OBVIOUS
  <2>3. x - 1 \in 1 .. m - 1 /\ x - 1 < n /\ x - 1 \in 1 .. m /\ x - 1 <= n
    BY <2>2
  <2>4. x - 1 \notin Bad
    BY <2>1, <2>2
  <2>5. s[x - 1] = t[x - 1]
    BY <2>3, <2>4
  <2>6. s[(x - 1) + 1] = t[(x - 1) + 1]
    BY <2>3, <2>5, <1>1
  <2> QED
    BY <2>2, <2>6
<1>3. m = n
  <2>1. CASE m < n
    <3>1. m \in 1 .. m /\ m \in 1 .. n /\ n \in 1 .. n
      BY <2>1, <1>1
    <3>2. t[m] = t[n]
      BY <3>1, <2>1, <1>1, <1>2
    <3> QED
      BY <3>1, <3>2, <2>1, <1>1 DEF IsInjective
  <2>2. CASE n < m
    <3>1. n \in 1 .. m /\ n \in 1 .. n /\ m \in 1 .. m
      BY <2>2, <1>1
    <3>2. s[n] = s[m]
      BY <3>1, <2>2, <1>1, <1>2
    <3> QED
      BY <3>1, <3>2, <2>2, <1>1 DEF IsInjective
  <2> QED
    BY <2>1, <2>2
<1>4. \A i \in 1 .. Len(s) : s[i] = t[i]
  BY <1>1, <1>2, <1>3
<1> QED
  BY <1>1, <1>3, <1>4, SeqEqual

-----------------------------------------------------------------------------
(* One step of the memory *)

(* Indices and elements of the two sequences.                              *)
LEMMA SeqFacts ==
    ASSUME TypeOK, NEW q \in Seq(Elements), NEW b \in Seq(Elements),
           Represents(q, b)
    PROVE  /\ Len(q) \in Nat /\ DOMAIN q = 1 .. Len(q) /\ (q = <<>> <=> Len(q) = 0)
           /\ Len(b) \in Nat /\ DOMAIN b = 1 .. Len(b) /\ (b = <<>> <=> Len(b) = 0)
           /\ \A i \in 1 .. Len(q) : q[i] \in Elements /\ mpqc_next[q[i]] # NOTQUEUED
           /\ \A i \in 1 .. Len(b) : b[i] \in Elements /\ mpqc_next[b[i]] # NOTQUEUED
           /\ q # <<>> => 1 \in 1 .. Len(q) /\ Len(q) \in 1 .. Len(q)
           /\ b # <<>> => 1 \in 1 .. Len(b) /\ Len(b) \in 1 .. Len(b)
<1>1. /\ Len(q) \in Nat /\ DOMAIN q = 1 .. Len(q)
      /\ Len(b) \in Nat /\ DOMAIN b = 1 .. Len(b)
      /\ \A i \in 1 .. Len(q) : q[i] \in Elements
      /\ \A i \in 1 .. Len(b) : b[i] \in Elements
  OBVIOUS
<1>2. (q = <<>> <=> Len(q) = 0) /\ (b = <<>> <=> Len(b) = 0)
  OBVIOUS
<1>3. /\ \A i \in 1 .. Len(q) : mpqc_next[q[i]] # NOTQUEUED
      /\ \A i \in 1 .. Len(b) : mpqc_next[b[i]] # NOTQUEUED
  BY <1>1 DEF Represents, Marked
<1> QED
  BY <1>1, <1>2, <1>3

(* Steps that only move the consumer or the tail leave the list alone.     *)
LEMMA SameLinks ==
    ASSUME TypeOK, NEW q \in Seq(Elements), NEW b \in Seq(Elements),
           Represents(q, b),
           UNCHANGED <<mpqc_next, ppc, prev, first>>
    PROVE  /\ Separate(q, b)' /\ Marked(q, b)' /\ Gaps' /\ Linked(q)' /\ Linked(b)'
           /\ \A x : Ends(x)' <=> Ends(x)
           /\ \A x : Awaited(x)' <=> Awaited(x)
           /\ \A x, y : Follows(x, y)' <=> Follows(x, y)
BY DEF Represents, Marked, Gaps, Linked, Follows, Ends, Awaited

(* A producer changes the tail: the list is behind the queue.              *)
LEMMA AppendTail ==
    ASSUME TypeOK, NEW q \in Seq(Elements), NEW b \in Seq(Elements),
           Represents(q, b),
           NEW p \in Producers, NEW l \in Lists, append_update_tail(p, l),
           NEW r \in Seq(Elements), IsConcat(r, q, l)
    PROVE  TypeOK' /\ Represents(r, b)'
<1> USE HeadAssumption, NullAssumption, MarkerAssumption
<1>1. PICK n \in {1, 2} : n = Len(l)
  BY ListsAre
<1>2. /\ l \in Seq(Elements) /\ Len(l) = n /\ IsInjective(l)
      /\ \A i \in 1 .. n : l[i] \in Elements /\ mpqc_next[l[i]] = NOTQUEUED
  BY <1>1, ListsAre DEF append_update_tail
<1>3. /\ Len(q) \in Nat /\ Len(r) = Len(q) + n /\ Len(r) \in Nat
      /\ DOMAIN q = 1 .. Len(q) /\ DOMAIN r = 1 .. Len(r)
      /\ DOMAIN b = 1 .. Len(b)
      /\ Len(b) \in Nat /\ DOMAIN l = 1 .. n
      /\ \A i \in 1 .. Len(q) : r[i] = q[i] /\ q[i] \in Elements
      /\ \A i \in 1 .. n : r[Len(q) + i] = l[i]
      /\ \A i \in 1 .. Len(b) : b[i] \in Elements
  BY <1>2 DEF IsConcat
<1>4. \A i \in 1 .. Len(r) :
          \/ i \in 1 .. Len(q) /\ r[i] = q[i]
          \/ \E j \in 1 .. n : i = Len(q) + j /\ r[i] = l[j]
  BY <1>2, ConcatSplit
<1>5. r # <<>> /\ r[Len(r)] = l[n] /\ (q = <<>> <=> Len(q) = 0)
      /\ r[1] = IF q = <<>> THEN l[1] ELSE q[1]
  <2>1. q = <<>> <=> Len(q) = 0
    OBVIOUS
  <2>2. r # <<>>
    BY <1>2, <1>3
  <2> QED
    BY <1>2, <1>3, <2>1, <2>2
<1>6. /\ \A i \in 1 .. Len(q) : mpqc_next[q[i]] # NOTQUEUED
      /\ \A i \in 1 .. Len(b) : mpqc_next[b[i]] # NOTQUEUED
  BY <1>3 DEF Represents, Marked
<1>7. /\ mpqc_next'[l[n]] = NULL
      /\ \A x \in Elements \union {HEAD} :
            (\A i \in 1 .. n : x # l[i]) => mpqc_next'[x] = mpqc_next[x]
      /\ n = 2 => l[1] # l[2] /\ mpqc_next'[l[1]] = l[2]
  <2>1. DOMAIN mpqc_next = Elements \union {HEAD}
    BY DEF TypeOK
  <2>2. n = 2 => l[1] # l[2]
    BY <1>2, <1>3 DEF IsInjective
  <2>3. mpqc_next' = [x \in Elements \union {HEAD} |->
            CASE x = l[n] -> NULL
              [] x = l[1] /\ n > 1 -> l[2]
              [] OTHER -> mpqc_next[x]]
    BY <2>1, <1>1 DEF append_update_tail
  <2> QED
    BY <2>2, <2>3, <1>2
<1>8. TypeOK'
  BY <1>2 DEF append_update_tail, TypeOK, consumer
<1>9. Separate(r, b)'
  <2>1. IsInjective(r)
    <3> SUFFICES ASSUME NEW i \in 1 .. Len(r), NEW j \in 1 .. Len(r),
                        r[i] = r[j]
                 PROVE  i = j
      BY <1>3 DEF IsInjective
    <3>1. CASE i \in 1 .. Len(q) /\ j \in 1 .. Len(q)
      BY <3>1, <1>3 DEF Separate, IsInjective, Represents
    <3>2. CASE /\ \E k \in 1 .. n : i = Len(q) + k /\ r[i] = l[k]
               /\ \E k \in 1 .. n : j = Len(q) + k /\ r[j] = l[k]
      BY <3>2, <1>2, <1>3 DEF IsInjective
    <3>3. ASSUME NEW x \in 1 .. Len(q), NEW y \in 1 .. n PROVE q[x] # l[y]
      BY <1>2, <1>6
    <3>4. /\ \/ i \in 1 .. Len(q) /\ r[i] = q[i]
             \/ \E k \in 1 .. n : i = Len(q) + k /\ r[i] = l[k]
          /\ \/ j \in 1 .. Len(q) /\ r[j] = q[j]
             \/ \E k \in 1 .. n : j = Len(q) + k /\ r[j] = l[k]
      BY <1>4
    <3> QED
      BY <3>1, <3>2, <3>3, <3>4
  <2>2. \A i \in DOMAIN r, j \in DOMAIN b : r[i] # b[j]
    <3> SUFFICES ASSUME NEW i \in 1 .. Len(r), NEW j \in 1 .. Len(b),
                        r[i] = b[j]
                 PROVE  FALSE
      BY <1>3
    <3>1. CASE i \in 1 .. Len(q) /\ r[i] = q[i]
      BY <3>1, <1>3 DEF Separate, Represents
    <3>2. CASE \E k \in 1 .. n : r[i] = l[k]
      BY <3>2, <1>2, <1>6
    <3> QED
      BY <3>1, <3>2, <1>4
  <2> QED
    BY <2>1, <2>2 DEF Separate, Represents
<1>10. Marked(r, b)'
  <2> SUFFICES ASSUME NEW e \in Elements
               PROVE  mpqc_next'[e] # NOTQUEUED
                          <=> \/ \E i \in DOMAIN r : r[i] = e
                              \/ \E i \in DOMAIN b : b[i] = e
     BY DEF Marked
  <2>1. CASE \E i \in 1 .. n : l[i] = e
    <3>1. mpqc_next'[e] # NOTQUEUED
      BY <2>1, <1>2, <1>7
    <3>2. \E i \in 1 .. Len(r) : r[i] = e
      BY <2>1, <1>2, <1>3
    <3> QED
      BY <3>1, <3>2, <1>3
  <2>2. CASE ~ \E i \in 1 .. n : l[i] = e
    <3>1. mpqc_next'[e] = mpqc_next[e]
      BY <2>2, <1>2, <1>7
    <3>2. (\E i \in DOMAIN r : r[i] = e) <=> (\E i \in DOMAIN q : q[i] = e)
      <4>1. ASSUME NEW i \in 1 .. Len(r), r[i] = e
            PROVE  \E j \in 1 .. Len(q) : q[j] = e
        BY <4>1, <2>2, <1>4
      <4>2. ASSUME NEW j \in 1 .. Len(q), q[j] = e
            PROVE  r[j] = e /\ j \in 1 .. Len(r)
        BY <4>2, <1>3
      <4> QED
        BY <4>1, <4>2, <1>3
    <3> QED
      BY <3>1, <3>2 DEF Marked, Represents
  <2> QED
    BY <2>1, <2>2
<1>11. Gaps'
  <2>1. /\ mpqh_tail \in Elements \union {HEAD} /\ Ends(mpqh_tail)
        /\ \A i \in 1 .. n : mpqh_tail # l[i]
    BY <1>2 DEF Represents, TailOf, HeadOf, Ends
  <2>2. /\ prev' = [prev EXCEPT ![p] = mpqh_tail]
        /\ first' = [first EXCEPT ![p] = l[1]]
        /\ ppc' = [ppc EXCEPT ![p] = "linking"] /\ ppc[p] = "idle"
    BY DEF append_update_tail
  <2>3. /\ ppc \in [Producers -> {"idle", "linking"}]
        /\ DOMAIN prev = Producers /\ DOMAIN first = Producers
    BY DEF TypeOK
  <2>4. ASSUME NEW u \in Producers, ppc'[u] = "linking"
        PROVE  /\ prev'[u] \in Elements \union {HEAD} /\ mpqc_next'[prev'[u]] = NULL
               /\ first'[u] \in Elements
    <3>1. CASE u = p
      BY <3>1, <2>1, <2>2, <2>3, <1>2, <1>7 DEF Ends
    <3>2. CASE u # p
      <4>1. /\ prev[u] \in Elements \union {HEAD}
            /\ mpqc_next[prev[u]] = NULL /\ first[u] \in Elements
        BY <3>2, <2>2, <2>3, <2>4 DEF Represents, Gaps
      <4>2. \A i \in 1 .. n : prev[u] # l[i]
        BY <4>1, <1>2
      <4> QED
        BY <3>2, <4>1, <4>2, <2>2, <2>3, <1>7
    <3> QED
      BY <3>1, <3>2
  <2>5. ASSUME NEW u \in Producers, NEW v \in Producers,
               ppc'[u] = "linking", ppc'[v] = "linking", prev'[u] = prev'[v]
        PROVE  u = v
    BY <2>1, <2>2, <2>3, <2>5 DEF Represents, Gaps, Ends, Awaited
  <2> QED
    BY <2>4, <2>5 DEF Gaps
<1>12. ASSUME NEW x \in Elements, NEW y, mpqc_next[x] # NOTQUEUED,
              Follows(x, y)
       PROVE  Follows(x, y)'
  <2>1. mpqc_next'[x] = mpqc_next[x]
    BY <1>12, <1>2, <1>7
  <2> QED
    BY <1>12, <2>1 DEF append_update_tail, Follows
<1>13. Linked(r)'
  <2> SUFFICES ASSUME NEW i \in 1 .. Len(r) - 1 PROVE Follows(r[i], r[i + 1])'
    BY DEF Linked
  <2>1. CASE i < Len(q)
    BY <2>1, <1>3, <1>12, <1>6 DEF Represents, Linked
  <2>2. CASE i = Len(q)
    <3>1. /\ r[i] = mpqh_tail /\ r[i + 1] = l[1]
          /\ mpqc_next[mpqh_tail] = NULL /\ mpqh_tail \in Elements
      BY <2>2, <1>2, <1>3, <1>5 DEF Represents, TailOf, Ends
    <3>2. mpqc_next'[mpqh_tail] = NULL
      BY <3>1, <1>2, <1>7
    <3> QED
      BY <3>1, <3>2 DEF Follows, append_update_tail, TypeOK
  <2>3. CASE i > Len(q)
    <3>1. i = Len(q) + 1 /\ n = 2 /\ r[i] = l[1] /\ r[i + 1] = l[2]
      <4>1. Len(q) \in Nat /\ i \in Nat /\ n \in {1, 2} /\ i < Len(q) + n
        BY <1>2, <1>3
      <4>2. n = 2 /\ i = Len(q) + 1 /\ i + 1 = Len(q) + 2
        BY <4>1, <2>3
      <4> QED
        BY <4>2, <1>3
    <3>2. l[1] # l[2]
      BY <3>1, <1>2, <1>3 DEF IsInjective
    <3> QED
      BY <3>1, <3>2, <1>2, <1>7 DEF Follows
  <2>4. i \in Int /\ Len(q) \in Int
    BY <1>3
  <2> QED
    BY <2>1, <2>2, <2>3, <2>4
<1>14. Linked(b)'
  BY <1>12, <1>3, <1>6 DEF Represents, Linked
<1>15. TailOf(r)'
  <2>1. ~ Awaited(l[n])'
    <3> SUFFICES ASSUME NEW u \in Producers, ppc'[u] = "linking",
                        prev'[u] = l[n]
                 PROVE  FALSE
      BY DEF Awaited
    <3>1. CASE u = p
      <4>1. mpqh_tail = l[n]
        BY <3>1 DEF append_update_tail, TypeOK
      <4> QED
        BY <4>1, <1>2 DEF Represents, TailOf, Ends
    <3>2. CASE u # p
      BY <3>2, <1>2 DEF append_update_tail, Represents, Gaps
    <3> QED
      BY <3>1, <3>2
  <2> QED
    BY <2>1, <1>2, <1>5, <1>7 DEF TailOf, Ends, append_update_tail
<1>16. HeadOf(r)'
  <2>1. /\ UNCHANGED <<cpc, cur>> /\ mpqc_next'[HEAD] = mpqc_next[HEAD]
    BY <1>2, <1>7 DEF append_update_tail, consumer
  <2>2. CASE q = <<>>
    <3>1. /\ cpc \notin {"head", "clear", "xchg", "restore_wait", "restore_head"}
          /\ mpqc_next[HEAD] = NULL
      BY <2>2 DEF Represents, HeadOf, Ends
    <3>2. Follows(HEAD, l[1])'
      BY <2>1, <2>2, <3>1 DEF Follows, append_update_tail, TypeOK, Represents,
          TailOf
    <3> QED
      BY <2>1, <2>2, <3>1, <3>2, <1>5 DEF HeadOf
  <2>3. CASE q # <<>>
    <3>1. Awaited(HEAD)' => Awaited(HEAD)
      BY <2>3, <1>3, <1>5 DEF Awaited, append_update_tail, TypeOK, Represents,
          TailOf
    <3>2. Follows(HEAD, q[1]) => Follows(HEAD, q[1])'
      BY <2>1 DEF Follows, append_update_tail
    <3> QED
      BY <2>1, <2>3, <3>1, <3>2, <1>5 DEF HeadOf, Represents
  <2> QED
    BY <2>2, <2>3
<1>17. BatchOf(b)'
  <2>1. ASSUME b # <<>> PROVE Ends(b[Len(b)])'
    <3>1. Len(b) \in 1 .. Len(b)
      BY <2>1, <1>3
    <3>2. mpqh_tail # b[Len(b)]
      BY <3>1, <1>3, <1>5 DEF Represents, TailOf, Separate
    <3>3. mpqc_next'[b[Len(b)]] = NULL
      BY <2>1, <3>1, <1>2, <1>3, <1>6, <1>7 DEF Represents, BatchOf, Ends
    <3> QED
      BY <2>1, <3>2, <3>3 DEF Ends, Awaited, append_update_tail, TypeOK,
          Represents, BatchOf
  <2>2. ASSUME cpc = "body", Len(b) # 1 PROVE mpqc_next'[b[1]] = b[2]
    <3>1. 1 \in 1 .. Len(b)
      BY <2>2, <1>3 DEF Represents, BatchOf
    <3> QED
      BY <2>2, <3>1, <1>2, <1>3, <1>6, <1>7 DEF Represents, BatchOf
  <2> QED
    BY <2>1, <2>2 DEF Represents, append_update_tail, BatchOf, consumer
<1> QED
  BY <1>8, <1>9, <1>10, <1>11, <1>13, <1>14, <1>15, <1>16, <1>17 DEF Represents

(* The load of the tail changes nothing.                                   *)
LEMMA DequeueBatchStep ==
    ASSUME TypeOK, NEW q \in Seq(Elements), NEW b \in Seq(Elements),
           Represents(q, b),
           dequeue_batch
    PROVE  TypeOK' /\ Represents(q, b)'
<1> USE DEF dequeue_batch, queueVars, producers
<1>1. TypeOK'
  BY DEF TypeOK
<1>2. TailOf(q)' /\ HeadOf(q)' /\ BatchOf(b)'
  BY SameLinks DEF Represents, TailOf, HeadOf, BatchOf
<1> QED
  BY <1>1, <1>2, SameLinks DEF Represents

(* The head of a queue is its first element once it is not NULL.           *)
LEMMA LoadHeadStep ==
    ASSUME TypeOK, NEW q \in Seq(Elements), NEW b \in Seq(Elements),
           Represents(q, b),
           dequeue_load_head
    PROVE  TypeOK' /\ Represents(q, b)'
<1> USE DEF dequeue_load_head, queueVars, producers
<1>1. q # <<>> /\ mpqc_next[HEAD] = q[1] /\ q[1] \in Elements
  BY SeqFacts DEF Represents, HeadOf, Follows
<1>2. TypeOK'
  BY <1>1 DEF TypeOK
<1>3. TailOf(q)' /\ HeadOf(q)' /\ BatchOf(b)'
  BY <1>1, SameLinks DEF Represents, TailOf, HeadOf, BatchOf
<1> QED
  BY <1>2, <1>3, SameLinks DEF Represents

(* A head that is linked is awaited by nobody when it is cleared.          *)
LEMMA ClearHeadStep ==
    ASSUME TypeOK, NEW q \in Seq(Elements), NEW b \in Seq(Elements),
           Represents(q, b),
           dequeue_clear_head
    PROVE  TypeOK' /\ Represents(q, b)'
<1> USE HeadAssumption, NullAssumption DEF dequeue_clear_head, producers
<1>1. /\ q # <<>> /\ cur = q[1] /\ mpqc_next[HEAD] = q[1] /\ q[1] \in Elements
      /\ b = <<>>
      /\ ~ Awaited(HEAD)
  BY SeqFacts DEF Represents, HeadOf, BatchOf, Gaps, Awaited
<1>2. /\ \A x \in Elements : mpqc_next'[x] = mpqc_next[x]
      /\ mpqc_next'[HEAD] = NULL
  BY DEF TypeOK
<1>3. TypeOK'
  BY DEF TypeOK
<1>4. Separate(q, b)' /\ Marked(q, b)'
  BY <1>2 DEF Represents, Marked
<1>5. Gaps'
  BY <1>2 DEF Represents, Gaps
<1>6. /\ \A x \in Elements : Ends(x)' <=> Ends(x)
      /\ \A x : Awaited(x)' <=> Awaited(x)
      /\ \A x \in Elements : \A y : Follows(x, y)' <=> Follows(x, y)
  BY <1>2 DEF Ends, Awaited, Follows
<1>7. Linked(q)'
  BY <1>6, SeqFacts DEF Represents, Linked
<1>8. Linked(b)'
  BY <1>6, SeqFacts DEF Represents, Linked
<1>9. TailOf(q)' /\ HeadOf(q)' /\ BatchOf(b)'
  BY <1>1, <1>2, <1>6, SeqFacts DEF Represents, TailOf, HeadOf, BatchOf
<1> QED
  BY <1>3, <1>4, <1>5, <1>7, <1>8, <1>9 DEF Represents

(* The exchange of the tail makes the queue the batch.                     *)
LEMMA XchgTailStep ==
    ASSUME TypeOK, NEW q \in Seq(Elements), NEW b \in Seq(Elements),
           Represents(q, b),
           dequeue_xchg_tail
    PROVE  TypeOK' /\ Represents(<<>>, q)' /\ b = <<>> /\ q # <<>>
<1> USE DEF dequeue_xchg_tail, producers
<1>1. /\ q # <<>> /\ cur = q[1] /\ mpqc_next[HEAD] = NULL /\ b = <<>>
      /\ ~ Awaited(HEAD) /\ mpqh_tail = q[Len(q)] /\ q[Len(q)] \in Elements
  BY SeqFacts DEF Represents, HeadOf, BatchOf, TailOf
<1>2. TypeOK'
  BY <1>1 DEF TypeOK
<1>3. Separate(<<>>, q)' /\ Marked(<<>>, q)'
  BY <1>1 DEF Represents, Separate, Marked
<1>4. Linked(<<>>)' /\ TailOf(<<>>)' /\ HeadOf(<<>>)' /\ BatchOf(q)'
  BY <1>1, SameLinks DEF Represents, TailOf, HeadOf, BatchOf, Ends
<1> QED
  BY <1>1, <1>2, <1>3, <1>4, SameLinks DEF Represents

(* The walk knows the next element when the current one may be reused.     *)
LEMMA BatchNextStep ==
    ASSUME TypeOK, NEW q \in Seq(Elements), NEW b \in Seq(Elements),
           Represents(q, b),
           batch_next
    PROVE  TypeOK' /\ Represents(q, b)'
<1> USE DEF batch_next, queueVars, producers
<1>1. /\ b # <<>> /\ cur = b[1] /\ last = b[Len(b)]
  BY DEF Represents, BatchOf
<1>2. CASE cur = last
  <2>1. Len(b) = 1
    BY <1>1, <1>2, SeqFacts DEF Represents, Separate, IsInjective
  <2>2. tmp' = NULL
    BY <1>1, <1>2, SeqFacts
  <2>3. TypeOK'
    BY <2>2 DEF TypeOK
  <2>4. TailOf(q)' /\ HeadOf(q)' /\ BatchOf(b)'
    BY <1>1, <2>1, <2>2, SameLinks DEF Represents, TailOf, HeadOf, BatchOf
  <2> QED
    BY <2>3, <2>4, SameLinks DEF Represents
<1>3. CASE cur # last
  <2>1. Len(b) # 1 /\ 1 \in 1 .. Len(b) - 1 /\ 2 \in 1 .. Len(b)
    BY <1>1, <1>3, SeqFacts
  <2>2. tmp' = b[2] /\ mpqc_next[cur] = b[2] /\ b[2] \in Elements
    BY <1>1, <1>3, <2>1, SeqFacts DEF Represents, Linked, Follows
  <2>3. TypeOK'
    BY <2>2 DEF TypeOK
  <2>4. TailOf(q)' /\ HeadOf(q)' /\ BatchOf(b)'
    BY <1>1, <2>1, <2>2, SameLinks DEF Represents, TailOf, HeadOf, BatchOf
  <2> QED
    BY <2>3, <2>4, SameLinks DEF Represents
<1> QED
  BY <1>2, <1>3

(* A producer links: what it knew is in the list.                          *)
LEMMA AppendPrev ==
    ASSUME TypeOK, NEW q \in Seq(Elements), NEW b \in Seq(Elements),
           Represents(q, b),
           NEW p \in Producers, append_update_prev(p)
    PROVE  TypeOK' /\ Represents(q, b)'
<1> USE HeadAssumption, NullAssumption, MarkerAssumption
<1>1. /\ ppc[p] = "linking" /\ prev[p] \in Elements \union {HEAD}
      /\ mpqc_next[prev[p]] = NULL
      /\ first[p] \in Elements
  BY DEF Represents, Gaps, append_update_prev
<1>2. /\ mpqc_next'[prev[p]] = first[p]
      /\ \A x \in Elements \union {HEAD} : x # prev[p] => mpqc_next'[x] = mpqc_next[x]
  BY <1>1 DEF append_update_prev, TypeOK
<1>3. \A u \in Producers :
          /\ ppc'[u] = "linking" <=> (ppc[u] = "linking" /\ u # p)
          /\ u # p => prev'[u] = prev[u] /\ first'[u] = first[u]
  <2>1. DOMAIN ppc = Producers /\ DOMAIN prev = Producers /\ DOMAIN first = Producers
    BY DEF TypeOK
  <2> QED
    BY <2>1 DEF append_update_prev
<1>4. TypeOK'
  BY <1>1 DEF append_update_prev, TypeOK, consumer
<1>5. Marked(q, b)'
  BY <1>1, <1>2 DEF Represents, Marked
<1>6. Gaps'
  <2>1. ASSUME NEW u \in Producers, ppc'[u] = "linking"
        PROVE  u # p /\ prev[u] # prev[p]
    BY <1>1, <1>3, <2>1 DEF Represents, Gaps
  <2> QED
    BY <1>2, <1>3, <2>1 DEF Represents, Gaps
<1>7. ASSUME NEW x \in Elements \union {HEAD}, NEW y \in Elements,
             Follows(x, y)
      PROVE  Follows(x, y)'
  <2>1. CASE x = prev[p]
    <3>1. PICK u \in Producers : ppc[u] = "linking" /\ prev[u] = x /\ first[u] = y
      BY <1>1, <1>7, <2>1 DEF Follows
    <3>2. u = p
      BY <3>1, <2>1, <1>1 DEF Represents, Gaps
    <3> QED
      BY <3>1, <3>2, <2>1, <1>2 DEF Follows
  <2>2. CASE x # prev[p]
    BY <1>2, <1>3, <1>7, <2>2 DEF Follows
  <2> QED
    BY <2>1, <2>2
<1>8. ASSUME NEW x \in Elements \union {HEAD}
      PROVE  (Ends(x) => Ends(x)') /\ (~ Awaited(x) => x # prev[p] /\ ~ Awaited(x)')
  BY <1>1, <1>2, <1>3 DEF Ends, Awaited
<1>9. Linked(q)'
  <2> SUFFICES ASSUME NEW i \in 1 .. Len(q) - 1 PROVE Follows(q[i], q[i + 1])'
    BY DEF Linked
  <2>1. i \in 1 .. Len(q) /\ i + 1 \in 1 .. Len(q)
    BY SeqFacts
  <2> QED
    BY <1>7, <2>1, SeqFacts DEF Represents, Linked
<1>10. Linked(b)'
  <2> SUFFICES ASSUME NEW i \in 1 .. Len(b) - 1 PROVE Follows(b[i], b[i + 1])'
    BY DEF Linked
  <2>1. i \in 1 .. Len(b) /\ i + 1 \in 1 .. Len(b)
    BY SeqFacts
  <2> QED
    BY <1>7, <2>1, SeqFacts DEF Represents, Linked
<1> USE DEF append_update_prev, consumer
<1>11. Separate(q, b)'
  BY DEF Represents
<1>12. TailOf(q)'
  BY <1>8, SeqFacts DEF Represents, TailOf
<1>13. HeadOf(q)'
  <2>1. cpc \in {"xchg", "restore_head"} => HEAD # prev[p] /\ ~ Awaited(HEAD)'
    BY <1>8 DEF Represents, HeadOf
  <2>2. cpc \notin {"xchg", "restore_head"} =>
          IF q = <<>> THEN Ends(HEAD)' ELSE Follows(HEAD, q[1])'
    BY <1>7, <1>8, SeqFacts DEF Represents, HeadOf
  <2>3. cpc = "clear" => HEAD # prev[p]
    BY <1>1, SeqFacts DEF Represents, HeadOf
  <2> QED
    BY <2>1, <2>2, <2>3, <1>2 DEF Represents, HeadOf
<1>14. BatchOf(b)'
  <2>1. b # <<>> => Ends(b[Len(b)])'
    BY <1>8, SeqFacts DEF Represents, BatchOf
  <2>2. ASSUME cpc = "body", Len(b) # 1 PROVE mpqc_next'[b[1]] = b[2]
    <3>1. b # <<>>
      BY <2>2 DEF Represents, BatchOf
    <3>2. PICK n \in Nat : n = Len(b) /\ n # 0 /\ n # 1
      BY <2>2, <3>1, SeqFacts
    <3>3. 1 \in 1 .. Len(b) /\ 2 \in 1 .. Len(b)
      <4>1. 1 \in 1 .. n /\ 2 \in 1 .. n
        BY <3>2
      <4> QED
        BY <3>2, <4>1
    <3>4. b[1] \in Elements /\ b[2] \in Elements /\ mpqc_next[b[1]] = b[2]
      BY <2>2, <3>3, SeqFacts DEF Represents, BatchOf
    <3> QED
      BY <3>4, <1>1, <1>2
  <2> QED
    BY <2>1, <2>2 DEF Represents, BatchOf
<1> QED
  BY <1>4, <1>5, <1>6, <1>9, <1>10, <1>11, <1>12, <1>13, <1>14 DEF Represents

(* An element leaves the batch when nobody is going to link it.            *)
LEMMA InvokeStep ==
    ASSUME TypeOK, NEW q \in Seq(Elements), NEW b \in Seq(Elements),
           Represents(q, b),
           invoke
    PROVE  TypeOK' /\ b # <<>> /\ Represents(q, Tail(b))'
<1> USE HeadAssumption, NullAssumption, MarkerAssumption
<1>1. /\ b # <<>> /\ cur = b[1] /\ cur \in Elements /\ last = b[Len(b)]
      /\ IF Len(b) = 1 THEN tmp = NULL ELSE tmp = b[2] /\ mpqc_next[cur] = b[2]
  BY SeqFacts DEF invoke, Represents, BatchOf
<1>2. PICK t \in Seq(Elements) : /\ t = Tail(b) /\ Len(t) = Len(b) - 1
                                 /\ \A i \in 1 .. Len(t) : t[i] = b[i + 1]
  BY <1>1, HeadTailProperties
<1>3. /\ Len(t) \in Nat /\ DOMAIN t = 1 .. Len(t) /\ (t = <<>> <=> Len(b) = 1)
      /\ \A i \in 1 .. Len(t) : i \in 1 .. Len(b) /\ i + 1 \in 1 .. Len(b)
  <2>1. Len(b) \in Nat /\ Len(b) # 0
    BY <1>1, SeqFacts
  <2>2. t = <<>> <=> Len(t) = 0
    OBVIOUS
  <2> QED
    BY <1>2, <2>1, <2>2
<1>4. ~ Awaited(cur)
  <2>1. CASE Len(b) = 1
    BY <1>1, <2>1 DEF Represents, BatchOf, Ends
  <2>2. CASE Len(b) # 1
    <3>1. 2 \in 1 .. Len(b)
      BY <2>2, <1>2, <1>3
    <3>2. mpqc_next[cur] # NULL
      BY <2>2, <3>1, <1>1, SeqFacts
    <3> QED
      BY <3>2 DEF Represents, Gaps, Awaited
  <2> QED
    BY <2>1, <2>2
<1>5. /\ mpqc_next'[cur] = NOTQUEUED
      /\ \A x \in Elements \union {HEAD} : x # cur => mpqc_next'[x] = mpqc_next[x]
      /\ UNCHANGED <<mpqh_tail, ppc, prev, first>>
  BY <1>1 DEF invoke, TypeOK, producers
<1>6. \A i \in 1 .. Len(t) : t[i] \in Elements /\ t[i] # cur
  <2>1. 1 \in 1 .. Len(b) /\ DOMAIN b = 1 .. Len(b)
    BY <1>1, SeqFacts
  <2> SUFFICES ASSUME NEW i \in 1 .. Len(t) PROVE t[i] # cur
    OBVIOUS
  <2>2. i + 1 \in 1 .. Len(b) /\ i + 1 # 1 /\ t[i] = b[i + 1]
    BY <1>2, <1>3
  <2> QED
    BY <1>1, <2>1, <2>2 DEF Represents, Separate, IsInjective
<1>7. \A i \in 1 .. Len(q) : q[i] \in Elements /\ q[i] # cur
  BY <1>1, SeqFacts DEF Represents, Separate
<1>8. TypeOK'
  <2>1. tmp \in Elements \union {NULL} /\ last \in Elements \union {NULL}
    BY DEF TypeOK
  <2> QED
    BY <1>1, <2>1 DEF TypeOK, invoke, producers
<1>9. Separate(q, t)'
  BY <1>2, <1>3, SeqFacts DEF Represents, Separate, IsInjective
<1>10. Marked(q, t)'
  <2> SUFFICES ASSUME NEW e \in Elements
               PROVE  mpqc_next'[e] # NOTQUEUED
                          <=> \/ \E i \in DOMAIN q : q[i] = e
                              \/ \E i \in DOMAIN t : t[i] = e
     BY DEF Marked
  <2>1. CASE e = cur
    BY <2>1, <1>3, <1>5, <1>6, <1>7, SeqFacts
  <2>2. CASE e # cur
    <3>1. (\E i \in 1 .. Len(b) : b[i] = e) <=> (\E i \in 1 .. Len(t) : t[i] = e)
      <4>1. ASSUME NEW i \in 1 .. Len(b), b[i] = e
            PROVE  i - 1 \in 1 .. Len(t) /\ t[i - 1] = e
        <5>1. i # 1
          BY <4>1, <2>2, <1>1
        <5>2. i - 1 \in 1 .. Len(t) /\ (i - 1) + 1 = i
          BY <5>1, <1>2, <1>3, SeqFacts
        <5> QED
          BY <4>1, <5>2, <1>2
      <4>2. ASSUME NEW i \in 1 .. Len(t), t[i] = e
            PROVE  i + 1 \in 1 .. Len(b) /\ b[i + 1] = e
        BY <4>2, <1>2, <1>3
      <4> QED
        BY <4>1, <4>2
    <3>2. DOMAIN b = 1 .. Len(b)
      OBVIOUS
    <3>3. mpqc_next'[e] = mpqc_next[e]
      BY <2>2, <1>5
    <3> QED
      BY <3>1, <3>2, <3>3, <1>3 DEF Represents, Marked
  <2> QED
    BY <2>1, <2>2
<1>11. Gaps'
  BY <1>4, <1>5 DEF Represents, Gaps, Awaited
<1>12. ASSUME NEW x \in Elements \union {HEAD}, x # cur
       PROVE  /\ Ends(x)' <=> Ends(x)
              /\ Awaited(x)' <=> Awaited(x)
              /\ \A y : Follows(x, y)' <=> Follows(x, y)
  BY <1>5, <1>12 DEF Ends, Awaited, Follows
<1>13. Linked(q)'
  <2> SUFFICES ASSUME NEW i \in 1 .. Len(q) - 1 PROVE Follows(q[i], q[i + 1])'
    BY DEF Linked
  <2>1. i \in 1 .. Len(q)
    BY SeqFacts
  <2> QED
    BY <1>7, <1>12, <2>1 DEF Represents, Linked
<1>14. Linked(t)'
  <2> SUFFICES ASSUME NEW i \in 1 .. Len(t) - 1 PROVE Follows(t[i], t[i + 1])'
    BY DEF Linked
  <2>1. i \in 1 .. Len(t) /\ i + 1 \in 1 .. Len(t) /\ i + 1 \in 1 .. Len(b) - 1
    BY <1>2, <1>3, SeqFacts
  <2>2. t[i] = b[i + 1] /\ t[i + 1] = b[(i + 1) + 1]
    BY <1>2, <2>1
  <2> QED
    BY <1>6, <1>12, <2>1, <2>2 DEF Represents, Linked
<1>15. TailOf(q)'
  BY <1>5, <1>7, <1>12, SeqFacts DEF Represents, TailOf
<1>16. HeadOf(q)'
  BY <1>1, <1>12, <1>3 DEF Represents, HeadOf, invoke
<1>17. BatchOf(t)'
  <2>1. CASE Len(b) = 1
    BY <2>1, <1>1, <1>3 DEF BatchOf, invoke
  <2>2. CASE Len(b) # 1
    <3>1. /\ 2 \in 1 .. Len(b) /\ 1 \in 1 .. Len(t)
          /\ Len(t) \in 1 .. Len(t) /\ Len(t) + 1 = Len(b)
      BY <2>2, <1>1, <1>2, SeqFacts
    <3>2. t[1] = b[2] /\ t[Len(t)] = b[Len(b)] /\ b[2] # NULL
      BY <3>1, <1>2, SeqFacts
    <3>3. Ends(t[Len(t)])'
      BY <3>1, <3>2, <1>1, <1>6, <1>12 DEF Represents, BatchOf
    <3> QED
      BY <2>2, <3>2, <3>3, <1>1, <1>3 DEF BatchOf, invoke
  <2> QED
    BY <2>1, <2>2
<1> QED
  BY <1>1, <1>2, <1>8, <1>9, <1>10, <1>11, <1>13, <1>14, <1>15, <1>16, <1>17
      DEF Represents

(* The batch is linked to a queue with a head.                             *)
LEMMA JoinedStep ==
    ASSUME TypeOK, NEW q \in Seq(Elements), NEW b \in Seq(Elements),
           Represents(q, b),
           b # <<>>, cpc # "restore_head", mpqc_next[HEAD] # NULL,
           mpqc_next' = [mpqc_next EXCEPT ![last] = mpqc_next[HEAD]],
           cpc' = "restore_head", tmp' \in Elements \union {NULL},
           UNCHANGED <<mpqh_tail, ppc, prev, first, cur, last>>,
           NEW r \in Seq(Elements), IsConcat(r, b, q)
    PROVE  TypeOK' /\ Represents(r, <<>>)'
<1> USE HeadAssumption, NullAssumption, MarkerAssumption
<1>1. /\ cur = b[1] /\ last = b[Len(b)] /\ Ends(last) /\ last \in Elements
      /\ cpc \in {"next", "body", "restore_cas", "restore_wait"}
  BY SeqFacts DEF Represents, BatchOf
<1>2. q # <<>> /\ mpqc_next[HEAD] = q[1] /\ q[1] \in Elements
  BY <1>1, SeqFacts DEF Represents, HeadOf, Ends, Follows
<1>3. /\ mpqc_next'[last] = q[1]
      /\ \A x \in Elements \union {HEAD} : x # last => mpqc_next'[x] = mpqc_next[x]
  BY <1>1, <1>2 DEF TypeOK
<1>4. TypeOK'
  BY <1>1, <1>2 DEF TypeOK
<1>5. /\ Len(r) \in Nat /\ Len(r) = Len(b) + Len(q) /\ DOMAIN r = 1 .. Len(r)
      /\ Len(r) # 0
      /\ \A i \in 1 .. Len(b) : r[i] = b[i] /\ i \in 1 .. Len(r)
      /\ \A i \in 1 .. Len(q) : r[Len(b) + i] = q[i] /\ Len(b) + i \in 1 .. Len(r)
      /\ r[1] = b[1] /\ r[Len(r)] = q[Len(q)]
  <2>1. /\ Len(b) \in Nat /\ Len(q) \in Nat /\ 1 \in 1 .. Len(b)
        /\ Len(q) \in 1 .. Len(q)
        /\ Len(r) = Len(b) + Len(q) /\ DOMAIN r = 1 .. Len(r)
    BY <1>2, SeqFacts DEF IsConcat
  <2>2. /\ \A i \in 1 .. Len(b) : r[i] = b[i]
        /\ \A i \in 1 .. Len(q) : r[Len(b) + i] = q[i]
    BY DEF IsConcat
  <2> QED
    BY <2>1, <2>2
<1>6. \A i \in 1 .. Len(r) :
          \/ i \in 1 .. Len(b) /\ r[i] = b[i]
          \/ \E j \in 1 .. Len(q) : i = Len(b) + j /\ r[i] = q[j]
  BY ConcatSplit
<1>7. Separate(r, <<>>)'
  <2>1. ASSUME NEW i \in 1 .. Len(r), NEW j \in 1 .. Len(r), r[i] = r[j]
        PROVE  i = j
    <3>1. ASSUME NEW x \in 1 .. Len(b), NEW y \in 1 .. Len(q) PROVE b[x] # q[y]
      BY SeqFacts DEF Represents, Separate
    <3>2. \A x, y \in 1 .. Len(b) : b[x] = b[y] => x = y
      BY SeqFacts DEF Represents, Separate, IsInjective
    <3>3. \A x, y \in 1 .. Len(q) : q[x] = q[y] => x = y
      BY SeqFacts DEF Represents, Separate, IsInjective
    <3>4. CASE i \in 1 .. Len(b) /\ r[i] = b[i]
      BY <2>1, <3>1, <3>2, <3>4, <1>6
    <3>5. CASE \E k \in 1 .. Len(q) : i = Len(b) + k /\ r[i] = q[k]
      BY <2>1, <3>1, <3>3, <3>5, <1>6
    <3> QED
      BY <3>4, <3>5, <1>6
  <2> QED
    BY <2>1, <1>5 DEF Separate, IsInjective
<1>8. Marked(r, <<>>)'
  <2> SUFFICES ASSUME NEW e \in Elements
               PROVE mpqc_next'[e] # NOTQUEUED <=> (\E i \in 1 .. Len(r) : r[i] = e)
    BY <1>5 DEF Marked
  <2>1. mpqc_next'[e] # NOTQUEUED <=> mpqc_next[e] # NOTQUEUED
    BY <1>1, <1>2, <1>3 DEF Ends
  <2>2. mpqc_next[e] # NOTQUEUED
            <=> \/ \E i \in 1 .. Len(q) : q[i] = e
                \/ \E i \in 1 .. Len(b) : b[i] = e
    BY SeqFacts DEF Represents, Marked
  <2>3. (\E i \in 1 .. Len(r) : r[i] = e)
            => \/ \E i \in 1 .. Len(q) : q[i] = e
               \/ \E i \in 1 .. Len(b) : b[i] = e
    BY <1>6
  <2>4. (\E i \in 1 .. Len(q) : q[i] = e) \/ (\E i \in 1 .. Len(b) : b[i] = e)
            => \E i \in 1 .. Len(r) : r[i] = e
    BY <1>5
  <2> QED
    BY <2>1, <2>2, <2>3, <2>4
<1>9. Gaps'
  BY <1>1, <1>3 DEF Represents, Gaps, Ends, Awaited
<1>10. ASSUME NEW x \in Elements \union {HEAD}, x # last
       PROVE  /\ Ends(x)' <=> Ends(x)
              /\ Awaited(x)' <=> Awaited(x)
              /\ \A y : Follows(x, y)' <=> Follows(x, y)
  BY <1>3, <1>10 DEF Ends, Awaited, Follows
<1>11. /\ \A i \in 1 .. Len(q) : q[i] \in Elements /\ q[i] # last
       /\ \A i \in 1 .. Len(b) - 1 : b[i] \in Elements /\ b[i] # last
  <2>1. Len(b) \in 1 .. Len(b) /\ DOMAIN b = 1 .. Len(b)
    BY SeqFacts
  <2>2. \A i \in 1 .. Len(q) : q[i] \in Elements /\ q[i] # last
    BY <1>1, <2>1, SeqFacts DEF Represents, Separate
  <2>3. ASSUME NEW i \in 1 .. Len(b) - 1 PROVE b[i] \in Elements /\ b[i] # last
    <3>1. i \in 1 .. Len(b) /\ i # Len(b)
      BY <2>1
    <3> QED
      BY <3>1, <1>1, <2>1 DEF Represents, Separate, IsInjective
  <2> QED
    BY <2>2, <2>3
<1>12. Linked(r)'
  <2> SUFFICES ASSUME NEW i \in 1 .. Len(r) - 1 PROVE Follows(r[i], r[i + 1])'
    BY DEF Linked
  <2>1. /\ i \in Nat /\ Len(b) \in Nat /\ Len(q) \in Nat
        /\ i < Len(b) + Len(q) /\ Len(b) # 0 /\ Len(q) # 0
    BY <1>2, <1>5, SeqFacts
  <2>2. CASE i < Len(b)
    <3>1. i \in 1 .. Len(b) - 1 /\ i \in 1 .. Len(b) /\ i + 1 \in 1 .. Len(b)
      BY <2>1, <2>2
    <3> QED
      BY <3>1, <1>5, <1>10, <1>11 DEF Represents, Linked
  <2>3. CASE i = Len(b)
    <3>1. i \in 1 .. Len(b) /\ 1 \in 1 .. Len(q)
      BY <2>1, <2>3
    <3>2. r[i] = last /\ r[i + 1] = q[1]
      BY <2>3, <3>1, <1>1, <1>5
    <3> QED
      BY <3>2, <1>3 DEF Follows
  <2>4. CASE i > Len(b)
    <3>1. /\ i - Len(b) \in 1 .. Len(q) - 1 /\ i - Len(b) \in 1 .. Len(q)
          /\ i - Len(b) + 1 \in 1 .. Len(q)
          /\ Len(b) + (i - Len(b)) = i /\ Len(b) + (i - Len(b) + 1) = i + 1
      <4>1. PICK m \in Nat, n \in Nat : m = Len(b) /\ n = Len(q)
        BY <2>1
      <4>2. /\ i - m \in 1 .. n - 1 /\ i - m \in 1 .. n /\ i - m + 1 \in 1 .. n
            /\ m + (i - m) = i /\ m + (i - m + 1) = i + 1
        <5>1. i \in Nat /\ i > m /\ i < m + n
          BY <2>1, <2>4, <4>1
        <5> QED
          BY <5>1
      <4> QED
        BY <4>1, <4>2
    <3>2. r[i] = q[i - Len(b)] /\ r[i + 1] = q[i - Len(b) + 1]
      BY <3>1, <1>5
    <3> QED
      BY <3>1, <3>2, <1>10, <1>11 DEF Represents, Linked
  <2> QED
    BY <2>1, <2>2, <2>3, <2>4
<1>13. Linked(<<>>)'
  BY DEF Linked
<1>14. TailOf(r)'
  <2>1. r # <<>> /\ Len(q) \in 1 .. Len(q)
    BY <1>2, <1>5, SeqFacts
  <2> QED
    BY <2>1, <1>2, <1>5, <1>10, <1>11 DEF Represents, TailOf
<1>15. HeadOf(r)'
  <2>1. r # <<>>
    BY <1>5
  <2>2. ~ Awaited(HEAD)
    BY DEF Represents, Gaps, Awaited
  <2> QED
    BY <2>1, <2>2, <1>1, <1>5, <1>10 DEF HeadOf
<1>16. BatchOf(<<>>)'
  BY DEF BatchOf
<1> QED
  BY <1>4, <1>7, <1>8, <1>9, <1>12, <1>13, <1>14, <1>15, <1>16 DEF Represents

(* The start of a restore: the queue had no head yet.                      *)
LEMMA RestoreBatchWaits ==
    ASSUME TypeOK, NEW q \in Seq(Elements), NEW b \in Seq(Elements),
           Represents(q, b),
           restore_batch, mpqc_next[HEAD] = NULL
    PROVE  TypeOK' /\ Represents(q, b)'
<1> USE DEF restore_batch, producers
<1>1. /\ b # <<>> /\ last = b[Len(b)] /\ last \in Elements
      /\ mpqc_next[last] = NULL
  BY SeqFacts DEF Represents, BatchOf, Ends
<1>2. mpqc_next' = mpqc_next
  BY <1>1 DEF TypeOK
<1>3. TypeOK'
  BY <1>2 DEF TypeOK
<1>4. TailOf(q)' /\ HeadOf(q)' /\ BatchOf(b)'
  BY <1>1, <1>2, SameLinks DEF Represents, TailOf, HeadOf, BatchOf
<1> QED
  BY <1>2, <1>3, <1>4, SameLinks DEF Represents

(* An empty queue becomes the batch.                                       *)
LEMMA RestoreCasWins ==
    ASSUME TypeOK, NEW q \in Seq(Elements), NEW b \in Seq(Elements),
           Represents(q, b),
           restore_cas, mpqh_tail = HEAD
    PROVE  TypeOK' /\ Represents(b, <<>>)' /\ q = <<>> /\ b # <<>>
<1> USE HeadAssumption DEF restore_cas, producers
<1>1. /\ b # <<>> /\ cur = b[1] /\ last = b[Len(b)] /\ last \in Elements
      /\ Ends(last)
  BY SeqFacts DEF Represents, BatchOf
<1>2. q = <<>>
  BY SeqFacts DEF Represents, TailOf
<1>3. TypeOK'
  BY <1>1 DEF TypeOK
<1>4. Separate(b, <<>>)' /\ Marked(b, <<>>)'
  BY <1>2 DEF Represents, Separate, Marked
<1>5. Linked(<<>>)' /\ BatchOf(<<>>)'
  BY DEF Linked, BatchOf
<1>6. TailOf(b)'
  BY <1>1, SameLinks DEF TailOf
<1>7. HeadOf(b)'
  BY <1>1, <1>2, SameLinks DEF Represents, HeadOf, Ends
<1> QED
  BY <1>1, <1>2, <1>3, <1>4, <1>5, <1>6, <1>7, SameLinks DEF Represents

(* An append was faster.                                                   *)
LEMMA RestoreCasLoses ==
    ASSUME TypeOK, NEW q \in Seq(Elements), NEW b \in Seq(Elements),
           Represents(q, b),
           restore_cas, mpqh_tail # HEAD
    PROVE  TypeOK' /\ Represents(q, b)'
<1> USE DEF restore_cas, producers
<1>1. TypeOK'
  BY DEF TypeOK
<1>2. TailOf(q)' /\ HeadOf(q)' /\ BatchOf(b)'
  BY SameLinks DEF Represents, TailOf, HeadOf, BatchOf
<1> QED
  BY <1>1, <1>2, SameLinks DEF Represents

(* The head is attached to the batch that was put back.                    *)
LEMMA RestoreHeadStep ==
    ASSUME TypeOK, NEW q \in Seq(Elements), NEW b \in Seq(Elements),
           Represents(q, b),
           restore_head
    PROVE  TypeOK' /\ Represents(q, b)'
<1> USE HeadAssumption, NullAssumption DEF restore_head, producers
<1>1. q # <<>> /\ cur = q[1] /\ ~ Awaited(HEAD) /\ b = <<>> /\ q[1] \in Elements
  BY SeqFacts DEF Represents, HeadOf, BatchOf
<1>2. /\ \A x \in Elements : mpqc_next'[x] = mpqc_next[x]
      /\ mpqc_next'[HEAD] = q[1]
  BY <1>1 DEF TypeOK
<1>3. TypeOK'
  BY <1>1 DEF TypeOK
<1>4. Separate(q, b)' /\ Marked(q, b)'
  BY <1>2 DEF Represents, Marked
<1>5. Gaps'
  BY <1>1, <1>2 DEF Represents, Gaps, Awaited
<1>6. /\ \A x \in Elements : Ends(x)' <=> Ends(x)
      /\ \A x \in Elements : \A y : Follows(x, y)' <=> Follows(x, y)
  BY <1>2 DEF Ends, Awaited, Follows
<1>7. Linked(q)'
  BY <1>6, SeqFacts DEF Represents, Linked
<1>8. Linked(b)'
  BY <1>6, SeqFacts DEF Represents, Linked
<1>9. TailOf(q)' /\ HeadOf(q)' /\ BatchOf(b)'
  BY <1>1, <1>2, <1>6, SeqFacts DEF Represents, TailOf, HeadOf, BatchOf,
      Follows
<1> QED
  BY <1>3, <1>4, <1>5, <1>7, <1>8, <1>9 DEF Represents

-----------------------------------------------------------------------------
(* The state functions of the refinement *)

(* In a list whose gaps are told apart there is one element after another. *)
LEMMA FollowsIsSucc ==
    ASSUME TypeOK, Gaps, NEW x \in Elements \union {HEAD}, NEW y \in Elements,
           Follows(x, y)
    PROVE  succ(x) = y
<1> USE NullAssumption
<1>1. CASE mpqc_next[x] = y
  BY <1>1 DEF succ
<1>2. CASE mpqc_next[x] # y
  <2>1. PICK p \in Producers : ppc[p] = "linking" /\ prev[p] = x /\ first[p] = y
    BY <1>2 DEF Follows
  <2>2. {r \in Producers : ppc[r] = "linking" /\ prev[r] = x} = {p}
    BY <2>1 DEF Gaps
  <2>3. mpqc_next[x] = NULL
    BY <1>2 DEF Follows
  <2> QED
    BY <2>1, <2>2, <2>3 DEF succ
<1> QED
  BY <1>1, <1>2

(* Memory is finite, so that a list without repetition is one of Chains.   *)
LEMMA IsAChain ==
    ASSUME NEW s \in Seq(Elements), s # <<>>, IsInjective(s)
    PROVE  s \in Chains
<1>1. PICK n \in Nat : n = Len(s) /\ n # 0 /\ s \in [1 .. n -> Elements]
  OBVIOUS
<1>2. s \in Injection(1 .. n, Elements)
  BY <1>1 DEF Injection
<1>3. /\ Cardinality(1 .. n) = n
      /\ Cardinality(1 .. n) <= Cardinality(Elements)
      /\ Cardinality(Elements) \in Nat
  BY <1>2, FS_Injection, FS_Interval, FS_CardinalityType, ElementsAssumption
<1>4. n \in 1 .. Cardinality(Elements)
  BY <1>1, <1>3
<1> QED
  BY <1>1, <1>4 DEF Chains

(* What Chains holds.                                                      *)
LEMMA ChainIs ==
    ASSUME NEW t \in Chains
    PROVE  t \in Seq(Elements) /\ t # <<>> /\ IsInjective(t)
<1>1. PICK n \in 1 .. Cardinality(Elements) :
          t \in [1 .. n -> Elements] /\ IsInjective(t)
  BY DEF Chains
<1>2. n \in Nat /\ n # 0
  BY FS_CardinalityType, ElementsAssumption
<1>3. t \in Seq(Elements) /\ Len(t) = n
  BY <1>1, <1>2
<1> QED
  BY <1>1, <1>2, <1>3

(* The path between the ends of a list is the list.                        *)
LEMMA PathIs ==
    ASSUME TypeOK, Gaps, NEW s \in Seq(Elements), s # <<>>, IsInjective(s),
           Linked(s)
    PROVE  path(s[1], s[Len(s)]) = s
<1> DEFINE Good(t) == /\ t[1] = s[1] /\ t[Len(t)] = s[Len(s)]
                      /\ \A i \in 1 .. Len(t) - 1 : t[i + 1] = succ(t[i])
<1>1. Good(s)
  <2>1. ASSUME NEW i \in 1 .. Len(s) - 1 PROVE s[i + 1] = succ(s[i])
    <3>1. s[i] \in Elements /\ s[i + 1] \in Elements
      OBVIOUS
    <3> QED
      BY <3>1, FollowsIsSucc DEF Linked
  <2> QED
    BY <2>1
<1>2. path(s[1], s[Len(s)]) \in Chains /\ Good(path(s[1], s[Len(s)]))
  BY <1>1, IsAChain DEF path
<1> DEFINE t == path(s[1], s[Len(s)])
<1>3. t \in Seq(Elements) /\ t # <<>> /\ IsInjective(t)
  BY <1>2, ChainIs
<1>4. t[1] = s[1] /\ t[Len(t)] = s[Len(s)]
  BY <1>2
<1>5. \A i \in 1 .. Len(s) - 1 : i < Len(t) /\ s[i] = t[i] => s[i + 1] = t[i + 1]
  <2> SUFFICES ASSUME NEW i \in 1 .. Len(s) - 1, i < Len(t), s[i] = t[i]
               PROVE  s[i + 1] = t[i + 1]
    OBVIOUS
  <2>1. i \in 1 .. Len(t) - 1
    BY <1>3
  <2> QED
    BY <2>1, <1>1, <1>2
<1> HIDE DEF t
<1>6. s = t
  BY <1>3, <1>4, <1>5, ChainUnique
<1> QED
  BY <1>6 DEF t

(* queueOf and batchOf are the queue and the batch in memory.              *)
Mapped ==
    \A q, b \in Seq(Elements) :
        TypeOK /\ Represents(q, b) => queueOf = q /\ batchOf = b

LEMMA Mapping == Mapped
<1> SUFFICES ASSUME NEW q \in Seq(Elements), NEW b \in Seq(Elements), TypeOK,
                    Represents(q, b)
             PROVE  queueOf = q /\ batchOf = b
  BY DEF Mapped
<1>1. queueOf = q
  <2>1. CASE q = <<>>
    BY <2>1 DEF queueOf, Represents, TailOf
  <2>2. CASE q # <<>>
    <3>1. mpqh_tail = q[Len(q)] /\ mpqh_tail # HEAD /\ q[1] \in Elements
      BY <2>2, SeqFacts, HeadAssumption DEF Represents, TailOf
    <3>2. path(q[1], mpqh_tail) = q
      BY <2>2, <3>1, PathIs DEF Represents, Separate
    <3>3. CASE cpc \in {"xchg", "restore_head"}
      <4>1. cur = q[1]
        BY <3>3 DEF Represents, HeadOf
      <4> QED
        BY <3>1, <3>2, <3>3, <4>1 DEF queueOf
    <3>4. CASE cpc \notin {"xchg", "restore_head"}
      <4>1. succ(HEAD) = q[1]
        BY <2>2, <3>1, <3>4, FollowsIsSucc DEF Represents, HeadOf
      <4> QED
        BY <3>1, <3>2, <3>4, <4>1 DEF queueOf
    <3> QED
      BY <3>3, <3>4
  <2> QED
    BY <2>1, <2>2
<1>2. batchOf = b
  <2>1. CASE b = <<>>
    BY <2>1 DEF batchOf, Represents, BatchOf
  <2>2. CASE b # <<>>
    <3>1. path(b[1], b[Len(b)]) = b
      BY <2>2, PathIs DEF Represents, Separate
    <3> QED
      BY <2>2, <3>1 DEF batchOf, Represents, BatchOf
  <2> QED
    BY <2>1, <2>2
<1> QED
  BY <1>1, <1>2

-----------------------------------------------------------------------------
(* The refinement *)

(* Sequences without repetition that share nothing.                        *)
LEMMA ConcatInjective ==
    ASSUME NEW S, NEW s \in Seq(S), NEW t \in Seq(S), IsInjective(s),
           IsInjective(t),
           \A i \in DOMAIN t, j \in DOMAIN s : t[i] # s[j]
    PROVE  IsInjective(s \o t)
<1>1. PICK r \in Seq(S) : r = s \o t /\ IsConcat(r, s, t)
  BY ConcatIs
<1>2. \A i \in 1 .. Len(r) :
          \/ i \in 1 .. Len(s) /\ r[i] = s[i]
          \/ \E j \in 1 .. Len(t) : i = Len(s) + j /\ r[i] = t[j]
  BY <1>1, ConcatSplit
<1>3. DOMAIN s = 1 .. Len(s) /\ DOMAIN t = 1 .. Len(t) /\ DOMAIN r = 1 .. Len(r)
  OBVIOUS
<1>4. ASSUME NEW i \in 1 .. Len(r), NEW j \in 1 .. Len(r), r[i] = r[j]
      PROVE  i = j
  <2>1. \A x, y \in 1 .. Len(s) : s[x] = s[y] => x = y
    BY <1>3 DEF IsInjective
  <2>2. \A x, y \in 1 .. Len(t) : t[x] = t[y] => x = y
    BY <1>3 DEF IsInjective
  <2>3. \A x \in 1 .. Len(t), y \in 1 .. Len(s) : t[x] # s[y]
    BY <1>3
  <2>4. CASE i \in 1 .. Len(s) /\ r[i] = s[i]
    BY <1>2, <1>4, <2>1, <2>3, <2>4
  <2>5. CASE \E k \in 1 .. Len(t) : i = Len(s) + k /\ r[i] = t[k]
    BY <1>2, <1>4, <2>2, <2>3, <2>5
  <2> QED
    BY <1>2, <2>4, <2>5
<1> QED
  BY <1>1, <1>3, <1>4 DEF IsInjective

(* What a step of the list may do to the queue q and the batch b.          *)
FifoStep(q, b, r, c) ==
    \/ r = q /\ c = b
    \/ \E l \in Lists : IsInjective(b \o q \o l) /\ r = q \o l /\ c = b
    \/ b = <<>> /\ q # <<>> /\ c = q /\ r = <<>>
    \/ b # <<>> /\ c = Tail(b) /\ r = q
    \/ b # <<>> /\ r = b \o q /\ c = <<>>

(* Every step finds a queue and a batch, and leaves what a FIFO makes of   *)
(* them.                                                                   *)
LEMMA Simulation ==
    ASSUME TypeOK, NEW q \in Seq(Elements), NEW b \in Seq(Elements),
           Represents(q, b),
           [Next]_vars
    PROVE  /\ TypeOK'
           /\ \E r, c \in Seq(Elements) : Represents(r, c)' /\ FifoStep(q, b, r, c)
<1>1. <<>> \in Seq(Elements)
  OBVIOUS
<1>2. ASSUME NEW p \in Producers, NEW l \in Lists, append_update_tail(p, l)
      PROVE  /\ TypeOK'
             /\ \E r, c \in Seq(Elements) : Represents(r, c)' /\ FifoStep(q, b, r, c)
  <2>1. l \in Seq(Elements)
    BY ListsAre
  <2>2. q \o l \in Seq(Elements) /\ IsConcat(q \o l, q, l)
    BY <2>1, ConcatIs
  <2>3. TypeOK' /\ Represents(q \o l, b)'
    BY <1>2, <2>2, AppendTail
  <2>4. IsInjective(b \o (q \o l))
    BY <2>2, <2>3, ConcatInjective DEF Represents, Separate
  <2>5. b \o (q \o l) = b \o q \o l
    BY <2>1, ConcatAssociative
  <2>6. FifoStep(q, b, q \o l, b)
    BY <2>4, <2>5 DEF FifoStep
  <2> QED
    BY <2>2, <2>3, <2>6
<1>3. ASSUME TypeOK' /\ Represents(q, b)'
      PROVE  /\ TypeOK'
             /\ \E r, c \in Seq(Elements) : Represents(r, c)' /\ FifoStep(q, b, r, c)
  BY <1>3 DEF FifoStep
<1>4. CASE dequeue_xchg_tail
  BY <1>1, <1>4, XchgTailStep DEF FifoStep
<1>5. CASE invoke
  <2>1. b # <<>> /\ TypeOK' /\ Represents(q, Tail(b))'
    BY <1>5, InvokeStep
  <2>2. Tail(b) \in Seq(Elements)
    BY <2>1, HeadTailProperties
  <2> QED
    BY <2>1, <2>2 DEF FifoStep
<1>6. ASSUME b # <<>> /\ TypeOK' /\ Represents(b \o q, <<>>)'
      PROVE  /\ TypeOK'
             /\ \E r, c \in Seq(Elements) : Represents(r, c)' /\ FifoStep(q, b, r, c)
  <2>1. b \o q \in Seq(Elements)
    BY ConcatIs
  <2> QED
    BY <1>1, <1>6, <2>1 DEF FifoStep
<1>7. b \o q \in Seq(Elements) /\ IsConcat(b \o q, b, q)
  BY ConcatIs
<1>8. CASE restore_batch
  <2>1. CASE mpqc_next[HEAD] = NULL
    BY <1>3, <1>8, <2>1, RestoreBatchWaits
  <2>2. CASE mpqc_next[HEAD] # NULL
    <3>1. b # <<>> /\ cpc # "restore_head"
      BY <1>8 DEF restore_batch, Represents, BatchOf
    <3>2. /\ mpqc_next' = [mpqc_next EXCEPT ![last] = mpqc_next[HEAD]]
          /\ cpc' = "restore_head" /\ tmp' \in Elements \union {NULL}
          /\ UNCHANGED <<mpqh_tail, ppc, prev, first, cur, last>>
      BY <1>8, <2>2 DEF restore_batch, producers
    <3>3. TypeOK' /\ Represents(b \o q, <<>>)'
      BY <2>2, <3>1, <3>2, <1>7, JoinedStep
    <3> QED
      BY <1>6, <3>1, <3>3
  <2> QED
    BY <2>1, <2>2
<1>9. CASE restore_cas
  <2>1. CASE mpqh_tail = HEAD
    <3>1. TypeOK' /\ Represents(b, <<>>)' /\ q = <<>> /\ b # <<>>
      BY <1>9, <2>1, RestoreCasWins
    <3>2. b \o q = b
      BY <3>1, ConcatEmptySeq
    <3> QED
      BY <1>6, <3>1, <3>2
  <2>2. CASE mpqh_tail # HEAD
    BY <1>3, <1>9, <2>2, RestoreCasLoses
  <2> QED
    BY <2>1, <2>2
<1>10. CASE restore_wait
  <2>1. b # <<>> /\ cpc # "restore_head"
    BY <1>10 DEF restore_wait, Represents, BatchOf
  <2>2. /\ mpqc_next' = [mpqc_next EXCEPT ![last] = mpqc_next[HEAD]]
        /\ mpqc_next[HEAD] # NULL
        /\ cpc' = "restore_head" /\ tmp' \in Elements \union {NULL}
        /\ UNCHANGED <<mpqh_tail, ppc, prev, first, cur, last>>
    BY <1>10 DEF restore_wait, producers, TypeOK
  <2>3. TypeOK' /\ Represents(b \o q, <<>>)'
    BY <2>1, <2>2, <1>7, JoinedStep
  <2> QED
    BY <1>6, <2>1, <2>3
<1>11. CASE UNCHANGED vars
  <2>1. TypeOK'
    BY <1>11 DEF vars, queueVars, producers, consumer, TypeOK
  <2>2. Represents(q, b)'
    <3>1. TailOf(q)' /\ HeadOf(q)' /\ BatchOf(b)'
      BY <1>11, SameLinks DEF vars, queueVars, producers, consumer, Represents,
          TailOf, HeadOf, BatchOf
    <3> QED
      BY <1>11, <3>1, SameLinks DEF vars, queueVars, producers, Represents
  <2> QED
    BY <1>3, <2>1, <2>2
<1>12. ASSUME NEW p \in Producers, append_update_prev(p)
       PROVE  TypeOK' /\ Represents(q, b)'
  BY <1>12, AppendPrev
<1>13. CASE \/ dequeue_batch \/ dequeue_load_head \/ dequeue_clear_head
            \/ batch_next \/ restore_head
  BY <1>3, <1>13, DequeueBatchStep, LoadHeadStep, ClearHeadStep, BatchNextStep,
      RestoreHeadStep
<1> QED
  BY <1>2, <1>3, <1>4, <1>5, <1>8, <1>9, <1>10, <1>11, <1>12, <1>13 DEF Next,
      Consumer

(* An empty queue is in memory to begin with.                              *)
LEMMA ListInit == Init => TypeOK /\ Represents(<<>>, <<>>)
<1> SUFFICES ASSUME Init PROVE TypeOK /\ Represents(<<>>, <<>>)
  OBVIOUS
<1> USE HeadAssumption, NullAssumption, MarkerAssumption DEF Init
<1>1. TypeOK
  BY DEF TypeOK
<1>2. Separate(<<>>, <<>>) /\ Marked(<<>>, <<>>)
  BY DEF Separate, Marked, IsInjective
<1>3. Gaps /\ Linked(<<>>)
  BY DEF Gaps, Linked
<1>4. TailOf(<<>>) /\ HeadOf(<<>>) /\ BatchOf(<<>>)
  BY DEF TailOf, HeadOf, BatchOf, Ends, Awaited
<1> QED
  BY <1>1, <1>2, <1>3, <1>4 DEF Represents

(* Memory always is a queue and a batch, whatever gaps the producers leave *)
(* and whenever the consumer meets them.                                   *)
THEOREM ListInvariant == Spec => []ListInv
<1>1. Init => ListInv
  <2>1. <<>> \in Seq(Elements)
    OBVIOUS
  <2> QED
    BY <2>1, ListInit DEF ListInv
<1>2. ListInv /\ [Next]_vars => ListInv'
  BY Simulation DEF ListInv
<1> QED
  BY <1>1, <1>2, PTL DEF Spec

(* The consumer never follows a poisoned link: every variable keeps its    *)
(* type.                                                                   *)
THEOREM LinksAreSane == Spec => []TypeOK
<1>1. ListInv => TypeOK
  BY DEF ListInv
<1> QED
  BY <1>1, ListInvariant, PTL

(* mpsc_queue.h and mpsc_queue.c implement a FIFO of whole batches.        *)
THEOREM QueueIsFifo == Spec => IsFifo
<1>1. Init /\ Mapped => Fifo!Init
  <2> SUFFICES ASSUME Init, Mapped PROVE queueOf = <<>> /\ batchOf = <<>>
    BY DEF Fifo!Init
  <2>1. <<>> \in Seq(Elements)
    OBVIOUS
  <2> QED
    BY <2>1, ListInit DEF Mapped
<1>2. ListInv /\ Mapped /\ Mapped' /\ [Next]_vars => [Fifo!Next]_<<queueOf, batchOf>>
  <2> SUFFICES ASSUME ListInv, Mapped, Mapped', [Next]_vars
               PROVE  Fifo!Next \/ UNCHANGED <<queueOf, batchOf>>
    OBVIOUS
  <2>1. PICK q \in Seq(Elements), b \in Seq(Elements) : TypeOK /\ Represents(q, b)
    BY DEF ListInv
  <2>2. PICK r \in Seq(Elements), c \in Seq(Elements) :
            TypeOK' /\ Represents(r, c)' /\ FifoStep(q, b, r, c)
    BY <2>1, Simulation
  <2>3. queueOf = q /\ batchOf = b
    BY <2>1 DEF Mapped
  <2>4. queueOf' = r /\ batchOf' = c
    BY <2>2 DEF Mapped
  <2>5. Fifo!Lists = Lists
    BY DEF Lists, Fifo!Lists
  <2> HIDE DEF queueOf, batchOf
  <2>6. FifoStep(queueOf, batchOf, queueOf', batchOf')
    BY <2>2, <2>3, <2>4
  <2>7. CASE UNCHANGED <<queueOf, batchOf>>
    BY <2>7
  <2>8. ASSUME NEW l \in Lists, IsInjective(batchOf \o queueOf \o l),
               queueOf' = queueOf \o l, batchOf' = batchOf
        PROVE  Fifo!Next
    BY <2>5, <2>8 DEF Fifo!Next, Fifo!Append_list, IsInjective,
        Fifo!IsInjective
  <2>9. CASE batchOf = <<>> /\ queueOf # <<>> /\ batchOf' = queueOf /\ queueOf' = <<>>
    BY <2>9 DEF Fifo!Next, Fifo!DequeueBatch
  <2>10. CASE batchOf # <<>> /\ batchOf' = Tail(batchOf) /\ queueOf' = queueOf
    BY <2>10 DEF Fifo!Next, Fifo!Invoke
  <2>11. CASE batchOf # <<>> /\ queueOf' = batchOf \o queueOf /\ batchOf' = <<>>
    BY <2>11 DEF Fifo!Next, Fifo!RestoreBatch
  <2> QED
    BY <2>6, <2>7, <2>8, <2>9, <2>10, <2>11 DEF FifoStep
<1> QED
  BY <1>1, <1>2, Mapping, ListInvariant, PTL DEF Spec, IsFifo, Fifo!Spec
=============================================================================
