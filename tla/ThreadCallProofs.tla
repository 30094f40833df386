-------------------------- MODULE ThreadCallProofs --------------------------
(***************************************************************************)
(* Proofs about the thread calls of ThreadCall, where SIGNAL calls do not  *)
(* meet a rescan and are not used just before they execute again.          *)
(***************************************************************************)
EXTENDS ThreadCall, SequenceTheorems, FiniteSetTheorems, TLAPS

-----------------------------------------------------------------------------
(* The inductive invariant *)

(* A call is on a queue at most once.                                      *)
Distinct(q) == \A i, j \in DOMAIN q : q[i] = q[j] => i = j

(* Positions of an actor that has a call.                                  *)
ActorPc == {"invoke", "blocked", "wake", "wake_repend", "repend"}

(* Positions of a thread that active_count counts.                         *)
ActivePc == {"ready", "loop", "invoke", "wake", "relock"}

(* Number of the group's threads at the positions S of f.                  *)
NumIn(f, S) == Cardinality({k \in Workers : f[k] \in S})

(* The thread that the daemon is about to create.                          *)
Created(f) == IF f[Daemon] = "create" THEN 1 ELSE 0

(* Whoever takes steps.                                                    *)
Everybody == Clients \union Actors \union {Daemon}

(* f gives everybody a position, and nobody else.                          *)
Positions(f) == f = [x \in Everybody |-> f[x]]

(* The types of the variables that the invariant is about.                 *)
Typed ==
    /\ lock \in Actors \union {None}
    /\ pending \in Seq(Calls) /\ delayed \in Seq(Calls)
    /\ expired \subseteq ToSet(delayed)
    /\ running \in [Calls -> BOOLEAN] /\ wait \in [Calls -> BOOLEAN]
    /\ resched \in [Calls -> {"no", "now", "later"}]
    /\ out \in [Calls -> Int] /\ refs \in [Calls -> Int]
    /\ alive \in [Calls -> BOOLEAN] /\ freed \in [Calls -> BOOLEAN]
    /\ Positions(pc)
    /\ call \in [Clients \union Actors -> Calls \union {None}]

(* The positions of each kind of actor.                                    *)
Roles ==
    /\ \A k \in Workers : pc[k] \in {"none", "idle", "blocked"} \union ActivePc
    /\ \A i \in CPUs : pc[i] \in {"idle", "fired", "loop", "invoke", "wake", "relock",
                                  "wake_repend", "repend", "rescan"}
    /\ \A w \in Clients : pc[w] \in {"idle", "once", "wait", "recheck", "free"}

(* An actor has a call from when it takes it to its wakeup of the waiters. *)
Held ==
    /\ \A a \in Actors : call[a] \in Calls <=> pc[a] \in ActorPc
    /\ \A w \in Clients : call[w] \in Calls <=> pc[w] # "idle"

(* The lock is kept in the loops over a queue.                             *)
Locked == \A a \in Actors : lock = a <=> pc[a] \in {"loop", "rescan"}

(* A call is on one queue, once.                                           *)
Queued ==
    /\ Distinct(pending) /\ Distinct(delayed)
    /\ ToSet(pending) \intersect ToSet(delayed) = {}

(* SIGNAL calls are executed by the timer, the others by threads.          *)
SignalsTimed ==
    /\ \A c \in Signal : ~ OnPending(c)
    /\ \A k \in Workers : call[k] \notin Signal
    /\ \A i \in CPUs : call[i] \in Calls => call[i] \in Signal
    /\ \A i \in CPUs : pc[i] = "rescan" => \A c \in Signal : ~ OnDelayed(c)

(* An actor that executes a ONCE call is the only one, and the call is not *)
(* queued meanwhile; it is marked as running unless the timer is about to  *)
(* execute it again.                                                       *)
Alone ==
    \A a \in Actors, c \in Once : call[a] = c =>
        /\ a \in Executing(c) => ~ OnQueue(c) /\ \A b \in Executing(c) : a = b
        /\ pc[a] \in {"invoke", "blocked"} => running[c]

(* Only a ONCE call is to be queued when it returns; what is on a queue,   *)
(* to be queued or to be executed again by the timer has an owner, storage *)
(* that was returned has none.                                             *)
Owned ==
    /\ \A c \in Calls : freed[c] => ~ alive[c]
    /\ \A c \in Calls : resched[c] # "no" => c \in Once
    /\ \A c \in Calls : ~ alive[c] => ~ OnQueue(c) /\ resched[c] = "no"
    /\ \A i \in CPUs : pc[i] \in {"wake_repend", "repend"} => alive[call[i]]

(* The counts of the group.                                                *)
Counted ==
    /\ pending_count = Len(pending)
    /\ idle_count = NumIn(pc, {"idle"})
    /\ blocked_count = NumIn(pc, {"blocked"})
    /\ active_count = NumIn(pc, ActivePc) + Created(pc)

(* References: one of the owner, one of each thread that executes the      *)
(* call.                                                                   *)
RefsCounted ==
    \A c \in Calls : refs[c] = (IF alive[c] THEN 1 ELSE 0)
                               + Cardinality(Executing(c) \ CPUs)

(* What was submitted and has not finished is queued or executing.         *)
OutCounted ==
    \A c \in Calls : out[c] = (IF OnQueue(c) THEN 1 ELSE 0) + Cardinality(Executing(c))

(* A client waits for a call that it owns, or for the end of a SIGNAL call *)
(* that it is freeing.                                                     *)
Waiters ==
    \A w \in Clients : call[w] \in Calls =>
        alive[call[w]] \/ (pc[w] = "free" /\ call[w] \in Signal)

(* The inductive invariant.                                                *)
CallsInv ==
    /\ Typed /\ Roles /\ Held /\ Locked /\ Queued /\ SignalsTimed /\ Alone /\ Owned
    /\ Counted /\ TimerCovers /\ RefsCounted /\ OutCounted /\ Waiters

(* Storage that was returned is used by nobody.                            *)
Gone ==
    \A c \in Calls : freed[c] => /\ ~ alive[c] /\ Executing(c) = {}
                                 /\ \A w \in Clients : call[w] # c

-----------------------------------------------------------------------------
(* Queues *)

(* RemoveFirst takes one call off a queue and keeps the others.            *)
LEMMA RemoveKeeps ==
    ASSUME NEW S, NEW q \in Seq(S), NEW c, Distinct(q)
    PROVE  /\ RemoveFirst(q, c) \in Seq(S) /\ Distinct(RemoveFirst(q, c))
           /\ ToSet(RemoveFirst(q, c)) = ToSet(q) \ {c}
           /\ Len(RemoveFirst(q, c)) = IF c \in ToSet(q) THEN Len(q) - 1 ELSE Len(q)
<1> DEFINE r == RemoveFirst(q, c)
<1>1. CASE c \notin ToSet(q)
  <2>1. r = q
    BY <1>1 DEF RemoveFirst, ToSet
  <2> QED
    BY <1>1, <2>1
<1>2. CASE c \in ToSet(q)
  <2> DEFINE I == {i \in 1 .. Len(q) : q[i] = c}
  <2>1. PICK n \in 1 .. Len(q) : q[n] = c
    BY <1>2 DEF ToSet
  <2>2. I = {n}
    BY <2>1 DEF Distinct
  <2>3. Min(I) = n
    BY <2>1, <2>2 DEF Min
  <2>4. r = RemoveAt(q, n)
    BY <2>1, <2>2, <2>3 DEF RemoveFirst, SelectInSeq
  <2>5. r = SubSeq(q, 1, n - 1) \o SubSeq(q, n + 1, Len(q))
    BY <2>4 DEF RemoveAt
  <2>6. /\ r \in Seq(S) /\ Len(r) = Len(q) - 1
        /\ \A i \in 1 .. Len(r) : r[i] = IF i < n THEN q[i] ELSE q[i + 1]
    <3> DEFINE A == SubSeq(q, 1, n - 1)
               B == SubSeq(q, n + 1, Len(q))
    <3>1. /\ A \in Seq(S) /\ Len(A) = n - 1
          /\ \A i \in 1 .. n - 1 : A[i] = q[i]
      BY <2>1, SubSeqProperties
    <3>2. /\ B \in Seq(S) /\ Len(B) = Len(q) - n
          /\ \A i \in 1 .. Len(q) - n : B[i] = q[n + i]
      BY <2>1, SubSeqProperties
    <3> HIDE DEF A, B
    <3>3. /\ A \o B \in Seq(S) /\ Len(A \o B) = Len(A) + Len(B)
          /\ \A i \in 1 .. Len(A) + Len(B) :
                 (A \o B)[i] = IF i <= Len(A) THEN A[i] ELSE B[i - Len(A)]
      BY <3>1, <3>2, ConcatProperties, Zenon
    <3>4. Len(A \o B) = Len(q) - 1
      BY <2>1, <3>1, <3>2, <3>3
    <3>5. \A i \in 1 .. Len(q) - 1 : (A \o B)[i] = IF i < n THEN q[i] ELSE q[i + 1]
      BY <2>1, <3>1, <3>2, <3>3
    <3>6. r = A \o B
      BY <2>5 DEF A, B
    <3> HIDE DEF r
    <3> QED
      BY <3>3, <3>4, <3>5, <3>6
  <2> HIDE DEF r
  <2>7. Distinct(r)
    <3> SUFFICES ASSUME NEW i \in 1 .. Len(r), NEW j \in 1 .. Len(r), r[i] = r[j]
                 PROVE  i = j
      BY <2>6 DEF Distinct
    <3>1. \A k, l \in 1 .. Len(q) : q[k] = q[l] => k = l
      BY DEF Distinct
    <3> QED
      BY <2>1, <2>6, <3>1
  <2>8. ToSet(r) \subseteq ToSet(q) \ {c}
    BY <2>1, <2>6 DEF Distinct, ToSet
  <2>9. ASSUME NEW e \in ToSet(q) \ {c} PROVE e \in ToSet(r)
    <3>1. PICK i \in 1 .. Len(q) : q[i] = e
      BY <2>9 DEF ToSet
    <3>2. i # n
      BY <2>1, <2>9, <3>1
    <3>3. CASE i < n
      BY <2>1, <2>6, <3>1, <3>3 DEF ToSet
    <3>4. CASE i > n
      <4>1. i - 1 \in 1 .. Len(r) /\ r[i - 1] = e
        BY <2>1, <2>6, <3>1, <3>4
      <4> QED
        BY <2>6, <4>1 DEF ToSet
    <3> QED
      BY <3>2, <3>3, <3>4
  <2> QED
    BY <1>2, <2>6, <2>7, <2>8, <2>9 DEF r
<1> QED
  BY <1>1, <1>2

(* InsertAt adds a call to a queue that it is not on.                      *)
LEMMA InsertKeeps ==
    ASSUME NEW S, NEW q \in Seq(S), NEW c \in S, NEW i \in 1 .. Len(q) + 1,
           Distinct(q), c \notin ToSet(q)
    PROVE  /\ InsertAt(q, i, c) \in Seq(S) /\ Distinct(InsertAt(q, i, c))
           /\ ToSet(InsertAt(q, i, c)) = ToSet(q) \union {c}
           /\ i = 1 => Head(InsertAt(q, i, c)) = c
           /\ q = <<>> => i = 1
           /\ InsertAt(q, i, c) # <<>>
<1> DEFINE r == InsertAt(q, i, c)
<1>1. r = SubSeq(q, 1, i - 1) \o <<c>> \o SubSeq(q, i, Len(q))
  BY DEF InsertAt
<1>2. /\ r \in Seq(S) /\ Len(r) = Len(q) + 1
      /\ \A j \in 1 .. Len(r) : r[j] = IF j < i THEN q[j] ELSE IF j = i THEN c ELSE q[j - 1]
  <2> DEFINE A == SubSeq(q, 1, i - 1)
             B == SubSeq(q, i, Len(q))
             C == A \o <<c>>
  <2>1. /\ A \in Seq(S) /\ Len(A) = i - 1
        /\ \A j \in 1 .. i - 1 : A[j] = q[j]
    BY SubSeqProperties
  <2>2. /\ B \in Seq(S) /\ Len(B) = Len(q) - i + 1
        /\ \A j \in 1 .. Len(q) - i + 1 : B[j] = q[i + j - 1]
    BY SubSeqProperties
  <2> HIDE DEF A, B
  <2>3. /\ C \in Seq(S) /\ Len(C) = i
        /\ \A j \in 1 .. i : C[j] = IF j < i THEN q[j] ELSE c
    BY <2>1
  <2> HIDE DEF C
  <2>4. /\ C \o B \in Seq(S) /\ Len(C \o B) = Len(C) + Len(B)
        /\ \A j \in 1 .. Len(C) + Len(B) :
               (C \o B)[j] = IF j <= Len(C) THEN C[j] ELSE B[j - Len(C)]
    BY <2>2, <2>3, ConcatProperties, Zenon
  <2>5. Len(C \o B) = Len(q) + 1
    BY <2>2, <2>3, <2>4
  <2>6. \A j \in 1 .. Len(q) + 1 :
           (C \o B)[j] = IF j < i THEN q[j] ELSE IF j = i THEN c ELSE q[j - 1]
    BY <2>2, <2>3, <2>4
  <2>7. r = C \o B
    BY <1>1 DEF A, B, C
  <2> HIDE DEF r
  <2> QED
    BY <2>4, <2>5, <2>6, <2>7
<1> HIDE DEF r
<1>3. \A j \in 1 .. Len(q) : q[j] # c
  BY DEF ToSet
<1>4. Distinct(r)
  <2> SUFFICES ASSUME NEW j \in 1 .. Len(r), NEW k \in 1 .. Len(r), r[j] = r[k]
               PROVE  j = k
    BY <1>2 DEF Distinct
  <2>1. \A l, m \in 1 .. Len(q) : q[l] = q[m] => l = m
    BY DEF Distinct
  <2>2. \A n \in 1 .. Len(r) :
           \/ n < i /\ n \in 1 .. Len(q) /\ r[n] = q[n] /\ r[n] # c
           \/ n = i /\ r[n] = c
           \/ n > i /\ n - 1 \in 1 .. Len(q) /\ r[n] = q[n - 1] /\ r[n] # c
    BY <1>2, <1>3
  <2>3. CASE j = i \/ k = i
    BY <2>2, <2>3
  <2>4. CASE j < i /\ k < i
    BY <2>1, <2>2, <2>4
  <2>5. CASE j > i /\ k > i
    BY <2>1, <2>2, <2>5
  <2>6. CASE j < i /\ k > i
    <3>1. j = k - 1
      BY <2>1, <2>2, <2>6
    <3> QED
      BY <2>6, <3>1
  <2>7. CASE j > i /\ k < i
    <3>1. j - 1 = k
      BY <2>1, <2>2, <2>7
    <3> QED
      BY <2>7, <3>1
  <2> QED
    BY <2>3, <2>4, <2>5, <2>6, <2>7
<1>5. ToSet(r) \subseteq ToSet(q) \union {c}
  BY <1>2 DEF ToSet
<1>6. c \in ToSet(r)
  BY <1>2 DEF ToSet
<1>7. ASSUME NEW e \in ToSet(q) PROVE e \in ToSet(r)
  <2>1. PICK j \in 1 .. Len(q) : q[j] = e
    BY DEF ToSet
  <2>2. CASE j < i
    BY <1>2, <2>1, <2>2 DEF ToSet
  <2>3. CASE j >= i
    <3>1. j + 1 \in 1 .. Len(r) /\ r[j + 1] = e
      BY <1>2, <2>1, <2>3
    <3> QED
      BY <1>2, <3>1 DEF ToSet
  <2> QED
    BY <2>1, <2>2, <2>3
<1>8. i = 1 => Head(r) = c
  BY <1>2
<1>9. (q = <<>> => i = 1) /\ r # <<>>
  BY <1>2
<1> QED
  BY <1>2, <1>4, <1>5, <1>6, <1>7, <1>8, <1>9 DEF r

(* Append adds a call to a queue that it is not on.                        *)
LEMMA AppendKeeps ==
    ASSUME NEW S, NEW q \in Seq(S), NEW c \in S, Distinct(q), c \notin ToSet(q)
    PROVE  /\ Append(q, c) \in Seq(S) /\ Distinct(Append(q, c))
           /\ ToSet(Append(q, c)) = ToSet(q) \union {c}
           /\ Len(Append(q, c)) = Len(q) + 1
<1> DEFINE r == Append(q, c)
<1>1. /\ r \in Seq(S) /\ Len(r) = Len(q) + 1
      /\ \A j \in 1 .. Len(r) : r[j] = IF j = Len(r) THEN c ELSE q[j]
  OBVIOUS
<1> HIDE DEF r
<1>2. \A j \in 1 .. Len(q) : q[j] # c
  BY DEF ToSet
<1>3. Distinct(r)
  BY <1>1, <1>2 DEF Distinct
<1>4. ToSet(r) = ToSet(q) \union {c}
  BY <1>1 DEF ToSet
<1> QED
  BY <1>1, <1>3, <1>4 DEF r

(* Tail takes the first call off a queue.                                  *)
LEMMA TailKeeps ==
    ASSUME NEW S, NEW q \in Seq(S), Distinct(q), q # <<>>
    PROVE  /\ Head(q) \in S /\ Head(q) \in ToSet(q)
           /\ Tail(q) \in Seq(S) /\ Distinct(Tail(q))
           /\ ToSet(Tail(q)) = ToSet(q) \ {Head(q)}
           /\ Len(Tail(q)) = Len(q) - 1
<1> DEFINE r == Tail(q)
<1>1. /\ r \in Seq(S) /\ Len(r) = Len(q) - 1 /\ Len(q) \in Nat \ {0}
      /\ \A j \in 1 .. Len(r) : r[j] = q[j + 1]
      /\ Head(q) = q[1]
  OBVIOUS
<1> HIDE DEF r
<1>2. Head(q) \in S /\ Head(q) \in ToSet(q)
  BY <1>1 DEF ToSet
<1>3. Distinct(r)
  <2> SUFFICES ASSUME NEW i \in 1 .. Len(r), NEW j \in 1 .. Len(r), r[i] = r[j]
               PROVE  i = j
    BY <1>1 DEF Distinct
  <2>1. \A k, l \in 1 .. Len(q) : q[k] = q[l] => k = l
    BY DEF Distinct
  <2> QED
    BY <1>1, <2>1
<1>4. ToSet(r) \subseteq ToSet(q) \ {Head(q)}
  BY <1>1 DEF Distinct, ToSet
<1>5. ASSUME NEW e \in ToSet(q) \ {Head(q)} PROVE e \in ToSet(r)
  <2>1. PICK j \in 1 .. Len(q) : q[j] = e
    BY DEF ToSet
  <2>2. j - 1 \in 1 .. Len(r) /\ r[j - 1] = e
    BY <1>1, <2>1
  <2> QED
    BY <1>1, <2>2 DEF ToSet
<1> QED
  BY <1>1, <1>2, <1>3, <1>4, <1>5 DEF r

(* A queue is empty when no call is on it.                                 *)
LEMMA EmptyQueue ==
    ASSUME NEW S, NEW q \in Seq(S)
    PROVE  q = <<>> <=> ToSet(q) = {}
<1>1. q = <<>> <=> Len(q) = 0
  BY EmptySeq
<1>2. Len(q) # 0 => q[1] \in ToSet(q)
  BY DEF ToSet
<1>3. Len(q) = 0 => ToSet(q) = {}
  BY DEF ToSet
<1> QED
  BY <1>1, <1>2, <1>3

(* A queue in another order holds the same calls.                          *)
LEMMA OrderKeeps ==
    ASSUME NEW S, NEW q \in Seq(S), NEW r \in SetToSeqs(ToSet(q)), IsFiniteSet(S)
    PROVE  r \in Seq(S) /\ Distinct(r) /\ ToSet(r) = ToSet(q) /\ (r = <<>> <=> q = <<>>)
<1> DEFINE T == ToSet(q)
           D == 1 .. Cardinality(T)
<1>1. T \subseteq S
  BY DEF ToSet
<1>2. IsFiniteSet(T) /\ Cardinality(T) \in Nat
  BY <1>1, FS_Subset, FS_CardinalityType
<1>3. r \in [D -> T] /\ \A i, j \in D : i # j => r[i] # r[j]
  BY DEF SetToSeqs
<1>4. IsFiniteSet(D) /\ Cardinality(D) = Cardinality(T)
  BY <1>2, FS_Interval
<1>5. ToSet(r) \subseteq T
  BY <1>3 DEF ToSet
<1>6. r \in Seq(S) /\ Distinct(r) /\ Len(r) = Cardinality(T)
  BY <1>1, <1>2, <1>3 DEF Distinct
<1>7. r \in Bijection(D, ToSet(r))
  BY <1>3 DEF Bijection, Injection, Surjection, IsInjective, ToSet
<1>8. Cardinality(ToSet(r)) = Cardinality(T)
  BY <1>4, <1>7, FS_Bijection DEF ExistsBijection
<1>9. ToSet(r) = T
  BY <1>2, <1>5, <1>8, FS_Subset
<1>10. r = <<>> <=> q = <<>>
  BY <1>6, <1>9, EmptyQueue
<1> QED
  BY <1>6, <1>9, <1>10

(* The queues are well formed.                                             *)
QueuesOK ==
    /\ pending \in Seq(Calls) /\ delayed \in Seq(Calls)
    /\ expired \subseteq ToSet(delayed)
    /\ Distinct(pending) /\ Distinct(delayed)
    /\ ToSet(pending) \intersect ToSet(delayed) = {}
    /\ pending_count = Len(pending)

(* What pending_call_enqueue does to the queues.                           *)
LEMMA PendingEnqueued ==
    ASSUME QueuesOK, NEW c \in Calls, ~ OnPending(c),
           pending' = Append(pending, c), pending_count' = pending_count + 1,
           delayed' = RemoveFirst(delayed, c), expired' = expired \ {c}
    PROVE  /\ QueuesOK'
           /\ ToSet(pending') = ToSet(pending) \union {c}
           /\ ToSet(delayed') = ToSet(delayed) \ {c}
<1>1. /\ pending' \in Seq(Calls) /\ Distinct(pending')
      /\ ToSet(pending') = ToSet(pending) \union {c}
      /\ Len(pending') = Len(pending) + 1
  BY AppendKeeps DEF QueuesOK, OnPending
<1>2. /\ delayed' \in Seq(Calls) /\ Distinct(delayed')
      /\ ToSet(delayed') = ToSet(delayed) \ {c}
  BY RemoveKeeps DEF QueuesOK
<1> QED
  BY <1>1, <1>2 DEF QueuesOK

(* What delayed_call_enqueue does to the queues.                           *)
LEMMA DelayedEnqueued ==
    ASSUME QueuesOK, NEW c \in Calls, delayed_call_enqueue(c)
    PROVE  /\ QueuesOK'
           /\ ToSet(pending') = ToSet(pending) \ {c}
           /\ ToSet(delayed') = ToSet(delayed) \union {c}
           /\ delayed' # <<>> /\ (delayed = <<>> => Head(delayed') = c)
<1> DEFINE q == RemoveFirst(delayed, c)
<1>1. /\ q \in Seq(Calls) /\ Distinct(q) /\ ToSet(q) = ToSet(delayed) \ {c}
  BY RemoveKeeps DEF QueuesOK
<1>2. expired' = expired \ {c} /\ Cardinality(expired') \in Nat
  <2>1. expired' = expired \ {c}
    BY DEF delayed_call_enqueue
  <2>2. expired' \subseteq Calls
    BY <2>1 DEF QueuesOK, ToSet
  <2> QED
    BY <2>1, <2>2, ThreadCallAssumption, FS_Subset, FS_CardinalityType
<1>3. PICK i \in Cardinality(expired') + 1 .. Len(q) + 1 : delayed' = InsertAt(q, i, c)
  BY DEF delayed_call_enqueue
<1>4. i \in 1 .. Len(q) + 1
  BY <1>1, <1>2, <1>3
<1>5. delayed = <<>> => q = <<>>
  <2>1. delayed = <<>> => ToSet(delayed) = {}
    BY EmptyQueue DEF QueuesOK
  <2> QED
    BY <1>1, <2>1, EmptyQueue
<1> HIDE DEF q
<1>6. /\ delayed' \in Seq(Calls) /\ Distinct(delayed')
      /\ ToSet(delayed') = ToSet(q) \union {c}
      /\ delayed' # <<>> /\ (q = <<>> => Head(delayed') = c)
  BY <1>1, <1>3, <1>4, InsertKeeps
<1>7. /\ pending' \in Seq(Calls) /\ Distinct(pending')
      /\ ToSet(pending') = ToSet(pending) \ {c} /\ pending_count' = Len(pending')
  BY RemoveKeeps DEF QueuesOK, delayed_call_enqueue, OnPending
<1> QED
  BY <1>1, <1>2, <1>5, <1>6, <1>7 DEF QueuesOK

(* What thread_call_cancel_locked does to the queues.                      *)
LEMMA Canceled ==
    ASSUME QueuesOK, NEW c \in Calls, thread_call_cancel_locked(c)
    PROVE  /\ QueuesOK'
           /\ ToSet(pending') = ToSet(pending) \ {c}
           /\ ToSet(delayed') = ToSet(delayed) \ {c}
<1>1. /\ pending' \in Seq(Calls) /\ Distinct(pending')
      /\ ToSet(pending') = ToSet(pending) \ {c} /\ pending_count' = Len(pending')
  BY RemoveKeeps DEF QueuesOK, thread_call_cancel_locked, OnPending
<1>2. /\ delayed' \in Seq(Calls) /\ Distinct(delayed')
      /\ ToSet(delayed') = ToSet(delayed) \ {c}
  BY RemoveKeeps DEF QueuesOK, thread_call_cancel_locked
<1>3. expired' = expired \ {c}
  BY DEF thread_call_cancel_locked
<1> QED
  BY <1>1, <1>2, <1>3 DEF QueuesOK

-----------------------------------------------------------------------------
(* Threads *)

(* The number of threads at some positions is a natural number.            *)
LEMMA NumberType ==
    ASSUME NEW f, NEW S
    PROVE  NumIn(f, S) \in Nat
<1>1. IsFiniteSet({k \in Workers : f[k] \in S})
  BY ThreadCallAssumption, FS_Subset
<1> QED
  BY <1>1, FS_CardinalityType DEF NumIn

(* Whether position p counts.                                              *)
Hit(p, S) == IF p \in S THEN 1 ELSE 0

(* f and g differ in the position of thread k.                             *)
LEMMA OneMoves ==
    ASSUME NEW f, NEW g, NEW k \in Workers, NEW S,
           \A x \in Workers \ {k} : g[x] = f[x]
    PROVE  NumIn(g, S) = NumIn(f, S) - Hit(f[k], S) + Hit(g[k], S)
<1> DEFINE A == {x \in Workers : f[x] \in S}
           B == {x \in Workers : g[x] \in S}
<1>1. IsFiniteSet(A) /\ Cardinality(A) \in Nat
  BY ThreadCallAssumption, FS_Subset, FS_CardinalityType
<1> USE DEF Hit
<1>2. CASE g[k] \in S
  <2>1. B = A \union {k}
    BY <1>2
  <2>2. Cardinality(B) = IF k \in A THEN Cardinality(A) ELSE Cardinality(A) + 1
    BY <1>1, <2>1, FS_AddElement
  <2> QED
    BY <1>1, <1>2, <2>2 DEF NumIn
<1>3. CASE g[k] \notin S
  <2>1. B = A \ {k}
    BY <1>3
  <2>2. Cardinality(B) = IF k \in A THEN Cardinality(A) - 1 ELSE Cardinality(A)
    BY <1>1, <2>1, FS_RemoveElement
  <2> QED
    BY <1>1, <1>3, <2>2 DEF NumIn
<1> QED
  BY <1>2, <1>3

(* A step of one of the group's threads, k.                                *)
LEMMA WorkerMoves ==
    ASSUME NEW k \in Workers, \A x \in Workers \ {k} : pc'[x] = pc[x]
    PROVE  \A S : NumIn(pc', S) = NumIn(pc, S) - Hit(pc[k], S) + Hit(pc'[k], S)
<1> TAKE S
<1> DEFINE A == {x \in Workers : pc[x] \in S}
           B == {x \in Workers : pc'[x] \in S}
<1>1. IsFiniteSet(A) /\ Cardinality(A) \in Nat
  BY ThreadCallAssumption, FS_Subset, FS_CardinalityType
<1> USE DEF Hit
<1>2. CASE pc'[k] \in S
  <2>1. B = A \union {k}
    BY <1>2
  <2>2. Cardinality(B) = IF k \in A THEN Cardinality(A) ELSE Cardinality(A) + 1
    BY <1>1, <2>1, FS_AddElement
  <2> QED
    BY <1>1, <1>2, <2>2 DEF NumIn
<1>3. CASE pc'[k] \notin S
  <2>1. B = A \ {k}
    BY <1>3
  <2>2. Cardinality(B) = IF k \in A THEN Cardinality(A) - 1 ELSE Cardinality(A)
    BY <1>1, <2>1, FS_RemoveElement
  <2> QED
    BY <1>1, <1>3, <2>2 DEF NumIn
<1> QED
  BY <1>2, <1>3

(* Nobody enters or leaves the positions S.                                *)
LEMMA NobodyMoves ==
    ASSUME NEW f, NEW g, NEW S, \A k \in Workers : g[k] \in S <=> f[k] \in S
    PROVE  NumIn(g, S) = NumIn(f, S)
BY DEF NumIn

(* thread_call_wake keeps the counts: a thread that it wakes up leaves the *)
(* idle ones for the active ones.                                          *)
LEMMA Woken ==
    ASSUME NEW w, Positions(w), NEW active, NEW pend,
           thread_call_wake(w, active, pend),
           idle_count = NumIn(w, {"idle"}),
           active = NumIn(w, ActivePc) + Created(w)
    PROVE  /\ Positions(pc')
           /\ \A x \in Everybody :
                 \/ pc'[x] = w[x]
                 \/ x \in Workers /\ w[x] = "idle" /\ pc'[x] = "ready"
                 \/ x = Daemon
           /\ idle_count' = NumIn(pc', {"idle"})
           /\ active_count' = NumIn(pc', ActivePc) + Created(pc')
           /\ NumIn(pc', {"blocked"}) = NumIn(w, {"blocked"})
<1>1. NumIn(w, {"idle"}) \in Nat /\ NumIn(w, ActivePc) \in Nat /\ NumIn(w, {"blocked"}) \in Nat
  BY NumberType
<1>2. Workers \subseteq Everybody /\ Daemon \in Everybody /\ Daemon \notin Workers
  BY ThreadCallAssumption DEF Everybody, Actors
<1>3. CASE /\ \E k \in Workers : w[k] = "idle" /\ pc' = [w EXCEPT ![k] = "ready"]
           /\ active_count' = active + 1 /\ idle_count' = idle_count - 1
  <2>1. PICK k \in Workers : w[k] = "idle" /\ pc' = [w EXCEPT ![k] = "ready"]
    BY <1>3
  <2>2. /\ NumIn(pc', {"idle"}) = NumIn(w, {"idle"}) - 1
        /\ NumIn(pc', ActivePc) = NumIn(w, ActivePc) + 1
        /\ NumIn(pc', {"blocked"}) = NumIn(w, {"blocked"})
    <3>1. \A S : NumIn(pc', S) = NumIn(w, S) - Hit("idle", S) + Hit("ready", S)
      <4>1. /\ \A x \in Workers \ {k} : pc'[x] = w[x]
            /\ w[k] = "idle" /\ pc'[k] = "ready"
        BY <1>2, <2>1 DEF Positions
      <4> QED
        BY <4>1, OneMoves
    <3>2. "idle" \notin ActivePc /\ "ready" \in ActivePc
      BY DEF ActivePc
    <3> QED
      BY <1>1, <3>1, <3>2 DEF Hit
  <2>3. Created(pc') = Created(w) /\ Created(w) \in Int
    BY <1>2, <2>1 DEF Created
  <2>4. Positions(pc')
    BY <1>2, <2>1 DEF Positions
  <2>5. \A x \in Everybody : pc'[x] = w[x] \/ (x = k /\ pc'[x] = "ready")
    BY <1>2, <2>1
  <2>6. active_count' = NumIn(pc', ActivePc) + Created(pc') /\ idle_count' = NumIn(pc', {"idle"})
    BY <1>1, <1>3, <2>2, <2>3
  <2> QED
    BY <2>1, <2>2, <2>4, <2>5, <2>6
<1>4. CASE /\ pc' = [w EXCEPT ![Daemon] = IF @ \in {"asserted", "blocked"} THEN "store" ELSE @]
           /\ active_count' = active /\ idle_count' = idle_count
  <2>1. \A S : NumIn(pc', S) = NumIn(w, S)
    BY <1>2, <1>4 DEF NumIn
  <2>2. Created(pc') = Created(w)
    BY <1>2, <1>4 DEF Created
  <2>3. Positions(pc')
    BY <1>2, <1>4 DEF Positions
  <2>4. \A x \in Everybody : pc'[x] = w[x] \/ x = Daemon
    BY <1>2, <1>4
  <2> QED
    BY <1>4, <2>1, <2>2, <2>3, <2>4
<1>5. CASE pc' = w /\ active_count' = active /\ idle_count' = idle_count
  BY <1>5
<1> QED
  BY <1>3, <1>4, <1>5 DEF thread_call_wake

-----------------------------------------------------------------------------
(* Executions *)

(* The actors that execute a call are finitely many.                       *)
LEMMA ExecutingFinite ==
    ASSUME NEW c
    PROVE  /\ IsFiniteSet(Executing(c)) /\ Cardinality(Executing(c)) \in Nat
           /\ IsFiniteSet(Executing(c) \ CPUs) /\ Cardinality(Executing(c) \ CPUs) \in Nat
<1>1. IsFiniteSet(Actors)
  BY ThreadCallAssumption, FS_Union DEF Actors
<1>2. Executing(c) \subseteq Actors
  BY DEF Executing
<1> QED
  BY <1>1, <1>2, FS_Subset, FS_CardinalityType

(* Actor a takes c.                                                        *)
LEMMA Taken ==
    ASSUME NEW c \in Calls, NEW a \in Actors, a \notin Executing(c),
           Executing(c)' = Executing(c) \union {a}
    PROVE  /\ Cardinality(Executing(c)') = Cardinality(Executing(c)) + 1
           /\ Cardinality(Executing(c)' \ CPUs) =
                 Cardinality(Executing(c) \ CPUs) + (IF a \in CPUs THEN 0 ELSE 1)
<1>1. a \in CPUs => Executing(c)' \ CPUs = Executing(c) \ CPUs
  OBVIOUS
<1>2. a \notin CPUs => Executing(c)' \ CPUs = (Executing(c) \ CPUs) \union {a}
  OBVIOUS
<1>3. /\ IsFiniteSet(Executing(c)) /\ IsFiniteSet(Executing(c) \ CPUs)
      /\ Cardinality(Executing(c) \ CPUs) \in Nat
  BY ExecutingFinite
<1>4. Cardinality(Executing(c)') = Cardinality(Executing(c)) + 1
  BY <1>3, FS_AddElement
<1>5. a \notin CPUs => Cardinality(Executing(c)' \ CPUs) = Cardinality(Executing(c) \ CPUs) + 1
  BY <1>2, <1>3, FS_AddElement
<1>6. a \in CPUs => Cardinality(Executing(c)' \ CPUs) = Cardinality(Executing(c) \ CPUs)
  BY <1>1
<1> QED
  BY <1>3, <1>4, <1>5, <1>6

(* Actor a has executed c.                                                 *)
LEMMA Returned ==
    ASSUME NEW c \in Calls, NEW a \in Actors, a \in Executing(c),
           Executing(c)' = Executing(c) \ {a}
    PROVE  /\ Cardinality(Executing(c)') = Cardinality(Executing(c)) - 1
           /\ Cardinality(Executing(c)' \ CPUs) =
                 Cardinality(Executing(c) \ CPUs) - (IF a \in CPUs THEN 0 ELSE 1)
<1>1. a \in CPUs => Executing(c)' \ CPUs = Executing(c) \ CPUs
  OBVIOUS
<1>2. a \notin CPUs => Executing(c)' \ CPUs = (Executing(c) \ CPUs) \ {a}
  OBVIOUS
<1>3. /\ IsFiniteSet(Executing(c)) /\ IsFiniteSet(Executing(c) \ CPUs)
      /\ Cardinality(Executing(c) \ CPUs) \in Nat
  BY ExecutingFinite
<1>4. Cardinality(Executing(c)') = Cardinality(Executing(c)) - 1
  BY <1>3, FS_RemoveElement
<1>5. a \notin CPUs => Cardinality(Executing(c)' \ CPUs) = Cardinality(Executing(c) \ CPUs) - 1
  BY <1>2, <1>3, FS_RemoveElement
<1>6. a \in CPUs => Cardinality(Executing(c)' \ CPUs) = Cardinality(Executing(c) \ CPUs)
  BY <1>1
<1> QED
  BY <1>3, <1>4, <1>5, <1>6

-----------------------------------------------------------------------------
(* Steps *)

(* A ONCE call is submitted while it executes: its owner keeps it.         *)
LEMMA ReschedKeeps ==
    ASSUME CallsInv,
           NEW c \in Once,
           NEW p \in {"now", "later"},
           alive[c],
           resched' = [resched EXCEPT ![c] = p],
           UNCHANGED <<lock, queues, armed, counts, running, wait, out, life, pc, call>>
    PROVE  CallsInv'
<1> USE DEF CallsInv
<1>1. Typed'
  BY ThreadCallAssumption DEF Typed, queues, life
<1>2. Owned'
  BY ThreadCallAssumption DEF Owned, Everybody, Actors, OnQueue, OnPending,
      OnDelayed, queues, life
<1>3. (Roles /\ Held /\ Locked /\ Queued /\ SignalsTimed /\ Alone)'
  BY DEF Roles, Held, Locked, Queued, SignalsTimed, Alone, OnPending,
      OnDelayed, Executing, OnQueue, queues
<1>4. (Counted /\ TimerCovers /\ RefsCounted /\ OutCounted /\ Waiters)'
  BY DEF Counted, TimerCovers, RefsCounted, OutCounted, Waiters, Executing,
      OnQueue, OnPending, OnDelayed, queues, counts, life
<1> QED
  BY <1>1, <1>2, <1>3, <1>4

(* A call that is on no queue, or delayed, becomes pending, and a thread   *)
(* may be woken up for it; nobody executes it if it is a ONCE call.        *)
LEMMA PendingKeeps ==
    ASSUME CallsInv,
           NEW c \in Calls \ Signal,
           alive[c],
           ~ OnPending(c),
           c \in Once => Executing(c) = {},
           pending_call_enqueue(c, pc),
           out' = [out EXCEPT ![c] = IF OnQueue(c) THEN @ ELSE @ + 1],
           UNCHANGED <<lock, armed, blocked_count, flags, life, call>>
    PROVE  CallsInv'
<1> USE DEF CallsInv
<1>1. QueuesOK
  BY DEF QueuesOK, Typed, Queued, Counted
<1>2. /\ QueuesOK'
      /\ ToSet(pending') = ToSet(pending) \union {c}
      /\ ToSet(delayed') = ToSet(delayed) \ {c}
  BY <1>1, PendingEnqueued DEF pending_call_enqueue
<1>3. /\ Positions(pc')
      /\ \A x \in Everybody :
            \/ pc'[x] = pc[x]
            \/ x \in Workers /\ pc[x] = "idle" /\ pc'[x] = "ready"
            \/ x = Daemon
      /\ idle_count' = NumIn(pc', {"idle"})
      /\ active_count' = NumIn(pc', ActivePc) + Created(pc')
      /\ NumIn(pc', {"blocked"}) = NumIn(pc, {"blocked"})
  BY Woken DEF Typed, Counted, pending_call_enqueue
<1>4. /\ \A k \in Workers : pc'[k] = pc[k] \/ (pc[k] = "idle" /\ pc'[k] = "ready")
      /\ \A i \in CPUs : pc'[i] = pc[i]
      /\ \A w \in Clients : pc'[w] = pc[w]
  BY <1>3, ThreadCallAssumption DEF Everybody, Actors
<1>5. \A d : Executing(d)' = Executing(d)
  BY <1>4 DEF Executing, Actors
<1>6. delayed' # <<>> => delayed # <<>>
  BY <1>1, <1>2, EmptyQueue DEF QueuesOK
<1>7. Typed'
  BY <1>2, <1>3, ThreadCallAssumption DEF Typed, QueuesOK, flags, life
<1>8. Roles'
  BY <1>4, ThreadCallAssumption DEF Roles, ActivePc
<1>9. Held'
  BY <1>4, ThreadCallAssumption DEF Held, Roles, Actors, ActorPc
<1>10. Locked'
  BY <1>4, ThreadCallAssumption DEF Locked, Actors
<1>11. Queued'
  BY <1>2, ThreadCallAssumption DEF Queued, QueuesOK
<1>12. SignalsTimed'
  BY <1>2, <1>4, ThreadCallAssumption DEF SignalsTimed, OnPending, OnDelayed
<1>13. Alone'
  BY <1>2, <1>4, <1>5, ThreadCallAssumption DEF Alone, Actors, OnQueue,
      OnPending, OnDelayed, flags
<1>14. Owned'
  BY <1>2, <1>4, ThreadCallAssumption DEF Owned, OnQueue, OnPending, OnDelayed,
      flags, life
<1>15. Counted'
  BY <1>2, <1>3, ThreadCallAssumption DEF Counted, QueuesOK
<1>16. TimerCovers'
  BY <1>4, <1>6, ThreadCallAssumption DEF TimerCovers
<1>17. RefsCounted'
  BY <1>5, ExecutingFinite, ThreadCallAssumption DEF RefsCounted, life
<1>18. OutCounted'
  <2> SUFFICES ASSUME NEW d \in Calls
               PROVE  out'[d] = (IF OnQueue(d)' THEN 1 ELSE 0) + Cardinality(Executing(d)')
    BY DEF OutCounted
  <2>1. Executing(d)' = Executing(d)
    BY <1>5
  <2>2. OnQueue(d)' <=> OnQueue(d) \/ d = c
    BY <1>2 DEF OnQueue, OnPending, OnDelayed
  <2>3. out'[d] = IF d = c /\ ~ OnQueue(c) THEN out[d] + 1 ELSE out[d]
    BY DEF Typed
  <2>4. /\ out[d] = (IF OnQueue(d) THEN 1 ELSE 0) + Cardinality(Executing(d))
        /\ Cardinality(Executing(d)) \in Nat
    BY ExecutingFinite DEF OutCounted
  <2> QED
    BY <2>1, <2>2, <2>3, <2>4
<1>19. Waiters'
  BY <1>4, ThreadCallAssumption DEF Waiters, Held, flags, life
<1> QED
  BY <1>7, <1>8, <1>9, <1>10, <1>11, <1>12, <1>13, <1>14, <1>15, <1>16, <1>17,
      <1>18, <1>19

(* A call gets a deadline, and the timer is armed if it is the first.      *)
LEMMA DelayedKeeps ==
    ASSUME CallsInv,
           NEW c \in Calls,
           alive[c],
           c \in Once => Executing(c) = {},
           lock = None,
           delayed_call_enqueue(c),
           arm_delayed_call_timer(c),
           out' = [out EXCEPT ![c] = IF OnQueue(c) THEN @ ELSE @ + 1],
           UNCHANGED <<lock, counts, flags, life, pc, call>>
    PROVE  CallsInv'
<1> USE DEF CallsInv
<1>1. QueuesOK
  BY DEF QueuesOK, Typed, Queued, Counted
<1>2. /\ QueuesOK'
      /\ ToSet(pending') = ToSet(pending) \ {c}
      /\ ToSet(delayed') = ToSet(delayed) \union {c}
      /\ delayed' # <<>> /\ (delayed = <<>> => Head(delayed') = c)
  BY <1>1, DelayedEnqueued
<1>3. \A d : Executing(d)' = Executing(d)
  BY DEF Executing
<1>4. \A i \in CPUs : pc[i] # "rescan"
  BY ThreadCallAssumption DEF Locked, Actors
<1>5. Typed'
  BY <1>2, ThreadCallAssumption DEF Typed, QueuesOK, Actors, flags, life
<1>6. Queued'
  BY <1>2, ThreadCallAssumption DEF Queued, QueuesOK
<1>7. SignalsTimed'
  BY <1>2, <1>4 DEF SignalsTimed, OnPending
<1>8. Alone'
  BY <1>2, <1>3 DEF Alone, OnQueue, OnPending, OnDelayed, flags
<1>9. Owned'
  BY <1>2 DEF Owned, OnQueue, OnPending, OnDelayed, flags, life
<1>10. Counted'
  BY <1>2 DEF Counted, QueuesOK, counts
<1>11. TimerCovers'
  BY <1>2 DEF TimerCovers, arm_delayed_call_timer
<1>12. OutCounted'
  <2> SUFFICES ASSUME NEW d \in Calls
               PROVE  out'[d] = (IF OnQueue(d)' THEN 1 ELSE 0) + Cardinality(Executing(d)')
    BY DEF OutCounted
  <2>1. Executing(d)' = Executing(d)
    BY <1>3
  <2>2. OnQueue(d)' <=> OnQueue(d) \/ d = c
    BY <1>2 DEF OnQueue, OnPending, OnDelayed
  <2>3. out'[d] = IF d = c /\ ~ OnQueue(c) THEN out[d] + 1 ELSE out[d]
    BY DEF Typed
  <2>4. /\ out[d] = (IF OnQueue(d) THEN 1 ELSE 0) + Cardinality(Executing(d))
        /\ Cardinality(Executing(d)) \in Nat
    BY ExecutingFinite DEF OutCounted
  <2> QED
    BY <2>1, <2>2, <2>3, <2>4
<1>13. (Roles /\ Held /\ Locked /\ RefsCounted /\ Waiters)'
  BY DEF Roles, Held, Locked, RefsCounted, Waiters, Executing, life
<1> QED
  BY <1>5, <1>6, <1>7, <1>8, <1>9, <1>10, <1>11, <1>12, <1>13

(* Nobody executes a ONCE call that is not running, unless the timer is    *)
(* about to execute it again: then no client uses it.                      *)
LEMMA EnterAlone ==
    ASSUME CallsInv, ~ SignalRaces, NEW w \in Clients, NEW c \in Once,
           Enter(w, c), ~ running[c]
    PROVE  Executing(c) = {}
BY DEF CallsInv, Alone, Roles, Enter, Executing, Actors, ActivePc

(* thread_call_enter: a ONCE call that executes is marked, others become   *)
(* pending.                                                                *)
LEMMA EnterKeeps ==
    ASSUME CallsInv, ~ SignalRaces, NEW w \in Clients, NEW c \in Calls,
           thread_call_enter(w, c)
    PROVE  CallsInv'
<1>1. alive[c] /\ c \notin Signal /\ ~ OnPending(c) /\ Enter(w, c)
  BY DEF thread_call_enter, Enter
<1>2. CASE RunsOnce(c) /\ resched' = [resched EXCEPT ![c] = "now"]
  <2>1. c \in Once
    BY <1>2 DEF RunsOnce
  <2>2. UNCHANGED <<lock, queues, armed, counts, running, wait, out, life, pc, call>>
    BY <1>2 DEF thread_call_enter
  <2> QED
    BY <1>1, <1>2, <2>1, <2>2, ReschedKeeps
<1>3. CASE ~ RunsOnce(c)
  <2>1. c \in Once => Executing(c) = {}
    BY <1>1, <1>3, EnterAlone DEF RunsOnce
  <2>2. /\ pending_call_enqueue(c, pc)
        /\ out' = [out EXCEPT ![c] = IF OnQueue(c) THEN @ ELSE @ + 1]
        /\ UNCHANGED <<lock, armed, blocked_count, flags, life, call>>
    BY <1>3 DEF thread_call_enter, Submit
  <2> QED
    BY <1>1, <2>1, <2>2, PendingKeeps
<1> QED
  BY <1>2, <1>3 DEF thread_call_enter

(* thread_call_enter_delayed: likewise, for a deadline.                    *)
LEMMA EnterDelayedKeeps ==
    ASSUME CallsInv, ~ SignalRaces, NEW w \in Clients, NEW c \in Calls,
           thread_call_enter_delayed(w, c)
    PROVE  CallsInv'
<1>1. alive[c] /\ lock = None /\ Enter(w, c)
  BY DEF thread_call_enter_delayed, Enter
<1>2. CASE RunsOnce(c) /\ resched' = [resched EXCEPT ![c] = "later"]
  <2>1. c \in Once
    BY <1>2 DEF RunsOnce
  <2>2. UNCHANGED <<lock, queues, armed, counts, running, wait, out, life, pc, call>>
    BY <1>2 DEF thread_call_enter_delayed
  <2> QED
    BY <1>1, <1>2, <2>1, <2>2, ReschedKeeps
<1>3. CASE ~ RunsOnce(c)
  <2>1. c \in Once => Executing(c) = {}
    BY <1>1, <1>3, EnterAlone DEF RunsOnce
  <2>2. /\ delayed_call_enqueue(c) /\ arm_delayed_call_timer(c)
        /\ out' = [out EXCEPT ![c] = IF OnQueue(c) THEN @ ELSE @ + 1]
        /\ UNCHANGED <<lock, counts, flags, life, pc, call>>
    BY <1>3 DEF thread_call_enter_delayed, Submit
  <2> QED
    BY <1>1, <2>1, <2>2, DelayedKeeps
<1> QED
  BY <1>2, <1>3 DEF thread_call_enter_delayed

(* Client w waits for c at p.                                              *)
WaitsAt(w, c, p) ==
    /\ wait' = [wait EXCEPT ![c] = TRUE]
    /\ pc' = [pc EXCEPT ![w] = p]
    /\ call' = [call EXCEPT ![w] = c]

(* What a client's step leaves as it was: the actors, so the executions    *)
(* and the group's threads.                                                *)
LEMMA ClientMoves ==
    ASSUME CallsInv, NEW w \in Clients, NEW p, NEW v,
           \/ pc' = pc /\ call' = call
           \/ pc' = [pc EXCEPT ![w] = p] /\ call' = [call EXCEPT ![w] = v]
    PROVE  /\ Positions(pc')
           /\ \A a \in Actors : pc'[a] = pc[a] /\ call'[a] = call[a]
           /\ \A x \in Clients \ {w} : pc'[x] = pc[x] /\ call'[x] = call[x]
           /\ \A d : Executing(d)' = Executing(d)
           /\ \A S : NumIn(pc', S) = NumIn(pc, S)
           /\ Created(pc') = Created(pc)
<1> USE DEF CallsInv
<1>1. Positions(pc')
  BY DEF Typed, Positions
<1>2. /\ \A a \in Actors : pc'[a] = pc[a] /\ call'[a] = call[a]
      /\ pc'[Daemon] = pc[Daemon]
      /\ \A x \in Clients \ {w} : pc'[x] = pc[x] /\ call'[x] = call[x]
  BY ThreadCallAssumption DEF Typed, Positions, Everybody, Actors
<1>3. \A d : Executing(d)' = Executing(d)
  BY <1>2 DEF Executing
<1>4. \A S : NumIn(pc', S) = NumIn(pc, S)
  BY <1>2 DEF NumIn, Actors
<1> QED
  BY <1>1, <1>2, <1>3, <1>4 DEF Created

(* A call is canceled, and the client may wait for it.                     *)
LEMMA CancelKeeps ==
    ASSUME CallsInv,
           NEW w \in Clients,
           NEW c \in Calls,
           alive[c],
           pc[w] = "idle",
           thread_call_cancel_locked(c),
           \/ pc' = pc /\ call' = call /\ wait' = wait
           \/ \E p \in {"once", "wait"} : WaitsAt(w, c, p),
           UNCHANGED <<lock, counts, running, life>>
    PROVE  CallsInv'
<1> USE DEF CallsInv
<1>1. QueuesOK
  BY DEF QueuesOK, Typed, Queued, Counted
<1>2. /\ QueuesOK'
      /\ ToSet(pending') = ToSet(pending) \ {c}
      /\ ToSet(delayed') = ToSet(delayed) \ {c}
  BY <1>1, Canceled
<1>3. /\ Positions(pc')
      /\ \A a \in Actors : pc'[a] = pc[a] /\ call'[a] = call[a]
      /\ \A x \in Clients \ {w} : pc'[x] = pc[x] /\ call'[x] = call[x]
      /\ \A d : Executing(d)' = Executing(d)
      /\ \A S : NumIn(pc', S) = NumIn(pc, S)
      /\ Created(pc') = Created(pc)
  <2>1. CASE pc' = pc /\ call' = call
    BY <2>1, ClientMoves
  <2>2. ASSUME NEW p \in {"once", "wait"}, WaitsAt(w, c, p)
        PROVE  /\ Positions(pc')
               /\ \A a \in Actors : pc'[a] = pc[a] /\ call'[a] = call[a]
               /\ \A x \in Clients \ {w} : pc'[x] = pc[x] /\ call'[x] = call[x]
               /\ \A d : Executing(d)' = Executing(d)
               /\ \A S : NumIn(pc', S) = NumIn(pc, S)
               /\ Created(pc') = Created(pc)
    BY <2>2, ClientMoves DEF WaitsAt
  <2> QED
    BY <2>1, <2>2
<1>4. \/ pc' = pc /\ call' = call /\ wait' = wait
      \/ /\ pc'[w] \in {"once", "wait"} /\ call'[w] = c
         /\ wait' \in [Calls -> BOOLEAN] /\ call' \in [Clients \union Actors -> Calls \union {None}]
  <2> SUFFICES ASSUME NEW p \in {"once", "wait"}, WaitsAt(w, c, p)
               PROVE  /\ pc'[w] = p /\ call'[w] = c /\ wait' \in [Calls -> BOOLEAN]
                      /\ call' \in [Clients \union Actors -> Calls \union {None}]
    OBVIOUS
  <2>1. pc'[w] = p
    BY DEF WaitsAt, Typed, Positions, Everybody
  <2>2. wait' \in [Calls -> BOOLEAN]
    BY DEF WaitsAt, Typed
  <2>3. call'[w] = c /\ call' \in [Clients \union Actors -> Calls \union {None}]
    BY DEF WaitsAt, Typed
  <2> QED
    BY <2>1, <2>2, <2>3
<1>5. delayed' # <<>> => delayed # <<>>
  BY <1>1, <1>2, EmptyQueue DEF QueuesOK
<1>6. Typed'
  BY <1>2, <1>3, <1>4 DEF Typed, QueuesOK, thread_call_cancel_locked, life
<1>7. Roles'
  BY <1>3, <1>4 DEF Roles, Actors
<1>8. Held'
  BY <1>3, <1>4 DEF Held
<1>9. Locked'
  BY <1>3 DEF Locked
<1>10. Queued'
  BY <1>2, ThreadCallAssumption DEF Queued, QueuesOK
<1>11. SignalsTimed'
  BY <1>2, <1>3 DEF SignalsTimed, Actors, OnPending, OnDelayed
<1>12. Alone'
  BY <1>2, <1>3 DEF Alone, OnQueue, OnPending, OnDelayed
<1>13. Owned'
  BY <1>2, <1>3 DEF Owned, Actors, thread_call_cancel_locked, OnQueue,
      OnPending, OnDelayed, life
<1>14. Counted'
  BY <1>2, <1>3 DEF Counted, QueuesOK, counts
<1>15. TimerCovers'
  BY <1>3, <1>5 DEF TimerCovers, Actors, thread_call_cancel_locked
<1>16. RefsCounted'
  BY <1>3 DEF RefsCounted, life
<1>17. OutCounted'
  <2> SUFFICES ASSUME NEW d \in Calls
               PROVE  out'[d] = (IF OnQueue(d)' THEN 1 ELSE 0) + Cardinality(Executing(d)')
    BY DEF OutCounted
  <2>1. Executing(d)' = Executing(d)
    BY <1>3
  <2>2. OnQueue(d)' <=> OnQueue(d) /\ d # c
    BY <1>2 DEF OnQueue, OnPending, OnDelayed
  <2>3. out'[d] = IF d = c /\ OnQueue(c) THEN out[d] - 1 ELSE out[d]
    BY DEF Typed, thread_call_cancel_locked
  <2>4. /\ out[d] = (IF OnQueue(d) THEN 1 ELSE 0) + Cardinality(Executing(d))
        /\ Cardinality(Executing(d)) \in Nat
    BY ExecutingFinite DEF OutCounted
  <2> QED
    BY <2>1, <2>2, <2>3, <2>4
<1>18. Waiters'
  BY <1>3, <1>4 DEF Waiters, life
<1> QED
  BY <1>6, <1>7, <1>8, <1>9, <1>10, <1>11, <1>12, <1>13, <1>14, <1>15, <1>16,
      <1>17, <1>18

(* A client waits for a call.                                              *)
LEMMA WaitKeeps ==
    ASSUME CallsInv,
           NEW w \in Clients,
           NEW c \in Calls,
           alive[c],
           pc[w] = "idle",
           \/ pc' = pc /\ call' = call /\ wait' = wait
           \/ \E p \in {"once", "wait"} : WaitsAt(w, c, p),
           UNCHANGED <<lock, queues, armed, counts, running, resched, out, life>>
    PROVE  CallsInv'
<1> USE DEF CallsInv
<1>1. /\ Positions(pc')
      /\ \A a \in Actors : pc'[a] = pc[a] /\ call'[a] = call[a]
      /\ \A x \in Clients \ {w} : pc'[x] = pc[x] /\ call'[x] = call[x]
      /\ \A d : Executing(d)' = Executing(d)
      /\ \A S : NumIn(pc', S) = NumIn(pc, S)
      /\ Created(pc') = Created(pc)
  <2>1. CASE pc' = pc /\ call' = call
    BY <2>1, ClientMoves
  <2>2. ASSUME NEW p \in {"once", "wait"}, WaitsAt(w, c, p)
        PROVE  /\ Positions(pc')
               /\ \A a \in Actors : pc'[a] = pc[a] /\ call'[a] = call[a]
               /\ \A x \in Clients \ {w} : pc'[x] = pc[x] /\ call'[x] = call[x]
               /\ \A d : Executing(d)' = Executing(d)
               /\ \A S : NumIn(pc', S) = NumIn(pc, S)
               /\ Created(pc') = Created(pc)
    BY <2>2, ClientMoves DEF WaitsAt
  <2> QED
    BY <2>1, <2>2
<1>2. \/ pc' = pc /\ call' = call /\ wait' = wait
      \/ /\ pc'[w] \in {"once", "wait"} /\ call'[w] = c
         /\ wait' \in [Calls -> BOOLEAN] /\ call' \in [Clients \union Actors -> Calls \union {None}]
  <2> SUFFICES ASSUME NEW p \in {"once", "wait"}, WaitsAt(w, c, p)
               PROVE  /\ pc'[w] = p /\ call'[w] = c /\ wait' \in [Calls -> BOOLEAN]
                      /\ call' \in [Clients \union Actors -> Calls \union {None}]
    OBVIOUS
  <2>1. pc'[w] = p
    BY DEF WaitsAt, Typed, Positions, Everybody
  <2>2. wait' \in [Calls -> BOOLEAN]
    BY DEF WaitsAt, Typed
  <2>3. call'[w] = c /\ call' \in [Clients \union Actors -> Calls \union {None}]
    BY DEF WaitsAt, Typed
  <2> QED
    BY <2>1, <2>2, <2>3
<1>3. Typed'
  BY <1>1, <1>2 DEF Typed, queues, life
<1>4. Roles'
  BY <1>1, <1>2 DEF Roles, Actors
<1>5. Held'
  BY <1>1, <1>2 DEF Held
<1>6. Locked'
  BY <1>1 DEF Locked
<1>7. SignalsTimed'
  BY <1>1 DEF SignalsTimed, Actors, OnPending, OnDelayed, queues
<1>8. Alone'
  BY <1>1 DEF Alone, OnQueue, OnPending, OnDelayed, queues
<1>9. Owned'
  BY <1>1 DEF Owned, Actors, OnQueue, OnPending, OnDelayed, life, queues
<1>10. Counted'
  BY <1>1 DEF Counted, counts, queues
<1>11. TimerCovers'
  BY <1>1 DEF TimerCovers, Actors, queues
<1>12. RefsCounted'
  BY <1>1 DEF RefsCounted, life
<1>13. OutCounted'
  BY <1>1 DEF OutCounted, OnQueue, OnPending, OnDelayed, queues
<1>14. Waiters'
  BY <1>1, <1>2 DEF Waiters, life
<1>15. Queued'
  BY DEF Queued, queues
<1> QED
  BY <1>3, <1>4, <1>5, <1>6, <1>7, <1>8, <1>9, <1>10, <1>11, <1>12, <1>13,
      <1>14, <1>15

(* thread_call_cancel takes a call off its queue.                          *)
LEMMA CancelActionKeeps ==
    ASSUME CallsInv, NEW w \in Clients, NEW c \in Calls, thread_call_cancel(w, c)
    PROVE  CallsInv'
<1>1. alive[c] /\ pc[w] = "idle"
  BY DEF thread_call_cancel, Enter
<1>2. /\ thread_call_cancel_locked(c) /\ pc' = pc /\ call' = call /\ wait' = wait
      /\ UNCHANGED <<lock, counts, running, life>>
  BY DEF thread_call_cancel
<1> QED
  BY <1>1, <1>2, CancelKeeps

(* thread_call_cancel_wait cancels, and may wait.                          *)
LEMMA CancelWaitKeeps ==
    ASSUME CallsInv, NEW w \in Clients, NEW c \in Calls, thread_call_cancel_wait(w, c)
    PROVE  CallsInv'
<1>1. alive[c] /\ pc[w] = "idle"
  BY DEF thread_call_cancel_wait, Enter
<1>2. /\ thread_call_cancel_locked(c)
      /\ UNCHANGED <<lock, counts, running, life>>
  BY DEF thread_call_cancel_wait
<1>3. \/ pc' = pc /\ call' = call /\ wait' = wait
      \/ \E p \in {"once", "wait"} : WaitsAt(w, c, p)
  BY DEF thread_call_cancel_wait, thread_call_wait_once_locked,
      thread_call_wait_locked, WaitFor, WaitsAt
<1> QED
  BY <1>1, <1>2, <1>3, CancelKeeps

(* thread_call_wait_once waits for a call that executes.                   *)
LEMMA WaitOnceKeeps ==
    ASSUME CallsInv, NEW w \in Clients, NEW c \in Calls, thread_call_wait_once(w, c)
    PROVE  CallsInv'
<1>1. alive[c] /\ pc[w] = "idle"
  BY DEF thread_call_wait_once, Enter
<1>2. UNCHANGED <<lock, queues, armed, counts, running, resched, out, life>>
  BY DEF thread_call_wait_once
<1>3. \/ pc' = pc /\ call' = call /\ wait' = wait
      \/ \E p \in {"once", "wait"} : WaitsAt(w, c, p)
  BY DEF thread_call_wait_once, thread_call_wait_once_locked, WaitFor, WaitsAt
<1> QED
  BY <1>1, <1>2, <1>3, WaitKeeps

(* thread_call_free: nobody else waits for the call, it is on no queue and *)
(* will not be queued; the owner's reference is the one that goes.         *)
LEMMA FreeKeeps ==
    ASSUME CallsInv,
           NEW w \in Clients,
           NEW c \in Calls,
           ~ SignalRaces,
           thread_call_free(w, c)
    PROVE  CallsInv'
<1> USE DEF CallsInv
<1>1. /\ alive[c] /\ pc[w] = "idle" /\ ~ OnQueue(c) /\ resched[c] = "no"
      /\ \A v \in Clients : call[v] # c
      /\ \A i \in CPUs : call[i] = c => pc[i] \in {"invoke", "wake"}
  BY DEF thread_call_free, Enter, Cancelable
<1>2. /\ alive' = [alive EXCEPT ![c] = FALSE] /\ refs' = [refs EXCEPT ![c] = @ - 1]
      /\ UNCHANGED <<lock, queues, armed, counts, running, resched, out>>
  BY DEF thread_call_free
<1>3. \/ /\ c \in Signal /\ WaitsAt(w, c, "free") /\ freed' = freed
      \/ /\ pc' = pc /\ call' = call /\ wait' = wait
         /\ freed' = [freed EXCEPT ![c] = refs'[c] = 0]
  BY DEF thread_call_free, WaitFor, WaitsAt
<1>4. /\ Positions(pc')
      /\ \A a \in Actors : pc'[a] = pc[a] /\ call'[a] = call[a]
      /\ \A x \in Clients \ {w} : pc'[x] = pc[x] /\ call'[x] = call[x]
      /\ \A d : Executing(d)' = Executing(d)
      /\ \A S : NumIn(pc', S) = NumIn(pc, S)
      /\ Created(pc') = Created(pc)
  BY <1>3, ClientMoves DEF WaitsAt
<1>5. \/ pc' = pc /\ call' = call
      \/ pc'[w] = "free" /\ call'[w] = c /\ c \in Signal
  BY <1>1, <1>3 DEF WaitsAt, Typed, Positions, Everybody
<1>6. /\ wait' \in [Calls -> BOOLEAN] /\ freed' \in [Calls -> BOOLEAN]
      /\ call' \in [Clients \union Actors -> Calls \union {None}]
  BY <1>3 DEF WaitsAt, Typed
<1>7. \A a \in Actors : pc'[a] = pc[a] /\ call'[a] = call[a]
  BY <1>4
<1>8. Positions(pc')
  BY <1>4
<1>9. freed'[c] \in BOOLEAN /\ \A d \in Calls \ {c} : freed'[d] = freed[d] /\ alive'[d] = alive[d]
  BY <1>2, <1>3 DEF Typed
<1>10. alive' \in [Calls -> BOOLEAN] /\ refs' \in [Calls -> Int] /\ alive'[c] = FALSE
  BY <1>2 DEF Typed
<1>11. Typed'
  BY <1>2, <1>6, <1>8, <1>10 DEF Typed, queues
<1>12. Roles'
  BY <1>4, <1>5 DEF Roles, Actors
<1>13. Held'
  BY <1>1, <1>4, <1>5 DEF Held
<1>14. Locked'
  BY <1>2, <1>4 DEF Locked
<1>15. SignalsTimed'
  BY <1>2, <1>4 DEF SignalsTimed, Actors, OnPending, OnDelayed, queues
<1>16. Alone'
  BY <1>2, <1>4 DEF Alone, OnQueue, OnPending, OnDelayed, queues
<1>17. Owned'
  <2>1. \A d : OnQueue(d)' <=> OnQueue(d)
    BY <1>2 DEF OnQueue, OnPending, OnDelayed, queues
  <2>2. \A d \in Calls : freed'[d] => ~ alive'[d]
    BY <1>9, <1>10 DEF Owned
  <2>3. \A d \in Calls : ~ alive'[d] => ~ OnQueue(d)' /\ resched'[d] = "no"
    BY <1>1, <1>2, <1>9, <2>1 DEF Owned
  <2>4. \A i \in CPUs : pc'[i] \in {"wake_repend", "repend"} => alive'[call'[i]]
    <3> SUFFICES ASSUME NEW i \in CPUs, pc[i] \in {"wake_repend", "repend"}
                 PROVE  alive'[call[i]]
      BY <1>7 DEF Actors
    <3>1. call[i] \in Calls \ {c}
      BY <1>1 DEF Held, ActorPc, Actors
    <3> QED
      BY <1>9, <3>1 DEF Owned
  <2> QED
    BY <1>2, <2>2, <2>3, <2>4 DEF Owned
<1>18. Counted'
  BY <1>2, <1>4 DEF Counted, counts, queues
<1>19. TimerCovers'
  BY <1>2, <1>4 DEF TimerCovers, Actors, queues
<1>20. RefsCounted'
  <2> SUFFICES ASSUME NEW d \in Calls
               PROVE  refs'[d] = (IF alive'[d] THEN 1 ELSE 0) + Cardinality(Executing(d)' \ CPUs)
    BY DEF RefsCounted
  <2>1. /\ refs[d] = (IF alive[d] THEN 1 ELSE 0) + Cardinality(Executing(d) \ CPUs)
        /\ Cardinality(Executing(d) \ CPUs) \in Nat
    BY ExecutingFinite DEF RefsCounted
  <2>2. refs'[d] = IF d = c THEN refs[d] - 1 ELSE refs[d]
    BY <1>2 DEF Typed
  <2>3. Executing(d)' = Executing(d)
    BY <1>4
  <2> QED
    BY <1>1, <1>9, <1>10, <2>1, <2>2, <2>3
<1>21. OutCounted'
  BY <1>2, <1>4 DEF OutCounted, OnQueue, OnPending, OnDelayed, queues
<1>22. Waiters'
  BY <1>1, <1>2, <1>4, <1>5 DEF Waiters
<1>23. Queued'
  BY <1>2 DEF Queued, queues
<1> QED
  BY <1>11, <1>12, <1>13, <1>14, <1>15, <1>16, <1>17, <1>18, <1>19, <1>20,
      <1>21, <1>22, <1>23

(* thread_call_allocate: nobody works on the storage, and no queue has it. *)
LEMMA AllocateKeeps ==
    ASSUME CallsInv,
           NEW w \in Clients,
           NEW c \in Calls,
           thread_call_allocate(w, c)
    PROVE  CallsInv'
<1> USE DEF CallsInv
<1>1. /\ freed[c] /\ \A a \in Clients \union Actors : call[a] # c
      /\ alive' = [alive EXCEPT ![c] = TRUE] /\ refs' = [refs EXCEPT ![c] = 1]
      /\ freed' = [freed EXCEPT ![c] = FALSE] /\ out' = [out EXCEPT ![c] = 0]
      /\ running' = [running EXCEPT ![c] = FALSE] /\ wait' = [wait EXCEPT ![c] = FALSE]
      /\ resched' = [resched EXCEPT ![c] = "no"]
      /\ UNCHANGED <<lock, queues, armed, counts, pc, call>>
  BY DEF thread_call_allocate, Typed
<1>2. ~ OnQueue(c)
  BY <1>1 DEF Owned
<1>3. (\A d : Executing(d)' = Executing(d)) /\ Executing(c) = {}
  BY <1>1 DEF Executing
<1>4. Cardinality({}) = 0 /\ {} \ CPUs = {}
  BY FS_EmptySet
<1>5. Typed'
  BY <1>1 DEF Typed, queues
<1>6. Alone'
  <2> SUFFICES ASSUME NEW a \in Actors, NEW d \in Once, call[a] = d
               PROVE  /\ a \in Executing(d) => ~ OnQueue(d) /\ \A b \in Executing(d) : a = b
                      /\ pc[a] \in {"invoke", "blocked"} => running'[d]
    BY <1>1, <1>3 DEF Alone, OnQueue, OnPending, OnDelayed, queues
  <2>1. d # c
    BY <1>1
  <2>2. running'[d] = running[d]
    BY <1>1, <2>1, ThreadCallAssumption
  <2> QED
    BY <2>2 DEF Alone
<1>7. Owned'
  BY <1>1, <1>2 DEF Owned, Typed, OnQueue, OnPending, OnDelayed, queues
<1>8. RefsCounted'
  <2>1. refs'[c] = 1 /\ alive'[c] /\ Cardinality(Executing(c)' \ CPUs) = 0
    BY <1>1, <1>3, <1>4 DEF Typed
  <2>2. \A d \in Calls \ {c} : refs'[d] = refs[d] /\ alive'[d] = alive[d]
    BY <1>1
  <2> QED
    BY <1>3, <2>1, <2>2 DEF RefsCounted
<1>9. OutCounted'
  <2>1. \A d : OnQueue(d)' <=> OnQueue(d)
    BY <1>1 DEF OnQueue, OnPending, OnDelayed, queues
  <2>2. out'[c] = 0 /\ Cardinality(Executing(c)') = 0
    BY <1>1, <1>3, <1>4 DEF Typed
  <2>3. \A d \in Calls \ {c} : out'[d] = out[d]
    BY <1>1
  <2> QED
    BY <1>2, <1>3, <2>1, <2>2, <2>3 DEF OutCounted
<1>10. Waiters'
  BY <1>1 DEF Waiters
<1>11. (Roles /\ Held /\ Locked /\ Queued /\ SignalsTimed /\ Counted /\ TimerCovers)'
  BY <1>1 DEF Roles, Held, Locked, Queued, SignalsTimed, Counted, TimerCovers,
      OnPending, OnDelayed, queues, counts
<1> QED
  BY <1>5, <1>6, <1>7, <1>8, <1>9, <1>10, <1>11

(* A client that was woken up waits again, or returns.                     *)
LEMMA RecheckKeeps ==
    ASSUME CallsInv,
           NEW w \in Clients,
           wait_recheck(w)
    PROVE  CallsInv'
<1> USE DEF CallsInv
<1>1. call[w] \in Calls /\ pc[w] = "recheck"
  BY DEF wait_recheck, Held
<1>2. /\ Positions(pc')
      /\ \A a \in Actors : pc'[a] = pc[a] /\ call'[a] = call[a]
      /\ \A x \in Clients \ {w} : pc'[x] = pc[x] /\ call'[x] = call[x]
      /\ \A d : Executing(d)' = Executing(d)
      /\ \A S : NumIn(pc', S) = NumIn(pc, S)
      /\ Created(pc') = Created(pc)
  <2>1. CASE pc' = [pc EXCEPT ![w] = "wait"] /\ call' = call
    <3>1. call' = [call EXCEPT ![w] = call[w]]
      BY <2>1 DEF Typed
    <3> QED
      BY <2>1, <3>1, ClientMoves
  <2>2. CASE pc' = [pc EXCEPT ![w] = "idle"] /\ call' = [call EXCEPT ![w] = None]
    BY <2>2, ClientMoves
  <2> QED
    BY <2>1, <2>2 DEF wait_recheck
<1>3. /\ wait' \in [Calls -> BOOLEAN]
      /\ call' \in [Clients \union Actors -> Calls \union {None}]
      /\ \/ pc'[w] = "wait" /\ call'[w] = call[w]
         \/ pc'[w] = "idle" /\ call'[w] = None
  BY <1>1 DEF wait_recheck, Typed, Positions, Everybody
<1>4. Typed'
  BY <1>2, <1>3 DEF Typed, queues, life, wait_recheck
<1>5. Roles'
  BY <1>2, <1>3 DEF Roles, Actors
<1>6. Held'
  BY <1>1, <1>2, <1>3, ThreadCallAssumption DEF Held
<1>7. Locked'
  BY <1>2 DEF Locked, wait_recheck
<1>8. SignalsTimed'
  BY <1>2 DEF SignalsTimed, Actors, OnPending, OnDelayed, queues, wait_recheck
<1>9. Alone'
  BY <1>2 DEF Alone, OnQueue, OnPending, OnDelayed, queues, wait_recheck
<1>10. Owned'
  BY <1>2 DEF Owned, Actors, OnQueue, OnPending, OnDelayed, queues, life,
      wait_recheck
<1>11. Counted'
  BY <1>2 DEF Counted, counts, queues, wait_recheck
<1>12. TimerCovers'
  BY <1>2 DEF TimerCovers, Actors, queues, wait_recheck
<1>13. RefsCounted'
  BY <1>2 DEF RefsCounted, life, wait_recheck
<1>14. OutCounted'
  BY <1>2 DEF OutCounted, OnQueue, OnPending, OnDelayed, queues, wait_recheck
<1>15. Waiters'
  BY <1>1, <1>2, <1>3, ThreadCallAssumption DEF Waiters, life, wait_recheck
<1>16. Queued'
  BY DEF Queued, queues, wait_recheck
<1> QED
  BY <1>4, <1>5, <1>6, <1>7, <1>8, <1>9, <1>10, <1>11, <1>12, <1>13, <1>14,
      <1>15, <1>16

(* What the step of an actor a to the position p leaves as it was.         *)
LEMMA ActorMoves ==
    ASSUME CallsInv, NEW a \in Actors, NEW p, pc' = [pc EXCEPT ![a] = p]
    PROVE  /\ Positions(pc') /\ pc'[a] = p
           /\ \A x \in Actors \ {a} : pc'[x] = pc[x]
           /\ \A w \in Clients : pc'[w] = pc[w]
           /\ \A S : NumIn(pc', S) = IF a \in Workers
                                      THEN NumIn(pc, S) - Hit(pc[a], S) + Hit(p, S)
                                      ELSE NumIn(pc, S)
           /\ Created(pc') = Created(pc)
<1> USE DEF CallsInv
<1>1. Positions(pc') /\ pc'[a] = p
  BY DEF Typed, Positions, Everybody
<1>2. /\ \A x \in Actors \ {a} : pc'[x] = pc[x]
      /\ \A w \in Clients : pc'[w] = pc[w]
      /\ pc'[Daemon] = pc[Daemon]
  BY ThreadCallAssumption DEF Actors
<1>3. ASSUME a \in Workers
      PROVE  \A S : NumIn(pc', S) = NumIn(pc, S) - Hit(pc[a], S) + Hit(p, S)
  <2>1. \A x \in Workers \ {a} : pc'[x] = pc[x]
    BY <1>2
  <2> QED
    BY <1>1, <1>3, <2>1, WorkerMoves
<1>4. ASSUME a \notin Workers
      PROVE  \A S : NumIn(pc', S) = NumIn(pc, S)
  BY <1>2, <1>4 DEF NumIn
<1> QED
  BY <1>1, <1>2, <1>3, <1>4 DEF Created

(* take_lock: the lock is free, so nobody is in a loop under it.           *)
LEMMA TakeLockKeeps ==
    ASSUME CallsInv,
           NEW a \in Actors,
           take_lock(a)
    PROVE  CallsInv'
<1> USE DEF CallsInv
<1>1. /\ Positions(pc') /\ pc'[a] = "loop"
      /\ \A x \in Actors \ {a} : pc'[x] = pc[x]
      /\ \A w \in Clients : pc'[w] = pc[w]
  BY ActorMoves DEF take_lock
<1>2. \A d : Executing(d)' = Executing(d)
  BY <1>1 DEF Executing, take_lock
<1>3. /\ NumIn(pc', {"idle"}) = NumIn(pc, {"idle"}) /\ NumIn(pc', {"blocked"}) = NumIn(pc, {"blocked"})
      /\ NumIn(pc', ActivePc) = NumIn(pc, ActivePc) /\ Created(pc') = Created(pc)
  <2>1. /\ \A k \in Workers : pc'[k] \in {"idle"} <=> pc[k] \in {"idle"}
        /\ \A k \in Workers : pc'[k] \in {"blocked"} <=> pc[k] \in {"blocked"}
        /\ \A k \in Workers : pc'[k] \in ActivePc <=> pc[k] \in ActivePc
    BY <1>1 DEF take_lock, Roles, ActivePc
  <2>2. Created(pc') = Created(pc)
    BY ActorMoves DEF take_lock
  <2> QED
    BY <2>1, <2>2, NobodyMoves
<1>4. Typed'
  BY <1>1, ThreadCallAssumption DEF Typed, take_lock, queues, flags, life
<1>5. Roles'
  BY <1>1, ThreadCallAssumption DEF Roles, Actors, ActivePc
<1>6. Held'
  BY <1>1, ThreadCallAssumption DEF Held, ActorPc, take_lock
<1>7. Locked'
  BY <1>1, ThreadCallAssumption DEF Locked, Actors, take_lock
<1>8. SignalsTimed'
  BY <1>1, ThreadCallAssumption DEF SignalsTimed, OnPending, OnDelayed,
      take_lock, queues
<1>9. Alone'
  BY <1>1, <1>2, ThreadCallAssumption DEF Alone, OnQueue, OnPending, OnDelayed,
      take_lock, queues, flags
<1>10. Owned'
  BY <1>1, ThreadCallAssumption DEF Owned, OnQueue, OnPending, OnDelayed,
      take_lock, queues, flags, life
<1>11. Counted'
  BY <1>3, ThreadCallAssumption DEF Counted, take_lock, queues, counts
<1>12. TimerCovers'
  BY <1>1, ThreadCallAssumption DEF TimerCovers, take_lock, queues
<1>13. RefsCounted'
  BY <1>2, ExecutingFinite, ThreadCallAssumption DEF RefsCounted, take_lock,
      life
<1>14. OutCounted'
  BY <1>2, ExecutingFinite, ThreadCallAssumption DEF OutCounted, OnQueue,
      OnPending, OnDelayed, take_lock, queues
<1>15. Waiters'
  BY <1>1, ThreadCallAssumption DEF Waiters, take_lock, life
<1>16. Queued'
  BY DEF Queued, take_lock, queues
<1> QED
  BY <1>4, <1>5, <1>6, <1>7, <1>8, <1>9, <1>10, <1>11, <1>12, <1>13, <1>14,
      <1>15, <1>16

(* thread_call_park: a thread leaves the active ones, for the idle ones    *)
(* perhaps.                                                                *)
LEMMA ParkKeeps ==
    ASSUME CallsInv,
           NEW k \in Workers,
           thread_call_park(k)
    PROVE  CallsInv'
<1> USE DEF CallsInv
<1>1. pc[k] = "loop" /\ lock = k /\ k \in Actors
  BY DEF thread_call_park, Locked, Actors
<1>2. /\ Positions(pc') /\ pc'[k] \in {"idle", "none"}
      /\ \A x \in Actors \ {k} : pc'[x] = pc[x]
      /\ \A w \in Clients : pc'[w] = pc[w]
  BY <1>1, ActorMoves DEF thread_call_park
<1>3. \A d : Executing(d)' = Executing(d)
  BY <1>1, <1>2 DEF Executing, thread_call_park
<1>4. Typed'
  BY <1>2, ThreadCallAssumption DEF Typed, thread_call_park, queues, flags,
      life
<1>5. Roles'
  BY <1>2, ThreadCallAssumption DEF Roles, Actors
<1>6. Held'
  BY <1>2, ThreadCallAssumption DEF Held, ActorPc, thread_call_park
<1>7. Locked'
  BY <1>2, ThreadCallAssumption DEF Locked, Actors, thread_call_park
<1>8. SignalsTimed'
  BY <1>2, ThreadCallAssumption DEF SignalsTimed, OnPending, OnDelayed,
      thread_call_park, queues
<1>9. Alone'
  BY <1>2, <1>3, ThreadCallAssumption DEF Alone, OnQueue, OnPending, OnDelayed,
      thread_call_park, queues, flags
<1>10. Owned'
  BY <1>2, ThreadCallAssumption DEF Owned, OnQueue, OnPending, OnDelayed,
      thread_call_park, queues, flags, life
<1>11. Counted'
  <2> DEFINE stays == parallel \/ idle_count < Target
             p == IF stays THEN "idle" ELSE "none"
  <2>1. /\ pc' = [pc EXCEPT ![k] = p] /\ active_count' = active_count - 1
        /\ idle_count' = IF stays THEN idle_count + 1 ELSE idle_count
    BY DEF thread_call_park
  <2> HIDE DEF stays, p
  <2>2. /\ \A S : NumIn(pc', S) = NumIn(pc, S) - Hit("loop", S) + Hit(p, S)
        /\ Created(pc') = Created(pc)
    BY <1>1, <2>1, ActorMoves
  <2>3. /\ NumIn(pc', {"idle"}) = NumIn(pc, {"idle"}) + (IF stays THEN 1 ELSE 0)
        /\ NumIn(pc', {"blocked"}) = NumIn(pc, {"blocked"})
        /\ NumIn(pc', ActivePc) = NumIn(pc, ActivePc) - 1
    BY <2>2, NumberType DEF Hit, ActivePc, p
  <2>4. NumIn(pc, {"idle"}) \in Nat /\ NumIn(pc, ActivePc) \in Nat /\ Created(pc) \in Nat
    BY NumberType DEF Created
  <2>5. pending_count' = Len(pending') /\ blocked_count' = blocked_count
    BY DEF Counted, thread_call_park, queues
  <2> QED
    BY <2>1, <2>2, <2>3, <2>4, <2>5 DEF Counted
<1>12. TimerCovers'
  BY <1>2, ThreadCallAssumption DEF TimerCovers, thread_call_park, queues
<1>13. RefsCounted'
  BY <1>3, ExecutingFinite, ThreadCallAssumption DEF RefsCounted,
      thread_call_park, life
<1>14. OutCounted'
  BY <1>3, ExecutingFinite, ThreadCallAssumption DEF OutCounted, OnQueue,
      OnPending, OnDelayed, thread_call_park, queues
<1>15. Waiters'
  BY <1>2, ThreadCallAssumption DEF Waiters, thread_call_park, life
<1>16. Queued'
  BY DEF Queued, thread_call_park, queues
<1> QED
  BY <1>4, <1>5, <1>6, <1>7, <1>8, <1>9, <1>10, <1>11, <1>12, <1>13, <1>14,
      <1>15, <1>16

(* sched_call_unblock: a blocked function continues.                       *)
LEMMA UnblockKeeps ==
    ASSUME CallsInv,
           NEW k \in Workers,
           sched_call_unblock(k)
    PROVE  CallsInv'
<1> USE DEF CallsInv
<1>1. pc[k] = "blocked" /\ k \in Actors
  BY DEF sched_call_unblock, Actors
<1>2. /\ Positions(pc') /\ pc'[k] = "invoke"
      /\ \A x \in Actors \ {k} : pc'[x] = pc[x]
      /\ \A w \in Clients : pc'[w] = pc[w]
  BY <1>1, ActorMoves DEF sched_call_unblock
<1>3. \A d : Executing(d)' = Executing(d)
  BY <1>1, <1>2 DEF Executing, sched_call_unblock
<1>4. Typed'
  BY <1>2, ThreadCallAssumption DEF Typed, sched_call_unblock, queues, flags,
      life
<1>5. Roles'
  BY <1>2, ThreadCallAssumption DEF Roles, Actors, ActivePc
<1>6. Held'
  BY <1>2, ThreadCallAssumption DEF Held, ActorPc, sched_call_unblock
<1>7. Locked'
  BY <1>2, ThreadCallAssumption DEF Locked, sched_call_unblock
<1>8. SignalsTimed'
  BY <1>2, ThreadCallAssumption DEF SignalsTimed, OnPending, OnDelayed,
      sched_call_unblock, queues
<1>9. Alone'
  BY <1>2, <1>3, ThreadCallAssumption DEF Alone, OnQueue, OnPending, OnDelayed,
      sched_call_unblock, queues, flags
<1>10. Owned'
  BY <1>2, ThreadCallAssumption DEF Owned, OnQueue, OnPending, OnDelayed,
      sched_call_unblock, queues, flags, life
<1>11. Counted'
  <2>1. /\ \A S : NumIn(pc', S) = NumIn(pc, S) - Hit("blocked", S) + Hit("invoke", S)
        /\ Created(pc') = Created(pc)
    BY <1>1, ActorMoves DEF sched_call_unblock
  <2>2. /\ NumIn(pc', {"idle"}) = NumIn(pc, {"idle"})
        /\ NumIn(pc', {"blocked"}) = NumIn(pc, {"blocked"}) - 1
        /\ NumIn(pc', ActivePc) = NumIn(pc, ActivePc) + 1
    BY <2>1, NumberType DEF Hit, ActivePc
  <2>3. NumIn(pc, {"blocked"}) \in Nat /\ NumIn(pc, ActivePc) \in Nat /\ Created(pc) \in Nat
    BY NumberType DEF Created
  <2> QED
    BY <2>1, <2>2, <2>3 DEF Counted, sched_call_unblock, queues
<1>12. TimerCovers'
  BY <1>2, ThreadCallAssumption DEF TimerCovers, sched_call_unblock, queues
<1>13. RefsCounted'
  BY <1>3, ExecutingFinite, ThreadCallAssumption DEF RefsCounted,
      sched_call_unblock, life
<1>14. OutCounted'
  BY <1>3, ExecutingFinite, ThreadCallAssumption DEF OutCounted, OnQueue,
      OnPending, OnDelayed, sched_call_unblock, queues
<1>15. Waiters'
  BY <1>2, ThreadCallAssumption DEF Waiters, sched_call_unblock, life
<1>16. Queued'
  BY DEF Queued, sched_call_unblock, queues
<1> QED
  BY <1>4, <1>5, <1>6, <1>7, <1>8, <1>9, <1>10, <1>11, <1>12, <1>13, <1>14,
      <1>15, <1>16

(* thread_call_dequeue: the first pending call leaves the queue, and is    *)
(* executed from now on.                                                   *)
LEMMA DequeueKeeps ==
    ASSUME CallsInv,
           NEW k \in Workers,
           thread_call_dequeue(k)
    PROVE  CallsInv'
<1> USE DEF CallsInv
<1>1. QueuesOK
  BY DEF QueuesOK, Typed, Queued, Counted
<1>2. pc[k] = "loop" /\ lock = k /\ k \in Actors /\ call[k] \notin Calls /\ k \notin CPUs
  BY ThreadCallAssumption DEF thread_call_dequeue, Locked, Held, ActorPc,
      Actors
<1>3. pending # <<>>
  BY DEF thread_call_dequeue
<1>4. PICK c \in Calls : c = Head(pending)
  BY <1>1, <1>3, TailKeeps DEF QueuesOK
<1>5. /\ c \in ToSet(pending)
      /\ pending' \in Seq(Calls) /\ Distinct(pending')
      /\ ToSet(pending') = ToSet(pending) \ {c}
      /\ Len(pending') = Len(pending) - 1
  BY <1>1, <1>3, <1>4, TailKeeps DEF thread_call_dequeue, QueuesOK
<1>6. QueuesOK'
  BY <1>1, <1>5 DEF QueuesOK, thread_call_dequeue
<1>7. /\ Positions(pc') /\ pc'[k] = "invoke"
      /\ \A x \in Actors \ {k} : pc'[x] = pc[x]
      /\ \A w \in Clients : pc'[w] = pc[w]
  BY <1>2, ActorMoves DEF thread_call_dequeue
<1>8. /\ call'[k] = c /\ call' \in [Clients \union Actors -> Calls \union {None}]
      /\ \A x \in Clients \union Actors : x # k => call'[x] = call[x]
  BY <1>2, <1>4 DEF thread_call_dequeue, Typed
<1>9. /\ Executing(c)' = Executing(c) \union {k}
      /\ k \notin Executing(c)
  BY <1>2, <1>5, <1>7, <1>8 DEF Executing
<1>10. \A d \in Calls \ {c} : Executing(d)' = Executing(d)
  BY <1>2, <1>5, <1>7, <1>8 DEF Executing
<1>11. \A w \in Clients : call'[w] = call[w]
  BY <1>8, ThreadCallAssumption
<1>12. Typed'
  BY <1>5, <1>6, <1>7, <1>8 DEF Typed, thread_call_dequeue
<1>13. Roles'
  BY <1>7, <1>8, ThreadCallAssumption DEF Roles, Actors, ActivePc
<1>14. Held'
  BY <1>2, <1>5, <1>7, <1>8, <1>11 DEF Held, ActorPc
<1>15. Locked'
  BY <1>7, <1>8, ThreadCallAssumption DEF Locked, Actors, thread_call_dequeue
<1>16. Queued'
  BY <1>6 DEF Queued, QueuesOK
<1>17. SignalsTimed'
  BY <1>1, <1>2, <1>5, <1>7, <1>8 DEF SignalsTimed, OnPending, OnDelayed,
      thread_call_dequeue
<1>18. Alone'
  <2>1. ToSet(delayed') = ToSet(delayed) /\ c \notin ToSet(delayed)
    BY <1>1, <1>5 DEF QueuesOK, thread_call_dequeue
  <2>2. \A d : OnQueue(d)' <=> OnQueue(d) /\ d # c
    BY <1>5, <2>1 DEF OnQueue, OnPending, OnDelayed
  <2>3. c \in Once => Executing(c) = {}
    BY <1>5 DEF Alone, Executing, OnQueue, OnPending
  <2>4. running'[c] /\ \A d \in Calls : running[d] => running'[d]
    BY <1>4 DEF thread_call_dequeue, Typed
  <2>5. \A a \in Actors \ {k} : call'[a] = call[a] /\ pc'[a] = pc[a]
    BY <1>7, <1>8
  <2> SUFFICES ASSUME NEW a \in Actors, NEW d \in Once, call'[a] = d
               PROVE  /\ a \in Executing(d)' => ~ OnQueue(d)' /\ \A b \in Executing(d)' : a = b
                      /\ pc'[a] \in {"invoke", "blocked"} => running'[d]
    BY DEF Alone
  <2>6. CASE d = c
    BY <1>9, <2>2, <2>3, <2>4, <2>6
  <2>7. CASE d # c
    <3>1. a # k /\ call[a] = d /\ pc'[a] = pc[a] /\ d \in Calls
      BY <1>8, <2>5, <2>7, ThreadCallAssumption
    <3>2. Executing(d)' = Executing(d)
      BY <1>10, <2>7, <3>1
    <3> QED
      BY <2>2, <2>4, <3>1, <3>2 DEF Alone
  <2> QED
    BY <2>6, <2>7
<1>19. Owned'
  BY <1>5, <1>7, <1>8, ThreadCallAssumption DEF Owned, OnQueue, OnPending,
      OnDelayed, thread_call_dequeue
<1>20. Counted'
  <2>1. /\ \A S : NumIn(pc', S) = NumIn(pc, S) - Hit("loop", S) + Hit("invoke", S)
        /\ Created(pc') = Created(pc)
    BY <1>2, ActorMoves DEF thread_call_dequeue
  <2>2. /\ NumIn(pc', {"idle"}) = NumIn(pc, {"idle"})
        /\ NumIn(pc', {"blocked"}) = NumIn(pc, {"blocked"})
        /\ NumIn(pc', ActivePc) = NumIn(pc, ActivePc)
    BY <2>1, NumberType DEF Hit, ActivePc
  <2> QED
    BY <1>6, <2>1, <2>2 DEF Counted, counts, thread_call_dequeue
<1>21. TimerCovers'
  BY <1>2, <1>7 DEF TimerCovers, thread_call_dequeue
<1>22. RefsCounted'
  <2> SUFFICES ASSUME NEW d \in Calls
               PROVE  refs'[d] = (IF alive'[d] THEN 1 ELSE 0) + Cardinality(Executing(d)' \ CPUs)
    BY DEF RefsCounted
  <2>1. /\ refs[d] = (IF alive[d] THEN 1 ELSE 0) + Cardinality(Executing(d) \ CPUs)
        /\ Cardinality(Executing(d) \ CPUs) \in Nat
    BY ExecutingFinite DEF RefsCounted
  <2>2. refs'[d] = IF d = c THEN refs[d] + 1 ELSE refs[d]
    BY <1>4 DEF Typed, thread_call_dequeue
  <2>3. d = c => Cardinality(Executing(d)' \ CPUs) = Cardinality(Executing(d) \ CPUs) + 1
    BY <1>2, <1>9, Taken
  <2>4. alive'[d] = alive[d] /\ (d # c => Executing(d)' = Executing(d))
    BY <1>10 DEF thread_call_dequeue
  <2> QED
    BY <2>1, <2>2, <2>3, <2>4
<1>23. OutCounted'
  <2> SUFFICES ASSUME NEW d \in Calls
               PROVE  out'[d] = (IF OnQueue(d)' THEN 1 ELSE 0) + Cardinality(Executing(d)')
    BY DEF OutCounted
  <2>1. /\ d = c => Cardinality(Executing(d)') = Cardinality(Executing(d)) + 1
        /\ d # c => Executing(d)' = Executing(d)
    BY <1>2, <1>9, <1>10, Taken
  <2>2. OnQueue(d)' <=> OnQueue(d) /\ d # c
    BY <1>1, <1>5 DEF QueuesOK, OnQueue, OnPending, OnDelayed,
        thread_call_dequeue
  <2>3. out'[d] = out[d] /\ (d = c => OnQueue(d))
    BY <1>5 DEF thread_call_dequeue, OnQueue, OnPending
  <2>4. /\ out[d] = (IF OnQueue(d) THEN 1 ELSE 0) + Cardinality(Executing(d))
        /\ Cardinality(Executing(d)) \in Nat
    BY ExecutingFinite DEF OutCounted
  <2> QED
    BY <2>1, <2>2, <2>3, <2>4
<1>24. Waiters'
  BY <1>7, <1>11 DEF Waiters, thread_call_dequeue
<1> QED
  BY <1>12, <1>13, <1>14, <1>15, <1>16, <1>17, <1>18, <1>19, <1>20, <1>21,
      <1>22, <1>23, <1>24

(* sched_call_block: the function blocks, and another thread may be woken  *)
(* up in its place.                                                        *)
LEMMA BlockKeeps ==
    ASSUME CallsInv,
           NEW k \in Workers,
           sched_call_block(k)
    PROVE  CallsInv'
<1> USE DEF CallsInv
<1>1. pc[k] = "invoke" /\ k \in Actors
  BY DEF sched_call_block, Actors
<1>2. /\ Positions([pc EXCEPT ![k] = "blocked"])
      /\ [pc EXCEPT ![k] = "blocked"][k] = "blocked"
      /\ \A x \in Everybody \ {k} : [pc EXCEPT ![k] = "blocked"][x] = pc[x]
  BY <1>1 DEF Typed, Positions, Everybody
<1>3. LET w == [pc EXCEPT ![k] = "blocked"] IN
      /\ NumIn(w, {"idle"}) = NumIn(pc, {"idle"})
      /\ NumIn(w, {"blocked"}) = NumIn(pc, {"blocked"}) + 1
      /\ NumIn(w, ActivePc) = NumIn(pc, ActivePc) - 1
      /\ Created(w) = Created(pc)
  <2> DEFINE w == [pc EXCEPT ![k] = "blocked"]
  <2>1. /\ \A x \in Workers \ {k} : w[x] = pc[x]
        /\ w[k] = "blocked" /\ w[Daemon] = pc[Daemon]
    BY <1>2, ThreadCallAssumption
  <2> HIDE DEF w
  <2>2. \A S : NumIn(w, S) = NumIn(pc, S) - Hit("invoke", S) + Hit("blocked", S)
    BY <1>1, <2>1, OneMoves
  <2>3. /\ NumIn(w, {"idle"}) = NumIn(pc, {"idle"})
        /\ NumIn(w, {"blocked"}) = NumIn(pc, {"blocked"}) + 1
        /\ NumIn(w, ActivePc) = NumIn(pc, ActivePc) - 1
    BY <2>2, NumberType DEF Hit, ActivePc
  <2> QED
    BY <2>1, <2>3 DEF Created, w
<1>4. LET w == [pc EXCEPT ![k] = "blocked"] IN
      /\ Positions(pc')
      /\ \A x \in Everybody :
            \/ pc'[x] = w[x]
            \/ x \in Workers /\ w[x] = "idle" /\ pc'[x] = "ready"
            \/ x = Daemon
      /\ idle_count' = NumIn(pc', {"idle"})
      /\ active_count' = NumIn(pc', ActivePc) + Created(pc')
      /\ NumIn(pc', {"blocked"}) = NumIn(w, {"blocked"})
  <2> DEFINE w == [pc EXCEPT ![k] = "blocked"]
  <2>1. /\ Positions(w) /\ idle_count = NumIn(w, {"idle"})
        /\ active_count - 1 = NumIn(w, ActivePc) + Created(w)
    <3>1. NumIn(pc, ActivePc) \in Nat /\ Created(pc) \in Nat
      BY NumberType DEF Created
    <3> QED
      BY <1>2, <1>3, <3>1 DEF Counted
  <2> HIDE DEF w
  <2>2. CASE thread_call_wake(w, active_count - 1, pending_count)
    BY <2>1, <2>2, Woken DEF w
  <2>3. CASE pc' = w /\ active_count' = active_count - 1 /\ idle_count' = idle_count
    BY <2>1, <2>3 DEF w
  <2> QED
    BY <2>2, <2>3 DEF sched_call_block, w
<1>5. /\ pc'[k] = "blocked"
      /\ \A x \in Workers \ {k} : pc'[x] = pc[x] \/ (pc[x] = "idle" /\ pc'[x] = "ready")
      /\ \A i \in CPUs : pc'[i] = pc[i]
      /\ \A x \in Clients : pc'[x] = pc[x]
  BY <1>1, <1>2, <1>4, ThreadCallAssumption DEF Everybody, Actors
<1>6. \A d : Executing(d)' = Executing(d)
  BY <1>1, <1>5 DEF Executing, Actors, sched_call_block
<1>7. Typed'
  BY <1>4, ThreadCallAssumption DEF Typed, sched_call_block, queues, flags,
      life
<1>8. Roles'
  BY <1>5, ThreadCallAssumption DEF Roles, ActivePc
<1>9. Held'
  BY <1>5, ThreadCallAssumption DEF Held, Roles, Actors, ActorPc,
      sched_call_block
<1>10. Locked'
  BY <1>5, ThreadCallAssumption DEF Locked, Actors, sched_call_block
<1>11. SignalsTimed'
  BY <1>5, ThreadCallAssumption DEF SignalsTimed, OnPending, OnDelayed,
      sched_call_block, queues
<1>12. Alone'
  BY <1>5, <1>6, ThreadCallAssumption DEF Alone, Actors, OnQueue, OnPending,
      OnDelayed, sched_call_block, queues, flags
<1>13. Owned'
  BY <1>5, ThreadCallAssumption DEF Owned, OnQueue, OnPending, OnDelayed,
      sched_call_block, queues, flags, life
<1>14. Counted'
  <2>1. NumIn(pc', {"blocked"}) = NumIn(pc, {"blocked"}) + 1
    BY <1>3, <1>4
  <2> QED
    BY <1>4, <2>1 DEF Counted, sched_call_block, queues
<1>15. TimerCovers'
  BY <1>5, ThreadCallAssumption DEF TimerCovers, sched_call_block, queues
<1>16. RefsCounted'
  BY <1>6, ExecutingFinite, ThreadCallAssumption DEF RefsCounted,
      sched_call_block, life
<1>17. OutCounted'
  BY <1>6, ExecutingFinite, ThreadCallAssumption DEF OutCounted, OnQueue,
      OnPending, OnDelayed, sched_call_block, queues
<1>18. Waiters'
  BY <1>5, ThreadCallAssumption DEF Waiters, sched_call_block, life
<1>19. Queued'
  BY DEF Queued, sched_call_block, queues
<1> QED
  BY <1>7, <1>8, <1>9, <1>10, <1>11, <1>12, <1>13, <1>14, <1>15, <1>16, <1>17,
      <1>18, <1>19

(* timer_fires: from now on the handler stands for the timer.              *)
LEMMA TimerFiresKeeps ==
    ASSUME CallsInv,
           NEW i \in CPUs,
           timer_fires(i)
    PROVE  CallsInv'
<1> USE DEF CallsInv
<1>1. /\ Positions(pc') /\ pc'[i] = "fired"
      /\ \A x \in Actors \ {i} : pc'[x] = pc[x]
      /\ \A w \in Clients : pc'[w] = pc[w]
  BY ActorMoves DEF Actors, timer_fires
<1>2. (\A S : NumIn(pc', S) = NumIn(pc, S)) /\ Created(pc') = Created(pc)
  BY ActorMoves, ThreadCallAssumption DEF Actors, timer_fires
<1>3. \A d : Executing(d)' = Executing(d)
  BY <1>1 DEF Executing, timer_fires
<1>4. Typed'
  BY <1>1, ThreadCallAssumption DEF Typed, timer_fires, queues, flags, life
<1>5. Roles'
  BY <1>1, ThreadCallAssumption DEF Roles, Actors, flags
<1>6. Held'
  BY <1>1, ThreadCallAssumption DEF Held, ActorPc, timer_fires
<1>7. Locked'
  BY <1>1, ThreadCallAssumption DEF Locked, timer_fires
<1>8. SignalsTimed'
  BY <1>1, ThreadCallAssumption DEF SignalsTimed, OnPending, OnDelayed,
      timer_fires, queues
<1>9. Alone'
  BY <1>1, <1>3, ThreadCallAssumption DEF Alone, OnQueue, OnPending, OnDelayed,
      timer_fires, queues, flags
<1>10. Owned'
  BY <1>1, ThreadCallAssumption DEF Owned, OnQueue, OnPending, OnDelayed,
      timer_fires, queues, flags, life
<1>11. Counted'
  BY <1>2, ThreadCallAssumption DEF Counted, timer_fires, queues, counts
<1>12. TimerCovers'
  BY <1>1, ThreadCallAssumption DEF TimerCovers
<1>13. RefsCounted'
  BY <1>3, ExecutingFinite, ThreadCallAssumption DEF RefsCounted, timer_fires,
      life
<1>14. OutCounted'
  BY <1>3, ExecutingFinite, ThreadCallAssumption DEF OutCounted, OnQueue,
      OnPending, OnDelayed, timer_fires, queues
<1>15. Waiters'
  BY <1>1, ThreadCallAssumption DEF Waiters, timer_fires, life
<1>16. Queued'
  BY DEF Queued, timer_fires, queues
<1> QED
  BY <1>4, <1>5, <1>6, <1>7, <1>8, <1>9, <1>10, <1>11, <1>12, <1>13, <1>14,
      <1>15, <1>16

(* timer_repend: the SIGNAL call that the timer executes again is executed *)
(* by nobody else.                                                         *)
LEMMA TimerRependKeeps ==
    ASSUME CallsInv,
           NEW i \in CPUs,
           timer_repend(i)
    PROVE  CallsInv'
<1> USE DEF CallsInv
<1>1. /\ Positions(pc') /\ pc'[i] = "invoke"
      /\ \A x \in Actors \ {i} : pc'[x] = pc[x]
      /\ \A w \in Clients : pc'[w] = pc[w]
  BY ActorMoves DEF Actors, timer_repend
<1>2. (\A S : NumIn(pc', S) = NumIn(pc, S)) /\ Created(pc') = Created(pc)
  BY ActorMoves, ThreadCallAssumption DEF Actors, timer_repend
<1>3. call[i] \in Calls /\ pc[i] = "repend" /\ lock = None
  BY DEF timer_repend, Held, ActorPc, Actors
<1>4. \A d : Executing(d)' = Executing(d)
  BY <1>1 DEF Executing, timer_repend
<1>5. Typed'
  BY <1>1, <1>3 DEF Typed, timer_repend, queues, life
<1>6. Roles'
  BY <1>1, ThreadCallAssumption DEF Roles, Actors
<1>7. Held'
  BY <1>1, ThreadCallAssumption DEF Held, ActorPc, timer_repend
<1>8. Locked'
  BY <1>1, ThreadCallAssumption DEF Locked, timer_repend
<1>9. SignalsTimed'
  BY <1>1, <1>3 DEF SignalsTimed, OnPending, OnDelayed, timer_repend, queues
<1>10. Alone'
  <2>1. \A d : OnQueue(d)' <=> OnQueue(d)
    BY DEF OnQueue, OnPending, OnDelayed, queues, timer_repend
  <2>2. running'[call[i]] /\ call' = call /\ \A d \in Calls : running[d] => running'[d]
    BY <1>3 DEF timer_repend, Typed
  <2> QED
    BY <1>1, <1>4, <2>1, <2>2, ThreadCallAssumption DEF Alone
<1>11. Owned'
  BY <1>1, ThreadCallAssumption DEF Owned, OnQueue, OnPending, OnDelayed,
      timer_repend, queues, life
<1>12. Counted'
  BY <1>2, ThreadCallAssumption DEF Counted, timer_repend, queues, counts
<1>13. TimerCovers'
  BY <1>1, ThreadCallAssumption DEF TimerCovers
<1>14. RefsCounted'
  BY <1>4, ExecutingFinite, ThreadCallAssumption DEF RefsCounted, timer_repend,
      life
<1>15. OutCounted'
  BY <1>4, ExecutingFinite, ThreadCallAssumption DEF OutCounted, OnQueue,
      OnPending, OnDelayed, timer_repend, queues
<1>16. Waiters'
  BY <1>1, ThreadCallAssumption DEF Waiters, timer_repend, life
<1>17. Queued'
  BY DEF Queued, timer_repend, queues
<1> QED
  BY <1>5, <1>6, <1>7, <1>8, <1>9, <1>10, <1>11, <1>12, <1>13, <1>14, <1>15,
      <1>16, <1>17

(* timer_done: the timer is armed again for the calls that remain.         *)
LEMMA TimerDoneKeeps ==
    ASSUME CallsInv,
           NEW i \in CPUs,
           timer_done(i)
    PROVE  CallsInv'
<1> USE DEF CallsInv
<1>1. /\ Positions(pc') /\ pc'[i] = "idle"
      /\ \A x \in Actors \ {i} : pc'[x] = pc[x]
      /\ \A w \in Clients : pc'[w] = pc[w]
  BY ActorMoves DEF Actors, timer_done
<1>2. (\A S : NumIn(pc', S) = NumIn(pc, S)) /\ Created(pc') = Created(pc)
  BY ActorMoves, ThreadCallAssumption DEF Actors, timer_done
<1>3. \A d : Executing(d)' = Executing(d)
  BY <1>1 DEF Executing, timer_done
<1>4. Typed'
  BY <1>1, ThreadCallAssumption DEF Typed, timer_done, queues, flags, life
<1>5. Roles'
  BY <1>1, ThreadCallAssumption DEF Roles, Actors
<1>6. Held'
  BY <1>1, ThreadCallAssumption DEF Held, ActorPc, timer_done
<1>7. Locked'
  BY <1>1, ThreadCallAssumption DEF Locked, Actors, timer_done
<1>8. SignalsTimed'
  BY <1>1, ThreadCallAssumption DEF SignalsTimed, OnPending, OnDelayed,
      timer_done, queues
<1>9. Alone'
  BY <1>1, <1>3, ThreadCallAssumption DEF Alone, OnQueue, OnPending, OnDelayed,
      timer_done, queues, flags
<1>10. Owned'
  BY <1>1, ThreadCallAssumption DEF Owned, OnQueue, OnPending, OnDelayed,
      timer_done, queues, flags, life
<1>11. Counted'
  BY <1>2, ThreadCallAssumption DEF Counted, timer_done, queues, counts
<1>12. TimerCovers'
  BY <1>1, ThreadCallAssumption DEF TimerCovers, timer_done, queues
<1>13. RefsCounted'
  BY <1>3, ExecutingFinite, ThreadCallAssumption DEF RefsCounted, timer_done,
      life
<1>14. OutCounted'
  BY <1>3, ExecutingFinite, ThreadCallAssumption DEF OutCounted, OnQueue,
      OnPending, OnDelayed, timer_done, queues
<1>15. Waiters'
  BY <1>1, ThreadCallAssumption DEF Waiters, timer_done, life
<1>16. Queued'
  BY DEF Queued, timer_done, queues
<1> QED
  BY <1>4, <1>5, <1>6, <1>7, <1>8, <1>9, <1>10, <1>11, <1>12, <1>13, <1>14,
      <1>15, <1>16

(* rescan_start: no SIGNAL call is delayed.                                *)
LEMMA RescanStartKeeps ==
    ASSUME CallsInv,
           ~ SignalRaces,
           NEW i \in CPUs,
           rescan_start(i)
    PROVE  CallsInv'
<1> USE DEF CallsInv
<1>1. /\ Positions(pc') /\ pc'[i] = "rescan"
      /\ \A x \in Actors \ {i} : pc'[x] = pc[x]
      /\ \A w \in Clients : pc'[w] = pc[w]
  BY ActorMoves DEF Actors, rescan_start
<1>2. (\A S : NumIn(pc', S) = NumIn(pc, S)) /\ Created(pc') = Created(pc)
  BY ActorMoves, ThreadCallAssumption DEF Actors, rescan_start
<1>3. \A d : Executing(d)' = Executing(d)
  BY <1>1 DEF Executing, rescan_start
<1>4. Typed'
  BY <1>1, ThreadCallAssumption DEF Typed, Actors, rescan_start, queues, flags,
      life
<1>5. Roles'
  BY <1>1, ThreadCallAssumption DEF Roles, Actors
<1>6. Held'
  BY <1>1, ThreadCallAssumption DEF Held, ActorPc, rescan_start
<1>7. Locked'
  BY <1>1, ThreadCallAssumption DEF Locked, Actors, rescan_start
<1>8. SignalsTimed'
  BY <1>1, <1>2, ThreadCallAssumption DEF SignalsTimed, OnPending, OnDelayed,
      rescan_start, queues
<1>9. Alone'
  BY <1>1, <1>3, ThreadCallAssumption DEF Alone, OnQueue, OnPending, OnDelayed,
      rescan_start, queues, flags
<1>10. Owned'
  BY <1>1, ThreadCallAssumption DEF Owned, OnQueue, OnPending, OnDelayed,
      rescan_start, queues, flags, life
<1>11. Counted'
  BY <1>2, ThreadCallAssumption DEF Counted, rescan_start, queues, counts
<1>12. TimerCovers'
  BY <1>1, ThreadCallAssumption DEF TimerCovers
<1>13. RefsCounted'
  BY <1>3, ExecutingFinite, ThreadCallAssumption DEF RefsCounted, rescan_start,
      life
<1>14. OutCounted'
  BY <1>3, ExecutingFinite, ThreadCallAssumption DEF OutCounted, OnQueue,
      OnPending, OnDelayed, rescan_start, queues
<1>15. Waiters'
  BY <1>1, ThreadCallAssumption DEF Waiters, rescan_start, life
<1>16. Queued'
  BY DEF Queued, rescan_start, queues
<1> QED
  BY <1>4, <1>5, <1>6, <1>7, <1>8, <1>9, <1>10, <1>11, <1>12, <1>13, <1>14,
      <1>15, <1>16

(* A delayed call becomes pending, in the timer's handler or a rescan.     *)
LEMMA DueKeeps ==
    ASSUME CallsInv, NEW c \in Calls \ Signal, OnDelayed(c),
           pending_call_enqueue(c, pc),
           UNCHANGED <<lock, armed, blocked_count, flags, out, life, call>>
    PROVE  CallsInv'
<1> USE DEF CallsInv
<1>1. alive[c] /\ ~ OnPending(c) /\ OnQueue(c)
  BY DEF Owned, Queued, OnQueue, OnPending, OnDelayed
<1>2. c \in Once => Executing(c) = {}
  BY <1>1 DEF Alone, Executing
<1>3. out' = [out EXCEPT ![c] = IF OnQueue(c) THEN @ ELSE @ + 1]
  BY <1>1 DEF Typed
<1> HIDE DEF CallsInv
<1> QED
  BY <1>1, <1>2, <1>3, PendingKeeps

(* A rescan makes a call that is due pending.                              *)
LEMMA RescanDueKeeps ==
    ASSUME CallsInv, NEW i \in CPUs, rescan_due(i)
    PROVE  CallsInv'
<1>1. PICK c \in expired : pending_call_enqueue(c, pc)
  BY DEF rescan_due
<1>2. OnDelayed(c) /\ c \in Calls \ Signal
  BY DEF CallsInv, Typed, SignalsTimed, OnDelayed, ToSet, rescan_due
<1> QED
  BY <1>1, <1>2, DueKeeps DEF rescan_due

(* rescan_sort: the delayed calls are the same, in another order.          *)
LEMMA RescanSortKeeps ==
    ASSUME CallsInv,
           NEW i \in CPUs,
           rescan_sort(i)
    PROVE  CallsInv'
<1> USE DEF CallsInv
<1>1. /\ Positions(pc') /\ pc'[i] = "idle"
      /\ \A x \in Actors \ {i} : pc'[x] = pc[x]
      /\ \A w \in Clients : pc'[w] = pc[w]
  BY ActorMoves DEF Actors, rescan_sort
<1>2. (\A S : NumIn(pc', S) = NumIn(pc, S)) /\ Created(pc') = Created(pc)
  BY ActorMoves, ThreadCallAssumption DEF Actors, rescan_sort
<1>3. delayed' \in SetToSeqs(ToSet(delayed))
  BY DEF rescan_sort
<1>4. /\ delayed' \in Seq(Calls) /\ Distinct(delayed') /\ ToSet(delayed') = ToSet(delayed)
      /\ delayed' = <<>> <=> delayed = <<>>
  BY <1>3, OrderKeeps, ThreadCallAssumption DEF Typed
<1>5. \A d : Executing(d)' = Executing(d)
  BY <1>1 DEF Executing, rescan_sort
<1>6. /\ armed' = (armed \/ delayed # <<>>) /\ lock' = None /\ pc[i] = "rescan"
      /\ UNCHANGED <<pending, pending_count, expired, counts, flags, out, life, call>>
  BY DEF rescan_sort
<1>7. Typed'
  BY <1>1, <1>4, <1>6, ThreadCallAssumption DEF Typed, flags, life
<1>8. Roles'
  BY <1>1, <1>6, ThreadCallAssumption DEF Roles, Actors
<1>9. Held'
  BY <1>1, <1>6, ThreadCallAssumption DEF Held, ActorPc
<1>10. Locked'
  BY <1>1, <1>6, ThreadCallAssumption DEF Locked, Actors, ActivePc, counts,
      flags, life
<1>11. Queued'
  BY <1>4, <1>6, ThreadCallAssumption DEF Queued
<1>12. SignalsTimed'
  BY <1>1, <1>4, <1>6, ThreadCallAssumption DEF SignalsTimed, OnPending,
      OnDelayed
<1>13. Alone'
  BY <1>1, <1>4, <1>5, <1>6, ThreadCallAssumption DEF Alone, OnQueue,
      OnPending, OnDelayed, flags
<1>14. Owned'
  <2>1. \A d : OnQueue(d)' <=> OnQueue(d)
    BY <1>4, <1>6 DEF OnQueue, OnPending, OnDelayed
  <2> QED
    BY <1>1, <1>6, <2>1 DEF Owned, Actors, flags, life
<1>15. Counted'
  BY <1>2, <1>4, <1>6, ThreadCallAssumption DEF Counted, counts
<1>16. TimerCovers'
  BY <1>1, <1>4, <1>6, ThreadCallAssumption DEF TimerCovers
<1>17. RefsCounted'
  BY <1>5, <1>6, ExecutingFinite, ThreadCallAssumption DEF RefsCounted, life
<1>18. OutCounted'
  BY <1>4, <1>5, <1>6, ExecutingFinite, ThreadCallAssumption DEF OutCounted,
      OnQueue, OnPending, OnDelayed
<1>19. Waiters'
  BY <1>1, <1>6, ThreadCallAssumption DEF Waiters, life
<1> QED
  BY <1>7, <1>8, <1>9, <1>10, <1>11, <1>12, <1>13, <1>14, <1>15, <1>16, <1>17,
      <1>18, <1>19

(* timer_call_due, a SIGNAL call: it is executed in the interrupt.         *)
LEMMA TimerSignalKeeps ==
    ASSUME CallsInv,
           NEW i \in CPUs,
           Head(delayed) \in Signal,
           timer_call_due(i)
    PROVE  CallsInv'
<1> USE DEF CallsInv
<1>1. QueuesOK
  BY DEF QueuesOK, Typed, Queued, Counted
<1>2. pc[i] = "loop" /\ lock = i /\ i \in Actors /\ call[i] \notin Calls
  BY ThreadCallAssumption DEF timer_call_due, Locked, Held, ActorPc, Actors
<1>3. delayed # <<>>
  BY EmptyQueue DEF timer_call_due, Typed
<1>4. PICK c \in Signal : c = Head(delayed)
  OBVIOUS
<1>5. c \in Calls /\ c \in Once
  BY ThreadCallAssumption
<1>6. /\ delayed' = Tail(delayed) /\ expired' = expired \ {c}
      /\ running' = [running EXCEPT ![c] = TRUE] /\ call' = [call EXCEPT ![i] = c]
      /\ pc' = [pc EXCEPT ![i] = "invoke"] /\ lock' = None
      /\ UNCHANGED <<armed, pending, pending_count, counts, resched, wait, out, life>>
  BY <1>4 DEF timer_call_due, counts
<1>7. /\ c \in ToSet(delayed) /\ delayed' \in Seq(Calls) /\ Distinct(delayed')
      /\ ToSet(delayed') = ToSet(delayed) \ {c}
  BY <1>1, <1>3, <1>4, <1>6, TailKeeps DEF QueuesOK
<1>8. QueuesOK'
  BY <1>1, <1>6, <1>7 DEF QueuesOK
<1>9. /\ Positions(pc') /\ pc'[i] = "invoke"
      /\ \A x \in Actors \ {i} : pc'[x] = pc[x]
      /\ \A w \in Clients : pc'[w] = pc[w]
  BY <1>2, <1>6, ActorMoves
<1>10. /\ call'[i] = c /\ call' \in [Clients \union Actors -> Calls \union {None}]
      /\ \A x \in Clients \union Actors : x # i => call'[x] = call[x]
  BY <1>2, <1>5, <1>6 DEF Typed
<1>11. /\ Executing(c)' = Executing(c) \union {i}
      /\ i \notin Executing(c)
  BY <1>2, <1>5, <1>9, <1>10 DEF Executing
<1>12. \A d \in Calls \ {c} : Executing(d)' = Executing(d)
  BY <1>2, <1>9, <1>10 DEF Executing
<1>13. \A w \in Clients : call'[w] = call[w]
  BY <1>10, ThreadCallAssumption
<1>14. \A d : OnQueue(d)' <=> OnQueue(d) /\ d # c
  BY <1>1, <1>6, <1>7 DEF OnQueue, OnPending, OnDelayed, QueuesOK
<1>15. \A x \in Actors \ {i} : call'[x] = call[x] /\ pc'[x] = pc[x]
  BY <1>9, <1>10
<1>16. Typed'
  BY <1>5, <1>6, <1>8, <1>9, <1>10 DEF Typed, QueuesOK, life
<1>17. Roles'
  BY <1>9, ThreadCallAssumption DEF Roles, Actors
<1>18. Held'
  BY <1>2, <1>5, <1>9, <1>10, <1>13 DEF Held, ActorPc
<1>19. Locked'
  BY <1>2, <1>6, <1>9, ThreadCallAssumption DEF Locked, Actors
<1>20. Queued'
  BY <1>8 DEF Queued, QueuesOK
<1>21. SignalsTimed'
  BY <1>2, <1>6, <1>7, <1>9, <1>10, <1>15, ThreadCallAssumption DEF
      SignalsTimed, Locked, Actors, OnPending
<1>22. Alone'
  <2>1. Executing(c) = {}
    BY <1>5, <1>7 DEF Alone, Executing, OnQueue, OnDelayed
  <2>2. running'[c] /\ \A d \in Calls : running[d] => running'[d]
    BY <1>5, <1>6 DEF Typed
  <2> SUFFICES ASSUME NEW a \in Actors, NEW d \in Once, call'[a] = d
               PROVE  /\ a \in Executing(d)' => ~ OnQueue(d)' /\ \A b \in Executing(d)' : a = b
                      /\ pc'[a] \in {"invoke", "blocked"} => running'[d]
    BY DEF Alone
  <2>3. CASE d = c
    BY <1>11, <1>14, <2>1, <2>2, <2>3
  <2>4. CASE d # c
    <3>1. a # i /\ call[a] = d /\ pc'[a] = pc[a] /\ d \in Calls
      BY <1>10, <1>15, <2>4, ThreadCallAssumption
    <3>2. Executing(d)' = Executing(d)
      BY <1>12, <2>4, <3>1
    <3> QED
      BY <1>14, <2>2, <3>1, <3>2 DEF Alone
  <2> QED
    BY <2>3, <2>4
<1>23. Owned'
  BY <1>6, <1>9, <1>14, <1>15 DEF Owned, life
<1>24. Counted'
  <2>1. (\A S : NumIn(pc', S) = NumIn(pc, S)) /\ Created(pc') = Created(pc)
    BY <1>2, <1>6, ActorMoves, ThreadCallAssumption
  <2> QED
    BY <1>6, <2>1 DEF Counted, counts
<1>25. TimerCovers'
  BY <1>9 DEF TimerCovers
<1>26. RefsCounted'
  <2> SUFFICES ASSUME NEW d \in Calls
               PROVE  refs'[d] = (IF alive'[d] THEN 1 ELSE 0) + Cardinality(Executing(d)' \ CPUs)
    BY DEF RefsCounted
  <2>1. /\ refs[d] = (IF alive[d] THEN 1 ELSE 0) + Cardinality(Executing(d) \ CPUs)
        /\ Cardinality(Executing(d) \ CPUs) \in Nat
    BY ExecutingFinite DEF RefsCounted
  <2>2. refs'[d] = refs[d]
    BY <1>6 DEF life
  <2>3. d = c => Cardinality(Executing(d)' \ CPUs) = Cardinality(Executing(d) \ CPUs)
    BY <1>2, <1>5, <1>11
  <2>4. alive'[d] = alive[d] /\ (d # c => Executing(d)' = Executing(d))
    BY <1>6, <1>12 DEF life
  <2> QED
    BY <2>1, <2>2, <2>3, <2>4
<1>27. OutCounted'
  <2> SUFFICES ASSUME NEW d \in Calls
               PROVE  out'[d] = (IF OnQueue(d)' THEN 1 ELSE 0) + Cardinality(Executing(d)')
    BY DEF OutCounted
  <2>1. /\ d = c => Cardinality(Executing(d)') = Cardinality(Executing(d)) + 1
        /\ d # c => Executing(d)' = Executing(d)
    BY <1>2, <1>11, <1>12, Taken
  <2>2. OnQueue(d)' <=> OnQueue(d) /\ d # c
    BY <1>14
  <2>3. out'[d] = out[d] /\ (d = c => OnQueue(d))
    BY <1>6, <1>7 DEF OnQueue, OnDelayed
  <2>4. /\ out[d] = (IF OnQueue(d) THEN 1 ELSE 0) + Cardinality(Executing(d))
        /\ Cardinality(Executing(d)) \in Nat
    BY ExecutingFinite DEF OutCounted
  <2> QED
    BY <2>1, <2>2, <2>3, <2>4
<1>28. Waiters'
  BY <1>6, <1>9, <1>13 DEF Waiters, life
<1> QED
  BY <1>16, <1>17, <1>18, <1>19, <1>20, <1>21, <1>22, <1>23, <1>24, <1>25,
      <1>26, <1>27, <1>28

(* The timer makes a call that is due pending, or executes it.             *)
LEMMA TimerDueKeeps ==
    ASSUME CallsInv, NEW i \in CPUs, timer_call_due(i)
    PROVE  CallsInv'
<1>1. CASE Head(delayed) \in Signal
  BY <1>1, TimerSignalKeeps
<1>2. CASE Head(delayed) \notin Signal
  <2>1. QueuesOK /\ expired # {}
    BY DEF CallsInv, QueuesOK, Typed, Queued, Counted, timer_call_due
  <2>2. delayed # <<>>
    BY <2>1, EmptyQueue DEF QueuesOK
  <2>3. PICK c \in Calls : c = Head(delayed) /\ OnDelayed(c)
    BY <2>1, <2>2, TailKeeps DEF QueuesOK, OnDelayed
  <2>4. /\ pending_call_enqueue(c, pc)
        /\ UNCHANGED <<lock, armed, blocked_count, flags, out, life, call>>
    BY <1>2, <2>3 DEF timer_call_due, flags
  <2> QED
    BY <1>2, <2>3, <2>4, DueKeeps
<1> QED
  BY <1>1, <1>2

(* The daemon: a thread that it is about to create counts as active.       *)
LEMMA DaemonKeeps ==
    ASSUME CallsInv,
           NEW p,
           pc[Daemon] # "create",
           pc' = [pc EXCEPT ![Daemon] = p],
           active_count' = active_count + (IF p = "create" THEN 1 ELSE 0),
           UNCHANGED <<lock, queues, armed, idle_count, blocked_count, flags, out, life, call>>
    PROVE  CallsInv'
<1> USE DEF CallsInv
<1>1. /\ Positions(pc') /\ pc'[Daemon] = p
      /\ \A x \in Clients : pc'[x] = pc[x]
      /\ \A x \in Actors : pc'[x] = pc[x]
  BY ThreadCallAssumption DEF Typed, Positions, Everybody, Actors
<1>2. \A S : NumIn(pc', S) = NumIn(pc, S)
  BY <1>1 DEF NumIn, Actors
<1>3. \A d : Executing(d)' = Executing(d)
  BY <1>1 DEF Executing
<1>4. Typed'
  BY <1>1, ThreadCallAssumption DEF Typed, queues, flags, life
<1>5. Roles'
  BY <1>1, ThreadCallAssumption DEF Roles
<1>6. Held'
  BY <1>1, ThreadCallAssumption DEF Held
<1>7. Locked'
  BY <1>1, ThreadCallAssumption DEF Locked
<1>8. SignalsTimed'
  BY <1>1, ThreadCallAssumption DEF SignalsTimed, OnPending, OnDelayed, queues
<1>9. Alone'
  BY <1>1, <1>3, ThreadCallAssumption DEF Alone, OnQueue, OnPending, OnDelayed,
      queues, flags
<1>10. Owned'
  BY <1>1, ThreadCallAssumption DEF Owned, OnQueue, OnPending, OnDelayed,
      queues, flags, life
<1>11. Counted'
  <2>1. NumIn(pc, ActivePc) \in Nat
    BY NumberType
  <2>2. Created(pc) = 0 /\ Created(pc') = (IF p = "create" THEN 1 ELSE 0)
    BY <1>1 DEF Created
  <2>3. NumIn(pc', ActivePc) = NumIn(pc, ActivePc)
    BY <1>2, Zenon
  <2>4. active_count = NumIn(pc, ActivePc)
    BY <2>1, <2>2 DEF Counted
  <2>5. active_count' = NumIn(pc', ActivePc) + Created(pc')
    BY <2>2, <2>3, <2>4
  <2> QED
    BY <1>2, <2>5 DEF Counted, queues
<1>12. TimerCovers'
  BY <1>1, ThreadCallAssumption DEF TimerCovers, queues
<1>13. RefsCounted'
  BY <1>3, ExecutingFinite, ThreadCallAssumption DEF RefsCounted, life
<1>14. OutCounted'
  BY <1>3, ExecutingFinite, ThreadCallAssumption DEF OutCounted, OnQueue,
      OnPending, OnDelayed, queues
<1>15. Waiters'
  BY <1>1, ThreadCallAssumption DEF Waiters, life
<1>16. Queued'
  BY DEF Queued, queues
<1> QED
  BY <1>4, <1>5, <1>6, <1>7, <1>8, <1>9, <1>10, <1>11, <1>12, <1>13, <1>14,
      <1>15, <1>16

(* The daemon's steps other than the creation of a thread.                 *)
LEMMA DaemonStepsKeep ==
    ASSUME CallsInv, \/ daemon_store \/ daemon_scan \/ daemon_check
                     \/ daemon_assert_wait \/ daemon_recheck
    PROVE  CallsInv'
<1>1. active_count \in Int
  BY NumberType DEF CallsInv, Counted
<1>2. /\ pc[Daemon] # "create"
      /\ UNCHANGED <<lock, queues, armed, idle_count, blocked_count, flags, out, life, call>>
  BY DEF daemon_store, daemon_scan, daemon_check, daemon_assert_wait,
      daemon_recheck, daemon_unchanged
<1>3. PICK p \in {"scan", "create", "check", "store", "assert", "asserted", "blocked"} :
         /\ pc' = [pc EXCEPT ![Daemon] = p]
         /\ active_count' = active_count + (IF p = "create" THEN 1 ELSE 0)
  BY <1>1 DEF daemon_store, daemon_scan, daemon_check, daemon_assert_wait,
      daemon_recheck
<1> QED
  BY <1>2, <1>3, DaemonKeeps

(* daemon_create: the thread that was counted exists.                      *)
LEMMA DaemonCreateKeeps ==
    ASSUME CallsInv,
           daemon_create
    PROVE  CallsInv'
<1> USE DEF CallsInv
<1>1. PICK n \in Workers : pc[n] = "none" /\ pc' = [pc EXCEPT ![n] = "ready", ![Daemon] = "scan"]
  BY DEF daemon_create
<1>2. /\ Positions(pc') /\ pc'[Daemon] = "scan" /\ pc'[n] = "ready"
      /\ \A x \in Clients : pc'[x] = pc[x]
      /\ \A x \in Actors \ {n} : pc'[x] = pc[x]
  BY <1>1, ThreadCallAssumption DEF Typed, Positions, Everybody, Actors
<1>3. pc[n] = "none" /\ n \in Actors /\ n \notin CPUs
  BY <1>1, ThreadCallAssumption DEF Actors
<1>4. \A d : Executing(d)' = Executing(d)
  BY <1>2, <1>3 DEF Executing, daemon_create, daemon_unchanged
<1>5. Typed'
  BY <1>2, ThreadCallAssumption DEF Typed, queues, flags, life, daemon_create,
      daemon_unchanged
<1>6. Roles'
  BY <1>2, ThreadCallAssumption DEF Roles, Actors, ActivePc
<1>7. Held'
  BY <1>2, <1>3 DEF Held, ActorPc, daemon_create, daemon_unchanged
<1>8. Locked'
  BY <1>2, <1>3 DEF Locked, daemon_create, daemon_unchanged
<1>9. SignalsTimed'
  BY <1>2, <1>3 DEF SignalsTimed, Actors, OnPending, OnDelayed, queues,
      daemon_create, daemon_unchanged
<1>10. Alone'
  BY <1>2, <1>3, <1>4 DEF Alone, OnQueue, OnPending, OnDelayed, queues, flags,
      daemon_create, daemon_unchanged
<1>11. Owned'
  BY <1>2, <1>3 DEF Owned, Actors, OnQueue, OnPending, OnDelayed, queues,
      flags, life, daemon_create, daemon_unchanged
<1>12. Counted'
  <2>1. \A x \in Workers \ {n} : pc'[x] = pc[x]
    BY <1>2 DEF Actors
  <2>2. \A S : NumIn(pc', S) = NumIn(pc, S) - Hit(pc[n], S) + Hit(pc'[n], S)
    BY <1>1, <2>1, WorkerMoves
  <2>3. /\ NumIn(pc', {"idle"}) = NumIn(pc, {"idle"})
        /\ NumIn(pc', {"blocked"}) = NumIn(pc, {"blocked"})
        /\ NumIn(pc', ActivePc) = NumIn(pc, ActivePc) + 1
    BY <1>2, <1>3, <2>2, NumberType DEF Hit, ActivePc
  <2>4. Created(pc) = 1 /\ Created(pc') = 0 /\ NumIn(pc, ActivePc) \in Nat
    BY <1>2, NumberType DEF Created, daemon_create
  <2> QED
    BY <2>3, <2>4 DEF Counted, queues, daemon_create, daemon_unchanged
<1>13. TimerCovers'
  BY <1>2, ThreadCallAssumption DEF TimerCovers, Actors, queues, daemon_create,
      daemon_unchanged
<1>14. RefsCounted'
  BY <1>4, ExecutingFinite, ThreadCallAssumption DEF RefsCounted, life,
      daemon_create, daemon_unchanged
<1>15. OutCounted'
  BY <1>4, ExecutingFinite, ThreadCallAssumption DEF OutCounted, OnQueue,
      OnPending, OnDelayed, queues, daemon_create, daemon_unchanged
<1>16. Waiters'
  BY <1>2, ThreadCallAssumption DEF Waiters, life, daemon_create,
      daemon_unchanged
<1>17. Queued'
  BY DEF Queued, queues, daemon_create, daemon_unchanged
<1> QED
  BY <1>5, <1>6, <1>7, <1>8, <1>9, <1>10, <1>11, <1>12, <1>13, <1>14, <1>15,
      <1>16, <1>17

(* thread_call_dealloc_timer: an idle thread terminates.                   *)
LEMMA DeallocKeeps ==
    ASSUME CallsInv,
           thread_call_dealloc_timer
    PROVE  CallsInv'
<1> USE DEF CallsInv
<1>1. \/ pc' = pc /\ idle_count' = idle_count
      \/ /\ idle_count' = idle_count - 1
         /\ \E k \in Workers : pc[k] = "idle" /\ pc' = [pc EXCEPT ![k] = "none"]
  BY DEF thread_call_dealloc_timer
<1>2. /\ Positions(pc')
      /\ \A w \in Clients : pc'[w] = pc[w]
      /\ \A i \in CPUs : pc'[i] = pc[i]
      /\ \A k \in Workers : pc'[k] = pc[k] \/ (pc[k] = "idle" /\ pc'[k] = "none")
  BY <1>1, ThreadCallAssumption DEF Typed, Positions, Everybody, Actors
<1>3. \A d : Executing(d)' = Executing(d)
  BY <1>2 DEF Executing, Actors, thread_call_dealloc_timer
<1>4. Typed'
  BY <1>2, ThreadCallAssumption DEF Typed, queues, flags, life,
      thread_call_dealloc_timer
<1>5. Roles'
  BY <1>2, ThreadCallAssumption DEF Roles
<1>6. Held'
  BY <1>2, ThreadCallAssumption DEF Held, Actors, ActorPc,
      thread_call_dealloc_timer
<1>7. Locked'
  BY <1>2, ThreadCallAssumption DEF Locked, Actors, thread_call_dealloc_timer
<1>8. SignalsTimed'
  BY <1>2, ThreadCallAssumption DEF SignalsTimed, OnPending, OnDelayed, queues,
      thread_call_dealloc_timer
<1>9. Alone'
  BY <1>2, <1>3, ThreadCallAssumption DEF Alone, Actors, OnQueue, OnPending,
      OnDelayed, queues, flags, thread_call_dealloc_timer
<1>10. Owned'
  BY <1>2, ThreadCallAssumption DEF Owned, OnQueue, OnPending, OnDelayed,
      queues, flags, life, thread_call_dealloc_timer
<1>11. Counted'
  <2>1. CASE pc' = pc /\ idle_count' = idle_count
    BY <2>1 DEF Counted, queues, thread_call_dealloc_timer
  <2>2. ASSUME NEW k \in Workers, pc[k] = "idle", pc' = [pc EXCEPT ![k] = "none"],
               idle_count' = idle_count - 1
        PROVE  Counted'
    <3>1. k \in Actors
      BY DEF Actors
    <3>2. /\ \A S : NumIn(pc', S) = NumIn(pc, S) - Hit("idle", S) + Hit("none", S)
          /\ Created(pc') = Created(pc)
      BY <2>2, <3>1, ActorMoves
    <3>3. /\ NumIn(pc', {"idle"}) = NumIn(pc, {"idle"}) - 1
          /\ NumIn(pc', {"blocked"}) = NumIn(pc, {"blocked"})
          /\ NumIn(pc', ActivePc) = NumIn(pc, ActivePc)
      BY <3>2, NumberType DEF Hit, ActivePc
    <3> QED
      BY <2>2, <3>2, <3>3 DEF Counted, queues, thread_call_dealloc_timer
  <2> QED
    BY <1>1, <2>1, <2>2
<1>12. TimerCovers'
  BY <1>2, ThreadCallAssumption DEF TimerCovers, queues,
      thread_call_dealloc_timer
<1>13. RefsCounted'
  BY <1>3, ExecutingFinite, ThreadCallAssumption DEF RefsCounted, life,
      thread_call_dealloc_timer
<1>14. OutCounted'
  BY <1>3, ExecutingFinite, ThreadCallAssumption DEF OutCounted, OnQueue,
      OnPending, OnDelayed, queues, thread_call_dealloc_timer
<1>15. Waiters'
  BY <1>2, ThreadCallAssumption DEF Waiters, life, thread_call_dealloc_timer
<1>16. Queued'
  BY DEF Queued, queues, thread_call_dealloc_timer
<1> QED
  BY <1>4, <1>5, <1>6, <1>7, <1>8, <1>9, <1>10, <1>11, <1>12, <1>13, <1>14,
      <1>15, <1>16

(* adjust_cont_time_thread_calls: the timer is armed for any delayed call. *)
LEMMA AdjustKeeps ==
    ASSUME CallsInv,
           adjust_cont_time_thread_calls
    PROVE  CallsInv'
<1> USE DEF CallsInv
<1>1. TimerCovers'
  BY DEF TimerCovers, adjust_cont_time_thread_calls, queues
<1>2. (Typed /\ Roles /\ Held /\ Locked /\ Queued /\ SignalsTimed)'
  BY DEF Typed, Roles, Held, Locked, Queued, SignalsTimed, OnPending,
      OnDelayed, adjust_cont_time_thread_calls, queues, flags, life
<1>3. (Alone /\ Owned /\ Counted /\ RefsCounted /\ OutCounted /\ Waiters)'
  BY DEF Alone, Owned, Counted, RefsCounted, OutCounted, Waiters, Executing,
      OnQueue, OnPending, OnDelayed, adjust_cont_time_thread_calls, queues,
      counts, flags, life
<1> QED
  BY <1>1, <1>2, <1>3

(* deadline_passes: a delayed call expires.                                *)
LEMMA DeadlineKeeps ==
    ASSUME CallsInv,
           deadline_passes
    PROVE  CallsInv'
<1> USE DEF CallsInv
<1>1. Typed'
  <2>1. expired \subseteq Calls
    BY DEF Typed, ToSet
  <2>2. Cardinality(expired) \in Nat
    BY <2>1, ThreadCallAssumption, FS_Subset, FS_CardinalityType
  <2>3. delayed[Cardinality(expired) + 1] \in ToSet(delayed)
    BY <2>2 DEF deadline_passes, ToSet
  <2>4. expired' \subseteq ToSet(delayed')
    BY <2>3 DEF deadline_passes, Typed
  <2> QED
    BY <2>4 DEF Typed, deadline_passes, flags, life
<1>2. (Roles /\ Held /\ Locked /\ Queued /\ SignalsTimed /\ Alone)'
  BY DEF Roles, Held, Locked, Queued, SignalsTimed, Alone, OnPending,
      OnDelayed, Executing, OnQueue, deadline_passes, flags
<1>3. (Owned /\ Counted /\ TimerCovers /\ RefsCounted /\ OutCounted /\ Waiters)'
  BY DEF Owned, Counted, TimerCovers, RefsCounted, OutCounted, Waiters,
      OnQueue, OnPending, OnDelayed, Executing, deadline_passes, counts, flags,
      life
<1> QED
  BY <1>1, <1>2, <1>3

(* Steps of other components.                                              *)
LEMMA StutterKeeps ==
    ASSUME CallsInv,
           UNCHANGED vars
    PROVE  CallsInv'
<1> USE DEF CallsInv
<1>1. (Typed /\ Roles /\ Held /\ Locked /\ Queued /\ SignalsTimed)'
  BY DEF Typed, Roles, Held, Locked, Queued, SignalsTimed, OnPending,
      OnDelayed, vars, queues, flags, life
<1>2. (Alone /\ Owned /\ Counted /\ TimerCovers /\ RefsCounted /\ OutCounted /\ Waiters)'
  BY DEF Alone, Owned, Counted, TimerCovers, RefsCounted, OutCounted, Waiters,
      Executing, OnQueue, OnPending, OnDelayed, vars, queues, counts, flags,
      life
<1> QED
  BY <1>1, <1>2

(* finish_wakeup: a client that waited for a call which is not its own any *)
(* more was freeing it, and returns.                                       *)
LEMMA WakeupKeeps ==
    ASSUME CallsInv,
           NEW a \in Actors,
           finish_wakeup(a)
    PROVE  CallsInv'
<1> USE DEF CallsInv
<1>1. /\ pc[a] \in {"wake", "wake_repend"} /\ (a \in Workers => pc[a] = "wake")
      /\ call[a] \in Calls
  BY DEF finish_wakeup, Roles, Held, ActivePc, ActorPc
<1>2. /\ Positions(pc') /\ pc'[a] = (IF pc[a] = "wake" THEN "relock" ELSE "repend")
      /\ pc'[Daemon] = pc[Daemon]
      /\ \A x \in Actors \ {a} : pc'[x] = pc[x]
  BY ThreadCallAssumption DEF finish_wakeup, Typed, Positions, Everybody,
      Actors
<1>3. /\ call' \in [Clients \union Actors -> Calls \union {None}]
      /\ call'[a] = (IF pc[a] = "wake" THEN None ELSE call[a])
      /\ \A x \in Actors \ {a} : call'[x] = call[x]
  BY ThreadCallAssumption DEF finish_wakeup, Typed, Actors
<1>4. \A w \in Clients :
      \/ pc'[w] = pc[w] /\ call'[w] = call[w]
      \/ pc[w] = "wait" /\ pc'[w] = "recheck" /\ call'[w] = call[w]
      \/ pc'[w] = "idle" /\ call'[w] = None
  BY ThreadCallAssumption DEF finish_wakeup, Typed, Positions, Everybody,
      Actors
<1>5. \A d \in Calls : Executing(d)' = Executing(d)
  BY <1>1, <1>2, <1>3, ThreadCallAssumption DEF Executing
<1>6. /\ freed' \in [Calls -> BOOLEAN]
      /\ \A d \in Calls : freed'[d] => freed[d] \/ refs[d] = 0
  BY <1>1 DEF finish_wakeup, Typed
<1>7. UNCHANGED <<lock, queues, armed, counts, flags, out, refs, alive>>
  BY DEF finish_wakeup
<1>8. Typed'
  BY <1>2, <1>3, <1>6, <1>7 DEF Typed, queues, flags
<1>9. Roles'
  BY <1>1, <1>2, <1>4, ThreadCallAssumption DEF Roles, Actors, ActivePc
<1>10. Held'
  BY <1>1, <1>2, <1>3, <1>4, ThreadCallAssumption DEF Held, ActorPc
<1>11. Locked'
  BY <1>1, <1>2, <1>7 DEF Locked
<1>12. SignalsTimed'
  BY <1>1, <1>2, <1>3, <1>7, ThreadCallAssumption DEF SignalsTimed, Actors,
      OnPending, OnDelayed, queues
<1>13. Alone'
  <2>1. \A d : OnQueue(d)' <=> OnQueue(d)
    BY <1>7 DEF OnQueue, OnPending, OnDelayed, queues
  <2>2. \A x \in Actors : /\ call'[x] \in Once => call'[x] = call[x]
                          /\ pc'[x] \in {"invoke", "blocked"} => pc'[x] = pc[x]
    BY <1>2, <1>3, ThreadCallAssumption
  <2> QED
    BY <1>5, <1>7, <2>1, <2>2, ThreadCallAssumption DEF Alone, flags
<1>14. Owned'
  <2>1. \A d : OnQueue(d)' <=> OnQueue(d)
    BY <1>7 DEF OnQueue, OnPending, OnDelayed, queues
  <2>2. \A d \in Calls : freed'[d] => ~ alive'[d]
    <3> SUFFICES ASSUME NEW d \in Calls, refs[d] = 0 PROVE ~ alive[d]
      BY <1>6, <1>7 DEF Owned
    <3>1. /\ refs[d] = (IF alive[d] THEN 1 ELSE 0) + Cardinality(Executing(d) \ CPUs)
          /\ Cardinality(Executing(d) \ CPUs) \in Nat
      BY ExecutingFinite DEF RefsCounted
    <3> QED
      BY <3>1
  <2>3. \A i \in CPUs : pc'[i] \in {"wake_repend", "repend"} => alive'[call'[i]]
    BY <1>1, <1>2, <1>3, <1>7 DEF Owned, Actors
  <2> QED
    BY <1>7, <2>1, <2>2, <2>3 DEF Owned, flags
<1>15. Counted'
  <2>1. /\ \A k \in Workers : pc'[k] \in {"idle"} <=> pc[k] \in {"idle"}
        /\ \A k \in Workers : pc'[k] \in {"blocked"} <=> pc[k] \in {"blocked"}
        /\ \A k \in Workers : pc'[k] \in ActivePc <=> pc[k] \in ActivePc
    BY <1>1, <1>2 DEF Actors, ActivePc
  <2>2. /\ NumIn(pc', {"idle"}) = NumIn(pc, {"idle"})
        /\ NumIn(pc', {"blocked"}) = NumIn(pc, {"blocked"})
        /\ NumIn(pc', ActivePc) = NumIn(pc, ActivePc)
    BY <2>1, NobodyMoves
  <2> QED
    BY <1>2, <1>7, <2>2 DEF Counted, Created, queues, counts
<1>16. TimerCovers'
  BY <1>1, <1>2, <1>7 DEF TimerCovers, Actors, queues
<1>17. RefsCounted'
  BY <1>5, <1>7 DEF RefsCounted
<1>18. OutCounted'
  <2>1. \A d : OnQueue(d)' <=> OnQueue(d)
    BY <1>7 DEF OnQueue, OnPending, OnDelayed, queues
  <2> QED
    BY <1>5, <1>7, <2>1 DEF OutCounted
<1>19. Waiters'
  BY <1>4, <1>7, ThreadCallAssumption DEF Waiters
<1>20. Queued'
  BY <1>7 DEF Queued, queues
<1> QED
  BY <1>8, <1>9, <1>10, <1>11, <1>12, <1>13, <1>14, <1>15, <1>16, <1>17, <1>18,
      <1>19, <1>20

(* The function of c has returned to a, which wakes up waiters or goes on  *)
(* in its loop; c was submitted again and has been queued, or not.         *)
LEMMA ReturnKeeps ==
    ASSUME CallsInv,
           NEW a \in Actors,
           NEW c \in Calls,
           NEW p \in {"wake", "loop"},
           NEW requeued \in BOOLEAN,
           call[a] = c,
           pc[a] = "invoke",
           lock = None,
           resched' = [resched EXCEPT ![c] = "no"],
           wait' = [wait EXCEPT ![c] = FALSE],
           requeued => c \in Once /\ alive[c],
           Positions(pc'),
           pc'[a] = p,
           \A k \in Workers \ {a} : pc'[k] = pc[k] \/ (pc[k] = "idle" /\ pc'[k] = "ready"),
           \A i \in CPUs \ {a} : pc'[i] = pc[i],
           \A w \in Clients : pc'[w] = pc[w],
           Counted',
           TimerCovers',
           QueuesOK',
           \A s \in Signal : ~ OnPending(s)',
           \A d : OnQueue(d)' <=> OnQueue(d) \/ (requeued /\ d = c),
           running' = [running EXCEPT ![c] = FALSE],
           refs' = [refs EXCEPT ![c] = IF c \in Signal THEN @ ELSE @ - 1],
           freed' = [freed EXCEPT ![c] = @ \/ (c \notin Signal /\ refs'[c] = 0)],
           out' = [out EXCEPT ![c] = IF requeued THEN @ ELSE @ - 1],
           lock' = IF p = "loop" THEN a ELSE None,
           call' = [call EXCEPT ![a] = IF p = "loop" THEN None ELSE c],
           alive' = alive
    PROVE  CallsInv'
<1> USE DEF CallsInv
<1>1. /\ a \in Executing(c) /\ (a \in CPUs <=> c \in Signal) /\ (a \in Workers <=> c \notin Signal)
  BY ThreadCallAssumption DEF Executing, SignalsTimed, Actors
<1>2. /\ call' \in [Clients \union Actors -> Calls \union {None}]
      /\ call'[a] = (IF p = "loop" THEN None ELSE c)
      /\ \A x \in Actors \ {a} : call'[x] = call[x]
      /\ \A w \in Clients : call'[w] = call[w]
  BY ThreadCallAssumption DEF Typed
<1>3. \A d \in Calls : Executing(d)' = IF d = c THEN Executing(d) \ {a} ELSE Executing(d)
  BY <1>1, <1>2, ThreadCallAssumption DEF Executing, Actors
<1>4. /\ refs[c] = (IF alive[c] THEN 1 ELSE 0) + Cardinality(Executing(c) \ CPUs)
      /\ Cardinality(Executing(c) \ CPUs) \in Nat
      /\ a \in Workers => Cardinality(Executing(c) \ CPUs) >= 1
  <2>1. /\ refs[c] = (IF alive[c] THEN 1 ELSE 0) + Cardinality(Executing(c) \ CPUs)
        /\ Cardinality(Executing(c) \ CPUs) \in Nat
    BY ExecutingFinite DEF RefsCounted
  <2>2. a \in Workers => Executing(c) \ CPUs # {}
    BY <1>1, ThreadCallAssumption
  <2>3. a \in Workers => Cardinality(Executing(c) \ CPUs) # 0
    BY <2>2, ExecutingFinite, FS_EmptySet
  <2> QED
    BY <2>1, <2>3
<1>5. \A i \in CPUs : pc[i] # "rescan"
  BY ThreadCallAssumption DEF Locked, Actors
<1>6. /\ resched' \in [Calls -> {"no", "now", "later"}] /\ wait' \in [Calls -> BOOLEAN]
      /\ running' \in [Calls -> BOOLEAN] /\ refs' \in [Calls -> Int] /\ out' \in [Calls -> Int]
      /\ freed' \in [Calls -> BOOLEAN]
  BY DEF Typed
<1>7. Typed'
  BY <1>2, <1>6 DEF Typed, QueuesOK
<1>8. Roles'
  BY ThreadCallAssumption DEF Roles, ActivePc
<1>9. Held'
  BY <1>2, ThreadCallAssumption DEF Held, Actors, ActorPc
<1>10. Locked'
  BY ThreadCallAssumption DEF Locked, Actors
<1>11. Queued'
  BY DEF Queued, QueuesOK
<1>12. SignalsTimed'
  BY <1>1, <1>2, <1>5, ThreadCallAssumption DEF SignalsTimed
<1>13. Alone'
  <2> SUFFICES ASSUME NEW b \in Actors, NEW d \in Once, call'[b] = d
               PROVE  /\ b \in Executing(d)' => ~ OnQueue(d)' /\ \A e \in Executing(d)' : b = e
                      /\ pc'[b] \in {"invoke", "blocked"} => running'[d]
    BY DEF Alone
  <2>1. d \in Calls
    BY ThreadCallAssumption
  <2>2. CASE d = c
    <3>1. \A e \in Executing(c) : e = a
      BY <1>1, <2>2 DEF Alone
    <3>2. Executing(d)' = {}
      BY <1>3, <2>1, <2>2, <3>1
    <3>3. pc'[b] \notin {"invoke", "blocked"}
      BY <2>2, <3>2 DEF Executing
    <3> QED
      BY <3>2, <3>3
  <2>3. CASE d # c
    <3>1. b # a /\ call[b] = d
      BY <1>2, <2>1, <2>3, ThreadCallAssumption
    <3>2. Executing(d)' = Executing(d) /\ running'[d] = running[d]
      BY <1>3, <2>1, <2>3
    <3>3. pc'[b] \in {"invoke", "blocked"} => pc'[b] = pc[b]
      BY <3>1 DEF Actors
    <3> QED
      BY <2>3, <3>1, <3>2, <3>3 DEF Alone
  <2> QED
    BY <2>2, <2>3
<1>14. Owned'
  <2>1. \A d \in Calls : freed'[d] => ~ alive'[d]
    <3> SUFFICES ASSUME c \notin Signal, refs'[c] = 0 PROVE ~ alive[c]
      BY DEF Owned, Typed
    <3>1. refs'[c] = refs[c] - 1
      BY DEF Typed
    <3> QED
      BY <1>1, <1>4, <3>1
  <2>2. \A d \in Calls : resched'[d] # "no" => resched'[d] = resched[d]
    BY DEF Typed
  <2>3. \A d \in Calls : ~ alive'[d] => ~ OnQueue(d)' /\ resched'[d] = "no"
    BY <1>6, <2>2 DEF Owned
  <2>4. \A i \in CPUs : pc'[i] \in {"wake_repend", "repend"} => alive'[call'[i]]
    BY <1>2 DEF Owned
  <2> QED
    BY <2>1, <2>2, <2>3, <2>4 DEF Owned
<1>15. Counted'
  OBVIOUS
<1>16. TimerCovers'
  OBVIOUS
<1>17. RefsCounted'
  <2> SUFFICES ASSUME NEW d \in Calls
               PROVE  refs'[d] = (IF alive'[d] THEN 1 ELSE 0) + Cardinality(Executing(d)' \ CPUs)
    BY DEF RefsCounted
  <2>1. CASE d # c
    BY <1>3, <2>1 DEF RefsCounted
  <2>2. CASE d = c
    <3>1. refs'[c] = IF c \in Signal THEN refs[c] ELSE refs[c] - 1
      BY DEF Typed
    <3>2. Executing(c)' = Executing(c) \ {a}
      BY <1>3
    <3>3. Cardinality(Executing(c)' \ CPUs) =
             Cardinality(Executing(c) \ CPUs) - (IF a \in CPUs THEN 0 ELSE 1)
      BY <1>1, <3>2, Returned
    <3> QED
      BY <1>1, <1>4, <2>2, <3>1, <3>3
  <2> QED
    BY <2>1, <2>2
<1>18. OutCounted'
  <2> SUFFICES ASSUME NEW d \in Calls
               PROVE  out'[d] = (IF OnQueue(d)' THEN 1 ELSE 0) + Cardinality(Executing(d)')
    BY DEF OutCounted
  <2>1. CASE d # c
    BY <1>3, <2>1 DEF OutCounted
  <2>2. CASE d = c
    <3>1. out'[c] = IF requeued THEN out[c] ELSE out[c] - 1
      BY DEF Typed
    <3>2. Executing(c)' = Executing(c) \ {a}
      BY <1>3
    <3>3. /\ Cardinality(Executing(c)') = Cardinality(Executing(c)) - 1
          /\ Cardinality(Executing(c)) \in Nat
      BY <1>1, <3>2, Returned, ExecutingFinite
    <3>4. requeued => ~ OnQueue(c)
      BY <1>1 DEF Alone
    <3>5. out[c] = (IF OnQueue(c) THEN 1 ELSE 0) + Cardinality(Executing(c))
      BY DEF OutCounted
    <3>6. OnQueue(c)' <=> OnQueue(c) \/ requeued
      OBVIOUS
    <3> QED
      BY <2>2, <3>1, <3>3, <3>4, <3>5, <3>6
  <2> QED
    BY <2>1, <2>2
<1>19. Waiters'
  BY <1>2 DEF Waiters
<1> QED
  BY <1>7, <1>8, <1>9, <1>10, <1>11, <1>12, <1>13, <1>14, <1>15, <1>16, <1>17,
      <1>18, <1>19

(* The positions after a, whose function has returned, has gone on to p.   *)
LEMMA ReturnPositions ==
    ASSUME Typed, Counted, NEW a \in Actors, pc[a] = "invoke",
           NEW p \in {"wake", "loop"}, NEW f,
           f[a] = p, \A x \in Everybody \ {a} : f[x] = pc[x]
    PROVE  /\ idle_count = NumIn(f, {"idle"})
           /\ blocked_count = NumIn(f, {"blocked"})
           /\ active_count = NumIn(f, ActivePc) + Created(f)
<1>1. f[Daemon] = pc[Daemon]
  BY ThreadCallAssumption DEF Everybody, Actors
<1>2. /\ \A k \in Workers : f[k] \in {"idle"} <=> pc[k] \in {"idle"}
      /\ \A k \in Workers : f[k] \in {"blocked"} <=> pc[k] \in {"blocked"}
      /\ \A k \in Workers : f[k] \in ActivePc <=> pc[k] \in ActivePc
  BY DEF Everybody, Actors, ActivePc
<1>3. /\ NumIn(f, {"idle"}) = NumIn(pc, {"idle"})
      /\ NumIn(f, {"blocked"}) = NumIn(pc, {"blocked"})
      /\ NumIn(f, ActivePc) = NumIn(pc, ActivePc)
  BY <1>2, NobodyMoves
<1> QED
  BY <1>1, <1>3 DEF Counted, Created

(* A SIGNAL call that was submitted while it executed is executed again by *)
(* the timer, at once or after the wakeup of those who waited for it.      *)
LEMMA RependKeeps ==
    ASSUME CallsInv, NEW a \in Actors, NEW c \in Signal, call[a] = c,
           pc[a] = "invoke", lock = None, alive[c],
           resched' = [resched EXCEPT ![c] = "no"],
           wait' = [wait EXCEPT ![c] = FALSE],
           running' = [running EXCEPT ![c] = ~ wait[c]],
           pc' = [pc EXCEPT ![a] = IF wait[c] THEN "wake_repend" ELSE "invoke"],
           UNCHANGED <<lock, queues, armed, counts, out, refs, alive, freed, call>>
    PROVE  CallsInv'
<1> USE DEF CallsInv
<1>1. /\ a \in CPUs /\ a \notin Workers /\ c \in Once /\ c \in Calls /\ a \in Executing(c)
  BY ThreadCallAssumption DEF Executing, SignalsTimed, Actors
<1>2. /\ Positions(pc') /\ pc'[a] = IF wait[c] THEN "wake_repend" ELSE "invoke"
      /\ \A x \in Everybody \ {a} : pc'[x] = pc[x]
  BY DEF Typed, Positions, Everybody
<1>3. /\ \A k \in Workers : pc'[k] = pc[k]
      /\ \A i \in CPUs \ {a} : pc'[i] = pc[i]
      /\ \A w \in Clients : pc'[w] = pc[w]
      /\ pc'[Daemon] = pc[Daemon]
  BY <1>1, <1>2, ThreadCallAssumption
<1>4. \A d : Executing(d)' = Executing(d)
  BY <1>2, <1>3 DEF Executing
<1>5. \A d : /\ (OnPending(d)' <=> OnPending(d)) /\ (OnDelayed(d)' <=> OnDelayed(d))
             /\ (OnQueue(d)' <=> OnQueue(d))
  BY DEF OnQueue, OnPending, OnDelayed, queues
<1>6. /\ resched' \in [Calls -> {"no", "now", "later"}] /\ wait' \in [Calls -> BOOLEAN]
      /\ running' \in [Calls -> BOOLEAN]
  BY DEF Typed
<1>7. Typed'
  BY <1>2, <1>6 DEF Typed, queues
<1>8. Roles'
  BY <1>1, <1>2, <1>3 DEF Roles
<1>9. Held'
  BY <1>1, <1>2, <1>3 DEF Held, ActorPc
<1>10. Locked'
  BY <1>1, <1>2, <1>3 DEF Locked
<1>11. Queued'
  BY DEF Queued, queues
<1>12. SignalsTimed'
  BY <1>1, <1>2, <1>3, <1>5 DEF SignalsTimed
<1>13. Alone'
  <2>1. \A d \in Calls \ {c} : running'[d] = running[d]
    BY DEF Typed
  <2>2. running'[c] <=> ~ wait[c]
    BY <1>1 DEF Typed
  <2>3. \A b \in Actors \ {a} : call[b] = c => b \notin Executing(c)
    BY <1>1 DEF Alone
  <2>4. \A b \in Actors, d \in Once : call'[b] = d /\ pc'[b] \in {"invoke", "blocked"} => running'[d]
    <3> SUFFICES ASSUME NEW b \in Actors, NEW d \in Once, call[b] = d,
                        pc'[b] \in {"invoke", "blocked"}
                 PROVE  running'[d]
      OBVIOUS
    <3>1. CASE b = a
      BY <1>2, <2>2, <3>1
    <3>2. CASE b # a
      <4>1. pc'[b] = pc[b]
        BY <1>3, <3>2
      <4>2. d # c
        BY <2>3, <3>2, <4>1 DEF Executing
      <4> QED
        BY <2>1, <4>1, <4>2, ThreadCallAssumption DEF Alone
    <3> QED
      BY <3>1, <3>2
  <2> QED
    BY <1>4, <1>5, <2>4 DEF Alone
<1>14. Owned'
  <2>1. \A d \in Calls : resched'[d] = IF d = c THEN "no" ELSE resched[d]
    BY DEF Typed
  <2> QED
    BY <1>1, <1>2, <1>3, <1>5, <2>1 DEF Owned
<1>15. Counted'
  <2>1. \A S : NumIn(pc', S) = NumIn(pc, S)
    BY <1>3 DEF NumIn
  <2>2. Created(pc') = Created(pc)
    BY <1>3 DEF Created
  <2> QED
    BY <2>1, <2>2 DEF Counted, queues, counts
<1>16. TimerCovers'
  BY <1>1, <1>2 DEF TimerCovers
<1>17. RefsCounted'
  BY <1>4 DEF RefsCounted
<1>18. OutCounted'
  BY <1>4, <1>5 DEF OutCounted
<1>19. Waiters'
  BY <1>3 DEF Waiters
<1> QED
  BY <1>7, <1>8, <1>9, <1>10, <1>11, <1>12, <1>13, <1>14, <1>15, <1>16, <1>17,
      <1>18, <1>19

(* thread_call_finish knows no owner that keeps a call and yet has no      *)
(* reference: what was submitted during an execution is always done.       *)
LEMMA ResubmittedIfAsked ==
    ASSUME CallsInv, NEW a \in Actors, NEW c \in Calls, call[a] = c, pc[a] = "invoke",
           resched[c] # "no"
    PROVE  /\ c \in Once /\ alive[c] /\ ~ OnQueue(c)
           /\ resubmitted(c, IF c \in Signal THEN refs[c] ELSE refs[c] - 1)
<1> USE DEF CallsInv
<1>1. a \in Executing(c) /\ (c \notin Signal => a \in Executing(c) \ CPUs)
  BY ThreadCallAssumption DEF Executing, SignalsTimed
<1>2. c \in Once /\ alive[c]
  BY DEF Owned
<1>3. ~ OnQueue(c)
  BY <1>1, <1>2 DEF Alone
<1>4. /\ refs[c] = 1 + Cardinality(Executing(c) \ CPUs)
      /\ Cardinality(Executing(c) \ CPUs) \in Nat
  BY <1>2, ExecutingFinite DEF RefsCounted
<1>5. c \notin Signal => Cardinality(Executing(c) \ CPUs) # 0
  BY <1>1, ExecutingFinite, FS_EmptySet
<1>6. (IF c \in Signal THEN refs[c] ELSE refs[c] - 1) # 0
  BY <1>4, <1>5
<1> QED
  BY <1>2, <1>3, <1>6 DEF resubmitted

(* thread_call_finish, by what becomes of the call.                        *)
LEMMA FinishKeeps ==
    ASSUME CallsInv, NEW a \in Actors, thread_call_finish(a)
    PROVE  CallsInv'
<1> USE DEF CallsInv
<1>1. pc[a] = "invoke" /\ lock = None
  BY DEF thread_call_finish
<1>2. PICK c \in Calls : call[a] = c
  BY <1>1 DEF Held, ActorPc
<1>3. (a \in CPUs <=> c \in Signal) /\ (a \in Workers <=> c \notin Signal)
  BY <1>2, ThreadCallAssumption DEF SignalsTimed, Actors
<1>4. PICK p \in {"wake", "loop"} : p = IF wait[c] THEN "wake" ELSE "loop"
  OBVIOUS
<1>5. PICK f : f = [pc EXCEPT ![a] = p]
  OBVIOUS
<1>6. /\ resched' = [resched EXCEPT ![c] = "no"]
      /\ wait' = [wait EXCEPT ![c] = FALSE]
      /\ refs' = [refs EXCEPT ![c] = IF c \in Signal THEN @ ELSE @ - 1]
      /\ freed' = [freed EXCEPT ![c] = @ \/ (c \notin Signal /\ refs'[c] = 0)]
      /\ lock' = IF pc'[a] = "loop" THEN a ELSE None
      /\ call' = [call EXCEPT ![a] = IF pc'[a] = "loop" THEN None ELSE c]
      /\ alive' = alive /\ blocked_count' = blocked_count
  BY <1>2 DEF thread_call_finish, Typed
<1>7. \/ /\ ~ resubmitted(c, IF c \in Signal THEN refs[c] ELSE refs[c] - 1)
         /\ running' = [running EXCEPT ![c] = FALSE]
         /\ out' = [out EXCEPT ![c] = @ - 1]
         /\ pc' = f
         /\ UNCHANGED <<queues, armed, active_count, idle_count>>
      \/ /\ resched[c] # "no"
         /\ running' = [running EXCEPT ![c] = FALSE]
         /\ delayed_call_enqueue(c)
         /\ c \in Signal \/ arm_delayed_call_timer(c)
         /\ pc' = f
         /\ UNCHANGED <<out, active_count, idle_count>>
      \/ /\ resched[c] # "no" /\ c \notin Signal
         /\ running' = [running EXCEPT ![c] = FALSE]
         /\ pending_call_enqueue(c, f)
         /\ UNCHANGED <<out, armed>>
      \/ /\ resched[c] # "no" /\ c \in Signal
         /\ running' = [running EXCEPT ![c] = ~ wait[c]]
         /\ pc' = [pc EXCEPT ![a] = IF wait[c] THEN "wake_repend" ELSE "invoke"]
         /\ UNCHANGED <<queues, out, armed, active_count, idle_count>>
  BY <1>2, <1>3, <1>4, <1>5 DEF thread_call_finish, resubmitted
<1>8. /\ Positions(f) /\ f[a] = p
      /\ \A x \in Everybody \ {a} : f[x] = pc[x]
      /\ idle_count = NumIn(f, {"idle"})
      /\ blocked_count = NumIn(f, {"blocked"})
      /\ active_count = NumIn(f, ActivePc) + Created(f)
  <2>1. /\ Positions(f) /\ f[a] = p
        /\ \A x \in Everybody \ {a} : f[x] = pc[x]
    BY <1>5 DEF Typed, Positions, Everybody
  <2> QED
    BY <1>1, <1>4, <2>1, ReturnPositions
<1>9. QueuesOK
  BY DEF QueuesOK, Typed, Queued, Counted
<1>10. resched[c] # "no" => c \in Once /\ alive[c] /\ ~ OnQueue(c)
  BY <1>1, <1>2, ResubmittedIfAsked
<1>11. a \in Everybody /\ a # Daemon /\ a \notin Clients
  BY ThreadCallAssumption DEF Everybody, Actors
<1>12. /\ \A k \in Workers \ {a} : f[k] = pc[k]
       /\ \A i \in CPUs \ {a} : f[i] = pc[i]
       /\ \A w \in Clients : f[w] = pc[w]
  BY <1>8, <1>11 DEF Everybody, Actors
<1>13. \A i \in CPUs : f[i] = "idle" => pc[i] = "idle"
  BY <1>1, <1>8, <1>12
<1>14. a \in CPUs => f[a] # "idle"
  BY <1>4, <1>8
<1>15. CASE /\ running' = [running EXCEPT ![c] = FALSE]
            /\ out' = [out EXCEPT ![c] = @ - 1]
            /\ pc' = f
            /\ UNCHANGED <<queues, armed, active_count, idle_count>>
  <2>1. QueuesOK'
    BY <1>9, <1>15 DEF QueuesOK, queues
  <2>2. \A d : OnQueue(d)' <=> OnQueue(d) \/ (FALSE /\ d = c)
    BY <1>15 DEF OnQueue, OnPending, OnDelayed, queues
  <2>3. \A s \in Signal : ~ OnPending(s)'
    BY <1>15 DEF SignalsTimed, OnPending, queues
  <2>4. Counted'
    BY <1>6, <1>8, <1>15, <2>1 DEF Counted, QueuesOK
  <2>5. TimerCovers'
    BY <1>13, <1>15 DEF TimerCovers, queues
  <2>6. out' = [out EXCEPT ![c] = IF FALSE THEN @ ELSE @ - 1]
    BY <1>15
  <2>7. Positions(pc') /\ pc'[a] = p
    BY <1>8, <1>15
  <2>8. /\ \A k \in Workers \ {a} : pc'[k] = pc[k] \/ (pc[k] = "idle" /\ pc'[k] = "ready")
        /\ \A i \in CPUs \ {a} : pc'[i] = pc[i]
        /\ \A w \in Clients : pc'[w] = pc[w]
    BY <1>12, <1>15
  <2>9. /\ lock' = (IF p = "loop" THEN a ELSE None)
        /\ call' = [call EXCEPT ![a] = IF p = "loop" THEN None ELSE c]
    BY <1>6, <2>7
  <2> QED
    BY <1>1, <1>2, <1>4, <1>6, <1>15, <2>1, <2>2, <2>3, <2>4, <2>5, <2>6, <2>7,
        <2>8, <2>9, ReturnKeeps
<1>16. CASE /\ resched[c] # "no"
            /\ running' = [running EXCEPT ![c] = FALSE]
            /\ delayed_call_enqueue(c)
            /\ c \in Signal \/ arm_delayed_call_timer(c)
            /\ pc' = f
            /\ UNCHANGED <<out, active_count, idle_count>>
  <2>1. /\ QueuesOK'
        /\ ToSet(pending') = ToSet(pending) \ {c}
        /\ ToSet(delayed') = ToSet(delayed) \union {c}
        /\ delayed' # <<>> /\ (delayed = <<>> => Head(delayed') = c)
    BY <1>9, <1>16, DelayedEnqueued
  <2>2. \A d : OnQueue(d)' <=> OnQueue(d) \/ (TRUE /\ d = c)
    BY <2>1 DEF OnQueue, OnPending, OnDelayed
  <2>3. \A s \in Signal : ~ OnPending(s)'
    BY <2>1 DEF SignalsTimed, OnPending
  <2>4. Counted'
    BY <1>6, <1>8, <1>16, <2>1 DEF Counted, QueuesOK
  <2>5. TimerCovers'
    BY <1>3, <1>13, <1>14, <1>16, <2>1 DEF TimerCovers, arm_delayed_call_timer
  <2>6. out' = [out EXCEPT ![c] = IF TRUE THEN @ ELSE @ - 1]
    BY <1>16 DEF Typed
  <2>7. Positions(pc') /\ pc'[a] = p
    BY <1>8, <1>16
  <2>8. /\ \A k \in Workers \ {a} : pc'[k] = pc[k] \/ (pc[k] = "idle" /\ pc'[k] = "ready")
        /\ \A i \in CPUs \ {a} : pc'[i] = pc[i]
        /\ \A w \in Clients : pc'[w] = pc[w]
    BY <1>12, <1>16
  <2>9. /\ lock' = (IF p = "loop" THEN a ELSE None)
        /\ call' = [call EXCEPT ![a] = IF p = "loop" THEN None ELSE c]
    BY <1>6, <2>7
  <2>10. running' = [running EXCEPT ![c] = FALSE] /\ c \in Once /\ alive[c]
    BY <1>10, <1>16
  <2> QED
    BY <1>1, <1>2, <1>4, <1>6, <2>1, <2>2, <2>3, <2>4, <2>5, <2>6, <2>7, <2>8,
        <2>9, <2>10, ReturnKeeps
<1>17. CASE /\ resched[c] # "no" /\ c \notin Signal
            /\ running' = [running EXCEPT ![c] = FALSE]
            /\ pending_call_enqueue(c, f)
            /\ UNCHANGED <<out, armed>>
  <2>1. /\ QueuesOK'
        /\ ToSet(pending') = ToSet(pending) \union {c}
        /\ ToSet(delayed') = ToSet(delayed) \ {c}
    BY <1>9, <1>10, <1>17, PendingEnqueued DEF pending_call_enqueue, OnQueue
  <2>2. \A d : OnQueue(d)' <=> OnQueue(d) \/ (TRUE /\ d = c)
    BY <2>1 DEF OnQueue, OnPending, OnDelayed
  <2>3. \A s \in Signal : ~ OnPending(s)'
    BY <1>17, <2>1 DEF SignalsTimed, OnPending
  <2>4. /\ Positions(pc')
        /\ \A x \in Everybody :
              \/ pc'[x] = f[x]
              \/ x \in Workers /\ f[x] = "idle" /\ pc'[x] = "ready"
              \/ x = Daemon
        /\ idle_count' = NumIn(pc', {"idle"})
        /\ active_count' = NumIn(pc', ActivePc) + Created(pc')
        /\ NumIn(pc', {"blocked"}) = NumIn(f, {"blocked"})
    BY <1>8, <1>17, Woken DEF pending_call_enqueue
  <2>5. Counted'
    BY <1>6, <1>8, <2>1, <2>4 DEF Counted, QueuesOK
  <2>6. pc'[a] = p
    BY <1>4, <1>8, <1>11, <2>4
  <2>7. /\ \A k \in Workers \ {a} : pc'[k] = pc[k] \/ (pc[k] = "idle" /\ pc'[k] = "ready")
        /\ \A i \in CPUs \ {a} : pc'[i] = pc[i]
        /\ \A w \in Clients : pc'[w] = pc[w]
    BY <1>12, <2>4, ThreadCallAssumption DEF Everybody, Actors
  <2>8. TimerCovers'
    <3>1. delayed' # <<>> => delayed # <<>>
      BY <1>9, <2>1, EmptyQueue DEF QueuesOK
    <3>2. \A i \in CPUs : pc'[i] = "idle" => pc[i] = "idle"
      BY <1>3, <1>17, <2>7
    <3> QED
      BY <1>17, <3>1, <3>2 DEF TimerCovers
  <2>9. out' = [out EXCEPT ![c] = IF TRUE THEN @ ELSE @ - 1]
    BY <1>17 DEF Typed
  <2>10. /\ lock' = (IF p = "loop" THEN a ELSE None)
         /\ call' = [call EXCEPT ![a] = IF p = "loop" THEN None ELSE c]
    BY <1>6, <2>6
  <2> QED
    BY <1>1, <1>2, <1>4, <1>6, <1>10, <1>17, <2>1, <2>2, <2>3, <2>4, <2>5,
        <2>6, <2>7, <2>8, <2>9, <2>10, ReturnKeeps
<1>18. CASE /\ resched[c] # "no" /\ c \in Signal
            /\ running' = [running EXCEPT ![c] = ~ wait[c]]
            /\ pc' = [pc EXCEPT ![a] = IF wait[c] THEN "wake_repend" ELSE "invoke"]
            /\ UNCHANGED <<queues, out, armed, active_count, idle_count>>
  <2>1. pc'[a] # "loop"
    BY <1>11, <1>18 DEF Typed, Positions
  <2>2. UNCHANGED <<lock, call>>
    BY <1>1, <1>2, <1>6, <2>1 DEF Typed
  <2>3. UNCHANGED <<refs, freed>>
    BY <1>6, <1>18 DEF Typed
  <2> QED
    BY <1>1, <1>2, <1>6, <1>10, <1>18, <2>2, <2>3, RependKeeps DEF counts
<1> QED
  BY <1>7, <1>15, <1>16, <1>17, <1>18


-----------------------------------------------------------------------------
(* The invariant *)

(* Nothing is queued or executed, and the group has no thread, at first.   *)
LEMMA InitCalls ==
    ASSUME Init
    PROVE  CallsInv
<1>1. /\ \A k \in Workers : pc[k] = "none"
      /\ \A x \in Clients \union CPUs : pc[x] = "idle"
      /\ pc[Daemon] = "blocked" /\ Positions(pc)
  BY ThreadCallAssumption DEF Init, Positions, Everybody, Actors
<1>2. /\ \A x \in Clients \union Actors : call[x] = None
      /\ None \notin Calls
  BY ThreadCallAssumption DEF Init
<1>3. ToSet(pending) = {} /\ ToSet(delayed) = {}
  <2>1. /\ pending \in Seq(Calls) /\ pending = <<>>
        /\ delayed \in Seq(Calls) /\ delayed = <<>>
    BY DEF Init
  <2> QED
    BY <2>1, EmptyQueue
<1>4. \A c : ~ OnPending(c) /\ ~ OnDelayed(c) /\ ~ OnQueue(c)
  BY <1>3 DEF OnQueue, OnPending, OnDelayed
<1>5. \A c \in Calls : Executing(c) = {} /\ Executing(c) \ CPUs = {}
  BY <1>2 DEF Executing
<1>6. Typed
  BY <1>1, <1>2 DEF Init, Typed
<1>7. Roles /\ Held
  BY <1>1, <1>2 DEF Roles, Held, Actors, ActorPc
<1>8. Locked
  BY <1>1, ThreadCallAssumption DEF Init, Locked, Actors
<1>9. Queued
  BY <1>3 DEF Init, Queued, Distinct
<1>10. SignalsTimed /\ Alone
  BY <1>2, <1>4, ThreadCallAssumption DEF SignalsTimed, Alone, Actors
<1>11. Owned
  BY <1>1, <1>4 DEF Init, Owned
<1>12. Counted
  <2>1. /\ {k \in Workers : pc[k] \in {"idle"}} = {}
        /\ {k \in Workers : pc[k] \in {"blocked"}} = {}
        /\ {k \in Workers : pc[k] \in ActivePc} = {}
    BY <1>1 DEF ActivePc
  <2>2. NumIn(pc, {"idle"}) = 0 /\ NumIn(pc, {"blocked"}) = 0 /\ NumIn(pc, ActivePc) = 0
    BY <2>1, FS_EmptySet DEF NumIn
  <2>3. Created(pc) = 0
    BY <1>1 DEF Created
  <2> QED
    BY <2>2, <2>3 DEF Init, Counted
<1>13. TimerCovers
  BY DEF Init, TimerCovers
<1>14. RefsCounted /\ OutCounted
  <2>1. \A c \in Calls : Cardinality(Executing(c)) = 0 /\ Cardinality(Executing(c) \ CPUs) = 0
    BY <1>5, FS_EmptySet
  <2>2. \A c \in Calls : refs[c] = 1 /\ alive[c] /\ out[c] = 0
    BY DEF Init
  <2>3. RefsCounted
    BY <2>1, <2>2 DEF RefsCounted
  <2>4. OutCounted
    <3> SUFFICES ASSUME NEW c \in Calls
                 PROVE  out[c] = (IF OnQueue(c) THEN 1 ELSE 0) + Cardinality(Executing(c))
      BY DEF OutCounted
    <3>1. ~ OnQueue(c) /\ out[c] = 0 /\ Cardinality(Executing(c)) = 0
      BY <1>4, <2>1, <2>2
    <3> QED
      BY <3>1
  <2> QED
    BY <2>3, <2>4
<1>15. Waiters
  BY <1>2 DEF Waiters
<1> QED
  BY <1>6, <1>7, <1>8, <1>9, <1>10, <1>11, <1>12, <1>13, <1>14, <1>15 DEF
      CallsInv

(* Every step keeps the invariant.                                         *)
LEMMA NextCalls ==
    ASSUME ~ SignalRaces, CallsInv, [Next]_vars
    PROVE  CallsInv'
<1>1. Workers \subseteq Actors /\ CPUs \subseteq Actors
  BY DEF Actors
<1>2. CASE \E w \in Clients : client_step(w)
  <2>1. PICK w \in Clients : client_step(w)
    BY <1>2
  <2>2. CASE wait_recheck(w)
    BY <2>2, RecheckKeeps
  <2>3. ASSUME NEW c \in Calls,
               \/ thread_call_enter(w, c) \/ thread_call_enter_delayed(w, c)
               \/ thread_call_cancel(w, c) \/ thread_call_cancel_wait(w, c)
               \/ thread_call_wait_once(w, c) \/ thread_call_free(w, c)
               \/ thread_call_allocate(w, c)
        PROVE  CallsInv'
    BY <2>3, EnterKeeps, EnterDelayedKeeps, CancelActionKeeps, CancelWaitKeeps,
        WaitOnceKeeps, FreeKeeps, AllocateKeeps
  <2> QED
    BY <2>1, <2>2, <2>3 DEF client_step
<1>3. CASE \E k \in Workers : thread_call_thread(k) \/ sched_call_thread(k)
  <2>1. PICK k \in Workers : thread_call_thread(k) \/ sched_call_thread(k)
    BY <1>3
  <2>2. CASE take_lock(k) \/ thread_call_finish(k) \/ finish_wakeup(k)
    BY <1>1, <2>2, TakeLockKeeps, FinishKeeps, WakeupKeeps
  <2>3. CASE \/ thread_call_dequeue(k) \/ thread_call_park(k)
             \/ sched_call_block(k) \/ sched_call_unblock(k)
    BY <2>3, DequeueKeeps, ParkKeeps, BlockKeeps, UnblockKeeps
  <2> QED
    BY <2>1, <2>2, <2>3 DEF thread_call_thread, sched_call_thread
<1>4. CASE \E i \in CPUs : \/ thread_call_delayed_timer(i)
                           \/ rescan_start(i) \/ rescan_steps(i)
  <2>1. PICK i \in CPUs : thread_call_delayed_timer(i) \/ rescan_start(i) \/ rescan_steps(i)
    BY <1>4
  <2>2. CASE take_lock(i) \/ thread_call_finish(i) \/ finish_wakeup(i)
    BY <1>1, <2>2, TakeLockKeeps, FinishKeeps, WakeupKeeps
  <2>3. CASE timer_fires(i) \/ timer_call_due(i) \/ timer_repend(i) \/ timer_done(i)
    BY <2>3, TimerFiresKeeps, TimerDueKeeps, TimerRependKeeps, TimerDoneKeeps
  <2>4. CASE rescan_start(i) \/ rescan_due(i) \/ rescan_sort(i)
    BY <2>4, RescanStartKeeps, RescanDueKeeps, RescanSortKeeps
  <2> QED
    BY <2>1, <2>2, <2>3, <2>4 DEF thread_call_delayed_timer, rescan_steps
<1>5. CASE thread_call_daemon_continue
  BY <1>5, DaemonStepsKeep, DaemonCreateKeeps DEF thread_call_daemon_continue
<1>6. CASE \/ thread_call_dealloc_timer \/ adjust_cont_time_thread_calls
           \/ deadline_passes
  BY <1>6, DeallocKeeps, AdjustKeeps, DeadlineKeeps
<1>7. CASE UNCHANGED vars
  BY <1>7, StutterKeeps
<1> QED
  BY <1>2, <1>3, <1>4, <1>5, <1>6, <1>7 DEF Next

(* Where SIGNAL calls meet no rescan and are not used just before they     *)
(* execute again, the queues, the counts, the references and the positions *)
(* of everybody stay consistent, for any number of clients, threads, CPUs  *)
(* and calls and any target of the group.                                  *)
THEOREM CallsInvariant ==
    ASSUME ~ SignalRaces
    PROVE  Spec => []CallsInv
<1>1. Init => CallsInv
  BY InitCalls
<1>2. CallsInv /\ [Next]_vars => CallsInv'
  BY NextCalls
<1> QED
  BY <1>1, <1>2, PTL DEF Spec

-----------------------------------------------------------------------------
(* What the runs check *)

(* The counts by which thread_call_wake and the daemon decide to wake up   *)
(* or to create a thread are those of the queue and of the threads.        *)
THEOREM CountsAreExact ==
    ASSUME ~ SignalRaces
    PROVE  Spec => []CountsAgree
<1>1. CallsInv => CountsAgree
  BY DEF CallsInv, Counted, CountsAgree, NumIn, Created, ActivePc
<1> QED
  BY <1>1, CallsInvariant, PTL

(* Whenever a call is delayed, delayed_timers is armed, or a CPU handles   *)
(* it and arms it when it is done.                                         *)
THEOREM DelayedCallsAreTimed ==
    ASSUME ~ SignalRaces
    PROVE  Spec => []TimerCovers
<1>1. CallsInv => TimerCovers
  BY DEF CallsInv
<1> QED
  BY <1>1, CallsInvariant, PTL

(* A ONCE call is executed by one actor at a time, and it is not queued    *)
(* while it executes.                                                      *)
THEOREM OnceExecutesAlone ==
    ASSUME ~ SignalRaces
    PROVE  Spec => []OnceAlone
<1>1. ASSUME CallsInv, NEW c \in Once
      PROVE  /\ Cardinality(Executing(c)) <= 1
             /\ Executing(c) # {} => ~ OnQueue(c)
  <2>1. CASE Executing(c) = {}
    BY <2>1, FS_EmptySet
  <2>2. CASE Executing(c) # {}
    <3>1. PICK a : a \in Executing(c)
      BY <2>2
    <3>2. a \in Actors /\ call[a] = c
      BY <3>1 DEF Executing
    <3>3. ~ OnQueue(c) /\ \A b \in Executing(c) : a = b
      BY <1>1, <3>1, <3>2 DEF CallsInv, Alone
    <3>4. Executing(c) = {a}
      BY <3>1, <3>3
    <3>5. Cardinality(Executing(c)) = 1
      BY <3>4, FS_Singleton
    <3> QED
      BY <3>3, <3>5
  <2> QED
    BY <2>1, <2>2
<1>2. CallsInv => OnceAlone
  BY <1>1 DEF OnceAlone
<1> QED
  BY <1>2, CallsInvariant, PTL

(* thread_call_finish drops no submission: what was asked for while a call *)
(* executed is queued or executed again, whoever waits for the call.       *)
THEOREM ReschedulesAreKept ==
    ASSUME ~ SignalRaces
    PROVE  Spec => RescheduleKept
<1> DEFINE Kept == \A a \in Actors, c \in Calls :
                      thread_call_finish(a) /\ c = call[a] /\ resched[c] # "no"
                         => OnQueue(c)' \/ Executing(c)' # {}
<1>1. ASSUME CallsInv, NEW a \in Actors, NEW c \in Calls, thread_call_finish(a),
             c = call[a], resched[c] # "no"
      PROVE  OnQueue(c)' \/ Executing(c)' # {}
  <2>1. pc[a] = "invoke"
    BY <1>1 DEF thread_call_finish
  <2>2. QueuesOK
    BY <1>1 DEF CallsInv, QueuesOK, Typed, Queued, Counted
  <2>3. /\ resubmitted(c, IF c \in Signal THEN refs[c] ELSE refs[c] - 1)
        /\ ~ OnPending(c)
    BY <1>1, <2>1, ResubmittedIfAsked DEF OnQueue
  <2>4. c \in Signal => a \in CPUs
    BY <1>1 DEF CallsInv, SignalsTimed, Actors
  <2>5. \/ delayed_call_enqueue(c)
        \/ \E w : pending_call_enqueue(c, w)
        \/ /\ pc' = [pc EXCEPT ![a] = IF wait[c] THEN "wake_repend" ELSE "invoke"]
           /\ call' = [call EXCEPT ![a] = IF pc'[a] = "loop" THEN None ELSE c]
    BY <1>1, <2>3, <2>4 DEF thread_call_finish
  <2>6. CASE delayed_call_enqueue(c)
    BY <2>2, <2>6, DelayedEnqueued DEF OnQueue, OnDelayed
  <2>7. CASE \E w : pending_call_enqueue(c, w)
    BY <2>2, <2>3, <2>7, PendingEnqueued DEF pending_call_enqueue, OnQueue,
        OnPending
  <2>8. CASE /\ pc' = [pc EXCEPT ![a] = IF wait[c] THEN "wake_repend" ELSE "invoke"]
             /\ call' = [call EXCEPT ![a] = IF pc'[a] = "loop" THEN None ELSE c]
    <3>1. pc'[a] \in {"wake_repend", "invoke"}
      BY <1>1, <2>8 DEF CallsInv, Typed, Positions, Everybody
    <3>2. call'[a] = c
      BY <1>1, <2>8, <3>1
    <3>3. a \in Executing(c)'
      BY <3>1, <3>2 DEF Executing
    <3> QED
      BY <3>3
  <2> QED
    BY <2>5, <2>6, <2>7, <2>8
<1>2. CallsInv => Kept
  BY <1>1
<1>3. CallsInv /\ [Next]_vars => [Kept]_vars
  BY <1>2
<1>4. RescheduleKept <=> [][Kept]_vars
  BY DEF RescheduleKept
<1> HIDE DEF Kept
<1> QED
  BY <1>3, <1>4, CallsInvariant, PTL DEF Spec


-----------------------------------------------------------------------------
(* Storage *)

(* SIGNAL calls, if there are any, are executed on one CPU.  The timer can *)
(* be armed again while it is handled; if it then fires on another CPU,    *)
(* the wakeup of the first can end the wait of a thread_call_free for an   *)
(* execution on the second.                                                *)
OneTimer == Signal # {} => \A i, j \in CPUs : i = j

(* A step returns only the storage of calls that nobody uses, and then no  *)
(* such call is submitted or waited for.                                   *)
LEMMA GoneStays ==
    ASSUME CallsInv, Gone, CallsInv',
           \A d \in Calls : freed'[d] =>
              \/ /\ freed[d] /\ out'[d] = out[d]
                 /\ \A w \in Clients : call'[w] = d => call[w] = d
              \/ /\ Executing(d)' = {}
                 /\ \A w \in Clients : call'[w] # d
    PROVE  Gone'
<1> SUFFICES ASSUME NEW d \in Calls, freed'[d]
             PROVE  /\ ~ alive'[d] /\ Executing(d)' = {}
                    /\ \A w \in Clients : call'[w] # d
  BY DEF Gone
<1>1. ~ alive'[d]
  BY DEF CallsInv, Owned
<1>2. CASE /\ freed[d] /\ out'[d] = out[d]
           /\ \A w \in Clients : call'[w] = d => call[w] = d
  <2>1. Executing(d) = {} /\ ~ alive[d] /\ \A w \in Clients : call[w] # d
    BY <1>2 DEF Gone
  <2>2. ~ OnQueue(d)
    BY <2>1 DEF CallsInv, Owned
  <2>3. out'[d] = 0
    <3>1. out[d] = 0 + Cardinality(Executing(d))
      BY <2>2 DEF CallsInv, OutCounted
    <3>2. Cardinality(Executing(d)) = 0
      BY <2>1, FS_EmptySet
    <3> QED
      BY <1>2, <3>1, <3>2
  <2>4. out'[d] = (IF OnQueue(d)' THEN 1 ELSE 0) + Cardinality(Executing(d)')
    BY DEF CallsInv, OutCounted
  <2>5. IsFiniteSet(Executing(d)') /\ Cardinality(Executing(d)') \in Nat
    <3>1. IsFiniteSet(Actors) /\ Executing(d)' \subseteq Actors
      BY ThreadCallAssumption, FS_Union DEF Actors, Executing
    <3> QED
      BY <3>1, FS_Subset, FS_CardinalityType
  <2>6. Cardinality(Executing(d)') = 0
    BY <2>3, <2>4, <2>5
  <2>7. Executing(d)' = {}
    BY <2>5, <2>6, FS_EmptySet
  <2> QED
    BY <1>1, <1>2, <2>1, <2>7
<1> QED
  BY <1>1, <1>2

(* The common case: no storage is returned, at most one call, which has an *)
(* owner, is submitted, canceled or waited for.                            *)
LEMMA GoneWithout ==
    ASSUME CallsInv, Gone, CallsInv', freed' = freed,
           \A d \in Calls : freed[d] => out'[d] = out[d],
           \A w \in Clients : call'[w] = call[w] \/ call'[w] = None \/ alive[call'[w]]
    PROVE  Gone'
<1>1. \A d \in Calls : freed[d] => ~ alive[d]
  BY DEF Gone
<1>2. None \notin Calls
  BY ThreadCallAssumption
<1>3. \A d \in Calls : freed'[d] =>
         /\ freed[d] /\ out'[d] = out[d]
         /\ \A w \in Clients : call'[w] = d => call[w] = d
  BY <1>1, <1>2
<1> QED
  BY <1>3, GoneStays

(* A call is freed when its owner has the only reference and no timer      *)
(* executes it.                                                            *)
LEMMA GoneFree ==
    ASSUME ~ SignalRaces, CallsInv, Gone, CallsInv', NEW w \in Clients, NEW c \in Calls,
           thread_call_free(w, c)
    PROVE  Gone'
<1>1. alive[c] /\ ~ freed[c] /\ \A v \in Clients : call[v] # c
  BY DEF thread_call_free, Enter, CallsInv, Owned
<1>2. out' = out
  BY DEF thread_call_free
<1>3. CASE WaitFor(w, c, "free") /\ UNCHANGED freed
  <2>1. \A v \in Clients : call'[v] = call[v] \/ alive[call'[v]]
    BY <1>1, <1>3 DEF WaitFor
  <2> QED
    BY <1>2, <1>3, <2>1, GoneWithout
<1>4. CASE /\ ~ (c \in Signal /\ running[c])
           /\ freed' = [freed EXCEPT ![c] = refs'[c] = 0]
           /\ UNCHANGED <<pc, call>>
  <2>1. refs'[c] = 0 => Executing(c) = {}
    <3> SUFFICES ASSUME refs'[c] = 0 PROVE Executing(c) = {}
      OBVIOUS
    <3>1. refs'[c] = refs[c] - 1
      BY DEF thread_call_free, CallsInv, Typed
    <3>2. refs[c] = 1 + Cardinality(Executing(c) \ CPUs)
      BY <1>1 DEF CallsInv, RefsCounted
    <3>3. Cardinality(Executing(c) \ CPUs) = 0
      BY <3>1, <3>2, ExecutingFinite
    <3>4. Executing(c) \ CPUs = {}
      BY <3>3, ExecutingFinite, FS_EmptySet
    <3>5. ASSUME NEW i \in CPUs, i \in Executing(c) PROVE FALSE
      <4>1. i \in Actors /\ call[i] = c
        BY <3>5 DEF Executing
      <4>2. pc[i] = "invoke"
        BY <3>5, <4>1 DEF thread_call_free, Enter, Executing
      <4>3. c \in Signal /\ c \in Once
        BY <4>1, ThreadCallAssumption DEF CallsInv, SignalsTimed
      <4>4. running[c]
        BY <4>1, <4>2, <4>3 DEF CallsInv, Alone
      <4> QED
        BY <1>4, <4>3, <4>4
    <3> QED
      BY <3>4, <3>5
  <2>2. Executing(c)' = Executing(c)
    BY <1>4 DEF Executing
  <2>3. \A d \in Calls : freed'[d] => IF d = c THEN refs'[c] = 0 ELSE freed[d]
    BY <1>4 DEF CallsInv, Typed
  <2>4. \A d \in Calls : freed'[d] =>
           \/ /\ freed[d] /\ out'[d] = out[d]
              /\ \A v \in Clients : call'[v] = d => call[v] = d
           \/ /\ Executing(d)' = {}
              /\ \A v \in Clients : call'[v] # d
    BY <1>1, <1>2, <1>4, <2>1, <2>2, <2>3
  <2> QED
    BY <2>4, GoneStays
<1> QED
  BY <1>3, <1>4 DEF thread_call_free

(* The last execution of a call without owner returns its storage.         *)
LEMMA GoneFinish ==
    ASSUME CallsInv, Gone, CallsInv', NEW a \in Actors, thread_call_finish(a)
    PROVE  Gone'
<1>1. PICK c \in Calls : call[a] = c
  BY DEF thread_call_finish, CallsInv, Held, ActorPc
<1>2. a \in Executing(c)
  BY <1>1 DEF thread_call_finish, Executing
<1>3. ~ freed[c]
  BY <1>2 DEF Gone
<1>4. \A d \in Calls \ {c} : freed'[d] = freed[d] /\ out'[d] = out[d]
  BY <1>1 DEF thread_call_finish, CallsInv, Typed
<1>5. /\ \A w \in Clients : call'[w] = call[w]
      /\ alive' = alive
  BY <1>1, ThreadCallAssumption DEF thread_call_finish, Actors
<1>6. freed'[c] => c \notin Signal /\ refs'[c] = 0
  BY <1>1, <1>3 DEF thread_call_finish, CallsInv, Typed
<1>7. ASSUME freed'[c]
      PROVE  Executing(c)' = {} /\ \A w \in Clients : call'[w] # c
  <2>1. ~ alive'[c] /\ ~ alive[c]
    BY <1>5, <1>7 DEF CallsInv, Owned
  <2>2. refs'[c] = 0 + Cardinality(Executing(c)' \ CPUs)
    BY <2>1 DEF CallsInv, RefsCounted
  <2>3. IsFiniteSet(Executing(c)' \ CPUs) /\ Cardinality(Executing(c)' \ CPUs) \in Nat
    <3>1. IsFiniteSet(Actors) /\ Executing(c)' \ CPUs \subseteq Actors
      BY ThreadCallAssumption, FS_Union DEF Actors, Executing
    <3> QED
      BY <3>1, FS_Subset, FS_CardinalityType
  <2>4. Cardinality(Executing(c)' \ CPUs) = 0
    BY <1>6, <1>7, <2>2, <2>3
  <2>5. Executing(c)' \ CPUs = {}
    BY <2>3, <2>4, FS_EmptySet
  <2>6. \A i \in CPUs : i \notin Executing(c)'
    BY <1>6, <1>7 DEF CallsInv, SignalsTimed, Executing
  <2>7. \A w \in Clients : call'[w] # c
    BY <1>5, <1>6, <1>7, <2>1 DEF CallsInv, Waiters
  <2> QED
    BY <2>5, <2>6, <2>7
<1>8. \A d \in Calls : freed'[d] =>
         \/ /\ freed[d] /\ out'[d] = out[d]
            /\ \A w \in Clients : call'[w] = d => call[w] = d
         \/ /\ Executing(d)' = {}
            /\ \A w \in Clients : call'[w] # d
  BY <1>4, <1>5, <1>7
<1> QED
  BY <1>8, GoneStays

(* The client that was freeing a SIGNAL call returns its storage when the  *)
(* timer, which has woken it up, does not execute the call any more.       *)
LEMMA GoneWakeup ==
    ASSUME OneTimer, CallsInv, Gone, CallsInv', NEW a \in Actors, finish_wakeup(a)
    PROVE  Gone'
<1>1. PICK c \in Calls : call[a] = c
  BY DEF finish_wakeup, CallsInv, Held, ActorPc
<1>2. out' = out /\ alive' = alive
  BY DEF finish_wakeup
<1>3. \A w \in Clients : call'[w] = call[w] \/ call'[w] = None
  BY ThreadCallAssumption DEF finish_wakeup, CallsInv, Typed
<1>4. /\ \A d \in Calls \ {c} : freed'[d] = freed[d]
      /\ freed'[c] => \/ freed[c]
                      \/ /\ refs[c] = 0
                         /\ \E w \in Clients : call[w] = c /\ pc[w] = "free"
  BY <1>1 DEF finish_wakeup, CallsInv, Typed
<1>5. ASSUME freed'[c], ~ freed[c]
      PROVE  Executing(c)' = {} /\ \A w \in Clients : call'[w] # c
  <2>1. ~ alive[c]
    BY <1>2, <1>5 DEF CallsInv, Owned
  <2>2. c \in Signal
    BY <1>4, <1>5, <2>1 DEF CallsInv, Waiters
  <2>3. a \in CPUs
    BY <1>1, <2>2 DEF CallsInv, SignalsTimed, Actors
  <2>4. pc[a] = "wake"
    BY <1>1, <2>1, <2>3 DEF finish_wakeup, CallsInv, Owned
  <2>5. pc'[a] = "relock"
    BY <2>4 DEF finish_wakeup, CallsInv, Typed, Positions, Everybody
  <2>6. \A k \in Workers : call'[k] # c
    BY <2>2 DEF CallsInv, SignalsTimed
  <2>7. Executing(c)' = {}
    BY <2>2, <2>3, <2>5, <2>6 DEF OneTimer, Executing, Actors
  <2>8. ASSUME NEW w \in Clients, call[w] = c PROVE call'[w] # c
    <3>1. pc[w] = "free"
      BY <2>1, <2>8 DEF CallsInv, Waiters
    <3>2. call'[w] = None
      BY <1>1, <2>8, <3>1, ThreadCallAssumption DEF finish_wakeup, CallsInv,
          Typed
    <3> QED
      BY <3>2, ThreadCallAssumption
  <2>9. None # c
    BY ThreadCallAssumption
  <2> QED
    BY <1>3, <2>7, <2>8, <2>9
<1>6. None \notin Calls
  BY ThreadCallAssumption
<1>7. \A d \in Calls : freed'[d] =>
         \/ /\ freed[d] /\ out'[d] = out[d]
            /\ \A w \in Clients : call'[w] = d => call[w] = d
         \/ /\ Executing(d)' = {}
            /\ \A w \in Clients : call'[w] # d
  BY <1>2, <1>3, <1>4, <1>5, <1>6
<1> QED
  BY <1>7, GoneStays

(* What a client does to a call that it owns.                              *)
LEMMA GoneClient ==
    ASSUME CallsInv, Gone, CallsInv', NEW w \in Clients, NEW c \in Calls,
           \/ thread_call_enter(w, c) \/ thread_call_enter_delayed(w, c)
           \/ thread_call_cancel(w, c) \/ thread_call_cancel_wait(w, c)
           \/ thread_call_wait_once(w, c)
    PROVE  Gone'
<1>1. alive[c] /\ ~ freed[c]
  BY DEF thread_call_enter, thread_call_enter_delayed, thread_call_cancel,
      thread_call_cancel_wait, thread_call_wait_once, Enter, CallsInv, Owned
<1>2. freed' = freed
  BY DEF thread_call_enter, thread_call_enter_delayed, thread_call_cancel,
      thread_call_cancel_wait, thread_call_wait_once, life
<1>3. \A d \in Calls \ {c} : out'[d] = out[d]
  BY DEF thread_call_enter, thread_call_enter_delayed, thread_call_cancel,
      thread_call_cancel_wait, thread_call_wait_once,
      thread_call_cancel_locked, Submit, CallsInv, Typed
<1>4. call' = call \/ call' = [call EXCEPT ![w] = c]
  BY DEF thread_call_enter, thread_call_enter_delayed, thread_call_cancel,
      thread_call_cancel_wait, thread_call_wait_once,
      thread_call_wait_once_locked, thread_call_wait_locked, WaitFor
<1>5. \A v \in Clients : call'[v] = call[v] \/ alive[call'[v]]
  BY <1>1, <1>4 DEF CallsInv, Typed
<1>6. \A d \in Calls : freed[d] => out'[d] = out[d]
  BY <1>1, <1>3
<1> QED
  BY <1>2, <1>5, <1>6, GoneWithout

(* New storage has an owner.                                               *)
LEMMA GoneAllocate ==
    ASSUME CallsInv, Gone, CallsInv', NEW w \in Clients, NEW c \in Calls,
           thread_call_allocate(w, c)
    PROVE  Gone'
<1>1. \A d \in Calls : freed'[d] => d # c /\ freed[d] /\ out'[d] = out[d]
  BY DEF thread_call_allocate, CallsInv, Typed
<1>2. call' = call
  BY DEF thread_call_allocate
<1> QED
  BY <1>1, <1>2, GoneStays

(* The other steps submit nothing and return no storage.                   *)
LEMMA GoneOthers ==
    ASSUME CallsInv, Gone, CallsInv',
           \/ \E w \in Clients : wait_recheck(w)
           \/ \E a \in Actors : take_lock(a)
           \/ \E k \in Workers : \/ thread_call_dequeue(k) \/ thread_call_park(k)
                                 \/ sched_call_block(k) \/ sched_call_unblock(k)
           \/ \E i \in CPUs : \/ timer_fires(i) \/ timer_call_due(i) \/ timer_repend(i)
                              \/ timer_done(i) \/ rescan_start(i) \/ rescan_due(i)
                              \/ rescan_sort(i)
           \/ thread_call_daemon_continue \/ thread_call_dealloc_timer
           \/ adjust_cont_time_thread_calls \/ deadline_passes \/ UNCHANGED vars
    PROVE  Gone'
<1>1. CASE \E w \in Clients : wait_recheck(w)
  <2>1. PICK w \in Clients : wait_recheck(w)
    BY <1>1
  <2>2. freed' = freed /\ out' = out
    BY <2>1 DEF wait_recheck, life
  <2>3. \A v \in Clients : call'[v] = call[v] \/ call'[v] = None
    BY <2>1 DEF wait_recheck, CallsInv, Typed
  <2> QED
    BY <2>2, <2>3, GoneWithout
<1>2. CASE \/ \E a \in Actors : take_lock(a)
           \/ \E k \in Workers : \/ thread_call_park(k)
                                 \/ sched_call_block(k) \/ sched_call_unblock(k)
           \/ \E i \in CPUs : \/ timer_fires(i) \/ timer_repend(i)
                              \/ timer_done(i) \/ rescan_start(i) \/ rescan_due(i)
                              \/ rescan_sort(i)
           \/ thread_call_daemon_continue \/ thread_call_dealloc_timer
           \/ adjust_cont_time_thread_calls \/ deadline_passes \/ UNCHANGED vars
  <2>1. freed' = freed /\ out' = out /\ call' = call
    BY <1>2 DEF take_lock, thread_call_park, sched_call_block,
        sched_call_unblock, timer_fires, timer_repend, timer_done,
        rescan_start, rescan_due, rescan_sort, thread_call_daemon_continue,
        daemon_store, daemon_scan, daemon_create, daemon_check,
        daemon_assert_wait, daemon_recheck, daemon_unchanged,
        thread_call_dealloc_timer, adjust_cont_time_thread_calls,
        deadline_passes, vars, life
  <2> QED
    BY <2>1, GoneWithout
<1>3. CASE \/ \E k \in Workers : thread_call_dequeue(k)
           \/ \E i \in CPUs : timer_call_due(i)
  <2>1. /\ freed' = freed /\ out' = out
        /\ \E a \in Actors : call' = call \/ \E c : call' = [call EXCEPT ![a] = c]
    BY <1>3 DEF thread_call_dequeue, timer_call_due, life, Actors
  <2>2. \A v \in Clients : call'[v] = call[v]
    BY <2>1, ThreadCallAssumption DEF CallsInv, Typed, Actors
  <2> QED
    BY <2>1, <2>2, GoneWithout
<1> QED
  BY <1>1, <1>2, <1>3

(* Every step keeps storage that was returned out of use.                  *)
LEMMA NextGone ==
    ASSUME ~ SignalRaces, OneTimer, CallsInv, Gone, CallsInv', [Next]_vars
    PROVE  Gone'
<1>1. Workers \subseteq Actors /\ CPUs \subseteq Actors
  BY DEF Actors
<1>2. CASE \E w \in Clients, c \in Calls : thread_call_free(w, c)
  BY <1>2, GoneFree
<1>3. CASE \E w \in Clients, c \in Calls : thread_call_allocate(w, c)
  BY <1>3, GoneAllocate
<1>4. CASE \E w \in Clients, c \in Calls :
              \/ thread_call_enter(w, c) \/ thread_call_enter_delayed(w, c)
              \/ thread_call_cancel(w, c) \/ thread_call_cancel_wait(w, c)
              \/ thread_call_wait_once(w, c)
  BY <1>4, GoneClient
<1>5. CASE \E a \in Actors : thread_call_finish(a)
  BY <1>5, GoneFinish
<1>6. CASE \E a \in Actors : finish_wakeup(a)
  BY <1>6, GoneWakeup
<1> QED
  BY <1>1, <1>2, <1>3, <1>4, <1>5, <1>6, GoneOthers DEF Next, client_step,
      thread_call_thread, sched_call_thread, thread_call_delayed_timer,
      rescan_steps

(* Storage is returned when the last reference is gone, and then nobody    *)
(* executes the call, waits for it or has it on a queue, and whatever was  *)
(* submitted has finished; before that, every execution on a thread and    *)
(* the owner have one reference each.                                      *)
THEOREM FreedCallsAreIdle ==
    ASSUME ~ SignalRaces, OneTimer
    PROVE  Spec => []FreedIsIdle
<1>1. Init => Gone
  BY DEF Init, Gone
<1>2. CallsInv /\ CallsInv' /\ Gone /\ [Next]_vars => Gone'
  BY NextGone
<1>3. ASSUME CallsInv, Gone
      PROVE  FreedIsIdle
  <2> SUFFICES ASSUME NEW c \in Calls, freed[c]
               PROVE  /\ ~ OnQueue(c) /\ Executing(c) = {} /\ out[c] = 0
                      /\ \A w \in Clients : call[w] # c
    BY <1>3 DEF FreedIsIdle, CallsInv, RefsCounted
  <2>1. ~ alive[c] /\ Executing(c) = {} /\ \A w \in Clients : call[w] # c
    BY <1>3 DEF Gone
  <2>2. ~ OnQueue(c)
    BY <1>3, <2>1 DEF CallsInv, Owned
  <2>3. out[c] = 0 + Cardinality(Executing(c))
    BY <1>3, <2>2 DEF CallsInv, OutCounted
  <2>4. Cardinality(Executing(c)) = 0
    BY <2>1, FS_EmptySet
  <2> QED
    BY <2>1, <2>2, <2>3, <2>4
<1>4. CallsInv /\ Gone => FreedIsIdle
  BY <1>3
<1> QED
  BY <1>1, <1>2, <1>4, CallsInvariant, PTL DEF Spec
=============================================================================
