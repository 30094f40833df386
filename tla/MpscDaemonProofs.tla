-------------------------- MODULE MpscDaemonProofs --------------------------
(***************************************************************************)
(* Proofs about daemon queues, for every set of threads, items and queues  *)
(* of each kind: the assertions of the drain hold, a nested queue is on    *)
(* its target once, and a canceled queue can be destroyed.                 *)
(*                                                                         *)
(* They rest on the client's part: sends have returned before a queue is   *)
(* canceled, and nested queues are not canceled.                           *)
(***************************************************************************)
EXTENDS MpscDaemon, SequenceTheorems, FiniteSetTheorems, TLAPS

(* The client's part: sends have returned before a queue is canceled, and  *)
(* nested queues are not canceled.                                         *)
ClientRule == Quiescent /\ Cancelable \intersect NestedQ = {}

-----------------------------------------------------------------------------
(* Lists *)

(* x is an item of list s.                                                 *)
Listed(x, s) == \E i \in 1 .. Len(s) : s[i] = x

(* No item is twice in list s.                                             *)
Once(s) == \A i, j \in 1 .. Len(s) : s[i] = s[j] => i = j

(* An empty list has no item.                                              *)
LEMMA ListedEmpty ==
    Once(<<>>) /\ \A x : ~ Listed(x, <<>>)
BY DEF Once, Listed

(* An item appended to a list is listed, and no other one comes with it.   *)
LEMMA ListedAppend ==
    ASSUME NEW S, NEW s \in Seq(S), NEW e \in S
    PROVE  /\ \A x : Listed(x, Append(s, e)) <=> Listed(x, s) \/ x = e
           /\ Once(s) /\ ~ Listed(e, s) => Once(Append(s, e))
<1> DEFINE a == Append(s, e)
<1>1. /\ Len(s) \in Nat /\ Len(a) = Len(s) + 1
      /\ \A i \in 1 .. Len(s) : a[i] = s[i]
      /\ a[Len(s) + 1] = e
  BY AppendProperties, LenProperties
<1> HIDE DEF a
<1>2. \A x : Listed(x, a) <=> Listed(x, s) \/ x = e
  BY <1>1 DEF Listed
<1>3. Once(s) /\ ~ Listed(e, s) => Once(a)
  BY <1>1 DEF Listed, Once
<1> QED
  BY <1>2, <1>3 DEF a

(* To take the first item off a list leaves the others.                    *)
LEMMA ListedTail ==
    ASSUME NEW S, NEW s \in Seq(S), s # <<>>
    PROVE  /\ \A x : Listed(x, s) <=> Listed(x, Tail(s)) \/ x = Head(s)
           /\ Once(s) => Once(Tail(s)) /\ ~ Listed(Head(s), Tail(s))
<1> DEFINE a == Tail(s)
<1>1. /\ Len(s) \in Nat \ {0} /\ Len(a) = Len(s) - 1
      /\ \A i \in 1 .. Len(a) : a[i] = s[i + 1]
      /\ Head(s) = s[1]
  BY HeadTailProperties, LenProperties, EmptySeq
<1> HIDE DEF a
<1>2. \A x : Listed(x, s) <=> Listed(x, a) \/ x = Head(s)
  <2>1. ASSUME NEW x, Listed(x, s)
        PROVE  Listed(x, a) \/ x = Head(s)
    <3>1. PICK i \in 1 .. Len(s) : s[i] = x
      BY <2>1 DEF Listed
    <3>2. CASE i = 1
      BY <1>1, <3>1, <3>2
    <3>3. CASE i # 1
      <4>1. i - 1 \in 1 .. Len(a) /\ a[i - 1] = x
        BY <1>1, <3>1, <3>3
      <4> QED
        BY <4>1 DEF Listed
    <3> QED
      BY <3>2, <3>3
  <2>2. ASSUME NEW x, Listed(x, a) \/ x = Head(s)
        PROVE  Listed(x, s)
    BY <1>1, <2>2 DEF Listed
  <2> QED
    BY <2>1, <2>2
<1>3. Once(s) => Once(a) /\ ~ Listed(Head(s), a)
  BY <1>1 DEF Listed, Once
<1> QED
  BY <1>2, <1>3 DEF a

-----------------------------------------------------------------------------
(* The inductive invariant *)

(* The items that are sent to q: nested queues to their target.            *)
ItemsOf(q) == IF q = Root THEN NestedQ ELSE Elements

(* The bits of mpd_state.                                                  *)
Bits == {"DRAINING", "WAKEUP", "CANCELED", "INACTIVE"}

(* Positions of a drain that has set DRAINING and not given it up.         *)
Running == {"fix", "dequeue", "invoke", "nested", "andnot"}

(* The types of the variables.                                             *)
Typed ==
    /\ mpd_state \in [Queues -> SUBSET Bits]
    /\ queue \in [Queues -> Seq(Elements \union NestedQ)]
    /\ batch \in [Queues -> Seq(Elements \union NestedQ)]
    /\ \A q \in Queues : queue[q] \in Seq(ItemsOf(q)) /\ batch[q] \in Seq(ItemsOf(q))
    /\ dpc \in [Queues -> Running \union {"off", "blocked", "xor", "canceled", "terminated"}]
    /\ waiting \in [ThreadQ -> BOOLEAN]
    /\ pending \in [CallQ -> BOOLEAN]
    /\ sent \subseteq Elements
    /\ tpc \in [Threads -> {"idle", "or", "wakeup", "cancel", "block", "cancel_wait"}]
    /\ tq \in [Threads -> Queues \union {None}]
    /\ cq \in [Threads -> Queues \union {None}]
    /\ cwait \in [Threads -> BOOLEAN]
    /\ dead \subseteq Cancelable

(* What a thread works on at each position.  A thread that sends is not    *)
(* one that cancels.                                                       *)
Roles ==
    \A t \in Threads :
        /\ tq[t] # None <=> tpc[t] \in {"or", "wakeup"}
        /\ tpc[t] \in {"idle", "or"} => cq[t] = None
        /\ tpc[t] \in {"cancel", "block", "cancel_wait"} => cq[t] # None
        /\ tpc[t] = "wakeup" /\ cq[t] # None => tq[t] = cq[t]
        /\ tpc[t] = "cancel" => cwait[t]
        /\ tpc[t] = "cancel_wait" => ~ cwait[t]
        /\ cq[t] # None => cq[t] \in Cancelable \ dead
        /\ \A u \in Threads : cq[t] # None /\ cq[u] = cq[t] => u = t

(* The cancelation of q has begun.                                         *)
Canceling(q) == q \in dead \/ \E t \in Threads : cq[t] = q

(* From its cancelation on a queue is active, and only its canceler works  *)
(* on it.                                                                  *)
Quiet ==
    \A q \in Queues : Canceling(q) =>
        /\ "INACTIVE" \notin mpd_state[q]
        /\ \A t \in Threads : tq[t] = q => cq[t] = q

(* The state bits tell what goes on.                                       *)
BitsTrue ==
    \A q \in Queues :
        /\ "DRAINING" \in mpd_state[q] <=> dpc[q] \in Running
        /\ "DRAINING" \in mpd_state[q] => "INACTIVE" \notin mpd_state[q]
        /\ "CANCELED" \in mpd_state[q] <=>
              q \in dead \/ \E t \in Threads : cq[t] = q /\ tpc[t] # "cancel"

(* Where the drain of each kind of queue can be; one nested queue at most  *)
(* is drained, from the loop of the target.                                *)
Drains ==
    /\ \A q \in Queues :
          /\ dpc[q] = "off" => q \notin ThreadQ
          /\ dpc[q] \in {"blocked", "terminated"} => q \in ThreadQ
          /\ dpc[q] = "nested" => q = Root
          /\ dpc[q] \in {"canceled", "terminated"} => "CANCELED" \in mpd_state[q]
          /\ batch[q] # <<>> => dpc[q] \in {"invoke", "nested"}
          /\ dpc[q] = "invoke" => batch[q] # <<>>
    /\ \A x \in NestedQ : dpc[x] # "off" =>
          dpc[Root] = "nested" /\ \A y \in NestedQ : dpc[y] # "off" => y = x

(* Items in the queue are seen: by a drain that will look once more, or    *)
(* through WAKEUP, which is set or about to be.                            *)
Covered ==
    \A q \in Queues : queue[q] # <<>> =>
        \/ "WAKEUP" \in mpd_state[q]
        \/ dpc[q] \in {"fix", "dequeue", "invoke", "nested"}
        \/ \E t \in Threads : tpc[t] = "or" /\ tq[t] = q

(* t has set WAKEUP for q and is about to tell the drainer.                *)
Waker(t, q) == tpc[t] = "wakeup" /\ tq[t] = q

(* The drainer has been told to look at q.                                 *)
Called(q) ==
    \/ q \in ThreadQ /\ dpc[q] = "blocked" /\ ~ waiting[q]
    \/ q \in CallQ /\ pending[q]
    \/ q \in NestedQ /\ (Listed(q, batch[Root]) \/ Listed(q, queue[Root]))

(* Somebody carries the wakeup of q.                                       *)
Carried(q) == Called(q) \/ dpc[q] = "xor" \/ \E t \in Threads : Waker(t, q)

(* At most one actor carries the wakeup of an active queue, from the one   *)
(* that sets WAKEUP to the drain that clears it.                           *)
CarrierOf(q) ==
    "CANCELED" \notin mpd_state[q] =>
        /\ \A t, u \in Threads : Waker(t, q) /\ Waker(u, q) => t = u
        /\ ~ (Called(q) /\ dpc[q] = "xor")
        /\ \A t \in Threads : Waker(t, q) => ~ Called(q) /\ dpc[q] # "xor"
        /\ Carried(q) => /\ "WAKEUP" \in mpd_state[q]
                         /\ "DRAINING" \notin mpd_state[q]
                         /\ "INACTIVE" \notin mpd_state[q]
        /\ q \in ThreadQ /\ dpc[q] = "andnot" => waiting[q]

(* The same for all queues.                                                *)
OneCarrier == \A q \in Queues : CarrierOf(q)

(* A nested queue is on its target once.                                   *)
ListedOnce ==
    NestedQ # {} =>
        /\ Once(batch[Root]) /\ Once(queue[Root])
        /\ \A x \in NestedQ : ~ (Listed(x, batch[Root]) /\ Listed(x, queue[Root]))

(* Once the canceler may go on there is nothing left to do, and nothing    *)
(* starts again once it has returned.                                      *)
Finished ==
    /\ \A q \in Queues : dpc[q] = "canceled" => queue[q] = <<>>
    /\ \A t \in Threads : cq[t] # None /\ ~ cwait[t] =>
          /\ queue[cq[t]] = <<>> /\ batch[cq[t]] = <<>>
          /\ cq[t] \in ThreadQ => dpc[cq[t]] = "terminated"
          /\ tpc[t] = "cancel_wait" /\ cq[t] \in CallQ => ~ pending[cq[t]]
    /\ \A q \in dead :
          /\ queue[q] = <<>> /\ batch[q] = <<>>
          /\ dpc[q] = IF q \in ThreadQ THEN "terminated" ELSE "off"
          /\ q \in CallQ => ~ pending[q]
          /\ \A t \in Threads : tq[t] # q

(* The inductive invariant.                                                *)
DaemonInv ==
    /\ Typed /\ Roles /\ Quiet /\ BitsTrue /\ Drains /\ Covered /\ OneCarrier
    /\ ListedOnce /\ Finished /\ NoPanic

(* What the kinds of queues have to do with each other.                    *)
LEMMA Kinds ==
    /\ ThreadQ \subseteq Queues /\ CallQ \subseteq Queues /\ NestedQ \subseteq Queues
    /\ \A q \in Queues : q \in ThreadQ \/ q \in CallQ \/ q \in NestedQ
    /\ \A q \in ThreadQ : q \notin CallQ /\ q \notin NestedQ
    /\ \A q \in CallQ : q \notin NestedQ
    /\ Root \notin NestedQ /\ (NestedQ # {} => Root \in Queues)
    /\ \A e \in Elements : e \notin Queues
    /\ None \notin Queues
    /\ Inactive \subseteq Queues /\ Cancelable \subseteq Queues /\ Root \notin Cancelable
BY KindAssumption DEF Queues, Leaves

(* An item of the right kind can be appended.                              *)
LEMMA AppendTyped ==
    ASSUME Typed, NEW q \in Queues, NEW x \in ItemsOf(q),
           queue' = [queue EXCEPT ![q] = Append(@, x)]
    PROVE  /\ queue' \in [Queues -> Seq(Elements \union NestedQ)]
           /\ \A r \in Queues : queue'[r] \in Seq(ItemsOf(r))
<1>1. Append(queue[q], x) \in Seq(ItemsOf(q))
  BY AppendProperties DEF Typed
<1>2. Append(queue[q], x) \in Seq(Elements \union NestedQ)
  <2>1. x \in Elements \union NestedQ
    BY DEF ItemsOf
  <2> QED
    BY <2>1, AppendProperties DEF Typed
<1>3. queue' \in [Queues -> Seq(Elements \union NestedQ)]
  BY <1>2 DEF Typed
<1>4. \A r \in Queues : queue'[r] = IF r = q THEN Append(queue[q], x) ELSE queue[r]
  BY DEF Typed
<1> QED
  BY <1>1, <1>3, <1>4 DEF Typed

(* Who carries the wakeup of a queue does not depend on other queues.      *)
LEMMA CarrierStays ==
    ASSUME NEW r \in Queues, CarrierOf(r),
           mpd_state'[r] = mpd_state[r], dpc'[r] = dpc[r],
           r \in ThreadQ => waiting'[r] = waiting[r],
           r \in CallQ => pending'[r] = pending[r],
           r \in NestedQ => /\ Listed(r, batch'[Root]) <=> Listed(r, batch[Root])
                            /\ Listed(r, queue'[Root]) <=> Listed(r, queue[Root]),
           \A t \in Threads : Waker(t, r)' <=> Waker(t, r)
    PROVE  CarrierOf(r)'
<1>1. Called(r)' <=> Called(r)
  BY DEF Called
<1>2. Carried(r)' <=> Carried(r)
  BY <1>1 DEF Carried
<1> QED
  BY <1>1, <1>2 DEF CarrierOf

(* A thread that has sent something may set WAKEUP: its queue is not       *)
(* canceled.                                                               *)
LEMMA SenderIsSafe ==
    ASSUME Typed, Roles, Quiet, BitsTrue, NEW t \in Threads, tpc[t] = "or"
    PROVE  tq[t] \in Queues /\ "CANCELED" \notin mpd_state[tq[t]]
<1>1. tq[t] \in Queues
  BY DEF Typed, Roles
<1>2. cq[t] = None
  BY DEF Roles
<1>3. ~ Canceling(tq[t])
  BY <1>1, <1>2, Kinds DEF Quiet
<1> QED
  BY <1>1, <1>3 DEF BitsTrue, Canceling

(* A send to a queue that is not being canceled; the sender sees to the    *)
(* wakeup if the queue was empty.                                          *)
LEMMA EnqueueKeeps ==
    ASSUME ClientRule, DaemonInv, NEW t \in Threads, NEW q \in Leaves, NEW e \in Elements,
           mpsc_daemon_enqueue(t, q, e)
    PROVE  DaemonInv'
<1> USE Kinds DEF ClientRule, DaemonInv, drain, worker, threads,
    mpsc_daemon_enqueue, append, return, Leaves
<1>1. q \in Queues /\ q # Root /\ cq[t] = None /\ tq[t] = None
  BY DEF Roles
<1>2. Typed'
  <2>1. e \in ItemsOf(q)
    BY <1>1 DEF ItemsOf
  <2>2. /\ queue' \in [Queues -> Seq(Elements \union NestedQ)]
        /\ \A r \in Queues : queue'[r] \in Seq(ItemsOf(r))
    BY <1>1, <2>1, AppendTyped
  <2>3. tpc' \in [Threads -> {"idle", "or", "wakeup", "cancel", "block", "cancel_wait"}]
    <3>1. tpc' = [tpc EXCEPT ![t] = IF queue[q] = <<>> THEN "or" ELSE "idle"]
      BY <1>1
    <3> QED
      BY <3>1 DEF Typed
  <2>4. tq' \in [Threads -> Queues \union {None}]
    <3>1. tq' = [tq EXCEPT ![t] = IF queue[q] = <<>> THEN q ELSE None]
      OBVIOUS
    <3> QED
      BY <1>1, <3>1 DEF Typed
  <2> QED
    BY <2>2, <2>3, <2>4 DEF Typed
<1>3. Roles'
  BY DEF Typed, Roles
<1>4. Quiet'
  BY DEF Typed, Quiet, Canceling
<1>5. BitsTrue'
  BY DEF Typed, BitsTrue
<1>6. Drains'
  BY DEF Drains
<1>7. Covered'
  BY DEF Typed, Roles, BitsTrue, Drains, Covered
<1>8. OneCarrier'
  <2>1. \A r \in Queues, u \in Threads : Waker(u, r)' <=> Waker(u, r)
    BY <1>1 DEF Typed, Waker
  <2>2. NestedQ # {} => queue'[Root] = queue[Root]
    BY <1>1
  <2>3. ASSUME NEW r \in Queues
        PROVE  CarrierOf(r)'
    BY <2>1, <2>2, CarrierStays DEF OneCarrier
  <2> QED
    BY <2>3 DEF OneCarrier
<1>9. ListedOnce'
  BY DEF Waker, ListedOnce
<1>10. Finished'
  BY DEF Typed, BitsTrue, Drains, Finished
<1>11. NoPanic'
  BY DEF NoPanic
<1> QED
  BY <1>2, <1>3, <1>4, <1>5, <1>6, <1>7, <1>8, <1>9, <1>10, <1>11

(* WAKEUP is set; the thread that sets it carries the wakeup if nobody     *)
(* else will look.                                                         *)
LEMMA EnqueueWakeupBitKeeps ==
    ASSUME ClientRule, DaemonInv, NEW t \in Threads, enqueue_wakeup_bit(t)
    PROVE  DaemonInv'
<1> USE Kinds DEF ClientRule, DaemonInv, drain, worker, threads,
    enqueue_wakeup_bit, return
<1>1. /\ tq[t] \in Queues /\ "CANCELED" \notin mpd_state[tq[t]] /\ cq[t] = None
      /\ tpc[t] = "or"
  BY SenderIsSafe DEF Roles
<1>2. Typed'
  <2>1. mpd_state' \in [Queues -> SUBSET Bits]
    BY <1>1 DEF Typed, Bits
  <2>2. tpc' \in [Threads -> {"idle", "or", "wakeup", "cancel", "block", "cancel_wait"}]
    <3>1. tpc' = [tpc EXCEPT ![t] = "wakeup"] \/ tpc' = [tpc EXCEPT ![t] = "idle"]
      BY <1>1
    <3> QED
      BY <3>1 DEF Typed
  <2>3. tq' \in [Threads -> Queues \union {None}]
    BY DEF Typed
  <2> QED
    BY <2>1, <2>2, <2>3 DEF Typed
<1>3. Roles'
  BY DEF Typed, Roles
<1>4. Quiet'
  BY DEF Typed, Quiet, Canceling
<1>5. BitsTrue'
  BY DEF Typed, BitsTrue
<1>6. Drains'
  BY DEF Drains
<1>7. Covered'
  BY DEF Typed, Covered
<1>8. OneCarrier'
  <2> SUFFICES ASSUME NEW r \in Queues PROVE CarrierOf(r)'
    BY DEF OneCarrier
  <2>1. CarrierOf(r)
    BY DEF OneCarrier
  <2>2. CASE r # tq[t]
    <3>1. \A u \in Threads : Waker(u, r)' <=> Waker(u, r)
      BY <1>1, <2>2 DEF Typed, Waker
    <3> QED
      BY <1>1, <2>1, <2>2, <3>1, CarrierStays
  <2>3. CASE r = tq[t]
    <3>1. mpd_state'[r] = mpd_state[r] \union {"WAKEUP"}
      BY <1>1, <2>3 DEF Typed
    <3>2. Called(r)' <=> Called(r)
      BY DEF Called
    <3>3. CASE mpd_state[r] \intersect {"DRAINING", "WAKEUP", "INACTIVE"} = {}
      <4>1. ~ Carried(r)
        BY <1>1, <2>1, <2>3, <3>3 DEF CarrierOf
      <4>2. \A u \in Threads : Waker(u, r)' <=> u = t
        BY <1>1, <2>3, <3>3, <4>1 DEF Typed, Waker, Carried
      <4> QED
        BY <1>1, <2>1, <2>3, <3>1, <3>2, <3>3, <4>1, <4>2 DEF CarrierOf,
            Carried
    <3>4. CASE mpd_state[r] \intersect {"DRAINING", "WAKEUP", "INACTIVE"} # {}
      <4>1. \A u \in Threads : Waker(u, r)' <=> Waker(u, r)
        BY <1>1, <2>3, <3>4 DEF Typed, Waker
      <4>2. Carried(r)' <=> Carried(r)
        BY <3>2, <4>1 DEF Carried
      <4> QED
        BY <1>1, <2>1, <3>1, <3>2, <4>1, <4>2 DEF CarrierOf
    <3> QED
      BY <3>3, <3>4
  <2> QED
    BY <2>2, <2>3
<1>9. ListedOnce'
  BY DEF ListedOnce
<1>10. Finished'
  BY DEF Typed, Finished
<1>11. NoPanic'
  BY <1>1 DEF NoPanic
<1> QED
  BY <1>2, <1>3, <1>4, <1>5, <1>6, <1>7, <1>8, <1>9, <1>10, <1>11

(* The drain thread is woken: it carries the wakeup now.                   *)
LEMMA WakeupThreadKeeps ==
    ASSUME ClientRule, DaemonInv, NEW t \in Threads, tq[t] \in ThreadQ, wakeup(t)
    PROVE  DaemonInv'
<1> USE Kinds DEF ClientRule, DaemonInv, drain, worker, threads, wakeup, return
<1>1. tq[t] \in Queues /\ tpc[t] = "wakeup" /\ \A r \in Queues : Waker(t, r) <=> r = tq[t]
  BY DEF Waker
<1>2. Typed'
  <2>1. tpc' \in [Threads -> {"idle", "or", "wakeup", "cancel", "block", "cancel_wait"}]
    <3>1. tpc' = [tpc EXCEPT ![t] = "idle"] \/ tpc' = [tpc EXCEPT ![t] = "block"]
      OBVIOUS
    <3> QED
      BY <3>1 DEF Typed
  <2>2. tq' \in [Threads -> Queues \union {None}] /\ waiting' \in [ThreadQ -> BOOLEAN]
    BY DEF Typed
  <2> QED
    BY <2>1, <2>2 DEF Typed
<1>3. Roles'
  <2>1. /\ tpc' = [tpc EXCEPT ![t] = IF cq[t] = None THEN "idle" ELSE "block"]
        /\ tq' = [tq EXCEPT ![t] = None]
    OBVIOUS
  <2> QED
    BY <1>1, <2>1 DEF Typed, Roles
<1>4. Quiet'
  BY DEF Typed, Quiet, Canceling
<1>5. BitsTrue'
  BY DEF Typed, BitsTrue
<1>6. Drains'
  BY DEF Drains
<1>7. Covered'
  <2>1. \A r \in Queues, u \in Threads :
          tpc[u] = "or" /\ tq[u] = r => tpc'[u] = "or" /\ tq'[u] = r
    BY <1>1 DEF Typed
  <2> QED
    BY <2>1 DEF Covered
<1>8. OneCarrier'
  <2> SUFFICES ASSUME NEW r \in Queues PROVE CarrierOf(r)'
    BY DEF OneCarrier
  <2>1. CarrierOf(r)
    BY DEF OneCarrier
  <2>2. CASE r # tq[t]
    <3>1. \A u \in Threads : Waker(u, r)' <=> Waker(u, r)
      BY <1>1, <2>2 DEF Typed, Waker
    <3> QED
      BY <1>1, <2>1, <2>2, <3>1, CarrierStays DEF Typed
  <2>3. CASE r = tq[t]
    <3> SUFFICES ASSUME "CANCELED" \notin mpd_state[r] PROVE CarrierOf(r)'
      BY DEF CarrierOf
    <3>1. /\ "WAKEUP" \in mpd_state[r] /\ "INACTIVE" \notin mpd_state[r]
          /\ "DRAINING" \notin mpd_state[r] /\ dpc[r] # "xor"
      BY <1>1, <2>1, <2>3 DEF CarrierOf, Carried
    <3>2. \A u \in Threads : Waker(u, r) => u = t
      BY <1>1, <2>1, <2>3 DEF CarrierOf
    <3>3. \A u \in Threads : ~ Waker(u, r)'
      <4>1. tpc'[t] # "wakeup"
        BY DEF Typed
      <4>2. \A u \in Threads : u # t => tpc'[u] = tpc[u] /\ tq'[u] = tq[u]
        BY DEF Typed
      <4> QED
        BY <3>2, <4>1, <4>2 DEF Waker
    <3>4. dpc[r] # "andnot"
      BY <3>1 DEF BitsTrue, Running
    <3> QED
      BY <3>1, <3>3, <3>4 DEF CarrierOf
  <2> QED
    BY <2>2, <2>3
<1>9. ListedOnce'
  BY DEF ListedOnce
<1>10. Finished'
  BY DEF Typed, Finished
<1>11. NoPanic'
  BY DEF NoPanic
<1> QED
  BY <1>2, <1>3, <1>4, <1>5, <1>6, <1>7, <1>8, <1>9, <1>10, <1>11

(* The thread call is entered; nobody does that once the canceler of the   *)
(* queue has canceled the call.                                            *)
LEMMA WakeupCallKeeps ==
    ASSUME ClientRule, DaemonInv, NEW t \in Threads, tq[t] \in CallQ, wakeup(t)
    PROVE  DaemonInv'
<1> USE Kinds DEF ClientRule, DaemonInv, drain, worker, threads, wakeup, return
<1>1. tq[t] \in Queues /\ tpc[t] = "wakeup" /\ \A r \in Queues : Waker(t, r) <=> r = tq[t]
  BY DEF Waker
<1>2. Typed'
  <2>1. tpc' \in [Threads -> {"idle", "or", "wakeup", "cancel", "block", "cancel_wait"}]
    <3>1. tpc' = [tpc EXCEPT ![t] = "idle"] \/ tpc' = [tpc EXCEPT ![t] = "block"]
      OBVIOUS
    <3> QED
      BY <3>1 DEF Typed
  <2>2. tq' \in [Threads -> Queues \union {None}] /\ pending' \in [CallQ -> BOOLEAN]
    BY DEF Typed
  <2> QED
    BY <2>1, <2>2 DEF Typed
<1>3. Roles'
  <2>1. /\ tpc' = [tpc EXCEPT ![t] = IF cq[t] = None THEN "idle" ELSE "block"]
        /\ tq' = [tq EXCEPT ![t] = None]
    OBVIOUS
  <2> QED
    BY <1>1, <2>1 DEF Typed, Roles
<1>4. Quiet'
  BY DEF Typed, Quiet, Canceling
<1>5. BitsTrue'
  BY DEF Typed, BitsTrue
<1>6. Drains'
  BY DEF Drains
<1>7. Covered'
  <2>1. \A r \in Queues, u \in Threads :
          tpc[u] = "or" /\ tq[u] = r => tpc'[u] = "or" /\ tq'[u] = r
    BY <1>1 DEF Typed
  <2> QED
    BY <2>1 DEF Covered
<1>8. OneCarrier'
  <2> SUFFICES ASSUME NEW r \in Queues PROVE CarrierOf(r)'
    BY DEF OneCarrier
  <2>1. CarrierOf(r)
    BY DEF OneCarrier
  <2>2. CASE r # tq[t]
    <3>1. \A u \in Threads : Waker(u, r)' <=> Waker(u, r)
      BY <1>1, <2>2 DEF Typed, Waker
    <3> QED
      BY <1>1, <2>1, <2>2, <3>1, CarrierStays DEF Typed
  <2>3. CASE r = tq[t]
    <3> SUFFICES ASSUME "CANCELED" \notin mpd_state[r] PROVE CarrierOf(r)'
      BY DEF CarrierOf
    <3>1. /\ "WAKEUP" \in mpd_state[r] /\ "INACTIVE" \notin mpd_state[r]
          /\ "DRAINING" \notin mpd_state[r] /\ dpc[r] # "xor"
      BY <1>1, <2>1, <2>3 DEF CarrierOf, Carried
    <3>2. \A u \in Threads : Waker(u, r) => u = t
      BY <1>1, <2>1, <2>3 DEF CarrierOf
    <3>3. \A u \in Threads : ~ Waker(u, r)'
      <4>1. tpc'[t] # "wakeup"
        BY DEF Typed
      <4>2. \A u \in Threads : u # t => tpc'[u] = tpc[u] /\ tq'[u] = tq[u]
        BY DEF Typed
      <4> QED
        BY <3>2, <4>1, <4>2 DEF Waker
    <3>4. dpc[r] # "andnot"
      BY <3>1 DEF BitsTrue, Running
    <3> QED
      BY <3>1, <3>3, <3>4 DEF CarrierOf
  <2> QED
    BY <2>2, <2>3
<1>9. ListedOnce'
  BY DEF ListedOnce
<1>10. Finished'
  <2>1. tq[t] \notin dead
    BY DEF Finished
  <2>2. \A u \in Threads : cq[u] = tq[t] => u = t
    BY <1>1 DEF Roles, Quiet, Canceling
  <2>3. \A r \in CallQ : r # tq[t] => pending'[r] = pending[r]
    BY DEF Typed
  <2>4. \A u \in Threads : tpc'[u] = "cancel_wait" => u # t /\ tpc[u] = "cancel_wait"
    BY DEF Typed
  <2>5. \A u \in Threads, r \in dead : tq'[u] # r
    BY DEF Typed, Finished
  <2> QED
    BY <2>1, <2>2, <2>3, <2>4, <2>5 DEF Finished
<1>11. NoPanic'
  BY DEF NoPanic
<1> QED
  BY <1>2, <1>3, <1>4, <1>5, <1>6, <1>7, <1>8, <1>9, <1>10, <1>11

(* A nested queue is sent to its target, where it is not listed yet.       *)
LEMMA WakeupNestedKeeps ==
    ASSUME ClientRule, DaemonInv, NEW t \in Threads, tq[t] \in NestedQ, wakeup(t)
    PROVE  DaemonInv'
<1> USE Kinds DEF ClientRule, DaemonInv, drain, worker, threads, wakeup,
    append, return
<1>1. tq[t] \in Queues /\ tpc[t] = "wakeup" /\ \A r \in Queues : Waker(t, r) <=> r = tq[t]
  BY DEF Waker
<1>a. cq[t] = None /\ Root \in Queues /\ Root # tq[t] /\ "CANCELED" \notin mpd_state[tq[t]]
  BY <1>1 DEF Typed, Roles, BitsTrue
<1>b. /\ ~ Listed(tq[t], batch[Root]) /\ ~ Listed(tq[t], queue[Root])
      /\ "WAKEUP" \in mpd_state[tq[t]] /\ "INACTIVE" \notin mpd_state[tq[t]]
      /\ "DRAINING" \notin mpd_state[tq[t]] /\ dpc[tq[t]] # "xor"
      /\ \A u \in Threads : Waker(u, tq[t]) => u = t
  BY <1>1, <1>a DEF OneCarrier, CarrierOf, Carried, Called
<1>c. /\ queue'[Root] = Append(queue[Root], tq[t])
      /\ \A r \in Queues : r # Root => queue'[r] = queue[r]
  BY <1>1, <1>a DEF Typed
<1>d. /\ tpc' = [tpc EXCEPT ![t] = IF queue[Root] = <<>> THEN "or" ELSE "idle"]
      /\ tq' = [tq EXCEPT ![t] = IF queue[Root] = <<>> THEN Root ELSE None]
  BY <1>a
<1>e. /\ \A x : Listed(x, queue'[Root]) <=> Listed(x, queue[Root]) \/ x = tq[t]
      /\ Once(queue[Root]) => Once(queue'[Root])
  BY <1>a, <1>b, <1>c, ListedAppend DEF Typed
<1>2. Typed'
  <2>1. tq[t] \in ItemsOf(Root)
    BY DEF ItemsOf
  <2>2. /\ queue' \in [Queues -> Seq(Elements \union NestedQ)]
        /\ \A r \in Queues : queue'[r] \in Seq(ItemsOf(r))
    BY <1>a, <2>1, AppendTyped
  <2>3. tpc' \in [Threads -> {"idle", "or", "wakeup", "cancel", "block", "cancel_wait"}]
    BY <1>d DEF Typed
  <2>4. tq' \in [Threads -> Queues \union {None}]
    BY <1>a, <1>d DEF Typed
  <2> QED
    BY <2>2, <2>3, <2>4 DEF Typed
<1>3. Roles'
  BY <1>1, <1>a, <1>d DEF Typed, Roles
<1>4. Quiet'
  BY DEF Typed, Roles, Quiet, Canceling
<1>5. BitsTrue'
  BY DEF Typed, BitsTrue
<1>6. Drains'
  BY DEF Drains
<1>7. Covered'
  <2>1. \A r \in Queues, u \in Threads :
          tpc[u] = "or" /\ tq[u] = r => tpc'[u] = "or" /\ tq'[u] = r
    BY <1>1, <1>d
  <2>2. queue[Root] = <<>> => tpc'[t] = "or" /\ tq'[t] = Root
    BY <1>d DEF Typed
  <2> QED
    BY <1>a, <1>c, <2>1, <2>2 DEF Covered
<1>8. OneCarrier'
  <2> SUFFICES ASSUME NEW r \in Queues PROVE CarrierOf(r)'
    BY DEF OneCarrier
  <2>1. CarrierOf(r)
    BY DEF OneCarrier
  <2>2. CASE r # tq[t]
    <3>1. \A u \in Threads : Waker(u, r)' <=> Waker(u, r)
      BY <1>1, <1>d, <2>2 DEF Typed, Waker
    <3> QED
      BY <1>e, <2>1, <2>2, <3>1, CarrierStays
  <2>3. CASE r = tq[t]
    <3>1. \A u \in Threads : ~ Waker(u, r)'
      BY <1>b, <1>d, <2>3 DEF Typed, Waker
    <3>2. dpc'[r] # "andnot" /\ dpc'[r] # "xor"
      BY <1>b, <2>3 DEF BitsTrue, Running
    <3> QED
      BY <1>b, <2>3, <3>1, <3>2 DEF CarrierOf
  <2> QED
    BY <2>2, <2>3
<1>9. ListedOnce'
  BY <1>b, <1>e DEF ListedOnce
<1>10. Finished'
  <2>1. Root \notin dead /\ (\A u \in Threads : cq[u] # Root) /\ dpc[Root] # "canceled"
    BY <1>a DEF Typed, Roles, Drains, BitsTrue
  <2>2. \A r \in Queues : r \in dead => r # Root
    BY <2>1
  <2>3. \A u \in Threads, r \in dead : tq'[u] # r
    BY <1>d, <2>1 DEF Typed, Finished
  <2>4. \A u \in Threads : tpc'[u] = "cancel_wait" => tpc[u] = "cancel_wait"
    BY <1>d
  <2> QED
    BY <1>c, <2>1, <2>3, <2>4 DEF Typed, Finished
<1>11. NoPanic'
  BY DEF NoPanic
<1> QED
  BY <1>2, <1>3, <1>4, <1>5, <1>6, <1>7, <1>8, <1>9, <1>10, <1>11

(* A queue becomes active: a wakeup that was held back is the activator's  *)
(* to carry.                                                               *)
LEMMA ActivateKeeps ==
    ASSUME ClientRule, DaemonInv, NEW t \in Threads, NEW q \in Inactive,
           mpsc_daemon_queue_activate(t, q)
    PROVE  DaemonInv'
<1> USE Kinds DEF ClientRule, DaemonInv, drain, worker, threads,
    mpsc_daemon_queue_activate
<1>1. q \in Queues /\ cq[t] = None /\ tq[t] = None /\ tpc[t] = "idle"
  BY DEF Roles
<1>a. mpd_state'[q] = mpd_state[q] \ {"INACTIVE"} /\ "INACTIVE" \in mpd_state[q]
  BY <1>1 DEF Typed
<1>b. \/ /\ "WAKEUP" \in mpd_state[q]
         /\ tpc' = [tpc EXCEPT ![t] = "wakeup"] /\ tq' = [tq EXCEPT ![t] = q]
      \/ "WAKEUP" \notin mpd_state[q] /\ tpc' = tpc /\ tq' = tq
  OBVIOUS
<1>2. Typed'
  <2>1. mpd_state' \in [Queues -> SUBSET Bits]
    BY <1>1 DEF Typed
  <2>2. tpc' \in [Threads -> {"idle", "or", "wakeup", "cancel", "block", "cancel_wait"}]
    <3>1. CASE tpc' = tpc
      BY <3>1 DEF Typed
    <3>2. CASE tpc' = [tpc EXCEPT ![t] = "wakeup"]
      BY <3>2 DEF Typed
    <3> QED
      BY <1>b, <3>1, <3>2
  <2>3. tq' \in [Threads -> Queues \union {None}]
    BY <1>1, <1>b DEF Typed
  <2> QED
    BY <2>1, <2>2, <2>3 DEF Typed
<1>3. Roles'
  BY <1>1, <1>b DEF Typed, Roles
<1>4. Quiet'
  BY DEF Typed, Quiet, Canceling
<1>5. BitsTrue'
  BY DEF Typed, BitsTrue
<1>6. Drains'
  BY DEF Drains
<1>7. Covered'
  <2>1. \A r \in Queues, u \in Threads :
          tpc[u] = "or" /\ tq[u] = r => tpc'[u] = "or" /\ tq'[u] = r
    BY <1>1, <1>b DEF Typed
  <2>2. \A r \in Queues : "WAKEUP" \in mpd_state[r] => "WAKEUP" \in mpd_state'[r]
    BY <1>1, <1>a
  <2> QED
    BY <2>1, <2>2 DEF Covered
<1>8. OneCarrier'
  <2> SUFFICES ASSUME NEW r \in Queues PROVE CarrierOf(r)'
    BY DEF OneCarrier
  <2>1. CarrierOf(r)
    BY DEF OneCarrier
  <2>2. CASE r # q
    <3>1. \A u \in Threads : Waker(u, r)' <=> Waker(u, r)
      BY <1>1, <1>b, <2>2 DEF Typed, Waker
    <3> QED
      BY <1>1, <2>1, <2>2, <3>1, CarrierStays
  <2>3. CASE r = q
    <3> SUFFICES ASSUME "CANCELED" \notin mpd_state'[r] PROVE CarrierOf(r)'
      BY DEF CarrierOf
    <3>1. ~ Carried(r) /\ "DRAINING" \notin mpd_state[r]
      BY <1>a, <2>1, <2>3 DEF CarrierOf, BitsTrue
    <3>2. ~ Called(r)' /\ dpc'[r] # "xor" /\ dpc'[r] # "andnot"
      BY <3>1 DEF Carried, Called, BitsTrue, Running
    <3>3. \A u \in Threads : Waker(u, r)' => u = t /\ "WAKEUP" \in mpd_state[q]
      BY <1>1, <1>b, <3>1 DEF Typed, Waker, Carried
    <3> QED
      BY <1>a, <2>3, <3>1, <3>2, <3>3 DEF CarrierOf, Carried
  <2> QED
    BY <2>2, <2>3
<1>9. ListedOnce'
  BY DEF ListedOnce
<1>10. Finished'
  BY DEF Typed, Quiet, Canceling, Finished
<1>11. NoPanic'
  BY DEF NoPanic
<1> QED
  BY <1>2, <1>3, <1>4, <1>5, <1>6, <1>7, <1>8, <1>9, <1>10, <1>11

(* A cancelation begins when every sender has returned.                    *)
LEMMA CancelAndWaitKeeps ==
    ASSUME ClientRule, DaemonInv, NEW t \in Threads, NEW q \in Cancelable,
           mpsc_daemon_queue_cancel_and_wait(t, q)
    PROVE  DaemonInv'
<1> USE Kinds DEF ClientRule, DaemonInv, drain, worker, threads,
    mpsc_daemon_queue_cancel_and_wait
<1>1. Typed'
  BY DEF Typed
<1>2. Roles'
  BY DEF Typed, Roles
<1>3. Quiet'
  BY DEF Roles, Quiet, Canceling
<1>4. BitsTrue'
  BY DEF Typed, Roles, BitsTrue
<1>5. Drains'
  BY DEF Drains
<1>6. Covered'
  BY DEF Covered
<1>7. OneCarrier'
  BY DEF OneCarrier, CarrierOf, Carried, Called, Waker
<1>8. ListedOnce'
  BY DEF ListedOnce
<1>9. Finished'
  BY DEF Typed, Finished
<1>10. NoPanic'
  BY DEF NoPanic
<1> QED
  BY <1>1, <1>2, <1>3, <1>4, <1>5, <1>6, <1>7, <1>8, <1>9, <1>10

(* CANCELED is set and the canceler will wake the drainer, besides whoever *)
(* carries a wakeup.                                                       *)
LEMMA CancelBitKeeps ==
    ASSUME ClientRule, DaemonInv, NEW t \in Threads, cancel_bit(t)
    PROVE  DaemonInv'
<1> USE Kinds DEF ClientRule, DaemonInv, drain, worker, threads, cancel_bit
<1>1. /\ cq[t] \in Queues /\ cq[t] \notin NestedQ /\ cq[t] # None /\ cq[t] \in Cancelable
      /\ tpc[t] = "cancel" /\ tq[t] = None /\ cwait[t]
  BY DEF Roles
<1>a. /\ tpc' = [tpc EXCEPT ![t] = "wakeup"] /\ tq' = [tq EXCEPT ![t] = cq[t]]
      /\ cwait' = cwait
      /\ mpd_state' = [mpd_state EXCEPT ![cq[t]] = @ \union {"CANCELED"}]
  BY <1>1
<1>2. Typed'
  BY <1>1, <1>a DEF Typed, Bits
<1>3. Roles'
  BY <1>1, <1>a DEF Typed, Roles
<1>4. Quiet'
  BY DEF Typed, Quiet, Canceling
<1>5. BitsTrue'
  BY DEF Typed, BitsTrue
<1>6. Drains'
  BY DEF Drains
<1>7. Covered'
  <2>1. \A r \in Queues, u \in Threads :
          tpc[u] = "or" /\ tq[u] = r => tpc'[u] = "or" /\ tq'[u] = r
    BY <1>1, <1>a
  <2>2. \A r \in Queues : "WAKEUP" \in mpd_state[r] => "WAKEUP" \in mpd_state'[r]
    BY <1>1, <1>a
  <2> QED
    BY <2>1, <2>2 DEF Covered
<1>8. OneCarrier'
  <2> SUFFICES ASSUME NEW r \in Queues PROVE CarrierOf(r)'
    BY DEF OneCarrier
  <2>1. CarrierOf(r)
    BY DEF OneCarrier
  <2>2. CASE r # cq[t]
    <3>1. \A u \in Threads : Waker(u, r)' <=> Waker(u, r)
      BY <1>1, <1>a, <2>2 DEF Waker
    <3> QED
      BY <1>1, <1>a, <2>1, <2>2, <3>1, CarrierStays
  <2>3. CASE r = cq[t]
    BY <1>1, <1>a, <2>3 DEF Typed, CarrierOf
  <2> QED
    BY <2>2, <2>3
<1>9. ListedOnce'
  BY DEF ListedOnce
<1>10. Finished'
  BY DEF Typed, Roles, BitsTrue, Finished
<1>11. NoPanic'
  BY DEF NoPanic
<1> QED
  BY <1>2, <1>3, <1>4, <1>5, <1>6, <1>7, <1>8, <1>9, <1>10, <1>11

(* The canceler has been woken and cancels the thread call; nobody enters  *)
(* it again.                                                               *)
LEMMA CancelBlockKeeps ==
    ASSUME ClientRule, DaemonInv, NEW t \in Threads, cancel_block(t)
    PROVE  DaemonInv'
<1> USE Kinds DEF ClientRule, DaemonInv, drain, worker, threads, cancel_block
<1>1. /\ tpc[t] = "block" /\ cq[t] \in Queues /\ cq[t] # None /\ ~ cwait[t]
  BY DEF Roles
<1>2. Typed'
  BY DEF Typed, Running, ItemsOf
<1>3. Roles'
  BY DEF Roles
<1>4. Quiet'
  BY DEF Quiet, Canceling
<1>5. BitsTrue'
  BY DEF BitsTrue
<1>6. Drains'
  BY DEF Drains
<1>7. Covered'
  BY DEF Covered
<1>8. OneCarrier'
  BY DEF Typed, Roles, BitsTrue, OneCarrier, CarrierOf, Carried, Called, Waker
<1>9. ListedOnce'
  BY DEF ListedOnce
<1>10. Finished'
  <2>1. \A r \in CallQ : pending'[r] => pending[r]
    BY <1>1 DEF Typed
  <2>2. cq[t] \in CallQ => ~ pending'[cq[t]]
    BY <1>1 DEF Typed
  <2>3. \A u \in Threads : u # t => tpc'[u] = tpc[u]
    BY DEF Typed
  <2> QED
    BY <2>1, <2>2, <2>3 DEF Finished
<1>11. NoPanic'
  BY DEF NoPanic
<1> QED
  BY <1>2, <1>3, <1>4, <1>5, <1>6, <1>7, <1>8, <1>9, <1>10, <1>11

(* The cancelation returns.                                                *)
LEMMA CancelReturnKeeps ==
    ASSUME ClientRule, DaemonInv, NEW t \in Threads, cancel_return(t)
    PROVE  DaemonInv'
<1> USE Kinds DEF ClientRule, DaemonInv, drain, worker, threads, cancel_return
<1>1. /\ tpc[t] = "cancel_wait" /\ cq[t] \in Queues /\ cq[t] # None /\ ~ cwait[t]
      /\ cq[t] \in Cancelable /\ tq[t] = None /\ cq[t] \notin NestedQ
  BY DEF Roles
<1>2. Typed'
  BY <1>1 DEF Typed
<1>3. Roles'
  BY DEF Typed, Roles
<1>4. Quiet'
  BY DEF Roles, Quiet, Canceling
<1>5. BitsTrue'
  BY DEF BitsTrue
<1>6. Drains'
  BY DEF Drains
<1>7. Covered'
  BY DEF Covered
<1>8. OneCarrier'
  BY DEF OneCarrier, CarrierOf, Carried, Called, Waker
<1>9. ListedOnce'
  BY DEF ListedOnce
<1>10. Finished'
  <2>1. /\ queue[cq[t]] = <<>> /\ batch[cq[t]] = <<>>
        /\ cq[t] \in ThreadQ => dpc[cq[t]] = "terminated"
        /\ cq[t] \in CallQ => ~ pending[cq[t]] /\ dpc[cq[t]] = "off"
    BY <1>1 DEF Finished
  <2>2. \A u \in Threads : tq[u] # cq[t]
    BY <1>1 DEF Roles, Quiet, Canceling
  <2>3. \A u \in Threads : cq'[u] # None => u # t /\ cq'[u] = cq[u] /\ tpc'[u] = tpc[u]
    BY <1>1 DEF Typed
  <2> QED
    BY <1>1, <2>1, <2>2, <2>3 DEF Finished
<1>11. NoPanic'
  BY DEF NoPanic
<1> QED
  BY <1>2, <1>3, <1>4, <1>5, <1>6, <1>7, <1>8, <1>9, <1>10, <1>11

(* The drain thread runs.                                                  *)
LEMMA ThreadContinueKeeps ==
    ASSUME ClientRule, DaemonInv, NEW q \in ThreadQ, thread_continue(q)
    PROVE  DaemonInv'
<1> USE Kinds DEF ClientRule, DaemonInv, drain, worker, threads,
    thread_continue
<1>1. Typed'
  BY DEF Typed
<1>2. Roles'
  BY DEF Roles
<1>3. Quiet'
  BY DEF Quiet, Canceling
<1>4. BitsTrue'
  BY DEF BitsTrue, Running
<1>5. Drains'
  BY DEF Drains
<1>6. Covered'
  BY DEF Covered
<1>7. OneCarrier'
  BY DEF OneCarrier, CarrierOf, Carried, Called, Waker
<1>8. ListedOnce'
  BY DEF ListedOnce
<1>9. Finished'
  BY DEF Finished
<1>10. NoPanic'
  BY DEF NoPanic
<1> QED
  BY <1>1, <1>2, <1>3, <1>4, <1>5, <1>6, <1>7, <1>8, <1>9, <1>10

(* The thread call runs.                                                   *)
LEMMA ThreadCallDrainKeeps ==
    ASSUME ClientRule, DaemonInv, NEW q \in CallQ, thread_call_drain(q)
    PROVE  DaemonInv'
<1> USE Kinds DEF ClientRule, DaemonInv, drain, worker, threads,
    thread_call_drain
<1>1. Typed'
  BY DEF Typed
<1>2. Roles'
  BY DEF Roles
<1>3. Quiet'
  BY DEF Quiet, Canceling
<1>4. BitsTrue'
  BY DEF BitsTrue, Running
<1>5. Drains'
  BY DEF Drains
<1>6. Covered'
  BY DEF Covered
<1>7. OneCarrier'
  BY DEF Typed, OneCarrier, CarrierOf, Carried, Called, Waker
<1>8. ListedOnce'
  BY DEF ListedOnce
<1>9. Finished'
  BY DEF Finished
<1>10. NoPanic'
  BY DEF NoPanic
<1> QED
  BY <1>1, <1>2, <1>3, <1>4, <1>5, <1>6, <1>7, <1>8, <1>9, <1>10

(* The drain that carries the wakeup clears WAKEUP; no other drain of the  *)
(* queue runs.                                                             *)
LEMMA DrainXorKeeps ==
    ASSUME ClientRule, DaemonInv, NEW q \in Queues, drain_xor(q)
    PROVE  DaemonInv'
<1> USE Kinds DEF ClientRule, DaemonInv, drain, worker, threads, drain_xor
<1>1. Typed'
  BY DEF Typed, Bits, Running
<1>2. Roles'
  BY DEF Roles
<1>3. Quiet'
  BY DEF Quiet, Canceling
<1>4. BitsTrue'
  BY DEF Typed, Quiet, BitsTrue, Canceling, OneCarrier, CarrierOf, Carried,
      Running
<1>5. Drains'
  BY DEF Drains
<1>6. Covered'
  BY DEF Typed, Covered
<1>7. OneCarrier'
  BY DEF Typed, OneCarrier, CarrierOf, Carried, Called, Waker
<1>8. ListedOnce'
  BY DEF ListedOnce
<1>9. Finished'
  BY DEF Finished
<1>10. NoPanic'
  BY DEF BitsTrue, OneCarrier, CarrierOf, Carried, NoPanic, Running
<1> QED
  BY <1>1, <1>2, <1>3, <1>4, <1>5, <1>6, <1>7, <1>8, <1>9, <1>10

(* The WAKEUP bit that the xor of a canceled queue has set is cleared.     *)
LEMMA DrainFixKeeps ==
    ASSUME ClientRule, DaemonInv, NEW q \in Queues, drain_fix(q)
    PROVE  DaemonInv'
<1> USE Kinds DEF ClientRule, DaemonInv, drain, worker, threads, drain_fix
<1>1. Typed'
  BY DEF Typed, Running
<1>2. Roles'
  BY DEF Roles
<1>3. Quiet'
  BY DEF Quiet, Canceling
<1>4. BitsTrue'
  BY DEF BitsTrue, Running
<1>5. Drains'
  BY DEF Drains
<1>6. Covered'
  BY DEF Covered
<1>7. OneCarrier'
  BY DEF Typed, BitsTrue, Drains, OneCarrier, CarrierOf, Carried, Called, Waker
<1>8. ListedOnce'
  BY DEF ListedOnce
<1>9. Finished'
  BY DEF Finished
<1>10. NoPanic'
  BY DEF NoPanic
<1> QED
  BY <1>1, <1>2, <1>3, <1>4, <1>5, <1>6, <1>7, <1>8, <1>9, <1>10

(* The drain takes everything that has been sent, or finds nothing.        *)
LEMMA DrainDequeueKeeps ==
    ASSUME ClientRule, DaemonInv, NEW q \in Queues, drain_dequeue(q)
    PROVE  DaemonInv'
<1> USE Kinds DEF ClientRule, DaemonInv, drain, worker, threads, drain_dequeue
<1>a. /\ dpc' = [dpc EXCEPT ![q] = IF queue[q] = <<>> THEN "andnot" ELSE "invoke"]
      /\ batch' = [batch EXCEPT ![q] = queue[q]] /\ queue' = [queue EXCEPT ![q] = <<>>]
  OBVIOUS
<1>1. Typed'
  <2>1. dpc' \in [Queues -> Running \union {"off", "blocked", "xor", "canceled", "terminated"}]
    BY <1>a DEF Typed, Running
  <2>2. \A S : <<>> \in Seq(S)
    BY EmptySeq
  <2>3. /\ queue' \in [Queues -> Seq(Elements \union NestedQ)]
        /\ batch' \in [Queues -> Seq(Elements \union NestedQ)]
    BY <1>a, <2>2 DEF Typed
  <2>4. \A r \in Queues : queue'[r] \in Seq(ItemsOf(r)) /\ batch'[r] \in Seq(ItemsOf(r))
    BY <1>a, <2>2 DEF Typed
  <2>5. waiting' \in [ThreadQ -> BOOLEAN]
    BY DEF Typed
  <2> QED
    BY <2>1, <2>3, <2>4, <2>5 DEF Typed
<1>2. Roles'
  BY DEF Roles
<1>3. Quiet'
  BY DEF Quiet, Canceling
<1>4. BitsTrue'
  BY <1>a DEF BitsTrue, Running
<1>5. Drains'
  <2>1. \A r \in NestedQ : dpc'[r] = "off" <=> dpc[r] = "off"
    BY <1>a
  <2>2. NestedQ # {} /\ dpc[Root] = "nested" => dpc'[Root] = "nested"
    BY <1>a
  <2>3. \A r \in Queues : r # q => dpc'[r] = dpc[r] /\ batch'[r] = batch[r]
    BY <1>a
  <2>4. /\ batch'[q] = queue[q]
        /\ dpc'[q] = IF queue[q] = <<>> THEN "andnot" ELSE "invoke"
    BY <1>a DEF Typed
  <2> QED
    BY <2>1, <2>2, <2>3, <2>4 DEF Drains
<1>6. Covered'
  BY DEF Typed, Covered
<1>7. OneCarrier'
  BY DEF Typed, OneCarrier, CarrierOf, Carried, Called, Waker
<1>8. ListedOnce'
  <2>1. CASE q = Root
    BY <1>a, <2>1, ListedEmpty DEF Typed, ListedOnce
  <2>2. CASE q # Root
    BY <1>a, <2>2 DEF ListedOnce
  <2> QED
    BY <2>1, <2>2
<1>9. Finished'
  BY DEF Typed, Finished
<1>10. NoPanic'
  BY DEF NoPanic
<1> QED
  BY <1>1, <1>2, <1>3, <1>4, <1>5, <1>6, <1>7, <1>8, <1>9, <1>10

(* An item of a leaf is invoked.                                           *)
LEMMA InvokeItemKeeps ==
    ASSUME ClientRule, DaemonInv, NEW q \in Queues, q # Root, drain_invoke(q)
    PROVE  DaemonInv'
<1> USE Kinds DEF ClientRule, DaemonInv, drain, worker, threads, drain_invoke
<1>1. /\ dpc[q] = "invoke" /\ batch[q] \in Seq(Elements) /\ batch[q] # <<>>
  BY DEF Typed, ItemsOf, Drains
<1>a. Head(batch[q]) \in Elements /\ Tail(batch[q]) \in Seq(Elements)
  BY <1>1, HeadTailProperties
<1>b. /\ batch' = [batch EXCEPT ![q] = Tail(batch[q])]
      /\ dpc' = [dpc EXCEPT ![q] = IF Tail(batch[q]) = <<>> THEN "dequeue" ELSE "invoke"]
      /\ sent' \subseteq Elements
  BY <1>1, <1>a DEF Typed
<1>c. \A r \in Queues : r # q => dpc'[r] = dpc[r] /\ batch'[r] = batch[r]
  BY <1>b
<1>d. /\ batch'[q] = Tail(batch[q])
      /\ dpc'[q] = IF Tail(batch[q]) = <<>> THEN "dequeue" ELSE "invoke"
  BY <1>b DEF Typed
<1> HIDE DEF drain_invoke
<1>e. UNCHANGED <<mpd_state, queue, worker, threads, dead, panicked>>
  BY DEF drain_invoke
<1>2. Typed'
  <2>1. dpc' \in [Queues -> Running \union {"off", "blocked", "xor", "canceled", "terminated"}]
    BY <1>b DEF Typed, Running
  <2>2. Tail(batch[q]) \in Seq(Elements \union NestedQ)
    BY <1>a, SeqMonotonic
  <2>3. batch' \in [Queues -> Seq(Elements \union NestedQ)]
    BY <1>b, <2>2 DEF Typed
  <2>4. \A r \in Queues : batch'[r] \in Seq(ItemsOf(r))
    BY <1>a, <1>c, <1>d DEF Typed, ItemsOf
  <2> QED
    BY <1>b, <1>e, <2>1, <2>3, <2>4 DEF Typed
<1>3. Roles'
  BY <1>e DEF Roles
<1>4. Quiet'
  BY <1>e DEF Quiet, Canceling
<1>5. BitsTrue'
  BY <1>1, <1>c, <1>d, <1>e DEF BitsTrue, Running
<1>6. Drains'
  BY <1>1, <1>c, <1>d, <1>e DEF Drains
<1>7. Covered'
  BY <1>1, <1>c, <1>d, <1>e DEF Covered
<1>8. OneCarrier'
  <2> SUFFICES ASSUME NEW r \in Queues PROVE CarrierOf(r)'
    BY DEF OneCarrier
  <2>1. CarrierOf(r)
    BY DEF OneCarrier
  <2>2. CASE r # q
    <3>1. \A u \in Threads : Waker(u, r)' <=> Waker(u, r)
      BY <1>e DEF Waker
    <3> QED
      BY <1>c, <1>e, <2>1, <2>2, <3>1, CarrierStays
  <2>3. CASE r = q
    <3>1. ~ Carried(r)' \/ "CANCELED" \in mpd_state[r]
      BY <1>1, <1>c, <1>d, <1>e, <2>1, <2>3 DEF CarrierOf, BitsTrue, Running,
          Carried, Called, Waker
    <3>2. dpc'[r] # "andnot"
      BY <1>d, <2>3
    <3> QED
      BY <1>e, <3>1, <3>2 DEF CarrierOf, Carried
  <2> QED
    BY <2>2, <2>3
<1>9. ListedOnce'
  BY <1>c, <1>e DEF ListedOnce
<1>10. Finished'
  <2>1. q \notin dead
    BY <1>1 DEF Finished
  <2>2. \A u \in Threads : cq[u] = q => cwait[u]
    BY <1>1 DEF Finished
  <2> QED
    BY <1>c, <1>d, <1>e, <2>1, <2>2 DEF Typed, Finished
<1>11. NoPanic'
  BY <1>e DEF NoPanic
<1> QED
  BY <1>2, <1>3, <1>4, <1>5, <1>6, <1>7, <1>8, <1>9, <1>10, <1>11

(* The target invokes a nested queue: its drain carries the wakeup now,    *)
(* and the queue is listed no more.                                        *)
LEMMA InvokeNestedKeeps ==
    ASSUME ClientRule, DaemonInv, NEW q \in Queues, q = Root, drain_invoke(q)
    PROVE  DaemonInv'
<1> USE Kinds DEF ClientRule, DaemonInv, drain, worker, threads, drain_invoke
<1> DEFINE x == Head(batch[Root])
<1>1. /\ Root \in Queues /\ dpc[Root] = "invoke" /\ batch[Root] \in Seq(NestedQ)
      /\ batch[Root] # <<>>
  BY DEF Typed, ItemsOf, Drains
<1>a. x \in NestedQ /\ Tail(batch[Root]) \in Seq(NestedQ)
  BY <1>1, HeadTailProperties
<1>b. /\ \A y : Listed(y, batch[Root]) <=> Listed(y, Tail(batch[Root])) \/ y = x
      /\ Once(Tail(batch[Root])) /\ ~ Listed(x, Tail(batch[Root])) /\ ~ Listed(x, queue[Root])
  BY <1>1, <1>a, ListedTail DEF ListedOnce
<1> HIDE DEF x
<1>c. /\ x \in Queues /\ x # Root /\ dpc[x] = "off" /\ "CANCELED" \notin mpd_state[x]
      /\ x \notin ThreadQ /\ x \notin CallQ /\ x \notin dead
      /\ \A y \in NestedQ : dpc[y] = "off"
  BY <1>1, <1>a DEF Drains, BitsTrue, Typed, Roles
<1>d. /\ batch' = [batch EXCEPT ![Root] = Tail(batch[Root])]
      /\ dpc' = [dpc EXCEPT ![Root] = "nested", ![x] = "xor"]
  BY <1>a, <1>c DEF x
<1>e. UNCHANGED <<mpd_state, queue, worker, sent, threads, dead, panicked>>
  BY <1>a, <1>c
<1> HIDE DEF drain_invoke
<1>f. /\ batch'[Root] = Tail(batch[Root]) /\ dpc'[Root] = "nested" /\ dpc'[x] = "xor"
      /\ \A r \in Queues : r # Root => batch'[r] = batch[r]
      /\ \A r \in Queues : r # Root /\ r # x => dpc'[r] = dpc[r]
  BY <1>1, <1>c, <1>d DEF Typed
<1>2. Typed'
  <2>1. dpc' \in [Queues -> Running \union {"off", "blocked", "xor", "canceled", "terminated"}]
    BY <1>1, <1>c, <1>d DEF Typed, Running
  <2>2. Tail(batch[Root]) \in Seq(Elements \union NestedQ)
    BY <1>a, SeqMonotonic
  <2>3. batch' \in [Queues -> Seq(Elements \union NestedQ)]
    BY <1>d, <2>2 DEF Typed
  <2>4. \A r \in Queues : batch'[r] \in Seq(ItemsOf(r))
    BY <1>a, <1>f DEF Typed, ItemsOf
  <2> QED
    BY <1>e, <2>1, <2>3, <2>4 DEF Typed
<1>3. Roles'
  BY <1>e DEF Roles
<1>4. Quiet'
  BY <1>e DEF Quiet, Canceling
<1>5. BitsTrue'
  BY <1>1, <1>c, <1>e, <1>f DEF BitsTrue, Running
<1>6. Drains'
  BY <1>1, <1>c, <1>e, <1>f DEF Drains
<1>7. Covered'
  BY <1>1, <1>c, <1>e, <1>f DEF Covered
<1>8. OneCarrier'
  <2> SUFFICES ASSUME NEW r \in Queues PROVE CarrierOf(r)'
    BY DEF OneCarrier
  <2>1. CarrierOf(r)
    BY DEF OneCarrier
  <2>2. \A u \in Threads : Waker(u, r)' <=> Waker(u, r)
    BY <1>e DEF Waker
  <2>3. CASE r # Root /\ r # x
    <3>1. Listed(r, batch'[Root]) <=> Listed(r, batch[Root])
      BY <1>b, <1>f, <2>3
    <3> QED
      BY <1>e, <1>f, <2>1, <2>2, <2>3, <3>1, CarrierStays
  <2>4. CASE r = Root
    <3>1. ~ Carried(r)' \/ "CANCELED" \in mpd_state[r]
      BY <1>1, <1>c, <1>e, <1>f, <2>1, <2>2, <2>4 DEF CarrierOf, BitsTrue,
          Running, Carried, Called
    <3> QED
      BY <1>e, <1>f, <2>4, <3>1 DEF CarrierOf, Carried
  <2>5. CASE r = x
    <3>1. Called(r)
      BY <1>a, <1>b, <2>5 DEF Called
    <3>2. ~ Called(r)'
      BY <1>b, <1>c, <1>e, <1>f, <2>5 DEF Called
    <3>3. /\ "WAKEUP" \in mpd_state'[r] /\ "DRAINING" \notin mpd_state'[r]
          /\ "INACTIVE" \notin mpd_state'[r] /\ \A u \in Threads : ~ Waker(u, r)'
      BY <1>c, <1>e, <2>1, <2>2, <2>5, <3>1 DEF CarrierOf, Carried
    <3> QED
      BY <1>f, <2>5, <3>2, <3>3 DEF CarrierOf
  <2> QED
    BY <2>3, <2>4, <2>5
<1>9. ListedOnce'
  BY <1>b, <1>e, <1>f DEF ListedOnce
<1>10. Finished'
  <2>1. Root \notin dead /\ \A u \in Threads : cq[u] # Root /\ cq[u] # x
    BY <1>a, <1>c DEF Typed, Roles
  <2>2. \A u \in Threads : cq[u] # None
          => dpc'[cq[u]] = dpc[cq[u]] /\ batch'[cq[u]] = batch[cq[u]]
    BY <1>f, <2>1 DEF Typed
  <2>3. \A r \in dead : dpc'[r] = dpc[r] /\ batch'[r] = batch[r]
    BY <1>c, <1>f, <2>1 DEF Typed
  <2>4. \A r \in Queues : dpc'[r] = "canceled" => dpc[r] = "canceled"
    BY <1>f
  <2> QED
    BY <1>e, <2>2, <2>3, <2>4 DEF Finished
<1>11. NoPanic'
  BY <1>e DEF NoPanic
<1> QED
  BY <1>2, <1>3, <1>4, <1>5, <1>6, <1>7, <1>8, <1>9, <1>10, <1>11

(* The drain gives up DRAINING: it starts over if WAKEUP is set, and       *)
(* otherwise nothing is left in the queue of a canceled queue.             *)
LEMMA DrainAndnotKeeps ==
    ASSUME ClientRule, DaemonInv, NEW q \in Queues, drain_andnot(q)
    PROVE  DaemonInv'
<1> USE Kinds DEF ClientRule, DaemonInv, drain, worker, threads, drain_andnot,
    drain_return
<1>1. /\ dpc[q] = "andnot"
      /\ q \in NestedQ => /\ Root \in Queues /\ Root # q /\ dpc[Root] = "nested"
                          /\ "CANCELED" \notin mpd_state[q]
  BY DEF Drains, BitsTrue, Typed, Roles
<1>a. /\ mpd_state'[q] = mpd_state[q] \ {"DRAINING"}
      /\ \A r \in Queues : r # q => mpd_state'[r] = mpd_state[r]
  BY DEF Typed
<1>b. /\ dpc'[q] = IF "WAKEUP" \in mpd_state[q] THEN "xor"
                   ELSE IF "CANCELED" \in mpd_state[q] THEN "canceled"
                   ELSE IF q \in ThreadQ THEN "blocked" ELSE "off"
      /\ \A r \in Queues : r # q =>
            \/ dpc'[r] = dpc[r] /\ (r = Root /\ q \in NestedQ => dpc'[q] = "xor")
            \/ /\ r = Root /\ q \in NestedQ /\ dpc'[q] = "off"
               /\ dpc'[r] = IF batch[Root] = <<>> THEN "dequeue" ELSE "invoke"
  BY <1>1 DEF Typed
<1>c. "CANCELED" \in mpd_state[q] /\ "WAKEUP" \notin mpd_state[q] => queue[q] = <<>>
  BY <1>1, SenderIsSafe DEF Covered
<1>d. /\ mpd_state' \in [Queues -> SUBSET Bits]
      /\ UNCHANGED <<queue, batch, pending, sent, threads, dead, panicked>>
      /\ \A r \in ThreadQ : r # q => waiting'[r] = waiting[r]
      /\ q \in ThreadQ /\ "WAKEUP" \notin mpd_state[q] => waiting'[q] = waiting[q]
  BY DEF Typed
<1>2. Typed'
  <2>1. dpc' \in [Queues -> Running \union {"off", "blocked", "xor", "canceled", "terminated"}]
    <3>1. \A r \in Queues : dpc'[r] \in Running \union {"off", "blocked", "xor", "canceled", "terminated"}
      BY <1>b DEF Typed, Running
    <3>2. \/ \E p : dpc' = [dpc EXCEPT ![q] = p]
          \/ \E p, o : dpc' = [dpc EXCEPT ![q] = o, ![Root] = p]
      OBVIOUS
    <3> QED
      BY <3>1, <3>2 DEF Typed
  <2>2. waiting' \in [ThreadQ -> BOOLEAN]
    <3>1. waiting' = waiting \/ waiting' = [waiting EXCEPT ![q] = FALSE]
      OBVIOUS
    <3> QED
      BY <3>1 DEF Typed
  <2> QED
    BY <1>d, <2>1, <2>2 DEF Typed
<1>3. Roles'
  BY DEF Roles
<1>4. Quiet'
  BY DEF Quiet, Canceling
<1>5. BitsTrue'
  BY <1>1, <1>a, <1>b, <1>d DEF BitsTrue, Running
<1>6. Drains'
  <2> HIDE DEF drain_andnot
  <2>1. \A x \in NestedQ : dpc'[x] # "off" =>
          dpc'[Root] = "nested" /\ \A y \in NestedQ : dpc'[y] # "off" => y = x
    <3>1. CASE q \in NestedQ
      <4>1. \A x \in NestedQ : x # q => dpc'[x] = dpc[x] /\ dpc[x] = "off"
        BY <1>1, <1>b, <3>1 DEF Drains
      <4>2. dpc'[q] = "xor" \/ dpc'[q] = "off"
        BY <1>1, <1>b, <3>1
      <4>3. dpc'[q] = "xor" => dpc'[Root] = "nested"
        BY <1>1, <1>b, <3>1
      <4> QED
        BY <4>1, <4>2, <4>3
    <3>2. CASE q \notin NestedQ
      <4>1. \A x \in NestedQ : dpc'[x] = dpc[x]
        BY <1>b, <3>2
      <4>2. NestedQ # {} /\ dpc[Root] = "nested" => dpc'[Root] = "nested"
        BY <1>1, <1>b, <3>2
      <4> QED
        BY <4>1, <4>2 DEF Drains
    <3> QED
      BY <3>1, <3>2
  <2>2. ASSUME NEW r \in Queues
        PROVE  /\ dpc'[r] = "off" => r \notin ThreadQ
               /\ dpc'[r] \in {"blocked", "terminated"} => r \in ThreadQ
               /\ dpc'[r] = "nested" => r = Root
               /\ dpc'[r] \in {"canceled", "terminated"} => "CANCELED" \in mpd_state'[r]
               /\ batch[r] # <<>> => dpc'[r] \in {"invoke", "nested"}
               /\ dpc'[r] = "invoke" => batch[r] # <<>>
    <3>1. CASE r = q
      BY <1>1, <1>a, <1>b, <3>1 DEF Drains
    <3>2. CASE r # q
      BY <1>1, <1>a, <1>b, <3>2 DEF Drains
    <3> QED
      BY <3>1, <3>2
  <2> QED
    BY <1>d, <2>1, <2>2 DEF Drains
<1>7. Covered'
  BY <1>1, <1>a, <1>b, <1>d DEF Covered
<1>8. OneCarrier'
  BY DEF Typed, Roles, Canceling, BitsTrue, OneCarrier, CarrierOf, Carried,
      Called, Waker
<1>9. ListedOnce'
  BY DEF ListedOnce
<1>10. Finished'
  <2>1. q \notin dead
    BY <1>1 DEF Finished
  <2>2. \A u \in Threads : cq[u] # None /\ ~ cwait[u]
          => cq[u] = q \/ dpc'[cq[u]] = dpc[cq[u]]
    BY <1>b DEF Roles
  <2>3. \A u \in Threads : cq[u] = q /\ ~ cwait[u] => q \notin ThreadQ
    BY <1>1 DEF Finished
  <2>4. \A r \in dead : dpc'[r] = dpc[r]
    BY <1>b, <2>1 DEF Typed
  <2>5. \A r \in Queues : dpc'[r] = "canceled" => queue[r] = <<>>
    BY <1>b, <1>c DEF Finished
  <2> QED
    BY <1>d, <2>2, <2>3, <2>4, <2>5 DEF Finished
<1>11. NoPanic'
  BY DEF NoPanic
<1> QED
  BY <1>2, <1>3, <1>4, <1>5, <1>6, <1>7, <1>8, <1>9, <1>10, <1>11

(* The drain of a canceled queue wakes the canceler, and a drain thread    *)
(* terminates.                                                             *)
LEMMA DrainCanceledKeeps ==
    ASSUME ClientRule, DaemonInv, NEW q \in Queues, drain_canceled(q)
    PROVE  DaemonInv'
<1> USE Kinds DEF ClientRule, DaemonInv, drain, worker, threads,
    drain_canceled, drain_return
<1>1. /\ dpc[q] = "canceled" /\ "CANCELED" \in mpd_state[q] /\ q \notin NestedQ
      /\ queue[q] = <<>> /\ batch[q] = <<>>
  <2>1. dpc[q] = "canceled" /\ "CANCELED" \in mpd_state[q] /\ queue[q] = <<>> /\ batch[q] = <<>>
    BY DEF Drains, Finished
  <2>2. q \in Cancelable
    BY <2>1 DEF BitsTrue, Typed, Roles
  <2> QED
    BY <2>1, <2>2
<1>a. /\ dpc' = [dpc EXCEPT ![q] = IF q \in ThreadQ THEN "terminated" ELSE "off"]
      /\ UNCHANGED <<mpd_state, queue, batch, pending, sent, tpc, tq, cq, dead, panicked>>
  BY <1>1
<1>b. /\ dpc'[q] = IF q \in ThreadQ THEN "terminated" ELSE "off"
      /\ \A r \in Queues : r # q => dpc'[r] = dpc[r]
      /\ \A r \in ThreadQ : r # q => waiting'[r] = waiting[r]
  BY <1>a DEF Typed
<1>c. \A t \in Threads : cwait'[t] = IF cq[t] = q THEN FALSE ELSE cwait[t]
  OBVIOUS
<1>2. Typed'
  <2>1. dpc' \in [Queues -> Running \union {"off", "blocked", "xor", "canceled", "terminated"}]
    BY <1>a DEF Typed
  <2>2. cwait' \in [Threads -> BOOLEAN]
    BY DEF Typed
  <2>3. waiting' \in [ThreadQ -> BOOLEAN]
    BY DEF Typed
  <2> QED
    BY <1>a, <2>1, <2>2, <2>3 DEF Typed
<1>3. Roles'
  <2>1. \A t \in Threads : tpc[t] = "cancel" => cq[t] # q
    BY <1>1 DEF BitsTrue, Roles
  <2> QED
    BY <1>a, <1>c, <2>1 DEF Roles
<1>4. Quiet'
  BY DEF Quiet, Canceling
<1>5. BitsTrue'
  BY <1>1, <1>a, <1>b DEF BitsTrue, Running
<1>6. Drains'
  BY <1>1, <1>a, <1>b DEF Drains
<1>7. Covered'
  BY <1>1, <1>a, <1>b DEF Covered
<1>8. OneCarrier'
  BY DEF Typed, Roles, Quiet, Canceling, BitsTrue, OneCarrier, CarrierOf,
      Carried, Called, Waker
<1>9. ListedOnce'
  BY DEF ListedOnce
<1>10. Finished'
  <2>1. q \notin dead
    BY <1>1 DEF Finished
  <2>2. \A t \in Threads : tpc[t] = "cancel_wait" => ~ cwait[t]
    BY DEF Roles
  <2> QED
    BY <1>1, <1>a, <1>b, <1>c, <2>1, <2>2 DEF Finished
<1>11. NoPanic'
  BY DEF NoPanic
<1> QED
  BY <1>2, <1>3, <1>4, <1>5, <1>6, <1>7, <1>8, <1>9, <1>10, <1>11

-----------------------------------------------------------------------------
(* The invariant holds initially,                                          *)
LEMMA DaemonInvInit == Init => DaemonInv
<1> SUFFICES ASSUME Init
             PROVE  DaemonInv
  OBVIOUS
<1> USE Kinds DEF Init
<1>1. Typed
  <2>1. \A S : <<>> \in Seq(S)
    BY EmptySeq
  <2>2. \A q \in Queues : queue[q] = <<>> /\ batch[q] = <<>>
    OBVIOUS
  <2>3. mpd_state \in [Queues -> SUBSET Bits]
    BY DEF Bits
  <2>4. dpc \in [Queues -> Running \union {"off", "blocked", "xor", "canceled", "terminated"}]
    OBVIOUS
  <2>5. /\ queue \in [Queues -> Seq(Elements \union NestedQ)]
        /\ batch \in [Queues -> Seq(Elements \union NestedQ)]
    BY <2>1
  <2> QED
    BY <2>1, <2>2, <2>3, <2>4, <2>5 DEF Typed
<1>2. Roles /\ Quiet /\ Covered /\ Finished /\ NoPanic
  BY DEF Roles, Quiet, Canceling, Covered, Finished, NoPanic
<1>3. BitsTrue /\ Drains
  BY DEF BitsTrue, Drains, Running
<1>4. OneCarrier
  <2>1. \A q \in Queues : ~ Called(q)
    BY ListedEmpty DEF Called
  <2> QED
    BY <2>1 DEF OneCarrier, CarrierOf, Carried, Waker
<1>5. ListedOnce
  BY ListedEmpty DEF ListedOnce
<1> QED
  BY <1>1, <1>2, <1>3, <1>4, <1>5 DEF DaemonInv

(* and every step of well-behaved clients and of drains keeps it.          *)
LEMMA DaemonInvNext ==
    ASSUME ClientRule, DaemonInv, [Next]_vars
    PROVE  DaemonInv'
<1>1. CASE UNCHANGED vars
  BY <1>1 DEF vars, drain, worker, threads, DaemonInv, Typed, Roles, Quiet,
      Canceling, BitsTrue, Drains, Covered, OneCarrier, CarrierOf, Carried,
      Called, Waker, ListedOnce, Finished, NoPanic
<1>2. ASSUME NEW t \in Threads, Call(t)
      PROVE  DaemonInv'
  BY <1>2, EnqueueKeeps, ActivateKeeps, CancelAndWaitKeeps DEF Call
<1>3. ASSUME NEW t \in Threads, CallStep(t)
      PROVE  DaemonInv'
  <2>1. CASE wakeup(t)
    BY <2>1, WakeupThreadKeeps, WakeupCallKeeps, WakeupNestedKeeps DEF wakeup
  <2> QED
    BY <1>3, <2>1, EnqueueWakeupBitKeeps, CancelBitKeeps, CancelBlockKeeps,
        CancelReturnKeeps DEF CallStep
<1>4. ASSUME NEW q \in Queues, DrainStep(q)
      PROVE  DaemonInv'
  <2>1. CASE drain_invoke(q)
    BY <2>1, InvokeItemKeeps, InvokeNestedKeeps
  <2> QED
    BY <1>4, <2>1, ThreadContinueKeeps, ThreadCallDrainKeeps, DrainXorKeeps,
        DrainFixKeeps, DrainDequeueKeeps, DrainAndnotKeeps, DrainCanceledKeeps
        DEF DrainStep
<1> QED
  BY <1>1, <1>2, <1>3, <1>4 DEF Next

(* The invariant holds always.                                             *)
THEOREM DaemonInvariant ==
    ASSUME ClientRule
    PROVE  Spec => []DaemonInv
<1>1. DaemonInv /\ [Next]_vars => DaemonInv'
  BY DaemonInvNext
<1> QED
  BY <1>1, DaemonInvInit, PTL DEF Spec

(* No assertion of _mpsc_daemon_queue_drain() fails - it is never entered  *)
(* twice at a time, nor without a wakeup unless the queue is canceled -    *)
(* and no send finds its queue canceled.                                   *)
THEOREM DrainAssertionsHold ==
    ASSUME ClientRule
    PROVE  Spec => []NoPanic
<1>1. DaemonInv => NoPanic
  BY DEF DaemonInv
<1> QED
  BY <1>1, DaemonInvariant, PTL

(* A nested queue is never linked into its target a second time.           *)
THEOREM NestedQueuedOnce ==
    ASSUME ClientRule
    PROVE  Spec => []QueuedOnce
<1>1. DaemonInv => QueuedOnce
  <2> SUFFICES ASSUME DaemonInv, NEW q \in NestedQ
               PROVE  Cardinality({i \in DOMAIN (batch[Root] \o queue[Root]) :
                                      (batch[Root] \o queue[Root])[i] = q}) <= 1
    BY DEF QueuedOnce
  <2> DEFINE b == batch[Root]
             c == queue[Root]
             At == {i \in DOMAIN (b \o c) : (b \o c)[i] = q}
  <2>1. b \in Seq(NestedQ) /\ c \in Seq(NestedQ)
    BY Kinds DEF DaemonInv, Typed, ItemsOf
  <2>2. Once(b) /\ Once(c) /\ ~ (Listed(q, b) /\ Listed(q, c))
    BY DEF DaemonInv, ListedOnce
  <2> HIDE DEF b, c
  <2>3. /\ Len(b) \in Nat /\ Len(c) \in Nat /\ DOMAIN (b \o c) = 1 .. Len(b) + Len(c)
        /\ \A i \in 1 .. Len(b) + Len(c) :
              (b \o c)[i] = IF i <= Len(b) THEN b[i] ELSE c[i - Len(b)]
    BY <2>1, ConcatProperties, LenProperties
  <2>4. ASSUME NEW i \in At, NEW j \in At
        PROVE  i = j
    <3>1. CASE i <= Len(b) /\ j <= Len(b)
      BY <2>2, <2>3, <3>1 DEF Once
    <3>2. CASE i > Len(b) /\ j > Len(b)
      <4>1. /\ i - Len(b) \in 1 .. Len(c) /\ j - Len(b) \in 1 .. Len(c)
            /\ c[i - Len(b)] = c[j - Len(b)]
        BY <2>3, <3>2
      <4>2. i - Len(b) = j - Len(b)
        BY <2>2, <4>1 DEF Once
      <4> QED
        BY <2>3, <4>2
    <3>3. ASSUME NEW k \in At, NEW l \in At, k <= Len(b), l > Len(b)
          PROVE  FALSE
      <4>1. k \in 1 .. Len(b) /\ b[k] = q
        BY <2>3, <3>3
      <4>2. l - Len(b) \in 1 .. Len(c) /\ c[l - Len(b)] = q
        BY <2>3, <3>3
      <4> QED
        BY <2>2, <4>1, <4>2 DEF Listed
    <3> QED
      BY <2>3, <3>1, <3>2, <3>3
  <2> HIDE DEF At
  <2>5. Cardinality(At) = 0 \/ Cardinality(At) = 1
    <3>1. CASE At = {}
      BY <3>1, FS_EmptySet
    <3>2. ASSUME NEW i \in At
          PROVE  Cardinality(At) = 1
      <4>1. At = {i}
        BY <2>4, <3>2
      <4> QED
        BY <4>1, FS_Singleton
    <3> QED
      BY <3>1, <3>2
  <2>6. Cardinality(At) <= 1
    BY <2>5
  <2> QED
    BY <2>6 DEF At, b, c
<1> QED
  BY <1>1, DaemonInvariant, PTL

(* When mpsc_daemon_queue_cancel_and_wait() has returned, everything sent  *)
(* has been invoked and neither a drainer nor a thread knows the queue.    *)
THEOREM CanceledIsDestroyable ==
    ASSUME ClientRule
    PROVE  Spec => []DestroyIsSafe
<1>1. DaemonInv => DestroyIsSafe
  <2>1. DaemonInv => dead \intersect NestedQ = {}
    BY DEF DaemonInv, Typed, ClientRule
  <2> QED
    BY <2>1 DEF DaemonInv, Finished, DestroyIsSafe
<1> QED
  BY <1>1, DaemonInvariant, PTL

-----------------------------------------------------------------------------
(* No wakeup is lost *)

(* q has a wakeup that no drain has begun to answer.                       *)
Wakened(q) ==
    "WAKEUP" \in mpd_state[q] /\ mpd_state[q] \intersect {"DRAINING", "INACTIVE"} = {}

(* The drain of q that completes its cancelation has ended.                *)
Over(q) ==
    \/ q \in dead \/ dpc[q] \in {"canceled", "terminated"}
    \/ \E t \in Threads : cq[t] = q /\ ~ cwait[t]

(* WAKEUP does not stay set without somebody who carries the wakeup, and   *)
(* is clear when the drain of a canceled queue is over.                    *)
KeptOf(q) ==
    /\ Wakened(q) => Carried(q)
    /\ "WAKEUP" \in mpd_state[q] /\ Over(q) => dpc[q] = "fix"

(* The same for all queues.                                                *)
Kept == \A q \in Queues : KeptOf(q)

(* Every step keeps it.                                                    *)
LEMMA KeptNext ==
    ASSUME ClientRule, DaemonInv, Kept, [Next]_vars
    PROVE  Kept'
<1> USE Kinds DEF ClientRule, DaemonInv, drain, worker, threads
<1>1. CASE UNCHANGED vars
  BY <1>1 DEF vars, Kept, KeptOf, Wakened, Over, Carried, Called, Waker
<1>2. ASSUME NEW t \in Threads, NEW q \in Leaves, NEW e \in Elements,
             mpsc_daemon_enqueue(t, q, e), NEW r \in Queues
      PROVE  KeptOf(r)'
  <2> USE <1>2 DEF mpsc_daemon_enqueue, append, return, Leaves
  <2>1. Wakened(r)' => Wakened(r) \/ Carried(r)'
    BY DEF Wakened
  <2>2. Called(r) /\ Wakened(r)' => Called(r)' \/ dpc'[r] = "xor"
    BY DEF Called
  <2>3. dpc[r] = "xor" /\ Wakened(r)' => dpc'[r] = "xor"
    BY DEF Typed
  <2>4. \A u \in Threads : Waker(u, r) /\ Wakened(r)'
          => Waker(u, r)' \/ Called(r)' \/ dpc'[r] = "xor"
    BY DEF Typed, Waker
  <2>5. "WAKEUP" \in mpd_state'[r] /\ Over(r)'
          => ("WAKEUP" \in mpd_state[r] /\ Over(r)) \/ dpc'[r] = "fix"
    BY DEF Over
  <2>6. "WAKEUP" \in mpd_state'[r] /\ dpc[r] = "fix" => dpc'[r] = "fix"
    BY DEF Typed
  <2> QED
    BY <2>1, <2>2, <2>3, <2>4, <2>5, <2>6 DEF Kept, KeptOf, Carried
<1>3. ASSUME NEW t \in Threads, NEW q \in Inactive, mpsc_daemon_queue_activate(t, q),
             NEW r \in Queues
      PROVE  KeptOf(r)'
  <2> USE <1>3 DEF mpsc_daemon_queue_activate
  <2>1. Wakened(r)' => Wakened(r) \/ Carried(r)'
    BY DEF Typed, Wakened, Carried, Waker
  <2>2. Called(r) /\ Wakened(r)' => Called(r)' \/ dpc'[r] = "xor"
    BY DEF Called
  <2>3. dpc[r] = "xor" /\ Wakened(r)' => dpc'[r] = "xor"
    BY DEF Typed
  <2>4. \A u \in Threads : Waker(u, r) /\ Wakened(r)'
          => Waker(u, r)' \/ Called(r)' \/ dpc'[r] = "xor"
    BY DEF Typed, Waker
  <2>5. "WAKEUP" \in mpd_state'[r] /\ Over(r)'
          => ("WAKEUP" \in mpd_state[r] /\ Over(r)) \/ dpc'[r] = "fix"
    BY DEF Over
  <2>6. "WAKEUP" \in mpd_state'[r] /\ dpc[r] = "fix" => dpc'[r] = "fix"
    BY DEF Typed
  <2> QED
    BY <2>1, <2>2, <2>3, <2>4, <2>5, <2>6 DEF Kept, KeptOf, Carried
<1>4. ASSUME NEW t \in Threads, NEW q \in Cancelable,
             mpsc_daemon_queue_cancel_and_wait(t, q), NEW r \in Queues
      PROVE  KeptOf(r)'
  <2> USE <1>4 DEF mpsc_daemon_queue_cancel_and_wait
  <2>1. Wakened(r)' => Wakened(r) \/ Carried(r)'
    BY DEF Wakened
  <2>2. Called(r) /\ Wakened(r)' => Called(r)' \/ dpc'[r] = "xor"
    BY DEF Called
  <2>3. dpc[r] = "xor" /\ Wakened(r)' => dpc'[r] = "xor"
    BY DEF Typed
  <2>4. \A u \in Threads : Waker(u, r) /\ Wakened(r)'
          => Waker(u, r)' \/ Called(r)' \/ dpc'[r] = "xor"
    BY DEF Waker
  <2>5. "WAKEUP" \in mpd_state'[r] /\ Over(r)'
          => ("WAKEUP" \in mpd_state[r] /\ Over(r)) \/ dpc'[r] = "fix"
    BY DEF Typed, Over
  <2>6. "WAKEUP" \in mpd_state'[r] /\ dpc[r] = "fix" => dpc'[r] = "fix"
    BY DEF Typed
  <2> QED
    BY <2>1, <2>2, <2>3, <2>4, <2>5, <2>6 DEF Kept, KeptOf, Carried
<1>5. ASSUME NEW t \in Threads, enqueue_wakeup_bit(t), NEW r \in Queues
      PROVE  KeptOf(r)'
  <2> USE <1>5 DEF enqueue_wakeup_bit, return
  <2>1. Wakened(r)' => Wakened(r) \/ Carried(r)'
    BY DEF Typed, Wakened, Carried, Waker
  <2>2. Called(r) /\ Wakened(r)' => Called(r)' \/ dpc'[r] = "xor"
    BY DEF Called
  <2>3. dpc[r] = "xor" /\ Wakened(r)' => dpc'[r] = "xor"
    BY DEF Typed
  <2>4. \A u \in Threads : Waker(u, r) /\ Wakened(r)'
          => Waker(u, r)' \/ Called(r)' \/ dpc'[r] = "xor"
    BY DEF Typed, Waker
  <2>5. "WAKEUP" \in mpd_state'[r] /\ Over(r)'
          => ("WAKEUP" \in mpd_state[r] /\ Over(r)) \/ dpc'[r] = "fix"
    BY SenderIsSafe DEF Over, Roles, BitsTrue, Drains
  <2>6. "WAKEUP" \in mpd_state'[r] /\ dpc[r] = "fix" => dpc'[r] = "fix"
    BY DEF Typed
  <2> QED
    BY <2>1, <2>2, <2>3, <2>4, <2>5, <2>6 DEF Kept, KeptOf, Carried
<1>6. ASSUME NEW t \in Threads, wakeup(t), NEW r \in Queues
      PROVE  KeptOf(r)'
  <2> USE <1>6 DEF wakeup, append, return
  <2>1. tq[t] \in NestedQ =>
          /\ Listed(tq[t], queue'[Root])
          /\ \A x : Listed(x, queue[Root]) => Listed(x, queue'[Root])
    <3> SUFFICES ASSUME tq[t] \in NestedQ
                 PROVE  /\ Listed(tq[t], queue'[Root])
                        /\ \A x : Listed(x, queue[Root]) => Listed(x, queue'[Root])
      OBVIOUS
    <3>1. queue'[Root] = Append(queue[Root], tq[t]) /\ queue[Root] \in Seq(NestedQ)
      BY DEF Typed, ItemsOf
    <3> QED
      BY <3>1, ListedAppend
  <2>2. Wakened(r)' => Wakened(r) \/ Carried(r)'
    BY DEF Wakened
  <2>3. Called(r) /\ Wakened(r)' => Called(r)' \/ dpc'[r] = "xor"
    <3>1. CASE tq[t] \in NestedQ
      BY <2>1, <3>1 DEF Called
    <3>2. CASE tq[t] \notin NestedQ
      BY <3>2 DEF Typed, Called
    <3> QED
      BY <3>1, <3>2
  <2>4. dpc[r] = "xor" /\ Wakened(r)' => dpc'[r] = "xor"
    BY DEF Typed
  <2>5. \A u \in Threads : Waker(u, r) /\ Wakened(r)'
          => Waker(u, r)' \/ Called(r)' \/ dpc'[r] = "xor"
    <3> SUFFICES ASSUME Waker(t, r), Wakened(r)'
                 PROVE  Called(r)' \/ dpc'[r] = "xor"
      BY DEF Typed, Waker
    <3>1. r = tq[t]
      BY DEF Waker
    <3>2. CASE r \in ThreadQ
      <4>1. dpc[r] \notin {"off", "canceled", "terminated"} \union Running
        BY <3>1, <3>2 DEF Wakened, BitsTrue, Drains, Kept, KeptOf, Over
      <4>2. dpc[r] \in {"xor", "blocked"}
        BY <4>1 DEF Typed
      <4> QED
        BY <3>1, <3>2, <4>2 DEF Typed, Called
    <3>3. CASE r \in CallQ
      BY <3>1, <3>3 DEF Typed, Called
    <3>4. CASE r \in NestedQ
      BY <2>1, <3>1, <3>4 DEF Called
    <3> QED
      BY <3>2, <3>3, <3>4
  <2>6. "WAKEUP" \in mpd_state'[r] /\ Over(r)'
          => ("WAKEUP" \in mpd_state[r] /\ Over(r)) \/ dpc'[r] = "fix"
    BY DEF Over
  <2>7. "WAKEUP" \in mpd_state'[r] /\ dpc[r] = "fix" => dpc'[r] = "fix"
    BY DEF Typed
  <2> QED
    BY <2>2, <2>3, <2>4, <2>5, <2>6, <2>7 DEF Kept, KeptOf, Carried
<1>7. ASSUME NEW t \in Threads, cancel_bit(t), NEW r \in Queues
      PROVE  KeptOf(r)'
  <2> USE <1>7 DEF cancel_bit
  <2>1. Wakened(r)' => Wakened(r) \/ Carried(r)'
    BY DEF Wakened
  <2>2. Called(r) /\ Wakened(r)' => Called(r)' \/ dpc'[r] = "xor"
    BY DEF Called
  <2>3. dpc[r] = "xor" /\ Wakened(r)' => dpc'[r] = "xor"
    BY DEF Typed
  <2>4. \A u \in Threads : Waker(u, r) /\ Wakened(r)'
          => Waker(u, r)' \/ Called(r)' \/ dpc'[r] = "xor"
    BY DEF Typed, Waker
  <2>5. "WAKEUP" \in mpd_state'[r] /\ Over(r)'
          => ("WAKEUP" \in mpd_state[r] /\ Over(r)) \/ dpc'[r] = "fix"
    BY DEF Over, Roles
  <2>6. "WAKEUP" \in mpd_state'[r] /\ dpc[r] = "fix" => dpc'[r] = "fix"
    BY DEF Typed
  <2> QED
    BY <2>1, <2>2, <2>3, <2>4, <2>5, <2>6 DEF Kept, KeptOf, Carried
<1>8. ASSUME NEW t \in Threads, cancel_block(t), NEW r \in Queues
      PROVE  KeptOf(r)'
  <2> USE <1>8 DEF cancel_block
  <2>1. Wakened(r)' => Wakened(r) \/ Carried(r)'
    BY DEF Wakened
  <2>2. Called(r) /\ Wakened(r)' => Called(r)' \/ dpc'[r] = "xor"
    <3>1. CASE r = cq[t]
      BY <3>1 DEF Wakened, BitsTrue, Running, Kept, KeptOf, Over
    <3>2. CASE r # cq[t]
      BY <3>2 DEF Typed, Called
    <3> QED
      BY <3>1, <3>2
  <2>3. dpc[r] = "xor" /\ Wakened(r)' => dpc'[r] = "xor"
    BY DEF Typed
  <2>4. \A u \in Threads : Waker(u, r) /\ Wakened(r)'
          => Waker(u, r)' \/ Called(r)' \/ dpc'[r] = "xor"
    BY DEF Waker
  <2>5. "WAKEUP" \in mpd_state'[r] /\ Over(r)'
          => ("WAKEUP" \in mpd_state[r] /\ Over(r)) \/ dpc'[r] = "fix"
    BY DEF Over
  <2>6. "WAKEUP" \in mpd_state'[r] /\ dpc[r] = "fix" => dpc'[r] = "fix"
    BY DEF Typed
  <2> QED
    BY <2>1, <2>2, <2>3, <2>4, <2>5, <2>6 DEF Kept, KeptOf, Carried
<1>9. ASSUME NEW t \in Threads, cancel_return(t), NEW r \in Queues
      PROVE  KeptOf(r)'
  <2> USE <1>9 DEF cancel_return
  <2>1. Wakened(r)' => Wakened(r) \/ Carried(r)'
    BY DEF Wakened
  <2>2. Called(r) /\ Wakened(r)' => Called(r)' \/ dpc'[r] = "xor"
    BY DEF Called
  <2>3. dpc[r] = "xor" /\ Wakened(r)' => dpc'[r] = "xor"
    BY DEF Typed
  <2>4. \A u \in Threads : Waker(u, r) /\ Wakened(r)'
          => Waker(u, r)' \/ Called(r)' \/ dpc'[r] = "xor"
    BY DEF Waker
  <2>5. "WAKEUP" \in mpd_state'[r] /\ Over(r)'
          => ("WAKEUP" \in mpd_state[r] /\ Over(r)) \/ dpc'[r] = "fix"
    BY DEF Over, Roles
  <2>6. "WAKEUP" \in mpd_state'[r] /\ dpc[r] = "fix" => dpc'[r] = "fix"
    BY DEF Typed
  <2> QED
    BY <2>1, <2>2, <2>3, <2>4, <2>5, <2>6 DEF Kept, KeptOf, Carried
<1>10. ASSUME NEW q \in ThreadQ, thread_continue(q), NEW r \in Queues
      PROVE  KeptOf(r)'
  <2> USE <1>10 DEF thread_continue
  <2>1. Wakened(r)' => Wakened(r) \/ Carried(r)'
    BY DEF Wakened
  <2>2. Called(r) /\ Wakened(r)' => Called(r)' \/ dpc'[r] = "xor"
    BY DEF Called
  <2>3. dpc[r] = "xor" /\ Wakened(r)' => dpc'[r] = "xor"
    BY DEF Typed
  <2>4. \A u \in Threads : Waker(u, r) /\ Wakened(r)'
          => Waker(u, r)' \/ Called(r)' \/ dpc'[r] = "xor"
    BY DEF Waker
  <2>5. "WAKEUP" \in mpd_state'[r] /\ Over(r)'
          => ("WAKEUP" \in mpd_state[r] /\ Over(r)) \/ dpc'[r] = "fix"
    BY DEF Over
  <2>6. "WAKEUP" \in mpd_state'[r] /\ dpc[r] = "fix" => dpc'[r] = "fix"
    BY DEF Typed
  <2> QED
    BY <2>1, <2>2, <2>3, <2>4, <2>5, <2>6 DEF Kept, KeptOf, Carried
<1>11. ASSUME NEW q \in CallQ, thread_call_drain(q), NEW r \in Queues
      PROVE  KeptOf(r)'
  <2> USE <1>11 DEF thread_call_drain
  <2>1. Wakened(r)' => Wakened(r) \/ Carried(r)'
    BY DEF Wakened
  <2>2. Called(r) /\ Wakened(r)' => Called(r)' \/ dpc'[r] = "xor"
    BY DEF Typed, Called
  <2>3. dpc[r] = "xor" /\ Wakened(r)' => dpc'[r] = "xor"
    BY DEF Typed
  <2>4. \A u \in Threads : Waker(u, r) /\ Wakened(r)'
          => Waker(u, r)' \/ Called(r)' \/ dpc'[r] = "xor"
    BY DEF Waker
  <2>5. "WAKEUP" \in mpd_state'[r] /\ Over(r)'
          => ("WAKEUP" \in mpd_state[r] /\ Over(r)) \/ dpc'[r] = "fix"
    BY DEF Over
  <2>6. "WAKEUP" \in mpd_state'[r] /\ dpc[r] = "fix" => dpc'[r] = "fix"
    BY DEF Typed
  <2> QED
    BY <2>1, <2>2, <2>3, <2>4, <2>5, <2>6 DEF Kept, KeptOf, Carried
<1>12. ASSUME NEW q \in Queues, drain_xor(q), NEW r \in Queues
      PROVE  KeptOf(r)'
  <2> USE <1>12 DEF drain_xor
  <2>1. Wakened(r)' => Wakened(r) \/ Carried(r)'
    BY DEF BitsTrue, Running, Wakened
  <2>2. Called(r) /\ Wakened(r)' => Called(r)' \/ dpc'[r] = "xor"
    BY DEF Called
  <2>3. dpc[r] = "xor" /\ Wakened(r)' => dpc'[r] = "xor"
    BY DEF Typed, BitsTrue, Running, Wakened
  <2>4. \A u \in Threads : Waker(u, r) /\ Wakened(r)'
          => Waker(u, r)' \/ Called(r)' \/ dpc'[r] = "xor"
    BY DEF Waker
  <2>5. "WAKEUP" \in mpd_state'[r] /\ Over(r)'
          => ("WAKEUP" \in mpd_state[r] /\ Over(r)) \/ dpc'[r] = "fix"
    BY DEF Typed, Over
  <2>6. "WAKEUP" \in mpd_state'[r] /\ dpc[r] = "fix" => dpc'[r] = "fix"
    BY DEF Typed
  <2> QED
    BY <2>1, <2>2, <2>3, <2>4, <2>5, <2>6 DEF Kept, KeptOf, Carried
<1>13. ASSUME NEW q \in Queues, drain_fix(q), NEW r \in Queues
      PROVE  KeptOf(r)'
  <2> USE <1>13 DEF drain_fix
  <2>1. Wakened(r)' => Wakened(r) \/ Carried(r)'
    BY DEF Wakened
  <2>2. Called(r) /\ Wakened(r)' => Called(r)' \/ dpc'[r] = "xor"
    BY DEF Called
  <2>3. dpc[r] = "xor" /\ Wakened(r)' => dpc'[r] = "xor"
    BY DEF Typed
  <2>4. \A u \in Threads : Waker(u, r) /\ Wakened(r)'
          => Waker(u, r)' \/ Called(r)' \/ dpc'[r] = "xor"
    BY DEF Waker
  <2>5. "WAKEUP" \in mpd_state'[r] /\ Over(r)'
          => ("WAKEUP" \in mpd_state[r] /\ Over(r)) \/ dpc'[r] = "fix"
    BY DEF Over
  <2>6. "WAKEUP" \in mpd_state'[r] /\ dpc[r] = "fix" => dpc'[r] = "fix"
    BY DEF Typed
  <2> QED
    BY <2>1, <2>2, <2>3, <2>4, <2>5, <2>6 DEF Kept, KeptOf, Carried
<1>14. ASSUME NEW q \in Queues, drain_dequeue(q), NEW r \in Queues
      PROVE  KeptOf(r)'
  <2> USE <1>14 DEF drain_dequeue
  <2>1. Wakened(r)' => Wakened(r) \/ Carried(r)'
    BY DEF Wakened
  <2>2. Called(r) /\ Wakened(r)' => Called(r)' \/ dpc'[r] = "xor"
    BY DEF Typed, Called
  <2>3. dpc[r] = "xor" /\ Wakened(r)' => dpc'[r] = "xor"
    BY DEF Typed
  <2>4. \A u \in Threads : Waker(u, r) /\ Wakened(r)'
          => Waker(u, r)' \/ Called(r)' \/ dpc'[r] = "xor"
    BY DEF Waker
  <2>5. "WAKEUP" \in mpd_state'[r] /\ Over(r)'
          => ("WAKEUP" \in mpd_state[r] /\ Over(r)) \/ dpc'[r] = "fix"
    BY DEF Typed, Over
  <2>6. "WAKEUP" \in mpd_state'[r] /\ dpc[r] = "fix" => dpc'[r] = "fix"
    BY DEF Typed
  <2> QED
    BY <2>1, <2>2, <2>3, <2>4, <2>5, <2>6 DEF Kept, KeptOf, Carried
<1>15. ASSUME NEW q \in Queues, drain_invoke(q), NEW r \in Queues
      PROVE  KeptOf(r)'
  <2> USE <1>15 DEF drain_invoke
  <2>1. /\ \A x \in Queues : dpc[x] \notin {"invoke", "off"} => dpc'[x] = dpc[x]
        /\ \A x \in NestedQ : Listed(x, batch[Root]) =>
              Listed(x, batch'[Root]) \/ dpc'[x] = "xor"
    <3> DEFINE h == Head(batch[q])
    <3>1. batch[q] \in Seq(ItemsOf(q)) /\ batch[q] # <<>> /\ dpc[q] = "invoke"
      BY DEF Typed, Drains
    <3>2. h \in ItemsOf(q)
      BY <3>1, HeadTailProperties
    <3>3. \A x : Listed(x, batch[q]) <=> Listed(x, Tail(batch[q])) \/ x = h
      BY <3>1, ListedTail
    <3>4. h \notin Elements => q = Root /\ h \in NestedQ /\ h \in Queues /\ dpc[h] = "off"
      BY <3>1, <3>2 DEF ItemsOf, Drains
    <3> HIDE DEF h
    <3>5. \A x \in Queues : dpc[x] \notin {"invoke", "off"} => dpc'[x] = dpc[x]
      BY <3>1, <3>4 DEF Typed, h
    <3>6. CASE q = Root /\ h \notin Elements
      BY <3>3, <3>4, <3>6 DEF Typed, h
    <3>7. CASE q # Root \/ h \in Elements
      BY <3>2, <3>3, <3>5, <3>7
    <3> QED
      BY <3>5, <3>6, <3>7
  <2>2. Wakened(r)' => Wakened(r) \/ Carried(r)'
    BY DEF Wakened
  <2>3. Called(r) /\ Wakened(r)' => Called(r)' \/ dpc'[r] = "xor"
    <3>1. CASE r \in NestedQ
      BY <2>1, <3>1 DEF Called
    <3>2. CASE r \notin NestedQ
      BY <2>1, <3>2 DEF Called
    <3> QED
      BY <3>1, <3>2
  <2>4. dpc[r] = "xor" /\ Wakened(r)' => dpc'[r] = "xor"
    BY DEF Typed
  <2>5. \A u \in Threads : Waker(u, r) /\ Wakened(r)'
          => Waker(u, r)' \/ Called(r)' \/ dpc'[r] = "xor"
    BY DEF Waker
  <2>6. "WAKEUP" \in mpd_state'[r] /\ Over(r)'
          => ("WAKEUP" \in mpd_state[r] /\ Over(r)) \/ dpc'[r] = "fix"
    BY DEF Typed, Over
  <2>7. "WAKEUP" \in mpd_state'[r] /\ dpc[r] = "fix" => dpc'[r] = "fix"
    BY <2>1
  <2> QED
    BY <2>2, <2>3, <2>4, <2>5, <2>6, <2>7 DEF Kept, KeptOf, Carried
<1>16. ASSUME NEW q \in Queues, drain_andnot(q), NEW r \in Queues
      PROVE  KeptOf(r)'
  <2> USE <1>16 DEF drain_andnot, drain_return
  <2>1. /\ \A x \in Queues : dpc[x] \notin {"andnot", "nested"} => dpc'[x] = dpc[x]
        /\ \A x \in ThreadQ : dpc[x] # "andnot" => waiting'[x] = waiting[x]
        /\ UNCHANGED <<queue, batch, pending>>
    BY DEF Typed, Drains
  <2>2. Wakened(r)' => Wakened(r) \/ Carried(r)'
    BY DEF Typed, Wakened, Carried
  <2>3. Called(r) /\ Wakened(r)' => Called(r)' \/ dpc'[r] = "xor"
    BY <2>1 DEF Called
  <2>4. dpc[r] = "xor" /\ Wakened(r)' => dpc'[r] = "xor"
    BY <2>1
  <2>5. \A u \in Threads : Waker(u, r) /\ Wakened(r)'
          => Waker(u, r)' \/ Called(r)' \/ dpc'[r] = "xor"
    BY DEF Waker
  <2>6. "WAKEUP" \in mpd_state'[r] /\ Over(r)'
          => ("WAKEUP" \in mpd_state[r] /\ Over(r)) \/ dpc'[r] = "fix"
    BY DEF Typed, Over
  <2>7. "WAKEUP" \in mpd_state'[r] /\ dpc[r] = "fix" => dpc'[r] = "fix"
    BY <2>1
  <2> QED
    BY <2>2, <2>3, <2>4, <2>5, <2>6, <2>7 DEF Kept, KeptOf, Carried
<1>17. ASSUME NEW q \in Queues, drain_canceled(q), NEW r \in Queues
      PROVE  KeptOf(r)'
  <2> USE <1>17 DEF drain_canceled, drain_return
  <2>1. /\ dpc[q] = "canceled" /\ "WAKEUP" \notin mpd_state[q] /\ q \notin NestedQ
        /\ \A x \in Queues : x # q => dpc'[x] = dpc[x]
        /\ \A x \in ThreadQ : x # q => waiting'[x] = waiting[x]
        /\ UNCHANGED <<mpd_state, queue, batch, pending, cq, dead>>
    <3>1. dpc[q] = "canceled" /\ "WAKEUP" \notin mpd_state[q] /\ "CANCELED" \in mpd_state[q]
      BY DEF Kept, KeptOf, Over, Drains
    <3>2. q \notin NestedQ
      BY <3>1 DEF BitsTrue, Typed, Roles
    <3> QED
      BY <3>1, <3>2 DEF Typed
  <2>2. Wakened(r)' => Wakened(r) \/ Carried(r)'
    BY DEF Wakened
  <2>3. Called(r) /\ Wakened(r)' => Called(r)' \/ dpc'[r] = "xor"
    BY <2>1 DEF Called
  <2>4. dpc[r] = "xor" /\ Wakened(r)' => dpc'[r] = "xor"
    BY <2>1
  <2>5. \A u \in Threads : Waker(u, r) /\ Wakened(r)'
          => Waker(u, r)' \/ Called(r)' \/ dpc'[r] = "xor"
    BY DEF Waker
  <2>6. "WAKEUP" \in mpd_state'[r] /\ Over(r)'
          => ("WAKEUP" \in mpd_state[r] /\ Over(r)) \/ dpc'[r] = "fix"
    <3>1. \A u \in Threads : cq[u] # q => cwait'[u] = cwait[u]
      OBVIOUS
    <3> QED
      BY <2>1, <3>1 DEF Over
  <2>7. "WAKEUP" \in mpd_state'[r] /\ dpc[r] = "fix" => dpc'[r] = "fix"
    BY <2>1
  <2> QED
    BY <2>2, <2>3, <2>4, <2>5, <2>6, <2>7 DEF Kept, KeptOf, Carried
<1> QED
  BY <1>1, <1>2, <1>3, <1>4, <1>5, <1>6, <1>7, <1>8, <1>9, <1>10, <1>11, <1>12,
      <1>13, <1>14, <1>15, <1>16, <1>17 DEF Kept, Next, Call, CallStep,
      DrainStep

(* When there is something in an active queue, a drain that is under way   *)
(* will see it, the drainer has been told, a thread is about to tell it,   *)
(* or the sender is about to look at the state.                            *)
SomebodyLooks ==
    \A q \in Queues : queue[q] # <<>> /\ "INACTIVE" \notin mpd_state[q] =>
        \/ dpc[q] \in {"xor", "fix", "dequeue", "invoke", "nested"}
        \/ dpc[q] = "andnot" /\ "WAKEUP" \in mpd_state[q]
        \/ Called(q)
        \/ \E t \in Threads : tpc[t] \in {"or", "wakeup"} /\ tq[t] = q

(* No wakeup is lost: whatever is sent to an active queue, before, while   *)
(* or after its drain gives DRAINING up, somebody is bound to look at it.  *)
THEOREM NoWakeupLost ==
    ASSUME ClientRule
    PROVE  Spec => []SomebodyLooks
<1>1. Init => Kept
  BY Kinds DEF Init, Kept, KeptOf, Wakened
<1>2. DaemonInv /\ Kept /\ [Next]_vars => Kept'
  BY KeptNext
<1>3. DaemonInv /\ Kept => SomebodyLooks
  BY DEF DaemonInv, Covered, BitsTrue, Running, Kept, KeptOf, Wakened, Carried,
      Waker, SomebodyLooks
<1> QED
  BY <1>1, <1>2, <1>3, DaemonInvariant, PTL DEF Spec
=============================================================================
