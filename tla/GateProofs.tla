----------------------------- MODULE GateProofs -----------------------------
(***************************************************************************)
(* Proofs about gates, for every set of threads: sleeping threads are      *)
(* known, the holder knows, the push goes to it, the memory is freed by    *)
(* the last one; and no assertion fails if gates are not opened with the   *)
(* client's lock held shared.                                              *)
(***************************************************************************)
EXTENDS Gate, FiniteSetTheorems, TLAPS

-----------------------------------------------------------------------------
(* The inductive invariant *)

Typed ==
    /\ mode \in [Threads -> {"none", "shared", "exclusive"}]
    /\ holder \in Threads \union {None} /\ waiters \in BOOLEAN
    /\ life \in {"alive", "destroyed", "freed"}
    /\ gt_alloc \in BOOLEAN /\ gt_refs \in Nat
    /\ waitq \subseteq Threads /\ inheritor \in Threads \union {None}
    /\ pc \in [Threads -> Positions]
    /\ wait_result \in [Threads -> {"AWAKENED", "INTERRUPTED"}]
    /\ ret \in [Threads -> {"OPENED", "HANDOFF", "INTERRUPTED"}]
    /\ panicked \in BOOLEAN

(* The client's lock excludes, and is held where pc says so.               *)
Locked ==
    /\ \A t \in Threads : mode[t] # "none" <=> pc[t] \in {"locked", "probed"}
    /\ \A t, u \in Threads : mode[t] = "exclusive" /\ t # u => mode[u] = "none"

(* The queue, the bit and the life of the gate.                            *)
Queued ==
    /\ \A t \in waitq : pc[t] = "wait"
    /\ holder = None => ~ waiters
    /\ life # "alive" => holder = None

(* Nobody calls a gate that is dead, and only allocated ones wait for      *)
(* threads to come back.                                                   *)
Alive ==
    /\ \A t \in Threads : pc[t] = "probed" => life = "alive"
    /\ life = "destroyed" => gt_alloc

GateInv ==
    /\ Typed /\ Locked /\ Queued /\ Alive
    /\ WaitersKnown /\ PushGoesToHolder /\ HolderKnows /\ FreedIsUnused

(* Without shared openers: who is about to wait finds a closed gate.       *)
Probed == \A t \in Threads : pc[t] = "probed" => holder # None

Waiting == {t \in Threads : pc[t] = "wait"}

-----------------------------------------------------------------------------
(* Waiting threads are a finite set.                                       *)
LEMMA WaitingFinite ==
    /\ IsFiniteSet(Waiting)
    /\ Cardinality(Waiting) \in Nat
    /\ Cardinality(Waiting) <= Cardinality(Threads)
    /\ Cardinality(Waiting) = 0 <=> Waiting = {}
<1>1. Waiting \subseteq Threads
  BY DEF Waiting
<1>2. IsFiniteSet(Threads)
  BY GateAssumption
<1> QED
  BY <1>1, <1>2, FS_Subset, FS_CardinalityType, FS_EmptySet

(* A thread that waits has a reference.                                    *)
LEMMA WaiterCounts ==
    ASSUME NEW t \in Threads, FreedIsUnused, pc[t] = "wait"
    PROVE  gt_refs > 0 /\ life # "freed" /\ (life = "alive" => gt_refs > 1)
<1>1. t \in Waiting
  BY DEF Waiting
<1>2. Cardinality(Waiting) > 0
  BY <1>1, WaitingFinite
<1> QED
  BY <1>2, WaitingFinite DEF FreedIsUnused, Waiting

(* A step that moves no thread into a wait or out of it.                   *)
LEMMA WaitersStay ==
    ASSUME FreedIsUnused, UNCHANGED <<gt_refs, life>>,
           \A u \in Threads : pc[u] = "wait" <=> pc'[u] = "wait"
    PROVE  FreedIsUnused'
<1>1. Waiting' = Waiting
  BY DEF Waiting
<1> QED
  BY <1>1 DEF FreedIsUnused, Waiting

(* A step of the client's lock: t gets or loses it.                        *)
LEMMA LockStep ==
    ASSUME NEW t \in Threads, GateInv,
           \/ /\ L!LockShared(t) \/ L!LockExclusive(t)
              /\ pc[t] \in {"idle", "relock"} /\ Goto(t, "locked")
           \/ /\ L!Unlock(t) /\ pc[t] \in {"locked", "probed"}
              /\ \E p \in {"idle", "wait"} : Goto(t, p)
    PROVE  /\ mode' \in [Threads -> {"none", "shared", "exclusive"}]
           /\ Locked'
<1> USE DEF GateInv, Typed, Locked, L!LockShared, L!LockExclusive, L!Unlock, L!Set,
            L!OthersIn, L!Modes, Goto
<1>1. CASE L!LockShared(t) /\ pc[t] \in {"idle", "relock"} /\ Goto(t, "locked")
  BY <1>1
<1>2. CASE L!LockExclusive(t) /\ pc[t] \in {"idle", "relock"} /\ Goto(t, "locked")
  BY <1>2
<1>3. CASE L!Unlock(t) /\ pc[t] \in {"locked", "probed"} /\ \E p \in {"idle", "wait"} : Goto(t, p)
  BY <1>3
<1> QED
  BY <1>1, <1>2, <1>3

(* The client locks and unlocks: the gate stays as it is.                  *)
LEMMA ClientStep ==
    ASSUME NEW t \in Threads, GateInv,
           lock_shared(t) \/ lock_exclusive(t) \/ unlock(t) \/ relock(t)
    PROVE  GateInv'
<1> USE DEF lock_shared, lock_exclusive, unlock, relock, gate, word
<1>1. /\ UNCHANGED <<gate, wait_result, panicked>>
      /\ pc[t] \in {"idle", "locked", "probed", "relock"}
      /\ \/ Goto(t, "locked") \/ Goto(t, "idle")
      /\ ret' # ret => ret' = [ret EXCEPT ![t] = "OPENED"] /\ pc[t] = "relock"
  <2>1. CASE lock_shared(t)
    BY <2>1
  <2>2. CASE lock_exclusive(t)
    BY <2>2
  <2>3. CASE unlock(t)
    BY <2>3
  <2>4. CASE relock(t)
    BY <2>4
  <2> QED
    BY <2>1, <2>2, <2>3, <2>4
<1>2. mode' \in [Threads -> {"none", "shared", "exclusive"}] /\ Locked'
  <2>1. CASE lock_shared(t) \/ lock_exclusive(t) \/ unlock(t)
    BY <2>1, LockStep
  <2>2. CASE relock(t) /\ Goto(t, "locked") /\ (L!LockShared(t) \/ L!LockExclusive(t))
    BY <2>2, LockStep
  <2>3. CASE relock(t) /\ Goto(t, "idle") /\ UNCHANGED mode
    BY <2>3 DEF GateInv, Typed, Locked, Goto
  <2> QED
    BY <2>1, <2>2, <2>3
<1>3. Typed'
  BY <1>1, <1>2 DEF GateInv, Typed, Goto, Positions
<1>4. Queued' /\ Alive'
  BY <1>1 DEF GateInv, Typed, Queued, Alive, Goto
<1>5. WaitersKnown' /\ PushGoesToHolder'
  BY <1>1 DEF GateInv, Typed, WaitersKnown, PushGoesToHolder, Goto
<1>6. HolderKnows'
  BY <1>1 DEF GateInv, Typed, HolderKnows, Goto
<1>7. FreedIsUnused'
  BY <1>1, WaitersStay DEF GateInv, Typed, Goto
<1> QED
  BY <1>2, <1>3, <1>4, <1>5, <1>6, <1>7 DEF GateInv

(* Close, open, hand off and steal: the holder, the bit and the push.      *)
LEMMA GateStep ==
    ASSUME NEW t \in Threads, GateInv,
           \/ gate_try_close(t) \/ gate_close(t) \/ gate_open(t) \/ gate_steal(t)
           \/ \E flag \in BOOLEAN : gate_handoff(t, flag)
    PROVE  GateInv'
<1> USE DEF Calls, Panic, gate, word
<1>1. CASE Panic
  BY <1>1 DEF GateInv, Typed, Locked, Queued, Alive, WaitersKnown, PushGoesToHolder,
              HolderKnows, FreedIsUnused
<1>2. CASE gate_try_close(t) /\ holder # None
  BY <1>2, WaitersStay
     DEF GateInv, Typed, Locked, Queued, Alive, WaitersKnown, PushGoesToHolder, HolderKnows,
         gate_try_close, Goto, Positions
<1>3. CASE Calls(t) /\ holder = None /\ ~ waiters /\ close_open_gate(t)
  BY <1>3, WaitersStay
     DEF GateInv, Typed, Locked, Queued, Alive, WaitersKnown, PushGoesToHolder, HolderKnows,
         close_open_gate
<1>4. CASE gate_open(t)
  <2> USE DEF gate_open, wake_up
  <2>1. Typed'
    BY <1>4 DEF GateInv, Typed
  <2>2. Locked' /\ Queued' /\ Alive'
    BY <1>4 DEF GateInv, Typed, Locked, Queued, Alive
  <2>3. waitq' = {} /\ ~ waiters' /\ holder' = None
    BY <1>4 DEF GateInv, Typed, WaitersKnown
  <2>4. WaitersKnown' /\ HolderKnows'
    BY <2>3, GateAssumption DEF WaitersKnown, HolderKnows
  <2>5. PushGoesToHolder'
    BY <1>4, <2>3 DEF GateInv, PushGoesToHolder
  <2>6. FreedIsUnused'
    BY <1>4, WaitersStay DEF GateInv
  <2> QED
    BY <2>1, <2>2, <2>4, <2>5, <2>6 DEF GateInv
<1>5. CASE gate_steal(t)
  <2> USE DEF gate_steal
  <2>1. Typed' /\ Locked' /\ Queued' /\ Alive'
    BY <1>5, GateAssumption DEF GateInv, Typed, Locked, Queued, Alive
  <2>2. WaitersKnown'
    BY <1>5, GateAssumption DEF GateInv, WaitersKnown
  <2>3. PushGoesToHolder'
    BY <1>5 DEF GateInv, Typed, WaitersKnown, PushGoesToHolder, Queued
  <2>4. HolderKnows'
    BY <1>5 DEF GateInv, HolderKnows, Queued
  <2>5. FreedIsUnused'
    BY <1>5, WaitersStay DEF GateInv
  <2> QED
    BY <2>1, <2>2, <2>3, <2>4, <2>5 DEF GateInv
<1>6. CASE \E flag \in BOOLEAN : gate_handoff(t, flag)
  <2> PICK flag \in BOOLEAN : gate_handoff(t, flag)
    BY <1>6
  <2> USE DEF gate_handoff
  <2>1. CASE waiters /\ \E h \in waitq : handoff_to(h)
    <3> PICK h \in waitq : handoff_to(h)
      BY <2>1
    <3> USE DEF handoff_to, wake_up
    <3>0. h \in Threads /\ pc[h] = "wait"
      BY DEF GateInv, Typed, Queued
    <3>1. Typed' /\ Locked' /\ Queued' /\ Alive'
      BY <3>0, GateAssumption DEF GateInv, Typed, Locked, Queued, Alive
    <3>2. WaitersKnown'
      BY <3>0, GateAssumption DEF WaitersKnown
    <3>3. PushGoesToHolder' /\ HolderKnows'
      BY <3>0, GateAssumption DEF GateInv, Typed, PushGoesToHolder, HolderKnows
    <3>4. FreedIsUnused'
      BY WaitersStay DEF GateInv
    <3> QED
      BY <3>1, <3>2, <3>3, <3>4 DEF GateInv
  <2>2. CASE waitq = {} /\ UNCHANGED <<waitq, wait_result>>
    <3>1. Typed' /\ Locked' /\ Queued' /\ Alive'
      BY <2>2 DEF GateInv, Typed, Locked, Queued, Alive
    <3>2. WaitersKnown'
      BY <2>2 DEF GateInv, WaitersKnown
    <3>3. PushGoesToHolder' /\ HolderKnows'
      BY <2>2, GateAssumption DEF GateInv, Typed, PushGoesToHolder, HolderKnows
    <3>4. FreedIsUnused'
      BY WaitersStay DEF GateInv
    <3> QED
      BY <3>1, <3>2, <3>3, <3>4 DEF GateInv
  <2> QED
    BY <2>1, <2>2
<1> QED
  BY <1>1, <1>2, <1>3, <1>4, <1>5, <1>6 DEF gate_try_close, gate_close, close_open_gate

(* Into the wait, out of the queue and back: the references.               *)
LEMMA WaitStep ==
    ASSUME NEW t \in Threads, GateInv, gate_wait(t) \/ wait_end(t) \/ wait_return(t)
    PROVE  GateInv'
<1> USE DEF gate, word
<1>1. CASE Panic
  BY <1>1 DEF Panic, GateInv, Typed, Locked, Queued, Alive, WaitersKnown, PushGoesToHolder,
              HolderKnows, FreedIsUnused
<1>2. CASE gate_wait(t) /\ holder # None
  <2> USE DEF gate_wait
  <2>0. life = "alive" /\ holder # t
    BY <1>2 DEF GateInv, Alive, HolderKnows
  <2>1. mode' \in [Threads -> {"none", "shared", "exclusive"}] /\ Locked'
    BY <1>2, LockStep
  <2>2. Typed'
    <3>1. waiters' \in BOOLEAN /\ panicked' \in BOOLEAN /\ gt_alloc' \in BOOLEAN
      BY <1>2 DEF GateInv, Typed
    <3>2. gt_refs' \in Nat /\ waitq' \subseteq Threads /\ inheritor' \in Threads \union {None}
      BY <1>2 DEF GateInv, Typed
    <3> QED
      BY <1>2, <2>1, <3>1, <3>2 DEF GateInv, Typed, Goto, Positions
  <2>3. Queued' /\ Alive'
    BY <1>2, <2>0 DEF GateInv, Typed, Queued, Alive, Goto
  <2>4. WaitersKnown' /\ PushGoesToHolder'
    BY <1>2 DEF GateInv, Typed, WaitersKnown, PushGoesToHolder, Goto
  <2>5. HolderKnows'
    BY <1>2, <2>0 DEF GateInv, Typed, HolderKnows, Goto
  <2>6. FreedIsUnused'
    <3>1. Waiting' = Waiting \union {t} /\ t \notin Waiting
      BY <1>2 DEF GateInv, Typed, Waiting, Goto
    <3>2. Cardinality(Waiting') = Cardinality(Waiting) + 1
      BY <3>1, WaitingFinite, FS_AddElement
    <3> QED
      BY <1>2, <2>0, <3>2, WaitingFinite DEF GateInv, Typed, FreedIsUnused, Waiting
  <2> QED
    BY <2>1, <2>2, <2>3, <2>4, <2>5, <2>6 DEF GateInv
<1>3. CASE wait_end(t)
  <2> USE DEF wait_end
  <2>1. Typed' /\ Locked' /\ Queued' /\ Alive'
    BY <1>3 DEF GateInv, Typed, Locked, Queued, Alive
  <2>2. WaitersKnown' /\ PushGoesToHolder'
    BY <1>3 DEF GateInv, Typed, Queued, WaitersKnown, PushGoesToHolder
  <2>3. HolderKnows'
    BY <1>3 DEF GateInv, Typed, HolderKnows
  <2>4. FreedIsUnused'
    BY <1>3, WaitersStay DEF GateInv
  <2> QED
    BY <2>1, <2>2, <2>3, <2>4 DEF GateInv
<1>4. CASE wait_return(t) /\ ~ Panic
  <2> USE DEF wait_return, drop_ref
  <2>0. gt_refs > 0 /\ life # "freed" /\ (life = "alive" => gt_refs > 1)
    BY <1>4, WaiterCounts DEF GateInv
  <2>1. Typed'
    <3>1. waiters' \in BOOLEAN
      BY <1>4 DEF GateInv, Typed, waiters_left
    <3>2. ret' \in [Threads -> {"OPENED", "HANDOFF", "INTERRUPTED"}]
      BY <1>4 DEF GateInv, Typed, result
    <3>3. gt_refs' \in Nat /\ inheritor' \in Threads \union {None}
      BY <1>4, <2>0 DEF GateInv, Typed
    <3> QED
      BY <1>4, <3>1, <3>2, <3>3 DEF GateInv, Typed, Goto, Positions
  <2>2. Locked' /\ Alive'
    BY <1>4, <2>0 DEF GateInv, Typed, Locked, Alive, Goto
  <2>3. Queued'
    <3>1. holder = None => waitq = {}
      BY DEF GateInv, WaitersKnown
    <3> QED
      BY <1>4, <3>1 DEF GateInv, Typed, Queued, Goto, waiters_left
  <2>4. WaitersKnown'
    BY <1>4 DEF GateInv, Typed, WaitersKnown, Goto, waiters_left
  <2>5. PushGoesToHolder'
    <3>1. waitq # {} => ~ push_over(t)
      BY <1>4 DEF GateInv, Typed, Queued, push_over
    <3>2. inheritor' # None => \E u \in Threads \ {t} : pc[u] = "wait"
      BY <1>4 DEF push_over
    <3> QED
      BY <1>4, <3>1, <3>2 DEF GateInv, Typed, PushGoesToHolder, Goto
  <2>6. HolderKnows'
    <3>1. holder = t => life = "alive" /\ wait_result[t] = "AWAKENED"
      BY <1>4, GateAssumption DEF GateInv, Queued, HolderKnows
    <3> QED
      BY <1>4, <3>1 DEF GateInv, Typed, HolderKnows, Goto, result
  <2>7. FreedIsUnused'
    <3>1. Waiting' = Waiting \ {t} /\ t \in Waiting
      BY <1>4 DEF GateInv, Typed, Waiting, Goto
    <3>2. Cardinality(Waiting') = Cardinality(Waiting) - 1
      BY <3>1, WaitingFinite, FS_RemoveElement
    <3> QED
      BY <1>4, <2>0, <3>2, WaitingFinite DEF GateInv, Typed, FreedIsUnused, Waiting
  <2> QED
    BY <2>1, <2>2, <2>3, <2>4, <2>5, <2>6, <2>7 DEF GateInv
<1> QED
  BY <1>1, <1>2, <1>3, <1>4 DEF gate_wait

(* The end of a gate and the beginning of the next.                        *)
LEMMA LifeStep ==
    ASSUME GateInv, \/ \E t \in Threads : gate_free(t) \/ gate_destroy(t)
                    \/ gate_init
    PROVE  GateInv'
<1> USE DEF gate, word
<1>1. ASSUME NEW t \in Threads, gate_free(t) \/ gate_destroy(t)
      PROVE  GateInv'
  <2> USE DEF gate_free, gate_destroy, Calls, gate_destroy_internal
  <2>0. ~ waiters /\ waitq = {} /\ holder = None /\ life = "alive"
    BY <1>1 DEF GateInv, Queued, WaitersKnown
  <2>1. /\ gt_refs = Cardinality(Waiting) + 1
        /\ gt_refs' = Cardinality(Waiting)
        /\ life' = IF Waiting = {} THEN "freed" ELSE "destroyed"
    BY <1>1, <2>0, WaitingFinite DEF GateInv, Typed, FreedIsUnused, Waiting
  <2>2. Typed' /\ Locked' /\ Queued'
    BY <1>1, <2>0, <2>1, WaitingFinite DEF GateInv, Typed, Locked, Queued
  <2>3. Alive'
    <3>1. \A u \in Threads : pc[u] # "probed"
      BY <1>1 DEF GateInv, Locked
    <3>2. life' = "destroyed" => gt_alloc
      BY <1>1, <2>1 DEF Waiting
    <3> QED
      BY <1>1, <2>0, <3>1, <3>2 DEF Alive
  <2>4. WaitersKnown' /\ PushGoesToHolder' /\ HolderKnows'
    BY <1>1, <2>0 DEF GateInv, WaitersKnown, PushGoesToHolder, HolderKnows
  <2>5. FreedIsUnused'
    <3>1. Waiting' = Waiting
      BY <1>1, <2>0 DEF Waiting
    <3>2. Cardinality(Waiting') = gt_refs' /\ life' # "alive"
      BY <2>1, <3>1
    <3>3. life' = "freed" <=> gt_refs' = 0
      BY <2>1, WaitingFinite
    <3> QED
      BY <2>1, <3>2, <3>3, WaitingFinite DEF FreedIsUnused, Waiting
  <2> QED
    BY <2>2, <2>3, <2>4, <2>5 DEF GateInv
<1>2. CASE gate_init
  <2> USE DEF gate_init
  <2>0. Waiting = {} /\ holder = None /\ waitq = {}
    BY <1>2, WaitingFinite DEF GateInv, Typed, FreedIsUnused, Waiting, Queued, WaitersKnown
  <2>1. Typed' /\ Locked' /\ Queued' /\ Alive'
    BY <1>2, <2>0 DEF GateInv, Typed, Locked, Queued, Alive
  <2>2. WaitersKnown' /\ PushGoesToHolder' /\ HolderKnows'
    BY <1>2, <2>0, GateAssumption DEF GateInv, WaitersKnown, PushGoesToHolder, HolderKnows
  <2>3. FreedIsUnused'
    <3>1. Waiting' = {}
      BY <1>2, <2>0 DEF Waiting
    <3> QED
      BY <1>2, <3>1, FS_EmptySet DEF FreedIsUnused, Waiting
  <2> QED
    BY <2>1, <2>2, <2>3 DEF GateInv
<1> QED
  BY <1>1, <1>2

-----------------------------------------------------------------------------
(* A gate that gate_init has set up satisfies the invariant.               *)
LEMMA GateInvInit == Init => GateInv
<1> SUFFICES ASSUME Init PROVE GateInv
  OBVIOUS
<1> USE DEF Init, L!Init
<1>1. Typed /\ Locked /\ Queued /\ Alive
  BY DEF Typed, Locked, Queued, Alive, Positions
<1>2. WaitersKnown /\ PushGoesToHolder /\ HolderKnows
  BY GateAssumption DEF WaitersKnown, PushGoesToHolder, HolderKnows
<1>3. FreedIsUnused
  <2>1. Waiting = {}
    BY DEF Waiting
  <2> QED
    BY <2>1, FS_EmptySet DEF FreedIsUnused, Waiting
<1> QED
  BY <1>1, <1>2, <1>3 DEF GateInv

(* Every step of every thread preserves the invariant.                     *)
LEMMA GateInvStep == GateInv /\ [Next]_vars => GateInv'
<1> SUFFICES ASSUME GateInv, [Next]_vars PROVE GateInv'
  OBVIOUS
<1>1. CASE UNCHANGED vars
  BY <1>1 DEF vars, gate, word, GateInv, Typed, Locked, Queued, Alive, WaitersKnown,
              PushGoesToHolder, HolderKnows, FreedIsUnused
<1>2. CASE Next
  BY <1>2, ClientStep, GateStep, WaitStep, LifeStep DEF Next
<1> QED
  BY <1>1, <1>2

(* The word of the gate, its references, its queue and the positions of    *)
(* the threads agree, whatever locks.c does.                               *)
THEOREM GateInvariant == Spec => []GateInv
  BY GateInvInit, GateInvStep, PTL DEF Spec

(* The fields of gate_t have their types, and no more references are taken *)
(* than there are threads, and the owner's.                                *)
THEOREM TypeCorrect == Spec => []TypeOK
<1>1. GateInv => TypeOK
  <2> SUFFICES ASSUME GateInv PROVE TypeOK
    OBVIOUS
  <2>1. gt_refs \in 0 .. Cardinality(Threads) + 1
    <3>1. Cardinality(Threads) \in Nat
      BY GateAssumption, FS_CardinalityType
    <3> QED
      BY <3>1, WaitingFinite DEF GateInv, Typed, FreedIsUnused, Waiting
  <2> QED
    BY <2>1 DEF GateInv, Typed, TypeOK, L!Modes
<1> QED
  BY <1>1, GateInvariant, PTL

(* Whoever opens or hands off the gate knows of the sleeping threads,      *)
(* however many were interrupted.                                          *)
THEOREM SleepersKnown == Spec => []WaitersKnown
<1>1. GateInv => WaitersKnown
  BY DEF GateInv
<1> QED
  BY <1>1, GateInvariant, PTL

(* gate_steal, gate_handoff and the ends of waits keep the turnstile's     *)
(* inheritor with the holder.                                              *)
THEOREM PushIsRight == Spec => []PushGoesToHolder
<1>1. GateInv => PushGoesToHolder
  BY DEF GateInv
<1> QED
  BY <1>1, GateInvariant, PTL

(* A gate is never handed off to a thread that will not know.              *)
THEOREM HandoffIsTold == Spec => []HolderKnows
<1>1. GateInv => HolderKnows
  BY DEF GateInv
<1> QED
  BY <1>1, GateInvariant, PTL

(* gate_free and the returning waiters free the memory once, and last.     *)
THEOREM MemoryIsSafe == Spec => []FreedIsUnused
<1>1. GateInv => FreedIsUnused
  BY DEF GateInv
<1> QED
  BY <1>1, GateInvariant, PTL

-----------------------------------------------------------------------------
(* A gate that is only opened with the lock held exclusively is closed     *)
(* when somebody who has found it closed begins to wait.                   *)
LEMMA ProbedStep ==
    ASSUME "shared" \notin OpenModes, GateInv, Probed, ~ panicked, [Next]_vars
    PROVE  Probed' /\ ~ panicked'
<1> USE DEF gate, word, GateInv
<1>1. CASE UNCHANGED vars
  BY <1>1 DEF vars, Probed
<1>2. ASSUME NEW t \in Threads, lock_shared(t) \/ lock_exclusive(t) \/ unlock(t) \/ relock(t)
      PROVE  Probed' /\ ~ panicked'
  BY <1>2 DEF lock_shared, lock_exclusive, unlock, relock, Goto, Probed, Typed
<1>3. ASSUME NEW t \in Threads, gate_try_close(t) \/ gate_close(t)
      PROVE  Probed' /\ ~ panicked'
  BY <1>3, GateAssumption
     DEF gate_try_close, gate_close, close_open_gate, Calls, Goto, Probed, Typed, Queued
<1>4. ASSUME NEW t \in Threads,
             gate_open(t) \/ (\E flag \in BOOLEAN : gate_handoff(t, flag))
      PROVE  Probed' /\ ~ panicked'
  <2>1. mode[t] = "exclusive" /\ pc[t] = "locked" /\ UNCHANGED <<pc, panicked>>
    BY <1>4, GateAssumption DEF gate_open, gate_handoff, Calls
  <2> QED
    BY <2>1 DEF Probed, Locked
<1>5. ASSUME NEW t \in Threads, gate_steal(t)
      PROVE  Probed' /\ ~ panicked'
  BY <1>5, GateAssumption DEF gate_steal, Probed
<1>6. ASSUME NEW t \in Threads, gate_wait(t)
      PROVE  Probed' /\ ~ panicked'
  BY <1>6 DEF gate_wait, Goto, Probed, Typed
<1>7. ASSUME NEW t \in Threads, wait_end(t) \/ wait_return(t)
      PROVE  Probed' /\ ~ panicked'
  <2>1. CASE wait_end(t)
    BY <2>1 DEF wait_end, Probed
  <2>2. CASE wait_return(t)
    <3>1. wait_result[t] # "AWAKENED" => holder # t
      BY <2>2 DEF wait_return, HolderKnows
    <3>2. life = "destroyed" => gt_alloc /\ waitq = {}
      BY DEF Alive, Queued, WaitersKnown
    <3> QED
      BY <2>2, <3>1, <3>2 DEF wait_return, Goto, Probed, Typed
  <2> QED
    BY <1>7, <2>1, <2>2
<1>8. ASSUME NEW t \in Threads, gate_free(t) \/ gate_destroy(t)
      PROVE  Probed' /\ ~ panicked'
  BY <1>8 DEF gate_free, gate_destroy, gate_destroy_internal, Probed, Queued
<1>9. CASE gate_init
  BY <1>9 DEF gate_init, Probed, Alive
<1> QED
  BY <1>1, <1>2, <1>3, <1>4, <1>5, <1>6, <1>7, <1>8, <1>9 DEF Next

(* No assertion of locks.c fails, if gates are opened and handed off with  *)
(* the client's lock held exclusively.                                     *)
THEOREM AssertionsHold ==
    ASSUME "shared" \notin OpenModes
    PROVE  Spec => []NoPanic
<1>1. Init => Probed /\ ~ panicked
  BY DEF Init, Probed
<1>2. GateInv /\ Probed /\ ~ panicked /\ [Next]_vars => Probed' /\ ~ panicked'
  BY ProbedStep
<1>3. Probed /\ ~ panicked => NoPanic
  BY DEF NoPanic
<1> QED
  BY <1>1, <1>2, <1>3, GateInvariant, PTL DEF Spec
=============================================================================
