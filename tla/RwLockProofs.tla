---------------------------- MODULE RwLockProofs ----------------------------
(***************************************************************************)
(* Proofs about read-write locks, for every set of threads: mutual         *)
(* exclusion, the owner, the promise of SharedLock and, if no lock that    *)
(* gives priority to readers is downgraded, that no wakeup is lost.        *)
(***************************************************************************)
EXTENDS RwLock, FiniteSetTheorems, TLAPS

-----------------------------------------------------------------------------
(* The inductive invariant of exclusion *)

Typed ==
    /\ priv_excl \in BOOLEAN /\ can_sleep \in BOOLEAN
    /\ priv_excl \in PrivExcl /\ can_sleep \in CanSleep
    /\ shared_count \in Nat
    /\ want_excl \in BOOLEAN /\ want_upgrade \in BOOLEAN
    /\ r_waiting \in BOOLEAN /\ w_waiting \in BOOLEAN
    /\ interlock \in BOOLEAN
    /\ owner \in Threads \union {None}
    /\ pc \in [Threads -> Positions]
    /\ todo \in [Threads -> SUBSET Events]

Readers == In({"shared"})

(* The word counts the readers.                                            *)
Counted == shared_count = Cardinality(Readers)

(* At most one thread has the lock, one waits for it with want_excl, one   *)
(* with want_upgrade; nobody upgrades a lock another thread has.           *)
Alone ==
    \A t, u \in Threads :
        /\ pc[t] \in Exclusive /\ pc[u] \in Exclusive => t = u
        /\ pc[t] \in DrainLoop /\ pc[u] \in DrainLoop => t = u
        /\ pc[t] \in UpgradeLoop /\ pc[u] \in UpgradeLoop => t = u
        /\ ~ (pc[t] \in Exclusive /\ pc[u] \in UpgradeLoop)

(* Whose the bits of the word are.  When a thread has the lock by an       *)
(* upgrade, want_excl belongs to a writer that waits.                      *)
Bits ==
    /\ \A t \in Threads : pc[t] \in Exclusive =>
          shared_count = 0 /\ (want_excl \/ want_upgrade)
    /\ \A t \in Threads : pc[t] \in UpgradeLoop => want_upgrade
    /\ \A t \in Threads : pc[t] \in DrainLoop => want_excl
    /\ \A t, u \in Threads : pc[t] \in Exclusive /\ pc[u] \in DrainLoop => want_upgrade
    /\ want_upgrade => \E t \in Threads : pc[t] \in Exclusive \union UpgradeLoop
    /\ want_excl => \E t \in Threads :
          pc[t] \in DrainLoop \/ (pc[t] \in Exclusive /\ ~ want_upgrade)

Owned == \A t \in Threads : owner = t <=> pc[t] = "exclusive"

LockInv == Typed /\ Counted /\ Alone /\ Bits /\ Owned

(* Positions that are the same to exclusion.                               *)
Like(p, q) ==
    /\ p \in Exclusive <=> q \in Exclusive
    /\ p \in DrainLoop <=> q \in DrainLoop
    /\ p \in UpgradeLoop <=> q \in UpgradeLoop
    /\ p = "shared" <=> q = "shared"

-----------------------------------------------------------------------------
(* Readers are a finite set, whose size follows its members.               *)
LEMMA ReadersFinite ==
    /\ IsFiniteSet(Readers)
    /\ Cardinality(Readers) \in Nat
    /\ Cardinality(Readers) <= Cardinality(Threads)
    /\ Cardinality(Readers) = 0 <=> Readers = {}
<1>1. Readers \subseteq Threads
  BY DEF Readers, In
<1>2. IsFiniteSet(Threads)
  BY RwLockAssumption
<1> QED
  BY <1>1, <1>2, FS_Subset, FS_CardinalityType, FS_EmptySet

(* A thread that gets the lock shared adds one to the count.               *)
LEMMA ReaderJoins ==
    ASSUME NEW t \in Threads, Typed, Counted,
           pc[t] # "shared", pc' = [pc EXCEPT ![t] = "shared"],
           shared_count' = shared_count + 1
    PROVE  Counted'
<1>1. Readers' = Readers \union {t} /\ t \notin Readers
  BY DEF Readers, In, Typed
<1> QED
  BY <1>1, ReadersFinite, FS_AddElement DEF Counted

(* A thread that gives up the lock shared takes one from the count.        *)
LEMMA ReaderLeaves ==
    ASSUME NEW t \in Threads, NEW p, Typed, Counted,
           pc[t] = "shared", p # "shared", pc' = [pc EXCEPT ![t] = p],
           shared_count' = shared_count - 1
    PROVE  Counted'
<1>1. Readers' = Readers \ {t} /\ t \in Readers
  BY DEF Readers, In, Typed
<1> QED
  BY <1>1, ReadersFinite, FS_RemoveElement DEF Counted

(* The count is right as long as readers and the count stay.               *)
LEMMA ReadersStay ==
    ASSUME Counted, \A u \in Threads : pc[u] = "shared" <=> pc'[u] = "shared",
           shared_count' = shared_count
    PROVE  Counted'
<1>1. Readers' = Readers
  BY DEF Readers, In
<1> QED
  BY <1>1 DEF Counted

(* Who holds the lock shared is counted.                                   *)
LEMMA ReaderCounts ==
    ASSUME NEW t \in Threads, Typed, Counted, pc[t] = "shared"
    PROVE  shared_count > 0
<1>1. t \in Readers
  BY DEF Readers, In
<1> QED
  BY <1>1, ReadersFinite DEF Counted

-----------------------------------------------------------------------------
(* Steps that move no thread to another part of the protocol.              *)
LEMMA LikeStep ==
    ASSUME Alone, Bits, \A u \in Threads : Like(pc[u], pc'[u]),
           UNCHANGED <<shared_count, want>>
    PROVE  Alone' /\ Bits'
<1> USE DEF Like, want
<1>1. Alone'
  BY DEF Alone
<1>2. Bits'
  BY DEF Bits
<1> QED
  BY <1>1, <1>2

(* The word, the owner and the positions keep their types.                 *)
LEMMA TypedStep ==
    ASSUME NEW t \in Threads, LockInv, Begin(t) \/ Release(t) \/ Continue(t) \/ Wait(t)
    PROVE  Typed'
<1> USE DEF LockInv, Typed, attr, want, waiting, Goto, Positions, Exclusive, WantLoop,
            DrainLoop, UpgradeLoop, SharedLoop, Events
<1>0. pc[t] = "shared" => shared_count > 0
  BY ReaderCounts
<1>1. CASE Begin(t)
  <2>1. CASE lck_rw_try_lock_exclusive(t)
    BY <2>1 DEF At, lck_rw_try_lock_exclusive
  <2>2. CASE lck_rw_lock_exclusive_gen(t)
    BY <2>2 DEF At, lck_rw_lock_exclusive_gen
  <2>3. CASE lck_rw_try_lock_shared(t)
    BY <2>3 DEF At, lck_rw_try_lock_shared
  <2>4. CASE lck_rw_lock_shared_gen(t)
    BY <2>4 DEF At, lck_rw_lock_shared_gen
  <2>5. CASE upgrade_failure(t)
    <3>1. shared_count' \in Nat /\ pc' \in [Threads -> Positions]
      BY <2>5, <1>0 DEF At, upgrade_failure
    <3>2. w_waiting' \in BOOLEAN
      BY <2>5, Zenon DEF upgrade_failure
    <3>3. todo' \in [Threads -> SUBSET Events]
      BY <2>5 DEF upgrade_failure
    <3> QED
      BY <3>1, <3>2, <3>3, <2>5 DEF upgrade_failure
  <2>6. CASE upgrade_success(t)
    <3>1. shared_count' \in Nat
      BY <2>6, <1>0 DEF At, upgrade_success
    <3>2. pc' \in [Threads -> Positions]
      BY <2>6 DEF upgrade_success
    <3> QED
      BY <3>1, <3>2, <2>6 DEF upgrade_success
  <2>7. CASE downgrade_owner(t)
    BY <2>7 DEF At, downgrade_owner
  <2> QED
    BY <1>1, <2>1, <2>2, <2>3, <2>4, <2>5, <2>6, <2>7 DEF Begin
<1>2. CASE Release(t)
  <2>1. CASE unlock_owner(t)
    BY <2>1 DEF At, unlock_owner
  <2>2. CASE lck_rw_done(t)
    <3>1. shared_count' \in Nat /\ pc' \in [Threads -> Positions]
      BY <2>2 DEF lck_rw_done
    <3>2. want_excl' \in BOOLEAN /\ want_upgrade' \in BOOLEAN
      BY <2>2, Zenon DEF lck_rw_done
    <3>3. w_waiting' \in BOOLEAN /\ r_waiting' \in BOOLEAN
      BY <2>2, Zenon DEF lck_rw_done, wakeups
    <3>4. todo' \in [Threads -> SUBSET Events]
      BY <2>2 DEF lck_rw_done, wakeups
    <3> QED
      BY <3>1, <3>2, <3>3, <3>4, <2>2 DEF lck_rw_done
  <2> QED
    BY <1>2, <2>1, <2>2 DEF Release
<1>3. CASE Wait(t)
  BY <1>3 DEF Wait, want_wait, drain_wait, share_wait, upgrade_wait, announce
<1>4. CASE thread_wakeup(t)
  <2>1. PICK e \in todo[t] :
           /\ todo' = [todo EXCEPT ![t] = @ \ {e}]
           /\ pc' = [u \in Threads |->
                      IF pc[u] \in WriterAsleep \union {"share_asleep"} /\ EventOf(pc[u]) = e
                      THEN AwakeOf(pc[u]) ELSE pc[u]]
    BY <1>4 DEF thread_wakeup
  <2>2. \A u \in Threads : pc'[u] \in Positions
    BY <2>1 DEF WriterAsleep, AwakeOf
  <2>3. pc' \in [Threads -> Positions]
    BY <2>1, <2>2
  <2>4. todo' \in [Threads -> SUBSET Events]
    BY <2>1
  <2> QED
    BY <2>3, <2>4, <1>4 DEF thread_wakeup
<1>5. CASE Continue(t) /\ ~ thread_wakeup(t)
  <2>1. CASE grab_want(t)
    BY <2>1 DEF grab_want
  <2>2. CASE drain_status(t)
    BY <2>2 DEF drain_status
  <2>3. CASE store_owner(t)
    BY <2>3 DEF store_owner
  <2>4. CASE grab_shared(t)
    BY <2>4 DEF grab_shared
  <2>5. CASE upgrade_status(t)
    BY <2>5 DEF upgrade_status
  <2>6. CASE lck_interlock_unlock(t)
    BY <2>6 DEF lck_interlock_unlock, Asserting, AsleepOf
  <2>7. CASE lck_rw_lock_exclusive_to_shared(t)
    <3>1. shared_count' \in Nat /\ pc' \in [Threads -> Positions]
      BY <2>7 DEF lck_rw_lock_exclusive_to_shared
    <3>2. want_excl' \in BOOLEAN /\ want_upgrade' \in BOOLEAN /\ w_waiting' \in BOOLEAN
      BY <2>7, Zenon DEF lck_rw_lock_exclusive_to_shared
    <3>3. todo' \in [Threads -> SUBSET Events]
      BY <2>7 DEF lck_rw_lock_exclusive_to_shared
    <3> QED
      BY <3>1, <3>2, <3>3, <2>7 DEF lck_rw_lock_exclusive_to_shared
  <2> QED
    BY <1>5, <2>1, <2>2, <2>3, <2>4, <2>5, <2>6, <2>7 DEF Continue
<1> QED
  BY <1>1, <1>2, <1>3, <1>4, <1>5

(* Steps within a part of the protocol leave exclusion as it is.           *)
LEMMA NeutralStep ==
    ASSUME NEW t \in Threads, LockInv,
           \/ lck_rw_lock_exclusive_gen(t) \/ lck_rw_lock_shared_gen(t) \/ Wait(t)
           \/ lck_interlock_unlock(t) \/ thread_wakeup(t)
           \/ store_owner(t) \/ downgrade_owner(t) \/ unlock_owner(t)
    PROVE  Counted' /\ Alone' /\ Bits' /\ Owned'
<1> USE DEF LockInv, Typed, Goto, Exclusive, WantLoop, DrainLoop, UpgradeLoop, SharedLoop
<1>1. UNCHANGED <<shared_count, want>>
  BY DEF lck_rw_lock_exclusive_gen, lck_rw_lock_shared_gen, Wait, want_wait, drain_wait,
     share_wait, upgrade_wait, announce, lck_interlock_unlock, thread_wakeup, store_owner,
     downgrade_owner, unlock_owner
<1>2. ASSUME NEW u \in Threads PROVE Like(pc[u], pc'[u])
  <2>1. CASE lck_rw_lock_exclusive_gen(t) \/ lck_rw_lock_shared_gen(t)
    BY <2>1 DEF Like, At, lck_rw_lock_exclusive_gen, lck_rw_lock_shared_gen
  <2>2. CASE Wait(t)
    BY <2>2 DEF Like, Wait, want_wait, drain_wait, share_wait, upgrade_wait, announce
  <2>3. CASE lck_interlock_unlock(t)
    BY <2>3 DEF Like, lck_interlock_unlock, Asserting, AsleepOf
  <2>4. CASE thread_wakeup(t)
    BY <2>4 DEF Like, thread_wakeup, WriterAsleep, AwakeOf
  <2>5. CASE store_owner(t) \/ downgrade_owner(t) \/ unlock_owner(t)
    BY <2>5 DEF Like, At, store_owner, downgrade_owner, unlock_owner
  <2> QED
    BY <2>1, <2>2, <2>3, <2>4, <2>5
<1>3. Alone' /\ Bits'
  BY <1>1, <1>2, LikeStep
<1>4. Counted'
  BY <1>1, <1>2, ReadersStay DEF Like
<1>5. Owned'
  <2>1. CASE lck_rw_lock_exclusive_gen(t) \/ lck_rw_lock_shared_gen(t)
    BY <2>1 DEF Owned, At, lck_rw_lock_exclusive_gen, lck_rw_lock_shared_gen
  <2>2. CASE Wait(t)
    BY <2>2 DEF Owned, Wait, want_wait, drain_wait, share_wait, upgrade_wait, announce
  <2>3. CASE lck_interlock_unlock(t)
    BY <2>3 DEF Owned, lck_interlock_unlock, Asserting, AsleepOf
  <2>4. CASE thread_wakeup(t)
    BY <2>4 DEF Owned, thread_wakeup, WriterAsleep, AwakeOf
  <2>5. CASE store_owner(t)
    BY <2>5 DEF Owned, Alone, store_owner
  <2>6. CASE downgrade_owner(t) \/ unlock_owner(t)
    BY <2>6, RwLockAssumption DEF Owned, Alone, At, downgrade_owner, unlock_owner
  <2> QED
    BY <2>1, <2>2, <2>3, <2>4, <2>5, <2>6
<1> QED
  BY <1>3, <1>4, <1>5

(* Steps that take, give up or change the hold on the lock.                *)
LEMMA HoldStep ==
    ASSUME NEW t \in Threads, LockInv,
           \/ lck_rw_try_lock_exclusive(t) \/ grab_want(t) \/ drain_status(t)
           \/ lck_rw_try_lock_shared(t) \/ grab_shared(t)
           \/ upgrade_failure(t) \/ upgrade_success(t) \/ upgrade_status(t)
           \/ lck_rw_lock_exclusive_to_shared(t) \/ lck_rw_done(t)
    PROVE  Counted' /\ Alone' /\ Bits' /\ Owned'
<1> USE DEF LockInv, Typed, want, Goto, Exclusive, WantLoop, DrainLoop, UpgradeLoop
<1>0. pc[t] = "shared" => shared_count > 0
  BY ReaderCounts
<1>1. CASE lck_rw_try_lock_exclusive(t)
  <2>1. Counted'
    BY <1>1, ReadersStay DEF At, lck_rw_try_lock_exclusive
  <2>2. Alone'
    BY <1>1 DEF At, lck_rw_try_lock_exclusive, Alone, Bits
  <2>3. Bits'
    BY <1>1 DEF At, lck_rw_try_lock_exclusive, Alone, Bits
  <2>4. Owned'
    BY <1>1 DEF At, lck_rw_try_lock_exclusive, Owned
  <2> QED
    BY <2>1, <2>2, <2>3, <2>4
<1>2. CASE grab_want(t)
  <2>1. Counted'
    BY <1>2, ReadersStay DEF At, grab_want
  <2>2. Alone'
    BY <1>2 DEF At, grab_want, Alone, Bits
  <2>3. Bits'
    BY <1>2 DEF At, grab_want, Alone, Bits
  <2>4. Owned'
    BY <1>2 DEF At, grab_want, Owned
  <2> QED
    BY <2>1, <2>2, <2>3, <2>4
<1>3. CASE drain_status(t)
  <2>1. Counted'
    BY <1>3, ReadersStay DEF At, drain_status
  <2>2. Alone'
    BY <1>3 DEF At, drain_status, Alone, Bits
  <2>3. Bits'
    BY <1>3 DEF At, drain_status, Alone, Bits
  <2>4. Owned'
    BY <1>3 DEF At, drain_status, Owned
  <2> QED
    BY <2>1, <2>2, <2>3, <2>4
<1>4. CASE lck_rw_try_lock_shared(t)
  <2>1. Counted'
    BY <1>4, ReaderJoins DEF At, lck_rw_try_lock_shared
  <2>2. Alone'
    BY <1>4 DEF At, lck_rw_try_lock_shared, Alone, Bits
  <2>3. Bits'
    BY <1>4 DEF At, lck_rw_try_lock_shared, Alone, Bits
  <2>4. Owned'
    BY <1>4 DEF At, lck_rw_try_lock_shared, Owned
  <2> QED
    BY <2>1, <2>2, <2>3, <2>4
<1>5. CASE grab_shared(t)
  <2>1. Counted'
    BY <1>5, ReaderJoins DEF At, grab_shared, Sharable
  <2>2. Alone'
    BY <1>5 DEF At, grab_shared, Sharable, Alone, Bits
  <2>3. Bits'
    BY <1>5 DEF At, grab_shared, Sharable, Alone, Bits
  <2>4. Owned'
    BY <1>5 DEF At, grab_shared, Owned
  <2> QED
    BY <2>1, <2>2, <2>3, <2>4
<1>6. CASE upgrade_failure(t)
  <2>1. Counted'
    BY <1>6, ReaderLeaves, <1>0 DEF At, upgrade_failure
  <2>2. Alone'
    BY <1>6, <1>0 DEF At, upgrade_failure, Alone, Bits
  <2>3. Bits'
    BY <1>6, <1>0 DEF At, upgrade_failure, Alone, Bits
  <2>4. Owned'
    BY <1>6, <1>0 DEF At, upgrade_failure, Owned
  <2> QED
    BY <2>1, <2>2, <2>3, <2>4
<1>7. CASE upgrade_success(t)
  <2>1. Counted'
    BY <1>7, ReaderLeaves, <1>0 DEF At, upgrade_success
  <2>2. Alone'
    BY <1>7, <1>0 DEF At, upgrade_success, Alone, Bits
  <2>3. Bits'
    BY <1>7, <1>0 DEF At, upgrade_success, Alone, Bits
  <2>4. Owned'
    BY <1>7, <1>0 DEF At, upgrade_success, Owned
  <2> QED
    BY <2>1, <2>2, <2>3, <2>4
<1>8. CASE upgrade_status(t)
  <2>1. Counted'
    BY <1>8, ReadersStay DEF At, upgrade_status
  <2>2. Alone'
    BY <1>8 DEF At, upgrade_status, Alone, Bits
  <2>3. Bits'
    BY <1>8 DEF At, upgrade_status, Alone, Bits
  <2>4. Owned'
    BY <1>8 DEF At, upgrade_status, Owned
  <2> QED
    BY <2>1, <2>2, <2>3, <2>4
<1>9. CASE lck_rw_lock_exclusive_to_shared(t)
  <2>1. Counted'
    BY <1>9, ReaderJoins DEF At, lck_rw_lock_exclusive_to_shared
  <2>2. Alone'
    BY <1>9 DEF At, lck_rw_lock_exclusive_to_shared, Alone, Bits
  <2>3. Bits'
    BY <1>9 DEF At, lck_rw_lock_exclusive_to_shared, Alone, Bits
  <2>4. Owned'
    BY <1>9 DEF At, lck_rw_lock_exclusive_to_shared, Owned
  <2> QED
    BY <2>1, <2>2, <2>3, <2>4
<1>10. CASE lck_rw_done(t)
  <2>1. CASE pc[t] = "shared"
    <3>0. shared_count' = shared_count - 1 /\ pc' = [pc EXCEPT ![t] = "idle"]
      BY <2>1, <1>0, <1>10 DEF lck_rw_done
    <3>1. Counted'
      BY <2>1, <3>0, ReaderLeaves
    <3>2. Alone' /\ Bits'
      BY <2>1, <1>0, <1>10 DEF lck_rw_done, Alone, Bits
    <3>3. Owned'
      BY <2>1, <1>10 DEF lck_rw_done, Owned
    <3> QED
      BY <3>1, <3>2, <3>3
  <2>2. CASE pc[t] = "unlock"
    <3>0. shared_count = 0
      BY <2>2 DEF Bits
    <3>1. Counted'
      BY <2>2, <3>0, <1>10, ReadersStay DEF lck_rw_done
    <3>2. Alone'
      BY <2>2, <3>0, <1>10 DEF lck_rw_done, Alone, Bits
    <3>3. Bits'
      BY <2>2, <3>0, <1>10 DEF lck_rw_done, Alone, Bits
    <3>4. Owned'
      BY <2>2, <1>10 DEF lck_rw_done, Owned
    <3> QED
      BY <3>1, <3>2, <3>3, <3>4
  <2> QED
    BY <2>1, <2>2, <1>10 DEF lck_rw_done, At
<1> QED
  BY <1>1, <1>2, <1>3, <1>4, <1>5, <1>6, <1>7, <1>8, <1>9, <1>10

(* A lock that has just been initialised satisfies the invariant.          *)
LEMMA LockInvInit == Init => LockInv
<1> SUFFICES ASSUME Init PROVE LockInv
  OBVIOUS
<1>1. Typed
  BY RwLockAssumption DEF Init, Typed, Positions
<1>2. Counted
  <2>1. Readers = {}
    BY DEF Init, Readers, In
  <2> QED
    BY <2>1, ReadersFinite DEF Init, Counted
<1>3. Alone /\ Bits
  BY DEF Init, Alone, Bits, Exclusive, DrainLoop, UpgradeLoop
<1>4. Owned
  BY RwLockAssumption DEF Init, Owned
<1> QED
  BY <1>1, <1>2, <1>3, <1>4 DEF LockInv

(* Every step of every thread preserves the invariant of exclusion.        *)
LEMMA LockInvStep == LockInv /\ [Next]_vars => LockInv'
<1> SUFFICES ASSUME LockInv, [Next]_vars PROVE LockInv'
  OBVIOUS
<1>1. CASE UNCHANGED vars
  BY <1>1 DEF LockInv, Typed, Counted, Readers, In, Alone, Bits, Owned,
       vars, attr, want, waiting
<1>2. ASSUME NEW t \in Threads, Begin(t) \/ Release(t) \/ Continue(t) \/ Wait(t)
      PROVE  LockInv'
  <2>1. Typed'
    BY <1>2, TypedStep
  <2>2. Counted' /\ Alone' /\ Bits' /\ Owned'
    BY <1>2, NeutralStep, HoldStep DEF Begin, Release, Continue
  <2> QED
    BY <2>1, <2>2 DEF LockInv
<1> QED
  BY <1>1, <1>2 DEF Next

(* The word, the owner and the positions of the threads agree, whatever    *)
(* the exchanges of lock_rw.c do.                                          *)
THEOREM LockInvariant == Spec => []LockInv
BY LockInvInit, LockInvStep, PTL DEF Spec

-----------------------------------------------------------------------------
(* The fields of the lock have their types, and no more readers are        *)
(* counted in the word of lck_rw_t than there are threads.                 *)
THEOREM TypeCorrect == Spec => []TypeOK
<1>1. LockInv => TypeOK
  BY ReadersFinite DEF LockInv, Typed, Counted, TypeOK
<1> QED
  BY <1>1, LockInvariant, PTL

(* No thread writes while another has the lock, whatever the order of the  *)
(* exchanges, upgrades and downgrades of lock_rw.c.                        *)
THEOREM Exclusion == Spec => []MutualExclusion
<1>1. LockInv => MutualExclusion
  <2> SUFFICES ASSUME LockInv, NEW t \in In(Exclusive), NEW u \in Threads \ {t}
               PROVE  pc[u] \notin Exclusive \union {"shared"} \union UpgradeLoop
    BY DEF MutualExclusion
  <2>1. shared_count = 0
    BY DEF LockInv, Bits, In
  <2>2. pc[u] # "shared"
    BY <2>1, ReaderCounts DEF LockInv
  <2> QED
    BY <2>2 DEF LockInv, Alone, In
<1> QED
  BY <1>1, LockInvariant, PTL

(* The assertions on lck_rw_owner and the type lck_rw_done derives from    *)
(* the word are right.                                                     *)
THEOREM OwnerCorrect == Spec => []OwnerKnown
<1>1. LockInv => OwnerKnown
  BY ReaderCounts DEF LockInv, Owned, Bits, OwnerKnown, In
<1> QED
  BY <1>1, LockInvariant, PTL

-----------------------------------------------------------------------------
(* Refinement *)

Mode == [t \in Threads |-> ModeOf(pc[t])]

(* A step that moves no thread to another mode is a stutter of SharedLock. *)
LEMMA SameMode ==
    ASSUME \A u \in Threads : ModeOf(pc[u]) = ModeOf(pc'[u])
    PROVE  Mode' = Mode
BY DEF Mode

(* A step that moves t to another mode.                                    *)
LEMMA OneMode ==
    ASSUME NEW t \in Threads, NEW p, Typed, pc' = [pc EXCEPT ![t] = p]
    PROVE  Mode' = [Mode EXCEPT ![t] = ModeOf(p)]
BY DEF Mode, Typed

(* What the modes say of the positions.                                    *)
LEMMA ModeCases ==
    ASSUME NEW u \in Threads
    PROVE  /\ Mode[u] \in Promise!Modes
           /\ Mode[u] = "shared" <=> pc[u] = "shared"
           /\ Mode[u] = "upgrading" <=> pc[u] \in UpgradeLoop
           /\ Mode[u] = "exclusive" <=> pc[u] \in Exclusive
           /\ Mode[u] = "none" <=> pc[u] \notin {"shared"} \union UpgradeLoop \union Exclusive
BY DEF Mode, ModeOf, Promise!Modes, UpgradeLoop, Exclusive

(* Every step of a thread is a step of SharedLock or a stutter.            *)
LEMMA PromiseStep ==
    ASSUME NEW t \in Threads, LockInv, Begin(t) \/ Release(t) \/ Continue(t) \/ Wait(t)
    PROVE  Promise!Next \/ Mode' = Mode
<1> DEFINE M == Mode
<1> USE DEF LockInv
<1>m. M = [u \in Threads |-> ModeOf(pc[u])] /\ M' = [u \in Threads |-> ModeOf(pc'[u])]
  BY DEF Mode
<1>0. \A u \in Threads : pc[u] = "shared" => shared_count > 0
  BY ReaderCounts
<1>1. CASE \/ lck_rw_lock_exclusive_gen(t) \/ lck_rw_lock_shared_gen(t) \/ Wait(t)
           \/ lck_interlock_unlock(t) \/ thread_wakeup(t) \/ grab_want(t)
           \/ store_owner(t) \/ downgrade_owner(t) \/ unlock_owner(t)
  <2>1. ASSUME NEW u \in Threads PROVE ModeOf(pc[u]) = ModeOf(pc'[u])
    <3> USE DEF Typed, ModeOf, Goto, Exclusive, UpgradeLoop
    <3>1. CASE lck_rw_lock_exclusive_gen(t) \/ lck_rw_lock_shared_gen(t) \/ grab_want(t)
      BY <3>1 DEF At, lck_rw_lock_exclusive_gen, lck_rw_lock_shared_gen, grab_want
    <3>2. CASE Wait(t)
      BY <3>2 DEF Wait, want_wait, drain_wait, share_wait, upgrade_wait, announce
    <3>3. CASE lck_interlock_unlock(t)
      BY <3>3 DEF lck_interlock_unlock, Asserting, AsleepOf
    <3>4. CASE thread_wakeup(t)
      BY <3>4 DEF thread_wakeup, WriterAsleep, AwakeOf
    <3>5. CASE store_owner(t) \/ downgrade_owner(t) \/ unlock_owner(t)
      BY <3>5 DEF At, store_owner, downgrade_owner, unlock_owner
    <3> QED
      BY <1>1, <3>1, <3>2, <3>3, <3>4, <3>5
  <2> QED
    BY <2>1, SameMode
<1>2. CASE lck_rw_try_lock_exclusive(t) \/ drain_status(t)
  <2>1. \A u \in Threads \ {t} : M[u] = "none"
    BY <1>2, <1>0, ModeCases DEF lck_rw_try_lock_exclusive, drain_status, Alone, Bits, DrainLoop
  <2>2. M[t] = "none"
    BY <1>2, ModeCases DEF lck_rw_try_lock_exclusive, drain_status, At, Exclusive, UpgradeLoop
  <2>3. M' = [M EXCEPT ![t] = "exclusive"]
    BY <1>2, OneMode DEF lck_rw_try_lock_exclusive, drain_status, Goto, ModeOf, Exclusive, UpgradeLoop
  <2>4. Promise!LockExclusive(t)
    BY <1>m, <2>1, <2>2, <2>3 DEF Promise!LockExclusive, Promise!OthersIn, Promise!Set
  <2> QED
    BY <2>4 DEF Promise!Next
<1>3. CASE lck_rw_try_lock_shared(t) \/ grab_shared(t)
  <2>1. \A u \in Threads \ {t} : M[u] # "exclusive" /\ M[u] \in Promise!Modes
    BY <1>3, ModeCases DEF lck_rw_try_lock_shared, grab_shared, Sharable, Bits
  <2>2. M[t] = "none"
    BY <1>3, ModeCases DEF lck_rw_try_lock_shared, grab_shared, At, Exclusive, UpgradeLoop
  <2>3. M' = [M EXCEPT ![t] = "shared"]
    BY <1>3, OneMode DEF lck_rw_try_lock_shared, grab_shared, Goto, ModeOf
  <2>4. Promise!LockShared(t)
    BY <1>m, <2>1, <2>2, <2>3 DEF Promise!LockShared, Promise!OthersIn, Promise!Set
  <2> QED
    BY <2>4 DEF Promise!Next
<1>4. CASE upgrade_failure(t) \/ lck_rw_done(t)
  <2>1. M[t] \in {"shared", "exclusive"}
    BY <1>4, ModeCases DEF upgrade_failure, lck_rw_done, At, Exclusive
  <2>2. M' = [M EXCEPT ![t] = "none"]
    BY <1>4, OneMode DEF upgrade_failure, lck_rw_done, Goto, ModeOf, Exclusive, UpgradeLoop
  <2>3. Promise!Unlock(t)
    BY <1>m, <2>1, <2>2 DEF Promise!Unlock, Promise!Set
  <2> QED
    BY <2>3 DEF Promise!Next
<1>5. CASE upgrade_success(t) /\ shared_count > 1
  <2>1. \A u \in Threads \ {t} : M[u] \in {"none", "shared"}
    BY <1>5, ModeCases DEF upgrade_success, Bits
  <2>2. M[t] = "shared"
    BY <1>5, ModeCases DEF upgrade_success, At
  <2>3. M' = [M EXCEPT ![t] = "upgrading"]
    BY <1>5, OneMode DEF upgrade_success, Goto, ModeOf, UpgradeLoop
  <2>4. Promise!Upgrade(t)
    BY <1>m, <2>1, <2>2, <2>3 DEF Promise!Upgrade, Promise!OthersIn, Promise!Set
  <2> QED
    BY <2>4 DEF Promise!Next
<1>6. CASE (upgrade_success(t) /\ ~ (shared_count > 1)) \/ upgrade_status(t)
  <2>0. \A u \in Threads \ {t} : pc[u] # "shared"
    <3>1. CASE upgrade_status(t)
      BY <3>1, <1>0 DEF upgrade_status
    <3>2. CASE upgrade_success(t) /\ ~ (shared_count > 1)
      <4>1. Cardinality(Readers) = 1 /\ t \in Readers
        BY <3>2, <1>0 DEF upgrade_success, At, Counted, Readers, In, Typed
      <4>2. \A u \in Readers : u = t
        BY <4>1, ReadersFinite, FS_Singleton
      <4> QED
        BY <4>2 DEF Readers, In
    <3> QED
      BY <1>6, <3>1, <3>2
  <2>1. \A u \in Threads \ {t} : M[u] = "none"
    <3>1. CASE upgrade_status(t)
      BY <3>1, <2>0, ModeCases DEF upgrade_status, Alone, UpgradeLoop
    <3>2. CASE upgrade_success(t)
      BY <3>2, <2>0, <1>0, ModeCases DEF upgrade_success, At, Bits
    <3> QED
      BY <1>6, <3>1, <3>2
  <2>2. M[t] \in {"shared", "upgrading"}
    BY <1>6, ModeCases DEF upgrade_success, upgrade_status, At, UpgradeLoop
  <2>3. M' = [M EXCEPT ![t] = "exclusive"]
    BY <1>6, OneMode DEF upgrade_success, upgrade_status, Goto, ModeOf, Exclusive, UpgradeLoop
  <2>4. Promise!Upgrade(t)
    BY <1>m, <2>1, <2>2, <2>3 DEF Promise!Upgrade, Promise!OthersIn, Promise!Set
  <2> QED
    BY <2>4 DEF Promise!Next
<1>7. CASE lck_rw_lock_exclusive_to_shared(t)
  <2>1. M[t] = "exclusive"
    BY <1>7, ModeCases DEF lck_rw_lock_exclusive_to_shared, Exclusive
  <2>2. M' = [M EXCEPT ![t] = "shared"]
    BY <1>7, OneMode DEF lck_rw_lock_exclusive_to_shared, Goto, ModeOf
  <2>3. Promise!Downgrade(t)
    BY <1>m, <2>1, <2>2 DEF Promise!Downgrade, Promise!Set
  <2> QED
    BY <2>3 DEF Promise!Next
<1> QED
  BY <1>1, <1>2, <1>3, <1>4, <1>5, <1>6, <1>7 DEF Begin, Release, Continue

(* lock_rw.c implements SharedLock: whatever a client can tell from how    *)
(* threads hold the lock, the promise allows.                              *)
THEOREM Refinement == Spec => IsSharedLock
<1>1. Init => Promise!Init
  BY DEF Init, Promise!Init, ModeOf, UpgradeLoop, Exclusive
<1>2. LockInv /\ [Next]_vars => [Promise!Next]_Mode
  <2> SUFFICES ASSUME LockInv, [Next]_vars PROVE Promise!Next \/ Mode' = Mode
    OBVIOUS
  <2>1. CASE UNCHANGED vars
    BY <2>1, SameMode DEF vars
  <2>2. CASE Next
    BY <2>2, PromiseStep DEF Next
  <2> QED
    BY <2>1, <2>2
<1> QED
  BY <1>1, <1>2, LockInvariant, PTL DEF Spec, IsSharedLock, Promise!Spec, Mode

-----------------------------------------------------------------------------
(* The inductive invariant of wakeups *)

InFlight(e) == \E u \in Threads : e \in todo[u]
Free == shared_count = 0 /\ ~ want_excl /\ ~ want_upgrade
SomeIn(S) == \E u \in Threads : pc[u] \in S

(* Wakeups are owed by threads that are between two calls; only locks that *)
(* give priority to writers are downgraded.                                *)
Placed ==
    /\ \A t \in Threads : todo[t] # {} => pc[t] \in {"idle", "shared"}
    /\ \A t \in Threads : pc[t] = "downgrade" => priv_excl

(* Who is about to assert a wait has the interlock, so that its flag and   *)
(* what it waits for stay as they are.                                     *)
Interlocked ==
    /\ \A t \in Threads : pc[t] \in Asserting => interlock
    /\ \A t, u \in Threads : pc[t] \in Asserting /\ pc[u] \in Asserting => t = u
    /\ \A t \in Threads : pc[t] \in Asserting \ {"share_assert"} => w_waiting
    /\ \A t \in Threads : pc[t] = "share_assert" => r_waiting
    /\ \A t \in Threads : pc[t] = "drain_assert" => shared_count # 0 \/ want_upgrade
    /\ \A t \in Threads : pc[t] = "upgrade_assert" => shared_count # 0

(* Who sleeps has its flag set, or its wakeup is on the way, and sleeps    *)
(* for a reason.                                                           *)
Flagged ==
    /\ \A t \in Threads : pc[t] \in WriterAsleep => w_waiting \/ InFlight("writer")
    /\ \A t \in Threads : pc[t] = "drain_asleep" =>
          InFlight("writer") \/ shared_count # 0 \/ want_upgrade
    /\ \A t \in Threads : pc[t] = "upgrade_asleep" => InFlight("writer") \/ shared_count # 0
    /\ \A t \in Threads : pc[t] = "share_asleep" => r_waiting \/ InFlight("reader")

(* A flag is set only while somebody has or wants the lock for writing:    *)
(* r_waiting, which writers of a lock that gives them priority leave set,  *)
(* is left to a writer.                                                    *)
Grounded ==
    /\ w_waiting => ~ Free
    /\ w_waiting => SomeIn(WantLoop \union DrainLoop \union UpgradeLoop)
    /\ w_waiting /\ shared_count = 0 => SomeIn(WantLoop \union DrainLoop)
    /\ w_waiting /\ shared_count = 0 /\ ~ want_upgrade => SomeIn(WantLoop)
    /\ r_waiting /\ Free => SomeIn(WantLoop)

WakeInv == Placed /\ Interlocked /\ Flagged /\ Grounded

(* Every step of a thread preserves the invariant of wakeups.              *)
LEMMA WakeStep ==
    ASSUME SharedDowngrade = FALSE, NEW t \in Threads, LockInv, WakeInv,
           Begin(t) \/ Release(t) \/ Continue(t) \/ Wait(t)
    PROVE  WakeInv'
<1> USE DEF LockInv, WakeInv, Typed, attr, want, waiting, Goto, Exclusive, WantLoop, DrainLoop,
            UpgradeLoop, SharedLoop, Asserting, WriterAsleep
<1>0. \A u \in Threads : pc[u] = "shared" => shared_count > 0
  BY ReaderCounts
<1>1. CASE lck_rw_try_lock_exclusive(t)
  <2> USE <1>1 DEF lck_rw_try_lock_exclusive, At
  <2>1. Placed'
    BY DEF Placed
  <2>2. Interlocked'
    BY <1>0 DEF Interlocked
  <2>3. Flagged'
    BY <1>0 DEF Flagged, InFlight, Interlocked, Placed, Bits
  <2>4. Grounded'
    BY <1>0 DEF Grounded, Free, SomeIn, Bits, Alone
  <2> QED
    BY <2>1, <2>2, <2>3, <2>4
<1>2. CASE lck_rw_lock_exclusive_gen(t)
  <2> USE <1>2 DEF lck_rw_lock_exclusive_gen, At
  <2>1. Placed'
    BY DEF Placed
  <2>2. Interlocked'
    BY <1>0 DEF Interlocked
  <2>3. Flagged'
    BY <1>0 DEF Flagged, InFlight, Interlocked, Placed, Bits
  <2>4. Grounded'
    BY <1>0 DEF Grounded, Free, SomeIn, Bits, Alone
  <2> QED
    BY <2>1, <2>2, <2>3, <2>4
<1>3. CASE lck_rw_try_lock_shared(t)
  <2> USE <1>3 DEF lck_rw_try_lock_shared, At
  <2>1. Placed'
    BY DEF Placed
  <2>2. Interlocked'
    BY <1>0 DEF Interlocked
  <2>3. Flagged'
    BY <1>0 DEF Flagged, InFlight, Interlocked, Placed, Bits
  <2>4. Grounded'
    BY <1>0 DEF Grounded, Free, SomeIn, Bits, Alone
  <2> QED
    BY <2>1, <2>2, <2>3, <2>4
<1>4. CASE lck_rw_lock_shared_gen(t)
  <2> USE <1>4 DEF lck_rw_lock_shared_gen, At
  <2>1. Placed'
    BY DEF Placed
  <2>2. Interlocked'
    BY <1>0 DEF Interlocked
  <2>3. Flagged'
    BY <1>0 DEF Flagged, InFlight, Interlocked, Placed, Bits
  <2>4. Grounded'
    BY <1>0 DEF Grounded, Free, SomeIn, Bits, Alone
  <2> QED
    BY <2>1, <2>2, <2>3, <2>4
<1>5. CASE upgrade_failure(t)
  <2> USE <1>5 DEF upgrade_failure, At
  <2>1. Placed'
    BY DEF Placed
  <2>2. Interlocked'
    BY <1>0 DEF Interlocked
  <2>3. Flagged'
    BY <1>0 DEF Flagged, InFlight, Interlocked, Placed, Bits
  <2>4. Grounded'
    BY <1>0 DEF Grounded, Free, SomeIn, Bits, Alone
  <2> QED
    BY <2>1, <2>2, <2>3, <2>4
<1>6. CASE upgrade_success(t)
  <2> USE <1>6 DEF upgrade_success, At
  <2>1. Placed'
    BY DEF Placed
  <2>2. Interlocked'
    BY <1>0 DEF Interlocked
  <2>3. Flagged'
    BY <1>0 DEF Flagged, InFlight, Interlocked, Placed, Bits
  <2>4. Grounded'
    BY <1>0 DEF Grounded, Free, SomeIn, Bits, Alone
  <2> QED
    BY <2>1, <2>2, <2>3, <2>4
<1>7. CASE downgrade_owner(t)
  <2> USE <1>7 DEF downgrade_owner, At
  <2>1. Placed'
    BY DEF Placed
  <2>2. Interlocked'
    BY <1>0 DEF Interlocked
  <2>3. Flagged'
    BY <1>0 DEF Flagged, InFlight, Interlocked, Placed, Bits
  <2>4. Grounded'
    BY <1>0 DEF Grounded, Free, SomeIn, Bits, Alone
  <2> QED
    BY <2>1, <2>2, <2>3, <2>4
<1>8. CASE unlock_owner(t)
  <2> USE <1>8 DEF unlock_owner, At
  <2>1. Placed'
    BY DEF Placed
  <2>2. Interlocked'
    BY <1>0 DEF Interlocked
  <2>3. Flagged'
    BY <1>0 DEF Flagged, InFlight, Interlocked, Placed, Bits
  <2>4. Grounded'
    BY <1>0 DEF Grounded, Free, SomeIn, Bits, Alone
  <2> QED
    BY <2>1, <2>2, <2>3, <2>4
<1>9. CASE lck_rw_done(t)
  <2> USE <1>9 DEF lck_rw_done, At, wakeups
  <2>1. Placed'
    BY DEF Placed
  <2>2. Interlocked'
    BY <1>0 DEF Interlocked
  <2>3. Flagged'
    BY <1>0 DEF Flagged, InFlight, Interlocked, Placed, Bits
  <2>4. Grounded'
    BY <1>0 DEF Grounded, Free, SomeIn, Bits, Alone
  <2> QED
    BY <2>1, <2>2, <2>3, <2>4
<1>10. CASE grab_want(t)
  <2> USE <1>10 DEF grab_want
  <2>1. Placed'
    BY DEF Placed
  <2>2. Interlocked'
    BY <1>0 DEF Interlocked
  <2>3. Flagged'
    BY <1>0 DEF Flagged, InFlight, Interlocked, Placed, Bits
  <2>4. Grounded'
    BY <1>0 DEF Grounded, Free, SomeIn, Bits, Alone
  <2> QED
    BY <2>1, <2>2, <2>3, <2>4
<1>11. CASE drain_status(t)
  <2> USE <1>11 DEF drain_status
  <2>1. Placed'
    BY DEF Placed
  <2>2. Interlocked'
    BY <1>0 DEF Interlocked
  <2>3. Flagged'
    BY <1>0 DEF Flagged, InFlight, Interlocked, Placed, Bits
  <2>4. Grounded'
    BY <1>0 DEF Grounded, Free, SomeIn, Bits, Alone
  <2> QED
    BY <2>1, <2>2, <2>3, <2>4
<1>12. CASE store_owner(t)
  <2> USE <1>12 DEF store_owner
  <2>1. Placed'
    BY DEF Placed
  <2>2. Interlocked'
    BY <1>0 DEF Interlocked
  <2>3. Flagged'
    BY <1>0 DEF Flagged, InFlight, Interlocked, Placed, Bits
  <2>4. Grounded'
    BY <1>0 DEF Grounded, Free, SomeIn, Bits, Alone
  <2> QED
    BY <2>1, <2>2, <2>3, <2>4
<1>13. CASE grab_shared(t)
  <2> USE <1>13 DEF grab_shared, Sharable
  <2>1. Placed'
    BY DEF Placed
  <2>2. Interlocked'
    BY <1>0 DEF Interlocked
  <2>3. Flagged'
    BY <1>0 DEF Flagged, InFlight, Interlocked, Placed, Bits
  <2>4. Grounded'
    BY <1>0 DEF Grounded, Free, SomeIn, Bits, Alone
  <2> QED
    BY <2>1, <2>2, <2>3, <2>4
<1>14. CASE upgrade_status(t)
  <2> USE <1>14 DEF upgrade_status
  <2>1. Placed'
    BY DEF Placed
  <2>2. Interlocked'
    BY <1>0 DEF Interlocked
  <2>3. Flagged'
    BY <1>0 DEF Flagged, InFlight, Interlocked, Placed, Bits
  <2>4. Grounded'
    BY <1>0 DEF Grounded, Free, SomeIn, Bits, Alone
  <2> QED
    BY <2>1, <2>2, <2>3, <2>4
<1>15. CASE lck_interlock_unlock(t)
  <2> USE <1>15 DEF lck_interlock_unlock, AsleepOf
  <2>1. Placed'
    BY DEF Placed
  <2>2. Interlocked'
    BY <1>0 DEF Interlocked
  <2>3. Flagged'
    BY <1>0 DEF Flagged, InFlight, Interlocked, Placed, Bits
  <2>4. Grounded'
    BY <1>0 DEF Grounded, Free, SomeIn, Bits, Alone
  <2> QED
    BY <2>1, <2>2, <2>3, <2>4
<1>16. CASE thread_wakeup(t)
  <2> USE <1>16 DEF thread_wakeup, AwakeOf, EventOf
  <2>1. Placed'
    BY DEF Placed
  <2>2. Interlocked'
    BY <1>0 DEF Interlocked
  <2>3. Flagged'
    BY <1>0 DEF Flagged, InFlight, Interlocked, Placed, Bits
  <2>4. Grounded'
    BY <1>0 DEF Grounded, Free, SomeIn, Bits, Alone
  <2> QED
    BY <2>1, <2>2, <2>3, <2>4
<1>17. CASE lck_rw_lock_exclusive_to_shared(t)
  <2> USE <1>17 DEF lck_rw_lock_exclusive_to_shared
  <2>1. Placed'
    BY DEF Placed
  <2>2. Interlocked'
    BY <1>0 DEF Interlocked
  <2>3. Flagged'
    BY <1>0 DEF Flagged, InFlight, Interlocked, Placed, Bits
  <2>4. Grounded'
    BY <1>0 DEF Grounded, Free, SomeIn, Bits, Alone
  <2> QED
    BY <2>1, <2>2, <2>3, <2>4
<1>18. CASE want_wait(t)
  <2> USE <1>18 DEF want_wait, announce
  <2>1. Placed'
    BY DEF Placed
  <2>2. Interlocked'
    BY <1>0 DEF Interlocked
  <2>3. Flagged'
    BY <1>0 DEF Flagged, InFlight, Interlocked, Placed, Bits
  <2>4. Grounded'
    BY <1>0 DEF Grounded, Free, SomeIn, Bits, Alone
  <2> QED
    BY <2>1, <2>2, <2>3, <2>4
<1>19. CASE drain_wait(t)
  <2> USE <1>19 DEF drain_wait, announce
  <2>1. Placed'
    BY DEF Placed
  <2>2. Interlocked'
    BY <1>0 DEF Interlocked
  <2>3. Flagged'
    BY <1>0 DEF Flagged, InFlight, Interlocked, Placed, Bits
  <2>4. Grounded'
    BY <1>0 DEF Grounded, Free, SomeIn, Bits, Alone
  <2> QED
    BY <2>1, <2>2, <2>3, <2>4
<1>20. CASE share_wait(t)
  <2> USE <1>20 DEF share_wait, announce, Sharable
  <2>1. Placed'
    BY DEF Placed
  <2>2. Interlocked'
    BY <1>0 DEF Interlocked
  <2>3. Flagged'
    BY <1>0 DEF Flagged, InFlight, Interlocked, Placed, Bits
  <2>4. Grounded'
    BY <1>0 DEF Grounded, Free, SomeIn, Bits, Alone
  <2> QED
    BY <2>1, <2>2, <2>3, <2>4
<1>21. CASE upgrade_wait(t)
  <2> USE <1>21 DEF upgrade_wait, announce
  <2>1. Placed'
    BY DEF Placed
  <2>2. Interlocked'
    BY <1>0 DEF Interlocked
  <2>3. Flagged'
    BY <1>0 DEF Flagged, InFlight, Interlocked, Placed, Bits
  <2>4. Grounded'
    BY <1>0 DEF Grounded, Free, SomeIn, Bits, Alone
  <2> QED
    BY <2>1, <2>2, <2>3, <2>4
<1> QED
  BY <1>1, <1>2, <1>3, <1>4, <1>5, <1>6, <1>7, <1>8, <1>9, <1>10, <1>11, <1>12, <1>13, <1>14, <1>15, <1>16, <1>17, <1>18, <1>19, <1>20, <1>21 DEF Begin, Release, Continue, Wait

(* Nobody sleeps on a lock that has just been initialised.                 *)
LEMMA WakeInvInit == Init => WakeInv
BY DEF Init, WakeInv, Placed, Interlocked, Flagged, Grounded, Exclusive, Asserting,
       WriterAsleep, SomeIn, InFlight, Free

(* Every step preserves the invariant of wakeups.                          *)
LEMMA WakeInvStep ==
    ASSUME SharedDowngrade = FALSE
    PROVE  LockInv /\ WakeInv /\ [Next]_vars => WakeInv'
<1> SUFFICES ASSUME LockInv, WakeInv, [Next]_vars PROVE WakeInv'
  OBVIOUS
<1>1. CASE UNCHANGED vars
  BY <1>1 DEF WakeInv, Placed, Interlocked, Flagged, Grounded, SomeIn, InFlight, Free,
       vars, attr, want, waiting
<1>2. CASE Next
  BY <1>2, WakeStep DEF Next
<1> QED
  BY <1>1, <1>2

(* Somebody who is awake has or gets the lock, or writers are woken up,    *)
(* while the lock is not free.                                             *)
LEMMA BusyIsAwake ==
    ASSUME LockInv, WakeInv, ~ Free
    PROVE  \E u \in Threads :
              \/ "writer" \in todo[u]
              \/ pc[u] \in {"shared", "drain", "drain_assert", "upgrade", "upgrade_assert"}
                           \union Exclusive
<1> USE DEF LockInv, WakeInv, Typed
<1>1. CASE shared_count # 0
  <2>1. Readers # {}
    BY <1>1, ReadersFinite DEF Counted
  <2> QED
    BY <2>1 DEF Readers, In
<1>2. CASE shared_count = 0 /\ want_upgrade
  BY <1>2 DEF Bits, Flagged, InFlight, UpgradeLoop
<1>3. CASE shared_count = 0 /\ ~ want_upgrade /\ want_excl
  BY <1>3 DEF Bits, Flagged, InFlight, DrainLoop
<1> QED
  BY <1>1, <1>2, <1>3 DEF Free

(* The flags, exchanges and wakeups of lock_rw.c lose nobody who sleeps,   *)
(* if no lock that gives priority to readers is downgraded.                *)
THEOREM Wakeups ==
    ASSUME SharedDowngrade = FALSE
    PROVE  Spec => []NoLostWakeup
<1>1. LockInv /\ WakeInv => NoLostWakeup
  <2> SUFFICES ASSUME LockInv, WakeInv PROVE NoLostWakeup
    OBVIOUS
  <2>1. CASE ~ Free
    BY <2>1, BusyIsAwake DEF NoLostWakeup
  <2>2. CASE Free
    <3>1. ASSUME NEW t \in Threads, pc[t] \in WriterAsleep
          PROVE  \E u \in Threads : "writer" \in todo[u]
      BY <2>2, <3>1 DEF WakeInv, Flagged, Grounded, InFlight
    <3>2. ASSUME NEW t \in Threads, pc[t] = "share_asleep"
          PROVE  \E u \in Threads : todo[u] # {} \/ pc[u] \in {"want", "want_assert"}
      <4>1. CASE InFlight("reader")
        BY <4>1 DEF InFlight
      <4>2. CASE r_waiting
        <5>1. PICK u \in Threads : pc[u] \in WantLoop
          BY <2>2, <4>2 DEF WakeInv, Grounded, SomeIn
        <5>2. CASE pc[u] = "want_asleep"
          <6>1. PICK v \in Threads : "writer" \in todo[v]
            BY <5>2, <3>1 DEF WriterAsleep
          <6> QED
            BY <6>1
        <5> QED
          BY <5>1, <5>2 DEF WantLoop
      <4> QED
        BY <3>2, <4>1, <4>2 DEF WakeInv, Flagged
    <3> QED
      BY <3>1, <3>2 DEF NoLostWakeup, In
  <2> QED
    BY <2>1, <2>2
<1>2. Init => WakeInv
  BY WakeInvInit
<1>3. LockInv /\ WakeInv /\ [Next]_vars => WakeInv'
  BY WakeInvStep
<1> QED
  BY <1>1, <1>2, <1>3, LockInvariant, PTL DEF Spec
=============================================================================
