------------------------------- MODULE RwLock -------------------------------
(***************************************************************************)
(* Read-write locks, osfmk/kern/lock_rw.c, which the VM maps, the network  *)
(* stack and the I/O registry use.  The lock is a word that is changed by  *)
(* compare and exchange, an interlock in the word that is held by a thread *)
(* that is about to sleep, and an owner kept for assertions.  An action is *)
(* one successful exchange, one section under the interlock up to the      *)
(* assertion of a wait, or one wakeup.                                     *)
(*                                                                         *)
(* A spinning thread reaches its deadline whenever it likes.  No thread    *)
(* takes a lock it holds.                                                  *)
(***************************************************************************)
EXTENDS Integers, FiniteSets

CONSTANTS
    Threads, None,
    PrivExcl,           (* locks to consider: with LCK_RW_PRIV_EXCL, the   *)
                        (* default, or with RW_SHARED_PRIORITY             *)
    CanSleep,           (* locks to consider: lck_rw_can_sleep             *)
    SharedDowngrade     (* whether a RW_SHARED_PRIORITY lock is downgraded *)

ASSUME RwLockAssumption ==
    /\ IsFiniteSet(Threads) /\ None \notin Threads
    /\ PrivExcl \subseteq BOOLEAN /\ CanSleep \subseteq BOOLEAN
    /\ SharedDowngrade \in BOOLEAN

VARIABLES
    priv_excl, can_sleep,       (* word: the attributes                    *)
    shared_count,               (* word: readers                           *)
    want_excl, want_upgrade,    (* word: a writer, an upgrade              *)
    r_waiting, w_waiting,       (* word: somebody sleeps on this event     *)
    interlock,                  (* word: LCK_RW_INTERLOCK                  *)
    owner,                      (* lck_rw_owner                            *)
    pc,                         (* thread: position                        *)
    todo                        (* thread: events it has yet to wake up    *)

attr == <<priv_excl, can_sleep>>
want == <<want_excl, want_upgrade>>
waiting == <<r_waiting, w_waiting>>
vars == <<attr, shared_count, want, waiting, interlock, owner, pc, todo>>

(* Positions of a thread.  In the loops of the slow paths it spins, has    *)
(* the interlock to assert a wait, or sleeps.                              *)
WantLoop  == {"want", "want_assert", "want_asleep"}     (* for want_excl   *)
DrainLoop == {"drain", "drain_assert", "drain_asleep"}  (* has want_excl   *)
UpgradeLoop == {"upgrade", "upgrade_assert", "upgrade_asleep"}
SharedLoop  == {"share", "share_assert", "share_asleep"}
Asserting == {"want_assert", "drain_assert", "upgrade_assert", "share_assert"}
WriterAsleep == {"want_asleep", "drain_asleep", "upgrade_asleep"}
(* It has the lock: the owner is not yet stored, stored, cleared again.    *)
Exclusive == {"taken", "exclusive", "unlock", "downgrade"}
Positions == {"idle", "shared"} \union Exclusive \union WantLoop \union DrainLoop
             \union UpgradeLoop \union SharedLoop

Events == {"reader", "writer"}

Init ==
    /\ priv_excl \in PrivExcl /\ can_sleep \in CanSleep
    /\ shared_count = 0
    /\ want_excl = FALSE /\ want_upgrade = FALSE
    /\ r_waiting = FALSE /\ w_waiting = FALSE
    /\ interlock = FALSE
    /\ owner = None
    /\ pc = [t \in Threads |-> "idle"]
    /\ todo = [t \in Threads |-> {}]

At(t, p) == pc[t] = p /\ todo[t] = {}
Goto(t, p) == pc' = [pc EXCEPT ![t] = p]

-----------------------------------------------------------------------------
(* Exclusive *)

(* The exchange of lck_rw_try_lock_exclusive and of the fast path of       *)
(* lck_rw_lock_exclusive.                                                  *)
lck_rw_try_lock_exclusive(t) ==
    /\ At(t, "idle") /\ ~ interlock
    /\ shared_count = 0 /\ ~ want_excl /\ ~ want_upgrade
    /\ want_excl' = TRUE
    /\ Goto(t, "taken")
    /\ UNCHANGED <<attr, shared_count, want_upgrade, waiting, interlock, owner, todo>>

(* The fast path has failed: lck_rw_lock_exclusive_gen.                    *)
lck_rw_lock_exclusive_gen(t) ==
    /\ At(t, "idle")
    /\ interlock \/ shared_count > 0 \/ want_excl \/ want_upgrade
    /\ Goto(t, "want")
    /\ UNCHANGED <<attr, shared_count, want, waiting, interlock, owner, todo>>

(* lck_rw_grab(LCK_RW_GRAB_WANT); the same under the interlock.            *)
grab_want(t) ==
    /\ pc[t] = "want" /\ ~ interlock /\ ~ want_excl
    /\ want_excl' = TRUE
    /\ Goto(t, "drain")
    /\ UNCHANGED <<attr, shared_count, want_upgrade, waiting, interlock, owner, todo>>

(* t takes the interlock, and what it waits for has not happened: it has   *)
(* itself be woken up.                                                     *)
announce(t, p) ==
    /\ can_sleep /\ ~ interlock
    /\ interlock' = TRUE
    /\ Goto(t, p)
    /\ UNCHANGED <<attr, shared_count, want, owner, todo>>

want_wait(t) ==
    /\ pc[t] = "want" /\ want_excl
    /\ w_waiting' = TRUE /\ UNCHANGED r_waiting
    /\ announce(t, "want_assert")

(* lck_rw_drain_status(LCK_RW_SHARED_MASK | LCK_RW_WANT_UPGRADE), which    *)
(* pays no attention to the interlock.                                     *)
drain_status(t) ==
    /\ pc[t] = "drain" /\ shared_count = 0 /\ ~ want_upgrade
    /\ Goto(t, "taken")
    /\ UNCHANGED <<attr, shared_count, want, waiting, interlock, owner, todo>>

drain_wait(t) ==
    /\ pc[t] = "drain" /\ (shared_count # 0 \/ want_upgrade)
    /\ w_waiting' = TRUE /\ UNCHANGED r_waiting
    /\ announce(t, "drain_assert")

(* The owner is stored at the end of the routines that lock exclusively.   *)
store_owner(t) ==
    /\ pc[t] = "taken"
    /\ owner' = t
    /\ Goto(t, "exclusive")
    /\ UNCHANGED <<attr, shared_count, want, waiting, interlock, todo>>

-----------------------------------------------------------------------------
(* Shared *)

(* The exchange of lck_rw_try_lock_shared and of the fast path of          *)
(* lck_rw_lock_shared.                                                     *)
lck_rw_try_lock_shared(t) ==
    /\ At(t, "idle") /\ ~ interlock /\ ~ want_excl /\ ~ want_upgrade
    /\ shared_count' = shared_count + 1
    /\ Goto(t, "shared")
    /\ UNCHANGED <<attr, want, waiting, interlock, owner, todo>>

lck_rw_lock_shared_gen(t) ==
    /\ At(t, "idle") /\ (interlock \/ want_excl \/ want_upgrade)
    /\ Goto(t, "share")
    /\ UNCHANGED <<attr, shared_count, want, waiting, interlock, owner, todo>>

(* Mutant of Sharable: every lock gives priority to readers.               *)
Sharable_always == \/ ~ want_excl /\ ~ want_upgrade
                   \/ shared_count # 0

(* A writer keeps readers out, or with RW_SHARED_PRIORITY those that come  *)
(* when nobody holds the lock shared.                                      *)
Sharable == \/ ~ want_excl /\ ~ want_upgrade
            \/ shared_count # 0 /\ ~ priv_excl

(* lck_rw_grab(LCK_RW_GRAB_SHARED); the same under the interlock.          *)
grab_shared(t) ==
    /\ pc[t] = "share" /\ ~ interlock /\ Sharable
    /\ shared_count' = shared_count + 1
    /\ Goto(t, "shared")
    /\ UNCHANGED <<attr, want, waiting, interlock, owner, todo>>

share_wait(t) ==
    /\ pc[t] = "share" /\ ~ Sharable
    /\ r_waiting' = TRUE /\ UNCHANGED w_waiting
    /\ announce(t, "share_assert")

-----------------------------------------------------------------------------
(* Sleep and wakeup *)

AsleepOf(p) == CASE p = "want_assert" -> "want_asleep"
                 [] p = "drain_assert" -> "drain_asleep"
                 [] p = "upgrade_assert" -> "upgrade_asleep"
                 [] p = "share_assert" -> "share_asleep"

AwakeOf(p) == CASE p = "want_asleep" -> "want"
                [] p = "drain_asleep" -> "drain"
                [] p = "upgrade_asleep" -> "upgrade"
                [] p = "share_asleep" -> "share"

(* assert_wait on the event, then the interlock is released.               *)
lck_interlock_unlock(t) ==
    /\ pc[t] \in Asserting
    /\ interlock' = FALSE
    /\ Goto(t, AsleepOf(pc[t]))
    /\ UNCHANGED <<attr, shared_count, want, waiting, owner, todo>>

EventOf(p) == IF p = "share_asleep" THEN "reader" ELSE "writer"

(* thread_wakeup: everybody who sleeps on the event continues.  Writers    *)
(* are woken up before readers.                                            *)
thread_wakeup(t) ==
    /\ \E e \in todo[t] :
          /\ e = "reader" => "writer" \notin todo[t]
          /\ todo' = [todo EXCEPT ![t] = @ \ {e}]
          /\ pc' = [u \in Threads |->
                      IF pc[u] \in WriterAsleep \union {"share_asleep"} /\ EventOf(pc[u]) = e
                      THEN AwakeOf(pc[u]) ELSE pc[u]]
    /\ UNCHANGED <<attr, shared_count, want, waiting, interlock, owner>>

-----------------------------------------------------------------------------
(* Upgrade and downgrade: lck_rw_lock_shared_to_exclusive *)

(* Mutant of upgrade_failure: the last reader clears the flag and forgets  *)
(* the wakeup.                                                             *)
upgrade_failure_silent(t) ==
    /\ At(t, "shared") /\ priv_excl /\ ~ interlock /\ want_upgrade
    /\ shared_count' = shared_count - 1
    /\ w_waiting' = (w_waiting /\ shared_count > 1) /\ UNCHANGED r_waiting
    /\ Goto(t, "idle")
    /\ UNCHANGED <<attr, want, interlock, owner, todo>>

(* Another thread has want_upgrade: the lock is lost, and the last reader  *)
(* wakes up that thread.                                                   *)
upgrade_failure(t) ==
    /\ At(t, "shared") /\ priv_excl /\ ~ interlock /\ want_upgrade
    /\ shared_count' = shared_count - 1
    /\ w_waiting' = (w_waiting /\ shared_count > 1) /\ UNCHANGED r_waiting
    /\ todo' = [todo EXCEPT ![t] = IF w_waiting /\ shared_count = 1 THEN {"writer"} ELSE {}]
    /\ Goto(t, "idle")
    /\ UNCHANGED <<attr, want, interlock, owner>>

(* Mutant of upgrade_success: a second upgrade is granted.                 *)
upgrade_success_any(t) ==
    /\ At(t, "shared") /\ priv_excl /\ ~ interlock
    /\ want_upgrade' = TRUE
    /\ shared_count' = shared_count - 1
    /\ Goto(t, "upgrade")
    /\ UNCHANGED <<attr, want_excl, waiting, interlock, owner, todo>>

(* The read count is given up; other readers have to drain.                *)
upgrade_success(t) ==
    /\ At(t, "shared") /\ priv_excl /\ ~ interlock /\ ~ want_upgrade
    /\ want_upgrade' = TRUE
    /\ shared_count' = shared_count - 1
    /\ Goto(t, IF shared_count > 1 THEN "upgrade" ELSE "taken")
    /\ UNCHANGED <<attr, want_excl, waiting, interlock, owner, todo>>

upgrade_status(t) ==
    /\ pc[t] = "upgrade" /\ shared_count = 0
    /\ Goto(t, "taken")
    /\ UNCHANGED <<attr, shared_count, want, waiting, interlock, owner, todo>>

upgrade_wait(t) ==
    /\ pc[t] = "upgrade" /\ shared_count # 0
    /\ w_waiting' = TRUE /\ UNCHANGED r_waiting
    /\ announce(t, "upgrade_assert")

(* lck_rw_lock_exclusive_to_shared: the owner is cleared ...               *)
downgrade_owner(t) ==
    /\ At(t, "exclusive") /\ (priv_excl \/ SharedDowngrade)
    /\ owner' = None
    /\ Goto(t, "downgrade")
    /\ UNCHANGED <<attr, shared_count, want, waiting, interlock, todo>>

(* Mutant of lck_rw_lock_exclusive_to_shared: want_excl is cleared even if *)
(* it is the writer's that waits for this upgrade to end.                  *)
exclusive_to_shared_both(t) ==
    /\ pc[t] = "downgrade" /\ ~ interlock
    /\ shared_count' = shared_count + 1
    /\ want_upgrade' = FALSE /\ want_excl' = FALSE
    /\ w_waiting' = (w_waiting /\ priv_excl) /\ UNCHANGED r_waiting
    /\ todo' = [todo EXCEPT ![t] = IF r_waiting /\ ~ (priv_excl /\ w_waiting)
                                   THEN {"reader"} ELSE {}]
    /\ Goto(t, "shared")
    /\ UNCHANGED <<attr, interlock, owner>>

(* ... then the word changes.  Who has want_upgrade keeps want_excl for    *)
(* the writer that drains.                                                 *)
lck_rw_lock_exclusive_to_shared(t) ==
    /\ pc[t] = "downgrade" /\ ~ interlock
    /\ shared_count' = shared_count + 1
    /\ want_upgrade' = FALSE /\ want_excl' = (want_excl /\ want_upgrade)
    /\ w_waiting' = (w_waiting /\ priv_excl) /\ UNCHANGED r_waiting
    /\ todo' = [todo EXCEPT ![t] = IF r_waiting /\ ~ (priv_excl /\ w_waiting)
                                   THEN {"reader"} ELSE {}]
    /\ Goto(t, "shared")
    /\ UNCHANGED <<attr, interlock, owner>>

-----------------------------------------------------------------------------
(* Unlock: lck_rw_done *)

unlock_owner(t) ==
    /\ At(t, "exclusive") /\ ~ interlock
    /\ owner' = None
    /\ Goto(t, "unlock")
    /\ UNCHANGED <<attr, shared_count, want, waiting, interlock, todo>>

(* Nobody holds the lock any more: the flags of those who are going to be  *)
(* woken up are cleared.  Writers come first with LCK_RW_PRIV_EXCL.        *)
wakeups(t) ==
    /\ w_waiting' = FALSE
    /\ r_waiting' = (r_waiting /\ w_waiting /\ priv_excl)
    /\ todo' = [todo EXCEPT ![t] =
                  (IF w_waiting THEN {"writer"} ELSE {})
                  \union (IF r_waiting /\ ~ (priv_excl /\ w_waiting) THEN {"reader"} ELSE {})]

(* The word alone says how the lock is held.                               *)
lck_rw_done(t) ==
    /\ At(t, "shared") \/ At(t, "unlock")
    /\ ~ interlock
    /\ \/ /\ shared_count > 0
          /\ shared_count' = shared_count - 1
          /\ UNCHANGED want
       \/ /\ shared_count = 0
          /\ want_upgrade' = FALSE /\ want_excl' = (want_excl /\ want_upgrade)
          /\ UNCHANGED shared_count
    /\ IF shared_count > 1 THEN UNCHANGED <<waiting, todo>> ELSE wakeups(t)
    /\ Goto(t, "idle")
    /\ UNCHANGED <<attr, interlock, owner>>

-----------------------------------------------------------------------------
Begin(t) ==
    \/ lck_rw_try_lock_exclusive(t) \/ lck_rw_lock_exclusive_gen(t)
    \/ lck_rw_try_lock_shared(t) \/ lck_rw_lock_shared_gen(t)
    \/ upgrade_failure(t) \/ upgrade_success(t)
    \/ downgrade_owner(t)

Release(t) == unlock_owner(t) \/ lck_rw_done(t)

Continue(t) ==
    \/ grab_want(t) \/ drain_status(t) \/ store_owner(t)
    \/ grab_shared(t) \/ upgrade_status(t)
    \/ lck_interlock_unlock(t) \/ thread_wakeup(t)
    \/ lck_rw_lock_exclusive_to_shared(t)

Wait(t) == want_wait(t) \/ drain_wait(t) \/ share_wait(t) \/ upgrade_wait(t)

Next == \E t \in Threads : Begin(t) \/ Release(t) \/ Continue(t) \/ Wait(t)

(* Threads run.  The interlock is held for a moment at a time, and a       *)
(* thread that wants to release the lock gets past it; nobody upgrades and *)
(* downgrades forever without a release.                                   *)
Fairness ==
    /\ \A t \in Threads : WF_vars(Continue(t)) /\ SF_vars(Release(t))
    /\ \A t \in Threads : SF_vars(lck_rw_lock_exclusive_to_shared(t))

Spec == Init /\ [][Next]_vars
FairSpec == Spec /\ Fairness

-----------------------------------------------------------------------------
(* The types of the word and of the threads; the reader count does not     *)
(* exceed the number of threads.                                           *)
TypeOK ==
    /\ priv_excl \in PrivExcl /\ can_sleep \in CanSleep
    /\ shared_count \in 0 .. Cardinality(Threads)
    /\ want_excl \in BOOLEAN /\ want_upgrade \in BOOLEAN
    /\ r_waiting \in BOOLEAN /\ w_waiting \in BOOLEAN
    /\ interlock \in BOOLEAN
    /\ owner \in Threads \union {None}
    /\ pc \in [Threads -> Positions]
    /\ todo \in [Threads -> SUBSET Events]

In(S) == {t \in Threads : pc[t] \in S}

(* No thread has the lock for writing while another has it for writing or  *)
(* for reading, or is on its way from reading to writing.                  *)
MutualExclusion ==
    \A t \in In(Exclusive) : \A u \in Threads \ {t} :
        pc[u] \notin Exclusive \union {"shared"} \union UpgradeLoop

(* The assertions on lck_rw_owner hold, and so does what unlock expects of *)
(* lck_rw_done: the word says shared to who holds the lock shared,         *)
(* exclusive to the other.                                                 *)
OwnerKnown ==
    /\ \A t \in Threads : owner = t <=> pc[t] = "exclusive"
    /\ \A t \in Threads : pc[t] = "shared" => shared_count > 0
    /\ \A t \in In(Exclusive) : shared_count = 0 /\ (want_excl \/ want_upgrade)

(* Who sleeps is going to be woken up: a wakeup of its event is on the     *)
(* way, somebody who is awake has the lock or is next to get it, or, for a *)
(* reader, a writer is awake.  No flag is cleared without a wakeup.        *)
NoLostWakeup ==
    LET Ahead == {"shared", "drain", "drain_assert", "upgrade", "upgrade_assert"}
                 \union Exclusive IN
    /\ In(WriterAsleep) # {} =>
          \E u \in Threads : "writer" \in todo[u] \/ pc[u] \in Ahead
    /\ In({"share_asleep"}) # {} =>
          \E u \in Threads : todo[u] # {} \/ pc[u] \in Ahead \union {"want", "want_assert"}

ModeOf(p) == IF p = "shared" THEN "shared"
             ELSE IF p \in UpgradeLoop THEN "upgrading"
             ELSE IF p \in Exclusive THEN "exclusive" ELSE "none"

Promise == INSTANCE SharedLock WITH mode <- [t \in Threads |-> ModeOf(pc[t])]

(* The lock does what it promises: it implements SharedLock.               *)
IsSharedLock == Promise!Spec

(* With LCK_RW_PRIV_EXCL a writer that has announced itself, and a reader  *)
(* that upgrades, get the lock.                                            *)
WriterServed ==
    \A t \in Threads :
        priv_excl /\ pc[t] \in DrainLoop \union UpgradeLoop ~> pc[t] \in Exclusive
=============================================================================
