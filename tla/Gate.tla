-------------------------------- MODULE Gate --------------------------------
(***************************************************************************)
(* Gates, osfmk/kern/locks.c: a gate is closed by a thread, others wait    *)
(* until it is opened or handed off to one of them.  It is used with a     *)
(* lock of the client's, here what a read-write lock promises              *)
(* (SharedLock); a mutex is one that is only taken exclusively.            *)
(*                                                                         *)
(* The word of the gate changes under a spin lock in it, or by a compare   *)
(* and exchange that fails while that is held, to the same effect: a       *)
(* section under the spin lock is one action.  Who comes back from a wait  *)
(* touches the gate without the client's lock.                             *)
(*                                                                         *)
(* The client keeps the rules of the interface: it opens and hands off     *)
(* what it holds, closes or destroys what is open, steals what somebody    *)
(* else holds and tells that thread, and keeps its lock from a failed      *)
(* try_close to the wait.                                                  *)
(***************************************************************************)
EXTENDS Integers, FiniteSets

CONSTANTS
    Threads, None,
    OpenModes           (* how the lock is held to open and to hand off    *)

ASSUME GateAssumption ==
    /\ IsFiniteSet(Threads) /\ None \notin Threads
    /\ OpenModes \subseteq {"shared", "exclusive"}

VARIABLES
    mode,               (* thread: how it holds the client's lock          *)
    holder, waiters,    (* gt_data: the thread, GATE_WAITERS               *)
    life,               (* gt_data: GATE_DESTROYED; then freed             *)
    gt_alloc, gt_refs,
    waitq, inheritor,   (* gt_turnstile: sleeping threads, who is pushed   *)
    pc,                 (* thread: position                                *)
    wait_result,        (* thread: how its wait ended                      *)
    ret,                (* thread: what gate_wait returns                  *)
    panicked            (* an assertion of the code has failed             *)

word == <<holder, waiters>>
gate == <<word, life, gt_alloc, gt_refs, waitq, inheritor>>
vars == <<mode, gate, pc, wait_result, ret, panicked>>

L == INSTANCE SharedLock

(* In a wait: in the queue or on the way back.                             *)
Positions == {"idle", "locked", "probed", "wait", "relock"}

Init ==
    /\ L!Init
    /\ holder = None /\ waiters = FALSE
    /\ life = "alive" /\ gt_alloc \in BOOLEAN /\ gt_refs = 1
    /\ waitq = {} /\ inheritor = None
    /\ pc = [t \in Threads |-> "idle"]
    /\ wait_result = [t \in Threads |-> "AWAKENED"]
    /\ ret = [t \in Threads |-> "OPENED"]
    /\ panicked = FALSE

Goto(t, p) == pc' = [pc EXCEPT ![t] = p]

(* t calls the gate, which lives, with the lock held.                      *)
Calls(t) == pc[t] = "locked" /\ life = "alive"

Panic == panicked' = TRUE /\ UNCHANGED <<mode, gate, pc, wait_result, ret>>

-----------------------------------------------------------------------------
(* The client's lock *)

lock_shared(t) ==
    /\ pc[t] = "idle"
    /\ L!LockShared(t)
    /\ Goto(t, "locked")
    /\ UNCHANGED <<gate, wait_result, ret, panicked>>

lock_exclusive(t) ==
    /\ pc[t] = "idle"
    /\ L!LockExclusive(t)
    /\ Goto(t, "locked")
    /\ UNCHANGED <<gate, wait_result, ret, panicked>>

unlock(t) ==
    /\ pc[t] \in {"locked", "probed"}
    /\ L!Unlock(t)
    /\ Goto(t, "idle")
    /\ UNCHANGED <<gate, wait_result, ret, panicked>>

-----------------------------------------------------------------------------
(* Close, open, hand off, steal *)

(* An open gate has no waiters, the code asserts.                          *)
close_open_gate(t) ==
    IF waiters
    THEN Panic
    ELSE /\ holder' = t
         /\ UNCHANGED <<mode, waiters, life, gt_alloc, gt_refs, waitq, inheritor, pc,
                        wait_result, ret, panicked>>

(* Who finds the gate closed keeps the lock if it wants to wait.           *)
gate_try_close(t) ==
    /\ Calls(t) /\ holder # t
    /\ \/ holder = None /\ close_open_gate(t)
       \/ /\ holder # None
          /\ Goto(t, "probed")
          /\ UNCHANGED <<mode, gate, wait_result, ret, panicked>>

gate_close(t) ==
    /\ Calls(t) /\ mode[t] = "exclusive" /\ holder = None
    /\ close_open_gate(t)

wake_up(S) ==
    /\ waitq' = waitq \ S
    /\ wait_result' = [t \in Threads |-> IF t \in S THEN "AWAKENED" ELSE wait_result[t]]

(* Mutant of gate_open: the compare and exchange ignores GATE_WAITERS.     *)
gate_open_fast(t) ==
    /\ Calls(t) /\ mode[t] \in OpenModes /\ holder = t
    /\ holder' = None /\ waiters' = FALSE
    /\ UNCHANGED <<mode, life, gt_alloc, gt_refs, waitq, inheritor, pc, wait_result, ret, panicked>>

(* Mutant of gate_open: GATE_WAITERS survives.                             *)
gate_open_bit(t) ==
    /\ Calls(t) /\ mode[t] \in OpenModes /\ holder = t
    /\ holder' = None /\ UNCHANGED waiters
    /\ IF waiters THEN wake_up(waitq) /\ inheritor' = None
                  ELSE UNCHANGED <<waitq, inheritor, wait_result>>
    /\ UNCHANGED <<mode, life, gt_alloc, gt_refs, pc, ret, panicked>>

gate_open(t) ==
    /\ Calls(t) /\ mode[t] \in OpenModes /\ holder = t
    /\ holder' = None /\ waiters' = FALSE
    /\ IF waiters THEN wake_up(waitq) /\ inheritor' = None
                  ELSE UNCHANGED <<waitq, inheritor, wait_result>>
    /\ UNCHANGED <<mode, life, gt_alloc, gt_refs, pc, ret, panicked>>

(* Mutant of handoff_to: the new holder is not told.                       *)
handoff_to_asleep(h) ==
    /\ holder' = h /\ waiters' = TRUE
    /\ inheritor' = h
    /\ UNCHANGED <<waitq, wait_result>>

(* gate_handoff_turnstile has found h, which inherits the push.            *)
handoff_to(h) ==
    /\ wake_up({h})
    /\ holder' = h /\ waiters' = (waitq # {h})
    /\ inheritor' = h

(* flag: GATE_HANDOFF_OPEN_IF_NO_WAITERS.  The waiters of a gate with      *)
(* GATE_WAITERS may all have been interrupted.                             *)
gate_handoff(t, flag) ==
    /\ Calls(t) /\ mode[t] \in OpenModes /\ holder = t
    /\ \/ waiters /\ \E h \in waitq : handoff_to(h)
       \/ /\ waitq = {}
          /\ IF flag THEN holder' = None /\ waiters' = FALSE ELSE UNCHANGED word
          /\ inheritor' = IF flag /\ waiters THEN None ELSE inheritor
          /\ UNCHANGED <<waitq, wait_result>>
    /\ UNCHANGED <<mode, life, gt_alloc, gt_refs, pc, ret, panicked>>

(* Mutant of gate_steal: the push stays with the old holder.               *)
gate_steal_push(t) ==
    /\ Calls(t) /\ mode[t] = "exclusive" /\ holder \notin {None, t}
    /\ holder' = t
    /\ UNCHANGED <<mode, waiters, life, gt_alloc, gt_refs, waitq, inheritor, pc,
                   wait_result, ret, panicked>>

gate_steal(t) ==
    /\ Calls(t) /\ mode[t] = "exclusive" /\ holder \notin {None, t}
    /\ holder' = t
    /\ inheritor' = IF waiters THEN t ELSE inheritor
    /\ UNCHANGED <<mode, waiters, life, gt_alloc, gt_refs, waitq, pc, wait_result, ret, panicked>>

-----------------------------------------------------------------------------
(* Wait *)

(* The lock is released before the interlock of the gate, which is free    *)
(* again once t is in the queue.                                           *)
gate_wait(t) ==
    /\ pc[t] = "probed"
    /\ IF holder = None
       THEN Panic
       ELSE /\ gt_refs' = gt_refs + 1
            /\ waiters' = TRUE
            /\ waitq' = waitq \union {t} /\ inheritor' = holder
            /\ L!Unlock(t)
            /\ Goto(t, "wait")
            /\ UNCHANGED <<holder, life, gt_alloc, wait_result, ret, panicked>>

(* A timeout or an interruption, which the code treats alike.              *)
wait_end(t) ==
    /\ t \in waitq
    /\ waitq' = waitq \ {t}
    /\ wait_result' = [wait_result EXCEPT ![t] = "INTERRUPTED"]
    /\ UNCHANGED <<mode, word, life, gt_alloc, gt_refs, inheritor, pc, ret, panicked>>

(* The end of gate_wait_turnstile: nobody waits any more, and t was the    *)
(* one pushed or does not know; or this was the last thread attached.      *)
push_over(t) ==
    \/ /\ waitq = {}
       /\ holder # None \/ life = "destroyed"
       /\ wait_result[t] # "AWAKENED" \/ holder = t
    \/ \A u \in Threads \ {t} : pc[u] # "wait"

(* Mutant of waiters_left: who was interrupted leaves the bit alone.       *)
waiters_left_set(t) == waiters

(* An interrupted waiter brings GATE_WAITERS up to date.                   *)
waiters_left(t) == IF wait_result[t] = "AWAKENED" THEN waiters ELSE waitq # {}

(* The last waiter frees a gate that gate_free had to leave.               *)
drop_ref ==
    /\ gt_refs' = gt_refs - 1
    /\ life' = IF life = "destroyed" /\ gt_refs = 1 THEN "freed" ELSE life

(* Whoever is told to have been handed the gate may find it stolen again   *)
(* once it has the lock, but not here.                                     *)
result(t) == IF life = "destroyed" THEN "OPENED"
             ELSE IF wait_result[t] # "AWAKENED" THEN "INTERRUPTED"
             ELSE IF holder = t THEN "HANDOFF" ELSE "OPENED"

(* t is back, takes the interlock and cleans up.                           *)
wait_return(t) ==
    /\ pc[t] = "wait" /\ t \notin waitq
    /\ IF \/ wait_result[t] # "AWAKENED" /\ holder = t
          \/ life = "destroyed" /\ (~ gt_alloc \/ waitq # {})
       THEN Panic
       ELSE /\ waiters' = waiters_left(t)
            /\ inheritor' = IF push_over(t) THEN None ELSE inheritor
            /\ drop_ref
            /\ ret' = [ret EXCEPT ![t] = result(t)]
            /\ wait_result' = [wait_result EXCEPT ![t] = "AWAKENED"]
            /\ Goto(t, "relock")
            /\ UNCHANGED <<mode, holder, gt_alloc, waitq, panicked>>

(* primitive_lock; with LCK_SLEEP_UNLOCK there is none.                    *)
relock(t) ==
    /\ pc[t] = "relock"
    /\ \/ (L!LockShared(t) \/ L!LockExclusive(t)) /\ Goto(t, "locked")
       \/ Goto(t, "idle") /\ UNCHANGED mode
    /\ ret' = [ret EXCEPT ![t] = "OPENED"]
    /\ UNCHANGED <<gate, wait_result, panicked>>

-----------------------------------------------------------------------------
(* Destroy *)

(* Mutant of gate_destroy_internal: waiters on their way back are ignored. *)
gate_destroy_internal_now ==
    IF waiters
    THEN Panic
    ELSE /\ gt_refs' = gt_refs - 1
         /\ life' = "freed"
         /\ UNCHANGED <<mode, word, gt_alloc, waitq, inheritor, pc, wait_result, ret, panicked>>

gate_destroy_internal ==
    IF waiters
    THEN Panic
    ELSE /\ gt_refs' = gt_refs - 1
         /\ life' = IF gt_refs = 1 THEN "freed" ELSE "destroyed"
         /\ UNCHANGED <<mode, word, gt_alloc, waitq, inheritor, pc, wait_result, ret, panicked>>

gate_free(t) ==
    /\ Calls(t) /\ mode[t] = "exclusive" /\ holder = None /\ gt_alloc
    /\ gate_destroy_internal

(* The memory is the client's: it knows that every wait has returned.      *)
gate_destroy(t) ==
    /\ Calls(t) /\ mode[t] = "exclusive" /\ holder = None /\ ~ gt_alloc
    /\ \A u \in Threads : pc[u] # "wait"
    /\ gate_destroy_internal

(* The memory is used for a new gate.                                      *)
gate_init ==
    /\ life = "freed"
    /\ holder' = None /\ waiters' = FALSE
    /\ life' = "alive" /\ gt_alloc' \in BOOLEAN /\ gt_refs' = 1
    /\ UNCHANGED <<mode, waitq, inheritor, pc, wait_result, ret, panicked>>

-----------------------------------------------------------------------------
Next ==
    \/ \E t \in Threads :
          \/ lock_shared(t) \/ lock_exclusive(t) \/ unlock(t) \/ relock(t)
          \/ gate_try_close(t) \/ gate_close(t) \/ gate_open(t) \/ gate_steal(t)
          \/ \E flag \in BOOLEAN : gate_handoff(t, flag)
          \/ gate_wait(t) \/ wait_end(t) \/ wait_return(t)
          \/ gate_free(t) \/ gate_destroy(t)
    \/ gate_init

Spec == Init /\ [][Next]_vars

(* Threads run and nobody keeps the lock for ever; a writer that wants it  *)
(* keeps readers out until it is free (RwLock, WriterServed).  Who holds   *)
(* the gate comes to open it: it does not hand it off, nor is it stolen,   *)
(* every time.                                                             *)
Fairness ==
    /\ []<>(\A t \in Threads : mode[t] = "none")
    /\ \A t \in Threads :
          /\ WF_vars(unlock(t)) /\ WF_vars(wait_return(t)) /\ SF_vars(relock(t))
          /\ SF_vars(holder = t /\ lock_exclusive(t))
          /\ SF_vars(gate_open(t))

FairSpec == Spec /\ Fairness

-----------------------------------------------------------------------------
(* The types of the gate and of the threads; there is at most one          *)
(* reference per thread and one for the owner.                             *)
TypeOK ==
    /\ mode \in [Threads -> L!Modes]
    /\ holder \in Threads \union {None} /\ waiters \in BOOLEAN
    /\ life \in {"alive", "destroyed", "freed"}
    /\ gt_alloc \in BOOLEAN /\ gt_refs \in 0 .. Cardinality(Threads) + 1
    /\ waitq \subseteq Threads /\ inheritor \in Threads \union {None}
    /\ pc \in [Threads -> Positions]
    /\ wait_result \in [Threads -> {"AWAKENED", "INTERRUPTED"}]
    /\ ret \in [Threads -> {"OPENED", "HANDOFF", "INTERRUPTED"}]
    /\ panicked \in BOOLEAN

(* No assertion of the gate fails: an open gate has no waiters to be       *)
(* forgotten by who closes or destroys it, who was interrupted does not    *)
(* hold the gate, who waits waits for a gate that is closed.               *)
NoPanic == ~ panicked

(* Who opens the gate knows of the threads that sleep, and the bit that    *)
(* says so does not outlive the last of them and of those interrupted.     *)
WaitersKnown ==
    /\ waitq # {} => holder # None /\ waiters
    /\ waiters => \/ waitq # {}
                  \/ \E t \in Threads : pc[t] = "wait" /\ wait_result[t] = "INTERRUPTED"

(* The priority of the sleeping threads goes to the holder; a thread that  *)
(* holds the gate no more is pushed only until a waiter has returned.      *)
PushGoesToHolder ==
    /\ waitq # {} => inheritor = holder
    /\ inheritor # None => \E t \in Threads : pc[t] = "wait"

(* Who holds the gate knows: it is not asleep, and gate_wait tells it so.  *)
(* It would not open the gate otherwise.                                   *)
HolderKnows ==
    \A t \in Threads : holder = t =>
        /\ t \notin waitq /\ pc[t] # "probed"
        /\ pc[t] = "wait" => wait_result[t] = "AWAKENED"
        /\ pc[t] = "relock" => ret[t] = "HANDOFF"

(* The gate has a reference for its owner and one for each wait, and its   *)
(* memory goes with the last one.                                          *)
FreedIsUnused ==
    /\ gt_refs = Cardinality({t \in Threads : pc[t] = "wait"})
                 + IF life = "alive" THEN 1 ELSE 0
    /\ life = "freed" <=> gt_refs = 0

(* A waiter returns if threads do not hand off the gate for ever.          *)
WaiterServed ==
    \A t \in Threads : pc[t] = "wait" ~> pc[t] \in {"idle", "locked"}
=============================================================================
