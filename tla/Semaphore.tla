----------------------------- MODULE Semaphore ------------------------------
(***************************************************************************)
(* Mach semaphores, osfmk/kern/sync_sema.c, as the traps of user threads   *)
(* use them: wait, wait and signal another semaphore, the three kinds of   *)
(* signal, destruction by a call, by the end of the owning task and by the *)
(* last reference.                                                         *)
(*                                                                         *)
(* A section under the semaphore's lock is one action.  A wait is asserted *)
(* in one section, the other semaphore is signalled in a second one, and   *)
(* only then does the thread block, perhaps handing its processor to the   *)
(* thread it woke up.  Timeouts and aborts come at any time in between.    *)
(***************************************************************************)
EXTENDS Integers, FiniteSets

CONSTANTS
    Threads, Semaphores,
    None,           (* no semaphore, no thread                             *)
    MaxCount,       (* bound on the count of a semaphore                   *)
    WaitOn,         (* semaphores that threads wait on                     *)
    SignalOn,       (* semaphores signalled by a wait on another one       *)
    Destroyable,    (* semaphores that are destroyed                       *)
    Calls           (* routines called besides waits                       *)

Routines == {"signal", "signal_all", "signal_thread", "destroy"}

ASSUME SemaphoreAssumption ==
    /\ None \notin Semaphores \union Threads
    /\ IsFiniteSet(Threads)
    /\ MaxCount \in Nat \ {0}
    /\ WaitOn \subseteq Semaphores /\ SignalOn \subseteq Semaphores
    /\ Destroyable \subseteq Semaphores
    /\ Calls \subseteq Routines

VARIABLES
    count,          (* semaphore: tokens, or -1 when there may be waiters  *)
    active,         (* semaphore: it has an owner                          *)
    waitq,          (* semaphore: threads in its wait queue                *)
    port,           (* semaphore: its port has send rights                 *)
    ref_count,      (* semaphore: references                               *)
    pc, op,         (* thread: position, routine                           *)
    wsem, ssem,     (* thread: semaphore waited on, semaphore signalled    *)
    option,         (* thread: none, timed or noblock                      *)
    kr,             (* thread: result of the routine                       *)
    wait_result,    (* thread: outcome of its latest wait                  *)
    handoff_thread, (* thread: thread it will hand its processor to        *)
    got             (* thread: it was given a token by this wait           *)

semas  == <<count, active, waitq>>
life   == <<port, ref_count>>
call   == <<op, wsem, ssem, option>>
vars   == <<semas, life, pc, call, kr, wait_result, handoff_thread, got>>

Init ==
    /\ count \in [Semaphores -> 0 .. 1]
    /\ active = [s \in Semaphores |-> TRUE]
    /\ waitq = [s \in Semaphores |-> {}]
    /\ port = [s \in Semaphores |-> TRUE]
    /\ ref_count = [s \in Semaphores |-> 1]
    /\ pc = [t \in Threads |-> "idle"]
    /\ op = [t \in Threads |-> "wait"]
    /\ wsem = [t \in Threads |-> None]
    /\ ssem = [t \in Threads |-> None]
    /\ option = [t \in Threads |-> "none"]
    /\ kr = [t \in Threads |-> "SUCCESS"]
    /\ wait_result = [t \in Threads |-> "AWAKENED"]
    /\ handoff_thread = [t \in Threads |-> None]
    /\ got = [t \in Threads |-> FALSE]

Waiting(t) == \E s \in Semaphores : t \in waitq[s]

(* The count that s reaches at most when calls in flight have signalled.   *)
PossibleCount(s) ==
    (IF count[s] > 0 THEN count[s] ELSE 0)
    + Cardinality({t \in Threads : /\ ssem[t] = s /\ op[t] \in {"wait", "signal"}
                                   /\ pc[t] \in {"wait", "signal"}})

(* How many of its references to s a call with arguments w and g holds.    *)
Uses(s, w, g) == (IF s = w THEN 1 ELSE 0) + (IF s = g THEN 1 ELSE 0)

(* A reference for each of the arguments w and g.                          *)
semaphore_reference(w, g) ==
    ref_count' = [s \in Semaphores |-> ref_count[s] + Uses(s, w, g)]

-----------------------------------------------------------------------------
(* Entering a trap: port names are turned into references.                 *)

(* semaphore_wait_trap, semaphore_timedwait_trap and, with a semaphore g   *)
(* to signal, their _signal variants.                                      *)
semaphore_wait_trap(t, w, g, opt) ==
    /\ pc[t] = "idle"
    /\ \A s \in {w, g} \ {None} : port[s]
    /\ g # None => PossibleCount(g) < MaxCount
    /\ semaphore_reference(w, g)
    /\ op' = [op EXCEPT ![t] = "wait"]
    /\ wsem' = [wsem EXCEPT ![t] = w] /\ ssem' = [ssem EXCEPT ![t] = g]
    /\ option' = [option EXCEPT ![t] = opt]
    /\ got' = [got EXCEPT ![t] = FALSE]
    /\ pc' = [pc EXCEPT ![t] = "wait"]
    /\ UNCHANGED <<semas, port, kr, wait_result, handoff_thread>>

(* semaphore_signal_trap, _signal_all_trap, _signal_thread_trap and        *)
(* semaphore_destroy.                                                      *)
semaphore_trap(t, g, routine) ==
    /\ pc[t] = "idle" /\ port[g]
    /\ routine = "destroy" => g \in Destroyable
    /\ routine = "signal" => PossibleCount(g) < MaxCount
    /\ semaphore_reference(None, g)
    /\ op' = [op EXCEPT ![t] = routine]
    /\ wsem' = [wsem EXCEPT ![t] = None] /\ ssem' = [ssem EXCEPT ![t] = g]
    /\ option' = [option EXCEPT ![t] = "none"]
    /\ pc' = [pc EXCEPT ![t] = routine]
    /\ UNCHANGED <<semas, port, kr, wait_result, handoff_thread, got>>

-----------------------------------------------------------------------------
(* semaphore_wait_internal *)

(* No token and the thread may block: the wait is asserted, or fails at    *)
(* once because the thread is being aborted.                               *)
wait_locked(t) ==
    LET s == wsem[t]
        next == IF ssem[t] = None THEN "block" ELSE "signal"
    IN
    /\ pc[t] = "wait" /\ active[s] /\ count[s] <= 0 /\ option[t] # "noblock"
    /\ count' = [count EXCEPT ![s] = -1]
    /\ kr' = [kr EXCEPT ![t] = "ALREADY_WAITING"]
    /\ \/ /\ waitq' = [waitq EXCEPT ![s] = @ \union {t}]
          /\ wait_result' = [wait_result EXCEPT ![t] = "WAITING"]
       \/ /\ UNCHANGED waitq
          /\ wait_result' = [wait_result EXCEPT ![t] = "INTERRUPTED"]
    /\ pc' = [pc EXCEPT ![t] = next]
    /\ UNCHANGED <<active, life, call, handoff_thread, got>>

(* The cases in which the thread does not wait.                            *)
wait_noblock(t) ==
    LET s == wsem[t]
        token == active[s] /\ count[s] > 0
    IN
    /\ pc[t] = "wait"
    /\ ~ active[s] \/ count[s] > 0 \/ option[t] = "noblock"
    /\ count' = IF token THEN [count EXCEPT ![s] = @ - 1] ELSE count
    /\ got' = [got EXCEPT ![t] = token]
    /\ kr' = [kr EXCEPT ![t] = IF ~ active[s] THEN "TERMINATED"
                               ELSE IF token THEN "SUCCESS" ELSE "TIMED_OUT"]
    /\ pc' = [pc EXCEPT ![t] = IF ssem[t] = None THEN "return" ELSE "signal"]
    /\ UNCHANGED <<active, waitq, life, call, wait_result, handoff_thread>>

(* The threads us leave their wait queue with result r.                    *)
wakeup(us, r) ==
    /\ waitq' = [s \in Semaphores |-> waitq[s] \ us]
    /\ wait_result' = [u \in Threads |-> IF u \in us THEN r ELSE wait_result[u]]

(* The threads us get the token or the wakeup they wait for.               *)
awaken(us) ==
    /\ wakeup(us, "AWAKENED")
    /\ got' = [u \in Threads |-> got[u] \/ u \in us]

(* Signal an active semaphore: wake up a waiter, or leave the tokens in    *)
(* prepost, one with SEMAPHORE_SIGNAL_PREPOST and none without.  With      *)
(* SEMAPHORE_THREAD_HANDOFF a waiter that has really blocked is kept for   *)
(* the caller t to hand off to.                                            *)
semaphore_signal_internal(s, prepost, handoff, t) ==
    \/ /\ count[s] < 0
       /\ \E u \in waitq[s] :
             /\ awaken({u})
             /\ handoff_thread' = IF handoff /\ pc[u] = "blocked"
                                  THEN [handoff_thread EXCEPT ![t] = u] ELSE handoff_thread
       /\ UNCHANGED <<count, active>>
    \/ /\ count[s] >= 0 \/ waitq[s] = {}
       /\ count' = [count EXCEPT ![s] = IF @ < 0 THEN prepost ELSE @ + prepost]
       /\ UNCHANGED <<active, waitq, wait_result, handoff_thread, got>>

(* The wait is asserted, or not needed: signal the other semaphore.        *)
wait_signal(t) ==
    /\ pc[t] = "signal" /\ op[t] = "wait" /\ active[ssem[t]]
    /\ semaphore_signal_internal(ssem[t], 1, kr[t] = "ALREADY_WAITING", t)
    /\ pc' = [pc EXCEPT ![t] = IF kr[t] = "ALREADY_WAITING" THEN "block" ELSE "return"]
    /\ UNCHANGED <<life, call, kr>>

(* The other semaphore has been destroyed.                                 *)
wait_signal_dead(t) ==
    /\ pc[t] = "signal" /\ op[t] = "wait" /\ ~ active[ssem[t]]
    /\ pc' = [pc EXCEPT ![t] = "clear"]
    /\ UNCHANGED <<semas, life, call, kr, wait_result, handoff_thread, got>>

(* Mutant of semaphore_convert_wait_result: only failures of the wait are  *)
(* failures of the call.                                                   *)
semaphore_convert_wait_result_restart(wr) ==
    CASE wr \in {"AWAKENED", "RESTART"} -> "SUCCESS"
      [] wr = "TIMED_OUT" -> "TIMED_OUT"
      [] wr = "INTERRUPTED" -> "ABORTED"

(* The result of a call from the outcome of its wait.                      *)
semaphore_convert_wait_result(wr) ==
    CASE wr = "AWAKENED" -> "SUCCESS"
      [] wr = "TIMED_OUT" -> "TIMED_OUT"
      [] wr = "INTERRUPTED" -> "ABORTED"
      [] wr = "RESTART" -> "TERMINATED"

(* clear_wait: get out of the wait, if there is one, and return the result *)
(* of the thread's latest wait.                                            *)
wait_clear(t) ==
    /\ pc[t] = "clear"
    /\ IF Waiting(t) THEN wakeup({t}, "INTERRUPTED")
                     ELSE UNCHANGED <<waitq, wait_result>>
    /\ LET result == semaphore_convert_wait_result(wait_result'[t])
       IN  kr' = [kr EXCEPT ![t] = IF result = "ABORTED" THEN "TERMINATED" ELSE result]
    /\ pc' = [pc EXCEPT ![t] = "return"]
    /\ UNCHANGED <<count, active, life, call, handoff_thread, got>>

(* Mutant of wait_block: the thread to hand off to is forgotten when the   *)
(* wait is already over.                                                   *)
wait_block_forget(t) ==
    /\ pc[t] = "block"
    /\ pc' = [pc EXCEPT ![t] = "blocked"]
    /\ handoff_thread' = IF Waiting(t) THEN [handoff_thread EXCEPT ![t] = None]
                                       ELSE handoff_thread
    /\ UNCHANGED <<semas, life, call, kr, wait_result, got>>

(* Give up the processor, to the thread that was woken up if there is one. *)
wait_block(t) ==
    /\ pc[t] = "block"
    /\ pc' = [pc EXCEPT ![t] = "blocked"]
    /\ handoff_thread' = [handoff_thread EXCEPT ![t] = None]
    /\ UNCHANGED <<semas, life, call, kr, wait_result, got>>

(* The thread runs again: its wait is over and nobody keeps it for later.  *)
(* After the block, or in semaphore_wait_continue, the result is converted.*)
wait_resume(t) ==
    /\ pc[t] = "blocked" /\ ~ Waiting(t)
    /\ \A u \in Threads : handoff_thread[u] # t
    /\ kr' = [kr EXCEPT ![t] = semaphore_convert_wait_result(wait_result[t])]
    /\ pc' = [pc EXCEPT ![t] = "return"]
    /\ UNCHANGED <<semas, life, call, wait_result, handoff_thread, got>>

(* The wait's deadline passes, or the thread is aborted.                   *)
wait_end(t, r) ==
    /\ Waiting(t)
    /\ r = "TIMED_OUT" => option[t] = "timed"
    /\ wakeup({t}, r)
    /\ UNCHANGED <<count, active, life, pc, call, kr, handoff_thread, got>>

-----------------------------------------------------------------------------
(* Signals and destruction *)

(* The locked section of semaphore_signal.                                 *)
semaphore_signal(t) ==
    /\ pc[t] = "signal" /\ op[t] = "signal" /\ active[ssem[t]]
    /\ semaphore_signal_internal(ssem[t], 1, FALSE, t)
    /\ pc' = [pc EXCEPT ![t] = "return"]
    /\ UNCHANGED <<life, call, kr>>

(* SEMAPHORE_SIGNAL_ALL: every waiter is awakened and the count is zero;   *)
(* without waiters nothing changes.                                        *)
semaphore_signal_all(t) ==
    LET s == ssem[t] IN
    /\ pc[t] = "signal_all" /\ active[s]
    /\ count' = IF count[s] < 0 THEN [count EXCEPT ![s] = 0] ELSE count
    /\ awaken(IF count[s] < 0 THEN waitq[s] ELSE {})
    /\ pc' = [pc EXCEPT ![t] = "return"]
    /\ UNCHANGED <<active, life, call, kr, handoff_thread>>

(* One given thread is awakened if it waits there; with no thread given,   *)
(* any waiter.  No token is left.                                          *)
semaphore_signal_thread(t, u) ==
    LET s == ssem[t] IN
    /\ pc[t] = "signal_thread" /\ active[s]
    /\ \/ /\ u # None
          /\ awaken(IF count[s] < 0 THEN {u} \intersect waitq[s] ELSE {})
          /\ UNCHANGED <<count, active, handoff_thread>>
       \/ u = None /\ semaphore_signal_internal(s, 0, FALSE, t)
    /\ pc' = [pc EXCEPT ![t] = "return"]
    /\ UNCHANGED <<life, call, kr>>

(* Any signal of a semaphore that is no longer active.                     *)
signal_terminated(t) ==
    /\ pc[t] = op[t] /\ op[t] \in {"signal", "signal_all", "signal_thread"}
    /\ ~ active[ssem[t]]
    /\ pc' = [pc EXCEPT ![t] = "return"]
    /\ UNCHANGED <<semas, life, call, kr, wait_result, handoff_thread, got>>

(* Mutant of semaphore_destroy_internal: waiters are left in the queue.    *)
semaphore_destroy_internal_nowake(ss) ==
    /\ active' = [s \in Semaphores |-> active[s] /\ s \notin ss]
    /\ count' = [s \in Semaphores |-> IF s \in ss THEN 0 ELSE count[s]]
    /\ UNCHANGED <<waitq, wait_result>>

(* The semaphores ss lose their owner; if the count tells of waiters, they *)
(* wake up with THREAD_RESTART.                                            *)
semaphore_destroy_internal(ss) ==
    /\ active' = [s \in Semaphores |-> active[s] /\ s \notin ss]
    /\ count' = [s \in Semaphores |-> IF s \in ss THEN 0 ELSE count[s]]
    /\ wakeup(UNION {waitq[s] : s \in {x \in ss : count[x] < 0}}, "RESTART")

(* A destroy call; nothing happens if the task named in the call does not, *)
(* or no longer, own the semaphore: tested again under the task's lock.    *)
semaphore_destroy(t) ==
    /\ pc[t] = "destroy"
    /\ \/ active[ssem[t]] /\ semaphore_destroy_internal({ssem[t]})
       \/ UNCHANGED <<semas, wait_result>>
    /\ pc' = [pc EXCEPT ![t] = "return"]
    /\ UNCHANGED <<life, call, kr, handoff_thread, got>>

(* The owning task terminates: its semaphores are destroyed one by one.    *)
semaphore_destroy_all(s) ==
    /\ s \in Destroyable /\ active[s]
    /\ semaphore_destroy_internal({s})
    /\ UNCHANGED <<life, pc, call, kr, handoff_thread, got>>

(* The references that w and g stand for go; a semaphore that has none     *)
(* left is destroyed if it is active, and freed (semaphore_free).          *)
semaphore_dereference(w, g) ==
    /\ ref_count' = [s \in Semaphores |-> ref_count[s] - Uses(s, w, g)]
    /\ semaphore_destroy_internal({s \in {w, g} \ {None} : ref_count'[s] = 0 /\ active[s]})

(* The locals of a call are gone when it returns.                          *)
forget(t) ==
    /\ op' = [op EXCEPT ![t] = "wait"]
    /\ wsem' = [wsem EXCEPT ![t] = None] /\ ssem' = [ssem EXCEPT ![t] = None]
    /\ option' = [option EXCEPT ![t] = "none"]
    /\ kr' = [kr EXCEPT ![t] = "SUCCESS"]
    /\ got' = [got EXCEPT ![t] = FALSE]

(* Mutant of semaphore_return: only the semaphore waited on is released.   *)
semaphore_return_leak(t) ==
    /\ pc[t] = "return"
    /\ semaphore_dereference(wsem[t], None)
    /\ pc' = [pc EXCEPT ![t] = "idle"]
    /\ forget(t)
    /\ UNCHANGED <<port, handoff_thread>>

(* The trap drops its references and returns to user space.                *)
semaphore_return(t) ==
    /\ pc[t] = "return"
    /\ semaphore_dereference(wsem[t], ssem[t])
    /\ pc' = [pc EXCEPT ![t] = "idle"]
    /\ forget(t)
    /\ UNCHANGED <<port, handoff_thread>>

(* The last send right is gone: the reference donated to the port goes.    *)
semaphore_no_senders(s) ==
    /\ s \in Destroyable /\ port[s]
    /\ port' = [port EXCEPT ![s] = FALSE]
    /\ semaphore_dereference(None, s)
    /\ UNCHANGED <<pc, call, kr, handoff_thread, got>>

(* A semaphore is created in memory that has been freed.                   *)
semaphore_create(s, value) ==
    /\ ref_count[s] = 0
    /\ ref_count' = [ref_count EXCEPT ![s] = 1]
    /\ port' = [port EXCEPT ![s] = TRUE]
    /\ active' = [active EXCEPT ![s] = TRUE]
    /\ count' = [count EXCEPT ![s] = value]
    /\ UNCHANGED <<waitq, pc, call, kr, wait_result, handoff_thread, got>>

-----------------------------------------------------------------------------
ThreadStep(t) ==
    \/ wait_locked(t) \/ wait_noblock(t) \/ wait_signal(t) \/ wait_signal_dead(t)
    \/ wait_clear(t) \/ wait_block(t) \/ wait_resume(t)
    \/ semaphore_signal(t) \/ semaphore_signal_all(t)
    \/ \E u \in Threads \union {None} : semaphore_signal_thread(t, u)
    \/ signal_terminated(t) \/ semaphore_destroy(t) \/ semaphore_return(t)

Next ==
    \/ \E t \in Threads :
          \/ \E w \in WaitOn : \E g \in SignalOn \union {None},
                opt \in {"none", "timed", "noblock"} : semaphore_wait_trap(t, w, g, opt)
          \/ \E g \in Semaphores, routine \in Calls : semaphore_trap(t, g, routine)
          \/ ThreadStep(t)
          \/ \E r \in {"TIMED_OUT", "INTERRUPTED"} : wait_end(t, r)
    \/ \E s \in Semaphores :
          \/ semaphore_destroy_all(s) \/ semaphore_no_senders(s)
          \/ \E value \in 0 .. 1 : semaphore_create(s, value)

Spec == Init /\ [][Next]_vars

(* A thread in a trap goes on: sections under the lock are short, and a    *)
(* thread that is runnable is scheduled.                                   *)
FairSpec == Spec /\ \A t \in Threads : WF_vars(ThreadStep(t))

-----------------------------------------------------------------------------
WaitResults == {"WAITING", "AWAKENED", "TIMED_OUT", "INTERRUPTED", "RESTART"}
Results == {"SUCCESS", "TIMED_OUT", "ABORTED", "TERMINATED", "ALREADY_WAITING"}

(* Counts stay at -1 or above, results are of the expected kinds.          *)
TypeOK ==
    /\ count \in [Semaphores -> -1 .. MaxCount]
    /\ active \in [Semaphores -> BOOLEAN]
    /\ waitq \in [Semaphores -> SUBSET Threads]
    /\ port \in [Semaphores -> BOOLEAN]
    /\ ref_count \in [Semaphores -> 0 .. 2 * Cardinality(Threads) + 1]
    /\ pc \in [Threads -> {"idle", "wait", "clear", "block", "blocked", "return"}
                             \union Routines]
    /\ op \in [Threads -> {"wait"} \union Routines]
    /\ wsem \in [Threads -> Semaphores \union {None}]
    /\ ssem \in [Threads -> Semaphores \union {None}]
    /\ option \in [Threads -> {"none", "timed", "noblock"}]
    /\ kr \in [Threads -> Results]
    /\ wait_result \in [Threads -> WaitResults]
    /\ handoff_thread \in [Threads -> Threads \union {None}]
    /\ got \in [Threads -> BOOLEAN]

(* No waiter is forgotten: a semaphore with a thread in its queue is       *)
(* active and its count says so, whatever mix of timeouts, aborts and      *)
(* signals went before.  A signal would otherwise leave a token and the    *)
(* thread asleep.                                                          *)
WaitersCounted ==
    \A s \in Semaphores : waitq[s] # {} => active[s] /\ count[s] = -1

(* A wait returns KERN_SUCCESS exactly when the thread was given a token   *)
(* or a wakeup, however it ended.                                          *)
ResultIsTrue ==
    \A t \in Threads :
        pc[t] = "return" /\ op[t] = "wait" => (kr[t] = "SUCCESS" <=> got[t])

(* The same for a wait that signals no semaphore or one that is active,    *)
(* whatever happened to the semaphore waited on.                           *)
LiveResultIsTrue ==
    \A t \in Threads :
        /\ pc[t] = "return" /\ op[t] = "wait"
        /\ ssem[t] # None => active[ssem[t]]
        => (kr[t] = "SUCCESS" <=> got[t])

(* References are balanced: a semaphore has one for its port and one for   *)
(* each call that uses it, so that none is freed under a call.             *)
ReferencesBalanced ==
    \A s \in Semaphores :
        ref_count[s] = Cardinality({t \in Threads : pc[t] # "idle" /\ s = wsem[t]})
                       + Cardinality({t \in Threads : pc[t] # "idle" /\ s = ssem[t]})
                       + IF port[s] THEN 1 ELSE 0

(* A thread whose wait is over runs and leaves the trap, also when it was  *)
(* kept by the thread that woke it up for a handoff.                       *)
WokenReturns ==
    \A t \in Threads : pc[t] = "blocked" /\ ~ Waiting(t) ~> pc[t] = "idle"
=============================================================================
