----------------------------- MODULE ThreadCall -----------------------------
(***************************************************************************)
(* Thread calls, osfmk/kern/thread_call.c: work items that clients submit  *)
(* for now or for a deadline, a group's threads that execute them, the     *)
(* daemon that creates those threads, the timer of the delayed items.      *)
(* Normal calls may execute on several threads at a time, ONCE calls are   *)
(* re-submitted when they return, SIGNAL calls are ONCE calls that execute *)
(* in the timer interrupt.                                                 *)
(*                                                                         *)
(* One group.  A section under the group lock is one action, or, when it   *)
(* loops, several actions that keep the lock.  tc_submit_count and         *)
(* tc_finish_count only matter by their difference, and a waiter keeps how *)
(* many finishes it still has to see.  Deadlines only matter by their      *)
(* order and by whether they have passed.                                  *)
(***************************************************************************)
EXTENDS Integers, FiniteSets, Sequences, SequencesExt

CONSTANTS
    Clients, Workers, CPUs, Daemon,     (* threads and timer interrupts    *)
    Calls, Once, Signal,                (* calls, and those with an option *)
    None,
    Parallel,       (* flavors of the group to consider: TCG_PARALLEL      *)
    Target,         (* target_thread_count                                 *)
    MaxBlocked,     (* bound on the functions blocked at a time            *)
    Tracked,        (* calls whose waits are compared with the executions  *)
    SignalRaces     (* whether SIGNAL calls meet a rescan, or are used     *)
                    (* just before they execute again                      *)

ASSUME ThreadCallAssumption ==
    /\ Signal \subseteq Once /\ Once \subseteq Calls
    /\ None \notin Calls \union Workers \union CPUs
    /\ IsFiniteSet(Calls) /\ IsFiniteSet(Workers) /\ IsFiniteSet(CPUs)
    /\ Clients \intersect (Workers \union CPUs) = {} /\ Workers \intersect CPUs = {}
    /\ Daemon \notin Clients \union Workers \union CPUs
    /\ Parallel \subseteq BOOLEAN
    /\ Target \in Nat \ {0}
    /\ MaxBlocked \in Nat /\ MaxBlocked < Cardinality(Workers)
    /\ Tracked \subseteq Calls
    /\ SignalRaces \in BOOLEAN

VARIABLES
    parallel,       (* group: tcg_flags has TCG_PARALLEL                   *)
    lock,           (* group: holder of the lock between two actions       *)
    pending,        (* group: pending_queue                                *)
    pending_count,
    delayed,        (* group: calls in delayed_pqueues, by deadline        *)
    expired,        (* delayed calls whose deadline has passed             *)
    armed,          (* group: delayed_timers is armed                      *)
    active_count, idle_count, blocked_count,
    dealloc,        (* group: TCG_DEALLOC_ACTIVE                           *)
    awake,          (* thread_call_daemon_awake                            *)
    running,        (* call: THREAD_CALL_RUNNING                           *)
    resched,        (* call: THREAD_CALL_RESCHEDULE, with its deadline     *)
    wait,           (* call: THREAD_CALL_WAIT                              *)
    out,            (* call: tc_submit_count - tc_finish_count             *)
    refs,           (* call: tc_refs                                       *)
    alive,          (* call: its clients may still use it                  *)
    freed,          (* call: its storage was returned                      *)
    pc, call,       (* actor: position, call it works on                   *)
    left,           (* client: finishes it waits for                       *)
    owed            (* client: executions requested before its wait that   *)
                    (* have not finished                                   *)

queues == <<pending, pending_count, delayed, expired>>
counts == <<active_count, idle_count, blocked_count>>
flags  == <<running, resched, wait>>
life   == <<refs, alive, freed>>
client == <<left, owed>>
vars   == <<parallel, lock, queues, armed, counts, dealloc, awake, flags, out,
            life, pc, call, client>>

Actors == Workers \union CPUs

Init ==
    /\ parallel \in Parallel
    /\ lock = None
    /\ pending = <<>> /\ pending_count = 0
    /\ delayed = <<>> /\ expired = {} /\ armed = FALSE
    /\ active_count = 0 /\ idle_count = 0 /\ blocked_count = 0
    /\ dealloc = FALSE /\ awake = FALSE
    /\ running = [c \in Calls |-> FALSE]
    /\ resched = [c \in Calls |-> "no"]
    /\ wait = [c \in Calls |-> FALSE]
    /\ out = [c \in Calls |-> 0]
    /\ refs = [c \in Calls |-> 1]
    /\ alive = [c \in Calls |-> TRUE]
    /\ freed = [c \in Calls |-> FALSE]
    /\ pc = [a \in Clients \union Actors \union {Daemon} |->
                IF a \in Workers THEN "none" ELSE IF a = Daemon THEN "blocked" ELSE "idle"]
    /\ call = [a \in Clients \union Actors |-> None]
    /\ left = [w \in Clients |-> 0]
    /\ owed = [w \in Clients |-> {}]

OnPending(c) == c \in ToSet(pending)
OnDelayed(c) == c \in ToSet(delayed)
OnQueue(c)   == OnPending(c) \/ OnDelayed(c)

(* Actors that execute c, or that will without anybody submitting it again *)
Executing(c) ==
    {a \in Actors : call[a] = c /\ pc[a] \in {"invoke", "blocked", "wake_repend", "repend"}}

(* What a client that waits for c from now on has to wait for.             *)
Owe(w, c) == owed' = [owed EXCEPT ![w] = IF c \in Tracked THEN Executing(c) ELSE {}]

(* tc_finish_count goes up for the calls of C.                             *)
LeftAfter(C) ==
    [w \in Clients |-> IF call[w] \in C /\ left[w] > 0 THEN left[w] - 1 ELSE left[w]]

-----------------------------------------------------------------------------
(* Threads of the group *)

(* A group without TCG_PARALLEL has a thread when none is active; a        *)
(* parallel one grows to its target.  Its third reason, much work for few  *)
(* threads, needs more calls than any instance has.                        *)
thread_call_group_should_add_thread(active, idle, pend) ==
    /\ pend > 0
    /\ IF parallel THEN idle = 0 /\ (active = 0 \/ active < Target)
                   ELSE active = 0

(* Mutant of thread_call_wake: idle_count is left to the woken thread.     *)
thread_call_wake_idle(w, active, pend) ==
    LET use == parallel \/ active = 0
        add == thread_call_group_should_add_thread(active, idle_count, pend) IN
    \/ /\ use /\ idle_count > 0
       /\ \E k \in Workers : w[k] = "idle" /\ pc' = [w EXCEPT ![k] = "ready"]
       /\ active_count' = active + 1
       /\ UNCHANGED <<idle_count, awake, dealloc>>
    \/ /\ use /\ idle_count = 0 /\ add /\ ~ awake
       /\ awake' = TRUE
       /\ pc' = [w EXCEPT ![Daemon] = IF @ \in {"asserted", "blocked"} THEN "store" ELSE @]
       /\ active_count' = active
       /\ UNCHANGED <<idle_count, dealloc>>
    \/ /\ ~ use \/ (idle_count = 0 /\ (~ add \/ awake))
       /\ pc' = w /\ active_count' = active
       /\ UNCHANGED <<idle_count, awake, dealloc>>

(* Wake an idle thread or, when one has to be created, the daemon.  The    *)
(* positions are w and active threads are busy.  The timer that disposes   *)
(* of idle threads may be too late to cancel.                              *)
thread_call_wake(w, active, pend) ==
    LET use == parallel \/ active = 0
        add == thread_call_group_should_add_thread(active, idle_count, pend) IN
    \/ /\ use /\ idle_count > 0
       /\ \E k \in Workers : w[k] = "idle" /\ pc' = [w EXCEPT ![k] = "ready"]
       /\ active_count' = active + 1 /\ idle_count' = idle_count - 1
       /\ dealloc' \in IF idle_count' = 0 /\ dealloc THEN BOOLEAN ELSE {dealloc}
       /\ UNCHANGED awake
    \/ /\ use /\ idle_count = 0 /\ add /\ ~ awake
       /\ awake' = TRUE
       /\ pc' = [w EXCEPT ![Daemon] = IF @ \in {"asserted", "blocked"} THEN "store" ELSE @]
       /\ active_count' = active
       /\ UNCHANGED <<idle_count, dealloc>>
    \/ /\ ~ use \/ (idle_count = 0 /\ (~ add \/ awake))
       /\ pc' = w /\ active_count' = active
       /\ UNCHANGED <<idle_count, awake, dealloc>>

(* c goes to the end of the pending queue, from the delayed queue perhaps. *)
pending_call_enqueue(c, w) ==
    /\ pending' = Append(pending, c) /\ pending_count' = pending_count + 1
    /\ delayed' = RemoveFirst(delayed, c) /\ expired' = expired \ {c}
    /\ thread_call_wake(w, active_count, pending_count')

(* c gets a deadline, from any queue; it is not earlier than those that    *)
(* have passed.                                                            *)
delayed_call_enqueue(c) ==
    /\ expired' = expired \ {c}
    /\ LET q == RemoveFirst(delayed, c) IN
       \E i \in Cardinality(expired') + 1 .. Len(q) + 1 : delayed' = InsertAt(q, i, c)
    /\ pending' = RemoveFirst(pending, c)
    /\ pending_count' = IF OnPending(c) THEN pending_count - 1 ELSE pending_count

(* The timer is armed for the first delayed call if that is c.             *)
arm_delayed_call_timer(c) ==
    armed' = (armed \/ (delayed' # <<>> /\ Head(delayed') = c))

-----------------------------------------------------------------------------
(* Clients *)

(* Client w calls a routine on c, which takes the lock.                    *)
Enter(w, c) ==
    /\ pc[w] = "idle" /\ lock = None /\ alive[c]
    /\ SignalRaces \/ \A i \in CPUs : call[i] = c => pc[i] \in {"invoke", "wake"}

(* A ONCE call is executing: the enqueue waits for its end.                *)
RunsOnce(c) == c \in Once /\ running[c]

(* tc_submit_count goes up for a call that was on no queue.                *)
Submit(c) == out' = [out EXCEPT ![c] = IF OnQueue(c) THEN @ ELSE @ + 1]

(* Mutant of thread_call_enter: a ONCE call is queued while it executes.   *)
thread_call_enter_running(w, c) ==
    /\ Enter(w, c) /\ c \notin Signal /\ ~ OnPending(c)
    /\ Submit(c)
    /\ pending_call_enqueue(c, pc)
    /\ UNCHANGED <<parallel, lock, armed, blocked_count, flags, life, call, client>>

(* thread_call_enter1; nothing to do when c is on the pending queue.       *)
thread_call_enter(w, c) ==
    /\ Enter(w, c) /\ c \notin Signal /\ ~ OnPending(c)
    /\ \/ /\ RunsOnce(c)
          /\ resched' = [resched EXCEPT ![c] = "now"]
          /\ UNCHANGED <<queues, counts, dealloc, awake, out, pc, running, wait>>
       \/ /\ ~ RunsOnce(c)
          /\ Submit(c)
          /\ pending_call_enqueue(c, pc)
          /\ UNCHANGED <<blocked_count, flags>>
    /\ UNCHANGED <<parallel, lock, armed, life, call, client>>

(* thread_call_enter_delayed_internal *)
thread_call_enter_delayed(w, c) ==
    /\ Enter(w, c)
    /\ \/ /\ RunsOnce(c)
          /\ resched' = [resched EXCEPT ![c] = "later"]
          /\ UNCHANGED <<queues, armed, out, running, wait>>
       \/ /\ ~ RunsOnce(c)
          /\ Submit(c)
          /\ delayed_call_enqueue(c)
          /\ arm_delayed_call_timer(c)
          /\ UNCHANGED flags
    /\ UNCHANGED <<parallel, lock, counts, dealloc, awake, life, pc, call, client>>

Cancelable(c) == OnQueue(c) \/ resched[c] # "no"

(* c is taken off its queue, or will not be queued when it returns.  The   *)
(* timer follows a change of the first delayed call.                       *)
thread_call_cancel_locked(c) ==
    /\ resched' = [resched EXCEPT ![c] = "no"]
    /\ pending' = RemoveFirst(pending, c)
    /\ pending_count' = IF OnPending(c) THEN pending_count - 1 ELSE pending_count
    /\ delayed' = RemoveFirst(delayed, c) /\ expired' = expired \ {c}
    /\ armed' = IF OnDelayed(c) /\ Head(delayed) = c THEN delayed' # <<>> ELSE armed
    /\ out' = [out EXCEPT ![c] = IF OnQueue(c) THEN @ - 1 ELSE @]

thread_call_cancel(w, c) ==
    /\ Enter(w, c) /\ Cancelable(c)
    /\ thread_call_cancel_locked(c)
    /\ left' = LeftAfter(IF OnQueue(c) THEN {c} ELSE {})
    /\ UNCHANGED <<parallel, lock, counts, dealloc, awake, running, wait, life, pc,
                   call, owed>>

(* w waits for c, on waiters_waitq, and returns from the wait at p.        *)
WaitFor(w, c, p) ==
    /\ wait' = [wait EXCEPT ![c] = TRUE]
    /\ pc' = [pc EXCEPT ![w] = p]
    /\ call' = [call EXCEPT ![w] = c]
    /\ Owe(w, c)

(* Only an execution of c in progress is waited for.                       *)
thread_call_wait_once_locked(w, c) ==
    \/ /\ running[c]
       /\ WaitFor(w, c, "once")
    \/ /\ ~ running[c]
       /\ Owe(w, c)
       /\ UNCHANGED <<wait, pc, call>>

(* Wait until tc_finish_count has reached the tc_submit_count of now.      *)
thread_call_wait_locked(w, c) ==
    \/ /\ out[c] > 0
       /\ WaitFor(w, c, "wait")
       /\ left' = [left EXCEPT ![w] = out[c]]
    \/ /\ out[c] = 0
       /\ Owe(w, c)
       /\ UNCHANGED <<wait, pc, call, left>>

(* A normal call is only waited for when there was nothing to cancel.      *)
thread_call_cancel_wait(w, c) ==
    /\ Enter(w, c)
    /\ thread_call_cancel_locked(c)
    /\ \/ /\ c \in Once
          /\ thread_call_wait_once_locked(w, c)
          /\ UNCHANGED left
       \/ /\ c \notin Once /\ ~ Cancelable(c)
          /\ thread_call_wait_locked(w, c)
       \/ /\ c \notin Once /\ Cancelable(c)
          /\ left' = LeftAfter({c})
          /\ UNCHANGED <<wait, pc, call, owed>>
    /\ UNCHANGED <<parallel, lock, counts, dealloc, awake, running, life>>

thread_call_wait_once(w, c) ==
    /\ Enter(w, c) /\ c \in Once /\ running[c]
    /\ thread_call_wait_once_locked(w, c)
    /\ UNCHANGED <<parallel, lock, queues, armed, counts, dealloc, awake, running,
                   resched, out, life, left>>

(* Mutant of wait_recheck: THREAD_CALL_WAIT, which the wakeup has cleared, *)
(* is only set before the loop.                                            *)
wait_recheck_noflag(w) ==
    /\ pc[w] = "recheck" /\ lock = None
    /\ pc' = [pc EXCEPT ![w] = IF left[w] > 0 THEN "wait" ELSE "idle"]
    /\ call' = [call EXCEPT ![w] = IF left[w] > 0 THEN @ ELSE None]
    /\ UNCHANGED <<parallel, lock, queues, armed, counts, dealloc, awake, flags, out,
                   life, client>>

(* The loop of thread_call_wait_locked after a wakeup.                     *)
wait_recheck(w) ==
    /\ pc[w] = "recheck" /\ lock = None
    /\ \/ /\ left[w] > 0
          /\ wait' = [wait EXCEPT ![call[w]] = TRUE]
          /\ pc' = [pc EXCEPT ![w] = "wait"]
          /\ UNCHANGED call
       \/ /\ left[w] = 0
          /\ pc' = [pc EXCEPT ![w] = "idle"]
          /\ call' = [call EXCEPT ![w] = None]
          /\ UNCHANGED wait
    /\ UNCHANGED <<parallel, lock, queues, armed, counts, dealloc, awake, running,
                   resched, out, life, client>>

(* Mutant of thread_call_free: a SIGNAL call is freed while it executes.   *)
thread_call_free_nowait(w, c) ==
    /\ Enter(w, c) /\ ~ Cancelable(c)
    /\ \A v \in Clients : call[v] # c
    /\ alive' = [alive EXCEPT ![c] = FALSE]
    /\ refs' = [refs EXCEPT ![c] = @ - 1]
    /\ freed' = [freed EXCEPT ![c] = refs'[c] = 0]
    /\ UNCHANGED <<parallel, lock, queues, armed, counts, dealloc, awake, flags, out,
                   pc, call, client>>

(* The client that uses c last gives its reference up.  It may do so while *)
(* c executes, but not while c is to be executed: then the call fails.     *)
thread_call_free(w, c) ==
    /\ Enter(w, c) /\ ~ Cancelable(c)
    /\ \A v \in Clients : call[v] # c
    /\ alive' = [alive EXCEPT ![c] = FALSE]
    /\ refs' = [refs EXCEPT ![c] = @ - 1]
    /\ \/ /\ c \in Signal /\ running[c]
          /\ WaitFor(w, c, "free")
          /\ UNCHANGED freed
       \/ /\ ~ (c \in Signal /\ running[c])
          /\ freed' = [freed EXCEPT ![c] = refs'[c] = 0]
          /\ UNCHANGED <<wait, pc, call, owed>>
    /\ UNCHANGED <<parallel, lock, queues, armed, counts, dealloc, awake, running,
                   resched, out, left>>

(* New storage, in place of a freed call that nobody works on any more.    *)
thread_call_allocate(w, c) ==
    /\ pc[w] = "idle" /\ freed[c]
    /\ \A a \in DOMAIN call : call[a] # c
    /\ running' = [running EXCEPT ![c] = FALSE]
    /\ resched' = [resched EXCEPT ![c] = "no"]
    /\ wait' = [wait EXCEPT ![c] = FALSE]
    /\ out' = [out EXCEPT ![c] = 0]
    /\ refs' = [refs EXCEPT ![c] = 1]
    /\ alive' = [alive EXCEPT ![c] = TRUE]
    /\ freed' = [freed EXCEPT ![c] = FALSE]
    /\ UNCHANGED <<parallel, lock, queues, armed, counts, dealloc, awake, pc, call,
                   client>>

-----------------------------------------------------------------------------
(* Executions *)

(* Mutant of resubmitted: whoever waits for c has also canceled it.        *)
resubmitted_unwaited(c, nrefs) == nrefs # 0 /\ resched[c] # "no" /\ ~ wait[c]

(* c was submitted while it executed, and its owner keeps it.              *)
resubmitted(c, nrefs) == nrefs # 0 /\ resched[c] # "no"

(* The function of call[a] has returned.  The execution counts as finished *)
(* and drops its reference; a call that was submitted meanwhile is queued, *)
(* or executed again at once by the timer.  Waiters are woken up without   *)
(* the lock.  A thread does not look at what the routine returns.          *)
thread_call_finish(a) ==
    LET c      == call[a]
        signal == c \in Signal
        nrefs  == IF signal THEN refs[c] ELSE refs[c] - 1
        again  == resubmitted(c, nrefs)
        repend == a \in CPUs
        woken(p) == [pc EXCEPT ![a] = p]
        done   == woken(IF wait[c] THEN "wake" ELSE "loop")
    IN
    /\ pc[a] = "invoke" /\ lock = None
    /\ resched' = [resched EXCEPT ![c] = "no"]
    /\ wait' = [wait EXCEPT ![c] = FALSE]
    /\ refs' = [refs EXCEPT ![c] = nrefs]
    /\ freed' = [freed EXCEPT ![c] = @ \/ (~ signal /\ nrefs = 0)]
    /\ left' = LeftAfter({c})
    /\ owed' = [w \in Clients |-> owed[w] \ {a}]
    /\ \/ /\ ~ again
          /\ running' = [running EXCEPT ![c] = FALSE]
          /\ out' = [out EXCEPT ![c] = @ - 1]
          /\ pc' = done
          /\ UNCHANGED <<queues, armed, active_count, idle_count, dealloc, awake>>
       \/ /\ again /\ resched[c] = "later"
          /\ running' = [running EXCEPT ![c] = FALSE]
          /\ delayed_call_enqueue(c)
          /\ IF signal THEN UNCHANGED armed ELSE arm_delayed_call_timer(c)
          /\ pc' = done
          /\ UNCHANGED <<out, active_count, idle_count, dealloc, awake>>
       \/ /\ again /\ ~ signal
          /\ running' = [running EXCEPT ![c] = FALSE]
          /\ pending_call_enqueue(c, done)
          /\ UNCHANGED <<out, armed>>
       \/ /\ again /\ signal
          /\ running' = [running EXCEPT ![c] = repend /\ ~ wait[c]]
          /\ pc' = IF ~ repend THEN done
                   ELSE woken(IF wait[c] THEN "wake_repend" ELSE "invoke")
          /\ UNCHANGED <<queues, out, armed, active_count, idle_count, dealloc, awake>>
    /\ lock' = IF pc'[a] = "loop" THEN a ELSE None
    /\ call' = [call EXCEPT ![a] = IF pc'[a] = "loop" THEN None ELSE c]
    /\ UNCHANGED <<parallel, blocked_count, alive>>

(* Its end: everybody in waiters_waitq for the call is woken up.  The      *)
(* client in thread_call_free returns the storage.                         *)
finish_wakeup(a) ==
    LET c == call[a]
        W == {w \in Clients : call[w] = c /\ pc[w] \in {"once", "wait", "free"}}
        next(p) == IF p = "wait" THEN "recheck" ELSE "idle"
    IN
    /\ pc[a] \in {"wake", "wake_repend"}
    /\ pc' = [x \in DOMAIN pc |->
                IF x = a THEN IF pc[a] = "wake" THEN "relock" ELSE "repend"
                ELSE IF x \in W THEN next(pc[x]) ELSE pc[x]]
    /\ call' = [x \in DOMAIN call |->
                  IF x = a /\ pc[a] = "wake" THEN None
                  ELSE IF x \in W /\ pc[x] # "wait" THEN None ELSE call[x]]
    /\ freed' = [freed EXCEPT ![c] = @ \/ (refs[c] = 0 /\ \E w \in W : pc[w] = "free")]
    /\ UNCHANGED <<parallel, lock, queues, armed, counts, dealloc, awake, flags, out,
                   refs, alive, client>>

(* The lock is taken again, or by a thread that was created or woken up,   *)
(* or by a timer that has fired.                                           *)
take_lock(a) ==
    /\ pc[a] \in {"ready", "fired", "relock"} /\ lock = None
    /\ lock' = a
    /\ pc' = [pc EXCEPT ![a] = "loop"]
    /\ UNCHANGED <<parallel, queues, armed, counts, dealloc, awake, flags, out, life,
                   call, client>>

(* The function blocks, and another thread may have to take over.          *)
sched_call_block(k) ==
    /\ pc[k] = "invoke" /\ lock = None
    /\ blocked_count < MaxBlocked
    /\ blocked_count' = blocked_count + 1
    /\ LET w == [pc EXCEPT ![k] = "blocked"] IN
       \/ /\ pending_count > 0
          /\ thread_call_wake(w, active_count - 1, pending_count)
       \/ /\ pending_count = 0
          /\ pc' = w /\ active_count' = active_count - 1
          /\ UNCHANGED <<idle_count, dealloc, awake>>
    /\ UNCHANGED <<parallel, lock, queues, armed, flags, out, life, call, client>>

sched_call_unblock(k) ==
    /\ pc[k] = "blocked" /\ lock = None
    /\ blocked_count' = blocked_count - 1 /\ active_count' = active_count + 1
    /\ pc' = [pc EXCEPT ![k] = "invoke"]
    /\ UNCHANGED <<parallel, lock, queues, armed, idle_count, dealloc, awake, flags,
                   out, life, call, client>>

(* The loop of thread_call_thread takes the first pending call, with a     *)
(* reference for the time it executes.                                     *)
thread_call_dequeue(k) ==
    /\ pc[k] = "loop" /\ pending_count > 0 /\ pending # <<>>
    /\ LET c == Head(pending) IN
       /\ refs' = [refs EXCEPT ![c] = @ + 1]
       /\ running' = [running EXCEPT ![c] = TRUE]
       /\ call' = [call EXCEPT ![k] = c]
    /\ pending' = Tail(pending) /\ pending_count' = pending_count - 1
    /\ pc' = [pc EXCEPT ![k] = "invoke"]
    /\ lock' = None
    /\ UNCHANGED <<parallel, delayed, expired, armed, counts, dealloc, awake, resched,
                   wait, out, alive, freed, client>>

(* Nothing is left to do: wait in idle_waitq or, in a group that is not    *)
(* parallel and has idle threads enough, terminate.                        *)
thread_call_park(k) ==
    LET stays == parallel \/ idle_count < Target IN
    /\ pc[k] = "loop" /\ pending_count = 0
    /\ active_count' = active_count - 1
    /\ idle_count' = IF stays THEN idle_count + 1 ELSE idle_count
    /\ dealloc' = (dealloc \/ (parallel /\ active_count' + idle_count' > Target))
    /\ pc' = [pc EXCEPT ![k] = IF stays THEN "idle" ELSE "none"]
    /\ lock' = None
    /\ UNCHANGED <<parallel, queues, armed, blocked_count, awake, flags, out, life,
                   call, client>>

(* The timer that disposes of a thread which has been idle for long.       *)
thread_call_dealloc_timer ==
    /\ dealloc /\ lock = None
    /\ \/ /\ idle_count > 0
          /\ idle_count' = idle_count - 1
          /\ \E k \in Workers : pc[k] = "idle" /\ pc' = [pc EXCEPT ![k] = "none"]
       \/ UNCHANGED <<idle_count, pc>>
    /\ dealloc' = (idle_count' > 0 /\ idle_count' + active_count > Target)
    /\ UNCHANGED <<parallel, lock, queues, armed, active_count, blocked_count, awake,
                   flags, out, life, call, client>>

-----------------------------------------------------------------------------
(* The daemon: thread_call_daemon_continue *)

daemon_unchanged == UNCHANGED <<parallel, lock, queues, armed, idle_count,
                        blocked_count, dealloc, flags, out, life, call, client>>

daemon_store ==
    /\ pc[Daemon] = "store"
    /\ awake' = FALSE
    /\ pc' = [pc EXCEPT ![Daemon] = "scan"]
    /\ daemon_unchanged /\ UNCHANGED active_count

(* A thread to create is counted as active at once.                        *)
daemon_scan ==
    /\ pc[Daemon] = "scan" /\ lock = None
    /\ IF thread_call_group_should_add_thread(active_count, idle_count, pending_count)
       THEN /\ active_count' = active_count + 1
            /\ pc' = [pc EXCEPT ![Daemon] = "create"]
       ELSE /\ pc' = [pc EXCEPT ![Daemon] = "check"]
            /\ UNCHANGED active_count
    /\ daemon_unchanged /\ UNCHANGED awake

daemon_create ==
    /\ pc[Daemon] = "create"
    /\ \E k \in Workers :
          /\ pc[k] = "none"
          /\ pc' = [pc EXCEPT ![k] = "ready", ![Daemon] = "scan"]
    /\ daemon_unchanged /\ UNCHANGED <<active_count, awake>>

(* The loop's condition, then waitq_assert_wait64.                         *)
daemon_check ==
    /\ pc[Daemon] = "check"
    /\ pc' = [pc EXCEPT ![Daemon] = IF awake THEN "store" ELSE "assert"]
    /\ daemon_unchanged /\ UNCHANGED <<active_count, awake>>

daemon_assert_wait ==
    /\ pc[Daemon] = "assert"
    /\ pc' = [pc EXCEPT ![Daemon] = "asserted"]
    /\ daemon_unchanged /\ UNCHANGED <<active_count, awake>>

(* Mutant of daemon_recheck: it blocks without looking again.              *)
daemon_recheck_none ==
    /\ pc[Daemon] = "asserted"
    /\ pc' = [pc EXCEPT ![Daemon] = "blocked"]
    /\ daemon_unchanged /\ UNCHANGED <<active_count, awake>>

(* A request that came before the wait was asserted is seen here.          *)
daemon_recheck ==
    /\ pc[Daemon] = "asserted"
    /\ pc' = [pc EXCEPT ![Daemon] = IF awake THEN "store" ELSE "blocked"]
    /\ daemon_unchanged /\ UNCHANGED <<active_count, awake>>

-----------------------------------------------------------------------------
(* Timers *)

(* Time passes: the earliest deadline that has not passed does.            *)
deadline_passes ==
    /\ Cardinality(expired) < Len(delayed)
    /\ expired' = expired \union {delayed[Cardinality(expired) + 1]}
    /\ UNCHANGED <<parallel, lock, pending, pending_count, delayed, armed, counts,
                   dealloc, awake, flags, out, life, pc, call, client>>

(* The timer fires on CPU i; it can be armed again from now on.            *)
timer_fires(i) ==
    /\ pc[i] = "idle" /\ armed
    /\ delayed # <<>> => Head(delayed) \in expired
    /\ armed' = FALSE
    /\ pc' = [pc EXCEPT ![i] = "fired"]
    /\ UNCHANGED <<parallel, lock, queues, counts, dealloc, awake, flags, out, life,
                   call, client>>

(* The loop of thread_call_delayed_timer: a call that is due becomes       *)
(* pending, a SIGNAL call executes right here, without the lock.           *)
timer_call_due(i) ==
    /\ pc[i] = "loop" /\ expired # {}
    /\ LET c == Head(delayed) IN
       \/ /\ c \notin Signal
          /\ pending_call_enqueue(c, pc)
          /\ UNCHANGED <<lock, running, call>>
       \/ /\ c \in Signal
          /\ delayed' = Tail(delayed) /\ expired' = expired \ {c}
          /\ running' = [running EXCEPT ![c] = TRUE]
          /\ call' = [call EXCEPT ![i] = c]
          /\ pc' = [pc EXCEPT ![i] = "invoke"]
          /\ lock' = None
          /\ UNCHANGED <<pending, pending_count, active_count, idle_count, dealloc, awake>>
    /\ UNCHANGED <<parallel, armed, blocked_count, resched, wait, out, life, client>>

(* A SIGNAL call was submitted again: it executes again.                   *)
timer_repend(i) ==
    /\ pc[i] = "repend" /\ lock = None
    /\ running' = [running EXCEPT ![call[i]] = TRUE]
    /\ pc' = [pc EXCEPT ![i] = "invoke"]
    /\ UNCHANGED <<parallel, lock, queues, armed, counts, dealloc, awake, resched,
                   wait, out, life, call, client>>

(* Mutant of timer_done: the timer is not armed for the calls that remain. *)
timer_done_unarmed(i) ==
    /\ pc[i] = "loop" /\ expired = {}
    /\ pc' = [pc EXCEPT ![i] = "idle"]
    /\ lock' = None
    /\ UNCHANGED <<parallel, queues, armed, counts, dealloc, awake, flags, out, life,
                   call, client>>

(* No more calls are due: the timer is armed for the first of the others.  *)
timer_done(i) ==
    /\ pc[i] = "loop" /\ expired = {}
    /\ armed' = (armed \/ delayed # <<>>)
    /\ pc' = [pc EXCEPT ![i] = "idle"]
    /\ lock' = None
    /\ UNCHANGED <<parallel, queues, counts, dealloc, awake, flags, out, life, call,
                   client>>

(* The system wakes up from sleep, and the timer is armed again.           *)
adjust_cont_time_thread_calls ==
    /\ lock = None
    /\ armed' = (armed \/ delayed # <<>>)
    /\ UNCHANGED <<parallel, lock, queues, counts, dealloc, awake, flags, out, life, pc,
                   call, client>>

(* thread_call_delayed_timer_rescan, on a change of the latency quality of *)
(* service: calls that are due become pending ...                          *)
rescan_start(i) ==
    /\ pc[i] = "idle" /\ lock = None /\ delayed # <<>>
    /\ SignalRaces \/ \A c \in Signal : ~ OnDelayed(c)
    /\ lock' = i
    /\ pc' = [pc EXCEPT ![i] = "rescan"]
    /\ UNCHANGED <<parallel, queues, armed, counts, dealloc, awake, flags, out, life,
                   call, client>>

rescan_due(i) ==
    /\ pc[i] = "rescan"
    /\ \E c \in expired : pending_call_enqueue(c, pc)
    /\ UNCHANGED <<parallel, lock, armed, blocked_count, flags, out, life, call, client>>

(* ... and some of the others, R, get an earlier deadline.  They finish    *)
(* and are submitted again.                                                *)
rescan_sort(i) ==
    /\ pc[i] = "rescan" /\ expired = {}
    /\ \E R \in SUBSET ToSet(delayed), q \in SetToSeqs(ToSet(delayed)) :
          /\ SelectSeq(q, LAMBDA c : c \notin R) = SelectSeq(delayed, LAMBDA c : c \notin R)
          /\ delayed' = q
          /\ left' = LeftAfter(R)
    /\ armed' = (armed \/ delayed # <<>>)
    /\ pc' = [pc EXCEPT ![i] = "idle"]
    /\ lock' = None
    /\ UNCHANGED <<parallel, pending, pending_count, expired, counts, dealloc, awake,
                   flags, out, life, call, owed>>

-----------------------------------------------------------------------------
client_step(w) ==
    \/ \E c \in Calls :
          \/ thread_call_enter(w, c)
          \/ thread_call_enter_delayed(w, c)
          \/ thread_call_cancel(w, c)
          \/ thread_call_cancel_wait(w, c)
          \/ thread_call_wait_once(w, c)
          \/ thread_call_free(w, c)
          \/ thread_call_allocate(w, c)
    \/ wait_recheck(w)

thread_call_thread(k) ==
    \/ take_lock(k)
    \/ thread_call_dequeue(k)
    \/ thread_call_park(k)
    \/ thread_call_finish(k)
    \/ finish_wakeup(k)

sched_call_thread(k) == sched_call_block(k) \/ sched_call_unblock(k)

thread_call_delayed_timer(i) ==
    \/ timer_fires(i)
    \/ take_lock(i)
    \/ timer_call_due(i)
    \/ thread_call_finish(i)
    \/ finish_wakeup(i)
    \/ timer_repend(i)
    \/ timer_done(i)

rescan_steps(i) == rescan_due(i) \/ rescan_sort(i)

thread_call_daemon_continue ==
    \/ daemon_store \/ daemon_scan \/ daemon_create
    \/ daemon_check \/ daemon_assert_wait \/ daemon_recheck

Next ==
    \/ \E w \in Clients : client_step(w)
    \/ \E k \in Workers : thread_call_thread(k) \/ sched_call_thread(k)
    \/ \E i \in CPUs : \/ thread_call_delayed_timer(i)
                       \/ rescan_start(i) \/ rescan_steps(i)
    \/ thread_call_daemon_continue
    \/ thread_call_dealloc_timer
    \/ adjust_cont_time_thread_calls
    \/ deadline_passes

(* Functions return and blocked ones continue, threads and interrupts run, *)
(* deadlines pass.  The group lock is a ticket lock: whoever wants it gets *)
(* it in turn, which takes strong fairness of those who meet sections that *)
(* repeat forever.  Nobody submits a SIGNAL call for a time that has       *)
(* passed whenever it executes.                                            *)
Fairness ==
    /\ \A w \in Clients : WF_vars(wait_recheck(w))
    /\ \A k \in Workers : /\ SF_vars(thread_call_thread(k))
                          /\ WF_vars(sched_call_unblock(k))
    /\ \A i \in CPUs : /\ SF_vars(thread_call_delayed_timer(i))
                       /\ SF_vars(thread_call_finish(i) /\ ~ running'[call[i]])
                       /\ WF_vars(rescan_steps(i))
    /\ SF_vars(thread_call_daemon_continue)
    /\ WF_vars(deadline_passes)

Spec == Init /\ [][Next]_vars
FairSpec == Spec /\ Fairness

-----------------------------------------------------------------------------
(* References and outstanding finishes stay within the number of threads   *)
(* that can execute a call; only delayed calls expire.                     *)
TypeOK ==
    /\ parallel \in Parallel /\ lock \in Actors \union {None}
    /\ ToSet(pending) \subseteq Calls /\ ToSet(delayed) \subseteq Calls
    /\ expired \subseteq ToSet(delayed)
    /\ refs \in [Calls -> 0 .. Cardinality(Workers) + 1]
    /\ left \in [Clients -> 0 .. Cardinality(Workers)]
    /\ owed \in [Clients -> SUBSET Actors]

(* The counts that decide whether a thread is woken up or created are      *)
(* those of the queue and of the threads: no thread is forgotten in        *)
(* idle_waitq, none is waited for that does not exist.                     *)
CountsAgree ==
    LET In(S) == Cardinality({k \in Workers : pc[k] \in S}) IN
    /\ pending_count = Len(pending)
    /\ idle_count = In({"idle"})
    /\ blocked_count = In({"blocked"})
    /\ active_count = In({"ready", "loop", "invoke", "wake", "relock"})
                      + (IF pc[Daemon] = "create" THEN 1 ELSE 0)

(* Every execution on a thread has a reference of its own, and so has the  *)
(* owner: storage is returned when the last of them is gone, and then the  *)
(* call is on no queue, nobody executes it or waits for it, and all that   *)
(* was submitted has finished.                                             *)
FreedIsIdle ==
    \A c \in Calls :
        /\ ~ freed[c] => refs[c] = (IF alive[c] THEN 1 ELSE 0)
                                   + Cardinality(Executing(c) \ CPUs)
        /\ freed[c] => /\ ~ OnQueue(c) /\ Executing(c) = {} /\ out[c] = 0
                       /\ \A w \in Clients : call[w] # c

(* A ONCE call is never executed by two actors, nor queued while it        *)
(* executes.                                                               *)
OnceAlone ==
    \A c \in Once : /\ Cardinality(Executing(c)) <= 1
                    /\ Executing(c) # {} => ~ OnQueue(c)

(* When a client has returned from thread_call_cancel_wait or from         *)
(* thread_call_wait_once, what was being executed when it called has       *)
(* finished.                                                               *)
CancelWaitIsComplete == \A w \in Clients : pc[w] = "idle" => owed[w] = {}

(* A submission that came while a call executed is not lost when the call  *)
(* returns: it is queued or executes again, whoever waits for it.          *)
RescheduleKept ==
    [][\A a \in Actors, c \in Calls :
          thread_call_finish(a) /\ c = call[a] /\ resched[c] # "no"
             => OnQueue(c)' \/ Executing(c)' # {}]_vars

(* Delayed calls have a timer that is armed, or one that is being handled. *)
TimerCovers ==
    delayed # <<>> => armed \/ \E i \in CPUs : pc[i] # "idle"

(* A pending call is executed, or canceled or delayed: no wakeup of an     *)
(* idle thread or of the daemon gets lost.                                 *)
PendingServed == \A c \in Calls : OnPending(c) ~> ~ OnPending(c)

(* Who waits for a call returns.                                           *)
WaitReturns == \A w \in Clients : pc[w] # "idle" ~> pc[w] = "idle"
=============================================================================
