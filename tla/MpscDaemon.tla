----------------------------- MODULE MpscDaemon -----------------------------
(***************************************************************************)
(* Daemon queues, osfmk/kern/mpsc_queue.c: a FIFO (see MpscFifo) with the  *)
(* state bits that decide who has to wake up the drainer, drained by a     *)
(* kernel thread, by a thread call, or nested in another daemon queue.     *)
(*                                                                         *)
(* An enqueuer that finds the queue empty sets WAKEUP and wakes the        *)
(* drainer only if no bit says that somebody else will look.  Each atomic  *)
(* operation on mpd_state, each append, each dequeue and each wakeup is an *)
(* action of its own.                                                      *)
(***************************************************************************)
EXTENDS Integers, Sequences, FiniteSets, Functions

CONSTANTS
    Threads,        (* threads that enqueue, activate and cancel           *)
    Elements,       (* items sent to daemon queues                         *)
    ThreadQ,        (* queues of kind THREAD or THREAD_CRITICAL            *)
    CallQ,          (* queues of kind THREAD_CALL                          *)
    NestedQ,        (* queues of kind NESTED, all targeting Root           *)
    Root,           (* the target: its items are nested queues             *)
    None,           (* no queue                                            *)
    Inactive,       (* queues created with MPSC_DAEMON_INIT_INACTIVE       *)
    Cancelable,     (* queues the client cancels                           *)
    Quiescent,      (* whether senders have returned before a cancel       *)
    Resend          (* whether an invoked item may be sent again           *)

Queues == ThreadQ \union CallQ \union NestedQ

(* Queues with items of their own; a target only has nested queues.        *)
Leaves == Queues \ {Root}

ASSUME KindAssumption ==
    /\ ThreadQ \intersect CallQ = {}
    /\ NestedQ \intersect (ThreadQ \union CallQ) = {}
    /\ NestedQ # {} => Root \in ThreadQ \union CallQ
    /\ Elements \intersect Queues = {} /\ None \notin Queues
    /\ Inactive \subseteq Queues /\ Cancelable \subseteq Leaves

VARIABLES
    mpd_state,      (* queue: the bits that are set                        *)
    queue, batch,   (* queue: its FIFO and the batch being drained         *)
    dpc,            (* queue: position of its drain                        *)
    waiting,        (* ThreadQ: the drain thread has asserted a wait       *)
    pending,        (* CallQ: the thread call is pending                   *)
    sent,           (* items sent and not invoked yet                      *)
    tpc, tq,        (* thread: position, queue it works on                 *)
    cq, cwait,      (* thread: queue it cancels; its wait is asserted      *)
    dead,           (* queues whose cancelation has returned               *)
    panicked

drain   == <<batch, dpc>>
worker  == <<waiting, pending>>
threads == <<tpc, tq, cq, cwait>>
vars    == <<mpd_state, queue, drain, worker, sent, threads, dead, panicked>>

Init ==
    /\ mpd_state = [q \in Queues |-> IF q \in Inactive THEN {"INACTIVE"} ELSE {}]
    /\ queue = [q \in Queues |-> <<>>]
    /\ batch = [q \in Queues |-> <<>>]
    /\ dpc = [q \in Queues |-> IF q \in ThreadQ THEN "blocked" ELSE "off"]
    /\ waiting = [q \in ThreadQ |-> TRUE]
    /\ pending = [q \in CallQ |-> FALSE]
    /\ sent = {}
    /\ tpc = [t \in Threads |-> "idle"]
    /\ tq = [t \in Threads |-> None]
    /\ cq = [t \in Threads |-> None]
    /\ cwait = [t \in Threads |-> FALSE]
    /\ dead = {}
    /\ panicked = FALSE

-----------------------------------------------------------------------------
(* The enqueuer side.                                                      *)

(* What thread t does after its call: a canceler goes on to block.         *)
return(t) ==
    /\ tpc' = [tpc EXCEPT ![t] = IF cq[t] = None THEN "idle" ELSE "block"]
    /\ tq' = [tq EXCEPT ![t] = None]

(* mpsc_queue_append() of x by t: it has more to do if the queue was empty.*)
append(t, q, x) ==
    /\ queue' = [queue EXCEPT ![q] = Append(@, x)]
    /\ IF queue[q] = <<>>
       THEN tpc' = [tpc EXCEPT ![t] = "or"] /\ tq' = [tq EXCEPT ![t] = q]
       ELSE return(t)

(* mpsc_daemon_enqueue(): nobody may send to a queue being canceled.       *)
mpsc_daemon_enqueue(t, q, e) ==
    /\ tpc[t] = "idle"
    /\ q \in Leaves \ dead
    /\ \A u \in Threads : cq[u] # q
    /\ e \notin sent
    /\ sent' = sent \union {e}
    /\ append(t, q, e)
    /\ UNCHANGED <<mpd_state, drain, worker, cq, cwait, dead, panicked>>

(* Mutant of enqueue_wakeup_bit: a running drain is not trusted.         *)
enqueue_wakeup_bit_eager(t) ==
    LET q == tq[t]
        st == mpd_state[q]
    IN /\ tpc[t] = "or"
       /\ mpd_state' = [mpd_state EXCEPT ![q] = @ \union {"WAKEUP"}]
       /\ panicked' = (panicked \/ "CANCELED" \in st)
       /\ IF st \intersect {"WAKEUP", "INACTIVE"} = {}
          THEN tpc' = [tpc EXCEPT ![t] = "wakeup"] /\ UNCHANGED tq
          ELSE return(t)
       /\ UNCHANGED <<queue, drain, worker, sent, cq, cwait, dead>>

(* Mutant of enqueue_wakeup_bit: INACTIVE is not looked at.               *)
enqueue_wakeup_bit_active(t) ==
    LET q == tq[t]
        st == mpd_state[q]
    IN /\ tpc[t] = "or"
       /\ mpd_state' = [mpd_state EXCEPT ![q] = @ \union {"WAKEUP"}]
       /\ panicked' = (panicked \/ "CANCELED" \in st)
       /\ IF st \intersect {"DRAINING", "WAKEUP"} = {}
          THEN tpc' = [tpc EXCEPT ![t] = "wakeup"] /\ UNCHANGED tq
          ELSE return(t)
       /\ UNCHANGED <<queue, drain, worker, sent, cq, cwait, dead>>

(* _mpsc_daemon_queue_enqueue(): set WAKEUP; the bits that were set tell   *)
(* whether somebody else takes care of the wakeup.                         *)
enqueue_wakeup_bit(t) ==
    LET q == tq[t]
        st == mpd_state[q]
    IN /\ tpc[t] = "or"
       /\ mpd_state' = [mpd_state EXCEPT ![q] = @ \union {"WAKEUP"}]
       /\ panicked' = (panicked \/ "CANCELED" \in st)
       /\ IF st \intersect {"DRAINING", "WAKEUP", "INACTIVE"} = {}
          THEN tpc' = [tpc EXCEPT ![t] = "wakeup"] /\ UNCHANGED tq
          ELSE return(t)
       /\ UNCHANGED <<queue, drain, worker, sent, cq, cwait, dead>>

(* _mpsc_daemon_queue_wakeup(): wake the thread if it waits, enter the     *)
(* thread call, or enqueue the queue itself on its target.                 *)
wakeup(t) ==
    LET q == tq[t]
    IN /\ tpc[t] = "wakeup"
       /\ \/ /\ q \in ThreadQ
             /\ waiting' = [waiting EXCEPT ![q] = FALSE]
             /\ return(t)
             /\ UNCHANGED <<queue, pending>>
          \/ /\ q \in CallQ
             /\ pending' = [pending EXCEPT ![q] = TRUE]
             /\ return(t)
             /\ UNCHANGED <<queue, waiting>>
          \/ /\ q \in NestedQ
             /\ append(t, Root, q)
             /\ UNCHANGED worker
       /\ UNCHANGED <<mpd_state, drain, sent, cq, cwait, dead, panicked>>

(* mpsc_daemon_queue_activate().                                           *)
mpsc_daemon_queue_activate(t, q) ==
    /\ tpc[t] = "idle"
    /\ "INACTIVE" \in mpd_state[q]
    /\ mpd_state' = [mpd_state EXCEPT ![q] = @ \ {"INACTIVE"}]
    /\ IF "WAKEUP" \in mpd_state[q]
       THEN tpc' = [tpc EXCEPT ![t] = "wakeup"] /\ tq' = [tq EXCEPT ![t] = q]
       ELSE UNCHANGED <<tpc, tq>>
    /\ UNCHANGED <<queue, drain, worker, sent, cq, cwait, dead, panicked>>

-----------------------------------------------------------------------------
(* mpsc_daemon_queue_cancel_and_wait().  The client calls it once, on an   *)
(* active queue, and sends nothing more: either when every sender has      *)
(* returned, or, as osfmk/kern/test_mpsc_queue.c does, when every item has *)
(* been invoked.                                                           *)
mpsc_daemon_queue_cancel_and_wait(t, q) ==
    /\ tpc[t] = "idle"
    /\ q \in Cancelable \ dead
    /\ \A u \in Threads : cq[u] # q
    /\ "INACTIVE" \notin mpd_state[q]
    /\ IF Quiescent
       THEN \A u \in Threads : tq[u] # q /\ (q \in NestedQ => tq[u] # Root)
       ELSE queue[q] = <<>> /\ batch[q] = <<>>
    /\ tpc' = [tpc EXCEPT ![t] = "cancel"]
    /\ cq' = [cq EXCEPT ![t] = q]
    /\ cwait' = [cwait EXCEPT ![t] = TRUE]
    /\ UNCHANGED <<mpd_state, queue, drain, worker, sent, tq, dead, panicked>>

(* Mutant of cancel_bit: only a running drain is waited for.               *)
cancel_bit_nowake(t) ==
    LET q == cq[t]
    IN /\ tpc[t] = "cancel"
       /\ mpd_state' = [mpd_state EXCEPT ![q] = @ \union {"CANCELED"}]
       /\ tpc' = [tpc EXCEPT ![t] = "block"]
       /\ cwait' = [cwait EXCEPT ![t] = "DRAINING" \in mpd_state[q]]
       /\ UNCHANGED <<queue, drain, worker, sent, tq, cq, dead, panicked>>

(* Mutant of cancel_bit: the drainer is not woken.                         *)
cancel_bit_sleep(t) ==
    /\ tpc[t] = "cancel"
    /\ mpd_state' = [mpd_state EXCEPT ![cq[t]] = @ \union {"CANCELED"}]
    /\ tpc' = [tpc EXCEPT ![t] = "block"]
    /\ UNCHANGED <<queue, drain, worker, sent, tq, cq, cwait, dead, panicked>>

(* Set CANCELED and wake the drainer, unless it is nested and idle.        *)
cancel_bit(t) ==
    LET q == cq[t]
    IN /\ tpc[t] = "cancel"
       /\ mpd_state' = [mpd_state EXCEPT ![q] = @ \union {"CANCELED"}]
       /\ IF q \in NestedQ /\ mpd_state[q] = {}
          THEN /\ tpc' = [tpc EXCEPT ![t] = "block"]
               /\ cwait' = [cwait EXCEPT ![t] = FALSE]
               /\ UNCHANGED tq
          ELSE /\ tpc' = [tpc EXCEPT ![t] = "wakeup"]
               /\ tq' = [tq EXCEPT ![t] = q]
               /\ UNCHANGED cwait
       /\ UNCHANGED <<queue, drain, worker, sent, cq, dead, panicked>>

(* thread_block(), then thread_call_cancel_wait() of a thread call.        *)
cancel_block(t) ==
    LET q == cq[t]
    IN /\ tpc[t] = "block"
       /\ ~cwait[t]
       /\ tpc' = [tpc EXCEPT ![t] = "cancel_wait"]
       /\ IF q \in CallQ THEN pending' = [pending EXCEPT ![q] = FALSE]
                         ELSE UNCHANGED pending
       /\ UNCHANGED <<mpd_state, queue, drain, waiting, sent, tq, cq, cwait,
                      dead, panicked>>

(* The queue is forgotten: its owner may be destroyed.                     *)
cancel_return(t) ==
    /\ tpc[t] = "cancel_wait"
    /\ cq[t] \in CallQ => dpc[cq[t]] = "off"
    /\ dead' = dead \union {cq[t]}
    /\ tpc' = [tpc EXCEPT ![t] = "idle"]
    /\ cq' = [cq EXCEPT ![t] = None]
    /\ UNCHANGED <<mpd_state, queue, drain, worker, sent, tq, cwait, panicked>>

-----------------------------------------------------------------------------
(* The drainer, _mpsc_daemon_queue_drain().                                *)

(* _mpsc_queue_thread_continue() runs once the thread's wait is over.      *)
thread_continue(q) ==
    /\ dpc[q] = "blocked"
    /\ ~waiting[q]
    /\ dpc' = [dpc EXCEPT ![q] = "xor"]
    /\ UNCHANGED <<mpd_state, queue, batch, worker, sent, threads, dead, panicked>>

(* A thread call runs; it is THREAD_CALL_OPTIONS_ONCE, so never twice at   *)
(* the same time.                                                          *)
thread_call_drain(q) ==
    /\ dpc[q] = "off"
    /\ pending[q]
    /\ pending' = [pending EXCEPT ![q] = FALSE]
    /\ dpc' = [dpc EXCEPT ![q] = "xor"]
    /\ UNCHANGED <<mpd_state, queue, batch, waiting, sent, threads, dead, panicked>>

(* The xor sets DRAINING and clears WAKEUP; both are asserted, except that *)
(* a drain started by a cancelation finds WAKEUP clear and has to clear it *)
(* again.                                                                  *)
drain_xor(q) ==
    LET st == mpd_state[q]
        bits == {"DRAINING", "WAKEUP"}
        new == (st \ bits) \union (bits \ st)
    IN /\ dpc[q] = "xor"
       /\ mpd_state' = [mpd_state EXCEPT ![q] = new]
       /\ panicked' = (\/ panicked
                       \/ "DRAINING" \notin new
                       \/ "WAKEUP" \in new /\ "CANCELED" \notin new)
       /\ dpc' = [dpc EXCEPT ![q] = IF "WAKEUP" \in new THEN "fix" ELSE "dequeue"]
       /\ UNCHANGED <<queue, batch, worker, sent, threads, dead>>

(* The andnot that clears the WAKEUP bit set by the xor of a canceled queue.*)
drain_fix(q) ==
    /\ dpc[q] = "fix"
    /\ mpd_state' = [mpd_state EXCEPT ![q] = @ \ {"WAKEUP"}]
    /\ dpc' = [dpc EXCEPT ![q] = "dequeue"]
    /\ UNCHANGED <<queue, batch, worker, sent, threads, dead, panicked>>

(* mpsc_queue_dequeue_batch(): drain until it finds the queue empty; a     *)
(* thread then asserts its next wait before it gives up DRAINING.          *)
drain_dequeue(q) ==
    /\ dpc[q] = "dequeue"
    /\ batch[q] = <<>>
    /\ batch' = [batch EXCEPT ![q] = queue[q]]
    /\ queue' = [queue EXCEPT ![q] = <<>>]
    /\ IF queue[q] = <<>>
       THEN /\ dpc' = [dpc EXCEPT ![q] = "andnot"]
            /\ waiting' = IF q \in ThreadQ THEN [waiting EXCEPT ![q] = TRUE]
                                           ELSE waiting
       ELSE /\ dpc' = [dpc EXCEPT ![q] = "invoke"]
            /\ UNCHANGED waiting
    /\ UNCHANGED <<mpd_state, pending, sent, threads, dead, panicked>>

(* One round of the loop: an item of a leaf, which may be sent again, or   *)
(* mpsc_daemon_queue_nested_invoke(), which drains a nested queue.         *)
drain_invoke(q) ==
    LET x == Head(batch[q])
    IN /\ dpc[q] = "invoke"
       /\ batch' = [batch EXCEPT ![q] = Tail(@)]
       /\ IF x \in Elements
          THEN /\ dpc' = [dpc EXCEPT ![q] = IF Tail(batch[q]) = <<>> THEN "dequeue" ELSE @]
               /\ sent' = IF Resend THEN sent \ {x} ELSE sent
          ELSE /\ dpc' = [dpc EXCEPT ![q] = "nested", ![x] = "xor"]
               /\ UNCHANGED sent
       /\ UNCHANGED <<mpd_state, queue, worker, threads, dead, panicked>>

(* Where q's drain goes when it returns: a thread blocks, a nested drain   *)
(* returns to the loop of its target.                                      *)
drain_return(q) ==
    dpc' = IF q \in NestedQ
           THEN [dpc EXCEPT ![q] = "off",
                            ![Root] = IF batch[Root] = <<>> THEN "dequeue" ELSE "invoke"]
           ELSE [dpc EXCEPT ![q] = IF q \in ThreadQ THEN "blocked" ELSE "off"]

(* Mutant of drain_andnot: a wakeup during the drain is ignored.           *)
drain_andnot_forget(q) ==
    LET st == mpd_state[q] \ {"DRAINING"}
    IN /\ dpc[q] = "andnot"
       /\ mpd_state' = [mpd_state EXCEPT ![q] = st]
       /\ IF "CANCELED" \in st
          THEN dpc' = [dpc EXCEPT ![q] = "canceled"]
          ELSE drain_return(q)
       /\ UNCHANGED <<queue, batch, worker, sent, threads, dead, panicked>>

(* Give up DRAINING.  A wakeup that happened meanwhile starts the drain    *)
(* over: its enqueuer relied on that.                                      *)
drain_andnot(q) ==
    LET st == mpd_state[q] \ {"DRAINING"}
    IN /\ dpc[q] = "andnot"
       /\ mpd_state' = [mpd_state EXCEPT ![q] = st]
       /\ \/ /\ "WAKEUP" \in st
             /\ waiting' = IF q \in ThreadQ THEN [waiting EXCEPT ![q] = FALSE] ELSE waiting
             /\ dpc' = [dpc EXCEPT ![q] = "xor"]
          \/ /\ "WAKEUP" \notin st
             /\ IF "CANCELED" \in st
                THEN dpc' = [dpc EXCEPT ![q] = "canceled"]
                ELSE drain_return(q)
             /\ UNCHANGED waiting
       /\ UNCHANGED <<queue, batch, pending, sent, threads, dead, panicked>>

(* thread_wakeup() of the canceler; a drain thread then terminates.        *)
drain_canceled(q) ==
    /\ dpc[q] = "canceled"
    /\ cwait' = [t \in Threads |-> IF cq[t] = q THEN FALSE ELSE cwait[t]]
    /\ IF q \in ThreadQ
       THEN /\ waiting' = [waiting EXCEPT ![q] = FALSE]
            /\ dpc' = [dpc EXCEPT ![q] = "terminated"]
       ELSE drain_return(q) /\ UNCHANGED waiting
    /\ UNCHANGED <<mpd_state, queue, batch, pending, sent, tpc, tq, cq, dead, panicked>>

-----------------------------------------------------------------------------
(* The steps of a thread inside a call.                                    *)
CallStep(t) ==
    \/ enqueue_wakeup_bit(t) \/ wakeup(t)
    \/ cancel_bit(t) \/ cancel_block(t) \/ cancel_return(t)

Call(t) ==
    \/ \E q \in Leaves, e \in Elements : mpsc_daemon_enqueue(t, q, e)
    \/ \E q \in Inactive : mpsc_daemon_queue_activate(t, q)
    \/ \E q \in Cancelable : mpsc_daemon_queue_cancel_and_wait(t, q)

DrainStep(q) ==
    \/ q \in ThreadQ /\ thread_continue(q)
    \/ q \in CallQ /\ thread_call_drain(q)
    \/ drain_xor(q) \/ drain_fix(q) \/ drain_dequeue(q) \/ drain_invoke(q)
    \/ drain_andnot(q) \/ drain_canceled(q)

Next ==
    /\ ~panicked
    /\ \/ \E t \in Threads : Call(t) \/ CallStep(t)
       \/ \E q \in Queues : DrainStep(q)

Spec == Init /\ [][Next]_vars

(* Threads inside a call and drainers that may run do run.                 *)
Fairness ==
    /\ \A t \in Threads : WF_vars(~panicked /\ CallStep(t))
    /\ \A q \in Queues : WF_vars(~panicked /\ DrainStep(q))

FairSpec == Spec /\ Fairness

-----------------------------------------------------------------------------
(* Every piece of state has its type; in particular a target is only sent  *)
(* nested queues, which mpsc_daemon_queue_nested_invoke() can drain.       *)
TypeOK ==
    /\ mpd_state \in [Queues -> SUBSET {"DRAINING", "WAKEUP", "CANCELED", "INACTIVE"}]
    /\ \A q \in Queues : \A i \in DOMAIN (queue[q] \o batch[q]) :
            (queue[q] \o batch[q])[i] \in IF q = Root THEN NestedQ ELSE Elements
    /\ dpc \in [Queues -> {"off", "blocked", "xor", "fix", "dequeue", "invoke",
                           "nested", "andnot", "canceled", "terminated"}]
    /\ waiting \in [ThreadQ -> BOOLEAN]
    /\ pending \in [CallQ -> BOOLEAN]
    /\ sent \subseteq Elements
    /\ tpc \in [Threads -> {"idle", "or", "wakeup", "cancel", "block", "cancel_wait"}]
    /\ tq \in [Threads -> Queues \union {None}]
    /\ cq \in [Threads -> Queues \union {None}]
    /\ cwait \in [Threads -> BOOLEAN]
    /\ dead \subseteq Cancelable
    /\ panicked \in BOOLEAN

(* The assertions of the drain hold - it never runs twice at a time, and   *)
(* WAKEUP is only clear when it was canceled - and no send that happened   *)
(* before a cancelation panics with "use after cancelation".               *)
NoPanic == ~panicked

(* A nested queue is on its target at most once: its linkage is part of    *)
(* the queue, so a second append would corrupt the list.                   *)
QueuedOnce ==
    \A q \in NestedQ :
        Cardinality({i \in DOMAIN (batch[Root] \o queue[Root]) :
                        (batch[Root] \o queue[Root])[i] = q}) <= 1

(* mpsc_queue.h: cancelation lets the object that owns the queue be        *)
(* destroyed.  When it returned, all items were invoked, nobody drains the *)
(* queue or is about to, and its target does not know it.                  *)
DestroyIsSafe ==
    \A q \in dead :
        /\ queue[q] = <<>> /\ batch[q] = <<>>
        /\ dpc[q] \in {"off", "terminated"}
        /\ q \in CallQ => ~pending[q]
        /\ \A t \in Threads : tq[t] # q
        /\ q \in NestedQ => q \notin Range(batch[Root] \o queue[Root])

(* No wakeup is lost: every item sent to an active queue is invoked, also  *)
(* when it is sent while the drainer is giving up.                         *)
AllInvoked ==
    \A q \in Leaves, e \in Elements :
        (e \in Range(queue[q] \o batch[q]) /\ "INACTIVE" \notin mpd_state[q])
            ~> e \notin Range(queue[q] \o batch[q])

(* A cancelation returns.                                                  *)
CancelReturns ==
    \A t \in Threads : tpc[t] = "cancel" ~> tpc[t] = "idle"
=============================================================================
