----------------------------- MODULE MpscQueue -----------------------------
(***************************************************************************)
(* The intrusive multi-producer single-consumer list of                    *)
(* osfmk/kern/mpsc_queue.h and mpsc_queue.c.                               *)
(*                                                                         *)
(* An append exchanges the tail first and links the element to its         *)
(* predecessor later, so that the list has gaps the consumer may run into  *)
(* and waits out.  Every action is one access to memory another thread may *)
(* see; stores into elements nobody else can reach yet are part of the     *)
(* action that follows them.                                               *)
(***************************************************************************)
EXTENDS Integers, Sequences, FiniteSets, Functions

CONSTANTS
    Producers,      (* threads that append                                 *)
    Elements,       (* struct mpsc_queue_chain                             *)
    HEAD,           (* &q->mpqh_head                                       *)
    NULL,
    NOTQUEUED       (* MPSC_QUEUE_NOTQUEUED_MARKER                         *)

ASSUME ElementsAssumption == IsFiniteSet(Elements)
ASSUME HeadAssumption == HEAD \notin Elements
ASSUME NullAssumption == NULL \notin Elements /\ NULL # HEAD
ASSUME MarkerAssumption == NOTQUEUED \notin Elements /\ NOTQUEUED # NULL

VARIABLES
    mpqc_next,      (* the linkage of the head and of every element        *)
    mpqh_tail,
    ppc, prev, first,         (* producer: position, token, list to link   *)
    cpc, cur, last, tmp       (* consumer: position, cursor, batch tail    *)

queueVars == <<mpqc_next, mpqh_tail>>
producers == <<ppc, prev, first>>
consumer  == <<cpc, cur, last, tmp>>
vars      == <<queueVars, producers, consumer>>

Lists == {<<e>> : e \in Elements}
            \union {<<e, f>> : e, f \in Elements}

(* MPSC_QUEUE_INITIALIZER; elements are poisoned while they are on no      *)
(* queue, as daemon queues do.                                             *)
Init ==
    /\ mpqc_next = [x \in Elements \union {HEAD} |->
                        IF x = HEAD THEN NULL ELSE NOTQUEUED]
    /\ mpqh_tail = HEAD
    /\ ppc = [p \in Producers |-> "idle"]
    /\ prev = [p \in Producers |-> NULL]
    /\ first = [p \in Producers |-> NULL]
    /\ cpc = "idle" /\ cur = NULL /\ last = NULL /\ tmp = NULL

-----------------------------------------------------------------------------
(* Producers.                                                              *)

(* __mpsc_queue_append_update_tail() on a formed list of free elements.    *)
append_update_tail(p, l) ==
    /\ ppc[p] = "idle"
    /\ IsInjective(l)
    /\ \A i \in DOMAIN l : mpqc_next[l[i]] = NOTQUEUED
    /\ mpqc_next' = [x \in DOMAIN mpqc_next |->
            CASE x = l[Len(l)] -> NULL
              [] x = l[1] /\ Len(l) > 1 -> l[2]
              [] OTHER -> mpqc_next[x]]
    /\ mpqh_tail' = l[Len(l)]
    /\ prev' = [prev EXCEPT ![p] = mpqh_tail]
    /\ first' = [first EXCEPT ![p] = l[1]]
    /\ ppc' = [ppc EXCEPT ![p] = "linking"]
    /\ UNCHANGED consumer

(* __mpsc_queue_append_update_prev().                                      *)
append_update_prev(p) ==
    /\ ppc[p] = "linking"
    /\ mpqc_next' = [mpqc_next EXCEPT ![prev[p]] = first[p]]
    /\ ppc' = [ppc EXCEPT ![p] = "idle"]
    /\ prev' = [prev EXCEPT ![p] = NULL]
    /\ first' = [first EXCEPT ![p] = NULL]
    /\ UNCHANGED <<mpqh_tail, consumer>>

-----------------------------------------------------------------------------
(* The consumer.                                                           *)

(* Mutant of dequeue_batch: a queue of one element is taken for empty.     *)
dequeue_batch_one ==
    /\ cpc = "idle"
    /\ mpqh_tail # HEAD
    /\ mpqh_tail # mpqc_next[HEAD]
    /\ cpc' = "head"
    /\ UNCHANGED <<queueVars, producers, cur, last, tmp>>

(* mpsc_queue_dequeue_batch(), load of the tail: NULL for an empty queue.  *)
dequeue_batch ==
    /\ cpc = "idle"
    /\ mpqh_tail # HEAD
    /\ cpc' = "head"
    /\ UNCHANGED <<queueVars, producers, cur, last, tmp>>

(* Load of the head; _mpsc_queue_wait_for_enqueuer() while it is NULL.     *)
dequeue_load_head ==
    /\ cpc = "head"
    /\ mpqc_next[HEAD] # NULL
    /\ cur' = mpqc_next[HEAD]
    /\ cpc' = "clear"
    /\ UNCHANGED <<queueVars, producers, last, tmp>>

(* The head is cleared before the queue can become empty for producers.    *)
dequeue_clear_head ==
    /\ cpc = "clear"
    /\ mpqc_next' = [mpqc_next EXCEPT ![HEAD] = NULL]
    /\ cpc' = "xchg"
    /\ UNCHANGED <<mpqh_tail, producers, cur, last, tmp>>

(* The exchange takes the whole list, appends since the load included.     *)
dequeue_xchg_tail ==
    /\ cpc = "xchg"
    /\ last' = mpqh_tail
    /\ mpqh_tail' = HEAD
    /\ cpc' = "next"
    /\ UNCHANGED <<mpqc_next, producers, cur, tmp>>

(* Mutant of batch_next: a gap is taken for the end of the batch.          *)
batch_next_gap ==
    /\ cpc = "next"
    /\ tmp' = IF cur = last THEN NULL ELSE mpqc_next[cur]
    /\ cpc' = "body"
    /\ UNCHANGED <<queueVars, producers, cur, last>>

(* mpsc_queue_batch_next(): the batch may still have gaps.                 *)
batch_next ==
    /\ cpc = "next"
    /\ \/ cur = last /\ tmp' = NULL
       \/ cur # last /\ mpqc_next[cur] # NULL /\ tmp' = mpqc_next[cur]
    /\ cpc' = "body"
    /\ UNCHANGED <<queueVars, producers, cur, last>>

(* Mutant of invoke: the next element is read from the poisoned one.       *)
invoke_unsafe ==
    /\ cpc = "body"
    /\ mpqc_next' = [mpqc_next EXCEPT ![cur] = NOTQUEUED]
    /\ cur' = IF tmp = NULL THEN NULL ELSE NOTQUEUED
    /\ tmp' = NULL
    /\ cpc' = IF tmp = NULL THEN "idle" ELSE "next"
    /\ last' = IF tmp = NULL THEN NULL ELSE last
    /\ UNCHANGED <<mpqh_tail, producers>>

(* One round of mpsc_queue_batch_foreach_safe() as in the daemon queues:   *)
(* the next element is known before the current one may be reused.         *)
invoke ==
    /\ cpc = "body"
    /\ mpqc_next' = [mpqc_next EXCEPT ![cur] = NOTQUEUED]
    /\ cur' = tmp
    /\ tmp' = NULL
    /\ cpc' = IF tmp = NULL THEN "idle" ELSE "next"
    /\ last' = IF tmp = NULL THEN NULL ELSE last
    /\ UNCHANGED <<mpqh_tail, producers>>

(* The element after x: a producer in the middle of its append knows it    *)
(* even if the list does not yet.                                          *)
succ(x) ==
    IF mpqc_next[x] # NULL THEN mpqc_next[x]
    ELSE LET P == {p \in Producers : ppc[p] = "linking" /\ prev[p] = x}
         IN IF P = {} THEN NULL ELSE first[CHOOSE p \in P : TRUE]

(* Sequences of distinct elements.                                         *)
Chains == UNION {{s \in [1 .. n -> Elements] : IsInjective(s)} :
                    n \in 1 .. Cardinality(Elements)}

(* The elements from one to another.                                       *)
path(from, to) ==
    CHOOSE s \in Chains :
        /\ s[1] = from /\ s[Len(s)] = to
        /\ \A i \in 1 .. Len(s) - 1 : s[i + 1] = succ(s[i])

(* mpsc_queue_restore_batch() of what is left of a batch.  The caller has  *)
(* to make sure that the batch has no gaps.                                *)
restore_batch ==
    /\ cpc = "body"
    /\ \A i \in 1 .. Len(path(cur, last)) - 1 :
            mpqc_next[path(cur, last)[i]] # NULL
    /\ mpqc_next' = [mpqc_next EXCEPT ![last] = mpqc_next[HEAD]]
    /\ cpc' = IF mpqc_next[HEAD] = NULL THEN "restore_cas" ELSE "restore_head"
    /\ tmp' = NULL
    /\ UNCHANGED <<mpqh_tail, producers, cur, last>>

(* An empty queue becomes the batch again.                                 *)
restore_cas ==
    /\ cpc = "restore_cas"
    /\ IF mpqh_tail = HEAD
       THEN mpqh_tail' = last /\ cpc' = "restore_head"
       ELSE cpc' = "restore_wait" /\ UNCHANGED mpqh_tail
    /\ UNCHANGED <<mpqc_next, producers, cur, last, tmp>>

(* _mpsc_queue_wait_for_enqueuer(): an append won the race.                *)
restore_wait ==
    /\ cpc = "restore_wait"
    /\ mpqc_next[HEAD] # NULL
    /\ mpqc_next' = [mpqc_next EXCEPT ![last] = mpqc_next[HEAD]]
    /\ cpc' = "restore_head"
    /\ UNCHANGED <<mpqh_tail, producers, cur, last, tmp>>

(* The batch is in front of what was appended since.                       *)
restore_head ==
    /\ cpc = "restore_head"
    /\ mpqc_next' = [mpqc_next EXCEPT ![HEAD] = cur]
    /\ cpc' = "idle" /\ cur' = NULL /\ last' = NULL
    /\ UNCHANGED <<mpqh_tail, producers, tmp>>

-----------------------------------------------------------------------------
Consumer ==
    \/ dequeue_batch \/ dequeue_load_head \/ dequeue_clear_head
    \/ dequeue_xchg_tail \/ batch_next \/ invoke
    \/ restore_cas \/ restore_wait \/ restore_head

Next ==
    \/ \E p \in Producers, l \in Lists : append_update_tail(p, l)
    \/ \E p \in Producers : append_update_prev(p)
    \/ Consumer
    \/ restore_batch

Spec == Init /\ [][Next]_vars

(* Appends run with preemption disabled, so the gap is closed; the         *)
(* consumer is a thread that keeps draining.                               *)
Fairness ==
    /\ \A p \in Producers : WF_vars(append_update_prev(p))
    /\ WF_vars(Consumer)

FairSpec == Spec /\ Fairness

-----------------------------------------------------------------------------
(* What the list means: the elements in the queue and the rest of the      *)
(* consumer's batch.  The head is detached for one step of a dequeue, and  *)
(* a restored batch counts from its link to the queue on.                  *)
queueOf ==
    IF mpqh_tail = HEAD THEN <<>>
    ELSE path(CASE cpc = "xchg" -> cur
                [] cpc = "restore_head" -> cur
                [] OTHER -> succ(HEAD), mpqh_tail)

batchOf ==
    IF cpc \in {"next", "body", "restore_cas", "restore_wait"}
    THEN path(cur, last) ELSE <<>>

Fifo == INSTANCE MpscFifo WITH queue <- queueOf, batch <- batchOf

(* Variables have their types; in particular the consumer never follows a  *)
(* poisoned link.                                                          *)
TypeOK ==
    /\ mpqc_next \in [Elements \union {HEAD} -> Elements \union {NULL, NOTQUEUED}]
    /\ mpqh_tail \in Elements \union {HEAD}
    /\ ppc \in [Producers -> {"idle", "linking"}]
    /\ prev \in [Producers -> Elements \union {HEAD, NULL}]
    /\ first \in [Producers -> Elements \union {NULL}]
    /\ cpc \in {"idle", "head", "clear", "xchg", "next", "body",
                "restore_cas", "restore_wait", "restore_head"}
    /\ cur \in Elements \union {NULL}
    /\ last \in Elements \union {NULL}
    /\ tmp \in Elements \union {NULL}

(* mpsc_queue.h: the list implements a FIFO of whole batches: nothing is   *)
(* lost, duplicated or reordered by appends that overlap a dequeue, the    *)
(* walk of an earlier batch or a restore.                                  *)
IsFifo == Fifo!Spec

(* Everything appended is invoked, unless the consumer chooses to put a    *)
(* batch back, and putting it back ends: neither mpsc_queue_batch_next()   *)
(* nor mpsc_queue_restore_batch() waits for an enqueuer that is not coming.*)
AllInvoked ==
    LET restoring == cpc \in {"restore_cas", "restore_wait", "restore_head"}
    IN /\ \A e \in Elements :
              mpqc_next[e] # NOTQUEUED ~> mpqc_next[e] = NOTQUEUED \/ restoring
       /\ restoring ~> cpc = "idle"
=============================================================================
