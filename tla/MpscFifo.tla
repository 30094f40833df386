------------------------------ MODULE MpscFifo ------------------------------
(***************************************************************************)
(* What a multi-producer single-consumer queue promises, as documented in  *)
(* osfmk/kern/mpsc_queue.h: elements leave in the order in which they were *)
(* appended, each exactly once, whole batches at a time, and a batch put   *)
(* back goes in front of what was appended meanwhile.                      *)
(***************************************************************************)
EXTENDS Integers, Sequences, Functions

CONSTANT Elements

VARIABLES queue,    (* appended and not taken yet                          *)
          batch     (* taken by the consumer and not invoked yet           *)

(* Lists of distinct elements: what mpsc_queue_append_list() may be given. *)
Lists == {<<e>> : e \in Elements}
            \union {<<e, f>> : e, f \in Elements}

Init == queue = <<>> /\ batch = <<>>

Append_list(l) ==
    /\ IsInjective(batch \o queue \o l)
    /\ queue' = queue \o l
    /\ UNCHANGED batch

DequeueBatch ==
    /\ batch = <<>> /\ queue # <<>>
    /\ batch' = queue
    /\ queue' = <<>>

Invoke ==
    /\ batch # <<>>
    /\ batch' = Tail(batch)
    /\ UNCHANGED queue

RestoreBatch ==
    /\ batch # <<>>
    /\ queue' = batch \o queue
    /\ batch' = <<>>

Next ==
    \/ \E l \in Lists : Append_list(l)
    \/ DequeueBatch
    \/ Invoke
    \/ RestoreBatch

Spec == Init /\ [][Next]_<<queue, batch>>
=============================================================================
