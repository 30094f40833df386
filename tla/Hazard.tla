------------------------------- MODULE Hazard -------------------------------
(***************************************************************************)
(* Hazard pointers, osfmk/kern/hazard.c and hazard.h: a CPU publishes the  *)
(* value it is about to use in one of its guard slots; a retired value is  *)
(* kept in a bucket until the drain of hazard_deallocate_queue finds no    *)
(* guard that protects it.                                                 *)
(*                                                                         *)
(* Values stand for addresses: they are ordered, and a destroyed value may *)
(* be allocated again.  Buckets have identities, because the filter reuses *)
(* the buckets it empties.  The daemon queue is the FIFO of MpscFifo.      *)
(* Loads and stores are sequentially consistent: on x86_64 the stores that *)
(* matter are exchanges, and a delayed clear only protects for longer.     *)
(***************************************************************************)
EXTENDS Integers, Sequences, FiniteSets, Functions

CONSTANTS
    NCPU,                   (* zpercpu_count()                             *)
    HAZARD_GUARD_SLOTS,     (* guards per CPU                              *)
    hazard_bucket_count,    (* records per bucket                          *)
    NValue, NBucket,        (* memory for values and for buckets           *)
    Writers,                (* threads that update the pointer             *)
    MaxGuards               (* bound: guards in use at the same time       *)

ASSUME HazardAssumption ==
    /\ NCPU \in Nat \ {0} /\ HAZARD_GUARD_SLOTS \in Nat \ {0}
    /\ hazard_bucket_count \in Nat \ {0} /\ NValue \in Nat /\ NBucket \in Nat
    /\ MaxGuards \in Nat
    /\ NCPU * HAZARD_GUARD_SLOTS < 7        (* the case of qsort modelled  *)

NULL    == 0
CPUs    == 1 .. NCPU
Slots   == 1 .. HAZARD_GUARD_SLOTS
Values  == 1 .. NValue
Buckets == 1 .. NBucket

VARIABLES
    pointer,            (* a HAZARD_POINTER()                              *)
    vstate,             (* value: free, live or retired                    *)
    hg_val, hga_mask,   (* CPU: guarded values, slots handed out           *)
    rpc, rslot, rval,   (* CPU: position in an acquire, its slot and value *)
    hga_bucket,         (* CPU: the bucket being filled                    *)
    hb_recs, hb_count,  (* bucket: its records, how many are valid         *)
    bfree,              (* buckets that are not allocated                  *)
    wpc, wold, wfree,   (* writer: position, value to retire, free_bucket  *)
    dqueue, dbatch,     (* hazard_deallocate_queue, the batch drained      *)
    pending,            (* hazard_buckets_pending                          *)
    dpc, cpu, idx,      (* drain: position, CPU, index of the loop         *)
    head, array,        (* buckets to filter, hbfs_array                   *)
    partial, pos,       (* hbfs_partial, hbfs_partial_pos                  *)
    lo, hi              (* bounds of the binary search                     *)

reader == <<hg_val, hga_mask, rpc, rslot, rval>>
writer == <<wpc, wold, wfree>>
bucket == <<hb_recs, hb_count, bfree>>
filter == <<head, partial, pos, lo, hi>>
drain  == <<dbatch, pending, dpc, cpu, idx, filter, array>>
vars   == <<pointer, vstate, reader, hga_bucket, bucket, writer, dqueue, drain>>

NoRecords == [i \in 1 .. hazard_bucket_count |-> NULL]

Init ==
    /\ pointer = NULL
    /\ vstate = [v \in Values |-> "free"]
    /\ hg_val = [c \in CPUs |-> [s \in Slots |-> NULL]]
    /\ hga_mask = [c \in CPUs |-> {}]
    /\ rpc = [c \in CPUs |-> "idle"]
    /\ rslot = [c \in CPUs |-> 1]
    /\ rval = [c \in CPUs |-> NULL]
    /\ hga_bucket = [c \in CPUs |-> NULL]
    /\ hb_recs = [b \in Buckets |-> NoRecords]
    /\ hb_count = [b \in Buckets |-> 0]
    /\ bfree = Buckets
    /\ wpc = [w \in Writers |-> "idle"]
    /\ wold = [w \in Writers |-> NULL]
    /\ wfree = [w \in Writers |-> NULL]
    /\ dqueue = <<>> /\ dbatch = <<>> /\ pending = <<>> /\ head = <<>>
    /\ dpc = "idle" /\ cpu = 1 /\ idx = 1 /\ array = <<>>
    /\ partial = NULL /\ pos = 0 /\ lo = 0 /\ hi = 0

-----------------------------------------------------------------------------
(* Readers.  Preemption is disabled from get to put: one reader per CPU.   *)

GuardsInUse == Cardinality({g \in CPUs \X Slots : g[2] \in hga_mask[g[1]]})

(* Slots s .. s+n-1 are handed out; they must be unused.                   *)
hazard_guard_get(c, s, n) ==
    LET slots == s .. s + n - 1 IN
    /\ rpc[c] = "idle"
    /\ slots \subseteq Slots \ hga_mask[c]
    /\ GuardsInUse + n <= MaxGuards
    /\ hga_mask' = [hga_mask EXCEPT ![c] = @ \union slots]
    /\ UNCHANGED <<pointer, vstate, hg_val, rpc, rslot, rval, hga_bucket,
                   bucket, writer, dqueue, drain>>

(* Clear the guards, then give the slots back.                             *)
hazard_guard_put(c, s, n) ==
    LET slots == s .. s + n - 1 IN
    /\ rpc[c] = "idle"
    /\ slots \subseteq hga_mask[c]
    /\ hg_val' = [hg_val EXCEPT ![c] =
                     [i \in Slots |-> IF i \in slots THEN NULL ELSE @[i]]]
    /\ hga_mask' = [hga_mask EXCEPT ![c] = @ \ slots]
    /\ UNCHANGED <<pointer, vstate, rpc, rslot, rval, hga_bucket, bucket,
                   writer, dqueue, drain>>

(* hazard_guard_acquire and hazard_guard_reacquire_val: load the pointer.  *)
hazard_guard_acquire(c, s) ==
    /\ rpc[c] = "idle" /\ s \in hga_mask[c]
    /\ rpc' = [rpc EXCEPT ![c] = "set"]
    /\ rslot' = [rslot EXCEPT ![c] = s]
    /\ rval' = [rval EXCEPT ![c] = pointer]
    /\ UNCHANGED <<pointer, vstate, hg_val, hga_mask, hga_bucket, bucket,
                   writer, dqueue, drain>>

(* hazard_guard_set and hazard_guard_replace: publish the value.           *)
hazard_guard_set(c) ==
    /\ rpc[c] \in {"set", "again"}
    /\ hg_val' = [hg_val EXCEPT ![c][rslot[c]] = rval[c]]
    /\ rpc' = [rpc EXCEPT ![c] = "reload"]
    /\ UNCHANGED <<pointer, vstate, hga_mask, rslot, rval, hga_bucket, bucket,
                   writer, dqueue, drain>>

(* Mutant of hazard_guard_acquire_loop: the value is not reloaded.         *)
hazard_guard_acquire_loop_once(c) ==
    /\ rpc[c] = "reload"
    /\ rpc' = [rpc EXCEPT ![c] = "idle"]
    /\ rval' = [rval EXCEPT ![c] = NULL]
    /\ UNCHANGED <<pointer, vstate, hg_val, hga_mask, rslot, hga_bucket,
                   bucket, writer, dqueue, drain>>

(* The value is acquired when the pointer still holds it after the guard   *)
(* has been set; otherwise the new value has to be guarded.                *)
hazard_guard_acquire_loop(c) ==
    /\ rpc[c] = "reload"
    /\ IF pointer = rval[c]
       THEN /\ rpc' = [rpc EXCEPT ![c] = "idle"]
            /\ rval' = [rval EXCEPT ![c] = NULL]
       ELSE /\ rpc' = [rpc EXCEPT ![c] = "again"]
            /\ rval' = [rval EXCEPT ![c] = pointer]
    /\ UNCHANGED <<pointer, vstate, hg_val, hga_mask, rslot, hga_bucket,
                   bucket, writer, dqueue, drain>>

(* The values that CPU c may dereference: a guard that is being acquired   *)
(* counts until it is replaced, and again once the reload has agreed.      *)
Held(c) ==
    LET acquiring == IF rpc[c] \in {"reload", "again"} THEN {rslot[c]} ELSE {}
    IN  {hg_val[c][s] : s \in hga_mask[c] \ acquiring} \ {NULL}

-----------------------------------------------------------------------------
(* Writers.  Stores to the pointer are serialised by the client's lock.    *)

(* hazard_ptr_serialized_store and hazard_ptr_clear: a fresh value or NULL *)
(* replaces the current one, which then has to be retired.                 *)
hazard_ptr_serialized_store(w, v) ==
    /\ wpc[w] = "idle"
    /\ v # NULL => vstate[v] = "free"
    /\ v = NULL => pointer # NULL
    /\ pointer' = v
    /\ vstate' = IF v = NULL THEN vstate ELSE [vstate EXCEPT ![v] = "live"]
    /\ wold' = [wold EXCEPT ![w] = pointer]
    /\ wpc' = [wpc EXCEPT ![w] = IF pointer = NULL THEN "idle" ELSE "retire"]
    /\ UNCHANGED <<reader, hga_bucket, bucket, wfree, dqueue, drain>>

(* The bucket an allocation that succeeds returns: buckets have no order,  *)
(* so the lowest free one stands for any.                                  *)
hazard_bucket_alloc(b, free) == b \in free /\ \A x \in free : b <= x

(* Mutant of retire_record: the bucket is enqueued one record too late.    *)
retire_record_late(w, c, b, free, spare, large, new) ==
    LET full == hb_count[b] = hazard_bucket_count \/ large IN
    /\ hb_recs' = [hb_recs EXCEPT ![b][hb_count[b] + 1] = wold[w]]
    /\ hb_count' = [hb_count EXCEPT ![b] = @ + 1]
    /\ vstate' = [vstate EXCEPT ![wold[w]] = "retired"]
    /\ IF full
       THEN /\ new = NULL \/ hazard_bucket_alloc(new, free)     (* Z_NOWAIT *)
            /\ hga_bucket' = [hga_bucket EXCEPT ![c] = new]
            /\ bfree' = (free \ {new}) \union spare
            /\ dqueue' = Append(dqueue, b)
       ELSE /\ new = NULL
            /\ hga_bucket' = [hga_bucket EXCEPT ![c] = b]
            /\ bfree' = free \union spare
            /\ UNCHANGED dqueue
    /\ wpc' = [wpc EXCEPT ![w] = "idle"]
    /\ wold' = [wold EXCEPT ![w] = NULL]
    /\ wfree' = [wfree EXCEPT ![w] = NULL]
    /\ UNCHANGED <<pointer, reader, drain>>

(* Record the value in bucket b.  A full bucket, or one whose values add   *)
(* up to hazard_retire_threshold (large), goes to the daemon queue and the *)
(* CPU gets bucket new, possibly none.  An unused free_bucket (spare) is   *)
(* freed last.                                                             *)
retire_record(w, c, b, free, spare, large, new) ==
    LET full == hb_count[b] + 1 = hazard_bucket_count \/ large IN
    /\ hb_recs' = [hb_recs EXCEPT ![b][hb_count[b] + 1] = wold[w]]
    /\ hb_count' = [hb_count EXCEPT ![b] = @ + 1]
    /\ vstate' = [vstate EXCEPT ![wold[w]] = "retired"]
    /\ IF full
       THEN /\ new = NULL \/ hazard_bucket_alloc(new, free)     (* Z_NOWAIT *)
            /\ hga_bucket' = [hga_bucket EXCEPT ![c] = new]
            /\ bfree' = (free \ {new}) \union spare
            /\ dqueue' = Append(dqueue, b)
       ELSE /\ new = NULL
            /\ hga_bucket' = [hga_bucket EXCEPT ![c] = b]
            /\ bfree' = free \union spare
            /\ UNCHANGED dqueue
    /\ wpc' = [wpc EXCEPT ![w] = "idle"]
    /\ wold' = [wold EXCEPT ![w] = NULL]
    /\ wfree' = [wfree EXCEPT ![w] = NULL]
    /\ UNCHANGED <<pointer, reader, drain>>

(* The thread runs on CPU c with preemption disabled.  Its bucket is the   *)
(* CPU's, else free_bucket, else a new one.                                *)
hazard_retire(w, c) ==
    /\ wpc[w] = "retire"
    /\ \E b \in Buckets, large \in BOOLEAN, new \in Buckets \union {NULL} :
          \/ /\ hga_bucket[c] = b
             /\ retire_record(w, c, b, bfree, {wfree[w]} \ {NULL}, large, new)
          \/ /\ hga_bucket[c] = NULL /\ wfree[w] = b
             /\ retire_record(w, c, b, bfree, {}, large, new)
          \/ /\ hga_bucket[c] = NULL /\ wfree[w] = NULL
             /\ hazard_bucket_alloc(b, bfree)
             /\ retire_record(w, c, b, bfree \ {b}, {}, large, new)

(* No bucket, and the allocation that may not block fails.                 *)
retire_nobucket(w, c) ==
    /\ wpc[w] = "retire"
    /\ hga_bucket[c] = NULL /\ wfree[w] = NULL
    /\ wpc' = [wpc EXCEPT ![w] = "alloc"]
    /\ UNCHANGED <<pointer, vstate, reader, hga_bucket, bucket, wold, wfree,
                   dqueue, drain>>

(* The blocking allocation, with preemption enabled, then again.           *)
retire_alloc(w) ==
    /\ wpc[w] = "alloc"
    /\ \E b \in Buckets : /\ hazard_bucket_alloc(b, bfree)
                          /\ wfree' = [wfree EXCEPT ![w] = b]
                          /\ bfree' = bfree \ {b}
    /\ wpc' = [wpc EXCEPT ![w] = "retire"]
    /\ UNCHANGED <<pointer, vstate, reader, hga_bucket, hb_recs, hb_count,
                   wold, dqueue, drain>>

-----------------------------------------------------------------------------
(* The drain of hazard_deallocate_queue.                                   *)

(* Take all the buckets, at the start of a drain and when a batch is done. *)
dequeue_batch ==
    /\ dpc \in {"idle", "batch"} /\ dbatch = <<>> /\ dqueue # <<>>
    /\ dbatch' = dqueue /\ dqueue' = <<>> /\ dpc' = "batch"
    /\ UNCHANGED <<pointer, vstate, reader, hga_bucket, bucket, writer,
                   pending, cpu, idx, filter, array>>

(* Buckets of a batch are only collected.                                  *)
hazard_deallocate_queue_invoke ==
    /\ dpc = "batch" /\ dbatch # <<>>
    /\ pending' = Append(pending, Head(dbatch))
    /\ dbatch' = Tail(dbatch)
    /\ UNCHANGED <<pointer, vstate, reader, hga_bucket, bucket, writer,
                   dqueue, dpc, cpu, idx, filter, array>>

(* Mutant of hazard_scan_and_reclaim: nothing is scanned until there is    *)
(* more than one bucket per CPU.                                           *)
hazard_scan_and_reclaim_lazy ==
    /\ dpc = "batch" /\ dbatch = <<>> /\ dqueue = <<>> /\ pending # <<>>
    /\ IF Len(pending) > NCPU
       THEN /\ partial' = Head(pending) /\ pos' = 0
            /\ head' = pending /\ pending' = <<>>
            /\ array' = <<>> /\ dpc' = "scan"
       ELSE /\ dpc' = "idle"
            /\ UNCHANGED <<pending, head, partial, pos, array>>
    /\ cpu' = 1 /\ idx' = 1
    /\ UNCHANGED <<pointer, vstate, reader, hga_bucket, bucket, writer,
                   dqueue, dbatch, lo, hi>>

(* MPSC_QUEUE_BATCH_END, when the queue was found empty: every pending     *)
(* bucket is about to be filtered, the first one also receives the records *)
(* to keep.                                                                *)
hazard_scan_and_reclaim ==
    /\ dpc = "batch" /\ dbatch = <<>> /\ dqueue = <<>> /\ pending # <<>>
    /\ partial' = Head(pending) /\ pos' = 0
    /\ head' = pending /\ pending' = <<>>
    /\ array' = <<>> /\ dpc' = "scan" /\ cpu' = 1 /\ idx' = 1
    /\ UNCHANGED <<pointer, vstate, reader, hga_bucket, bucket, writer,
                   dqueue, dbatch, lo, hi>>

(* Compares the addresses x and y of two entries of hbfs_array: the sign   *)
(* of the result is positive when entry x has to go after entry y.         *)
hazard_compare(x, y) == IF x = y THEN 0 ELSE IF x < y THEN 1 ELSE -1

(* One load of the scan, slot by slot and CPU by CPU, then the sort.       *)
scan_guard ==
    LET p == hg_val[cpu][idx] IN
    /\ dpc = "scan"
    /\ array' = IF p = NULL THEN array ELSE Append(array, p)
    /\ IF idx < HAZARD_GUARD_SLOTS
       THEN idx' = idx + 1 /\ UNCHANGED <<dpc, cpu>>
       ELSE IF cpu < NCPU
            THEN cpu' = cpu + 1 /\ idx' = 1 /\ UNCHANGED dpc
            ELSE dpc' = "sort" /\ idx' = 2 /\ UNCHANGED cpu
    /\ UNCHANGED <<pointer, vstate, reader, hga_bucket, bucket, writer, dqueue,
                   dbatch, pending, filter>>

(* The place that entry m moves down to, past every neighbour that         *)
(* compares greater.                                                       *)
insertion(l, m) ==
    /\ \A q \in l + 1 .. m : hazard_compare(q - 1, q) > 0
    /\ l > 1 => hazard_compare(l - 1, l) <= 0

(* Sequence a with entry m moved to place l.                               *)
inserted(a, l, m) ==
    [i \in 1 .. Len(a) |-> CASE i = l -> a[m]
                             [] i \in l + 1 .. m -> a[i - 1]
                             [] OTHER -> a[i]]

(* The next search starts with the whole array.                            *)
search(i) == idx' = i /\ lo' = 0 /\ hi' = Len(array)

(* qsort on fewer than 7 entries: each one is inserted below its place.    *)
qsort ==
    /\ dpc = "sort"
    /\ IF idx > Len(array)
       THEN dpc' = "filter" /\ search(1) /\ UNCHANGED array
       ELSE /\ \E l \in 1 .. idx :
                  insertion(l, idx) /\ array' = inserted(array, l, idx)
            /\ idx' = idx + 1
            /\ UNCHANGED <<dpc, lo, hi>>
    /\ UNCHANGED <<pointer, vstate, reader, hga_bucket, bucket, writer, dqueue,
                   dbatch, pending, cpu, head, partial, pos>>

(* The loop of hazard_filter_bucket has record v of the bucket in hand.    *)
filtering(v) ==
    /\ dpc = "filter" /\ head # <<>>
    /\ idx <= hb_count[Head(head)] /\ v = hb_recs[Head(head)][idx]

(* Binary search of p in an array in decreasing order: a probe that misses.*)
probe == array[(lo + hi) \div 2 + 1]
hazard_bsearch(p) ==
    /\ filtering(p) /\ lo < hi /\ probe # p
    /\ IF probe < p THEN hi' = (lo + hi) \div 2 /\ UNCHANGED lo
                    ELSE lo' = (lo + hi) \div 2 + 1 /\ UNCHANGED hi
    /\ UNCHANGED <<pointer, vstate, reader, hga_bucket, bucket, writer, dqueue,
                   dbatch, pending, dpc, cpu, idx, head, partial, pos, array>>

(* No guard has been found: the value is destroyed.                        *)
filter_destroy(v) ==
    /\ filtering(v) /\ lo >= hi
    /\ vstate' = [vstate EXCEPT ![v] = "free"]
    /\ search(idx + 1)
    /\ UNCHANGED <<pointer, reader, hga_bucket, bucket, writer, dqueue,
                   dbatch, pending, dpc, cpu, head, partial, pos, array>>

(* A guard protects the value: it is copied to the partial bucket.  When   *)
(* that becomes full it is pending and this bucket replaces it.            *)
filter_keep(v) ==
    /\ filtering(v) /\ lo < hi /\ probe = v
    /\ hb_recs' = [hb_recs EXCEPT ![partial][pos + 1] = v]
    /\ IF pos + 1 = hazard_bucket_count
       THEN /\ hb_count' = [hb_count EXCEPT ![partial] = pos + 1]
            /\ pending' = Append(pending, partial)
            /\ partial' = Head(head) /\ pos' = 0
       ELSE pos' = pos + 1 /\ UNCHANGED <<hb_count, pending, partial>>
    /\ search(idx + 1)
    /\ UNCHANGED <<pointer, vstate, reader, hga_bucket, bfree, writer, dqueue,
                   dbatch, dpc, cpu, head, array>>

(* Mutant of hazard_filter_bucket: the bucket is freed even when it has    *)
(* become the partial one.                                                 *)
hazard_filter_bucket_free ==
    /\ dpc = "filter" /\ head # <<>> /\ idx > hb_count[Head(head)]
    /\ hb_recs' = [hb_recs EXCEPT ![Head(head)] = NoRecords]
    /\ hb_count' = [hb_count EXCEPT ![Head(head)] = 0]
    /\ bfree' = bfree \union {Head(head)}
    /\ head' = Tail(head) /\ search(1)
    /\ UNCHANGED <<pointer, vstate, reader, hga_bucket, writer, dqueue, dbatch,
                   pending, dpc, cpu, partial, pos, array>>

(* The end of a bucket; it is freed unless it became the partial one.      *)
hazard_filter_bucket ==
    /\ dpc = "filter" /\ head # <<>> /\ idx > hb_count[Head(head)]
    /\ IF Head(head) # partial
       THEN /\ hb_recs' = [hb_recs EXCEPT ![Head(head)] = NoRecords]
            /\ hb_count' = [hb_count EXCEPT ![Head(head)] = 0]
            /\ bfree' = bfree \union {Head(head)}
       ELSE UNCHANGED bucket
    /\ head' = Tail(head) /\ search(1)
    /\ UNCHANGED <<pointer, vstate, reader, hga_bucket, writer, dqueue, dbatch,
                   pending, dpc, cpu, partial, pos, array>>

(* A partial bucket without records is freed, another one stays pending.   *)
hazard_filter_finish ==
    /\ dpc = "filter" /\ head = <<>>
    /\ IF pos = 0
       THEN /\ hb_recs' = [hb_recs EXCEPT ![partial] = NoRecords]
            /\ hb_count' = [hb_count EXCEPT ![partial] = 0]
            /\ bfree' = bfree \union {partial}
            /\ UNCHANGED pending
       ELSE /\ hb_recs' = [hb_recs EXCEPT ![partial] =
                              [i \in DOMAIN @ |-> IF i <= pos THEN @[i] ELSE NULL]]
            /\ hb_count' = [hb_count EXCEPT ![partial] = pos]
            /\ pending' = Append(pending, partial)
            /\ UNCHANGED bfree
    /\ partial' = NULL /\ pos' = 0 /\ array' = <<>> /\ dpc' = "idle"
    /\ idx' = 1 /\ lo' = 0 /\ hi' = 0
    /\ UNCHANGED <<pointer, vstate, reader, hga_bucket, writer, dqueue, dbatch,
                   cpu, head>>

Next ==
    \/ \E c \in CPUs, s \in Slots, n \in Slots :
          hazard_guard_get(c, s, n) \/ hazard_guard_put(c, s, n)
    \/ \E c \in CPUs, s \in Slots : hazard_guard_acquire(c, s)
    \/ \E c \in CPUs : hazard_guard_set(c) \/ hazard_guard_acquire_loop(c)
    \/ \E w \in Writers, v \in Values \union {NULL} : hazard_ptr_serialized_store(w, v)
    \/ \E w \in Writers, c \in CPUs : hazard_retire(w, c) \/ retire_nobucket(w, c)
    \/ \E w \in Writers : retire_alloc(w)
    \/ dequeue_batch \/ hazard_deallocate_queue_invoke \/ hazard_scan_and_reclaim
    \/ scan_guard \/ qsort
    \/ \E v \in Values : hazard_bsearch(v) \/ filter_destroy(v) \/ filter_keep(v)
    \/ hazard_filter_bucket \/ hazard_filter_finish

Spec == Init /\ [][Next]_vars

-----------------------------------------------------------------------------
(* Buckets that hold retired values outside of a filter's partial bucket.  *)
OnLists ==
    (UNION {Range(f) : f \in {hga_bucket, dqueue, dbatch, pending, head}}) \ {NULL}

(* The first record of b that has not been filtered.                       *)
due(b) == IF dpc = "filter" /\ head # <<>> /\ b = Head(head) THEN idx ELSE 1

(* All the records that will be looked at by this reclaim or a later one.  *)
Recorded ==
    {r \in (Buckets \ bfree) \X (1 .. hazard_bucket_count) :
        \/ r[1] \in OnLists /\ r[2] \in due(r[1]) .. hb_count[r[1]]
        \/ r[1] = partial /\ r[2] <= pos}

(* Every piece of state has its type: slots, buckets and values in range,  *)
(* no bucket holding more records than it has room for.                    *)
TypeOK ==
    /\ pointer \in Values \union {NULL}
    /\ vstate \in [Values -> {"free", "live", "retired"}]
    /\ hg_val \in [CPUs -> [Slots -> Values \union {NULL}]]
    /\ hga_mask \in [CPUs -> SUBSET Slots]
    /\ rpc \in [CPUs -> {"idle", "set", "reload", "again"}]
    /\ rslot \in [CPUs -> Slots] /\ rval \in [CPUs -> Values \union {NULL}]
    /\ hga_bucket \in [CPUs -> Buckets \union {NULL}]
    /\ hb_recs \in [Buckets -> [1 .. hazard_bucket_count -> Values \union {NULL}]]
    /\ hb_count \in [Buckets -> 0 .. hazard_bucket_count]
    /\ bfree \subseteq Buckets
    /\ wpc \in [Writers -> {"idle", "retire", "alloc"}]
    /\ wold \in [Writers -> Values \union {NULL}]
    /\ wfree \in [Writers -> Buckets \union {NULL}]
    /\ dqueue \in Seq(Buckets) /\ dbatch \in Seq(Buckets)
    /\ pending \in Seq(Buckets) /\ head \in Seq(Buckets)
    /\ dpc \in {"idle", "batch", "scan", "sort", "filter"}
    /\ cpu \in CPUs /\ idx \in Nat \ {0}
    /\ partial \in Buckets \union {NULL} /\ pos \in 0 .. hazard_bucket_count - 1
    /\ array \in Seq(Values)
    /\ lo \in 0 .. Len(array) /\ hi \in 0 .. Len(array)

(* Guards protect: a value that a CPU has acquired through a guard, set    *)
(* and reloaded as __hazard_guard_acquire_loop does, is not destroyed by   *)
(* hazard_filter_bucket until the guard is cleared or replaced.            *)
GuardedIsAlive == \A c \in CPUs : \A v \in Held(c) : vstate[v] # "free"

(* Records that are not destroyed are kept: each retired value is in one   *)
(* record, of a bucket that the next scan still filters, exactly once,     *)
(* and no such record is of a value that has been destroyed.               *)
RecordsKept ==
    /\ {hb_recs[r[1]][r[2]] : r \in Recorded} = {v \in Values : vstate[v] = "retired"}
    /\ Cardinality(Recorded) = Cardinality({v \in Values : vstate[v] = "retired"})

(* Memory overhead: once a reclaim is over, no more records are pending    *)
(* than there are guard slots.                                             *)
DeferredBounded ==
    dpc = "idle" =>
        Cardinality({r \in Recorded : r[1] \in Range(pending)}) <= NCPU * HAZARD_GUARD_SLOTS
=============================================================================
