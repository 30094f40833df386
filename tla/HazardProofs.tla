---------------------------- MODULE HazardProofs ----------------------------
(***************************************************************************)
(* Proofs about Hazard, for any number of values, buckets and writers.     *)
(*                                                                         *)
(* IInv says where each bucket is and that every retired value is in       *)
(* exactly one record, while the filter copies records within the buckets  *)
(* it walks through.  It holds when fewer guards are in use than a bucket  *)
(* has records: then the partial bucket never gets full in a reclaim.  For *)
(* that the records to keep are bounded by the guards in use, although the *)
(* scan reads the slots at different times (Bounded): a value that has     *)
(* been retired cannot be acquired again, so that a guard counts as found  *)
(* or as still to be found, never as both.                                 *)
(*                                                                         *)
(* ScanFindsGuards says that the scan misses no guard it has to find.      *)
(* FoundAlone adds what the search finds when one guard is in use; the     *)
(* order that hazard_compare makes is wrong for more than one.             *)
(***************************************************************************)
EXTENDS Hazard, SequenceTheorems, FiniteSetTheorems, TLAPS

-----------------------------------------------------------------------------
(* A reclaim is going on.                                                  *)
Busy == dpc \in {"scan", "sort", "filter"}

(* Every bucket is in the place that its function gives: nobody else has   *)
(* it.  The first bucket of a reclaim is also the partial one.             *)
Placed(place) ==
    /\ place \in [Buckets -> {"free", "cpu", "writer", "dqueue", "dbatch",
                              "pending", "head", "partial"}]
    /\ \A b \in bfree : place[b] = "free"
    /\ \A c \in CPUs : hga_bucket[c] # NULL => place[hga_bucket[c]] = "cpu"
    /\ \A w \in Writers : wfree[w] # NULL => place[wfree[w]] = "writer"
    /\ \A b \in Range(dqueue) : place[b] = "dqueue"
    /\ \A b \in Range(dbatch) : place[b] = "dbatch"
    /\ \A b \in Range(pending) : place[b] = "pending"
    /\ \A b \in Range(head) : place[b] = "head"
    /\ partial # NULL =>
          \/ place[partial] = "partial"
          \/ place[partial] = "head" /\ head # <<>> /\ partial = Head(head)

(* And nobody has it twice.                                                *)
Once ==
    /\ \A c, d \in CPUs :
          hga_bucket[c] # NULL /\ hga_bucket[c] = hga_bucket[d] => c = d
    /\ \A w, u \in Writers : wfree[w] # NULL /\ wfree[w] = wfree[u] => w = u
    /\ IsInjective(dqueue) /\ IsInjective(dbatch)
    /\ IsInjective(pending) /\ IsInjective(head)

(* Buckets to be filled have room.                                         *)
Counted ==
    /\ \A b \in bfree : hb_count[b] = 0
    /\ \A c \in CPUs :
          hga_bucket[c] # NULL => hb_count[hga_bucket[c]] < hazard_bucket_count
    /\ \A w \in Writers : wfree[w] # NULL => hb_count[wfree[w]] = 0

(* What the drain has in hand at each position.                            *)
Phases ==
    /\ partial # NULL <=> Busy
    /\ Busy => pending = <<>>
    /\ ~ Busy => head = <<>> /\ pos = 0
    /\ dpc \in {"scan", "sort"} => head # <<>> /\ partial = Head(head) /\ pos = 0
    /\ dpc = "scan" => idx \in Slots
    /\ dpc = "sort" => idx > 1
    /\ dpc # "filter" => lo = 0 /\ hi = 0
    /\ dpc = "filter" /\ head # <<>> =>
          /\ idx <= hb_count[Head(head)] + 1
          /\ partial = Head(head) => pos < idx
    /\ dpc = "idle" =>
          /\ Len(pending) <= 1
          /\ \A b \in Range(pending) : hb_count[b] <= NCPU * HAZARD_GUARD_SLOTS

(* The guards in use.                                                      *)
Used == {g \in CPUs \X Slots : g[2] \in hga_mask[g[1]]}

(* Slots that are not handed out are clear; a CPU acquires a slot it has.  *)
Readers ==
    /\ \A c \in CPUs : \A s \in Slots \ hga_mask[c] : hg_val[c][s] = NULL
    /\ \A c \in CPUs : rpc[c] # "idle" => rslot[c] \in hga_mask[c]
    /\ \A c \in CPUs : rpc[c] = "reload" => hg_val[c][rslot[c]] = rval[c]
    /\ GuardsInUse <= MaxGuards

(* A value in use by the pointer or by a writer is live, and has one user. *)
Owned ==
    /\ pointer # NULL => vstate[pointer] = "live"
    /\ \A w \in Writers : wpc[w] # "idle" =>
          wold[w] \in Values /\ vstate[wold[w]] = "live" /\ wold[w] # pointer
    /\ \A w, u \in Writers :
          wpc[w] # "idle" /\ wpc[u] # "idle" /\ wold[w] = wold[u] => w = u

(* The members of Recorded, by bucket and place.                           *)
Listed(b) ==
    \/ \E c \in CPUs : hga_bucket[c] = b
    \/ b \in Range(dqueue) \/ b \in Range(dbatch)
    \/ b \in Range(pending) \/ b \in Range(head)
Noted(b, i) ==
    \/ Listed(b) /\ due(b) <= i /\ i <= hb_count[b]
    \/ b = partial /\ i <= pos
Entries == 1 .. hazard_bucket_count

(* Each retired value is in one record, and no other value is.             *)
Exact ==
    /\ \A b \in Buckets, i \in Entries : Noted(b, i) =>
          hb_recs[b][i] \in Values /\ vstate[hb_recs[b][i]] = "retired"
    /\ \A b, c \in Buckets, i, j \in Entries :
          Noted(b, i) /\ Noted(c, j) /\ hb_recs[b][i] = hb_recs[c][j] => b = c /\ i = j
    /\ \A v \in Values : vstate[v] = "retired" =>
          \E b \in Buckets, i \in Entries : Noted(b, i) /\ hb_recs[b][i] = v

(* The records that have been kept are of values that the scan found.      *)
Kept == \A i \in 1 .. pos : hb_recs[partial][i] \in Range(array)

(* The values that this reclaim decides about.                             *)
Chosen ==
    {v \in Values : \E b \in Buckets, i \in Entries :
        Noted(b, i) /\ (b \in Range(head) \/ b = partial) /\ hb_recs[b][i] = v}

(* The guards that the scan has still to load and that hold, or are about  *)
(* to be set to, one of these values.                                      *)
Unscanned(c, s) == dpc = "scan" /\ (c > cpu \/ (c = cpu /\ s >= idx))
Threats ==
    {g \in CPUs \X Slots :
        /\ g[2] \in hga_mask[g[1]] /\ Unscanned(g[1], g[2])
        /\ \/ hg_val[g[1]][g[2]] \in Chosen
           \/ rslot[g[1]] = g[2] /\ rpc[g[1]] \in {"set", "again"} /\ rval[g[1]] \in Chosen}

(* The scan finds no more of these values than there are guards.           *)
Found == Chosen \cap Range(array)
Bounded ==
    /\ Cardinality(Found) + Cardinality(Threats) <= MaxGuards
    /\ Cardinality(Found) + Cardinality(Threats) <= NCPU * HAZARD_GUARD_SLOTS

(* The inductive invariant.                                                *)
IInv ==
    /\ TypeOK /\ (\E place : Placed(place)) /\ Once /\ Counted /\ Phases
    /\ Owned /\ Exact /\ Kept /\ Readers /\ Bounded

(* A guard that protects one of these values.                              *)
Acquiring(c, s) == rpc[c] \in {"reload", "again"} /\ s = rslot[c]
Pins(c, s) == s \in hga_mask[c] /\ ~ Acquiring(c, s) /\ hg_val[c][s] \in Chosen

(* The scan finds it: it is in hbfs_array once its slot has been loaded.   *)
ScanFindsGuards ==
    \A c \in CPUs, s \in Slots : Pins(c, s) =>
        Unscanned(c, s) \/ hg_val[c][s] \in Range(array)

(* When it is the only guard, the scan finds nothing else and the search   *)
(* for its value begins with the one entry.                                *)
FoundAlone ==
    \A c \in CPUs, s \in Slots : Pins(c, s) =>
        /\ Unscanned(c, s) => array = <<>>
        /\ ~ Unscanned(c, s) => array = <<hg_val[c][s]>>
        /\ filtering(hg_val[c][s]) => lo = 0 /\ hi = 1

(* The value of a guard that has been acquired is not free.                *)
Alive ==
    \A c \in CPUs, s \in Slots :
        s \in hga_mask[c] /\ ~ Acquiring(c, s) /\ hg_val[c][s] # NULL =>
            vstate[hg_val[c][s]] # "free"

(* A step that leaves every record as it was.                              *)
NotesSame ==
    \A b \in Buckets, i \in Entries :
        /\ Noted(b, i)' <=> Noted(b, i)
        /\ Noted(b, i) => hb_recs'[b][i] = hb_recs[b][i]

-----------------------------------------------------------------------------
(* What the constants are.                                                 *)
LEMMA Constants ==
    /\ NULL \notin Buckets /\ NULL \notin Values
    /\ hazard_bucket_count \in Nat /\ hazard_bucket_count # 0
    /\ NCPU \in Nat /\ HAZARD_GUARD_SLOTS \in Nat /\ MaxGuards \in Nat
    /\ 1 \in CPUs /\ 1 \in Slots /\ CPUs \subseteq Nat /\ Slots \subseteq Nat
BY HazardAssumption DEF NULL, Buckets, Values, CPUs, Slots

(* A bucket without records is a bucket.                                   *)
LEMMA NoRecordsIs ==
    NoRecords \in [1 .. hazard_bucket_count -> Values \union {NULL}]
BY DEF NoRecords

(* Readers keep the types.                                                 *)
LEMMA TypeReaders ==
    ASSUME TypeOK, NEW c \in CPUs, NEW s \in Slots, NEW n \in Slots,
           \/ hazard_guard_get(c, s, n) \/ hazard_guard_put(c, s, n)
           \/ hazard_guard_acquire(c, s) \/ hazard_guard_set(c)
           \/ hazard_guard_acquire_loop(c)
    PROVE  TypeOK'
<1> USE DEF TypeOK, reader, writer, bucket, drain, filter
<1>1. CASE hazard_guard_get(c, s, n)
  BY <1>1 DEF hazard_guard_get
<1>2. CASE hazard_guard_put(c, s, n)
  BY <1>2 DEF hazard_guard_put
<1>3. CASE hazard_guard_acquire(c, s)
  BY <1>3 DEF hazard_guard_acquire
<1>4. CASE hazard_guard_set(c)
  BY <1>4 DEF hazard_guard_set
<1>5. CASE hazard_guard_acquire_loop(c)
  BY <1>5 DEF hazard_guard_acquire_loop
<1> QED
  BY <1>1, <1>2, <1>3, <1>4, <1>5

(* Stores, and retirements that find no bucket, keep the types.            *)
LEMMA TypeWriters ==
    ASSUME TypeOK, NEW w \in Writers, NEW c \in CPUs, NEW v \in Values \union {NULL},
           \/ hazard_ptr_serialized_store(w, v)
           \/ retire_nobucket(w, c) \/ retire_alloc(w)
    PROVE  TypeOK'
<1> USE DEF TypeOK, reader, writer, bucket, drain, filter
<1>1. CASE hazard_ptr_serialized_store(w, v)
  BY <1>1 DEF hazard_ptr_serialized_store
<1>2. CASE retire_nobucket(w, c)
  BY <1>2 DEF retire_nobucket
<1>3. CASE retire_alloc(w)
  BY <1>3 DEF retire_alloc
<1> QED
  BY <1>1, <1>2, <1>3

(* An entry moves to a lower place.                                        *)
LEMMA InsertedKeeps ==
    ASSUME NEW a \in Seq(Values), NEW m \in 1 .. Len(a), NEW l \in 1 .. m
    PROVE  /\ inserted(a, l, m) \in Seq(Values)
           /\ Len(inserted(a, l, m)) = Len(a)
           /\ Range(inserted(a, l, m)) = Range(a)
<1> DEFINE z == inserted(a, l, m)
<1>1. /\ Len(a) \in Nat /\ DOMAIN a = 1 .. Len(a)
      /\ \A j \in 1 .. Len(a) : a[j] \in Values
  OBVIOUS
<1>2. ASSUME NEW i \in 1 .. Len(a) PROVE \E j \in 1 .. Len(a) : z[i] = a[j]
  <2>1. CASE i = l
    BY <2>1 DEF inserted
  <2>2. CASE i # l /\ i \in l + 1 .. m
    <3>1. i - 1 \in 1 .. Len(a)
      BY <1>1, <2>2
    <3> QED
      BY <2>2, <3>1 DEF inserted
  <2>3. CASE i # l /\ i \notin l + 1 .. m
    BY <2>3 DEF inserted
  <2> QED
    BY <2>1, <2>2, <2>3
<1>3. DOMAIN z = 1 .. Len(a) /\ z = [i \in DOMAIN z |-> z[i]]
  BY DEF inserted
<1> HIDE DEF z
<1>4. z \in [1 .. Len(a) -> Values]
  BY <1>1, <1>2, <1>3
<1>5. z \in Seq(Values) /\ Len(z) = Len(a)
  BY <1>1, <1>4
<1>6. Range(z) \subseteq Range(a)
  BY <1>1, <1>2, <1>3 DEF Range
<1>7. Range(a) \subseteq Range(z)
  <2>1. ASSUME NEW i \in 1 .. Len(a) PROVE \E j \in 1 .. Len(a) : a[i] = z[j]
    <3>1. CASE i = m
      BY <3>1 DEF z, inserted
    <3>2. CASE i \in l .. m - 1
      <4>1. i + 1 \in 1 .. Len(a) /\ i + 1 # l /\ i + 1 \in l + 1 .. m /\ i + 1 - 1 = i
        BY <1>1, <3>2
      <4> QED
        BY <4>1 DEF z, inserted
    <3>3. CASE i # m /\ i \notin l .. m - 1
      <4>1. i # l /\ i \notin l + 1 .. m
        BY <1>1, <3>3
      <4> QED
        BY <4>1 DEF z, inserted
    <3> QED
      BY <3>1, <3>2, <3>3
  <2> QED
    BY <1>1, <1>3, <2>1 DEF Range
<1> QED
  BY <1>5, <1>6, <1>7 DEF z

(* The steps of the drain up to the sort keep the types.                   *)
LEMMA TypeDrain ==
    ASSUME TypeOK, Phases,
           \/ dequeue_batch \/ hazard_deallocate_queue_invoke
           \/ hazard_scan_and_reclaim \/ scan_guard \/ qsort
    PROVE  TypeOK'
<1> USE DEF TypeOK, reader, writer, bucket, drain, filter
<1>1. CASE dequeue_batch
  BY <1>1 DEF dequeue_batch
<1>2. CASE hazard_deallocate_queue_invoke
  BY <1>2 DEF hazard_deallocate_queue_invoke
<1>3. CASE hazard_scan_and_reclaim
  BY <1>3, Constants DEF hazard_scan_and_reclaim, Phases, Busy
<1>4. CASE scan_guard
  <2>1. hg_val[cpu][idx] \in Values \union {NULL} /\ idx \in Nat
    BY <1>4 DEF scan_guard, Phases
  <2>2. array' \in Seq(Values) /\ Len(array') \in Nat
    BY <1>4, <2>1 DEF scan_guard
  <2>3. cpu' \in CPUs /\ idx' \in Nat \ {0}
    BY <1>4, <2>1, Constants DEF scan_guard, CPUs
  <2>4. dpc' \in {"scan", "sort"} /\ lo = 0 /\ hi = 0
    BY <1>4 DEF scan_guard, Phases
  <2> QED
    BY <1>4, <2>2, <2>3, <2>4 DEF scan_guard
<1>5. CASE qsort
  <2>1. CASE idx > Len(array)
    BY <1>5, <2>1 DEF qsort, search
  <2>2. CASE ~ (idx > Len(array))
    <3>1. idx \in 1 .. Len(array)
      BY <2>2
    <3>2. array' \in Seq(Values) /\ Len(array') = Len(array)
      BY <1>5, <2>2, <3>1, InsertedKeeps DEF qsort
    <3>3. Len(array) \in Nat /\ dpc' = "sort" /\ idx' \in Nat \ {0}
      BY <1>5, <2>2 DEF qsort
    <3> QED
      BY <1>5, <2>2, <3>2, <3>3 DEF qsort
  <2> QED
    BY <2>1, <2>2
<1> QED
  BY <1>1, <1>2, <1>3, <1>4, <1>5

(* The middle of two bounds lies between them.                             *)
LEMMA Half ==
    ASSUME NEW l \in Nat, NEW r \in Nat, l < r
    PROVE  (l + r) \div 2 \in Nat /\ l <= (l + r) \div 2 /\ (l + r) \div 2 < r
OBVIOUS

(* What the filter works on.                                               *)
LEMMA FilterFacts ==
    ASSUME TypeOK, Phases, dpc = "filter"
    PROVE  /\ partial \in Buckets /\ pos \in Nat /\ pos + 1 \in 1 .. hazard_bucket_count
           /\ head # <<>> => /\ Head(head) \in Buckets /\ Tail(head) \in Seq(Buckets)
                             /\ hb_count[Head(head)] \in 0 .. hazard_bucket_count
           /\ idx \in Nat /\ idx + 1 \in Nat \ {0}
           /\ Len(array) \in Nat
BY Constants DEF TypeOK, Phases, Busy

(* The steps of the filter keep the types: no record is written beyond the *)
(* end of the partial bucket, and the search stays within the array.       *)
LEMMA TypeFilter ==
    ASSUME TypeOK, Phases, NEW v \in Values \union {NULL},
           \/ hazard_bsearch(v) \/ filter_destroy(v) \/ filter_keep(v)
           \/ hazard_filter_bucket \/ hazard_filter_finish
    PROVE  TypeOK'
<1> USE DEF reader, writer, bucket, drain, filter
<1> DEFINE Recs == [1 .. hazard_bucket_count -> Values \union {NULL}]
<1>t. /\ hb_recs \in [Buckets -> Recs] /\ hb_count \in [Buckets -> 0 .. hazard_bucket_count]
      /\ bfree \subseteq Buckets /\ pending \in Seq(Buckets) /\ v \in Values \union {NULL}
      /\ 0 \in 0 .. hazard_bucket_count - 1 /\ 0 \in 0 .. hazard_bucket_count
      /\ NoRecords \in Recs
  BY Constants, NoRecordsIs DEF TypeOK
<1>f. dpc = "filter"
  BY DEF hazard_bsearch, filter_destroy, filter_keep, hazard_filter_bucket,
         hazard_filter_finish, filtering
<1>g. /\ partial \in Buckets /\ pos \in Nat /\ pos + 1 \in 1 .. hazard_bucket_count
      /\ head # <<>> => /\ Head(head) \in Buckets /\ Tail(head) \in Seq(Buckets)
                        /\ hb_count[Head(head)] \in 0 .. hazard_bucket_count
      /\ idx \in Nat /\ idx + 1 \in Nat \ {0}
      /\ Len(array) \in Nat
  BY <1>f, FilterFacts
<1>1. CASE hazard_bsearch(v)
  <2>1. lo \in Nat /\ hi \in Nat /\ lo < hi /\ hi <= Len(array) /\ Len(array) \in Nat
    BY <1>1 DEF hazard_bsearch, TypeOK
  <2>2. lo' \in 0 .. Len(array) /\ hi' \in 0 .. Len(array)
    BY <1>1, <2>1, Half DEF hazard_bsearch
  <2> QED
    BY <1>1, <2>2 DEF hazard_bsearch, TypeOK
<1>2. CASE filter_destroy(v)
  <2>1. vstate' \in [Values -> {"free", "live", "retired"}]
    BY <1>2 DEF filter_destroy, TypeOK
  <2> QED
    BY <1>2, <1>g, <2>1 DEF filter_destroy, search, TypeOK
<1>3. CASE filter_keep(v)
  <2>1. head # <<>>
    BY <1>3 DEF filter_keep, filtering
  <2>2. hb_recs' \in [Buckets -> Recs]
    BY <1>3, <1>t, <1>g DEF filter_keep
  <2>3. hb_count' \in [Buckets -> 0 .. hazard_bucket_count]
    <3> pos + 1 \in 0 .. hazard_bucket_count
      BY <1>g, Constants
    <3> QED
      BY <1>3, <1>t, <1>g DEF filter_keep
  <2>4. pending' \in Seq(Buckets) /\ partial' \in Buckets
    <3> Append(pending, partial) \in Seq(Buckets)
      BY <1>t, <1>g
    <3> QED
      BY <1>3, <1>t, <1>g, <2>1 DEF filter_keep
  <2>5. pos' \in 0 .. hazard_bucket_count - 1
    BY <1>3, <1>t, <1>g, Constants DEF filter_keep
  <2>6. lo' \in 0 .. Len(array) /\ hi' \in 0 .. Len(array) /\ idx' \in Nat \ {0}
    BY <1>3, <1>g DEF filter_keep, search
  <2> QED
    BY <1>3, <2>2, <2>3, <2>4, <2>5, <2>6 DEF filter_keep, TypeOK
<1>4. CASE hazard_filter_bucket
  <2>1. head # <<>>
    BY <1>4 DEF hazard_filter_bucket
  <2>2. hb_recs' \in [Buckets -> Recs]
    BY <1>4, <1>t, <1>g, <2>1 DEF hazard_filter_bucket
  <2>3. hb_count' \in [Buckets -> 0 .. hazard_bucket_count]
    BY <1>4, <1>t, <1>g, <2>1 DEF hazard_filter_bucket
  <2>4. bfree' \subseteq Buckets /\ head' \in Seq(Buckets)
    BY <1>4, <1>t, <1>g, <2>1 DEF hazard_filter_bucket
  <2>5. lo' \in 0 .. Len(array) /\ hi' \in 0 .. Len(array) /\ idx' \in Nat \ {0}
    BY <1>4, <1>g DEF hazard_filter_bucket, search
  <2> QED
    BY <1>4, <2>2, <2>3, <2>4, <2>5 DEF hazard_filter_bucket, TypeOK
<1>5. CASE hazard_filter_finish
  <2>1. hb_recs' \in [Buckets -> Recs]
    <3>1. hb_recs[partial] \in Recs
      BY <1>t, <1>g
    <3>2. [i \in DOMAIN hb_recs[partial] |->
              IF i <= pos THEN hb_recs[partial][i] ELSE NULL] \in Recs
      BY <3>1
    <3> QED
      BY <1>5, <1>t, <1>g, <3>2 DEF hazard_filter_finish
  <2>2. hb_count' \in [Buckets -> 0 .. hazard_bucket_count]
    <3> pos \in 0 .. hazard_bucket_count
      BY <1>g, Constants
    <3> QED
      BY <1>5, <1>t, <1>g DEF hazard_filter_finish
  <2>3. bfree' \subseteq Buckets
    BY <1>5, <1>t, <1>g DEF hazard_filter_finish
  <2>4. pending' \in Seq(Buckets)
    <3> Append(pending, partial) \in Seq(Buckets)
      BY <1>t, <1>g
    <3> QED
      BY <1>5, <1>t DEF hazard_filter_finish
  <2>5. /\ array' = <<>> /\ lo' = 0 /\ hi' = 0 /\ idx' = 1 /\ dpc' = "idle"
        /\ partial' = NULL /\ pos' = 0
    BY <1>5 DEF hazard_filter_finish
  <2>6. array' \in Seq(Values) /\ Len(array') = 0
    BY <2>5
  <2>7. /\ lo' \in 0 .. Len(array') /\ hi' \in 0 .. Len(array')
        /\ pos' \in 0 .. hazard_bucket_count - 1 /\ idx' \in Nat \ {0}
        /\ partial' \in Buckets \union {NULL}
    BY <1>t, <2>5, <2>6
  <2> QED
    BY <1>5, <2>1, <2>2, <2>3, <2>4, <2>5, <2>6, <2>7 DEF hazard_filter_finish, TypeOK
<1> QED
  BY <1>1, <1>2, <1>3, <1>4, <1>5

(* The bucket that a value is recorded in, the free ones that are left     *)
(* and the one that the CPU then gets: what hazard_retire chooses.         *)
Choice(place, w, c, b, free, spare, new) ==
    /\ b \in Buckets /\ hb_count[b] < hazard_bucket_count
    /\ free \subseteq bfree /\ b \notin free /\ bfree \subseteq free \union {b}
    /\ new \in free \union {NULL}
    /\ spare = {wfree[w]} \ {NULL, b}
    /\ hga_bucket[c] \in {b, NULL}
    /\ hga_bucket[c] = b \/ wfree[w] = b \/ b \in bfree

(* The three ways in which hazard_retire finds its bucket are choices: the *)
(* bucket has room and belongs to the CPU, to the thread or to nobody.     *)
LEMMA RetireChoice ==
    ASSUME TypeOK, NEW place, Placed(place), Once, Counted,
           NEW w \in Writers, NEW c \in CPUs, hazard_retire(w, c)
    PROVE  /\ wpc[w] = "retire"
           /\ \E b \in Buckets, large \in BOOLEAN, new \in Buckets \union {NULL},
                 free, spare \in SUBSET Buckets :
                 /\ Choice(place, w, c, b, free, spare, new)
                 /\ retire_record(w, c, b, free, spare, large, new)
<1>1. PICK b \in Buckets, large \in BOOLEAN, new \in Buckets \union {NULL} :
          \/ /\ hga_bucket[c] = b
             /\ retire_record(w, c, b, bfree, {wfree[w]} \ {NULL}, large, new)
          \/ /\ hga_bucket[c] = NULL /\ wfree[w] = b
             /\ retire_record(w, c, b, bfree, {}, large, new)
          \/ /\ hga_bucket[c] = NULL /\ wfree[w] = NULL
             /\ hazard_bucket_alloc(b, bfree)
             /\ retire_record(w, c, b, bfree \ {b}, {}, large, new)
  BY DEF hazard_retire
<1>2. ASSUME NEW free \in SUBSET Buckets, NEW spare,
             retire_record(w, c, b, free, spare, large, new)
      PROVE  new \in free \union {NULL}
  BY <1>2 DEF retire_record, hazard_bucket_alloc
<1>3. CASE /\ hga_bucket[c] = b
           /\ retire_record(w, c, b, bfree, {wfree[w]} \ {NULL}, large, new)
  <2>1. /\ bfree \in SUBSET Buckets /\ {wfree[w]} \ {NULL} \in SUBSET Buckets
        /\ {wfree[w]} \ {NULL} = {wfree[w]} \ {NULL, b}
        /\ b \notin bfree /\ hb_count[b] < hazard_bucket_count
    <3>1. b # NULL /\ place[b] = "cpu" /\ hb_count[b] < hazard_bucket_count
      BY <1>3, Constants DEF Placed, Counted
    <3>2. wfree[w] # NULL => place[wfree[w]] = "writer"
      BY DEF Placed
    <3>3. b \notin bfree
      BY <3>1 DEF Placed
    <3>4. wfree[w] \in Buckets \union {NULL} /\ bfree \in SUBSET Buckets /\ wfree[w] # b
      BY <3>1, <3>2 DEF TypeOK
    <3> QED
      BY <3>1, <3>3, <3>4
  <2>2. Choice(place, w, c, b, bfree, {wfree[w]} \ {NULL}, new)
    BY <1>2, <1>3, <2>1 DEF Choice
  <2> QED
    BY <1>3, <2>1, <2>2 DEF hazard_retire
<1>4. CASE /\ hga_bucket[c] = NULL /\ wfree[w] = b
           /\ retire_record(w, c, b, bfree, {}, large, new)
  <2>1. /\ bfree \in SUBSET Buckets /\ {} \in SUBSET Buckets
        /\ {} = {wfree[w]} \ {NULL, b}
        /\ b \notin bfree /\ hb_count[b] < hazard_bucket_count
    <3>1. b # NULL /\ hb_count[b] = 0 /\ place[b] = "writer"
      BY <1>4, Constants DEF Placed, Counted
    <3> QED
      BY <1>4, <3>1, Constants DEF TypeOK, Placed
  <2>2. Choice(place, w, c, b, bfree, {}, new)
    BY <1>2, <1>4, <2>1 DEF Choice
  <2> QED
    BY <1>4, <2>1, <2>2 DEF hazard_retire
<1>5. CASE /\ hga_bucket[c] = NULL /\ wfree[w] = NULL
           /\ hazard_bucket_alloc(b, bfree)
           /\ retire_record(w, c, b, bfree \ {b}, {}, large, new)
  <2>1. /\ bfree \ {b} \in SUBSET Buckets /\ {} \in SUBSET Buckets
        /\ {} = {wfree[w]} \ {NULL, b} /\ b \in bfree
        /\ hb_count[b] < hazard_bucket_count
    BY <1>5, Constants DEF TypeOK, Counted, hazard_bucket_alloc
  <2>2. Choice(place, w, c, b, bfree \ {b}, {}, new)
    BY <1>2, <1>5, <2>1 DEF Choice
  <2> QED
    BY <1>5, <2>1, <2>2 DEF hazard_retire
<1> QED
  BY <1>1, <1>3, <1>4, <1>5

(* A retirement keeps the types: there is room for the record.             *)
LEMMA TypeRetire ==
    ASSUME TypeOK, NEW place, NEW w \in Writers, NEW c \in CPUs, NEW b \in Buckets,
           NEW large \in BOOLEAN, NEW new \in Buckets \union {NULL},
           NEW free \in SUBSET Buckets, NEW spare \in SUBSET Buckets,
           wpc[w] = "retire", wold[w] \in Values,
           Choice(place, w, c, b, free, spare, new),
           retire_record(w, c, b, free, spare, large, new)
    PROVE  TypeOK'
<1> USE DEF reader, writer, bucket, drain, filter
<1>1. /\ hb_count[b] + 1 \in 1 .. hazard_bucket_count
      /\ hb_count[b] + 1 \in 0 .. hazard_bucket_count
  BY Constants DEF TypeOK, Choice
<1>2. hb_recs' \in [Buckets -> [1 .. hazard_bucket_count -> Values \union {NULL}]]
  BY <1>1 DEF TypeOK, retire_record
<1>3. hb_count' \in [Buckets -> 0 .. hazard_bucket_count]
  BY <1>1 DEF TypeOK, retire_record
<1>4. /\ vstate' \in [Values -> {"free", "live", "retired"}]
      /\ wpc' \in [Writers -> {"idle", "retire", "alloc"}]
      /\ wold' \in [Writers -> Values \union {NULL}]
      /\ wfree' \in [Writers -> Buckets \union {NULL}]
  BY DEF TypeOK, retire_record
<1>5. hga_bucket' \in [CPUs -> Buckets \union {NULL}] /\ bfree' \subseteq Buckets
  BY DEF TypeOK, retire_record
<1>6. dqueue' \in Seq(Buckets)
  <2> Append(dqueue, b) \in Seq(Buckets) /\ dqueue \in Seq(Buckets)
    BY DEF TypeOK
  <2> QED
    BY DEF retire_record
<1> QED
  BY <1>2, <1>3, <1>4, <1>5, <1>6 DEF TypeOK, retire_record

-----------------------------------------------------------------------------
(* Sequences of buckets without duplicates.                                *)
LEMMA AppendOnce ==
    ASSUME NEW s \in Seq(Buckets), NEW b \in Buckets
    PROVE  /\ Append(s, b) \in Seq(Buckets)
           /\ Range(Append(s, b)) = Range(s) \union {b}
           /\ IsInjective(s) /\ b \notin Range(s) => IsInjective(Append(s, b))
<1>1. /\ Append(s, b) \in Seq(Buckets) /\ Len(s) \in Nat
      /\ DOMAIN s = 1 .. Len(s) /\ DOMAIN Append(s, b) = 1 .. Len(s) + 1
      /\ \A i \in 1 .. Len(s) : Append(s, b)[i] = s[i]
      /\ Append(s, b)[Len(s) + 1] = b
  OBVIOUS
<1>2. Range(Append(s, b)) = Range(s) \union {b}
  <2>1. ASSUME NEW x \in Range(Append(s, b)) PROVE x \in Range(s) \union {b}
    <3>1. PICK i \in 1 .. Len(s) + 1 : x = Append(s, b)[i]
      BY <1>1 DEF Range
    <3> QED
      BY <1>1, <3>1 DEF Range
  <2>2. ASSUME NEW x \in Range(s) PROVE x \in Range(Append(s, b))
    <3>1. PICK i \in 1 .. Len(s) : x = s[i]
      BY <1>1 DEF Range
    <3>2. i \in 1 .. Len(s) + 1 /\ x = Append(s, b)[i]
      BY <1>1, <3>1
    <3> QED
      BY <1>1, <3>2 DEF Range
  <2>3. b \in Range(Append(s, b))
    <3>1. Len(s) + 1 \in 1 .. Len(s) + 1
      BY <1>1
    <3> QED
      BY <1>1, <3>1 DEF Range
  <2> QED
    BY <2>1, <2>2, <2>3
<1>3. ASSUME IsInjective(s), b \notin Range(s) PROVE IsInjective(Append(s, b))
  <2>1. \A i \in 1 .. Len(s) : s[i] # b
    BY <1>1, <1>3 DEF Range
  <2> QED
    BY <1>1, <1>3, <2>1 DEF IsInjective
<1> QED
  BY <1>1, <1>2, <1>3

(* What remains of a sequence without repetitions.                         *)
LEMMA TailOnce ==
    ASSUME NEW s \in Seq(Buckets), s # <<>>
    PROVE  /\ Head(s) \in Buckets /\ Tail(s) \in Seq(Buckets)
           /\ Range(s) = Range(Tail(s)) \union {Head(s)}
           /\ IsInjective(s) => IsInjective(Tail(s)) /\ Head(s) \notin Range(Tail(s))
<1>1. /\ Tail(s) \in Seq(Buckets) /\ Len(s) \in Nat \ {0} /\ Head(s) \in Buckets
      /\ DOMAIN s = 1 .. Len(s) /\ DOMAIN Tail(s) = 1 .. Len(s) - 1
      /\ \A i \in 1 .. Len(s) - 1 : Tail(s)[i] = s[i + 1]
      /\ Head(s) = s[1]
  OBVIOUS
<1>2. Range(s) = Range(Tail(s)) \union {Head(s)}
  <2>1. ASSUME NEW x \in Range(s), x # Head(s) PROVE x \in Range(Tail(s))
    <3>1. PICK i \in 1 .. Len(s) : x = s[i]
      BY <1>1 DEF Range
    <3>2. i - 1 \in 1 .. Len(s) - 1 /\ x = Tail(s)[i - 1]
      BY <1>1, <2>1, <3>1
    <3> QED
      BY <1>1, <3>2 DEF Range
  <2>2. ASSUME NEW x \in Range(Tail(s)) PROVE x \in Range(s)
    <3>1. PICK i \in 1 .. Len(s) - 1 : x = Tail(s)[i]
      BY <1>1 DEF Range
    <3>2. i + 1 \in 1 .. Len(s) /\ x = s[i + 1]
      BY <1>1, <3>1
    <3> QED
      BY <1>1, <3>2 DEF Range
  <2>3. Head(s) \in Range(s)
    <3>1. 1 \in 1 .. Len(s)
      BY <1>1
    <3> QED
      BY <1>1, <3>1 DEF Range
  <2> QED
    BY <2>1, <2>2, <2>3
<1>3. ASSUME IsInjective(s) PROVE IsInjective(Tail(s)) /\ Head(s) \notin Range(Tail(s))
  <2>1. IsInjective(Tail(s))
    BY <1>1, <1>3 DEF IsInjective
  <2>2. ASSUME Head(s) \in Range(Tail(s)) PROVE FALSE
    <3>1. PICK i \in 1 .. Len(s) - 1 : Head(s) = Tail(s)[i]
      BY <1>1, <2>2 DEF Range
    <3>2. i + 1 \in 1 .. Len(s) /\ 1 \in 1 .. Len(s) /\ s[1] = s[i + 1] /\ i + 1 # 1
      BY <1>1, <3>1
    <3> QED
      BY <1>1, <1>3, <3>2 DEF IsInjective
  <2> QED
    BY <2>1, <2>2
<1> QED
  BY <1>1, <1>2, <1>3

(* Nothing is on an empty sequence.                                        *)
LEMMA EmptyOnce == Range(<<>>) = {} /\ IsInjective(<<>>)
BY DEF Range, IsInjective

(* Steps that move no bucket.                                              *)
LEMMA PlacesSame ==
    ASSUME NEW place, Placed(place), Once, Counted,
           UNCHANGED <<hga_bucket, wfree, bfree, dqueue, dbatch, pending, head,
                       partial, hb_count>>
    PROVE  Placed(place)' /\ Once' /\ Counted'
BY DEF Placed, Once, Counted

(* The allocation that blocks takes a bucket that nobody has.              *)
LEMMA PlacesAlloc ==
    ASSUME TypeOK, NEW place, Placed(place), Once, Counted,
           NEW w \in Writers, retire_alloc(w)
    PROVE  (\E p : Placed(p)') /\ Once' /\ Counted'
<1>1. PICK b \in Buckets :
          b \in bfree /\ wfree' = [wfree EXCEPT ![w] = b] /\ bfree' = bfree \ {b}
  BY DEF retire_alloc, hazard_bucket_alloc
<1>2. /\ hb_count' = hb_count /\ hga_bucket' = hga_bucket /\ dqueue' = dqueue
      /\ dbatch' = dbatch /\ pending' = pending /\ head' = head /\ partial' = partial
  BY DEF retire_alloc, drain, filter
<1> DEFINE q == [place EXCEPT ![b] = "writer"]
<1>3. \A w1 \in Writers : wfree'[w1] = IF w1 = w THEN b ELSE wfree[w1]
  BY <1>1 DEF TypeOK
<1>4. \A x \in Buckets : q[x] = IF x = b THEN "writer" ELSE place[x]
  BY DEF Placed
<1>5. place[b] = "free" /\ hb_count[b] = 0
  BY <1>1 DEF Placed, Counted
<1>6. Placed(q)'
  <2>1. q \in [Buckets -> {"free", "cpu", "writer", "dqueue", "dbatch",
                           "pending", "head", "partial"}]
    BY DEF Placed
  <2> HIDE DEF q
  <2>2. /\ \A x \in bfree' : q[x] = "free"
        /\ \A c \in CPUs : hga_bucket[c] # NULL => q[hga_bucket[c]] = "cpu"
        /\ \A u \in Writers : wfree'[u] # NULL => q[wfree'[u]] = "writer"
    BY <1>1, <1>3, <1>4, <1>5 DEF Placed, TypeOK
  <2>3. /\ \A x \in Range(dqueue) : q[x] = "dqueue"
        /\ \A x \in Range(dbatch) : q[x] = "dbatch"
        /\ \A x \in Range(pending) : q[x] = "pending"
        /\ \A x \in Range(head) : q[x] = "head"
    <3>1. /\ Range(dqueue) \subseteq Buckets /\ Range(dbatch) \subseteq Buckets
          /\ Range(pending) \subseteq Buckets /\ Range(head) \subseteq Buckets
      BY DEF TypeOK, Range
    <3> QED
      BY <1>4, <1>5, <3>1 DEF Placed
  <2>4. partial # NULL =>
          \/ q[partial] = "partial"
          \/ q[partial] = "head" /\ head # <<>> /\ partial = Head(head)
    BY <1>4, <1>5 DEF Placed, TypeOK
  <2> QED
    BY <1>2, <2>1, <2>2, <2>3, <2>4 DEF Placed
<1>7. Once'
  <2>1. \A w1 \in Writers : wfree[w1] # b
    BY <1>5, Constants DEF Placed
  <2> QED
    BY <1>2, <1>3, <2>1 DEF Once
<1>8. Counted'
  BY <1>1, <1>2, <1>3, <1>5 DEF Counted
<1> QED
  BY <1>6, <1>7, <1>8

(* A retirement leaves the bucket with the CPU or hands it to the queue;   *)
(* the CPU's new bucket and the thread's spare one are moved as well.      *)
LEMMA PlacesRetire ==
    ASSUME TypeOK, NEW place, Placed(place), Once, Counted,
           NEW w \in Writers, NEW c \in CPUs, NEW b \in Buckets,
           NEW large \in BOOLEAN, NEW new \in Buckets \union {NULL},
           NEW free \in SUBSET Buckets, NEW spare \in SUBSET Buckets,
           Choice(place, w, c, b, free, spare, new),
           retire_record(w, c, b, free, spare, large, new)
    PROVE  (\E p : Placed(p)') /\ Once' /\ Counted'
<1>0. PICK full \in BOOLEAN : full <=> hb_count[b] + 1 = hazard_bucket_count \/ large
  OBVIOUS
<1> DEFINE q == [x \in Buckets |->
                    IF x = b THEN (IF full THEN "dqueue" ELSE "cpu")
                    ELSE IF x = new THEN "cpu"
                    ELSE IF x \in spare THEN "free" ELSE place[x]]
<1>1. /\ hb_count' = [hb_count EXCEPT ![b] = @ + 1]
      /\ full => /\ hga_bucket' = [hga_bucket EXCEPT ![c] = new]
                 /\ bfree' = (free \ {new}) \union spare
                 /\ dqueue' = Append(dqueue, b)
      /\ ~ full => /\ new = NULL /\ hga_bucket' = [hga_bucket EXCEPT ![c] = b]
                   /\ bfree' = free \union spare /\ dqueue' = dqueue
      /\ wfree' = [wfree EXCEPT ![w] = NULL]
      /\ dbatch' = dbatch /\ pending' = pending /\ head' = head /\ partial' = partial
  BY <1>0 DEF retire_record, drain, filter
<1>2. /\ \A x \in CPUs :
            hga_bucket'[x] = IF x = c THEN (IF full THEN new ELSE b) ELSE hga_bucket[x]
      /\ \A x \in Writers : wfree'[x] = IF x = w THEN NULL ELSE wfree[x]
      /\ \A x \in Buckets : hb_count'[x] = IF x = b THEN hb_count[b] + 1 ELSE hb_count[x]
  BY <1>1 DEF TypeOK
<1>3. /\ hb_count[b] < hazard_bucket_count
      /\ free \subseteq bfree /\ b \notin free
      /\ new \in free \union {NULL}
      /\ \A x \in spare : x = wfree[w] /\ x # NULL /\ x # b
      /\ hga_bucket[c] \in {b, NULL}
      /\ hga_bucket[c] = b \/ wfree[w] = b \/ b \in bfree
  BY DEF Choice
<1>4. /\ NULL \notin Buckets
      /\ \A x \in bfree : place[x] = "free"
      /\ \A x \in CPUs : hga_bucket[x] \in Buckets => place[hga_bucket[x]] = "cpu"
      /\ \A x \in Writers : wfree[x] \in Buckets => place[wfree[x]] = "writer"
      /\ \A x \in CPUs : hga_bucket[x] \in Buckets \union {NULL}
      /\ \A x \in Writers : wfree[x] \in Buckets \union {NULL}
  <2>1. /\ NULL \notin Buckets
        /\ \A x \in bfree : place[x] = "free"
        /\ \A x \in CPUs : hga_bucket[x] \in Buckets => place[hga_bucket[x]] = "cpu"
        /\ \A x \in Writers : wfree[x] \in Buckets => place[wfree[x]] = "writer"
    BY Constants DEF Placed
  <2>2. /\ \A x \in CPUs : hga_bucket[x] \in Buckets \union {NULL}
        /\ \A x \in Writers : wfree[x] \in Buckets \union {NULL}
    BY DEF TypeOK
  <2> QED
    BY <2>1, <2>2
<1>5. place[b] \in {"cpu", "writer", "free"}
  BY <1>3, <1>4
<1>6. \A x \in Buckets : q[x] = IF x = b THEN (IF full THEN "dqueue" ELSE "cpu")
                                 ELSE IF x = new THEN "cpu"
                                 ELSE IF x \in spare THEN "free" ELSE place[x]
  OBVIOUS
<1>7. q \in [Buckets -> {"free", "cpu", "writer", "dqueue", "dbatch",
                         "pending", "head", "partial"}]
  BY DEF Placed
<1> HIDE DEF q
<1>8. \A x \in Buckets : place[x] \notin {"cpu", "writer", "free"} => q[x] = place[x]
  BY <1>3, <1>4, <1>5, <1>6
<1>9. /\ Range(dqueue) \subseteq Buckets /\ Range(dbatch) \subseteq Buckets
      /\ Range(pending) \subseteq Buckets /\ Range(head) \subseteq Buckets
  BY DEF TypeOK, Range
<1>10. dqueue' = dqueue \/ /\ Range(dqueue') = Range(dqueue) \union {b} /\ full
                            /\ IsInjective(dqueue')
  <2>1. b \notin Range(dqueue)
    BY <1>5 DEF Placed
  <2>2. dqueue \in Seq(Buckets) /\ IsInjective(dqueue)
    BY DEF TypeOK, Once
  <2>3. CASE full
    <3>1. dqueue' = Append(dqueue, b)
      BY <1>1, <2>3
    <3> QED
      BY <2>1, <2>2, <2>3, <3>1, AppendOnce
  <2>4. CASE ~ full
    BY <1>1, <2>4
  <2> QED
    BY <2>3, <2>4
<1>11. \A x \in bfree' : q[x] = "free" /\ x \in Buckets
  BY <1>1, <1>3, <1>4, <1>6
<1>12. \A x \in CPUs : hga_bucket'[x] # NULL => q[hga_bucket'[x]] = "cpu"
  <2>1. ASSUME NEW x \in CPUs, hga_bucket'[x] # NULL PROVE q[hga_bucket'[x]] = "cpu"
    <3>1. CASE x = c
      BY <1>1, <1>2, <1>3, <1>6, <2>1, <3>1
    <3>2. CASE x # c
      <4>1. hga_bucket[x] \in Buckets /\ hga_bucket[x] # b
        BY <1>2, <1>3, <1>4, <2>1, <3>2 DEF Once
      <4> QED
        BY <1>2, <1>3, <1>4, <1>6, <3>2, <4>1
    <3> QED
      BY <3>1, <3>2
  <2> QED
    BY <2>1
<1>13. \A x \in Writers : wfree'[x] # NULL => q[wfree'[x]] = "writer"
  <2>1. ASSUME NEW x \in Writers, wfree'[x] # NULL PROVE q[wfree'[x]] = "writer"
    <3>1. x # w /\ wfree'[x] = wfree[x] /\ wfree[x] \in Buckets
      BY <1>2, <1>4, <2>1
    <3>2. wfree[x] # wfree[w]
      BY <2>1, <3>1 DEF Once
    <3> QED
      BY <1>3, <1>4, <1>6, <3>1, <3>2
  <2> QED
    BY <2>1
<1>14. \A x \in Range(dqueue') : q[x] = "dqueue"
  BY <1>6, <1>8, <1>9, <1>10 DEF Placed
<1>15. /\ \A x \in Range(dbatch) : q[x] = "dbatch"
       /\ \A x \in Range(pending) : q[x] = "pending"
       /\ \A x \in Range(head) : q[x] = "head"
  BY <1>8, <1>9 DEF Placed
<1>16. partial # NULL =>
         \/ q[partial] = "partial"
         \/ q[partial] = "head" /\ head # <<>> /\ partial = Head(head)
  BY <1>8 DEF Placed, TypeOK
<1>17. Placed(q)'
  BY <1>1, <1>7, <1>11, <1>12, <1>13, <1>14, <1>15, <1>16 DEF Placed
<1>18. Once'
  <2>1. \A x, y \in CPUs : hga_bucket'[x] # NULL /\ hga_bucket'[x] = hga_bucket'[y] => x = y
    <3>1. \A x \in CPUs : x # c => hga_bucket[x] # b
      BY <1>3, <1>4 DEF Once
    <3>2. \A x \in CPUs : hga_bucket[x] # NULL => hga_bucket[x] # new
      BY <1>3, <1>4
    <3> QED
      BY <1>2, <3>1, <3>2 DEF Once
  <2>2. \A x, y \in Writers : wfree'[x] # NULL /\ wfree'[x] = wfree'[y] => x = y
    BY <1>2 DEF Once
  <2> QED
    BY <1>1, <1>10, <2>1, <2>2 DEF Once
<1>19. Counted'
  <2>1. \A x \in bfree' : hb_count'[x] = 0
    BY <1>1, <1>2, <1>3, <1>11 DEF Counted
  <2>2. \A x \in CPUs : hga_bucket'[x] # NULL => hb_count'[hga_bucket'[x]] < hazard_bucket_count
    <3>1. ASSUME NEW x \in CPUs, hga_bucket'[x] # NULL
          PROVE  hb_count'[hga_bucket'[x]] < hazard_bucket_count
      <4>1. CASE x = c /\ full
        BY <1>2, <1>3, <3>1, <4>1, Constants DEF Counted
      <4>2. CASE x = c /\ ~ full
        <5>1. hga_bucket'[x] = b /\ hb_count'[b] = hb_count[b] + 1
          BY <1>2, <4>2
        <5>2. hb_count[b] + 1 # hazard_bucket_count /\ hb_count[b] \in Nat
          BY <1>0, <4>2 DEF TypeOK
        <5> QED
          BY <1>3, <5>1, <5>2, Constants
      <4>3. CASE x # c
        <5>1. hga_bucket[x] \in Buckets /\ hga_bucket[x] # b /\ hga_bucket'[x] = hga_bucket[x]
          BY <1>2, <1>3, <1>4, <3>1, <4>3 DEF Once
        <5> QED
          BY <1>2, <3>1, <5>1 DEF Counted
      <4> QED
        BY <4>1, <4>2, <4>3
    <3> QED
      BY <3>1
  <2>3. \A x \in Writers : wfree'[x] # NULL => hb_count'[wfree'[x]] = 0
    <3>1. ASSUME NEW x \in Writers, wfree'[x] # NULL PROVE hb_count'[wfree'[x]] = 0
      <4>1. x # w /\ wfree'[x] = wfree[x] /\ wfree[x] \in Buckets
        BY <1>2, <1>4, <3>1
      <4>2. wfree[x] # b
        BY <1>3, <1>4, <3>1, <4>1 DEF Once
      <4> QED
        BY <1>2, <4>1, <4>2, Constants DEF Counted
    <3> QED
      BY <3>1
  <2> QED
    BY <2>1, <2>2, <2>3 DEF Counted
<1> QED
  BY <1>17, <1>18, <1>19

(* The drain moves buckets from one list to the next.                      *)
LEMMA PlacesDrain ==
    ASSUME TypeOK, NEW place, Placed(place), Once, Counted, Phases,
           \/ dequeue_batch \/ hazard_deallocate_queue_invoke
           \/ hazard_scan_and_reclaim
    PROVE  (\E p : Placed(p)') /\ Once' /\ Counted'
<1> USE DEF reader, writer, bucket, drain, filter
<1>r. /\ Range(dqueue) \subseteq Buckets /\ Range(dbatch) \subseteq Buckets
      /\ Range(pending) \subseteq Buckets /\ Range(head) \subseteq Buckets
  BY DEF TypeOK, Range
<1>p. place \in [Buckets -> {"free", "cpu", "writer", "dqueue", "dbatch",
                             "pending", "head", "partial"}]
  BY DEF Placed
<1>1. CASE dequeue_batch
  <2> DEFINE q == [x \in Buckets |-> IF place[x] = "dqueue" THEN "dbatch" ELSE place[x]]
  <2>1. /\ q \in [Buckets -> {"free", "cpu", "writer", "dqueue", "dbatch",
                              "pending", "head", "partial"}]
        /\ \A x \in Buckets : q[x] = IF place[x] = "dqueue" THEN "dbatch" ELSE place[x]
    BY <1>p
  <2> HIDE DEF q
  <2>2. /\ dbatch' = dqueue /\ dqueue' = <<>>
        /\ UNCHANGED <<hga_bucket, wfree, bfree, pending, head, partial, hb_count>>
    BY <1>1 DEF dequeue_batch
  <2>3. Placed(q)'
    BY <1>r, <2>1, <2>2, EmptyOnce DEF Placed, TypeOK
  <2>4. Once' /\ Counted'
    BY <2>2, EmptyOnce DEF Once, Counted
  <2> QED
    BY <2>3, <2>4
<1>2. CASE hazard_deallocate_queue_invoke
  <2>b. PICK b : b = Head(dbatch)
    OBVIOUS
  <2> DEFINE q == [place EXCEPT ![b] = "pending"]
  <2>0. dbatch \in Seq(Buckets) /\ dbatch # <<>> /\ pending \in Seq(Buckets)
    BY <1>2 DEF hazard_deallocate_queue_invoke, TypeOK
  <2>1. /\ b \in Buckets /\ Range(dbatch) = Range(Tail(dbatch)) \union {b}
        /\ b \notin Range(Tail(dbatch)) /\ IsInjective(Tail(dbatch))
    BY <2>0, <2>b, TailOnce DEF Once
  <2>2. place[b] = "dbatch"
    BY <2>1 DEF Placed
  <2>3. /\ q \in [Buckets -> {"free", "cpu", "writer", "dqueue", "dbatch",
                              "pending", "head", "partial"}]
        /\ \A x \in Buckets : q[x] = IF x = b THEN "pending" ELSE place[x]
    BY <1>p, <2>1
  <2>4. Range(Append(pending, b)) = Range(pending) \union {b} /\ IsInjective(Append(pending, b))
    <3>1. b \notin Range(pending)
      BY <2>2 DEF Placed
    <3> QED
      BY <2>0, <2>1, <3>1, AppendOnce DEF Once
  <2>5. /\ dbatch' = Tail(dbatch) /\ pending' = Append(pending, b)
        /\ UNCHANGED <<hga_bucket, wfree, bfree, dqueue, head, partial, hb_count>>
    BY <1>2, <2>b DEF hazard_deallocate_queue_invoke
  <2> HIDE DEF q
  <2>6. Placed(q)'
    <3>1. /\ \A x \in Buckets : x # b => q[x] = place[x]
          /\ q[b] = "pending" /\ place[b] = "dbatch" /\ NULL \notin Buckets
      BY <2>1, <2>2, <2>3, Constants
    <3>2. /\ \A x \in bfree : q[x] = "free"
          /\ \A x \in CPUs : hga_bucket[x] # NULL => q[hga_bucket[x]] = "cpu"
          /\ \A x \in Writers : wfree[x] # NULL => q[wfree[x]] = "writer"
      BY <3>1 DEF Placed, TypeOK
    <3>3. /\ \A x \in Range(dqueue) : q[x] = "dqueue"
          /\ \A x \in Range(Tail(dbatch)) : q[x] = "dbatch"
          /\ \A x \in Range(pending) \union {b} : q[x] = "pending"
          /\ \A x \in Range(head) : q[x] = "head"
      BY <1>r, <2>1, <3>1 DEF Placed
    <3>4. partial # NULL =>
            \/ q[partial] = "partial"
            \/ q[partial] = "head" /\ head # <<>> /\ partial = Head(head)
      BY <3>1 DEF Placed, TypeOK
    <3> QED
      BY <2>3, <2>4, <2>5, <3>2, <3>3, <3>4 DEF Placed
  <2>7. Once' /\ Counted'
    BY <2>1, <2>4, <2>5 DEF Once, Counted
  <2> QED
    BY <2>6, <2>7
<1>3. CASE hazard_scan_and_reclaim
  <2> DEFINE q == [x \in Buckets |-> IF place[x] = "pending" THEN "head" ELSE place[x]]
  <2>1. /\ q \in [Buckets -> {"free", "cpu", "writer", "dqueue", "dbatch",
                              "pending", "head", "partial"}]
        /\ \A x \in Buckets : q[x] = IF place[x] = "pending" THEN "head" ELSE place[x]
    BY <1>p
  <2> HIDE DEF q
  <2>2. /\ head' = pending /\ pending' = <<>> /\ partial' = Head(pending)
        /\ pending # <<>> /\ pending \in Seq(Buckets)
        /\ UNCHANGED <<hga_bucket, wfree, bfree, dqueue, dbatch, hb_count>>
    BY <1>3 DEF hazard_scan_and_reclaim, TypeOK
  <2>3. Head(pending) \in Range(pending)
    BY <2>2, TailOnce
  <2>4. Placed(q)'
    BY <1>r, <2>1, <2>2, <2>3, EmptyOnce DEF Placed, TypeOK
  <2>5. Once' /\ Counted'
    BY <2>2, EmptyOnce DEF Once, Counted
  <2> QED
    BY <2>4, <2>5
<1> QED
  BY <1>1, <1>2, <1>3

(* The filter gives back the buckets that it has emptied.                  *)
LEMMA PlacesFilter ==
    ASSUME TypeOK, NEW place, Placed(place), Once, Counted, Phases,
           hazard_filter_bucket \/ hazard_filter_finish
    PROVE  (\E p : Placed(p)') /\ Once' /\ Counted'
<1> USE DEF reader, writer, bucket, drain, filter
<1>r. /\ Range(dqueue) \subseteq Buckets /\ Range(dbatch) \subseteq Buckets
      /\ Range(pending) \subseteq Buckets /\ Range(head) \subseteq Buckets
      /\ partial \in Buckets \union {NULL} /\ bfree \subseteq Buckets
      /\ \A x \in CPUs : hga_bucket[x] \in Buckets \union {NULL}
      /\ \A x \in Writers : wfree[x] \in Buckets \union {NULL}
  BY DEF TypeOK, Range
<1>p. place \in [Buckets -> {"free", "cpu", "writer", "dqueue", "dbatch",
                             "pending", "head", "partial"}]
  BY DEF Placed
<1>f. dpc = "filter" /\ partial \in Buckets /\ pending = <<>>
  <2>1. dpc = "filter"
    BY DEF hazard_filter_bucket, hazard_filter_finish
  <2> QED
    BY <2>1, <1>r DEF Phases, Busy
<1>1. CASE hazard_filter_bucket
  <2>b. PICK b, to : b = Head(head) /\ to = IF b = partial THEN "partial" ELSE "free"
    OBVIOUS
  <2> DEFINE q == [place EXCEPT ![b] = to]
  <2>0. head \in Seq(Buckets) /\ head # <<>>
    BY <1>1 DEF hazard_filter_bucket, TypeOK
  <2>1. /\ b \in Buckets /\ Range(head) = Range(Tail(head)) \union {b}
        /\ b \notin Range(Tail(head)) /\ IsInjective(Tail(head))
    BY <2>0, <2>b, TailOnce DEF Once
  <2>2. /\ \A x \in Buckets : x # b => q[x] = place[x]
        /\ q[b] = to /\ to \in {"free", "partial"} /\ place[b] = "head" /\ NULL \notin Buckets
        /\ q \in [Buckets -> {"free", "cpu", "writer", "dqueue", "dbatch",
                              "pending", "head", "partial"}]
    BY <1>p, <2>b, <2>1, Constants DEF Placed
  <2> HIDE DEF q
  <2>3. /\ head' = Tail(head)
        /\ b = partial => UNCHANGED <<bfree, hb_count>>
        /\ b # partial => /\ bfree' = bfree \union {b}
                         /\ hb_count' = [hb_count EXCEPT ![b] = 0]
        /\ UNCHANGED <<hga_bucket, wfree, dqueue, dbatch, pending, partial>>
    BY <1>1, <2>b DEF hazard_filter_bucket
  <2>4. Placed(q)'
    <3>1. \A x \in bfree' : q[x] = "free"
      <4>1. \A x \in bfree : x # b /\ place[x] = "free"
        BY <2>2 DEF Placed
      <4>2. CASE b = partial
        BY <1>r, <2>2, <2>3, <4>1, <4>2
      <4>3. CASE b # partial
        BY <1>r, <2>b, <2>2, <2>3, <4>1, <4>3
      <4> QED
        BY <4>2, <4>3
    <3>2. /\ \A x \in CPUs : hga_bucket[x] # NULL => q[hga_bucket[x]] = "cpu"
          /\ \A x \in Writers : wfree[x] # NULL => q[wfree[x]] = "writer"
      BY <1>r, <2>2 DEF Placed
    <3>3. /\ \A x \in Range(dqueue) : q[x] = "dqueue"
          /\ \A x \in Range(dbatch) : q[x] = "dbatch"
          /\ \A x \in Range(pending) : q[x] = "pending"
          /\ \A x \in Range(Tail(head)) : q[x] = "head"
      BY <1>r, <2>1, <2>2 DEF Placed
    <3>4. q[partial] = "partial"
      BY <1>f, <2>b, <2>2 DEF Placed
    <3> QED
      BY <2>2, <2>3, <3>1, <3>2, <3>3, <3>4 DEF Placed
  <2>5. Once'
    BY <2>1, <2>3 DEF Once
  <2>6. Counted'
    <3>1. /\ \A x \in CPUs : hga_bucket[x] # b
          /\ \A x \in Writers : wfree[x] # b
      BY <2>1, <2>2 DEF Placed
    <3>2. \A x \in Buckets : x # b => hb_count'[x] = hb_count[x]
      BY <2>3 DEF TypeOK
    <3>3. b # partial => hb_count'[b] = 0
      BY <2>1, <2>3 DEF TypeOK
    <3>4. \A x \in bfree' : hb_count'[x] = 0
      BY <1>r, <2>3, <3>2, <3>3 DEF Counted
    <3>5. /\ \A x \in CPUs : hga_bucket[x] # NULL => hb_count'[hga_bucket[x]] < hazard_bucket_count
          /\ \A x \in Writers : wfree[x] # NULL => hb_count'[wfree[x]] = 0
      BY <1>r, <3>1, <3>2 DEF Counted
    <3> QED
      BY <2>3, <3>4, <3>5 DEF Counted
  <2> QED
    BY <2>4, <2>5, <2>6
<1>2. CASE hazard_filter_finish
  <2>b. PICK b, to : b = partial /\ to = IF pos = 0 THEN "free" ELSE "pending"
    OBVIOUS
  <2> DEFINE q == [place EXCEPT ![b] = to]
  <2>0. head = <<>> /\ b \in Buckets
    BY <1>f, <1>2, <2>b DEF hazard_filter_finish
  <2>1. place[b] = "partial"
    BY <1>f, <2>0, <2>b, Constants DEF Placed
  <2>2. /\ \A x \in Buckets : x # b => q[x] = place[x]
        /\ q[b] = to /\ to \in {"free", "pending"} /\ NULL \notin Buckets
        /\ q \in [Buckets -> {"free", "cpu", "writer", "dqueue", "dbatch",
                              "pending", "head", "partial"}]
    BY <1>p, <2>b, <2>0, Constants
  <2> HIDE DEF q
  <2>3. /\ head' = <<>> /\ partial' = NULL
        /\ pos = 0 => /\ bfree' = bfree \union {b} /\ pending' = <<>>
                      /\ hb_count' = [hb_count EXCEPT ![b] = 0]
        /\ pos # 0 => /\ bfree' = bfree /\ pending' = Append(pending, b)
                      /\ hb_count' = [hb_count EXCEPT ![b] = pos]
        /\ UNCHANGED <<hga_bucket, wfree, dqueue, dbatch>>
    BY <1>2, <1>f, <2>0, <2>b DEF hazard_filter_finish
  <2>4. pos # 0 => Range(pending') = {b} /\ IsInjective(pending')
    <3>1. pending \in Seq(Buckets)
      BY DEF TypeOK
    <3> QED
      BY <1>f, <2>0, <2>3, <3>1, AppendOnce, EmptyOnce
  <2>5. Placed(q)'
    <3>1. \A x \in bfree' : q[x] = "free"
      <4>1. \A x \in bfree : x # b /\ place[x] = "free"
        BY <2>1 DEF Placed
      <4>2. CASE pos = 0
        BY <1>r, <2>b, <2>2, <2>3, <4>1, <4>2
      <4>3. CASE pos # 0
        BY <1>r, <2>b, <2>2, <2>3, <4>1, <4>3
      <4> QED
        BY <4>2, <4>3
    <3>2. /\ \A x \in CPUs : hga_bucket[x] # NULL => q[hga_bucket[x]] = "cpu"
          /\ \A x \in Writers : wfree[x] # NULL => q[wfree[x]] = "writer"
      BY <1>r, <2>1, <2>2 DEF Placed
    <3>3. /\ \A x \in Range(dqueue) : q[x] = "dqueue"
          /\ \A x \in Range(dbatch) : q[x] = "dbatch"
      BY <1>r, <2>1, <2>2 DEF Placed
    <3>4. \A x \in Range(pending') : q[x] = "pending"
      BY <2>b, <2>2, <2>3, <2>4, EmptyOnce
    <3> QED
      BY <2>2, <2>3, <3>1, <3>2, <3>3, <3>4, EmptyOnce DEF Placed
  <2>6. Once'
    BY <2>3, <2>4, EmptyOnce DEF Once
  <2>7. Counted'
    <3>1. /\ \A x \in CPUs : hga_bucket[x] # b
          /\ \A x \in Writers : wfree[x] # b
          /\ b \notin bfree
      BY <2>0, <2>1, <2>2 DEF Placed
    <3>2. \A x \in Buckets : x # b => hb_count'[x] = hb_count[x]
      BY <2>3 DEF TypeOK
    <3>3. pos = 0 => hb_count'[b] = 0
      BY <2>0, <2>3 DEF TypeOK
    <3>4. \A x \in bfree' : hb_count'[x] = 0
      BY <1>r, <2>3, <3>1, <3>2, <3>3 DEF Counted
    <3>5. /\ \A x \in CPUs : hga_bucket[x] # NULL => hb_count'[hga_bucket[x]] < hazard_bucket_count
          /\ \A x \in Writers : wfree[x] # NULL => hb_count'[wfree[x]] = 0
      BY <1>r, <3>1, <3>2 DEF Counted
    <3> QED
      BY <2>3, <3>4, <3>5 DEF Counted
  <2> QED
    BY <2>5, <2>6, <2>7
<1> QED
  BY <1>1, <1>2

-----------------------------------------------------------------------------
(* The positions of the drain.                                             *)

(* Steps that leave the drain alone.                                       *)
LEMMA PhasesSame ==
    ASSUME Phases, UNCHANGED <<drain, hb_count>>
    PROVE  Phases'
BY DEF Phases, Busy, drain, filter

(* A retirement writes to no bucket of the reclaim.                        *)
LEMMA PhasesRetire ==
    ASSUME TypeOK, NEW place, Placed(place), Phases,
           NEW w \in Writers, NEW c \in CPUs, NEW b \in Buckets,
           NEW large \in BOOLEAN, NEW new \in Buckets \union {NULL},
           NEW free \in SUBSET Buckets, NEW spare \in SUBSET Buckets,
           Choice(place, w, c, b, free, spare, new),
           retire_record(w, c, b, free, spare, large, new)
    PROVE  Phases'
<1>1. place[b] \in {"cpu", "writer", "free"}
  BY Constants DEF Choice, Placed
<1>2. b \notin Range(head) /\ b \notin Range(pending)
  BY <1>1 DEF Placed
<1>3. /\ \A x \in Buckets : x # b => hb_count'[x] = hb_count[x]
      /\ UNCHANGED drain
  BY DEF TypeOK, retire_record
<1>4. head # <<>> => Head(head) \in Buckets /\ Head(head) # b
  BY <1>2, TailOnce DEF TypeOK
<1>5. Range(pending) \subseteq Buckets
  BY DEF TypeOK, Range
<1> QED
  BY <1>2, <1>3, <1>4, <1>5 DEF Phases, Busy, drain, filter

(* The steps of the drain up to the sort.                                  *)
LEMMA PhasesDrain ==
    ASSUME TypeOK, Phases,
           \/ dequeue_batch \/ hazard_deallocate_queue_invoke
           \/ hazard_scan_and_reclaim \/ scan_guard \/ qsort
    PROVE  Phases'
<1> USE DEF reader, writer, bucket, drain, filter
<1>1. CASE dequeue_batch
  BY <1>1 DEF dequeue_batch, Phases, Busy
<1>2. CASE hazard_deallocate_queue_invoke
  BY <1>2 DEF hazard_deallocate_queue_invoke, Phases, Busy
<1>3. CASE hazard_scan_and_reclaim
  <2>1. Head(pending) # NULL
    BY <1>3, TailOnce, Constants DEF hazard_scan_and_reclaim, TypeOK
  <2> QED
    BY <1>3, <2>1, Constants DEF hazard_scan_and_reclaim, Phases, Busy
<1>4. CASE scan_guard
  <2>1. dpc = "scan" /\ idx \in Slots
    BY <1>4 DEF scan_guard, Phases
  <2>2. \/ dpc' = "scan" /\ idx' \in Slots
        \/ dpc' = "sort" /\ idx' = 2
    BY <1>4, <2>1, Constants DEF scan_guard, Slots
  <2>3. UNCHANGED <<pending, head, partial, pos, lo, hi>>
    BY <1>4 DEF scan_guard
  <2> QED
    BY <2>1, <2>2, <2>3 DEF Phases, Busy
<1>5. CASE qsort
  <2>0. dpc = "sort" /\ idx > 1 /\ idx \in Nat /\ UNCHANGED <<pending, head, partial, pos, hb_count>>
    BY <1>5 DEF qsort, Phases, TypeOK
  <2>1. CASE idx > Len(array)
    <3>1. dpc' = "filter" /\ idx' = 1
      BY <1>5, <2>1 DEF qsort, search
    <3>2. head # <<>> /\ pos = 0 /\ hb_count[Head(head)] \in Nat
      BY <2>0 DEF Phases, TypeOK
    <3> QED
      BY <2>0, <3>1, <3>2 DEF Phases, Busy
  <2>2. CASE ~ (idx > Len(array))
    <3>1. dpc' = "sort" /\ idx' = idx + 1 /\ lo' = lo /\ hi' = hi
      BY <1>5, <2>0, <2>2 DEF qsort
    <3> QED
      BY <2>0, <3>1 DEF Phases, Busy
  <2> QED
    BY <2>1, <2>2
<1> QED
  BY <1>1, <1>2, <1>3, <1>4, <1>5

(* The steps of the filter: kept records never catch up with the record in *)
(* hand, and a reclaim leaves one bucket pending, with pos records.        *)
LEMMA PhasesFilter ==
    ASSUME TypeOK, NEW place, Placed(place), Phases, Once, NEW v \in Values \union {NULL},
           \/ hazard_bsearch(v) \/ filter_destroy(v)
           \/ filter_keep(v) /\ pos + 1 < hazard_bucket_count
           \/ hazard_filter_bucket
           \/ hazard_filter_finish /\ pos <= NCPU * HAZARD_GUARD_SLOTS
    PROVE  Phases'
<1> USE DEF reader, writer, bucket, drain, filter
<1>f. dpc = "filter" /\ pos \in Nat /\ idx \in Nat /\ partial # NULL /\ pending = <<>>
  <2>1. dpc = "filter"
    BY DEF hazard_bsearch, filter_destroy, filter_keep, hazard_filter_bucket,
           hazard_filter_finish, filtering
  <2> QED
    BY <2>1 DEF Phases, Busy, TypeOK
<1>1. CASE hazard_bsearch(v)
  BY <1>1, <1>f DEF hazard_bsearch, Phases, Busy
<1>2. CASE filter_destroy(v)
  <2>1. head # <<>> /\ idx <= hb_count[Head(head)] /\ hb_count[Head(head)] \in Nat
    BY <1>2 DEF filter_destroy, filtering, TypeOK
  <2>2. /\ idx' = idx + 1 /\ dpc' = dpc
        /\ UNCHANGED <<hb_count, pending, head, partial, pos>>
    BY <1>2 DEF filter_destroy, search
  <2>3. partial = Head(head) => pos < idx
    BY <1>f, <2>1 DEF Phases
  <2> QED
    BY <1>f, <2>1, <2>2, <2>3 DEF Phases, Busy
<1>3. CASE filter_keep(v) /\ pos + 1 < hazard_bucket_count
  <2>1. head # <<>> /\ idx <= hb_count[Head(head)] /\ hb_count[Head(head)] \in Nat
    BY <1>3 DEF filter_keep, filtering, TypeOK
  <2>2. /\ idx' = idx + 1 /\ dpc' = dpc /\ pos' = pos + 1
        /\ UNCHANGED <<hb_count, pending, head, partial>>
    BY <1>3, <1>f, Constants DEF filter_keep, search
  <2>3. partial = Head(head) => pos < idx
    BY <1>f, <2>1 DEF Phases
  <2> QED
    BY <1>f, <2>1, <2>2, <2>3 DEF Phases, Busy
<1>4. CASE hazard_filter_bucket
  <2>1. /\ dpc' = dpc /\ idx' = 1 /\ head' = Tail(head) /\ head # <<>>
        /\ UNCHANGED <<pending, partial, pos>>
    BY <1>4 DEF hazard_filter_bucket, search
  <2>2. head' # <<>> => Head(head') # partial /\ hb_count'[Head(head')] \in Nat
    <3>1. ASSUME head' # <<>> PROVE Head(head') # partial /\ hb_count'[Head(head')] \in Nat
      <4>1. head \in Seq(Buckets) /\ Tail(head) # <<>> /\ IsInjective(head)
        BY <2>1, <3>1 DEF TypeOK, Once
      <4>2. /\ Tail(head) \in Seq(Buckets) /\ Head(head) \notin Range(Tail(head))
            /\ Range(Tail(head)) \subseteq Range(head)
        BY <2>1, <4>1, TailOnce
      <4>3. Head(Tail(head)) \in Range(Tail(head)) /\ Head(Tail(head)) \in Buckets
        BY <4>1, <4>2, TailOnce
      <4>4. place[Head(Tail(head))] = "head" /\ Head(Tail(head)) # Head(head)
        BY <4>2, <4>3 DEF Placed
      <4>5. Head(Tail(head)) # partial
        BY <1>f, <4>4 DEF Placed
      <4>6. hb_count'[Head(Tail(head))] = hb_count[Head(Tail(head))]
        BY <1>4, <4>3, <4>4 DEF hazard_filter_bucket, TypeOK
      <4>7. hb_count[Head(Tail(head))] \in Nat
        <5>1. \A x \in Buckets : hb_count[x] \in Nat
          BY DEF TypeOK
        <5> QED
          BY <4>3, <5>1
      <4> QED
        BY <2>1, <4>5, <4>6, <4>7
    <3> QED
      BY <3>1
  <2> QED
    BY <1>f, <2>1, <2>2 DEF Phases, Busy
<1>5. CASE hazard_filter_finish /\ pos <= NCPU * HAZARD_GUARD_SLOTS
  <2>1. /\ dpc' = "idle" /\ head' = <<>> /\ partial' = NULL /\ pos' = 0
        /\ lo' = 0 /\ hi' = 0
        /\ pos = 0 => pending' = <<>>
        /\ pos # 0 => /\ hb_count' = [hb_count EXCEPT ![partial] = pos]
                      /\ pending' = Append(pending, partial)
    BY <1>5, <1>f DEF hazard_filter_finish
  <2>2. partial \in Buckets
    BY <1>f DEF TypeOK
  <2>3. pos # 0 => /\ Range(pending') = {partial} /\ Len(pending') = 1
                  /\ hb_count'[partial] = pos
    <3>1. <<>> \in Seq(Buckets)
      OBVIOUS
    <3>2. pos # 0 => pending' = Append(<<>>, partial) /\ hb_count'[partial] = pos
      BY <1>f, <2>1, <2>2 DEF TypeOK
    <3>3. Range(Append(<<>>, partial)) = {partial}
      BY <2>2, <3>1, AppendOnce, EmptyOnce
    <3>4. Len(Append(<<>>, partial)) = 1
      BY <2>2, <3>1
    <3> QED
      BY <3>2, <3>3, <3>4
  <2>4. /\ Len(pending') <= 1
        /\ \A x \in Range(pending') : hb_count'[x] <= NCPU * HAZARD_GUARD_SLOTS
    BY <1>5, <2>1, <2>3, EmptyOnce
  <2> QED
    BY <2>1, <2>4 DEF Phases, Busy
<1> QED
  BY <1>1, <1>2, <1>3, <1>4, <1>5

-----------------------------------------------------------------------------
(* The records.                                                            *)

(* If no record and no value changes, each retired value is still in one.  *)
LEMMA ExactSame ==
    ASSUME Exact, NotesSame,
           \A v \in Values : vstate'[v] = "retired" <=> vstate[v] = "retired"
    PROVE  Exact'
<1>1. \A b \in Buckets, i \in Entries : Noted(b, i)' =>
          hb_recs'[b][i] \in Values /\ vstate'[hb_recs'[b][i]] = "retired"
  BY DEF Exact, NotesSame
<1>2. \A b, c \in Buckets, i, j \in Entries :
          Noted(b, i)' /\ Noted(c, j)' /\ hb_recs'[b][i] = hb_recs'[c][j] => b = c /\ i = j
  BY DEF Exact, NotesSame
<1>3. ASSUME NEW v \in Values, vstate'[v] = "retired"
      PROVE  \E b \in Buckets, i \in Entries : Noted(b, i)' /\ hb_recs'[b][i] = v
  <2>1. PICK b \in Buckets, i \in Entries : Noted(b, i) /\ hb_recs[b][i] = v
    BY <1>3 DEF Exact
  <2> QED
    BY <2>1 DEF NotesSame
<1> QED
  BY <1>1, <1>2, <1>3 DEF Exact

(* If no record changes and no bucket of the reclaim does, the values it   *)
(* decides about are the same.                                             *)
LEMMA ChosenSame ==
    ASSUME NotesSame,
           \A b \in Buckets, i \in Entries : Noted(b, i) =>
              ((b \in Range(head') \/ b = partial') <=> (b \in Range(head) \/ b = partial))
    PROVE  Chosen' = Chosen
<1>1. ASSUME NEW v \in Chosen PROVE v \in Chosen'
  BY <1>1 DEF NotesSame, Chosen
<1>2. ASSUME NEW v \in Chosen' PROVE v \in Chosen
  BY <1>2 DEF NotesSame, Chosen
<1> QED
  BY <1>1, <1>2

(* Steps of readers and of writers other than hazard_retire, and of the    *)
(* search.                                                                 *)
LEMMA NotesUntouched ==
    ASSUME UNCHANGED <<hga_bucket, hb_recs, hb_count, dqueue, dbatch, pending, head,
                       partial, pos, dpc, idx>>
    PROVE  NotesSame
BY DEF NotesSame, Noted, Listed, due

(* Buckets that move from list to list keep their records.                 *)
LEMMA NotesDrain ==
    ASSUME TypeOK, Phases,
           \/ dequeue_batch \/ hazard_deallocate_queue_invoke
           \/ hazard_scan_and_reclaim \/ scan_guard \/ qsort
    PROVE  NotesSame
<1> USE DEF reader, writer, bucket, drain, filter
<1>1. CASE dequeue_batch
  <2>1. /\ dbatch' = dqueue /\ dqueue' = <<>> /\ dbatch = <<>> /\ dpc # "filter" /\ dpc' # "filter"
        /\ UNCHANGED <<hga_bucket, hb_recs, hb_count, pending, head, partial, pos>>
    BY <1>1 DEF dequeue_batch
  <2>2. \A b : (Listed(b)' <=> Listed(b)) /\ due(b) = 1 /\ due(b)' = 1
    BY <2>1, EmptyOnce DEF Listed, due
  <2> QED
    BY <2>1, <2>2 DEF NotesSame, Noted
<1>2. CASE hazard_deallocate_queue_invoke
  <2>1. /\ dbatch' = Tail(dbatch) /\ pending' = Append(pending, Head(dbatch))
        /\ dpc # "filter" /\ dpc' # "filter" /\ dbatch # <<>>
        /\ dbatch \in Seq(Buckets) /\ pending \in Seq(Buckets)
        /\ UNCHANGED <<hga_bucket, hb_recs, hb_count, dqueue, head, partial, pos>>
    BY <1>2 DEF hazard_deallocate_queue_invoke, TypeOK
  <2>2. /\ Range(dbatch) = Range(dbatch') \union {Head(dbatch)}
        /\ Range(pending') = Range(pending) \union {Head(dbatch)}
    <3>1. Head(dbatch) \in Buckets /\ Range(dbatch) = Range(dbatch') \union {Head(dbatch)}
      BY <2>1, TailOnce
    <3> QED
      BY <2>1, <3>1, AppendOnce
  <2>3. \A b : (Listed(b)' <=> Listed(b)) /\ due(b) = 1 /\ due(b)' = 1
    BY <2>1, <2>2 DEF Listed, due
  <2> QED
    BY <2>1, <2>3 DEF NotesSame, Noted
<1>3. CASE hazard_scan_and_reclaim
  <2>1. /\ head' = pending /\ pending' = <<>> /\ head = <<>> /\ pos = 0 /\ pos' = 0
        /\ dpc # "filter" /\ dpc' # "filter"
        /\ UNCHANGED <<hga_bucket, hb_recs, hb_count, dqueue, dbatch>>
    BY <1>3 DEF hazard_scan_and_reclaim, Phases, Busy
  <2>2. \A b : (Listed(b)' <=> Listed(b)) /\ due(b) = 1 /\ due(b)' = 1
    BY <2>1, EmptyOnce DEF Listed, due
  <2>3. \A i \in Entries : ~ (i <= pos) /\ ~ (i <= pos')
    BY <2>1, Constants DEF Entries
  <2> QED
    BY <2>1, <2>2, <2>3 DEF NotesSame, Noted
<1>4. CASE scan_guard \/ qsort
  <2>1. /\ dpc # "filter" /\ (dpc' = "filter" => idx' = 1)
        /\ UNCHANGED <<hga_bucket, hb_recs, hb_count, dqueue, dbatch, pending, head,
                       partial, pos>>
    BY <1>4 DEF scan_guard, qsort, search
  <2>2. \A b : (Listed(b)' <=> Listed(b)) /\ due(b) = 1 /\ due(b)' = 1
    BY <2>1 DEF Listed, due
  <2> QED
    BY <2>1, <2>2 DEF NotesSame, Noted
<1> QED
  BY <1>1, <1>2, <1>3, <1>4

(* What the filter has in hand.                                            *)
LEMMA InHand ==
    ASSUME TypeOK, NEW place, Placed(place), Once, Phases, dpc = "filter", head # <<>>
    PROVE  /\ Head(head) \in Buckets /\ partial \in Buckets /\ pos \in Nat /\ idx \in Nat \ {0}
           /\ Listed(Head(head)) /\ due(Head(head)) = idx
           /\ \A b \in Buckets : b # Head(head) => due(b) = 1
           /\ partial = Head(head) => pos < idx
           /\ partial # Head(head) => ~ Listed(partial)
           /\ head \in Seq(Buckets) /\ Range(head) = Range(Tail(head)) \union {Head(head)}
           /\ Head(head) \notin Range(Tail(head)) /\ pending = <<>>
           /\ \A c \in CPUs : hga_bucket[c] # Head(head)
           /\ Head(head) \notin Range(dqueue) /\ Head(head) \notin Range(dbatch)
<1>1. head \in Seq(Buckets) /\ IsInjective(head) /\ pos \in Nat /\ idx \in Nat \ {0}
  BY DEF TypeOK, Once
<1>2. /\ Head(head) \in Buckets /\ Range(head) = Range(Tail(head)) \union {Head(head)}
      /\ Head(head) \notin Range(Tail(head))
  BY <1>1, TailOnce
<1>3. /\ partial \in Buckets /\ pending = <<>>
      /\ partial = Head(head) => pos < idx
  BY DEF Phases, Busy, TypeOK
<1>4. place[Head(head)] = "head"
  BY <1>2 DEF Placed
<1>5. partial # Head(head) => place[partial] = "partial"
  BY <1>3, Constants DEF Placed
<1>6. partial # Head(head) => ~ Listed(partial)
  BY <1>3, <1>5, Constants DEF Listed, Placed
<1>7. /\ \A c \in CPUs : hga_bucket[c] # Head(head)
      /\ Head(head) \notin Range(dqueue) /\ Head(head) \notin Range(dbatch)
  BY <1>2, <1>4, Constants DEF Placed
<1>8. Listed(Head(head)) /\ due(Head(head)) = idx /\ \A b \in Buckets : b # Head(head) => due(b) = 1
  BY <1>2 DEF Listed, due
<1> QED
  BY <1>1, <1>2, <1>3, <1>6, <1>7, <1>8

(* A bucket is left when none of its records has to be looked at.          *)
LEMMA NotesFilterBucket ==
    ASSUME TypeOK, NEW place, Placed(place), Once, Phases, hazard_filter_bucket
    PROVE  NotesSame /\ Chosen' = Chosen
<1> USE DEF reader, writer, bucket, drain, filter
<1>0. PICK h : h = Head(head)
  OBVIOUS
<1>1. dpc = "filter" /\ head # <<>> /\ idx > hb_count[h]
  BY <1>0 DEF hazard_filter_bucket
<1>2. /\ h \in Buckets /\ partial \in Buckets /\ pos \in Nat /\ idx \in Nat \ {0}
      /\ Listed(h) /\ due(h) = idx /\ hb_count[h] \in Nat
      /\ \A b \in Buckets : b # h => due(b) = 1
      /\ partial = h => pos < idx
      /\ Range(head) = Range(Tail(head)) \union {h}
      /\ h \notin Range(Tail(head)) /\ pending = <<>>
      /\ \A c \in CPUs : hga_bucket[c] # h
      /\ h \notin Range(dqueue) /\ h \notin Range(dbatch)
  <2>1. \A x \in Buckets : hb_count[x] \in Nat
    BY DEF TypeOK
  <2> QED
    BY <1>0, <1>1, <2>1, InHand
<1>3. /\ head' = Tail(head) /\ idx' = 1 /\ dpc' = "filter"
      /\ UNCHANGED <<hga_bucket, dqueue, dbatch, pending, partial, pos>>
      /\ \A b \in Buckets : b # h => hb_count'[b] = hb_count[b] /\ hb_recs'[b] = hb_recs[b]
      /\ h = partial => UNCHANGED <<hb_count, hb_recs>>
      /\ h # partial => hb_count'[h] = 0
  BY <1>0, <1>1, <1>2 DEF hazard_filter_bucket, search, TypeOK
<1>4. \A b \in Buckets : due(b)' = 1
  BY <1>3 DEF due
<1>5. /\ \A b \in Buckets : b # h => (Listed(b)' <=> Listed(b))
      /\ ~ Listed(h)'
  BY <1>2, <1>3, EmptyOnce DEF Listed
<1>6. \A i \in Entries : i \in Nat /\ i >= 1
  BY DEF Entries
<1>7. ASSUME NEW b \in Buckets, NEW i \in Entries
      PROVE  /\ Noted(b, i)' <=> Noted(b, i)
             /\ Noted(b, i) => hb_recs'[b][i] = hb_recs[b][i] /\ (b # h \/ b = partial)
  <2>1. CASE b # h
    BY <1>2, <1>3, <1>4, <1>5, <2>1 DEF Noted
  <2>2. CASE b = h
    <3>1. ~ (due(b) <= i /\ i <= hb_count[b])
      BY <1>1, <1>2, <1>6, <2>2
    <3> QED
      BY <1>3, <1>5, <2>2, <3>1 DEF Noted
  <2> QED
    BY <2>1, <2>2
<1>8. NotesSame
  BY <1>7 DEF NotesSame
<1>9. Chosen' = Chosen
  <2>1. \A b \in Buckets, i \in Entries : Noted(b, i) =>
              ((b \in Range(head') \/ b = partial') <=> (b \in Range(head) \/ b = partial))
    BY <1>2, <1>3, <1>7
  <2> QED
    BY <1>8, <2>1, ChosenSame
<1> QED
  BY <1>8, <1>9

(* The partial bucket becomes pending with the records that were kept, or  *)
(* is freed without any; the reclaim is over.                              *)
LEMMA NotesFinish ==
    ASSUME TypeOK, NEW place, Placed(place), Phases, hazard_filter_finish
    PROVE  NotesSame /\ Chosen' = {}
<1> USE DEF reader, writer, bucket, drain, filter
<1>1. /\ dpc = "filter" /\ head = <<>> /\ partial \in Buckets /\ pos \in Nat
      /\ pending = <<>> /\ pending \in Seq(Buckets) /\ NULL \notin Buckets
  BY Constants DEF hazard_filter_finish, Phases, Busy, TypeOK
<1>0. PICK p : p = partial
  OBVIOUS
<1>2. ~ Listed(p)
  <2>1. place[p] = "partial"
    BY <1>0, <1>1 DEF Placed
  <2> QED
    BY <1>0, <1>1, <2>1, EmptyOnce DEF Placed, Listed
<1>3. /\ head' = <<>> /\ partial' = NULL
      /\ UNCHANGED <<hga_bucket, dqueue, dbatch>>
      /\ \A b \in Buckets : b # p => hb_count'[b] = hb_count[b] /\ hb_recs'[b] = hb_recs[b]
      /\ pos = 0 => pending' = <<>>
      /\ pos # 0 => pending' = Append(pending, p) /\ hb_count'[p] = pos
  BY <1>0, <1>1 DEF hazard_filter_finish, TypeOK
<1>4. pos # 0 => \A i \in Entries : i <= pos => hb_recs'[p][i] = hb_recs[p][i]
  <2>1. hb_recs \in [Buckets -> [Entries -> Values \union {NULL}]]
    BY DEF TypeOK, Entries
  <2>2. pos # 0 => hb_recs' = [hb_recs EXCEPT ![partial] =
                              [i \in DOMAIN @ |-> IF i <= pos THEN @[i] ELSE NULL]]
    BY DEF hazard_filter_finish
  <2> QED
    BY <1>0, <1>1, <2>1, <2>2
<1>5. pos # 0 => Range(pending') = {p}
  BY <1>0, <1>1, <1>3, AppendOnce, EmptyOnce
<1>6. \A b : due(b) = 1 /\ due(b)' = 1
  BY <1>1, <1>3 DEF due
<1>7. /\ \A b \in Buckets : b # p => (Listed(b)' <=> Listed(b))
      /\ Listed(p)' <=> pos # 0
  BY <1>1, <1>2, <1>3, <1>5, EmptyOnce DEF Listed
<1>8. \A i \in Entries : i \in Nat /\ i >= 1
  BY DEF Entries
<1>9. ASSUME NEW b \in Buckets, NEW i \in Entries
      PROVE  /\ Noted(b, i)' <=> Noted(b, i)
             /\ Noted(b, i) => hb_recs'[b][i] = hb_recs[b][i]
  <2>1. CASE b # p
    BY <1>0, <1>1, <1>3, <1>6, <1>7, <2>1 DEF Noted
  <2>2. CASE b = p /\ pos = 0
    BY <1>0, <1>1, <1>2, <1>3, <1>7, <1>8, <2>2 DEF Noted
  <2>3. CASE b = p /\ pos # 0
    <3>1. Noted(b, i) <=> i <= pos
      BY <1>0, <1>2, <2>3 DEF Noted
    <3>2. Noted(b, i)' <=> i <= pos
      BY <1>0, <1>1, <1>3, <1>6, <1>7, <1>8, <2>3 DEF Noted
    <3> QED
      BY <1>4, <2>3, <3>1, <3>2
  <2> QED
    BY <2>1, <2>2, <2>3
<1>10. Chosen' = {}
  BY <1>1, <1>3, EmptyOnce DEF Chosen
<1> QED
  BY <1>9, <1>10 DEF NotesSame

(* A value has one record.                                                 *)
LEMMA ExactUnique ==
    ASSUME Exact, NEW b \in Buckets, NEW c \in Buckets, NEW i \in Entries, NEW j \in Entries,
           Noted(b, i), Noted(c, j), hb_recs[b][i] = hb_recs[c][j]
    PROVE  b = c /\ i = j
BY DEF Exact

(* Counts of records are numbers.                                          *)
LEMMA CountType ==
    ASSUME TypeOK
    PROVE  \A b \in Buckets : hb_count[b] \in Nat /\ hb_count[b] <= hazard_bucket_count
BY DEF TypeOK

(* hazard_retire adds one record, of a value that was live.                *)
LEMMA NotesRetire ==
    ASSUME TypeOK, NEW place, Placed(place), Once, Counted, Phases, Owned, Exact, Kept,
           NEW w \in Writers, NEW c \in CPUs, NEW b \in Buckets,
           NEW large \in BOOLEAN, NEW new \in Buckets \union {NULL},
           NEW free \in SUBSET Buckets, NEW spare \in SUBSET Buckets,
           wpc[w] = "retire",
           Choice(place, w, c, b, free, spare, new),
           retire_record(w, c, b, free, spare, large, new)
    PROVE  Exact' /\ Chosen' = Chosen /\ Kept'
<1>0. PICK v, n : v = wold[w] /\ n = hb_count[b] + 1
  OBVIOUS
<1>1. /\ v \in Values /\ vstate[v] = "live" /\ n \in Entries /\ n \in Nat
      /\ hb_count[b] = n - 1 /\ hb_count[b] \in Nat
  <2>1. v \in Values /\ vstate[v] = "live"
    BY <1>0 DEF Owned
  <2>2. hb_count[b] \in Nat /\ hb_count[b] < hazard_bucket_count
    BY CountType DEF Choice
  <2> QED
    BY <1>0, <2>1, <2>2, Constants DEF Entries
<1>2. place[b] \in {"cpu", "writer", "free"}
  BY Constants DEF Choice, Placed
<1>3. b \notin Range(head) /\ b # partial /\ (head # <<>> => b # Head(head))
  <2>1. b \notin Range(head) /\ b # partial
    BY <1>2, Constants DEF Placed
  <2>2. head # <<>> => Head(head) \in Range(head)
    BY TailOnce DEF TypeOK
  <2> QED
    BY <2>1, <2>2
<1>4. Listed(b) \/ hb_count[b] = 0
  BY Constants DEF Choice, Counted, Listed
<1>5. new # NULL => new \in bfree /\ ~ Listed(new) /\ hb_count[new] = 0 /\ new # b /\ new # partial
  <2>1. new # NULL => new \in bfree /\ new # b /\ place[new] = "free" /\ hb_count[new] = 0
    BY DEF Choice, Placed, Counted
  <2>2. \A x \in Buckets : place[x] = "free" => ~ Listed(x) /\ x # partial
    BY Constants DEF Listed, Placed
  <2> QED
    BY <2>1, <2>2
<1>6. /\ UNCHANGED <<dbatch, pending, head, partial, pos, dpc, idx, array>>
      /\ \A x \in Buckets : x # b => hb_count'[x] = hb_count[x] /\ hb_recs'[x] = hb_recs[x]
      /\ hb_count'[b] = n /\ hb_recs'[b][n] = v
      /\ \A i \in Entries : i # n => hb_recs'[b][i] = hb_recs[b][i]
      /\ \A x \in Values : vstate'[x] = IF x = v THEN "retired" ELSE vstate[x]
  <2>1. UNCHANGED <<dbatch, pending, head, partial, pos, dpc, idx, array>>
    BY DEF retire_record, drain, filter
  <2>2. hb_recs \in [Buckets -> [Entries -> Values \union {NULL}]]
    BY DEF TypeOK, Entries
  <2>3. /\ hb_recs' = [hb_recs EXCEPT ![b][n] = v]
        /\ hb_count' = [hb_count EXCEPT ![b] = n]
        /\ vstate' = [vstate EXCEPT ![v] = "retired"]
    BY <1>0 DEF retire_record
  <2>4. /\ \A x \in Buckets : x # b => hb_recs'[x] = hb_recs[x]
        /\ hb_recs'[b][n] = v
        /\ \A i \in Entries : i # n => hb_recs'[b][i] = hb_recs[b][i]
    BY <1>1, <2>2, <2>3
  <2>5. /\ \A x \in Buckets : x # b => hb_count'[x] = hb_count[x]
        /\ hb_count'[b] = n
        /\ \A x \in Values : vstate'[x] = IF x = v THEN "retired" ELSE vstate[x]
    BY <1>1, <2>3 DEF TypeOK
  <2> QED
    BY <2>1, <2>4, <2>5
<1>7. \A x \in Buckets : due(x)' = due(x)
  BY <1>6 DEF due
<1>8. due(b) = 1
  BY <1>3 DEF due
<1>9. /\ Listed(b)'
      /\ \A x \in Buckets : x # b /\ x # new => (Listed(x)' <=> Listed(x))
  <2>1. /\ \A x \in CPUs : x # c => hga_bucket'[x] = hga_bucket[x]
        /\ hga_bucket[c] \in {b, NULL}
        /\ \/ hga_bucket'[c] = b /\ dqueue' = dqueue
           \/ hga_bucket'[c] = new /\ Range(dqueue') = Range(dqueue) \union {b}
    <3>1. dqueue \in Seq(Buckets)
      BY DEF TypeOK
    <3> QED
      BY <3>1, AppendOnce DEF retire_record, TypeOK, Choice
  <2>2. NULL \notin Buckets
    BY Constants
  <2> QED
    BY <1>6, <2>1, <2>2 DEF Listed
<1>10. \A i \in Entries : i \in Nat /\ i >= 1
  BY DEF Entries
<1>11. ASSUME NEW x \in Buckets, NEW i \in Entries
       PROVE  /\ Noted(x, i)' <=> Noted(x, i) \/ (x = b /\ i = n)
              /\ ~ (x = b /\ i = n) => hb_recs'[x][i] = hb_recs[x][i]
              /\ Noted(x, i) => ~ (x = b /\ i = n)
  <2>1. CASE x # b /\ x # new
    BY <1>6, <1>7, <1>9, <2>1 DEF Noted
  <2>2. CASE x = new
    <3>1. ~ Noted(x, i)
      BY <1>5, <2>2, Constants DEF Noted
    <3>2. ~ Noted(x, i)'
      BY <1>5, <1>6, <1>10, <2>2, Constants DEF Noted
    <3> QED
      BY <1>5, <1>6, <2>2, <3>1, <3>2, Constants
  <2>3. CASE x = b
    <3>1. Noted(x, i) <=> i <= hb_count[b]
      BY <1>3, <1>4, <1>8, <1>10, <2>3 DEF Noted
    <3>2. Noted(x, i)' <=> i <= n
      BY <1>3, <1>6, <1>7, <1>8, <1>9, <1>10, <2>3 DEF Noted
    <3> QED
      BY <1>1, <1>6, <1>10, <2>3, <3>1, <3>2
  <2> QED
    BY <2>1, <2>2, <2>3
<1>12. \A x \in Buckets, i \in Entries : Noted(x, i) => hb_recs[x][i] # v
  BY <1>1 DEF Exact
<1>13. Exact'
  <2>1. \A x \in Buckets, i \in Entries : Noted(x, i)' =>
            hb_recs'[x][i] \in Values /\ vstate'[hb_recs'[x][i]] = "retired"
    BY <1>1, <1>6, <1>11 DEF Exact
  <2>2. ASSUME NEW x \in Buckets, NEW y \in Buckets, NEW i \in Entries, NEW j \in Entries,
               Noted(x, i)', Noted(y, j)', hb_recs'[x][i] = hb_recs'[y][j]
        PROVE  x = y /\ i = j
    BY <1>1, <1>6, <1>11, <1>12, <2>2 DEF Exact
  <2>3. ASSUME NEW x \in Values, vstate'[x] = "retired"
        PROVE  \E y \in Buckets, i \in Entries : Noted(y, i)' /\ hb_recs'[y][i] = x
    <3>1. CASE x = v
      BY <1>1, <1>6, <1>11, <3>1
    <3>2. CASE x # v
      <4>1. PICK y \in Buckets, i \in Entries : Noted(y, i) /\ hb_recs[y][i] = x
        BY <1>6, <2>3, <3>2 DEF Exact
      <4> QED
        BY <1>11, <4>1
    <3> QED
      BY <3>1, <3>2
  <2> QED
    BY <2>1, <2>2, <2>3 DEF Exact
<1>14. Chosen' = Chosen
  <2>1. \A x \in Buckets, i \in Entries :
           (x \in Range(head) \/ x = partial) =>
              (Noted(x, i)' <=> Noted(x, i)) /\ hb_recs'[x][i] = hb_recs[x][i]
    BY <1>3, <1>11
  <2>2. head' = head /\ partial' = partial
    BY <1>6
  <2>3. ASSUME NEW x \in Chosen PROVE x \in Chosen'
    BY <2>1, <2>2, <2>3 DEF Chosen
  <2>4. ASSUME NEW x \in Chosen' PROVE x \in Chosen
    BY <2>1, <2>2, <2>4 DEF Chosen
  <2> QED
    BY <2>3, <2>4
<1>15. Kept'
  <2>1. CASE partial = NULL
    <3>1. pos' = 0
      BY <1>6, <2>1 DEF Phases
    <3> QED
      BY <3>1 DEF Kept
  <2>2. CASE partial # NULL
    BY <1>3, <1>6, <2>2 DEF Kept, TypeOK
  <2> QED
    BY <2>1, <2>2
<1> QED
  BY <1>13, <1>14, <1>15

(* A value that is destroyed loses its record.                             *)
LEMMA NotesDestroy ==
    ASSUME TypeOK, NEW place, Placed(place), Once, Phases, Exact,
           NEW v \in Values, filter_destroy(v)
    PROVE  Exact' /\ Chosen' \subseteq Chosen /\ v \in Chosen /\ vstate[v] = "retired"
<1> USE DEF reader, writer, bucket, drain, filter
<1>0. PICK h, n : h = Head(head) /\ n = idx
  OBVIOUS
<1>1. dpc = "filter" /\ head # <<>> /\ n <= hb_count[h] /\ v = hb_recs[h][n]
  BY <1>0 DEF filter_destroy, filtering
<1>2. /\ h \in Buckets /\ partial \in Buckets /\ pos \in Nat /\ n \in Nat \ {0}
      /\ Listed(h) /\ due(h) = n /\ h \in Range(head)
      /\ \A b \in Buckets : b # h => due(b) = 1
      /\ partial = h => pos < n
  BY <1>0, <1>1, InHand
<1>3. n \in Entries /\ hb_count[h] \in Nat
  BY <1>1, <1>2, CountType, Constants DEF Entries
<1>4. /\ idx' = n + 1 /\ dpc' = "filter"
      /\ UNCHANGED <<hga_bucket, hb_recs, hb_count, dqueue, dbatch, pending, head, partial, pos>>
      /\ \A x \in Values : vstate'[x] = IF x = v THEN "free" ELSE vstate[x]
  BY <1>0, <1>1 DEF filter_destroy, search, TypeOK
<1>5. /\ \A b \in Buckets : b # h => due(b)' = 1
      /\ due(h)' = n + 1
  BY <1>0, <1>1, <1>4 DEF due
<1>6. \A b \in Buckets : Listed(b)' <=> Listed(b)
  BY <1>4 DEF Listed
<1>7. \A i \in Entries : i \in Nat
  BY DEF Entries
<1>8. ASSUME NEW b \in Buckets, NEW i \in Entries
      PROVE  Noted(b, i)' <=> Noted(b, i) /\ ~ (b = h /\ i = n)
  <2>1. CASE b # h
    BY <1>2, <1>4, <1>5, <1>6, <2>1 DEF Noted
  <2>2. CASE b = h
    BY <1>2, <1>3, <1>4, <1>5, <1>6, <1>7, <2>2 DEF Noted
  <2> QED
    BY <2>1, <2>2
<1>9. Noted(h, n)
  BY <1>1, <1>2 DEF Noted
<1>10. \A b \in Buckets, i \in Entries :
          Noted(b, i) /\ ~ (b = h /\ i = n) => hb_recs[b][i] # v
  BY <1>1, <1>2, <1>3, <1>9, ExactUnique
<1>11. Exact'
  <2>1. \A b \in Buckets, i \in Entries : Noted(b, i)' =>
            hb_recs'[b][i] \in Values /\ vstate'[hb_recs'[b][i]] = "retired"
    BY <1>4, <1>8, <1>10 DEF Exact
  <2>2. \A b, c \in Buckets, i, j \in Entries :
            Noted(b, i)' /\ Noted(c, j)' /\ hb_recs'[b][i] = hb_recs'[c][j] => b = c /\ i = j
    BY <1>4, <1>8 DEF Exact
  <2>3. ASSUME NEW x \in Values, vstate'[x] = "retired"
        PROVE  \E b \in Buckets, i \in Entries : Noted(b, i)' /\ hb_recs'[b][i] = x
    <3>1. x # v /\ vstate[x] = "retired"
      BY <1>4, <2>3
    <3>2. PICK b \in Buckets, i \in Entries : Noted(b, i) /\ hb_recs[b][i] = x
      BY <3>1 DEF Exact
    <3> QED
      BY <1>1, <1>4, <1>8, <3>1, <3>2
  <2> QED
    BY <2>1, <2>2, <2>3 DEF Exact
<1>12. Chosen' \subseteq Chosen
  BY <1>4, <1>8 DEF Chosen
<1>13. v \in Chosen /\ vstate[v] = "retired"
  BY <1>1, <1>2, <1>3, <1>9 DEF Chosen, Exact
<1> QED
  BY <1>11, <1>12, <1>13

(* A value that is kept moves to the partial bucket, whose other places    *)
(* below this one have been filled or filtered.                            *)
LEMMA NotesKeep ==
    ASSUME TypeOK, NEW place, Placed(place), Once, Phases, Exact, Kept,
           NEW v \in Values, filter_keep(v), pos + 1 < hazard_bucket_count
    PROVE  Exact' /\ Chosen' \subseteq Chosen /\ Kept'
<1> USE DEF reader, writer, bucket, drain, filter
<1>0. PICK h, n, p, m : h = Head(head) /\ n = idx /\ p = partial /\ m = pos + 1
  OBVIOUS
<1>1. dpc = "filter" /\ head # <<>> /\ n <= hb_count[h] /\ v = hb_recs[h][n] /\ lo < hi /\ probe = v
  BY <1>0 DEF filter_keep, filtering
<1>2. /\ h \in Buckets /\ p \in Buckets /\ pos \in Nat /\ n \in Nat \ {0}
      /\ Listed(h) /\ due(h) = n /\ h \in Range(head)
      /\ \A b \in Buckets : b # h => due(b) = 1
      /\ p = h => m <= n
      /\ p # h => ~ Listed(p)
  <2>1. /\ h \in Buckets /\ p \in Buckets /\ pos \in Nat /\ n \in Nat \ {0}
        /\ Listed(h) /\ due(h) = n /\ h \in Range(head)
        /\ \A b \in Buckets : b # h => due(b) = 1
        /\ p = h => pos < n
        /\ p # h => ~ Listed(p)
    BY <1>0, <1>1, InHand
  <2> QED
    BY <1>0, <2>1
<1>3. n \in Entries /\ hb_count[h] \in Nat /\ m \in Entries /\ m \in Nat /\ pos = m - 1
  <2>1. hb_count[h] \in Nat /\ hb_count[h] <= hazard_bucket_count
    BY <1>2, CountType
  <2>2. n \in Entries
    BY <1>1, <1>2, <2>1, Constants DEF Entries
  <2>3. m \in Nat /\ pos = m - 1 /\ m \in Entries
    BY <1>0, <1>2, Constants DEF Entries
  <2> QED
    BY <2>1, <2>2, <2>3
<1>4. /\ idx' = n + 1 /\ dpc' = "filter" /\ pos' = m
      /\ UNCHANGED <<hga_bucket, hb_count, dqueue, dbatch, pending, head, vstate, array>>
      /\ partial' = p /\ partial = p
  BY <1>0, <1>1, <1>2, Constants DEF filter_keep, search
<1>5. /\ hb_recs'[p][m] = v
      /\ \A b \in Buckets, i \in Entries : ~ (b = p /\ i = m) => hb_recs'[b][i] = hb_recs[b][i]
  <2>1. hb_recs \in [Buckets -> [Entries -> Values \union {NULL}]]
    BY DEF TypeOK, Entries
  <2>2. hb_recs' = [hb_recs EXCEPT ![p][m] = v]
    BY <1>0 DEF filter_keep
  <2> QED
    BY <1>2, <1>3, <2>1, <2>2
<1>6. /\ \A b \in Buckets : b # h => due(b)' = 1
      /\ due(h)' = n + 1
  BY <1>0, <1>1, <1>4 DEF due
<1>7. \A b \in Buckets : Listed(b)' <=> Listed(b)
  BY <1>4 DEF Listed
<1>8. \A i \in Entries : i \in Nat
  BY DEF Entries
<1>9. ASSUME NEW b \in Buckets, NEW i \in Entries, ~ (b = p /\ i = m)
      PROVE  Noted(b, i)' <=> Noted(b, i) /\ ~ (b = h /\ i = n)
  <2>1. CASE b # h /\ b # p
    BY <1>0, <1>2, <1>4, <1>6, <1>7, <2>1 DEF Noted
  <2>2. CASE b = h /\ b # p
    BY <1>0, <1>2, <1>3, <1>4, <1>6, <1>7, <1>8, <2>2 DEF Noted
  <2>3. CASE b = p /\ b # h
    <3>1. ~ Listed(b) /\ ~ Listed(b)' /\ i # m /\ i \in Nat
      BY <1>2, <1>7, <1>8, <1>9, <2>3
    <3>2. (i <= pos <=> i <= pos') /\ partial' = b /\ partial = b
      BY <1>0, <1>3, <1>4, <2>3, <3>1
    <3> QED
      BY <2>3, <3>1, <3>2 DEF Noted
  <2>4. CASE b = p /\ b = h
    <3>1. Listed(b) /\ Listed(b)' /\ i # m /\ i \in Nat /\ due(b) = n /\ due(b)' = n + 1
      BY <1>2, <1>6, <1>7, <1>8, <1>9, <2>4
    <3>2. /\ (i <= pos <=> i <= pos') /\ partial' = b /\ partial = b
          /\ hb_count'[b] = hb_count[b] /\ (i <= pos => i # n) /\ n \in Nat
      <4>1. partial' = b /\ partial = b /\ hb_count'[b] = hb_count[b] /\ n \in Nat /\ m <= n
        BY <1>2, <1>4, <2>4
      <4>2. (i <= pos <=> i <= pos') /\ (i <= pos => i < m)
        BY <1>2, <1>3, <1>4, <3>1
      <4> QED
        BY <1>3, <3>1, <4>1, <4>2
    <3>3. n <= i /\ i # n <=> n + 1 <= i
      BY <1>2, <3>1
    <3> QED
      BY <2>4, <3>1, <3>2, <3>3 DEF Noted
  <2> QED
    BY <2>1, <2>2, <2>3, <2>4
<1>10. Noted(h, n)
  BY <1>1, <1>2 DEF Noted
<1>11. \A b \in Buckets, i \in Entries :
          Noted(b, i) /\ ~ (b = h /\ i = n) => hb_recs[b][i] # v
  BY <1>1, <1>2, <1>3, <1>10, ExactUnique
<1>12. vstate[v] = "retired" /\ v \in Chosen
  BY <1>1, <1>2, <1>3, <1>10 DEF Exact, Chosen
<1>13. Noted(p, m)'
  <2>1. p = partial' /\ m <= pos'
    BY <1>0, <1>3, <1>4
  <2> QED
    BY <2>1 DEF Noted
<1>14. Exact'
  <2>1. ASSUME NEW b \in Buckets, NEW i \in Entries, Noted(b, i)'
        PROVE  hb_recs'[b][i] \in Values /\ vstate'[hb_recs'[b][i]] = "retired"
    BY <1>4, <1>5, <1>9, <1>12, <2>1 DEF Exact
  <2>2. ASSUME NEW b \in Buckets, NEW c \in Buckets, NEW i \in Entries, NEW j \in Entries,
               Noted(b, i)', Noted(c, j)', hb_recs'[b][i] = hb_recs'[c][j]
        PROVE  b = c /\ i = j
    BY <1>5, <1>9, <1>11, <2>2 DEF Exact
  <2>3. ASSUME NEW x \in Values, vstate'[x] = "retired"
        PROVE  \E b \in Buckets, i \in Entries : Noted(b, i)' /\ hb_recs'[b][i] = x
    <3>1. CASE x = v
      BY <1>2, <1>3, <1>5, <1>13, <3>1
    <3>2. CASE x # v
      <4>1. PICK b \in Buckets, i \in Entries : Noted(b, i) /\ hb_recs[b][i] = x
        BY <1>4, <2>3 DEF Exact
      <4>2. ~ (b = h /\ i = n)
        BY <1>1, <3>2, <4>1
      <4>3. ~ (b = p /\ i = m)
        BY <1>0, <1>2, <1>3, <1>8, <4>1, <4>2 DEF Noted
      <4> QED
        BY <1>5, <1>9, <4>1, <4>2, <4>3
    <3> QED
      BY <3>1, <3>2
  <2> QED
    BY <2>1, <2>2, <2>3 DEF Exact
<1>15. Chosen' \subseteq Chosen
  <2>1. ASSUME NEW x \in Chosen' PROVE x \in Chosen
    <3>1. PICK b \in Buckets, i \in Entries :
             Noted(b, i)' /\ (b \in Range(head) \/ b = partial) /\ hb_recs'[b][i] = x
      BY <1>4, <2>1 DEF Chosen
    <3>2. CASE b = p /\ i = m
      BY <1>5, <1>12, <3>1, <3>2
    <3>3. CASE ~ (b = p /\ i = m)
      BY <1>5, <1>9, <2>1, <3>1, <3>3 DEF Chosen
    <3> QED
      BY <3>2, <3>3
  <2> QED
    BY <2>1
<1>16. Kept'
  <2>1. v \in Range(array)
    <3>1. (lo + hi) \div 2 + 1 \in 1 .. Len(array)
      <4>1. lo \in Nat /\ hi \in Nat /\ hi <= Len(array) /\ Len(array) \in Nat
        BY DEF TypeOK
      <4>2. (lo + hi) \div 2 \in Nat /\ (lo + hi) \div 2 < hi
        BY <1>1, <4>1, Half
      <4> QED
        BY <4>1, <4>2
    <3>2. DOMAIN array = 1 .. Len(array) /\ v = array[(lo + hi) \div 2 + 1]
      BY <1>1 DEF TypeOK, probe
    <3> QED
      BY <3>1, <3>2 DEF Range
  <2>2. ASSUME NEW i \in 1 .. m PROVE hb_recs'[p][i] \in Range(array)
    <3>1. CASE i = m
      BY <1>5, <2>1, <3>1
    <3>2. CASE i # m
      <4>1. i \in 1 .. pos /\ i \in Entries
        BY <1>2, <1>3, <3>2, Constants DEF Entries
      <4> QED
        BY <1>0, <1>2, <1>5, <3>2, <4>1 DEF Kept
    <3> QED
      BY <3>1, <3>2
  <2> QED
    BY <1>0, <1>4, <2>2 DEF Kept
<1> QED
  BY <1>14, <1>15, <1>16

-----------------------------------------------------------------------------
(* The readers.                                                            *)

(* There are finitely many guards, as many as slots on all the CPUs.       *)
LEMMA UsedFinite ==
    /\ IsFiniteSet(CPUs \X Slots) /\ Cardinality(CPUs \X Slots) = NCPU * HAZARD_GUARD_SLOTS
    /\ IsFiniteSet(Used) /\ Cardinality(Used) \in Nat
    /\ Cardinality(Used) <= NCPU * HAZARD_GUARD_SLOTS
    /\ GuardsInUse = Cardinality(Used)
<1>1. /\ IsFiniteSet(CPUs) /\ Cardinality(CPUs) = NCPU
      /\ IsFiniteSet(Slots) /\ Cardinality(Slots) = HAZARD_GUARD_SLOTS
  <2>1. NCPU \in Nat \ {0} /\ HAZARD_GUARD_SLOTS \in Nat \ {0} /\ 1 \in Int
    BY HazardAssumption
  <2> QED
    BY <2>1, FS_Interval DEF CPUs, Slots
<1>2. IsFiniteSet(CPUs \X Slots) /\ Cardinality(CPUs \X Slots) = NCPU * HAZARD_GUARD_SLOTS
  BY <1>1, FS_Product
<1>3. Used \in SUBSET (CPUs \X Slots)
  BY DEF Used
<1> QED
  BY <1>2, <1>3, FS_Subset, FS_CardinalityType DEF GuardsInUse, Used

(* Slots that are handed out were clear, and the bound on guards is kept.  *)
LEMMA ReadersGet ==
    ASSUME TypeOK, Readers, NEW c \in CPUs, NEW s \in Slots, NEW n \in Slots,
           hazard_guard_get(c, s, n)
    PROVE  Readers'
<1> DEFINE slots == s .. s + n - 1
<1>1. /\ rpc[c] = "idle" /\ slots \subseteq Slots \ hga_mask[c]
      /\ GuardsInUse + n <= MaxGuards
      /\ UNCHANGED <<hg_val, rpc, rslot, rval>>
      /\ \A x \in CPUs : hga_mask'[x] = IF x = c THEN hga_mask[c] \union slots ELSE hga_mask[x]
  BY DEF hazard_guard_get, TypeOK
<1>2. s \in Nat /\ n \in Nat \ {0} /\ IsFiniteSet(slots) /\ Cardinality(slots) = n
  <2>1. s \in Nat /\ n \in Nat \ {0}
    BY Constants DEF Slots
  <2>2. s \in Int /\ s + n - 1 \in Int /\ ~ (s > s + n - 1) /\ s + n - 1 - s + 1 = n
    BY <2>1
  <2> QED
    BY <2>1, <2>2, FS_Interval
<1> HIDE DEF slots
<1>3. IsFiniteSet({c} \X slots) /\ Cardinality({c} \X slots) = n
  <2>1. IsFiniteSet({c}) /\ Cardinality({c}) = 1
    BY FS_Singleton
  <2>2. IsFiniteSet({c} \X slots) /\ Cardinality({c} \X slots) = 1 * n
    BY <1>2, <2>1, FS_Product
  <2> QED
    BY <1>2, <2>2
<1>4. Used' = Used \union ({c} \X slots)
  BY <1>1 DEF Used
<1>5. Cardinality(Used') <= Cardinality(Used) + n
  <2>1. IsFiniteSet(Used) /\ Cardinality(Used) \in Nat
    BY UsedFinite
  <2>2. Cardinality(Used') = Cardinality(Used) + n - Cardinality(Used \cap ({c} \X slots))
    BY <1>3, <1>4, <2>1, FS_Union
  <2>3. Cardinality(Used \cap ({c} \X slots)) \in Nat
    BY <2>1, FS_Intersection, FS_CardinalityType
  <2> QED
    BY <1>2, <2>1, <2>2, <2>3
<1>6. GuardsInUse' <= MaxGuards
  <2>1. GuardsInUse' = Cardinality(Used')
    BY DEF GuardsInUse, Used
  <2>2. GuardsInUse = Cardinality(Used) /\ Cardinality(Used) \in Nat
    BY UsedFinite
  <2>3. Cardinality(Used') \in Nat
    BY <1>3, <1>4, FS_Union, FS_CardinalityType, UsedFinite
  <2> QED
    BY <1>1, <1>2, <1>5, <2>1, <2>2, <2>3, Constants
<1>7. \A x \in CPUs : hga_mask[x] \subseteq hga_mask'[x]
  BY <1>1
<1> QED
  BY <1>1, <1>6, <1>7 DEF Readers

(* Slots that are given back are clear.                                    *)
LEMMA ReadersPut ==
    ASSUME TypeOK, Readers, NEW c \in CPUs, NEW s \in Slots, NEW n \in Slots,
           hazard_guard_put(c, s, n)
    PROVE  Readers'
<1> DEFINE slots == s .. s + n - 1
<1>1. /\ rpc[c] = "idle" /\ slots \subseteq hga_mask[c]
      /\ UNCHANGED <<rpc, rslot, rval>>
      /\ \A x \in CPUs : hga_mask'[x] = IF x = c THEN hga_mask[c] \ slots ELSE hga_mask[x]
      /\ \A x \in CPUs : x # c => hg_val'[x] = hg_val[x]
      /\ \A i \in Slots : hg_val'[c][i] = IF i \in slots THEN NULL ELSE hg_val[c][i]
  BY DEF hazard_guard_put, TypeOK
<1> HIDE DEF slots
<1>2. Used' \subseteq Used
  BY <1>1 DEF Used
<1>3. GuardsInUse' <= MaxGuards
  <2>1. GuardsInUse' = Cardinality(Used')
    BY DEF GuardsInUse, Used
  <2>2. IsFiniteSet(Used) /\ GuardsInUse = Cardinality(Used) /\ Cardinality(Used) \in Nat
    BY UsedFinite
  <2>3. Cardinality(Used') <= Cardinality(Used) /\ Cardinality(Used') \in Nat
    BY <1>2, <2>2, FS_Subset, FS_CardinalityType
  <2> QED
    BY <2>1, <2>2, <2>3, Constants DEF Readers
<1>4. \A x \in CPUs : \A i \in Slots \ hga_mask'[x] : hg_val'[x][i] = NULL
  BY <1>1 DEF Readers
<1>5. \A x \in CPUs : rpc'[x] # "idle" => rslot'[x] \in hga_mask'[x]
  BY <1>1 DEF Readers
<1>6. \A x \in CPUs : rpc'[x] = "reload" => hg_val'[x][rslot'[x]] = rval'[x]
  BY <1>1 DEF Readers
<1> QED
  BY <1>3, <1>4, <1>5, <1>6 DEF Readers

(* The steps of an acquire work on a slot that the CPU has.                *)
LEMMA ReadersAcquire ==
    ASSUME TypeOK, Readers, NEW c \in CPUs, NEW s \in Slots,
           \/ hazard_guard_acquire(c, s) \/ hazard_guard_set(c)
           \/ hazard_guard_acquire_loop(c)
    PROVE  Readers'
<1>g. hga_mask' = hga_mask /\ GuardsInUse' = GuardsInUse
  BY DEF hazard_guard_acquire, hazard_guard_set, hazard_guard_acquire_loop, GuardsInUse
<1>1. CASE hazard_guard_acquire(c, s)
  BY <1>1, <1>g DEF hazard_guard_acquire, Readers, TypeOK
<1>2. CASE hazard_guard_set(c)
  <2>1. /\ rpc[c] \in {"set", "again"} /\ rslot[c] \in Slots
        /\ UNCHANGED <<rslot, rval>>
        /\ \A x \in CPUs : rpc'[x] = IF x = c THEN "reload" ELSE rpc[x]
        /\ \A x \in CPUs : x # c => hg_val'[x] = hg_val[x]
        /\ \A i \in Slots : hg_val'[c][i] = IF i = rslot[c] THEN rval[c] ELSE hg_val[c][i]
    BY <1>2 DEF hazard_guard_set, TypeOK
  <2>2. \A x \in CPUs : \A i \in Slots \ hga_mask[x] : hg_val'[x][i] = NULL
    BY <2>1 DEF Readers
  <2>3. \A x \in CPUs : rpc'[x] # "idle" => rslot'[x] \in hga_mask[x]
    BY <2>1 DEF Readers
  <2>4. \A x \in CPUs : rpc'[x] = "reload" => hg_val'[x][rslot'[x]] = rval'[x]
    BY <2>1 DEF Readers
  <2> QED
    BY <1>g, <2>2, <2>3, <2>4 DEF Readers
<1>3. CASE hazard_guard_acquire_loop(c)
  <2>1. /\ rpc[c] = "reload" /\ UNCHANGED <<hg_val, rslot>>
        /\ \A x \in CPUs : x # c => rpc'[x] = rpc[x] /\ rval'[x] = rval[x]
        /\ rpc'[c] \in {"idle", "again"}
    BY <1>3 DEF hazard_guard_acquire_loop, TypeOK
  <2> QED
    BY <1>g, <2>1 DEF Readers
<1> QED
  BY <1>1, <1>2, <1>3

(* Steps of the writers and of the drain.                                  *)
LEMMA ReadersSame ==
    ASSUME Readers, UNCHANGED reader
    PROVE  Readers'
BY DEF Readers, reader, GuardsInUse

-----------------------------------------------------------------------------
(* The bound on what the scan finds.                                       *)

(* The values found and the guards still to be loaded are finitely many.   *)
LEMMA BoundedFinite ==
    /\ IsFiniteSet(Found) /\ Cardinality(Found) \in Nat
    /\ IsFiniteSet(Threats) /\ Cardinality(Threats) \in Nat
    /\ IsFiniteSet(Found') /\ Cardinality(Found') \in Nat
    /\ IsFiniteSet(Threats') /\ Cardinality(Threats') \in Nat
<1>1. IsFiniteSet(Values)
  <2>1. 1 \in Int /\ NValue \in Int
    BY HazardAssumption
  <2> QED
    BY <2>1, FS_Interval DEF Values
<1>2. /\ Found \in SUBSET Values /\ Found' \in SUBSET Values
      /\ Threats \in SUBSET (CPUs \X Slots) /\ Threats' \in SUBSET (CPUs \X Slots)
  BY DEF Found, Chosen, Threats
<1> QED
  BY <1>1, <1>2, UsedFinite, FS_Subset, FS_CardinalityType

(* Finding no more values and threatening no more guards keeps the bound.  *)
LEMMA BoundedLess ==
    ASSUME Bounded, Found' \subseteq Found, Threats' \subseteq Threats
    PROVE  Bounded'
<1>1. Cardinality(Found') <= Cardinality(Found) /\ Cardinality(Threats') <= Cardinality(Threats)
  BY BoundedFinite, FS_Subset
<1>2. /\ Cardinality(Found) \in Nat /\ Cardinality(Threats) \in Nat
      /\ Cardinality(Found') \in Nat /\ Cardinality(Threats') \in Nat
      /\ NCPU * HAZARD_GUARD_SLOTS \in Nat
  BY BoundedFinite, UsedFinite, FS_CardinalityType
<1>3. Cardinality(Found') + Cardinality(Threats') <= Cardinality(Found) + Cardinality(Threats)
  BY <1>1, <1>2
<1> QED
  BY <1>2, <1>3, Constants DEF Bounded

(* A value that can be acquired is none of those that are chosen.          *)
LEMMA PointerIsSafe ==
    ASSUME Owned, Exact
    PROVE  pointer \notin Chosen /\ NULL \notin Chosen
BY Constants DEF Owned, Exact, Chosen

(* Readers make no new threat.                                             *)
LEMMA ThreatsReaders ==
    ASSUME TypeOK, Owned, Exact, Readers, NEW c \in CPUs, NEW s \in Slots, NEW n \in Slots,
           \/ hazard_guard_get(c, s, n) \/ hazard_guard_put(c, s, n)
           \/ hazard_guard_acquire(c, s) \/ hazard_guard_set(c)
           \/ hazard_guard_acquire_loop(c)
    PROVE  Chosen' = Chosen /\ Found' = Found /\ Threats' \subseteq Threats
<1> USE DEF reader, writer, bucket, drain, filter
<1>1. UNCHANGED <<hga_bucket, hb_recs, hb_count, dqueue, dbatch, pending, head,
                  partial, pos, dpc, idx, cpu, array>>
  BY DEF hazard_guard_get, hazard_guard_put, hazard_guard_acquire, hazard_guard_set,
         hazard_guard_acquire_loop
<1>2. Chosen' = Chosen
  BY <1>1, NotesUntouched, ChosenSame
<1>3. Found' = Found /\ \A x, y : Unscanned(x, y)' <=> Unscanned(x, y)
  BY <1>1, <1>2 DEF Found, Unscanned
<1>4. pointer \notin Chosen /\ NULL \notin Chosen
  BY PointerIsSafe
<1>5. SUFFICES ASSUME NEW x \in CPUs, NEW i \in Slots, i \in hga_mask'[x], Unscanned(x, i),
                      \/ hg_val'[x][i] \in Chosen
                      \/ rslot'[x] = i /\ rpc'[x] \in {"set", "again"} /\ rval'[x] \in Chosen
               PROVE  /\ i \in hga_mask[x]
                      /\ \/ hg_val[x][i] \in Chosen
                         \/ rslot[x] = i /\ rpc[x] \in {"set", "again"} /\ rval[x] \in Chosen
  <2>1. ASSUME NEW g \in Threats' PROVE g \in Threats
    <3>1. /\ g \in CPUs \X Slots /\ g[2] \in hga_mask'[g[1]] /\ Unscanned(g[1], g[2])
          /\ \/ hg_val'[g[1]][g[2]] \in Chosen
             \/ rslot'[g[1]] = g[2] /\ rpc'[g[1]] \in {"set", "again"} /\ rval'[g[1]] \in Chosen
      BY <1>2, <1>3, <2>1 DEF Threats
    <3>2. g[1] \in CPUs /\ g[2] \in Slots
      BY <3>1
    <3> QED
      BY <1>5, <3>1, <3>2 DEF Threats
  <2> QED
    BY <1>2, <1>3, <2>1
<1>6. CASE hazard_guard_get(c, s, n)
  <2>1. /\ rpc[c] = "idle" /\ UNCHANGED <<hg_val, rpc, rslot, rval>>
        /\ x # c => hga_mask'[x] = hga_mask[x]
    BY <1>6 DEF hazard_guard_get, TypeOK
  <2> QED
    BY <1>4, <1>5, <2>1 DEF Readers
<1>7. CASE hazard_guard_put(c, s, n)
  <2>1. /\ UNCHANGED <<rpc, rslot, rval>> /\ hga_mask'[x] \subseteq hga_mask[x]
        /\ hg_val'[x][i] \in {NULL, hg_val[x][i]}
    BY <1>7 DEF hazard_guard_put, TypeOK
  <2> QED
    BY <1>4, <1>5, <2>1
<1>8. CASE hazard_guard_acquire(c, s)
  <2>1. /\ UNCHANGED <<hg_val, hga_mask>> /\ rval'[c] = pointer
        /\ x # c => rpc'[x] = rpc[x] /\ rslot'[x] = rslot[x] /\ rval'[x] = rval[x]
    BY <1>8 DEF hazard_guard_acquire, TypeOK
  <2> QED
    BY <1>4, <1>5, <2>1
<1>9. CASE hazard_guard_set(c)
  <2>1. /\ UNCHANGED <<hga_mask, rslot, rval>> /\ rpc[c] \in {"set", "again"}
        /\ x # c => rpc'[x] = rpc[x]
        /\ rpc'[c] = "reload"
        /\ hg_val'[x][i] = IF x = c /\ i = rslot[c] THEN rval[c] ELSE hg_val[x][i]
    BY <1>9 DEF hazard_guard_set, TypeOK
  <2> QED
    BY <1>5, <2>1
<1>10. CASE hazard_guard_acquire_loop(c)
  <2>1. /\ UNCHANGED <<hg_val, hga_mask, rslot>>
        /\ x # c => rpc'[x] = rpc[x] /\ rval'[x] = rval[x]
        /\ rval'[c] \in {pointer, NULL}
    BY <1>10 DEF hazard_guard_acquire_loop, TypeOK
  <2> QED
    BY <1>4, <1>5, <2>1
<1> QED
  BY <1>6, <1>7, <1>8, <1>9, <1>10

(* Only a scan has guards to load.                                         *)
LEMMA NoThreats ==
    ASSUME dpc' # "scan"
    PROVE  Threats' = {}
BY DEF Threats, Unscanned

(* Steps other than the reader's, with the scan where it was.              *)
LEMMA ThreatsSame ==
    ASSUME UNCHANGED <<reader, dpc, cpu, idx>>, Chosen' \subseteq Chosen
    PROVE  Threats' \subseteq Threats
BY DEF Threats, Unscanned, reader

(* A scan starts with at most the guards in use.                           *)
LEMMA BoundedStart ==
    ASSUME TypeOK, Readers, hazard_scan_and_reclaim
    PROVE  Bounded'
<1>1. array' = <<>> /\ UNCHANGED reader
  BY DEF hazard_scan_and_reclaim
<1>2. Found' = {} /\ Threats' \subseteq Used
  BY <1>1, EmptyOnce DEF Found, Threats, Used, reader
<1>3. Cardinality(Found') = 0 /\ Cardinality(Threats') <= Cardinality(Used)
  BY <1>2, UsedFinite, FS_Subset, FS_EmptySet
<1>4. /\ Cardinality(Used) <= MaxGuards /\ Cardinality(Used) <= NCPU * HAZARD_GUARD_SLOTS
      /\ Cardinality(Used) \in Nat /\ Cardinality(Threats') \in Nat
      /\ NCPU * HAZARD_GUARD_SLOTS \in Nat
  BY UsedFinite, BoundedFinite, FS_CardinalityType DEF Readers
<1> QED
  BY <1>3, <1>4, Constants DEF Bounded

(* A guard that is loaded is a threat no longer.                           *)
LEMMA BoundedScan ==
    ASSUME TypeOK, Phases, Owned, Exact, Readers, Bounded, scan_guard
    PROVE  Bounded'
<1> USE DEF writer, bucket, drain, filter
<1>0. PICK k, j, p : k = cpu /\ j = idx /\ p = hg_val[k][j]
  OBVIOUS
<1>1. dpc = "scan" /\ k \in CPUs /\ j \in Slots /\ k \in Nat /\ j \in Nat
  <2>1. dpc = "scan" /\ k \in CPUs /\ j \in Slots
    BY <1>0 DEF scan_guard, Phases, TypeOK
  <2> QED
    BY <2>1, Constants
<1>2. /\ UNCHANGED reader
      /\ array' = IF p = NULL THEN array ELSE Append(array, p)
  BY <1>0 DEF scan_guard
<1>3. Chosen' = Chosen
  <2>1. UNCHANGED <<head, partial>>
    BY DEF scan_guard
  <2> QED
    BY <2>1, NotesDrain, ChosenSame
<1>4. Range(array') \subseteq Range(array) \union {p}
  <2>1. p \in Values \union {NULL} /\ array \in Seq(Values)
    BY <1>0, <1>1 DEF TypeOK
  <2>2. CASE p = NULL
    BY <1>2, <2>2
  <2>3. CASE p # NULL
    <3>1. array' = Append(array, p) /\ p \in Values
      BY <1>2, <2>1, <2>3
    <3>2. /\ Len(array) \in Nat /\ DOMAIN array = 1 .. Len(array)
          /\ DOMAIN array' = 1 .. Len(array) + 1
          /\ \A i \in 1 .. Len(array) + 1 : array'[i] = IF i = Len(array) + 1 THEN p ELSE array[i]
      BY <2>1, <3>1
    <3>3. ASSUME NEW x \in Range(array') PROVE x \in Range(array) \union {p}
      <4>1. PICK i \in 1 .. Len(array) + 1 : x = array'[i]
        BY <3>2, <3>3 DEF Range
      <4> QED
        BY <3>2, <4>1 DEF Range
    <3> QED
      BY <3>3
  <2> QED
    BY <2>2, <2>3
<1>5. \A c \in CPUs, s \in Slots :
         Unscanned(c, s)' => Unscanned(c, s) /\ ~ (c = k /\ s = j)
  <2>1. \/ dpc' = "scan" /\ cpu' = k /\ idx' = j + 1
        \/ dpc' = "scan" /\ cpu' = k + 1 /\ idx' = 1
        \/ dpc' = "sort"
    BY <1>0, <1>1 DEF scan_guard
  <2>2. CPUs \subseteq Nat /\ Slots \subseteq Nat
    BY Constants
  <2> QED
    BY <1>0, <1>1, <2>1, <2>2 DEF Unscanned
<1>6. Threats' \subseteq Threats \ {<<k, j>>}
  <2>1. ASSUME NEW g \in Threats' PROVE g \in Threats \ {<<k, j>>}
    <3>1. /\ g \in CPUs \X Slots /\ g[2] \in hga_mask[g[1]] /\ Unscanned(g[1], g[2])'
          /\ \/ hg_val[g[1]][g[2]] \in Chosen
             \/ rslot[g[1]] = g[2] /\ rpc[g[1]] \in {"set", "again"} /\ rval[g[1]] \in Chosen
      BY <1>2, <1>3, <2>1 DEF Threats, reader
    <3>2. g[1] \in CPUs /\ g[2] \in Slots
      BY <3>1
    <3>3. Unscanned(g[1], g[2]) /\ ~ (g[1] = k /\ g[2] = j)
      BY <1>5, <3>1, <3>2
    <3> QED
      BY <3>1, <3>3 DEF Threats
  <2> QED
    BY <2>1
<1>7. CASE p \notin Chosen
  <2>1. Found' \subseteq Found
    BY <1>3, <1>4, <1>7 DEF Found
  <2> QED
    BY <1>6, <2>1, BoundedLess
<1>8. CASE p \in Chosen
  <2>1. p # NULL
    BY <1>8, PointerIsSafe
  <2>2. <<k, j>> \in Threats
    <3>1. j \in hga_mask[k] /\ Unscanned(k, j)
      BY <1>0, <1>1, <2>1 DEF Readers, Unscanned
    <3> QED
      BY <1>0, <1>1, <1>8, <3>1 DEF Threats
  <2>3. Cardinality(Threats') <= Cardinality(Threats) - 1
    <3>1. /\ IsFiniteSet(Threats \ {<<k, j>>})
          /\ Cardinality(Threats \ {<<k, j>>}) = Cardinality(Threats) - 1
      BY <2>2, BoundedFinite, FS_RemoveElement
    <3>2. Cardinality(Threats') <= Cardinality(Threats \ {<<k, j>>})
      BY <1>6, <3>1, FS_Subset
    <3> QED
      BY <3>1, <3>2
  <2>4. Cardinality(Found') <= Cardinality(Found) + 1
    <3>1. Found' \subseteq Found \union {p}
      BY <1>3, <1>4 DEF Found
    <3>2. /\ IsFiniteSet(Found \union {p})
          /\ Cardinality(Found \union {p}) <= Cardinality(Found) + 1
      BY BoundedFinite, FS_AddElement
    <3>3. Cardinality(Found') <= Cardinality(Found \union {p})
      BY <3>1, <3>2, FS_Subset
    <3>4. Cardinality(Found \union {p}) \in Nat
      BY <3>2, FS_CardinalityType
    <3> QED
      BY <3>2, <3>3, <3>4, BoundedFinite
  <2>5. /\ Cardinality(Found) \in Nat /\ Cardinality(Threats) \in Nat
        /\ Cardinality(Found') \in Nat /\ Cardinality(Threats') \in Nat
        /\ NCPU * HAZARD_GUARD_SLOTS \in Nat
    BY BoundedFinite, UsedFinite, FS_CardinalityType
  <2>6. Cardinality(Found') + Cardinality(Threats') <= Cardinality(Found) + Cardinality(Threats)
    BY <2>3, <2>4, <2>5
  <2> QED
    BY <2>5, <2>6, Constants DEF Bounded
<1> QED
  BY <1>7, <1>8

(* Each record that has been kept is of another value that was found.      *)
LEMMA PosBound ==
    ASSUME TypeOK, Phases, Exact, Kept, Bounded, dpc = "filter"
    PROVE  pos <= NCPU * HAZARD_GUARD_SLOTS
<1>1. partial \in Buckets /\ pos \in Nat /\ pos <= hazard_bucket_count
  BY Constants DEF Phases, Busy, TypeOK
<1>2. \A i \in 1 .. pos : i \in Entries /\ Noted(partial, i)
  BY <1>1, Constants DEF Noted, Entries
<1> DEFINE f == [i \in 1 .. pos |-> hb_recs[partial][i]]
<1>3. \A i \in 1 .. pos : f[i] \in Found
  BY <1>1, <1>2 DEF Found, Chosen, Kept, Exact
<1>4. \A i, j \in 1 .. pos : f[i] = f[j] => i = j
  BY <1>1, <1>2, ExactUnique
<1>5. f \in Injection(1 .. pos, Found)
  BY <1>3, <1>4 DEF Injection, IsInjective
<1>6. Cardinality(1 .. pos) <= Cardinality(Found)
  BY <1>5, BoundedFinite, FS_Injection
<1>7. Cardinality(1 .. pos) = pos
  BY <1>1, FS_Interval
<1>8. NCPU * HAZARD_GUARD_SLOTS \in Nat
  BY UsedFinite, FS_CardinalityType
<1> QED
  BY <1>1, <1>6, <1>7, <1>8, BoundedFinite DEF Bounded

(* And so is the one that is about to be: there is room for it.            *)
LEMMA KeepBound ==
    ASSUME MaxGuards < hazard_bucket_count,
           TypeOK, NEW place, Placed(place), Once, Phases, Exact, Kept, Bounded,
           NEW v \in Values, filter_keep(v)
    PROVE  pos + 1 < hazard_bucket_count
<1>1. /\ dpc = "filter" /\ head # <<>> /\ idx <= hb_count[Head(head)]
      /\ v = hb_recs[Head(head)][idx] /\ lo < hi /\ probe = v
  BY DEF filter_keep, filtering
<1>2. /\ Head(head) \in Buckets /\ partial \in Buckets /\ pos \in Nat /\ idx \in Nat \ {0}
      /\ Listed(Head(head)) /\ due(Head(head)) = idx /\ Head(head) \in Range(head)
      /\ partial = Head(head) => pos < idx
  BY <1>1, InHand
<1>3. idx \in Entries /\ pos <= hazard_bucket_count
  <2>1. hb_count[Head(head)] \in Nat /\ hb_count[Head(head)] <= hazard_bucket_count
    BY <1>2, CountType
  <2> QED
    BY <1>1, <1>2, <2>1, Constants DEF Entries, TypeOK
<1>4. \A i \in 1 .. pos : i \in Entries /\ Noted(partial, i)
  BY <1>2, <1>3, Constants DEF Noted, Entries
<1>5. Noted(Head(head), idx)
  BY <1>1, <1>2 DEF Noted
<1>6. v \in Found
  <2>1. v \in Chosen
    BY <1>1, <1>2, <1>3, <1>5 DEF Chosen
  <2>2. lo \in Nat /\ hi \in Nat /\ hi <= Len(array) /\ Len(array) \in Nat
    BY DEF TypeOK
  <2>3. (lo + hi) \div 2 \in Nat /\ (lo + hi) \div 2 < hi
    BY <1>1, <2>2, Half
  <2>4. (lo + hi) \div 2 + 1 \in 1 .. Len(array)
    BY <2>2, <2>3
  <2>5. DOMAIN array = 1 .. Len(array) /\ v = array[(lo + hi) \div 2 + 1]
    BY <1>1 DEF TypeOK, probe
  <2> QED
    BY <2>1, <2>4, <2>5 DEF Found, Range
<1> DEFINE f == [i \in 1 .. pos + 1 |-> IF i <= pos THEN hb_recs[partial][i] ELSE v]
<1>7. ASSUME NEW i \in 1 .. pos PROVE hb_recs[partial][i] \in Found /\ hb_recs[partial][i] # v
  <2>1. i \in Entries /\ Noted(partial, i)
    BY <1>4
  <2>2. hb_recs[partial][i] \in Found
    BY <1>2, <2>1 DEF Found, Chosen, Kept, Exact
  <2>3. ~ (partial = Head(head) /\ i = idx)
    BY <1>2
  <2>4. hb_recs[partial][i] # v
    BY <1>1, <1>2, <1>3, <1>5, <2>1, <2>3, ExactUnique
  <2> QED
    BY <2>2, <2>4
<1>8. \A i \in 1 .. pos + 1 : f[i] \in Found
  <2>1. \A i \in 1 .. pos + 1 : i <= pos => i \in 1 .. pos
    BY <1>2
  <2> QED
    BY <1>6, <1>7, <2>1
<1>9. \A i, j \in 1 .. pos + 1 : f[i] = f[j] => i = j
  <2>1. ASSUME NEW i \in 1 .. pos + 1, NEW j \in 1 .. pos + 1, f[i] = f[j] PROVE i = j
    <3>1. CASE i <= pos /\ j <= pos
      <4>1. i \in 1 .. pos /\ j \in 1 .. pos
        BY <1>2, <3>1
      <4> QED
        BY <1>2, <1>4, <2>1, <3>1, <4>1, ExactUnique
    <3>2. CASE i <= pos /\ ~ (j <= pos)
      <4>1. i \in 1 .. pos
        BY <1>2, <3>2
      <4> QED
        BY <1>7, <2>1, <3>2, <4>1
    <3>3. CASE ~ (i <= pos) /\ j <= pos
      <4>1. j \in 1 .. pos
        BY <1>2, <3>3
      <4> QED
        BY <1>7, <2>1, <3>3, <4>1
    <3>4. CASE ~ (i <= pos) /\ ~ (j <= pos)
      BY <1>2, <3>4
    <3> QED
      BY <3>1, <3>2, <3>3, <3>4
  <2> QED
    BY <2>1
<1>10. f \in Injection(1 .. pos + 1, Found)
  BY <1>8, <1>9 DEF Injection, IsInjective
<1>11. Cardinality(1 .. pos + 1) <= Cardinality(Found)
  BY <1>10, BoundedFinite, FS_Injection
<1>12. Cardinality(1 .. pos + 1) = pos + 1
  <2>1. 1 \in Int /\ pos + 1 \in Int /\ ~ (1 > pos + 1) /\ pos + 1 - 1 + 1 = pos + 1
    BY <1>2
  <2> QED
    BY <2>1, FS_Interval
<1> QED
  BY <1>2, <1>11, <1>12, BoundedFinite, Constants DEF Bounded

-----------------------------------------------------------------------------
(* The values in use.                                                      *)

(* Steps that change neither pointer, values nor writers.                  *)
LEMMA OwnedSame ==
    ASSUME TypeOK, Owned, UNCHANGED <<pointer, wold>>,
           \A w \in Writers : wpc'[w] # "idle" => wpc[w] # "idle",
           \A v \in Values : vstate[v] = "live" => vstate'[v] = "live"
    PROVE  Owned'
BY DEF Owned, TypeOK

(* A store makes its value live and leaves the old one to the writer.      *)
LEMMA OwnedStore ==
    ASSUME TypeOK, Owned, Exact, NEW w \in Writers, NEW v \in Values \union {NULL},
           hazard_ptr_serialized_store(w, v)
    PROVE  /\ Owned'
           /\ \A x \in Values : vstate'[x] = "retired" <=> vstate[x] = "retired"
<1>1. /\ wpc[w] = "idle" /\ pointer' = v
      /\ v # NULL => v \in Values /\ vstate[v] = "free"
      /\ \A x \in Values : vstate'[x] = IF x = v THEN "live" ELSE vstate[x]
      /\ \A x \in Writers : wold'[x] = IF x = w THEN pointer ELSE wold[x]
      /\ \A x \in Writers : x # w => wpc'[x] = wpc[x]
      /\ wpc'[w] = "idle" \/ pointer # NULL
  BY Constants DEF hazard_ptr_serialized_store, TypeOK
<1>2. pointer \in Values \union {NULL}
  BY DEF TypeOK
<1>3. pointer' # NULL => vstate'[pointer'] = "live"
  BY <1>1
<1>4. ASSUME NEW x \in Writers, wpc'[x] # "idle"
      PROVE  wold'[x] \in Values /\ vstate'[wold'[x]] = "live" /\ wold'[x] # pointer'
  <2>1. CASE x = w
    BY <1>1, <1>2, <1>4, <2>1, Constants DEF Owned
  <2>2. CASE x # w
    <3>1. wold'[x] = wold[x] /\ wold[x] \in Values /\ vstate[wold[x]] = "live"
      BY <1>1, <1>4, <2>2 DEF Owned
    <3>2. wold[x] # v
      BY <1>1, <3>1, Constants
    <3> QED
      BY <1>1, <3>1, <3>2
  <2> QED
    BY <2>1, <2>2
<1>5. \A x, y \in Writers :
          wpc'[x] # "idle" /\ wpc'[y] # "idle" /\ wold'[x] = wold'[y] => x = y
  BY <1>1 DEF Owned
<1>6. \A x \in Values : vstate'[x] = "retired" <=> vstate[x] = "retired"
  BY <1>1, Constants
<1> QED
  BY <1>3, <1>4, <1>5, <1>6 DEF Owned

(* A retirement takes the value from its writer; nobody else has it.       *)
LEMMA OwnedRetire ==
    ASSUME TypeOK, Owned, NEW w \in Writers, NEW c \in CPUs, NEW b \in Buckets,
           NEW large, NEW new, NEW free, NEW spare, wpc[w] = "retire",
           retire_record(w, c, b, free, spare, large, new)
    PROVE  Owned'
<1>1. /\ pointer' = pointer
      /\ \A x \in Values : x # wold[w] => vstate'[x] = vstate[x]
      /\ \A x \in Writers : x # w => wold'[x] = wold[x] /\ wpc'[x] = wpc[x]
      /\ wpc'[w] = "idle"
  BY DEF retire_record, TypeOK
<1>2. pointer \in Values \union {NULL} /\ wold[w] # pointer
  BY DEF Owned, TypeOK
<1>3. \A x \in Writers : x # w /\ wpc[x] # "idle" => wold[x] # wold[w]
  BY DEF Owned
<1> QED
  BY <1>1, <1>2, <1>3 DEF Owned

-----------------------------------------------------------------------------
(* The inductive invariant.                                                *)

(* The invariant holds at boot: all buckets are free, all values too.      *)
LEMMA IInvInit ==
    ASSUME Init
    PROVE  IInv
<1> USE DEF Init
<1>1. TypeOK
  <2>1. /\ <<>> \in Seq(Buckets) /\ <<>> \in Seq(Values) /\ Len(<<>>) = 0
        /\ 0 \in 0 .. hazard_bucket_count - 1 /\ 0 \in 0 .. hazard_bucket_count /\ 0 \in 0 .. 0
    BY Constants
  <2> QED
    BY <2>1, Constants, NoRecordsIs DEF TypeOK
<1>2. Placed([b \in Buckets |-> "free"])
  BY EmptyOnce DEF Placed
<1>3. Once /\ Counted
  BY EmptyOnce DEF Once, Counted
<1>4. Phases
  BY EmptyOnce, Constants DEF Phases, Busy
<1>5. Owned /\ Kept
  BY DEF Owned, Kept
<1>6. \A b \in Buckets, i \in Entries : ~ Noted(b, i)
  BY EmptyOnce, Constants DEF Noted, Listed
<1>7. Exact /\ Chosen = {}
  BY <1>6 DEF Exact, Chosen
<1>8. Readers /\ Bounded
  <2>1. Used = {} /\ Found = {} /\ Threats = {}
    BY <1>7 DEF Used, Found, Threats, Unscanned
  <2>2. Cardinality({}) = 0
    BY FS_EmptySet
  <2>3. GuardsInUse = 0
    BY <2>1, <2>2, UsedFinite
  <2>4. NCPU * HAZARD_GUARD_SLOTS \in Nat
    BY UsedFinite, FS_CardinalityType
  <2> QED
    BY <2>1, <2>2, <2>3, <2>4, Constants DEF Readers, Bounded
<1> QED
  BY <1>1, <1>2, <1>3, <1>4, <1>5, <1>7, <1>8 DEF IInv

(* Steps that keep no record.                                              *)
LEMMA KeptSame ==
    ASSUME Kept, UNCHANGED <<pos, partial, hb_recs, array>>
    PROVE  Kept'
BY DEF Kept

(* Nothing has been kept.                                                  *)
LEMMA KeptNone ==
    ASSUME pos' = 0
    PROVE  Kept'
BY DEF Kept

(* Readers preserve the invariant.                                         *)
LEMMA IInvReaders ==
    ASSUME IInv, NEW c \in CPUs, NEW s \in Slots, NEW n \in Slots,
           \/ hazard_guard_get(c, s, n) \/ hazard_guard_put(c, s, n)
           \/ hazard_guard_acquire(c, s) \/ hazard_guard_set(c)
           \/ hazard_guard_acquire_loop(c)
    PROVE  IInv'
<1>0. PICK place : Placed(place)
  BY DEF IInv
<1>i. TypeOK /\ Once /\ Counted /\ Phases /\ Owned /\ Exact /\ Kept /\ Readers /\ Bounded
  BY DEF IInv
<1>1. /\ UNCHANGED <<pointer, vstate, hga_bucket, hb_recs, hb_count, bfree, wpc, wold, wfree,
                     dqueue, dbatch, pending, dpc, cpu, idx, head, partial, pos, lo, hi, array>>
      /\ UNCHANGED drain
  BY DEF hazard_guard_get, hazard_guard_put, hazard_guard_acquire, hazard_guard_set,
         hazard_guard_acquire_loop, bucket, writer, drain, filter
<1>2. TypeOK'
  BY <1>i, TypeReaders
<1>3. Placed(place)' /\ Once' /\ Counted'
  BY <1>0, <1>i, <1>1, PlacesSame
<1>4. Phases' /\ Owned' /\ Kept'
  BY <1>i, <1>1, PhasesSame, OwnedSame, KeptSame
<1>5. Exact'
  BY <1>i, <1>1, NotesUntouched, ExactSame
<1>6. Readers'
  BY <1>i, ReadersGet, ReadersPut, ReadersAcquire
<1>7. Bounded'
  BY <1>i, ThreatsReaders, BoundedLess
<1> QED
  BY <1>2, <1>3, <1>4, <1>5, <1>6, <1>7 DEF IInv

(* Stores, and retirements that find no bucket, preserve the invariant.    *)
LEMMA IInvWriters ==
    ASSUME IInv, NEW w \in Writers, NEW c \in CPUs, NEW v \in Values \union {NULL},
           \/ hazard_ptr_serialized_store(w, v)
           \/ retire_nobucket(w, c) \/ retire_alloc(w)
    PROVE  IInv'
<1>0. PICK place : Placed(place)
  BY DEF IInv
<1>i. TypeOK /\ Once /\ Counted /\ Phases /\ Owned /\ Exact /\ Kept /\ Readers /\ Bounded
  BY DEF IInv
<1>1. /\ UNCHANGED <<hga_bucket, hb_recs, hb_count,
                     dqueue, dbatch, pending, dpc, cpu, idx, head, partial, pos, lo, hi, array>>
      /\ UNCHANGED drain /\ UNCHANGED reader
  BY DEF hazard_ptr_serialized_store, retire_nobucket, retire_alloc, bucket, drain, filter
<1>2. TypeOK'
  BY <1>i, TypeWriters
<1>3. (\E p : Placed(p)') /\ Once' /\ Counted'
  <2>1. CASE retire_alloc(w)
    BY <1>0, <1>i, <2>1, PlacesAlloc
  <2>2. CASE hazard_ptr_serialized_store(w, v) \/ retire_nobucket(w, c)
    <3>1. UNCHANGED <<wfree, bfree>>
      BY <2>2 DEF hazard_ptr_serialized_store, retire_nobucket, bucket
    <3> QED
      BY <1>0, <1>i, <1>1, <3>1, PlacesSame
  <2> QED
    BY <2>1, <2>2
<1>4. /\ Owned'
      /\ \A x \in Values : vstate'[x] = "retired" <=> vstate[x] = "retired"
  <2>1. CASE hazard_ptr_serialized_store(w, v)
    BY <1>i, <2>1, OwnedStore
  <2>2. CASE retire_nobucket(w, c) \/ retire_alloc(w)
    <3>1. /\ UNCHANGED <<pointer, wold, vstate>>
          /\ \A x \in Writers : wpc'[x] # "idle" => wpc[x] # "idle"
      BY <1>i, <2>2 DEF retire_nobucket, retire_alloc, TypeOK
    <3> QED
      BY <1>i, <3>1, OwnedSame
  <2> QED
    BY <2>1, <2>2
<1>5. NotesSame /\ Exact' /\ Chosen' = Chosen
  BY <1>i, <1>1, <1>4, NotesUntouched, ExactSame, ChosenSame
<1>6. Phases' /\ Kept' /\ Readers'
  BY <1>i, <1>1, PhasesSame, KeptSame, ReadersSame
<1>7. Bounded'
  <2>1. Found' = Found
    BY <1>1, <1>5 DEF Found
  <2> QED
    BY <1>i, <1>1, <1>5, <2>1, ThreatsSame, BoundedLess
<1> QED
  BY <1>2, <1>3, <1>4, <1>5, <1>6, <1>7 DEF IInv

(* Retirements preserve the invariant.                                     *)
LEMMA IInvRetire ==
    ASSUME IInv, NEW w \in Writers, NEW c \in CPUs, hazard_retire(w, c)
    PROVE  IInv'
<1>0. PICK place : Placed(place)
  BY DEF IInv
<1>i. TypeOK /\ Once /\ Counted /\ Phases /\ Owned /\ Exact /\ Kept /\ Readers /\ Bounded
  BY DEF IInv
<1>1. PICK b \in Buckets, large \in BOOLEAN, new \in Buckets \union {NULL},
           free \in SUBSET Buckets, spare \in SUBSET Buckets :
               /\ wpc[w] = "retire"
               /\ Choice(place, w, c, b, free, spare, new)
               /\ retire_record(w, c, b, free, spare, large, new)
  BY <1>0, <1>i, RetireChoice
<1>2. wold[w] \in Values
  BY <1>i, <1>1 DEF Owned
<1>3. TypeOK'
  BY <1>i, <1>1, <1>2, TypeRetire
<1>4. (\E p : Placed(p)') /\ Once' /\ Counted'
  BY <1>0, <1>i, <1>1, PlacesRetire
<1>5. Phases'
  BY <1>0, <1>i, <1>1, PhasesRetire
<1>6. Exact' /\ Chosen' = Chosen /\ Kept'
  BY <1>0, <1>i, <1>1, NotesRetire
<1>7. Owned'
  BY <1>i, <1>1, OwnedRetire
<1>8. UNCHANGED reader /\ UNCHANGED <<dpc, cpu, idx, array>>
  BY <1>1 DEF retire_record, drain
<1>9. Bounded' /\ Readers'
  <2>1. Found' = Found
    BY <1>6, <1>8 DEF Found
  <2> QED
    BY <1>i, <1>6, <1>8, <2>1, ThreatsSame, BoundedLess, ReadersSame
<1> QED
  BY <1>3, <1>4, <1>5, <1>6, <1>7, <1>9 DEF IInv

(* The drain up to the sort preserves the invariant.                       *)
LEMMA IInvDrain ==
    ASSUME IInv,
           \/ dequeue_batch \/ hazard_deallocate_queue_invoke
           \/ hazard_scan_and_reclaim \/ scan_guard \/ qsort
    PROVE  IInv'
<1>0. PICK place : Placed(place)
  BY DEF IInv
<1>i. TypeOK /\ Once /\ Counted /\ Phases /\ Owned /\ Exact /\ Kept /\ Readers /\ Bounded
  BY DEF IInv
<1>1. UNCHANGED <<pointer, vstate, wpc, wold>> /\ UNCHANGED reader
  BY DEF dequeue_batch, hazard_deallocate_queue_invoke, hazard_scan_and_reclaim, scan_guard,
         qsort, writer
<1>2. TypeOK' /\ Phases'
  BY <1>i, TypeDrain, PhasesDrain
<1>3. (\E p : Placed(p)') /\ Once' /\ Counted'
  <2>1. CASE dequeue_batch \/ hazard_deallocate_queue_invoke \/ hazard_scan_and_reclaim
    BY <1>0, <1>i, <2>1, PlacesDrain
  <2>2. CASE scan_guard \/ qsort
    <3>1. UNCHANGED <<hga_bucket, wfree, bfree, dqueue, dbatch, pending, head, partial, hb_count>>
      BY <2>2 DEF scan_guard, qsort, bucket, writer, filter
    <3> QED
      BY <1>0, <1>i, <3>1, PlacesSame
  <2> QED
    BY <2>1, <2>2
<1>4. NotesSame
  BY <1>i, NotesDrain
<1>5. Exact' /\ Owned' /\ Readers'
  BY <1>i, <1>1, <1>4, ExactSame, OwnedSame, ReadersSame
<1>6. Kept'
  <2>1. pos' = 0
    <3>1. CASE dequeue_batch \/ hazard_deallocate_queue_invoke
      BY <1>i, <3>1 DEF dequeue_batch, hazard_deallocate_queue_invoke, filter, Phases, Busy
    <3>2. CASE hazard_scan_and_reclaim
      BY <3>2 DEF hazard_scan_and_reclaim
    <3>3. CASE scan_guard \/ qsort
      BY <1>i, <3>3 DEF scan_guard, qsort, filter, Phases
    <3> QED
      BY <3>1, <3>2, <3>3
  <2> QED
    BY <2>1, KeptNone
<1>7. Bounded'
  <2>1. CASE dequeue_batch \/ hazard_deallocate_queue_invoke
    <3>1. UNCHANGED <<head, partial, array>> /\ dpc' # "scan"
      BY <2>1 DEF dequeue_batch, hazard_deallocate_queue_invoke, filter
    <3>2. Found' = Found /\ Threats' = {}
      BY <1>4, <3>1, ChosenSame, NoThreats DEF Found
    <3> QED
      BY <1>i, <3>2, BoundedLess
  <2>2. CASE hazard_scan_and_reclaim
    BY <1>i, <2>2, BoundedStart
  <2>3. CASE scan_guard
    BY <1>i, <2>3, BoundedScan
  <2>4. CASE qsort
    <3>1. UNCHANGED <<head, partial>> /\ dpc' # "scan"
      BY <2>4 DEF qsort
    <3>2. Range(array') \subseteq Range(array)
      <4>1. CASE idx > Len(array)
        BY <2>4, <4>1 DEF qsort
      <4>2. CASE ~ (idx > Len(array))
        <5>1. idx \in 1 .. Len(array) /\ array \in Seq(Values)
          BY <1>i, <4>2 DEF TypeOK
        <5>2. PICK l \in 1 .. idx : array' = inserted(array, l, idx)
          BY <2>4, <4>2 DEF qsort
        <5> QED
          BY <5>1, <5>2, InsertedKeeps
      <4> QED
        BY <4>1, <4>2
    <3>3. Found' \subseteq Found /\ Threats' = {}
      BY <1>4, <3>1, <3>2, ChosenSame, NoThreats DEF Found
    <3> QED
      BY <1>i, <3>3, BoundedLess
  <2> QED
    BY <2>1, <2>2, <2>3, <2>4
<1> QED
  BY <1>2, <1>3, <1>5, <1>6, <1>7 DEF IInv

(* The filter preserves the invariant: the partial bucket never gets full. *)
LEMMA IInvFilter ==
    ASSUME MaxGuards < hazard_bucket_count, IInv, NEW v \in Values \union {NULL},
           \/ v \in Values /\ (hazard_bsearch(v) \/ filter_destroy(v) \/ filter_keep(v))
           \/ hazard_filter_bucket \/ hazard_filter_finish
    PROVE  IInv'
<1>0. PICK place : Placed(place)
  BY DEF IInv
<1>i. TypeOK /\ Once /\ Counted /\ Phases /\ Owned /\ Exact /\ Kept /\ Readers /\ Bounded
  BY DEF IInv
<1>1. UNCHANGED <<pointer, wpc, wold>> /\ UNCHANGED reader
  BY DEF hazard_bsearch, filter_destroy, filter_keep, hazard_filter_bucket,
         hazard_filter_finish, writer
<1>2. Readers' /\ dpc = "filter" /\ dpc' # "scan"
  BY <1>i, <1>1, ReadersSame
  DEF hazard_bsearch, filter_destroy, filter_keep, hazard_filter_bucket,
      hazard_filter_finish, filtering
<1>3. TypeOK'
  BY <1>i, TypeFilter
<1>4. Threats' = {}
  BY <1>2, NoThreats
<1>5. CASE hazard_bsearch(v)
  <2>1. UNCHANGED <<vstate, hga_bucket, hb_recs, hb_count, bfree, wfree, dqueue, dbatch,
                    pending, head, partial, pos, dpc, idx, array>>
    BY <1>5 DEF hazard_bsearch, bucket, writer
  <2>2. Placed(place)' /\ Once' /\ Counted'
    BY <1>0, <1>i, <2>1, PlacesSame
  <2>3. Phases'
    BY <1>0, <1>i, <1>5, PhasesFilter
  <2>4. Exact' /\ Owned' /\ Kept' /\ Chosen' = Chosen
    BY <1>i, <1>1, <2>1, NotesUntouched, ExactSame, ChosenSame, OwnedSame, KeptSame
  <2>5. Bounded'
    BY <1>i, <1>4, <2>1, <2>4, BoundedLess DEF Found
  <2> QED
    BY <1>2, <1>3, <2>2, <2>3, <2>4, <2>5 DEF IInv
<1>6. CASE v \in Values /\ filter_destroy(v)
  <2>1. UNCHANGED <<hga_bucket, hb_recs, hb_count, bfree, wfree, dqueue, dbatch,
                    pending, head, partial, pos, array>>
    BY <1>6 DEF filter_destroy, bucket, writer
  <2>2. Placed(place)' /\ Once' /\ Counted'
    BY <1>0, <1>i, <2>1, PlacesSame
  <2>3. Phases' /\ Kept'
    BY <1>0, <1>i, <1>6, <2>1, PhasesFilter, KeptSame
  <2>4. Exact' /\ Chosen' \subseteq Chosen /\ vstate[v] = "retired"
    BY <1>0, <1>i, <1>6, NotesDestroy
  <2>5. Owned'
    <3>1. \A x \in Values : vstate[x] = "live" => vstate'[x] = "live"
      BY <1>i, <1>6, <2>4 DEF filter_destroy, TypeOK
    <3> QED
      BY <1>i, <1>1, <3>1, OwnedSame
  <2>6. Bounded'
    BY <1>i, <1>4, <2>1, <2>4, BoundedLess DEF Found
  <2> QED
    BY <1>2, <1>3, <2>2, <2>3, <2>4, <2>5, <2>6 DEF IInv
<1>7. CASE v \in Values /\ filter_keep(v)
  <2>0. pos + 1 < hazard_bucket_count
    BY <1>0, <1>i, <1>7, KeepBound
  <2>1. UNCHANGED <<vstate, hga_bucket, hb_count, bfree, wfree, dqueue, dbatch,
                    pending, head, partial, array>>
    BY <1>7, <2>0, <1>i, Constants DEF filter_keep, writer, TypeOK
  <2>2. Placed(place)' /\ Once' /\ Counted'
    BY <1>0, <1>i, <2>1, PlacesSame
  <2>3. Phases'
    BY <1>0, <1>i, <1>7, <2>0, PhasesFilter
  <2>4. Exact' /\ Chosen' \subseteq Chosen /\ Kept'
    BY <1>0, <1>i, <1>7, <2>0, NotesKeep
  <2>5. Owned'
    BY <1>i, <1>1, <2>1, OwnedSame
  <2>6. Bounded'
    BY <1>i, <1>4, <2>1, <2>4, BoundedLess DEF Found
  <2> QED
    BY <1>2, <1>3, <2>2, <2>3, <2>4, <2>5, <2>6 DEF IInv
<1>8. CASE hazard_filter_bucket
  <2>1. UNCHANGED <<vstate, pos, partial, array>>
    BY <1>8 DEF hazard_filter_bucket
  <2>2. (\E p : Placed(p)') /\ Once' /\ Counted'
    BY <1>0, <1>i, <1>8, PlacesFilter
  <2>3. Phases'
    BY <1>0, <1>i, <1>8, PhasesFilter
  <2>4. NotesSame /\ Chosen' = Chosen
    BY <1>0, <1>i, <1>8, NotesFilterBucket
  <2>5. Exact' /\ Owned'
    BY <1>i, <1>1, <2>1, <2>4, ExactSame, OwnedSame
  <2>6. Kept'
    <3>1. partial \in Buckets /\ hb_recs'[partial] = hb_recs[partial]
      BY <1>i, <1>2, <1>8 DEF hazard_filter_bucket, Phases, Busy, TypeOK, bucket
    <3> QED
      BY <1>i, <2>1, <3>1 DEF Kept
  <2>7. Bounded'
    BY <1>i, <1>4, <2>1, <2>4, BoundedLess DEF Found
  <2> QED
    BY <1>2, <1>3, <2>2, <2>3, <2>5, <2>6, <2>7 DEF IInv
<1>9. CASE hazard_filter_finish
  <2>1. vstate' = vstate /\ pos' = 0
    BY <1>9 DEF hazard_filter_finish
  <2>2. (\E p : Placed(p)') /\ Once' /\ Counted'
    BY <1>0, <1>i, <1>9, PlacesFilter
  <2>3. pos <= NCPU * HAZARD_GUARD_SLOTS
    BY <1>i, <1>2, PosBound
  <2>4. Phases'
    BY <1>0, <1>i, <1>9, <2>3, PhasesFilter
  <2>5. NotesSame /\ Chosen' = {}
    BY <1>0, <1>i, <1>9, NotesFinish
  <2>6. Exact' /\ Owned' /\ Kept'
    BY <1>i, <1>1, <2>1, <2>5, ExactSame, OwnedSame, KeptNone
  <2>7. Bounded'
    BY <1>i, <1>4, <2>5, BoundedLess DEF Found
  <2> QED
    BY <1>2, <1>3, <2>2, <2>4, <2>6, <2>7 DEF IInv
<1> QED
  BY <1>5, <1>6, <1>7, <1>8, <1>9

(* Steps that change nothing preserve the invariant.                       *)
LEMMA IInvStutter ==
    ASSUME IInv, UNCHANGED vars
    PROVE  IInv'
<1>0. PICK place : Placed(place)
  BY DEF IInv
<1> USE DEF vars, reader, writer, bucket, drain, filter
<1>1. TypeOK' /\ Placed(place)' /\ Once' /\ Counted' /\ Phases' /\ Owned'
  <2>1. TypeOK'
    BY DEF IInv, TypeOK
  <2> QED
    BY <1>0, <2>1, PlacesSame, PhasesSame, OwnedSame DEF IInv
<1>2. NotesSame /\ Exact' /\ Chosen' = Chosen
  BY NotesUntouched, ExactSame, ChosenSame DEF IInv
<1>3. Kept' /\ Readers'
  BY KeptSame, ReadersSame DEF IInv
<1>4. Bounded'
  <2>1. Found' = Found /\ Threats' \subseteq Threats
    BY <1>2, ThreatsSame DEF Found
  <2> QED
    BY <2>1, BoundedLess DEF IInv
<1> QED
  BY <1>1, <1>2, <1>3, <1>4 DEF IInv

(* Every step preserves the invariant.                                     *)
LEMMA IInvStep ==
    ASSUME MaxGuards < hazard_bucket_count, IInv, [Next]_vars
    PROVE  IInv'
<1>1. CASE UNCHANGED vars
  BY <1>1, IInvStutter
<1>2. CASE \E c \in CPUs, s \in Slots, n \in Slots :
              hazard_guard_get(c, s, n) \/ hazard_guard_put(c, s, n)
  BY <1>2, IInvReaders
<1>3. CASE \E c \in CPUs, s \in Slots : hazard_guard_acquire(c, s)
  BY <1>3, IInvReaders
<1>4. CASE \E c \in CPUs : hazard_guard_set(c) \/ hazard_guard_acquire_loop(c)
  BY <1>4, Constants, IInvReaders
<1>5. CASE \E w \in Writers, v \in Values \union {NULL} : hazard_ptr_serialized_store(w, v)
  BY <1>5, Constants, IInvWriters
<1>6. CASE \E w \in Writers, c \in CPUs : hazard_retire(w, c)
  BY <1>6, IInvRetire
<1>7. CASE \E w \in Writers, c \in CPUs : retire_nobucket(w, c)
  BY <1>7, IInvWriters
<1>8. CASE \E w \in Writers : retire_alloc(w)
  BY <1>8, Constants, IInvWriters
<1>9. CASE \/ dequeue_batch \/ hazard_deallocate_queue_invoke \/ hazard_scan_and_reclaim
           \/ scan_guard \/ qsort
  BY <1>9, IInvDrain
<1>10. CASE \E v \in Values : hazard_bsearch(v) \/ filter_destroy(v) \/ filter_keep(v)
  BY <1>10, IInvFilter
<1>11. CASE hazard_filter_bucket \/ hazard_filter_finish
  <2>1. NULL \in Values \union {NULL}
    OBVIOUS
  <2> QED
    BY <1>11, <2>1, IInvFilter
<1> QED
  BY <1>1, <1>2, <1>3, <1>4, <1>5, <1>6, <1>7, <1>8, <1>9, <1>10, <1>11 DEF Next

(* As long as fewer guards are in use than a bucket has records, the       *)
(* partial bucket of a filter never fills up and the invariant holds.      *)
THEOREM HazardInvariant ==
    ASSUME MaxGuards < hazard_bucket_count
    PROVE  Spec => []IInv
<1>1. Init => IInv
  BY IInvInit
<1>2. IInv /\ [Next]_vars => IInv'
  BY IInvStep
<1> QED
  BY <1>1, <1>2, PTL DEF Spec

(* The type invariant: slots, buckets and values stay in range, the search *)
(* stays within hbfs_array and no bucket is given more than its records.   *)
THEOREM HazardTypes ==
    ASSUME MaxGuards < hazard_bucket_count
    PROVE  Spec => []TypeOK
<1>1. IInv => TypeOK
  BY DEF IInv
<1> QED
  BY <1>1, HazardInvariant, PTL

-----------------------------------------------------------------------------
(* Recorded is the set of the records that are Noted.                      *)
LEMMA RecordedIs ==
    ASSUME IInv
    PROVE  Recorded = {r \in Buckets \X Entries : Noted(r[1], r[2])}
<1>0. PICK place : Placed(place)
  BY DEF IInv
<1>1. \A b \in Buckets : b \in OnLists <=> Listed(b)
  <2>1. NULL \notin Buckets
    BY Constants
  <2>2. \A b \in Buckets : b \in Range(hga_bucket) <=> \E c \in CPUs : hga_bucket[c] = b
    BY DEF Range, IInv, TypeOK
  <2>3. OnLists = (Range(hga_bucket) \union Range(dqueue) \union Range(dbatch)
                       \union Range(pending) \union Range(head)) \ {NULL}
    <3> DEFINE lists == {hga_bucket, dqueue, dbatch, pending, head}
               ranges == {Range(f) : f \in lists}
    <3>1. /\ Range(hga_bucket) \in ranges /\ Range(dqueue) \in ranges
          /\ Range(dbatch) \in ranges /\ Range(pending) \in ranges /\ Range(head) \in ranges
      OBVIOUS
    <3>2. \A r \in ranges : \/ r = Range(hga_bucket) \/ r = Range(dqueue)
                            \/ r = Range(dbatch) \/ r = Range(pending) \/ r = Range(head)
      OBVIOUS
    <3>3. OnLists = (UNION ranges) \ {NULL}
      BY DEF OnLists
    <3> HIDE DEF ranges
    <3> QED
      BY <3>1, <3>2, <3>3
  <2> QED
    BY <2>1, <2>2, <2>3 DEF Listed
<1>2. \A b \in Buckets : Listed(b) \/ b = partial => b \notin bfree
  <2>1. ASSUME NEW b \in Buckets, b \in bfree, Listed(b) \/ b = partial PROVE FALSE
    <3>1. place[b] = "free" /\ b # NULL
      BY <1>0, <2>1, Constants DEF Placed
    <3> QED
      BY <1>0, <2>1, <3>1 DEF Placed, Listed
  <2> QED
    BY <2>1
<1>3. ASSUME NEW b \in Buckets, NEW i \in Entries
      PROVE  i \in due(b) .. hb_count[b] <=> due(b) <= i /\ i <= hb_count[b]
  <2>1. i \in Int /\ due(b) \in Int /\ hb_count[b] \in Int
    <3>1. due(b) \in Int
      BY DEF due, IInv, TypeOK
    <3>2. hb_count[b] \in Int
      BY CountType DEF IInv
    <3> QED
      BY <3>1, <3>2 DEF Entries
  <2> QED
    BY <2>1
<1>4. ASSUME NEW r \in Buckets \X Entries PROVE r \in Recorded <=> Noted(r[1], r[2])
  <2>1. r[1] \in Buckets /\ r[2] \in Entries
    OBVIOUS
  <2>2. r \in Recorded <=>
            /\ r[1] \notin bfree
            /\ \/ r[1] \in OnLists /\ r[2] \in due(r[1]) .. hb_count[r[1]]
               \/ r[1] = partial /\ r[2] <= pos
    BY <1>4, <2>1 DEF Recorded, Entries
  <2> QED
    BY <1>1, <1>2, <1>3, <2>1, <2>2 DEF Noted
<1>5. Recorded \subseteq Buckets \X Entries
  BY DEF Recorded, Entries
<1> QED
  BY <1>4, <1>5

(* It is finite.                                                           *)
LEMMA RecordedFinite ==
    ASSUME IInv
    PROVE  IsFiniteSet(Recorded)
<1>1. IsFiniteSet(Buckets) /\ IsFiniteSet(Entries)
  <2>1. 1 \in Int /\ NBucket \in Int /\ hazard_bucket_count \in Int
    BY HazardAssumption
  <2> QED
    BY <2>1, FS_Interval DEF Buckets, Entries
<1>2. Recorded \in SUBSET (Buckets \X Entries)
  BY RecordedIs
<1> QED
  BY <1>1, <1>2, FS_Product, FS_Subset

(* That each retired value is in one record is RecordsKept: records and    *)
(* retired values are in one-to-one correspondence.                        *)
LEMMA ExactIsKept ==
    ASSUME IInv
    PROVE  RecordsKept
<1> DEFINE retired == {v \in Values : vstate[v] = "retired"}
           f == [r \in Recorded |-> hb_recs[r[1]][r[2]]]
<1>1. Exact
  BY DEF IInv
<1>2. \A r \in Recorded : /\ r[1] \in Buckets /\ r[2] \in Entries /\ r = <<r[1], r[2]>>
                          /\ Noted(r[1], r[2])
  BY RecordedIs
<1>3. \A r \in Recorded : f[r] \in retired
  BY <1>1, <1>2 DEF Exact
<1>4. \A r, s \in Recorded : f[r] = f[s] => r = s
  <2>1. ASSUME NEW r \in Recorded, NEW s \in Recorded, f[r] = f[s] PROVE r = s
    <3>1. r[1] = s[1] /\ r[2] = s[2]
      BY <1>1, <1>2, <2>1, ExactUnique
    <3> QED
      BY <1>2, <3>1
  <2> QED
    BY <2>1
<1>5. \A v \in retired : \E r \in Recorded : f[r] = v
  <2>1. ASSUME NEW v \in retired PROVE \E r \in Recorded : f[r] = v
    <3>1. PICK b \in Buckets, i \in Entries : Noted(b, i) /\ hb_recs[b][i] = v
      BY <1>1, <2>1 DEF Exact
    <3>2. <<b, i>> \in Recorded
      BY <3>1, RecordedIs
    <3> QED
      BY <3>1, <3>2
  <2> QED
    BY <2>1
<1>6. {hb_recs[r[1]][r[2]] : r \in Recorded} = retired
  BY <1>3, <1>5
<1>7. f \in Injection(Recorded, retired) /\ f \in Surjection(Recorded, retired)
  BY <1>3, <1>4, <1>5 DEF Injection, Surjection, IsInjective
<1>8. Cardinality(Recorded) = Cardinality(retired)
  BY <1>7, RecordedFinite, FS_Surjection
<1> QED
  BY <1>6, <1>8 DEF RecordsKept

(* Records that are not destroyed are kept: with fewer guards in use than  *)
(* a bucket has records, hazard_filter_bucket loses no retired value and   *)
(* duplicates none, whatever readers, writers and the drain interleave.    *)
THEOREM HazardKeepsRecords ==
    ASSUME MaxGuards < hazard_bucket_count
    PROVE  Spec => []RecordsKept
<1>1. IInv => RecordsKept
  BY ExactIsKept
<1> QED
  BY <1>1, HazardInvariant, PTL

(* After a reclaim at most one bucket is pending, with no more records     *)
(* than there are slots.                                                   *)
LEMMA PendingIsFew ==
    ASSUME IInv
    PROVE  DeferredBounded
<1> DEFINE P == {r \in Recorded : r[1] \in Range(pending)}
           N == NCPU * HAZARD_GUARD_SLOTS
<1>n. N \in Nat
  BY UsedFinite, FS_CardinalityType
<1>s. SUFFICES ASSUME dpc = "idle" PROVE Cardinality(P) <= N
  BY DEF DeferredBounded
<1>1. /\ pending \in Seq(Buckets) /\ Len(pending) <= 1 /\ partial = NULL
      /\ \A b \in Range(pending) : hb_count[b] <= N
  BY <1>s DEF IInv, TypeOK, Phases, Busy
<1> HIDE DEF N
<1>2. CASE pending = <<>>
  <2>1. P = {}
    BY <1>2, EmptyOnce
  <2> QED
    BY <1>n, <2>1, FS_EmptySet
<1>3. CASE pending # <<>>
  <2>b. PICK b : b = Head(pending)
    OBVIOUS
  <2>1. b \in Buckets /\ Range(pending) = {b}
    <3>1. Tail(pending) = <<>>
      BY <1>1, <1>3
    <3> QED
      BY <1>1, <1>3, <2>b, <3>1, TailOnce, EmptyOnce
  <2>2. hb_count[b] \in Nat /\ hb_count[b] <= N
    BY <1>1, <2>1, CountType DEF IInv
  <2>3. P \subseteq {b} \X (1 .. hb_count[b])
    <3>1. ASSUME NEW r \in P PROVE r \in {b} \X (1 .. hb_count[b])
      <4>1. r \in Buckets \X Entries /\ Noted(r[1], r[2]) /\ r[1] = b
        BY <2>1, <3>1, RecordedIs
      <4>2. r[2] <= hb_count[b] /\ r[2] \in Entries
        BY <1>1, <2>1, <4>1, Constants DEF Noted
      <4>3. r[2] \in 1 .. hb_count[b]
        BY <2>2, <4>2 DEF Entries
      <4> QED
        BY <4>1, <4>3
    <3> QED
      BY <3>1
  <2>4. /\ IsFiniteSet({b} \X (1 .. hb_count[b]))
        /\ Cardinality({b} \X (1 .. hb_count[b])) = hb_count[b]
    <3>1. IsFiniteSet({b}) /\ Cardinality({b}) = 1
      BY FS_Singleton
    <3>2. IsFiniteSet(1 .. hb_count[b]) /\ Cardinality(1 .. hb_count[b]) = hb_count[b]
      <4>1. 1 \in Int /\ hb_count[b] \in Int
        BY <2>2
      <4>2. (IF 1 > hb_count[b] THEN 0 ELSE hb_count[b] - 1 + 1) = hb_count[b]
        BY <2>2
      <4> QED
        BY <4>1, <4>2, FS_Interval
    <3> DEFINE S == 1 .. hb_count[b]
    <3> HIDE DEF S
    <3>3. IsFiniteSet({b} \X S) /\ Cardinality({b} \X S) = Cardinality({b}) * Cardinality(S)
      <4>1. IsFiniteSet(S)
        BY <3>2 DEF S
      <4> QED
        BY <3>1, <4>1, FS_Product
    <3>4. Cardinality({b}) * Cardinality(S) = hb_count[b]
      BY <2>2, <3>1, <3>2 DEF S
    <3> QED
      BY <3>3, <3>4 DEF S
  <2>5. Cardinality(P) <= hb_count[b] /\ Cardinality(P) \in Nat
    BY <2>3, <2>4, FS_Subset, FS_CardinalityType
  <2> QED
    BY <1>n, <2>2, <2>5
<1> QED
  BY <1>2, <1>3

(* Memory overhead: with fewer guards in use than a bucket has records, a  *)
(* reclaim leaves no more records than there are guard slots, although it  *)
(* reads the slots one after the other while the readers go on.            *)
THEOREM HazardIsBounded ==
    ASSUME MaxGuards < hazard_bucket_count
    PROVE  Spec => []DeferredBounded
<1>1. IInv => DeferredBounded
  BY PendingIsFew
<1> QED
  BY <1>1, HazardInvariant, PTL

-----------------------------------------------------------------------------
(* The guards.                                                             *)

(* Only the start of a reclaim chooses values.                             *)
LEMMA ChosenShrinks ==
    ASSUME MaxGuards < hazard_bucket_count, IInv, [Next]_vars, ~ hazard_scan_and_reclaim
    PROVE  Chosen' \subseteq Chosen
<1>0. PICK place : Placed(place)
  BY DEF IInv
<1>i. TypeOK /\ Once /\ Counted /\ Phases /\ Owned /\ Exact /\ Kept /\ Readers /\ Bounded
  BY DEF IInv
<1>1. CASE UNCHANGED <<hga_bucket, hb_recs, hb_count, dqueue, dbatch, pending, head,
                       partial, pos, dpc, idx>>
  BY <1>1, NotesUntouched, ChosenSame
<1>2. CASE \E w \in Writers, c \in CPUs : hazard_retire(w, c)
  <2>1. PICK w \in Writers, c \in CPUs : hazard_retire(w, c)
    BY <1>2
  <2>2. PICK b \in Buckets, large \in BOOLEAN, new \in Buckets \union {NULL},
             free \in SUBSET Buckets, spare \in SUBSET Buckets :
                 /\ wpc[w] = "retire"
                 /\ Choice(place, w, c, b, free, spare, new)
                 /\ retire_record(w, c, b, free, spare, large, new)
    BY <1>0, <1>i, <2>1, RetireChoice
  <2> QED
    BY <1>0, <1>i, <2>2, NotesRetire
<1>3. CASE dequeue_batch \/ hazard_deallocate_queue_invoke \/ scan_guard \/ qsort
  <2>1. UNCHANGED <<head, partial>>
    BY <1>3 DEF dequeue_batch, hazard_deallocate_queue_invoke, scan_guard, qsort, filter
  <2> QED
    BY <1>i, <1>3, <2>1, NotesDrain, ChosenSame
<1>4. CASE \E v \in Values : filter_destroy(v)
  BY <1>0, <1>i, <1>4, NotesDestroy
<1>5. CASE \E v \in Values : filter_keep(v)
  BY <1>0, <1>i, <1>5, KeepBound, NotesKeep
<1>6. CASE hazard_filter_bucket
  BY <1>0, <1>i, <1>6, NotesFilterBucket
<1>7. CASE hazard_filter_finish
  BY <1>0, <1>i, <1>7, NotesFinish
<1>8. CASE \/ UNCHANGED vars
           \/ \E c \in CPUs, s \in Slots, n \in Slots :
                  hazard_guard_get(c, s, n) \/ hazard_guard_put(c, s, n)
           \/ \E c \in CPUs, s \in Slots : hazard_guard_acquire(c, s)
           \/ \E c \in CPUs : hazard_guard_set(c) \/ hazard_guard_acquire_loop(c)
           \/ \E w \in Writers, v \in Values \union {NULL} : hazard_ptr_serialized_store(w, v)
           \/ \E w \in Writers, c \in CPUs : retire_nobucket(w, c)
           \/ \E w \in Writers : retire_alloc(w)
           \/ \E v \in Values : hazard_bsearch(v)
  <2>1. UNCHANGED <<hga_bucket, hb_recs, hb_count, dqueue, dbatch, pending, head,
                    partial, pos, dpc, idx>>
    BY <1>8 DEF vars, bucket, drain, filter, hazard_guard_get, hazard_guard_put,
                hazard_guard_acquire, hazard_guard_set, hazard_guard_acquire_loop,
                hazard_ptr_serialized_store, retire_nobucket, retire_alloc, hazard_bsearch
  <2> QED
    BY <1>1, <2>1
<1> QED
  BY <1>2, <1>3, <1>4, <1>5, <1>6, <1>7, <1>8 DEF Next

(* The parts that the guards' invariants need.                             *)
LEMMA IInvParts ==
    ASSUME IInv
    PROVE  TypeOK /\ Phases /\ Owned /\ Exact /\ Readers
BY DEF IInv

(* A reader's step pins no value: what it acquires is still the pointer's. *)
LEMMA PinsReaders ==
    ASSUME IInv, NEW x \in CPUs, NEW i \in Slots,
           NEW c \in CPUs, NEW s \in Slots, NEW n \in Slots,
           \/ hazard_guard_get(c, s, n) \/ hazard_guard_put(c, s, n)
           \/ hazard_guard_acquire(c, s) \/ hazard_guard_set(c)
           \/ hazard_guard_acquire_loop(c),
           i \in hga_mask'[x], ~ Acquiring(x, i)', hg_val'[x][i] # NULL
    PROVE  \/ hg_val'[x][i] = pointer
           \/ i \in hga_mask[x] /\ ~ Acquiring(x, i) /\ hg_val'[x][i] = hg_val[x][i]
<1>i. TypeOK /\ Readers
  BY IInvParts
<1>1. CASE hazard_guard_get(c, s, n)
  <2>1. /\ rpc[c] = "idle" /\ UNCHANGED <<hg_val, rpc, rslot, rval>>
        /\ x # c => hga_mask'[x] = hga_mask[x]
    BY <1>1, <1>i DEF hazard_guard_get, TypeOK
  <2> QED
    BY <1>i, <2>1 DEF Readers, Acquiring
<1>2. CASE hazard_guard_put(c, s, n)
  <2>1. /\ UNCHANGED <<rpc, rslot, rval>> /\ hga_mask'[x] \subseteq hga_mask[x]
        /\ hg_val'[x][i] \in {NULL, hg_val[x][i]}
    BY <1>2, <1>i DEF hazard_guard_put, TypeOK
  <2> QED
    BY <2>1 DEF Acquiring
<1>3. CASE hazard_guard_acquire(c, s)
  <2>1. /\ UNCHANGED <<hg_val, hga_mask>> /\ rpc[c] = "idle"
        /\ x # c => rpc'[x] = rpc[x] /\ rslot'[x] = rslot[x]
    BY <1>3, <1>i DEF hazard_guard_acquire, TypeOK
  <2> QED
    BY <2>1 DEF Acquiring
<1>4. CASE hazard_guard_set(c)
  <2>1. /\ UNCHANGED <<hga_mask, rslot, rval>> /\ rpc[c] \in {"set", "again"}
        /\ x # c => rpc'[x] = rpc[x]
        /\ rpc'[c] = "reload"
        /\ hg_val'[x][i] = IF x = c /\ i = rslot[c] THEN rval[c] ELSE hg_val[x][i]
    BY <1>4, <1>i DEF hazard_guard_set, TypeOK
  <2> QED
    BY <2>1 DEF Acquiring
<1>5. CASE hazard_guard_acquire_loop(c)
  <2>1. /\ UNCHANGED <<hg_val, hga_mask, rslot>> /\ rpc[c] = "reload"
        /\ x # c => rpc'[x] = rpc[x]
        /\ rpc'[c] = "again" \/ pointer = rval[c]
    BY <1>5, <1>i DEF hazard_guard_acquire_loop, TypeOK
  <2> QED
    BY <1>i, <2>1 DEF Readers, Acquiring
<1> QED
  BY <1>1, <1>2, <1>3, <1>4, <1>5

(* The steps of readers.                                                   *)
ReaderStep ==
    \/ \E c \in CPUs, s \in Slots, n \in Slots :
          hazard_guard_get(c, s, n) \/ hazard_guard_put(c, s, n)
    \/ \E c \in CPUs, s \in Slots : hazard_guard_acquire(c, s)
    \/ \E c \in CPUs : hazard_guard_set(c) \/ hazard_guard_acquire_loop(c)

(* Only readers change guards.                                             *)
LEMMA OtherSteps ==
    ASSUME [Next]_vars, ~ ReaderStep
    PROVE  UNCHANGED reader
<1>1. CASE UNCHANGED vars
  BY <1>1 DEF vars
<1>2. CASE \E w \in Writers, v \in Values \union {NULL} : hazard_ptr_serialized_store(w, v)
  BY <1>2 DEF hazard_ptr_serialized_store
<1>3. CASE \E w \in Writers, c \in CPUs : hazard_retire(w, c)
  BY <1>3 DEF hazard_retire, retire_record
<1>4. CASE \E w \in Writers, c \in CPUs : retire_nobucket(w, c)
  BY <1>4 DEF retire_nobucket
<1>5. CASE \E w \in Writers : retire_alloc(w)
  BY <1>5 DEF retire_alloc
<1>6. CASE \/ dequeue_batch \/ hazard_deallocate_queue_invoke \/ hazard_scan_and_reclaim
           \/ scan_guard \/ qsort \/ hazard_filter_bucket \/ hazard_filter_finish
  BY <1>6 DEF dequeue_batch, hazard_deallocate_queue_invoke, hazard_scan_and_reclaim,
              scan_guard, qsort, hazard_filter_bucket, hazard_filter_finish
<1>7. CASE \E v \in Values : hazard_bsearch(v) \/ filter_destroy(v) \/ filter_keep(v)
  BY <1>7 DEF hazard_bsearch, filter_destroy, filter_keep
<1> QED
  BY <1>1, <1>2, <1>3, <1>4, <1>5, <1>6, <1>7 DEF Next, ReaderStep

(* So a guard that protects a chosen value did so since it was chosen.     *)
LEMMA PinsStep ==
    ASSUME MaxGuards < hazard_bucket_count, IInv, [Next]_vars, ~ hazard_scan_and_reclaim,
           NEW x \in CPUs, NEW i \in Slots, Pins(x, i)'
    PROVE  Pins(x, i) /\ hg_val'[x][i] = hg_val[x][i]
<1>1. Chosen' \subseteq Chosen
  BY ChosenShrinks
<1>2. CASE UNCHANGED reader
  BY <1>1, <1>2 DEF Pins, Acquiring, reader
<1>3. ASSUME NEW c \in CPUs, NEW s \in Slots, NEW n \in Slots,
             \/ hazard_guard_get(c, s, n) \/ hazard_guard_put(c, s, n)
             \/ hazard_guard_acquire(c, s) \/ hazard_guard_set(c)
             \/ hazard_guard_acquire_loop(c)
      PROVE  Pins(x, i) /\ hg_val'[x][i] = hg_val[x][i]
  <2>1. pointer \notin Chosen /\ NULL \notin Chosen
    BY IInvParts, PointerIsSafe
  <2>2. i \in hga_mask'[x] /\ ~ Acquiring(x, i)' /\ hg_val'[x][i] \in Chosen
    BY <1>1 DEF Pins
  <2>3. i \in hga_mask[x] /\ ~ Acquiring(x, i) /\ hg_val'[x][i] = hg_val[x][i]
    BY <1>3, <2>1, <2>2, PinsReaders
  <2> QED
    BY <2>2, <2>3 DEF Pins
<1>4. CASE ReaderStep
  BY <1>3, <1>4, Constants DEF ReaderStep
<1> QED
  BY <1>2, <1>4, OtherSteps

(* Steps outside of a reclaim leave the scan and the search alone.         *)
WriterStep ==
    \/ UNCHANGED vars
    \/ \E w \in Writers, v \in Values \union {NULL} : hazard_ptr_serialized_store(w, v)
    \/ \E w \in Writers, c \in CPUs : hazard_retire(w, c) \/ retire_nobucket(w, c)
    \/ \E w \in Writers : retire_alloc(w)

(* Readers and writers leave the scan and the search alone, and change no  *)
(* record that a filter looks at.                                          *)
LEMMA DrainAlone ==
    ASSUME IInv, ReaderStep \/ WriterStep
    PROVE  /\ UNCHANGED <<dpc, cpu, idx, array, lo, hi>>
           /\ \A v : filtering(v)' => filtering(v)
<1>0. PICK place : Placed(place)
  BY DEF IInv
<1>i. TypeOK /\ Once /\ Counted
  BY DEF IInv
<1>1. UNCHANGED <<dpc, cpu, idx, array, lo, hi, head>>
  <2>1. UNCHANGED drain
    <3>1. CASE UNCHANGED vars
      BY <3>1 DEF vars
    <3>2. CASE \E w \in Writers, v \in Values \union {NULL} : hazard_ptr_serialized_store(w, v)
      BY <3>2 DEF hazard_ptr_serialized_store
    <3>3. CASE \E w \in Writers, c \in CPUs : hazard_retire(w, c)
      BY <3>3 DEF hazard_retire, retire_record
    <3>4. CASE \E w \in Writers, c \in CPUs : retire_nobucket(w, c)
      BY <3>4 DEF retire_nobucket
    <3>5. CASE \E w \in Writers : retire_alloc(w)
      BY <3>5 DEF retire_alloc
    <3>6. CASE ReaderStep
      BY <3>6 DEF ReaderStep, hazard_guard_get, hazard_guard_put, hazard_guard_acquire,
                  hazard_guard_set, hazard_guard_acquire_loop
    <3> QED
      BY <3>1, <3>2, <3>3, <3>4, <3>5, <3>6 DEF WriterStep
  <2> QED
    BY <2>1 DEF drain, filter
<1>2. head # <<>> => /\ hb_count'[Head(head)] = hb_count[Head(head)]
                     /\ hb_recs'[Head(head)] = hb_recs[Head(head)]
  <2>1. CASE \E w \in Writers, c \in CPUs : hazard_retire(w, c)
    <3>1. PICK w \in Writers, c \in CPUs : hazard_retire(w, c)
      BY <2>1
    <3>2. PICK b \in Buckets, large \in BOOLEAN, new \in Buckets \union {NULL},
               free \in SUBSET Buckets, spare \in SUBSET Buckets :
                   /\ Choice(place, w, c, b, free, spare, new)
                   /\ retire_record(w, c, b, free, spare, large, new)
      BY <1>0, <1>i, <3>1, RetireChoice
    <3>3. place[b] \in {"cpu", "writer", "free"}
      BY <1>0, <3>2, Constants DEF Choice, Placed
    <3>4. head # <<>> => Head(head) \in Buckets /\ place[Head(head)] = "head"
      BY <1>0, <1>i, TailOnce DEF TypeOK, Placed
    <3> QED
      BY <1>i, <3>2, <3>3, <3>4 DEF retire_record, TypeOK
  <2>2. CASE ~ (\E w \in Writers, c \in CPUs : hazard_retire(w, c))
    <3>1. UNCHANGED <<hb_count, hb_recs>>
      BY <2>2
      DEF ReaderStep, WriterStep, vars, bucket, hazard_guard_get, hazard_guard_put,
          hazard_guard_acquire, hazard_guard_set, hazard_guard_acquire_loop,
          hazard_ptr_serialized_store, retire_nobucket, retire_alloc
    <3> QED
      BY <3>1
  <2> QED
    BY <2>1, <2>2
<1> QED
  BY <1>1, <1>2 DEF filtering

(* The order in which the slots are loaded.                                *)
LEMMA ScanOrder ==
    ASSUME TypeOK, Phases, scan_guard, NEW c \in CPUs, NEW s \in Slots
    PROVE  Unscanned(c, s)' <=> Unscanned(c, s) /\ ~ (c = cpu /\ s = idx)
<1>1. /\ dpc = "scan" /\ cpu \in 1 .. NCPU /\ idx \in 1 .. HAZARD_GUARD_SLOTS
      /\ c \in 1 .. NCPU /\ s \in 1 .. HAZARD_GUARD_SLOTS
      /\ NCPU \in Nat /\ HAZARD_GUARD_SLOTS \in Nat
  BY Constants DEF scan_guard, Phases, TypeOK, CPUs, Slots
<1>2. CASE idx < HAZARD_GUARD_SLOTS
  BY <1>1, <1>2 DEF scan_guard, Unscanned
<1>3. CASE ~ (idx < HAZARD_GUARD_SLOTS) /\ cpu < NCPU
  BY <1>1, <1>3 DEF scan_guard, Unscanned
<1>4. CASE ~ (idx < HAZARD_GUARD_SLOTS) /\ ~ (cpu < NCPU)
  BY <1>1, <1>4 DEF scan_guard, Unscanned
<1> QED
  BY <1>2, <1>3, <1>4

(* At boot no value is chosen and no guard is set.                         *)
LEMMA ScanFindsInit ==
    ASSUME Init
    PROVE  ScanFindsGuards /\ FoundAlone /\ Alive
BY DEF Init, ScanFindsGuards, FoundAlone, Alive, Pins

(* Every step keeps what the scan has found: a guard that is already       *)
(* loaded stays in the array, one that is not yet loaded is going to be.   *)
LEMMA ScanFindsStep ==
    ASSUME MaxGuards < hazard_bucket_count, IInv, ScanFindsGuards, [Next]_vars
    PROVE  ScanFindsGuards'
<1>i. TypeOK /\ Phases
  BY IInvParts
<1>s. SUFFICES ASSUME NEW x \in CPUs, NEW i \in Slots, Pins(x, i)', ~ Unscanned(x, i)'
               PROVE  hg_val'[x][i] \in Range(array')
  BY DEF ScanFindsGuards
<1>1. CASE hazard_scan_and_reclaim
  <2>1. dpc' = "scan" /\ cpu' = 1 /\ idx' = 1
    BY <1>1 DEF hazard_scan_and_reclaim
  <2>2. x > 1 \/ (x = 1 /\ i >= 1)
    BY DEF CPUs, Slots
  <2> QED
    BY <1>s, <2>1, <2>2 DEF Unscanned
<1>2. CASE ~ hazard_scan_and_reclaim
  <2>0. Pins(x, i) /\ hg_val'[x][i] = hg_val[x][i]
    BY <1>2, <1>s, PinsStep
  <2>1. Unscanned(x, i) \/ hg_val[x][i] \in Range(array)
    BY <2>0 DEF ScanFindsGuards
  <2>2. CASE ReaderStep \/ WriterStep
    BY <1>s, <2>0, <2>1, <2>2, DrainAlone DEF Unscanned
  <2>3. CASE scan_guard
    <3>1. \/ x = cpu /\ i = idx
          \/ hg_val[x][i] \in Range(array)
      BY <1>i, <1>s, <2>1, <2>3, ScanOrder
    <3>2. hg_val[cpu][idx] \in Values \union {NULL} /\ array \in Seq(Values)
      BY <1>i, <2>3 DEF TypeOK, Phases, scan_guard
    <3>3. CASE hg_val[cpu][idx] = NULL
      <4>1. hg_val[x][i] # NULL
        BY <2>0, IInvParts, PointerIsSafe DEF Pins
      <4> QED
        BY <2>0, <2>3, <3>1, <3>3, <4>1 DEF scan_guard
    <3>4. CASE hg_val[cpu][idx] # NULL
      <4>p. PICK p : p = hg_val[cpu][idx]
        OBVIOUS
      <4>1. array' = Append(array, p) /\ p \in Values
        BY <2>3, <3>2, <3>4, <4>p DEF scan_guard
      <4>2. /\ Len(array) \in Nat /\ DOMAIN array = 1 .. Len(array)
            /\ DOMAIN array' = 1 .. Len(array) + 1
            /\ \A k \in 1 .. Len(array) : array'[k] = array[k] /\ k \in 1 .. Len(array) + 1
            /\ array'[Len(array) + 1] = p /\ Len(array) + 1 \in 1 .. Len(array) + 1
        BY <3>2, <4>1
      <4>3. CASE x = cpu /\ i = idx
        BY <2>0, <4>p, <4>2, <4>3 DEF Range
      <4>4. CASE hg_val[x][i] \in Range(array)
        <5>1. PICK k \in 1 .. Len(array) : hg_val[x][i] = array[k]
          BY <4>2, <4>4 DEF Range
        <5> QED
          BY <2>0, <4>2, <5>1 DEF Range
      <4> QED
        BY <3>1, <4>3, <4>4
    <3> QED
      BY <3>3, <3>4
  <2>4. CASE qsort
    <3>1. dpc # "scan"
      BY <2>4 DEF qsort
    <3>2. Range(array') = Range(array)
      <4>1. CASE idx > Len(array)
        BY <2>4, <4>1 DEF qsort
      <4>2. CASE ~ (idx > Len(array))
        <5>1. idx \in 1 .. Len(array) /\ array \in Seq(Values)
          BY <1>i, <4>2 DEF TypeOK
        <5>2. PICK l \in 1 .. idx : array' = inserted(array, l, idx)
          BY <2>4, <4>2 DEF qsort
        <5> QED
          BY <5>1, <5>2, InsertedKeeps
      <4> QED
        BY <4>1, <4>2
    <3> QED
      BY <2>0, <2>1, <3>1, <3>2 DEF Unscanned
  <2>5. CASE \/ dequeue_batch \/ hazard_deallocate_queue_invoke \/ hazard_filter_bucket
             \/ \E v \in Values : hazard_bsearch(v) \/ filter_destroy(v) \/ filter_keep(v)
    <3>1. dpc # "scan" /\ array' = array
      BY <2>5 DEF dequeue_batch, hazard_deallocate_queue_invoke, hazard_filter_bucket,
                  hazard_bsearch, filter_destroy, filter_keep, filtering
    <3> QED
      BY <2>0, <2>1, <3>1 DEF Unscanned
  <2>6. CASE hazard_filter_finish
    <3>1. Chosen' = {}
      <4>1. PICK place : Placed(place)
        BY DEF IInv
      <4> QED
        BY <1>i, <2>6, <4>1, NotesFinish
    <3> QED
      BY <1>s, <3>1 DEF Pins
  <2> QED
    BY <1>2, <2>2, <2>3, <2>4, <2>5, <2>6 DEF Next, ReaderStep, WriterStep
<1> QED
  BY <1>1, <1>2

(* Guards are found: whatever readers do while hazard_scan_and_reclaim     *)
(* loads the slots, a guard that protects one of the values it decides     *)
(* about is in hbfs_array once its slot has been passed, and stays there   *)
(* through the sort.                                                       *)
THEOREM HazardScanFindsGuards ==
    ASSUME MaxGuards < hazard_bucket_count
    PROVE  Spec => []ScanFindsGuards
<1>1. Init => ScanFindsGuards
  BY ScanFindsInit
<1>2. IInv /\ ScanFindsGuards /\ [Next]_vars => ScanFindsGuards'
  BY ScanFindsStep
<1> QED
  BY <1>1, <1>2, HazardInvariant, PTL DEF Spec

-----------------------------------------------------------------------------
(* One guard.                                                              *)

(* With one guard in use, every other slot is clear.                       *)
LEMMA OnlyGuard ==
    ASSUME MaxGuards = 1, TypeOK, Readers, NEW x \in CPUs, NEW i \in Slots, i \in hga_mask[x],
           NEW c \in CPUs, NEW s \in Slots, ~ (c = x /\ s = i)
    PROVE  hg_val[c][s] = NULL
<1>1. IsFiniteSet(Used) /\ Cardinality(Used) <= 1
  <2>1. IsFiniteSet(CPUs) /\ IsFiniteSet(Slots)
    BY Constants, FS_Interval DEF CPUs, Slots
  <2>2. IsFiniteSet(CPUs \X Slots)
    BY <2>1, FS_Product
  <2>3. IsFiniteSet(Used)
    BY <2>2, FS_Subset DEF Used
  <2> QED
    BY <2>3 DEF Readers, GuardsInUse, Used
<1>2. SUFFICES ASSUME s \in hga_mask[c]
               PROVE  FALSE
  BY DEF Readers
<1>3. <<c, s>> \in Used /\ <<x, i>> \in Used
  BY <1>2 DEF Used
<1>4. Cardinality(Used) \in Nat
  BY <1>1, FS_CardinalityType
<1>5. Cardinality(Used) = 0 \/ Cardinality(Used) = 1
  BY <1>1, <1>4
<1>6. CASE Cardinality(Used) = 0
  BY <1>1, <1>3, <1>6, FS_EmptySet
<1>7. CASE Cardinality(Used) = 1
  <2>1. PICK g : Used = {g}
    BY <1>1, <1>7, FS_Singleton
  <2> QED
    BY <1>3, <2>1
<1> QED
  BY <1>5, <1>6, <1>7

(* A sequence of one entry.                                                *)
LEMMA OneEntry ==
    ASSUME NEW v
    PROVE  Len(<<v>>) = 1 /\ <<v>>[1] = v /\ Append(<<>>, v) = <<v>>
OBVIOUS

(* With one guard in use, the array is empty until that guard is loaded    *)
(* and then has its value alone: the sort moves nothing and the search,    *)
(* which begins with bounds 0 and 1, hits it at the first probe.           *)
LEMMA FoundAloneStep ==
    ASSUME MaxGuards = 1, MaxGuards < hazard_bucket_count, IInv, FoundAlone, [Next]_vars
    PROVE  FoundAlone'
<1>i. TypeOK /\ Phases /\ Readers
  BY IInvParts
<1>s. SUFFICES ASSUME NEW x \in CPUs, NEW i \in Slots, Pins(x, i)'
               PROVE  /\ Unscanned(x, i)' => array' = <<>>
                      /\ ~ Unscanned(x, i)' => array' = <<hg_val'[x][i]>>
                      /\ filtering(hg_val[x][i])' => lo' = 0 /\ hi' = 1
  BY DEF FoundAlone
<1>1. CASE hazard_scan_and_reclaim
  <2>1. dpc' = "scan" /\ cpu' = 1 /\ idx' = 1 /\ array' = <<>>
    BY <1>1 DEF hazard_scan_and_reclaim
  <2>2. x > 1 \/ (x = 1 /\ i >= 1)
    BY DEF CPUs, Slots
  <2> QED
    BY <2>1, <2>2 DEF Unscanned, filtering
<1>2. CASE ~ hazard_scan_and_reclaim
  <2>0. PICK u : u = hg_val[x][i]
    OBVIOUS
  <2>1. Pins(x, i) /\ hg_val'[x][i] = u
    BY <1>2, <1>s, <2>0, PinsStep
  <2>2. /\ Unscanned(x, i) => array = <<>>
        /\ ~ Unscanned(x, i) => array = <<u>>
        /\ filtering(u) => lo = 0 /\ hi = 1
    BY <2>0, <2>1 DEF FoundAlone
  <2>3. u # NULL /\ i \in hga_mask[x]
    BY <2>0, <2>1, IInvParts, PointerIsSafe DEF Pins
  <2>s. SUFFICES /\ Unscanned(x, i)' => array' = <<>>
                 /\ ~ Unscanned(x, i)' => array' = <<u>>
                 /\ filtering(u)' => lo' = 0 /\ hi' = 1
    <3>1. filtering(hg_val[x][i])' => filtering(u)'
      BY <2>1 DEF filtering
    <3> QED
      BY <2>1, <3>1
  <2>4. CASE ReaderStep \/ WriterStep
    BY <2>2, <2>4, DrainAlone DEF Unscanned
  <2>5. CASE scan_guard
    <3>1. Unscanned(x, i)' <=> Unscanned(x, i) /\ ~ (x = cpu /\ i = idx)
      BY <1>i, <2>5, ScanOrder
    <3>2. dpc' # "filter" /\ cpu \in CPUs /\ idx \in Slots
      BY <1>i, <2>5 DEF scan_guard, Phases, TypeOK
    <3>3. CASE x = cpu /\ i = idx
      <4>1. Unscanned(x, i)
        BY <2>5, <3>2, <3>3, Constants DEF Unscanned, scan_guard, CPUs, Slots
      <4>2. array' = Append(<<>>, u)
        BY <2>0, <2>2, <2>3, <2>5, <3>3, <4>1 DEF scan_guard
      <4> QED
        BY <3>1, <3>2, <3>3, <4>2, OneEntry DEF filtering
    <3>4. CASE ~ (x = cpu /\ i = idx)
      <4>1. hg_val[cpu][idx] = NULL
        BY <1>i, <2>3, <3>2, <3>4, OnlyGuard
      <4>2. array' = array
        BY <2>5, <4>1 DEF scan_guard
      <4> QED
        BY <2>2, <3>1, <3>2, <3>4, <4>2 DEF filtering
    <3> QED
      BY <3>3, <3>4
  <2>6. CASE qsort
    <3>1. ~ Unscanned(x, i) /\ ~ Unscanned(x, i)' /\ idx > 1
      BY <1>i, <2>6 DEF Unscanned, qsort, Phases
    <3>2. array = <<u>> /\ Len(array) = 1
      BY <2>2, <3>1, OneEntry
    <3>3. array' = array /\ lo' = 0 /\ hi' = 1
      BY <2>6, <3>1, <3>2 DEF qsort, search
    <3> QED
      BY <3>1, <3>2, <3>3
  <2>7. CASE \E v \in Values : hazard_bsearch(v)
    <3>1. PICK v \in Values : hazard_bsearch(v)
      BY <2>7
    <3>2. /\ filtering(v) /\ dpc = "filter" /\ lo < hi /\ probe # v
          /\ UNCHANGED <<dpc, array, head, idx, hb_count, hb_recs>>
      BY <3>1 DEF hazard_bsearch, filtering, bucket
    <3>3. array = <<u>> /\ ~ Unscanned(x, i)'
      BY <2>2, <3>2 DEF Unscanned
    <3>4. ~ filtering(u)
      <4>1. SUFFICES ASSUME filtering(u) PROVE FALSE
        OBVIOUS
      <4>2. u = v /\ lo = 0 /\ hi = 1
        BY <2>2, <3>2, <4>1 DEF filtering
      <4>3. (0 + 1) \div 2 + 1 = 1
        OBVIOUS
      <4>4. probe = u
        BY <3>3, <4>2, <4>3, OneEntry DEF probe
      <4> QED
        BY <3>2, <4>2, <4>4
    <3>5. ~ filtering(u)'
      BY <3>2, <3>4 DEF filtering
    <3> QED
      BY <3>2, <3>3, <3>5
  <2>8. CASE \/ hazard_filter_bucket
             \/ \E v \in Values : filter_destroy(v) \/ filter_keep(v)
    <3>1. dpc = "filter" /\ dpc' = "filter" /\ array' = array /\ lo' = 0 /\ hi' = Len(array)
      BY <2>8 DEF hazard_filter_bucket, filter_destroy, filter_keep, filtering, search
    <3>2. array = <<u>> /\ Len(array) = 1 /\ ~ Unscanned(x, i)'
      BY <2>2, <3>1, OneEntry DEF Unscanned
    <3> QED
      BY <3>1, <3>2
  <2>9. CASE dequeue_batch \/ hazard_deallocate_queue_invoke
    <3>1. dpc # "scan" /\ dpc' = "batch" /\ array' = array
      BY <2>9 DEF dequeue_batch, hazard_deallocate_queue_invoke
    <3> QED
      BY <2>2, <3>1 DEF Unscanned, filtering
  <2>10. CASE hazard_filter_finish
    <3>1. Chosen' = {}
      <4>1. PICK place : Placed(place)
        BY DEF IInv
      <4> QED
        BY <1>i, <2>10, <4>1, NotesFinish
    <3> QED
      BY <1>s, <3>1 DEF Pins
  <2> QED
    BY <1>2, <2>4, <2>5, <2>6, <2>7, <2>8, <2>9, <2>10 DEF Next, ReaderStep, WriterStep
<1> QED
  BY <1>1, <1>2

(* A value that a guard protects is not destroyed.                         *)
LEMMA AliveStep ==
    ASSUME MaxGuards < hazard_bucket_count, IInv, FoundAlone, Alive, [Next]_vars
    PROVE  Alive'
<1>i. TypeOK /\ Phases /\ Readers /\ Owned /\ Once /\ Counted /\ Exact
  BY DEF IInv
<1>0. PICK place : Placed(place)
  BY DEF IInv
<1>s. SUFFICES ASSUME NEW x \in CPUs, NEW i \in Slots, i \in hga_mask'[x],
                      ~ Acquiring(x, i)', hg_val'[x][i] # NULL
               PROVE  vstate'[hg_val'[x][i]] # "free"
  BY DEF Alive
<1>1. CASE ReaderStep
  <2>1. PICK c \in CPUs, s \in Slots, n \in Slots :
             \/ hazard_guard_get(c, s, n) \/ hazard_guard_put(c, s, n)
             \/ hazard_guard_acquire(c, s) \/ hazard_guard_set(c)
             \/ hazard_guard_acquire_loop(c)
    BY <1>1, Constants DEF ReaderStep
  <2>2. UNCHANGED vstate
    BY <2>1 DEF hazard_guard_get, hazard_guard_put, hazard_guard_acquire, hazard_guard_set,
                hazard_guard_acquire_loop
  <2>3. \/ hg_val'[x][i] = pointer
        \/ i \in hga_mask[x] /\ ~ Acquiring(x, i) /\ hg_val'[x][i] = hg_val[x][i]
    BY <1>s, <2>1, PinsReaders
  <2> QED
    BY <1>i, <1>s, <2>2, <2>3 DEF Owned, Alive
<1>2. CASE UNCHANGED reader
  <2>1. PICK u : u = hg_val[x][i]
    OBVIOUS
  <2>2. /\ u = hg_val'[x][i] /\ i \in hga_mask[x] /\ ~ Acquiring(x, i) /\ u # NULL
    BY <1>2, <1>s, <2>1 DEF reader, Acquiring
  <2>3. u \in Values /\ vstate[u] # "free"
    <3>1. u \in Values
      <4>1. hg_val \in [CPUs -> [Slots -> Values \union {NULL}]]
        BY <1>i DEF TypeOK
      <4> QED
        BY <2>1, <2>2, <4>1
    <3> QED
      BY <2>1, <2>2, <3>1 DEF Alive
  <2>4. CASE UNCHANGED vstate
    BY <2>2, <2>3, <2>4
  <2>5. CASE \E w \in Writers, v \in Values \union {NULL} : hazard_ptr_serialized_store(w, v)
    BY <1>i, <2>2, <2>3, <2>5 DEF hazard_ptr_serialized_store, TypeOK
  <2>6. CASE \E w \in Writers, c \in CPUs : hazard_retire(w, c)
    <3>1. PICK w \in Writers : vstate' = [vstate EXCEPT ![wold[w]] = "retired"]
      BY <2>6 DEF hazard_retire, retire_record
    <3> QED
      BY <1>i, <2>2, <2>3, <3>1 DEF TypeOK
  <2>7. CASE \E v \in Values : filter_destroy(v)
    <3>1. PICK v \in Values : filter_destroy(v)
      BY <2>7
    <3>2. filtering(v) /\ lo >= hi /\ vstate' = [vstate EXCEPT ![v] = "free"]
      BY <3>1 DEF filter_destroy
    <3>3. v \in Chosen
      BY <1>0, <1>i, <3>1, NotesDestroy
    <3>4. u # v
      <4>1. SUFFICES ASSUME u = v PROVE FALSE
        OBVIOUS
      <4>2. Pins(x, i)
        BY <2>1, <2>2, <3>3, <4>1 DEF Pins
      <4>3. lo = 0 /\ hi = 1
        BY <2>1, <3>2, <4>1, <4>2 DEF FoundAlone
      <4> QED
        BY <3>2, <4>3
    <3> QED
      BY <1>i, <2>2, <2>3, <3>2, <3>4 DEF TypeOK
  <2>8. CASE \/ UNCHANGED vars
             \/ \E w \in Writers, c \in CPUs : retire_nobucket(w, c)
             \/ \E w \in Writers : retire_alloc(w)
             \/ \E v \in Values : hazard_bsearch(v) \/ filter_keep(v)
    BY <2>4, <2>8 DEF vars, retire_nobucket, retire_alloc, hazard_bsearch, filter_keep
  <2>9. CASE \/ dequeue_batch \/ hazard_deallocate_queue_invoke \/ hazard_scan_and_reclaim
             \/ scan_guard \/ qsort \/ hazard_filter_bucket \/ hazard_filter_finish
    BY <2>4, <2>9 DEF dequeue_batch, hazard_deallocate_queue_invoke, hazard_scan_and_reclaim,
                      scan_guard, qsort, hazard_filter_bucket, hazard_filter_finish
  <2> QED
    BY <1>1, <2>5, <2>6, <2>7, <2>8, <2>9 DEF Next, ReaderStep
<1> QED
  BY <1>1, <1>2, OtherSteps

(* Guards protect, when one guard is in use: whatever the readers, the     *)
(* writers and the reclaims do, hazard_filter_bucket does not destroy a    *)
(* value that a CPU has acquired.                                          *)
THEOREM HazardGuardProtects ==
    ASSUME MaxGuards = 1, MaxGuards < hazard_bucket_count
    PROVE  Spec => []GuardedIsAlive
<1>1. Init => FoundAlone /\ Alive
  BY ScanFindsInit
<1>2. IInv /\ FoundAlone /\ Alive /\ [Next]_vars => FoundAlone' /\ Alive'
  BY FoundAloneStep, AliveStep
<1>3. IInv /\ Alive => GuardedIsAlive
  <2>1. SUFFICES ASSUME IInv, Alive, NEW c \in CPUs, NEW v \in Held(c)
                 PROVE  vstate[v] # "free"
    BY DEF GuardedIsAlive
  <2>2. hga_mask[c] \subseteq Slots
    BY <2>1, IInvParts DEF TypeOK
  <2>3. PICK s \in hga_mask[c] : ~ Acquiring(c, s) /\ v = hg_val[c][s] /\ v # NULL
    BY <2>1 DEF Held, Acquiring
  <2> QED
    BY <2>1, <2>2, <2>3 DEF Alive
<1> QED
  BY <1>1, <1>2, <1>3, HazardInvariant, PTL DEF Spec

=============================================================================
