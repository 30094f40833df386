-------------------------- MODULE QuiescenceProofs --------------------------
(***************************************************************************)
(* The two protocols that wait for every CPU to pass a point: proofs about *)
(* Smr, for every number of CPUs, writers and objects and every bound      *)
(* MaxSeq, and about CpuQuiesce, for every set of CPUs and counter width.  *)
(*                                                                         *)
(* Smr.  NoReuseWhileHeld is not inductive: that smr_return() may free an  *)
(* object rests on what a scanner found out about CPUs it visited earlier, *)
(* while readers, other writers and other scanners kept going.  IInv says  *)
(* what stays true of a visited CPU.                                       *)
(*                                                                         *)
(* CpuQuiesce.  RoundInv holds whatever the CPUs do.  CommitInv is the     *)
(* stronger invariant of a system in which one CPU at least goes on        *)
(* participating: then a complete round has one committing CPU, and nobody *)
(* can leave it incomplete before the checkin bits are cleared.            *)
(***************************************************************************)
EXTENDS Smr, CpuQuiesce, TLAPS

(* No sequence anywhere is ahead of s_wr_seq, and the s_rd_seq a scanner   *)
(* starts from is never ahead of the current one.  The compare and         *)
(* exchange only ever tries to install a larger value.                     *)
SeqBounds ==
    /\ SMR_SEQ_INIT <= s_wr_seq
    /\ s_rd_seq <= s_wr_seq
    /\ \A c \in CPUs : c_rd_seq[c] <= s_wr_seq /\ rwr[c] <= s_wr_seq
    /\ \A o \in Objects : free_seq[o] <= s_wr_seq
    /\ \A w \in Writers :
        /\ rd_seq[w] <= s_wr_seq
        /\ clk_rd[w] <= s_rd_seq
        /\ wpc[w] = "cas" => old[w] < rd_seq[w]

(* A CPU publishes a sequence exactly while it is in a section, and only   *)
(* then holds objects.                                                     *)
ReaderState ==
    \A c \in CPUs :
        /\ rpc[c] = "in" => c_rd_seq[c] >= SMR_SEQ_INIT
        /\ rpc[c] # "in" => c_rd_seq[c] = SMR_SEQ_INVALID /\ held[c] = {}
        /\ rpc[c] = "entering" => rwr[c] >= SMR_SEQ_INIT

(* A writer that is not idle owns its object, whose status follows from    *)
(* the writer's position; the loop counter is in range.                    *)
WriterState ==
    \A w \in Writers :
        /\ wpc[w] = "idle" <=> obj[w] = NoObj
        /\ wpc[w] = "removed" => status[obj[w]] = "unlinked"
        /\ wpc[w] \notin {"idle", "removed"} => status[obj[w]] = "retired"
        /\ \A v \in Writers : v # w /\ obj[v] = obj[w] => obj[w] = NoObj
        /\ wpc[w] \in {"idle", "removed", "load_wr"} => it[w] = 0
        /\ wpc[w] = "spin" => it[w] < NCPU
        /\ wpc[w] = "cas" => it[w] = NCPU

(* A reader that still holds a retired object keeps both its own sequence  *)
(* and the domain's read sequence below the object's goal.                 *)
HeldBelowGoal ==
    \A c \in CPUs : \A o \in held[c] :
        status[o] = "retired" =>
            c_rd_seq[c] < free_seq[o] /\ s_rd_seq < free_seq[o]

(* So does the rd_seq of a scanner that visited the reader's CPU.          *)
ScannedBelowGoal ==
    \A w \in Writers, c \in CPUs :
        wpc[w] \in {"scan", "spin", "cas"} /\ c < it[w] =>
            \A o \in held[c] : status[o] = "retired" => rd_seq[w] < free_seq[o]

(* No CPU that smr_wait() is done with holds the object it waits for.      *)
WaitedFor ==
    \A w \in Writers, c \in CPUs :
        wpc[w] \in {"scan", "spin", "cas"} /\ wait[w] /\ c < it[w] =>
            obj[w] \notin held[c]

(* A caller that is about to reuse the object may do so.                   *)
ReturnIsSafe ==
    \A w \in Writers, c \in CPUs :
        wpc[w] = "return" /\ (wait[w] \/ free_seq[obj[w]] <= rd_seq[w]) =>
            obj[w] \notin held[c]

IInv ==
    /\ TypeOK
    /\ SeqBounds
    /\ ReaderState
    /\ WriterState
    /\ NoReuseWhileHeld
    /\ HeldBelowGoal
    /\ ScannedBelowGoal
    /\ WaitedFor
    /\ ReturnIsSafe

-----------------------------------------------------------------------------
USE NoObjAssumption
    DEF SMR_SEQ_INVALID, SMR_SEQ_INIT, SMR_SEQ_INC,
        clock, readers, objects, scan

(* zpercpu_foreach() counts the CPUs from 0 to NCPU - 1.                   *)
LEMMA CpuRange == NCPU \in Nat /\ \A c \in CPUs : c \in Nat /\ c < NCPU
    BY NCPUAssumption DEF CPUs

(* Init: no sequence is published, no object is retired.                   *)
LEMMA InitIInv == Init => IInv
    BY CpuRange DEF Init, IInv, TypeOK, SeqBounds, ReaderState, WriterState,
           NoReuseWhileHeld, HeldBelowGoal, ScannedBelowGoal, WaitedFor,
           ReturnIsSafe

-----------------------------------------------------------------------------
(* Readers: one lemma per step of a section.                               *)

(* Loading s_wr_seq in __smr_enter() preserves IInv: nothing is published. *)
LEMMA EnterLoadStep ==
    ASSUME IInv, NEW c \in CPUs, smr_enter_load(c)
    PROVE  IInv'
<1> USE DEF smr_enter_load
<1>1. TypeOK'
    BY DEF IInv, TypeOK
<1>2. SeqBounds'
    BY DEF IInv, SeqBounds, TypeOK
<1>3. ReaderState'
    BY DEF IInv, ReaderState, TypeOK, SeqBounds
<1>4. WriterState'
    BY DEF IInv, WriterState, TypeOK
<1>5. NoReuseWhileHeld'
    BY DEF IInv, NoReuseWhileHeld, TypeOK
<1>6. HeldBelowGoal'
    BY DEF IInv, HeldBelowGoal, TypeOK
<1>7. ScannedBelowGoal'
    BY DEF IInv, ScannedBelowGoal, TypeOK
<1>8. WaitedFor'
    BY DEF IInv, WaitedFor, TypeOK
<1>9. ReturnIsSafe'
    BY DEF IInv, ReturnIsSafe, TypeOK
<1> QED BY <1>1, <1>2, <1>3, <1>4, <1>5, <1>6, <1>7, <1>8, <1>9 DEF IInv

(* The XADD of __smr_enter() preserves IInv: the section holds no object.  *)
LEMMA EnterPublishStep ==
    ASSUME IInv, NEW c \in CPUs, smr_enter_publish(c)
    PROVE  IInv'
<1> USE DEF smr_enter_publish
<1>1. TypeOK'
    BY DEF IInv, TypeOK
<1>2. SeqBounds'
    BY DEF IInv, SeqBounds, TypeOK, ReaderState
<1>3. ReaderState'
    BY DEF IInv, ReaderState, TypeOK
<1>4. WriterState'
    BY DEF IInv, WriterState, TypeOK
<1>5. NoReuseWhileHeld'
    BY DEF IInv, NoReuseWhileHeld, TypeOK
<1>6. HeldBelowGoal'
    BY DEF IInv, HeldBelowGoal, TypeOK, ReaderState
<1>7. ScannedBelowGoal'
    BY DEF IInv, ScannedBelowGoal, TypeOK
<1>8. WaitedFor'
    BY DEF IInv, WaitedFor, TypeOK
<1>9. ReturnIsSafe'
    BY DEF IInv, ReturnIsSafe, TypeOK
<1> QED BY <1>1, <1>2, <1>3, <1>4, <1>5, <1>6, <1>7, <1>8, <1>9 DEF IInv

(* Loading a pointer preserves IInv: only linked objects are found, so no  *)
(* scanner is waiting for what is loaded.                                  *)
LEMMA EnteredLoadStep ==
    ASSUME IInv, NEW c \in CPUs, NEW o \in Objects, smr_entered_load(c, o)
    PROVE  IInv'
<1> USE DEF smr_entered_load
<1>1. TypeOK'
    BY DEF IInv, TypeOK
<1>2. SeqBounds'
    BY DEF IInv, SeqBounds, TypeOK
<1>3. ReaderState'
    BY DEF IInv, ReaderState, TypeOK
<1>4. WriterState'
    BY DEF IInv, WriterState, TypeOK
<1>5. NoReuseWhileHeld'
    BY DEF IInv, NoReuseWhileHeld, TypeOK
<1>6. HeldBelowGoal'
    BY DEF IInv, HeldBelowGoal, TypeOK
<1>7. ScannedBelowGoal'
    BY DEF IInv, ScannedBelowGoal, TypeOK
<1>8. WaitedFor'
    BY DEF IInv, WaitedFor, TypeOK, WriterState
<1>9. ReturnIsSafe'
    BY DEF IInv, ReturnIsSafe, TypeOK, WriterState
<1> QED BY <1>1, <1>2, <1>3, <1>4, <1>5, <1>6, <1>7, <1>8, <1>9 DEF IInv

(* smr_leave() preserves IInv: the references end with the sequence.       *)
LEMMA LeaveStep ==
    ASSUME IInv, NEW c \in CPUs, smr_leave(c)
    PROVE  IInv'
<1> USE DEF smr_leave
<1>1. TypeOK'
    BY DEF IInv, TypeOK
<1>2. SeqBounds'
    BY DEF IInv, SeqBounds, TypeOK
<1>3. ReaderState'
    BY DEF IInv, ReaderState, TypeOK
<1>4. WriterState'
    BY DEF IInv, WriterState, TypeOK
<1>5. NoReuseWhileHeld'
    BY DEF IInv, NoReuseWhileHeld, TypeOK
<1>6. HeldBelowGoal'
    BY DEF IInv, HeldBelowGoal, TypeOK
<1>7. ScannedBelowGoal'
    BY DEF IInv, ScannedBelowGoal, TypeOK
<1>8. WaitedFor'
    BY DEF IInv, WaitedFor, TypeOK, WriterState
<1>9. ReturnIsSafe'
    BY DEF IInv, ReturnIsSafe, TypeOK
<1> QED BY <1>1, <1>2, <1>3, <1>4, <1>5, <1>6, <1>7, <1>8, <1>9 DEF IInv

-----------------------------------------------------------------------------
(* Writers outside a scan.                                                 *)

(* Unlinking preserves IInv: the writer becomes the object's only owner.   *)
LEMMA RemoveStep ==
    ASSUME IInv, NEW w \in Writers, NEW o \in Objects, remove(w, o)
    PROVE  IInv'
<1> USE DEF remove
<1>1. TypeOK'
    BY DEF IInv, TypeOK
<1>2. SeqBounds'
    BY DEF IInv, SeqBounds, TypeOK
<1>3. ReaderState'
    BY DEF IInv, ReaderState, TypeOK
<1>4. WriterState'
    BY DEF IInv, WriterState, TypeOK, NoReuseWhileHeld
<1>5. NoReuseWhileHeld'
    BY DEF IInv, NoReuseWhileHeld, TypeOK
<1>6. HeldBelowGoal'
    BY DEF IInv, HeldBelowGoal, TypeOK
<1>7. ScannedBelowGoal'
    BY DEF IInv, ScannedBelowGoal, TypeOK
<1>8. WaitedFor'
    BY DEF IInv, WaitedFor, TypeOK
<1>9. ReturnIsSafe'
    BY DEF IInv, ReturnIsSafe, TypeOK, WriterState
<1> QED BY <1>1, <1>2, <1>3, <1>4, <1>5, <1>6, <1>7, <1>8, <1>9 DEF IInv

(* Linking a free object preserves IInv: nobody holds it.                  *)
LEMMA InsertStep ==
    ASSUME IInv, NEW o \in Objects, insert(o)
    PROVE  IInv'
<1> USE DEF insert
<1>1. TypeOK'
    BY DEF IInv, TypeOK
<1>2. SeqBounds'
    BY DEF IInv, SeqBounds, TypeOK, WriterState
<1>3. ReaderState'
    BY DEF IInv, ReaderState, TypeOK
<1>4. WriterState'
    BY DEF IInv, WriterState, TypeOK
<1>5. NoReuseWhileHeld'
    BY DEF IInv, NoReuseWhileHeld, TypeOK
<1>6. HeldBelowGoal'
    BY DEF IInv, HeldBelowGoal, TypeOK
<1>7. ScannedBelowGoal'
    BY DEF IInv, ScannedBelowGoal, TypeOK
<1>8. WaitedFor'
    BY DEF IInv, WaitedFor, TypeOK
<1>9. ReturnIsSafe'
    BY DEF IInv, ReturnIsSafe, TypeOK, WriterState
<1> QED BY <1>1, <1>2, <1>3, <1>4, <1>5, <1>6, <1>7, <1>8, <1>9 DEF IInv

(* smr_advance() preserves IInv: the goal is above all sequences in use.   *)
LEMMA AdvanceStep ==
    ASSUME IInv, NEW w \in Writers, smr_advance(w)
    PROVE  IInv'
<1> USE DEF smr_advance, retire
<1>0. obj[w] \in Objects
    BY DEF IInv, TypeOK, WriterState
<1>1. TypeOK'
    BY <1>0 DEF IInv, TypeOK
<1>2. SeqBounds'
    BY <1>0 DEF IInv, SeqBounds, TypeOK
<1>3. ReaderState'
    BY DEF IInv, ReaderState, TypeOK
<1>4. WriterState'
    BY <1>0 DEF IInv, WriterState, TypeOK
<1>5. NoReuseWhileHeld'
    BY DEF IInv, NoReuseWhileHeld, TypeOK
<1>6. HeldBelowGoal'
    BY <1>0 DEF IInv, HeldBelowGoal, TypeOK, SeqBounds
<1>7. ScannedBelowGoal'
    BY <1>0 DEF IInv, ScannedBelowGoal, TypeOK, SeqBounds
<1>8. WaitedFor'
    BY DEF IInv, WaitedFor, TypeOK
<1>9. ReturnIsSafe'
    BY <1>0 DEF IInv, ReturnIsSafe, TypeOK, WriterState
<1> QED BY <1>1, <1>2, <1>3, <1>4, <1>5, <1>6, <1>7, <1>8, <1>9 DEF IInv

(* smr_synchronize() preserves IInv: as above, and no CPU was visited yet. *)
LEMMA SynchronizeStep ==
    ASSUME IInv, NEW w \in Writers, smr_synchronize(w)
    PROVE  IInv'
<1> USE DEF smr_synchronize, retire
<1>0. obj[w] \in Objects
    BY DEF IInv, TypeOK, WriterState
<1>1. TypeOK'
    BY <1>0 DEF IInv, TypeOK
<1>2. SeqBounds'
    BY <1>0 DEF IInv, SeqBounds, TypeOK
<1>3. ReaderState'
    BY DEF IInv, ReaderState, TypeOK
<1>4. WriterState'
    BY <1>0 DEF IInv, WriterState, TypeOK
<1>5. NoReuseWhileHeld'
    BY DEF IInv, NoReuseWhileHeld, TypeOK
<1>6. HeldBelowGoal'
    BY <1>0 DEF IInv, HeldBelowGoal, TypeOK, SeqBounds
<1>7. ScannedBelowGoal'
    BY <1>0, CpuRange DEF IInv, ScannedBelowGoal, TypeOK, SeqBounds, WriterState
<1>8. WaitedFor'
    BY CpuRange DEF IInv, WaitedFor, TypeOK, WriterState
<1>9. ReturnIsSafe'
    BY <1>0 DEF IInv, ReturnIsSafe, TypeOK, WriterState
<1> QED BY <1>1, <1>2, <1>3, <1>4, <1>5, <1>6, <1>7, <1>8, <1>9 DEF IInv

(* The first load of __smr_poll() preserves IInv: an object whose goal is  *)
(* at or below s_rd_seq is not held by anyone.                             *)
LEMMA PollStep ==
    ASSUME IInv, NEW w \in Writers, NEW o \in Objects, NEW wt \in BOOLEAN,
           smr_poll(w, o, wt)
    PROVE  IInv'
<1> USE DEF smr_poll
<1>1. TypeOK'
    BY DEF IInv, TypeOK
<1>2. SeqBounds'
    BY DEF IInv, SeqBounds, TypeOK
<1>3. ReaderState'
    BY DEF IInv, ReaderState, TypeOK
<1>4. WriterState'
    BY DEF IInv, WriterState, TypeOK
<1>5. NoReuseWhileHeld'
    BY DEF IInv, NoReuseWhileHeld, TypeOK
<1>6. HeldBelowGoal'
    BY DEF IInv, HeldBelowGoal, TypeOK
<1>7. ScannedBelowGoal'
    BY DEF IInv, ScannedBelowGoal, TypeOK
<1>8. WaitedFor'
    BY DEF IInv, WaitedFor, TypeOK
<1>9. ReturnIsSafe'
    BY DEF IInv, ReturnIsSafe, TypeOK, HeldBelowGoal
<1> QED BY <1>1, <1>2, <1>3, <1>4, <1>5, <1>6, <1>7, <1>8, <1>9 DEF IInv

-----------------------------------------------------------------------------
(* The scan.                                                               *)

(* Entering __smr_scan() preserves IInv: no CPU was visited yet, and the   *)
(* test for a wrapped goal never succeeds.                                 *)
LEMMA PollLoadWrStep ==
    ASSUME IInv, NEW w \in Writers, smr_poll_load_wr(w)
    PROVE  IInv'
<1> USE DEF smr_poll_load_wr
<1>0. obj[w] \in Objects
    BY DEF IInv, TypeOK, WriterState
<1>1. TypeOK'
    BY <1>0 DEF IInv, TypeOK
<1>2. SeqBounds'
    BY <1>0 DEF IInv, SeqBounds, TypeOK
<1>3. ReaderState'
    BY DEF IInv, ReaderState, TypeOK
<1>4. WriterState'
    BY DEF IInv, WriterState, TypeOK
<1>5. NoReuseWhileHeld'
    BY DEF IInv, NoReuseWhileHeld, TypeOK
<1>6. HeldBelowGoal'
    BY DEF IInv, HeldBelowGoal, TypeOK
<1>7. ScannedBelowGoal'
    BY CpuRange DEF IInv, ScannedBelowGoal, TypeOK, WriterState
<1>8. WaitedFor'
    BY CpuRange DEF IInv, WaitedFor, TypeOK, WriterState
<1>9. ReturnIsSafe'
    BY <1>0 DEF IInv, ReturnIsSafe, TypeOK, SeqBounds, WriterState
<1> QED BY <1>1, <1>2, <1>3, <1>4, <1>5, <1>6, <1>7, <1>8, <1>9 DEF IInv

(* Looking at one CPU preserves IInv: either the scanner has to spin, or   *)
(* the CPU just visited satisfies what is claimed of the visited ones.     *)
LEMMA ObserveStep ==
    ASSUME IInv, NEW w \in Writers, wpc[w] \in {"scan", "spin"}, it[w] < NCPU,
           observe(w, c_rd_seq[it[w]]),
           UNCHANGED <<clock, readers, objects, obj, wait, clk_rd, old>>
    PROVE  IInv'
<1> DEFINE s    == c_rd_seq[it[w]]
           observed == Max2(s, clk_rd[w])
           low  == IF s = SMR_SEQ_INVALID THEN rd_seq[w] ELSE Min2(rd_seq[w], observed)
<1>0. /\ obj[w] \in Objects
      /\ status[obj[w]] = "retired"
    BY DEF IInv, TypeOK, WriterState
<1>a. it[w] \in CPUs /\ it[w] + 1 \in 0 .. NCPU
    BY NCPUAssumption DEF IInv, TypeOK, CPUs
<1>b. /\ s \in Nat /\ observed \in Nat /\ low \in Nat /\ low <= rd_seq[w]
      /\ s # SMR_SEQ_INVALID => low <= observed
    BY <1>a DEF IInv, TypeOK, Max2, Min2
(* A reader on this CPU that holds a retired object is below its goal.     *)
<1>c. \A o \in held[it[w]] : status[o] = "retired" =>
        s # SMR_SEQ_INVALID /\ observed < free_seq[o]
    BY <1>a, <1>b DEF IInv, TypeOK, SeqBounds, ReaderState, HeldBelowGoal, Max2
<1> USE DEF observe
<1>d. CASE s # SMR_SEQ_INVALID /\ wait[w] /\ observed < free_seq[obj[w]]
  <2>1. /\ wpc' = [wpc EXCEPT ![w] = "spin"]
        /\ seq' = [seq EXCEPT ![w] = observed]
        /\ UNCHANGED <<rd_seq, it>>
    BY <1>d
  <2> HIDE DEF observe, s, observed, low
  <2> QED
    BY <2>1, <1>a, <1>b DEF IInv, TypeOK, SeqBounds, ReaderState, WriterState,
       NoReuseWhileHeld, HeldBelowGoal, ScannedBelowGoal, WaitedFor, ReturnIsSafe
<1>e. CASE ~ (s # SMR_SEQ_INVALID /\ wait[w] /\ observed < free_seq[obj[w]])
  <2>0. /\ wpc' = [wpc EXCEPT ![w] = "scan"]
        /\ rd_seq' = [rd_seq EXCEPT ![w] = low]
        /\ it' = [it EXCEPT ![w] = it[w] + 1]
        /\ seq' = [seq EXCEPT ![w] = SMR_SEQ_INVALID]
    BY <1>e
  <2>c. wait[w] => obj[w] \notin held[it[w]]
    BY <1>0, <1>c, <1>e
  <2>d. \A o \in held[it[w]] : status[o] = "retired" => low < free_seq[o]
    BY <1>a, <1>b, <1>c DEF IInv, TypeOK
  <2> HIDE DEF observe, s, observed, low
  <2>1. TypeOK'
    BY <2>0, <1>a, <1>b DEF IInv, TypeOK
  <2>2. SeqBounds'
    BY <2>0, <1>b DEF IInv, SeqBounds, TypeOK
  <2>3. ReaderState'
    BY <2>0 DEF IInv, ReaderState, TypeOK
  <2>4. WriterState'
    BY <2>0 DEF IInv, WriterState, TypeOK
  <2>5. NoReuseWhileHeld'
    BY <2>0 DEF IInv, NoReuseWhileHeld, TypeOK
  <2>6. HeldBelowGoal'
    BY <2>0 DEF IInv, HeldBelowGoal, TypeOK
  <2>7. ScannedBelowGoal'
    <3> SUFFICES ASSUME NEW v \in Writers, NEW c \in CPUs,
                        wpc'[v] \in {"scan", "spin", "cas"}, c < it'[v],
                        NEW o \in held[c], status[o] = "retired"
                 PROVE  rd_seq'[v] < free_seq[o]
      BY DEF ScannedBelowGoal
    <3>1. CASE v # w
      BY <3>1, <2>0 DEF IInv, ScannedBelowGoal, TypeOK
    <3>2. CASE v = w /\ c = it[w]
      BY <3>2, <2>0, <2>d DEF IInv, TypeOK
    <3>3. CASE v = w /\ c < it[w]
      BY <3>3, <2>0, <1>b DEF IInv, ScannedBelowGoal, TypeOK
    <3>4. v = w => c < it[w] + 1
      BY <2>0 DEF IInv, TypeOK
    <3>5. c \in Nat /\ it[w] \in Nat
      BY <1>a, CpuRange
    <3> QED BY <3>1, <3>2, <3>3, <3>4, <3>5
  <2>8. WaitedFor'
    <3> SUFFICES ASSUME NEW v \in Writers, NEW c \in CPUs,
                        wpc'[v] \in {"scan", "spin", "cas"}, wait[v], c < it'[v]
                 PROVE  obj[v] \notin held[c]
      BY DEF WaitedFor
    <3>1. CASE v # w
      BY <3>1, <2>0 DEF IInv, WaitedFor, TypeOK
    <3>2. CASE v = w /\ c = it[w]
      BY <3>2, <2>c
    <3>3. CASE v = w /\ c < it[w]
      BY <3>3 DEF IInv, WaitedFor, TypeOK
    <3>4. v = w => c < it[w] + 1
      BY <2>0 DEF IInv, TypeOK
    <3>5. c \in Nat /\ it[w] \in Nat
      BY <1>a, CpuRange
    <3> QED BY <3>1, <3>2, <3>3, <3>4, <3>5
  <2>9. ReturnIsSafe'
    BY <2>0 DEF IInv, ReturnIsSafe, TypeOK
  <2> QED BY <2>1, <2>2, <2>3, <2>4, <2>5, <2>6, <2>7, <2>8, <2>9 DEF IInv
<1> QED BY <1>d, <1>e

(* The load of __smr_rd_advance() preserves IInv: all CPUs were visited.   *)
LEMMA RdAdvanceLoadStep ==
    ASSUME IInv, NEW w \in Writers, smr_rd_advance_load(w)
    PROVE  IInv'
<1> USE DEF smr_rd_advance_load
<1>0. obj[w] \in Objects
    BY DEF IInv, TypeOK, WriterState
<1>1. TypeOK'
    BY DEF IInv, TypeOK
<1>2. SeqBounds'
    BY DEF IInv, SeqBounds, TypeOK
<1>3. ReaderState'
    BY DEF IInv, ReaderState, TypeOK
<1>4. WriterState'
    BY DEF IInv, WriterState, TypeOK
<1>5. NoReuseWhileHeld'
    BY DEF IInv, NoReuseWhileHeld, TypeOK
<1>6. HeldBelowGoal'
    BY DEF IInv, HeldBelowGoal, TypeOK
<1>7. ScannedBelowGoal'
    BY DEF IInv, ScannedBelowGoal, TypeOK
<1>8. WaitedFor'
    BY DEF IInv, WaitedFor, TypeOK
<1>9. ReturnIsSafe'
    BY <1>0, CpuRange DEF IInv, ReturnIsSafe, TypeOK, HeldBelowGoal, WaitedFor,
       WriterState
<1> QED BY <1>1, <1>2, <1>3, <1>4, <1>5, <1>6, <1>7, <1>8, <1>9 DEF IInv

(* The compare and exchange preserves IInv: all CPUs were visited, so the  *)
(* value installed is below the goal of everything still held.             *)
LEMMA RdAdvanceCasStep ==
    ASSUME IInv, NEW w \in Writers, smr_rd_advance_cas(w)
    PROVE  IInv'
<1> USE DEF smr_rd_advance_cas
<1>0. obj[w] \in Objects
    BY DEF IInv, TypeOK, WriterState
<1>1. TypeOK'
    BY DEF IInv, TypeOK
<1>2. SeqBounds'
    BY DEF IInv, SeqBounds, TypeOK
<1>3. ReaderState'
    BY DEF IInv, ReaderState, TypeOK
<1>4. WriterState'
    BY DEF IInv, WriterState, TypeOK
<1>5. NoReuseWhileHeld'
    BY DEF IInv, NoReuseWhileHeld, TypeOK
<1>6. HeldBelowGoal'
    BY CpuRange DEF IInv, HeldBelowGoal, TypeOK, ScannedBelowGoal, WriterState
<1>7. ScannedBelowGoal'
    BY DEF IInv, ScannedBelowGoal, TypeOK
<1>8. WaitedFor'
    BY DEF IInv, WaitedFor, TypeOK
<1>9. ReturnIsSafe'
    BY <1>0, CpuRange DEF IInv, ReturnIsSafe, TypeOK, HeldBelowGoal,
       ScannedBelowGoal, WaitedFor, WriterState
<1> QED BY <1>1, <1>2, <1>3, <1>4, <1>5, <1>6, <1>7, <1>8, <1>9 DEF IInv

(* Returning preserves IInv: an object that becomes free is not held.      *)
LEMMA ReturnStep ==
    ASSUME IInv, NEW w \in Writers, smr_return(w)
    PROVE  IInv'
<1> USE DEF smr_return
<1>0. obj[w] \in Objects
    BY DEF IInv, TypeOK, WriterState
<1>1. TypeOK'
    BY <1>0, CpuRange DEF IInv, TypeOK
<1>2. SeqBounds'
    BY DEF IInv, SeqBounds, TypeOK
<1>3. ReaderState'
    BY DEF IInv, ReaderState, TypeOK
<1>4. WriterState'
    BY <1>0 DEF IInv, WriterState, TypeOK
<1>5. NoReuseWhileHeld'
    BY <1>0 DEF IInv, NoReuseWhileHeld, TypeOK, ReturnIsSafe
<1>6. HeldBelowGoal'
    BY DEF IInv, HeldBelowGoal, TypeOK
<1>7. ScannedBelowGoal'
    BY DEF IInv, ScannedBelowGoal, TypeOK
<1>8. WaitedFor'
    BY DEF IInv, WaitedFor, TypeOK
<1>9. ReturnIsSafe'
    BY <1>0 DEF IInv, ReturnIsSafe, TypeOK, WriterState
<1> QED BY <1>1, <1>2, <1>3, <1>4, <1>5, <1>6, <1>7, <1>8, <1>9 DEF IInv

-----------------------------------------------------------------------------
(* IInv is inductive: every step of every reader and writer preserves it.  *)
LEMMA NextIInv == IInv /\ [Next]_vars => IInv'
<1> SUFFICES ASSUME IInv, [Next]_vars PROVE IInv'
    OBVIOUS
<1>1. ASSUME NEW c \in CPUs, Reader(c) PROVE IInv'
    BY <1>1, EnterLoadStep, EnterPublishStep, EnteredLoadStep, LeaveStep DEF Reader
<1>2. ASSUME NEW w \in Writers, ScanStep(w) PROVE IInv'
  <2>1. CASE smr_scan_cpu(w)
    BY <2>1, ObserveStep DEF smr_scan_cpu
  <2>2. CASE smr_scan_spin(w)
    BY <2>2, ObserveStep DEF smr_scan_spin, IInv, WriterState
  <2> QED
    BY <1>2, <2>1, <2>2, PollLoadWrStep, RdAdvanceLoadStep, RdAdvanceCasStep,
       ReturnStep DEF ScanStep
<1>3. ASSUME NEW w \in Writers, Writer(w) PROVE IInv'
    BY <1>2, <1>3, RemoveStep, AdvanceStep, SynchronizeStep, PollStep DEF Writer
<1>4. ASSUME NEW o \in Objects, insert(o) PROVE IInv'
    BY <1>4, InsertStep
<1>5. CASE UNCHANGED vars
    BY <1>5 DEF vars, IInv, TypeOK, SeqBounds, ReaderState, WriterState,
       NoReuseWhileHeld, HeldBelowGoal, ScannedBelowGoal, WaitedFor, ReturnIsSafe
<1> QED BY <1>1, <1>3, <1>4, <1>5 DEF Next

(* IInv holds in every reachable state of the domain and its clients.      *)
THEOREM InvariantIInv == Spec => []IInv
    BY InitIInv, NextIInv, PTL DEF Spec

(* Every variable keeps its type; in particular no scan ever indexes a CPU *)
(* that zpercpu_foreach() does not have.                                   *)
THEOREM TypeCorrect == Spec => []TypeOK
<1>1. IInv => TypeOK
    BY DEF IInv
<1> QED BY <1>1, InvariantIInv, PTL

(* smr_poll(), smr_wait() and smr_synchronize() never let an object be     *)
(* reused while a reader is using it, for any number of CPUs and threads.  *)
THEOREM NoReuse == Spec => []NoReuseWhileHeld
<1>1. IInv => NoReuseWhileHeld
    BY DEF IInv
<1> QED BY <1>1, InvariantIInv, PTL

(* The fast path of __smr_poll(): a goal that s_rd_seq has reached was     *)
(* observed by every reader that could hold the object.                    *)
THEOREM FastPath == Spec => []GoalObserved
<1>1. IInv => GoalObserved
    BY DEF IInv, GoalObserved, HeldBelowGoal, TypeOK
<1> QED BY <1>1, InvariantIInv, PTL

(* The read sequence only moves forward and stays behind s_wr_seq: racing  *)
(* scanners cannot undo each other's __smr_rd_advance().                   *)
THEOREM ReadClock == Spec => ReadClockAdvances
<1>1. IInv /\ IInv' /\ [Next]_vars =>
        [s_rd_seq <= s_rd_seq' /\ s_rd_seq' <= s_wr_seq']_clock
  <2> SUFFICES ASSUME IInv, IInv', [Next]_vars
               PROVE  s_rd_seq <= s_rd_seq' /\ s_rd_seq' <= s_wr_seq'
    OBVIOUS
  <2>1. s_rd_seq' <= s_wr_seq'
    BY DEF IInv, SeqBounds
  <2>2. s_rd_seq <= s_rd_seq'
    <3>1. ASSUME NEW w \in Writers, smr_rd_advance_cas(w) PROVE s_rd_seq <= s_rd_seq'
      BY <3>1 DEF smr_rd_advance_cas, IInv, SeqBounds, TypeOK
    <3>2. CASE UNCHANGED s_rd_seq
      BY <3>2 DEF IInv, TypeOK
    <3>3. UNCHANGED s_rd_seq \/ \E w \in Writers : smr_rd_advance_cas(w)
      BY DEF Next, vars, Reader, Writer, ScanStep, smr_enter_load, smr_enter_publish,
         smr_entered_load, smr_leave, remove, insert, retire, smr_advance,
         smr_synchronize, smr_poll, smr_poll_load_wr, smr_scan_cpu, smr_scan_spin,
         smr_rd_advance_load, smr_return
    <3> QED BY <3>1, <3>2, <3>3
  <2> QED BY <2>1, <2>2
<1> QED BY <1>1, InvariantIInv, PTL DEF Spec, ReadClockAdvances

-----------------------------------------------------------------------------
(* The CPU quiescing counter.                                              *)

(* Holds whatever the CPUs do.                                             *)
RoundInv == QuiesceTypeOK /\ MaskMatchesState /\ CommitAssigned

(* Every operation preserves type correctness.                             *)
LEMMA QuiesceTypeStep == ASSUME QuiesceTypeOK, [QuiesceNext]_qvars PROVE QuiesceTypeOK'
<1> USE DEF QuiesceTypeOK
<1>1. ASSUME NEW c \in Processors, cpu_quiescent_counter_join(c) PROVE QuiesceTypeOK'
  BY <1>1 DEF cpu_quiescent_counter_join, mask, watch, Participation
<1>2. ASSUME NEW c \in Processors, cpu_quiescent_counter_ast(c) PROVE QuiesceTypeOK'
  BY <1>2 DEF cpu_quiescent_counter_ast, barrier, Participation
<1>3. ASSUME NEW c \in Processors, leave_pending(c) PROVE QuiesceTypeOK'
  BY <1>3 DEF leave_pending, mask, watch, Participation
<1>4. ASSUME NEW c \in Processors, cpu_quiescent_counter_leave(c) PROVE QuiesceTypeOK'
  BY <1>4 DEF cpu_quiescent_counter_leave, barrier, Participation
<1>5. ASSUME NEW c \in Processors, cpu_quiescent_counter_checkin(c) PROVE QuiesceTypeOK'
  BY <1>5 DEF cpu_quiescent_counter_checkin, mask, watch
<1>6. ASSUME NEW c \in Processors, checkin_or(c) PROVE QuiesceTypeOK'
  BY <1>6 DEF checkin_or, barrier
<1>7. ASSUME NEW c \in Processors, increment_load(c) PROVE QuiesceTypeOK'
  BY <1>7 DEF increment_load, mask, watch
<1>8. ASSUME NEW c \in Processors, increment_store(c) PROVE QuiesceTypeOK'
  <2>1. (old_gen[c] + 1) % CounterMod \in 0 .. CounterMod - 1
    BY QuiesceAssumption
  <2> QED BY <1>8, <2>1 DEF increment_store, mask
<1>9. ASSUME NEW c \in Processors, cpu_quiescent_counter_commit(c) PROVE QuiesceTypeOK'
  BY <1>9 DEF cpu_quiescent_counter_commit, watch
<1>10. ASSUME NEW c \in Processors, user_read(c) PROVE QuiesceTypeOK'
  BY <1>10 DEF user_read, mask
<1>11. CASE UNCHANGED qvars
  BY <1>11 DEF qvars, mask, watch
<1> QED BY <1>1, <1>2, <1>3, <1>4, <1>5, <1>6, <1>7, <1>8, <1>9, <1>10, <1>11
        DEF QuiesceNext, Step

(* The expected bits follow the participation of the CPUs.                 *)
LEMMA MaskStep ==
  ASSUME QuiesceTypeOK, MaskMatchesState, [QuiesceNext]_qvars PROVE MaskMatchesState'
<1> USE DEF QuiesceTypeOK, MaskMatchesState
<1>1. ASSUME NEW c \in Processors, cpu_quiescent_counter_join(c) PROVE MaskMatchesState'
  BY <1>1 DEF cpu_quiescent_counter_join, mask
<1>2. ASSUME NEW c \in Processors, cpu_quiescent_counter_ast(c) PROVE MaskMatchesState'
  BY <1>2 DEF cpu_quiescent_counter_ast
<1>3. ASSUME NEW c \in Processors, leave_pending(c) PROVE MaskMatchesState'
  BY <1>3 DEF leave_pending, mask
<1>4. ASSUME NEW c \in Processors, cpu_quiescent_counter_leave(c) PROVE MaskMatchesState'
  BY <1>4 DEF cpu_quiescent_counter_leave
<1>5. ASSUME NEW c \in Processors, cpu_quiescent_counter_checkin(c) PROVE MaskMatchesState'
  BY <1>5 DEF cpu_quiescent_counter_checkin, mask
<1>6. ASSUME NEW c \in Processors, checkin_or(c) PROVE MaskMatchesState'
  BY <1>6 DEF checkin_or
<1>7. ASSUME NEW c \in Processors, increment_load(c) PROVE MaskMatchesState'
  BY <1>7 DEF increment_load, mask
<1>8. ASSUME NEW c \in Processors, increment_store(c) PROVE MaskMatchesState'
  BY <1>8 DEF increment_store, mask
<1>9. ASSUME NEW c \in Processors, cpu_quiescent_counter_commit(c) PROVE MaskMatchesState'
  BY <1>9 DEF cpu_quiescent_counter_commit
<1>10. ASSUME NEW c \in Processors, user_read(c) PROVE MaskMatchesState'
  BY <1>10 DEF user_read, mask
<1>11. CASE UNCHANGED qvars
  BY <1>11 DEF qvars, mask
<1> QED BY <1>1, <1>2, <1>3, <1>4, <1>5, <1>6, <1>7, <1>8, <1>9, <1>10, <1>11
        DEF QuiesceNext, Step

(* A step that completes a round makes its CPU the one that commits; only  *)
(* the end of a commit takes that CPU away, and it starts a new round.     *)
LEMMA CommitStep ==
  ASSUME QuiesceTypeOK, MaskMatchesState, CommitAssigned, [QuiesceNext]_qvars
  PROVE  CommitAssigned'
<1> USE DEF QuiesceTypeOK, CommitAssigned, cpu_quiescent_counter_needs_commit, Committing
<1>1. ASSUME NEW c \in Processors, cpu_quiescent_counter_join(c) PROVE CommitAssigned'
  BY <1>1 DEF cpu_quiescent_counter_join, mask
<1>2. ASSUME NEW c \in Processors, cpu_quiescent_counter_ast(c) PROVE CommitAssigned'
  BY <1>2 DEF cpu_quiescent_counter_ast, MaskMatchesState
<1>3. ASSUME NEW c \in Processors, leave_pending(c) PROVE CommitAssigned'
  BY <1>3 DEF leave_pending, mask
<1>4. ASSUME NEW c \in Processors, cpu_quiescent_counter_leave(c) PROVE CommitAssigned'
  <2>1. CASE expected = checkin
    BY <1>4, <2>1 DEF cpu_quiescent_counter_leave
  <2>2. CASE expected # checkin
    BY <1>4, <2>2 DEF cpu_quiescent_counter_leave
  <2> QED BY <2>1, <2>2
<1>5. ASSUME NEW c \in Processors, cpu_quiescent_counter_checkin(c) PROVE CommitAssigned'
  BY <1>5 DEF cpu_quiescent_counter_checkin, mask
<1>6. ASSUME NEW c \in Processors, checkin_or(c) PROVE CommitAssigned'
  BY <1>6 DEF checkin_or
<1>7. ASSUME NEW c \in Processors, increment_load(c) PROVE CommitAssigned'
  BY <1>7 DEF increment_load, mask
<1>8. ASSUME NEW c \in Processors, increment_store(c) PROVE CommitAssigned'
  BY <1>8 DEF increment_store, mask
<1>9. ASSUME NEW c \in Processors, cpu_quiescent_counter_commit(c) PROVE CommitAssigned'
  BY <1>9 DEF cpu_quiescent_counter_commit
<1>10. ASSUME NEW c \in Processors, user_read(c) PROVE CommitAssigned'
  BY <1>10 DEF user_read, mask
<1>11. CASE UNCHANGED qvars
  BY <1>11 DEF qvars, mask
<1> QED BY <1>1, <1>2, <1>3, <1>4, <1>5, <1>6, <1>7, <1>8, <1>9, <1>10, <1>11
        DEF QuiesceNext, Step

(* The masks, states and positions of the boot are types and agree.        *)
LEMMA InitRound == QuiesceInit => RoundInv
<1> SUFFICES ASSUME QuiesceInit PROVE RoundInv
  OBVIOUS
<1>1. QuiesceTypeOK
  <2>1. 0 \in 0 .. CounterMod - 1
    BY QuiesceAssumption
  <2>2. /\ state \in [Processors -> Participation]
        /\ pc \in [Processors -> {"idle", "or", "load", "store", "reset"}]
        /\ old_gen \in [Processors -> 0 .. CounterMod - 1]
    BY <2>1 DEF QuiesceInit, Participation
  <2>3. /\ expected \subseteq Processors /\ checkin \subseteq Processors
        /\ seen \subseteq Processors
    BY DEF QuiesceInit
  <2>4. watching \in BOOLEAN
    BY DEF QuiesceInit
  <2>5. counter \in 0 .. CounterMod - 1 /\ incs \in 0 .. 2
    BY <2>1 DEF QuiesceInit
  <2> QED BY <2>2, <2>3, <2>4, <2>5 DEF QuiesceTypeOK
<1>2. MaskMatchesState
  BY DEF QuiesceInit, MaskMatchesState
<1>3. CommitAssigned
  BY DEF QuiesceInit, CommitAssigned
<1> QED BY <1>1, <1>2, <1>3 DEF RoundInv

(* Types, the agreement of masks and states, and the assignment of commits *)
(* hold in every behaviour of the counter.                                 *)
THEOREM RoundInvariant == QuiesceSpec => []RoundInv
<1>1. QuiesceInit => RoundInv
  BY InitRound
<1>2. RoundInv /\ [QuiesceNext]_qvars => RoundInv'
  BY QuiesceTypeStep, MaskStep, CommitStep DEF RoundInv
<1> QED BY <1>1, <1>2, PTL DEF QuiesceSpec

(* Type correctness of the counter's state.                                *)
THEOREM QuiesceTypes == QuiesceSpec => []QuiesceTypeOK
<1>1. RoundInv => QuiesceTypeOK BY DEF RoundInv
<1> QED BY RoundInvariant, <1>1, PTL

(* The assertions of cpu_quiescent_counter_ast, _leave, _checkin and       *)
(* _assert_ast hold.                                                       *)
THEOREM MaskAgrees == QuiesceSpec => []MaskMatchesState
<1>1. RoundInv => MaskMatchesState BY DEF RoundInv
<1> QED BY RoundInvariant, <1>1, PTL

(* The counter never waits for a commit that nobody is going to do.        *)
THEOREM CommitIsAssigned == QuiesceSpec => []CommitAssigned
<1>1. RoundInv => CommitAssigned BY DEF RoundInv
<1> QED BY RoundInvariant, <1>1, PTL

-----------------------------------------------------------------------------
(* At most one CPU commits, and while it does the round is complete and    *)
(* some CPU participates.                                                  *)
OneCommit ==
  /\ \A c, d \in Processors : Committing(c) /\ Committing(d) => c = d
  /\ \A c \in Processors : Committing(c) => expected = checkin /\ expected # {}
  /\ \A c \in Processors : pc[c] = "store" => old_gen[c] = counter

(* CPUs outside of user space have passed a barrier since the read, and    *)
(* after the first increment so has every CPU that checked in since.       *)
BarriersSeen ==
  watching =>
    /\ Processors \ expected \subseteq seen
    /\ incs = 1 /\ (\A c \in Processors : pc[c] # "reset") => checkin \subseteq seen

CommitInv == RoundInv /\ OneCommit /\ BarriersSeen /\ TwoIncrements

(* While somebody participates, only the step that completes a round makes *)
(* a committing CPU, and nobody completes it again before the reset.       *)
LEMMA OneCommitStep ==
  ASSUME ~ LastMayLeave, RoundInv, OneCommit, [QuiesceNext]_qvars PROVE OneCommit'
<1> USE DEF RoundInv, QuiesceTypeOK, OneCommit, Committing
<1>1. ASSUME NEW c \in Processors, cpu_quiescent_counter_join(c) PROVE OneCommit'
  BY <1>1 DEF cpu_quiescent_counter_join, mask
<1>2. ASSUME NEW c \in Processors, cpu_quiescent_counter_ast(c) PROVE OneCommit'
  BY <1>2 DEF cpu_quiescent_counter_ast
<1>3. ASSUME NEW c \in Processors, leave_pending(c) PROVE OneCommit'
  BY <1>3 DEF leave_pending, mask
<1>4. ASSUME NEW c \in Processors, cpu_quiescent_counter_leave(c) PROVE OneCommit'
  <2> USE DEF cpu_quiescent_counter_leave, cpu_quiescent_counter_needs_commit
  <2>1. expected' # {}
    BY <1>4 DEF MaskMatchesState
  <2>2. CASE expected = checkin
    BY <1>4, <2>1, <2>2
  <2>3. CASE expected # checkin
    BY <1>4, <2>1, <2>3
  <2> QED BY <2>2, <2>3
<1>5. ASSUME NEW c \in Processors, cpu_quiescent_counter_checkin(c) PROVE OneCommit'
  BY <1>5 DEF cpu_quiescent_counter_checkin, mask
<1>6. ASSUME NEW c \in Processors, checkin_or(c) PROVE OneCommit'
  BY <1>6 DEF checkin_or, cpu_quiescent_counter_needs_commit, MaskMatchesState
<1>7. ASSUME NEW c \in Processors, increment_load(c) PROVE OneCommit'
  BY <1>7 DEF increment_load, mask
<1>8. ASSUME NEW c \in Processors, increment_store(c) PROVE OneCommit'
  BY <1>8 DEF increment_store, mask
<1>9. ASSUME NEW c \in Processors, cpu_quiescent_counter_commit(c) PROVE OneCommit'
  BY <1>9 DEF cpu_quiescent_counter_commit
<1>10. ASSUME NEW c \in Processors, user_read(c) PROVE OneCommit'
  BY <1>10 DEF user_read, mask
<1>11. CASE UNCHANGED qvars
  BY <1>11 DEF qvars, mask
<1> QED BY <1>1, <1>2, <1>3, <1>4, <1>5, <1>6, <1>7, <1>8, <1>9, <1>10, <1>11
        DEF QuiesceNext, Step

(* A checkin bit set after the first increment stands for a barrier after  *)
(* the read; the second increment needs such a bit of every joined CPU.    *)
LEMMA BarriersStep ==
  ASSUME RoundInv, OneCommit, BarriersSeen, TwoIncrements, [QuiesceNext]_qvars
  PROVE  BarriersSeen' /\ TwoIncrements'
<1> DEFINE Goal == BarriersSeen' /\ TwoIncrements'
<1> USE DEF RoundInv, QuiesceTypeOK, BarriersSeen, TwoIncrements
<1>1. ASSUME NEW c \in Processors, cpu_quiescent_counter_join(c) PROVE Goal
  BY <1>1 DEF cpu_quiescent_counter_join, mask, watch
<1>2. ASSUME NEW c \in Processors, cpu_quiescent_counter_ast(c) PROVE Goal
  BY <1>2 DEF cpu_quiescent_counter_ast, barrier
<1>3. ASSUME NEW c \in Processors, leave_pending(c) PROVE Goal
  BY <1>3 DEF leave_pending, mask, watch
<1>4. ASSUME NEW c \in Processors, cpu_quiescent_counter_leave(c) PROVE Goal
  BY <1>4 DEF cpu_quiescent_counter_leave, barrier
<1>5. ASSUME NEW c \in Processors, cpu_quiescent_counter_checkin(c) PROVE Goal
  BY <1>5 DEF cpu_quiescent_counter_checkin, mask, watch
<1>6. ASSUME NEW c \in Processors, checkin_or(c) PROVE Goal
  BY <1>6 DEF checkin_or, barrier
<1>7. ASSUME NEW c \in Processors, increment_load(c) PROVE Goal
  BY <1>7 DEF increment_load, mask, watch
<1>8. ASSUME NEW c \in Processors, increment_store(c) PROVE Goal
  <2>1. expected = checkin /\ \A d \in Processors : pc[d] # "reset"
    BY <1>8 DEF increment_store, OneCommit, Committing
  <2>2. watching /\ incs = 1 => seen = Processors
    BY <2>1
  <2>3. BarriersSeen'
    BY <1>8 DEF increment_store, mask
  <2>4. TwoIncrements'
    BY <1>8, <2>2 DEF increment_store
  <2> QED BY <2>3, <2>4
<1>9. ASSUME NEW c \in Processors, cpu_quiescent_counter_commit(c) PROVE Goal
  BY <1>9 DEF cpu_quiescent_counter_commit, watch
<1>10. ASSUME NEW c \in Processors, user_read(c) PROVE Goal
  BY <1>10 DEF user_read, mask, MaskMatchesState
<1>11. CASE UNCHANGED qvars
  BY <1>11 DEF qvars, mask, watch
<1> QED BY <1>1, <1>2, <1>3, <1>4, <1>5, <1>6, <1>7, <1>8, <1>9, <1>10, <1>11
        DEF QuiesceNext, Step

(* Nobody commits or watches at boot.                                      *)
LEMMA InitCommit == QuiesceInit => CommitInv
<1> SUFFICES ASSUME QuiesceInit PROVE CommitInv
  OBVIOUS
<1>1. RoundInv BY InitRound
<1>2. OneCommit BY DEF QuiesceInit, OneCommit, Committing
<1>3. BarriersSeen /\ TwoIncrements BY DEF QuiesceInit, BarriersSeen, TwoIncrements
<1> QED BY <1>1, <1>2, <1>3 DEF CommitInv

(* Every step preserves the invariant if the last CPU does not leave.      *)
LEMMA CommitInvStep ==
  ASSUME ~ LastMayLeave, CommitInv, [QuiesceNext]_qvars PROVE CommitInv'
<1>1. RoundInv' BY QuiesceTypeStep, MaskStep, CommitStep DEF CommitInv, RoundInv
<1>2. OneCommit' BY OneCommitStep DEF CommitInv
<1>3. BarriersSeen' /\ TwoIncrements' BY BarriersStep DEF CommitInv
<1> QED BY <1>1, <1>2, <1>3 DEF CommitInv

(* As long as some CPU participates, a user thread that has seen two       *)
(* increments knows that every other CPU in user space has executed a      *)
(* barrier since its first read.                                           *)
THEOREM TwoIncrementsSuffice == ASSUME ~ LastMayLeave PROVE QuiesceSpec => []TwoIncrements
<1>1. QuiesceInit => CommitInv BY InitCommit
<1>2. CommitInv /\ [QuiesceNext]_qvars => CommitInv' BY CommitInvStep
<1>3. CommitInv => TwoIncrements BY DEF CommitInv
<1> QED BY <1>1, <1>2, <1>3, PTL DEF QuiesceSpec

(* Under the same condition the increment, a load and a store, is never    *)
(* overtaken by another one.                                               *)
THEOREM CounterOnlyAdvances == ASSUME ~ LastMayLeave PROVE QuiesceSpec => CounterAdvances
<1> DEFINE Advance == \A c \in Processors : pc[c] = "store" /\ pc'[c] = "reset"
                         => counter' = (counter + 1) % CounterMod
<1>1. QuiesceInit => CommitInv BY InitCommit
<1>2. CommitInv /\ [QuiesceNext]_qvars => CommitInv' BY CommitInvStep
<1>3. ASSUME CommitInv, [QuiesceNext]_qvars PROVE [Advance]_qvars
  <2> SUFFICES ASSUME QuiesceNext, NEW c \in Processors, pc[c] = "store", pc'[c] = "reset"
               PROVE  counter' = (counter + 1) % CounterMod
    BY <1>3 DEF qvars
  <2>1. PICK d \in Processors : Step(d) BY DEF QuiesceNext
  <2>2. d = c /\ increment_store(c)
    BY <1>3, <2>1 DEF CommitInv, RoundInv, QuiesceTypeOK, Step, cpu_quiescent_counter_join,
       cpu_quiescent_counter_ast, leave_pending, cpu_quiescent_counter_leave,
       cpu_quiescent_counter_checkin, checkin_or, increment_load, increment_store,
       cpu_quiescent_counter_commit, user_read
  <2> QED BY <1>3, <2>2 DEF increment_store, CommitInv, OneCommit
<1> QED BY <1>1, <1>2, <1>3, PTL DEF QuiesceSpec, CounterAdvances
=============================================================================
