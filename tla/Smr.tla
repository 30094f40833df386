-------------------------------- MODULE Smr --------------------------------
(***************************************************************************)
(* Safe memory reclamation, osfmk/kern/smr.c: "Global Unbounded Sequences".*)
(*                                                                         *)
(* A domain is a clock (s_rd_seq, s_wr_seq) and one c_rd_seq per CPU.      *)
(* Readers publish the write sequence they saw in c_rd_seq for the length  *)
(* of a critical section.  Writers unlink an object, advance s_wr_seq and  *)
(* keep the new value as the object's goal; the object may be reused once  *)
(* smr_poll() or smr_wait() says that every reader has observed the goal.  *)
(*                                                                         *)
(* Every action is one access to shared memory, so all interleavings of    *)
(* readers and of several concurrent scanners are explored.  The client    *)
(* is the one in osfmk/kern/btlog.c (bts_free_seq), reduced to a set of    *)
(* objects that are linked, unlinked, retired or free.                     *)
(*                                                                         *)
(* Sequence numbers are naturals: the modelled build is LP64, where a      *)
(* wrap takes 2^62 advances.  MaxSeq bounds the number of advances.        *)
(***************************************************************************)
EXTENDS Integers

CONSTANTS
    NCPU,       (* number of CPUs, walked in order by zpercpu_foreach()     *)
    Writers,    (* threads that unlink, advance, poll and wait              *)
    Objects,    (* SMR protected objects                                    *)
    NoObj,      (* a writer works on no object                              *)
    MaxSeq      (* bound: no advance makes s_wr_seq larger than this        *)

ASSUME NCPUAssumption == NCPU \in Nat \ {0}
ASSUME MaxSeqAssumption == MaxSeq \in Nat
ASSUME NoObjAssumption == NoObj \notin Objects

SMR_SEQ_INVALID == 0
SMR_SEQ_INIT == 1
SMR_SEQ_INC == 2

CPUs == 0 .. NCPU - 1

VARIABLES
    s_rd_seq, s_wr_seq,     (* struct smr: the domain's clock               *)
    c_rd_seq,               (* struct smr_pcpu, one per CPU                 *)
    rpc, rwr, held,         (* reader: position, s_wr_seq loaded, objects   *)
    status, free_seq,       (* object: life cycle, goal (bts_free_seq)      *)
    wpc, obj, wait,         (* writer: position, object, wait argument      *)
    clk_rd, rd_seq, it, seq, old   (* locals of __smr_scan/__smr_rd_advance *)

clock   == <<s_rd_seq, s_wr_seq>>
readers == <<c_rd_seq, rpc, rwr, held>>
objects == <<status, free_seq>>
scan    == <<clk_rd, rd_seq, it, seq, old>>
vars    == <<clock, readers, objects, wpc, obj, wait, scan>>

Max2(a, b) == IF a < b THEN b ELSE a
Min2(a, b) == IF a < b THEN a ELSE b

-----------------------------------------------------------------------------
(* SMR_DEFINE / smr_init(): both sequences start at SMR_SEQ_INIT, the per  *)
(* CPU sequences are zeroed, and every object is reachable by readers.     *)
Init ==
    /\ s_rd_seq = SMR_SEQ_INIT /\ s_wr_seq = SMR_SEQ_INIT
    /\ c_rd_seq = [c \in CPUs |-> SMR_SEQ_INVALID]
    /\ rpc = [c \in CPUs |-> "out"]
    /\ rwr = [c \in CPUs |-> SMR_SEQ_INVALID]
    /\ held = [c \in CPUs |-> {}]
    /\ status = [o \in Objects |-> "linked"]
    /\ free_seq = [o \in Objects |-> SMR_SEQ_INVALID]
    /\ wpc = [w \in Writers |-> "idle"]
    /\ obj = [w \in Writers |-> NoObj]
    /\ wait = [w \in Writers |-> FALSE]
    /\ clk_rd = [w \in Writers |-> SMR_SEQ_INVALID]
    /\ rd_seq = [w \in Writers |-> SMR_SEQ_INVALID]
    /\ it = [w \in Writers |-> 0]
    /\ seq = [w \in Writers |-> SMR_SEQ_INVALID]
    /\ old = [w \in Writers |-> SMR_SEQ_INVALID]

-----------------------------------------------------------------------------
(* Readers.  smr_enter() disables preemption, so a CPU runs one section.   *)

(* __smr_enter(), first half: a relaxed load of s_wr_seq, which may be     *)
(* arbitrarily stale when it is published.                                 *)
smr_enter_load(c) ==
    /\ rpc[c] = "out"
    /\ rpc' = [rpc EXCEPT ![c] = "entering"]
    /\ rwr' = [rwr EXCEPT ![c] = s_wr_seq]
    /\ UNCHANGED <<clock, c_rd_seq, held, objects, wpc, obj, wait, scan>>

(* __smr_enter(), second half: the XADD that publishes the section.        *)
smr_enter_publish(c) ==
    /\ rpc[c] = "entering"
    /\ rpc' = [rpc EXCEPT ![c] = "in"]
    /\ c_rd_seq' = [c_rd_seq EXCEPT ![c] = @ + rwr[c]]
    /\ rwr' = [rwr EXCEPT ![c] = SMR_SEQ_INVALID]
    /\ UNCHANGED <<clock, held, objects, wpc, obj, wait, scan>>

(* smr_entered_load(): read an SMR pointer, and keep what it points to.    *)
smr_entered_load(c, o) ==
    /\ rpc[c] = "in"
    /\ status[o] = "linked"
    /\ held' = [held EXCEPT ![c] = @ \union {o}]
    /\ UNCHANGED <<clock, c_rd_seq, rpc, rwr, objects, wpc, obj, wait, scan>>

(* smr_leave(): the references die with the section.                       *)
smr_leave(c) ==
    /\ rpc[c] = "in"
    /\ rpc' = [rpc EXCEPT ![c] = "out"]
    /\ c_rd_seq' = [c_rd_seq EXCEPT ![c] = SMR_SEQ_INVALID]
    /\ held' = [held EXCEPT ![c] = {}]
    /\ UNCHANGED <<clock, rwr, objects, wpc, obj, wait, scan>>

-----------------------------------------------------------------------------
(* Writers.                                                                *)

(* __btlib_remove_locked(): the serialized store that unlinks the object.  *)
remove(w, o) ==
    /\ wpc[w] = "idle"
    /\ status[o] = "linked"
    /\ status' = [status EXCEPT ![o] = "unlinked"]
    /\ obj' = [obj EXCEPT ![w] = o]
    /\ wpc' = [wpc EXCEPT ![w] = "removed"]
    /\ UNCHANGED <<clock, readers, free_seq, wait, scan>>

(* __btlib_insert(): a free object is overwritten and linked again.        *)
insert(o) ==
    /\ status[o] = "free"
    /\ status' = [status EXCEPT ![o] = "linked"]
    /\ free_seq' = [free_seq EXCEPT ![o] = SMR_SEQ_INVALID]
    /\ UNCHANGED <<clock, readers, wpc, obj, wait, scan>>

(* The object gets the advanced write sequence as its goal.                *)
retire(w) ==
    /\ s_wr_seq + SMR_SEQ_INC <= MaxSeq
    /\ s_wr_seq' = s_wr_seq + SMR_SEQ_INC
    /\ free_seq' = [free_seq EXCEPT ![obj[w]] = s_wr_seq + SMR_SEQ_INC]
    /\ status' = [status EXCEPT ![obj[w]] = "retired"]
    /\ UNCHANGED s_rd_seq

(* smr_advance(), with the LP64 __smr_wr_advance(): the goal is kept in    *)
(* the object and looked at later, by any thread.                          *)
smr_advance(w) ==
    /\ wpc[w] = "removed"
    /\ retire(w)
    /\ wpc' = [wpc EXCEPT ![w] = "idle"]
    /\ obj' = [obj EXCEPT ![w] = NoObj]
    /\ UNCHANGED <<readers, wait, scan>>

(* smr_synchronize(): one combined RMW advances s_wr_seq and reads         *)
(* s_rd_seq, then __smr_scan() waits for the new value.                    *)
smr_synchronize(w) ==
    /\ wpc[w] = "removed"
    /\ retire(w)
    /\ wait' = [wait EXCEPT ![w] = TRUE]
    /\ clk_rd' = [clk_rd EXCEPT ![w] = s_rd_seq]
    /\ rd_seq' = [rd_seq EXCEPT ![w] = s_wr_seq + SMR_SEQ_INC]
    /\ wpc' = [wpc EXCEPT ![w] = "scan"]
    /\ UNCHANGED <<readers, obj, it, seq, old>>

(* smr_poll() and smr_wait(): __smr_poll() loads s_rd_seq first and is     *)
(* done when the goal was already observed.  The client serializes the     *)
(* users of one retired object.                                            *)
smr_poll(w, o, wt) ==
    /\ wpc[w] = "idle"
    /\ status[o] = "retired"
    /\ \A v \in Writers : obj[v] # o
    /\ obj' = [obj EXCEPT ![w] = o]
    /\ wait' = [wait EXCEPT ![w] = wt]
    /\ clk_rd' = [clk_rd EXCEPT ![w] = s_rd_seq]
    /\ rd_seq' = [rd_seq EXCEPT ![w] = s_rd_seq]
    /\ wpc' = [wpc EXCEPT ![w] =
                IF free_seq[o] <= s_rd_seq THEN "return" ELSE "load_wr"]
    /\ UNCHANGED <<clock, readers, objects, it, seq, old>>

(* __smr_poll(), second load, and the entry of __smr_scan(), which takes a *)
(* goal above s_wr_seq for a wrapped one.                                  *)
smr_poll_load_wr(w) ==
    /\ wpc[w] = "load_wr"
    /\ IF s_wr_seq < free_seq[obj[w]]
       THEN /\ rd_seq' = [rd_seq EXCEPT ![w] = free_seq[obj[w]]]
            /\ wpc' = [wpc EXCEPT ![w] = "return"]
       ELSE /\ rd_seq' = [rd_seq EXCEPT ![w] = s_wr_seq]
            /\ wpc' = [wpc EXCEPT ![w] = "scan"]
    /\ UNCHANGED <<clock, readers, objects, obj, wait, clk_rd, it, seq, old>>

(* Mutant of observe: smr_wait() does not wait for the CPUs it visits.     *)
observe_nowait(w, s) ==
    /\ wpc' = [wpc EXCEPT ![w] = "scan"]
    /\ rd_seq' = [rd_seq EXCEPT ![w] =
            IF s = SMR_SEQ_INVALID THEN @ ELSE Min2(@, Max2(s, clk_rd[w]))]
    /\ it' = [it EXCEPT ![w] = @ + 1]
    /\ seq' = [seq EXCEPT ![w] = SMR_SEQ_INVALID]

(* Mutant of observe: a poll does not lower rd_seq to what it saw.         *)
observe_nomin(w, s) ==
    LET seen == Max2(s, clk_rd[w])
    IN IF s # SMR_SEQ_INVALID /\ wait[w] /\ seen < free_seq[obj[w]]
       THEN /\ wpc' = [wpc EXCEPT ![w] = "spin"]
            /\ seq' = [seq EXCEPT ![w] = seen]
            /\ UNCHANGED <<rd_seq, it>>
       ELSE /\ wpc' = [wpc EXCEPT ![w] = "scan"]
            /\ it' = [it EXCEPT ![w] = @ + 1]
            /\ seq' = [seq EXCEPT ![w] = SMR_SEQ_INVALID]
            /\ UNCHANGED rd_seq

(* Mutant of observe: a waiter also waits for readers that saw the goal.   *)
observe_toolong(w, s) ==
    LET seen == Max2(s, clk_rd[w])
    IN IF s # SMR_SEQ_INVALID /\ wait[w] /\ seen <= free_seq[obj[w]]
       THEN /\ wpc' = [wpc EXCEPT ![w] = "spin"]
            /\ seq' = [seq EXCEPT ![w] = seen]
            /\ UNCHANGED <<rd_seq, it>>
       ELSE /\ wpc' = [wpc EXCEPT ![w] = "scan"]
            /\ rd_seq' = [rd_seq EXCEPT ![w] =
                            IF s = SMR_SEQ_INVALID THEN @ ELSE Min2(@, seen)]
            /\ it' = [it EXCEPT ![w] = @ + 1]
            /\ seq' = [seq EXCEPT ![w] = SMR_SEQ_INVALID]

(* __smr_scan(), what the loop body does with an observed c_rd_seq s: an   *)
(* idle CPU is skipped, a stale sequence is raised to the s_rd_seq of the  *)
(* entry, a waiting scanner spins until the CPU moves on, and rd_seq ends  *)
(* up no larger than any sequence seen.                                    *)
observe(w, s) ==
    LET seen == Max2(s, clk_rd[w])
        goal == free_seq[obj[w]]
    IN IF s # SMR_SEQ_INVALID /\ wait[w] /\ seen < goal
       THEN /\ wpc' = [wpc EXCEPT ![w] = "spin"]
            /\ seq' = [seq EXCEPT ![w] = seen]
            /\ UNCHANGED <<rd_seq, it>>
       ELSE /\ wpc' = [wpc EXCEPT ![w] = "scan"]
            /\ rd_seq' = [rd_seq EXCEPT ![w] =
                            IF s = SMR_SEQ_INVALID THEN @ ELSE Min2(@, seen)]
            /\ it' = [it EXCEPT ![w] = @ + 1]
            /\ seq' = [seq EXCEPT ![w] = SMR_SEQ_INVALID]

(* The first load of the c_rd_seq of the next CPU.                         *)
smr_scan_cpu(w) ==
    /\ wpc[w] = "scan"
    /\ it[w] < NCPU
    /\ observe(w, c_rd_seq[it[w]])
    /\ UNCHANGED <<clock, readers, objects, obj, wait, clk_rd, old>>

(* hw_wait_while_equals_long() returns the first different value it sees.  *)
smr_scan_spin(w) ==
    /\ wpc[w] = "spin"
    /\ c_rd_seq[it[w]] # seq[w]
    /\ observe(w, c_rd_seq[it[w]])
    /\ UNCHANGED <<clock, readers, objects, obj, wait, clk_rd, old>>

(* __smr_rd_advance(): load s_rd_seq; only a larger value is installed.    *)
smr_rd_advance_load(w) ==
    /\ wpc[w] = "scan"
    /\ it[w] = NCPU
    /\ IF s_rd_seq < rd_seq[w]
       THEN /\ wpc' = [wpc EXCEPT ![w] = "cas"]
            /\ old' = [old EXCEPT ![w] = s_rd_seq]
            /\ UNCHANGED rd_seq
       ELSE /\ wpc' = [wpc EXCEPT ![w] = "return"]
            /\ rd_seq' = [rd_seq EXCEPT ![w] = s_rd_seq]
            /\ UNCHANGED old
    /\ UNCHANGED <<clock, readers, objects, obj, wait, clk_rd, it, seq>>

(* Mutant of smr_rd_advance_cas: a plain store.                            *)
smr_rd_advance_store(w) ==
    /\ wpc[w] = "cas"
    /\ s_rd_seq' = rd_seq[w]
    /\ wpc' = [wpc EXCEPT ![w] = "return"]
    /\ old' = [old EXCEPT ![w] = SMR_SEQ_INVALID]
    /\ UNCHANGED <<s_wr_seq, readers, objects, obj, wait, clk_rd, rd_seq, it, seq>>

(* __smr_rd_advance(): the compare and exchange.  A lost race returns the  *)
(* value the winner installed.                                             *)
smr_rd_advance_cas(w) ==
    /\ wpc[w] = "cas"
    /\ IF s_rd_seq = old[w]
       THEN s_rd_seq' = rd_seq[w] /\ UNCHANGED rd_seq
       ELSE rd_seq' = [rd_seq EXCEPT ![w] = s_rd_seq] /\ UNCHANGED s_rd_seq
    /\ wpc' = [wpc EXCEPT ![w] = "return"]
    /\ old' = [old EXCEPT ![w] = SMR_SEQ_INVALID]
    /\ UNCHANGED <<s_wr_seq, readers, objects, obj, wait, clk_rd, it, seq>>

(* The result: smr_poll() returns whether the goal was met, the callers of *)
(* smr_wait() and smr_synchronize() ignore it and go on.  With it, the     *)
(* object is reused, as in __btlib_insert().                               *)
smr_return(w) ==
    /\ wpc[w] = "return"
    /\ status' = [status EXCEPT ![obj[w]] =
            IF wait[w] \/ free_seq[obj[w]] <= rd_seq[w] THEN "free" ELSE @]
    /\ wpc' = [wpc EXCEPT ![w] = "idle"]
    /\ obj' = [obj EXCEPT ![w] = NoObj]
    /\ wait' = [wait EXCEPT ![w] = FALSE]
    /\ clk_rd' = [clk_rd EXCEPT ![w] = SMR_SEQ_INVALID]
    /\ rd_seq' = [rd_seq EXCEPT ![w] = SMR_SEQ_INVALID]
    /\ it' = [it EXCEPT ![w] = 0]
    /\ UNCHANGED <<clock, readers, free_seq, seq, old>>

-----------------------------------------------------------------------------
Reader(c) ==
    \/ smr_enter_load(c)
    \/ smr_enter_publish(c)
    \/ \E o \in Objects : smr_entered_load(c, o)
    \/ smr_leave(c)

(* The steps of a writer inside smr_poll(), smr_wait(), smr_synchronize(). *)
ScanStep(w) ==
    \/ smr_poll_load_wr(w)
    \/ smr_scan_cpu(w)
    \/ smr_scan_spin(w)
    \/ smr_rd_advance_load(w)
    \/ smr_rd_advance_cas(w)
    \/ smr_return(w)

Writer(w) ==
    \/ \E o \in Objects : remove(w, o)
    \/ smr_advance(w)
    \/ smr_synchronize(w)
    \/ \E o \in Objects, wt \in BOOLEAN : smr_poll(w, o, wt)
    \/ ScanStep(w)

Next ==
    \/ \E c \in CPUs : Reader(c)
    \/ \E w \in Writers : Writer(w)
    \/ \E o \in Objects : insert(o)

Spec == Init /\ [][Next]_vars

(* A section runs with preemption disabled and ends; a thread that called  *)
(* smr_wait() keeps running.                                               *)
Fairness ==
    /\ \A c \in CPUs : WF_vars(smr_enter_publish(c)) /\ WF_vars(smr_leave(c))
    /\ \A w \in Writers : WF_vars(ScanStep(w))

FairSpec == Spec /\ Fairness

-----------------------------------------------------------------------------
(* Sequences are naturals (c_rd_seq is reset by smr_leave(), never lowered),*)
(* a scan stays within the CPUs.                                           *)
TypeOK ==
    /\ s_rd_seq \in Nat /\ s_wr_seq \in Nat
    /\ c_rd_seq \in [CPUs -> Nat]
    /\ rpc \in [CPUs -> {"out", "entering", "in"}]
    /\ rwr \in [CPUs -> Nat]
    /\ held \in [CPUs -> SUBSET Objects]
    /\ status \in [Objects -> {"linked", "unlinked", "retired", "free"}]
    /\ free_seq \in [Objects -> Nat]
    /\ wpc \in [Writers -> {"idle", "removed", "load_wr", "scan", "spin",
                            "cas", "return"}]
    /\ obj \in [Writers -> Objects \union {NoObj}]
    /\ wait \in [Writers -> BOOLEAN]
    /\ clk_rd \in [Writers -> Nat]
    /\ rd_seq \in [Writers -> Nat]
    /\ it \in [Writers -> 0 .. NCPU]
    /\ seq \in [Writers -> Nat]
    /\ old \in [Writers -> Nat]

(* No object is handed back for reuse while a reader that loaded it is     *)
(* still inside its section: the purpose of smr_poll()/smr_wait(),         *)
(* including for readers that published a stale s_wr_seq.                  *)
NoReuseWhileHeld ==
    \A c \in CPUs : \A o \in held[c] : status[o] # "free"

(* The read sequence is a promise about every object, not only the one a   *)
(* scanner works for: once s_rd_seq reached an object's goal, no reader    *)
(* holds it.  __smr_poll() returns on that without looking at any CPU.     *)
GoalObserved ==
    \A o \in Objects :
        status[o] = "retired" /\ free_seq[o] <= s_rd_seq =>
            \A c \in CPUs : o \notin held[c]

(* The read sequence never passes the write sequence and never goes back,  *)
(* whatever scanners run concurrently: __smr_rd_advance().                 *)
ReadClockAdvances ==
    [][s_rd_seq <= s_rd_seq' /\ s_rd_seq' <= s_wr_seq']_clock

(* A thread that entered smr_wait() or smr_synchronize() returns, even if  *)
(* readers keep entering and leaving sections.                             *)
WaitReturns ==
    \A w \in Writers : (wpc[w] \in {"load_wr", "scan"} /\ wait[w]) ~> (wpc[w] = "idle")
=============================================================================
