----------------------------- MODULE CpuQuiesce -----------------------------
(***************************************************************************)
(* The CPU quiescing counter, osfmk/kern/cpu_quiesce.c: two bits per CPU,  *)
(* "expected" while the CPU runs user code and "checkin" once it executed  *)
(* a barrier in the current round.  The CPU whose step makes the two masks *)
(* equal commits: it increments a counter in the commpage and clears the   *)
(* checkin bits.  User code that sees two increments may conclude that all *)
(* the running CPUs executed a barrier in between.                         *)
(*                                                                         *)
(* Every access to the mask or to the counter is an action.  The minimum   *)
(* interval between two checkins is abstracted: a CPU may check in, or not *)
(* do so yet, at any time.                                                 *)
(***************************************************************************)
EXTENDS Integers, FiniteSets

CONSTANTS
    Processors,     (* the CPUs                                            *)
    CounterMod,     (* values of the counter: 2^64 in the code             *)
    LastMayLeave    (* whether the last participating CPU may leave        *)

ASSUME QuiesceAssumption ==
    /\ CounterMod \in Nat \ {0, 1, 2}
    /\ LastMayLeave \in BOOLEAN

VARIABLES
    expected,       (* cpu_quiescing_checkin_state, bits in the mask       *)
    checkin,        (* CPU_EXPECTED_MASK and CPU_CHECKIN_MASK              *)
    counter,        (* _COMM_PAGE_CPU_QUIESCENT_COUNTER                    *)
    state,          (* CPU: its participation                              *)
    pc,             (* CPU: position in an operation                       *)
    old_gen,        (* CPU: the counter it loaded                          *)
    watching,       (* a user thread has read the counter                  *)
    incs,           (* how many increments it has seen since, up to 2      *)
    seen            (* CPUs with a barrier since that read                 *)

mask  == <<expected, checkin>>
watch == <<watching, incs, seen>>
qvars == <<mask, counter, state, pc, old_gen, watch>>

Participation == {"NONE", "PENDING_JOIN", "JOINED", "LEFT"}

QuiesceInit ==
    /\ expected = {} /\ checkin = {} /\ counter = 0
    /\ state = [c \in Processors |-> "NONE"]
    /\ pc = [c \in Processors |-> "idle"]
    /\ old_gen = [c \in Processors |-> 0]
    /\ watching = FALSE /\ incs = 0 /\ seen = {}

(* CPU c executes a barrier.                                               *)
barrier(c) == seen' = seen \union {c} /\ UNCHANGED <<watching, incs>>

(* All the expected CPUs have checked in.                                  *)
cpu_quiescent_counter_needs_commit(e, i) == e = i

(* From the idle thread, or when the CPU comes up: join at the boundary to *)
(* user space (AST_UNQUIESCE).                                             *)
cpu_quiescent_counter_join(c) ==
    /\ pc[c] = "idle" /\ state[c] \in {"NONE", "LEFT"}
    /\ state' = [state EXCEPT ![c] = "PENDING_JOIN"]
    /\ UNCHANGED <<mask, counter, pc, old_gen, watch>>

(* On the way to user space.  A CPU that finds nobody has to check in      *)
(* later, others have just executed their barrier.                         *)
cpu_quiescent_counter_ast(c) ==
    /\ pc[c] = "idle" /\ state[c] = "PENDING_JOIN"
    /\ state' = [state EXCEPT ![c] = "JOINED"]
    /\ expected' = expected \union {c}
    /\ checkin' = IF expected = {} /\ checkin = {} THEN checkin ELSE checkin \union {c}
    /\ barrier(c)
    /\ UNCHANGED <<counter, pc, old_gen>>

(* Going idle before it reached user space.                                *)
leave_pending(c) ==
    /\ pc[c] = "idle" /\ state[c] = "PENDING_JOIN"
    /\ state' = [state EXCEPT ![c] = "LEFT"]
    /\ UNCHANGED <<mask, counter, pc, old_gen, watch>>

(* Mutant of cpu_quiescent_counter_leave: it commits although another CPU  *)
(* already does.                                                           *)
cpu_quiescent_counter_leave_twice(c) ==
    /\ pc[c] = "idle" /\ state[c] = "JOINED"
    /\ LastMayLeave \/ expected # {c}
    /\ expected' = expected \ {c} /\ checkin' = checkin \ {c}
    /\ state' = [state EXCEPT ![c] = "LEFT"]
    /\ pc' = IF cpu_quiescent_counter_needs_commit(expected', checkin')
             THEN [pc EXCEPT ![c] = "load"] ELSE pc
    /\ barrier(c)
    /\ UNCHANGED <<counter, old_gen>>

(* Going idle: both bits are cleared.  When that completes the round the   *)
(* CPU commits, unless the round was complete before.                      *)
cpu_quiescent_counter_leave(c) ==
    /\ pc[c] = "idle" /\ state[c] = "JOINED"
    /\ LastMayLeave \/ expected # {c}
    /\ expected' = expected \ {c} /\ checkin' = checkin \ {c}
    /\ state' = [state EXCEPT ![c] = "LEFT"]
    /\ pc' = IF /\ ~ cpu_quiescent_counter_needs_commit(expected, checkin)
                /\ cpu_quiescent_counter_needs_commit(expected', checkin')
             THEN [pc EXCEPT ![c] = "load"] ELSE pc
    /\ barrier(c)
    /\ UNCHANGED <<counter, old_gen>>

(* The load of a checkin: nothing to do if the bit is already set.         *)
cpu_quiescent_counter_checkin(c) ==
    /\ pc[c] = "idle" /\ state[c] = "JOINED"
    /\ c \notin checkin
    /\ pc' = [pc EXCEPT ![c] = "or"]
    /\ UNCHANGED <<mask, counter, state, old_gen, watch>>

(* Mutant of checkin_or: a CPU that completes the round does not commit    *)
(* when it is alone.                                                       *)
checkin_or_alone(c) ==
    /\ pc[c] = "or"
    /\ checkin' = checkin \union {c}
    /\ pc' = [pc EXCEPT ![c] =
                IF cpu_quiescent_counter_needs_commit(expected, checkin') /\ expected # {c}
                THEN "load" ELSE "idle"]
    /\ barrier(c)
    /\ UNCHANGED <<expected, counter, state, old_gen>>

(* Its atomic or; the CPU that completes the round commits.                *)
checkin_or(c) ==
    /\ pc[c] = "or"
    /\ checkin' = checkin \union {c}
    /\ pc' = [pc EXCEPT ![c] =
                IF cpu_quiescent_counter_needs_commit(expected, checkin')
                THEN "load" ELSE "idle"]
    /\ barrier(c)
    /\ UNCHANGED <<expected, counter, state, old_gen>>

(* commpage_increment_cpu_quiescent_counter: a load and a store.           *)
increment_load(c) ==
    /\ pc[c] = "load"
    /\ old_gen' = [old_gen EXCEPT ![c] = counter]
    /\ pc' = [pc EXCEPT ![c] = "store"]
    /\ UNCHANGED <<mask, counter, state, watch>>

(* The thread that watches sees an increment if the value grew by one.     *)
increment_store(c) ==
    /\ pc[c] = "store"
    /\ counter' = (old_gen[c] + 1) % CounterMod
    /\ incs' = IF watching /\ incs < 2 /\ old_gen[c] = counter THEN incs + 1 ELSE incs
    /\ pc' = [pc EXCEPT ![c] = "reset"]
    /\ UNCHANGED <<mask, state, old_gen, watching, seen>>

(* Mutant of cpu_quiescent_counter_commit: only its own bit is cleared.    *)
cpu_quiescent_counter_commit_own(c) ==
    /\ pc[c] = "reset"
    /\ checkin' = checkin \ {c}
    /\ pc' = [pc EXCEPT ![c] = "idle"]
    /\ UNCHANGED <<expected, counter, state, old_gen, watch>>

(* The end of a commit: the round starts over.                             *)
cpu_quiescent_counter_commit(c) ==
    /\ pc[c] = "reset"
    /\ checkin' = {}
    /\ pc' = [pc EXCEPT ![c] = "idle"]
    /\ UNCHANGED <<expected, counter, state, old_gen, watch>>

(* A user thread on CPU c reads the counter, and will read it again.  Only *)
(* other CPUs in user space matter: the rest pass a barrier on their way.  *)
user_read(c) ==
    /\ pc[c] = "idle" /\ state[c] = "JOINED"
    /\ watching' = TRUE /\ incs' = 0
    /\ seen' = {d \in Processors : state[d] # "JOINED" \/ d = c}
    /\ UNCHANGED <<mask, counter, state, pc, old_gen>>

Step(c) ==
    \/ cpu_quiescent_counter_join(c) \/ cpu_quiescent_counter_ast(c)
    \/ leave_pending(c) \/ cpu_quiescent_counter_leave(c)
    \/ cpu_quiescent_counter_checkin(c) \/ checkin_or(c)
    \/ increment_load(c) \/ increment_store(c) \/ cpu_quiescent_counter_commit(c)
    \/ user_read(c)

QuiesceNext == \E c \in Processors : Step(c)

QuiesceSpec == QuiesceInit /\ [][QuiesceNext]_qvars

(* Operations run with interrupts disabled to their end, and the quantum   *)
(* timer makes every CPU in user space check in.                           *)
FairQuiesceSpec ==
    /\ QuiesceSpec
    /\ \A c \in Processors :
          /\ WF_qvars(cpu_quiescent_counter_checkin(c))
          /\ WF_qvars(checkin_or(c))
          /\ WF_qvars(increment_load(c))
          /\ WF_qvars(increment_store(c))
          /\ WF_qvars(cpu_quiescent_counter_commit(c))

-----------------------------------------------------------------------------
Committing(c) == pc[c] \in {"load", "store", "reset"}

(* Masks, counter and per-CPU state have their types.                      *)
QuiesceTypeOK ==
    /\ expected \subseteq Processors /\ checkin \subseteq Processors
    /\ counter \in 0 .. CounterMod - 1
    /\ state \in [Processors -> Participation]
    /\ pc \in [Processors -> {"idle", "or", "load", "store", "reset"}]
    /\ old_gen \in [Processors -> 0 .. CounterMod - 1]
    /\ watching \in BOOLEAN /\ incs \in 0 .. 2 /\ seen \subseteq Processors

(* What the assertions of the code say: the expected bit of a CPU is set   *)
(* exactly while it is joined, no other CPU has a checkin bit, and a CPU   *)
(* that goes on to check in has not been counted yet.                      *)
MaskMatchesState ==
    /\ expected = {c \in Processors : state[c] = "JOINED"}
    /\ checkin \subseteq expected
    /\ \A c \in Processors : pc[c] = "or" => c \in expected \ checkin

(* A mask that needs a commit has a CPU that will do it: the counter never *)
(* stays in "needs commit" with no processor assigned to the commit.       *)
CommitAssigned ==
    expected # {} /\ cpu_quiescent_counter_needs_commit(expected, checkin)
        => \E c \in Processors : Committing(c)

(* Two increments of the counter imply that every other CPU has executed   *)
(* a barrier, or was not in user space, since the counter was first read.  *)
TwoIncrements == watching /\ incs = 2 => seen = Processors

(* The counter is only incremented: no commit takes it back or is lost.    *)
CounterAdvances ==
    [][\A c \in Processors : pc[c] = "store" /\ pc'[c] = "reset"
          => counter' = (counter + 1) % CounterMod]_qvars

(* While a CPU participates a round is completed sooner or later.          *)
Ticks == expected # {} ~> \E c \in Processors : Committing(c)
=============================================================================
