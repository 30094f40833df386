-------------------------- MODULE SemaphoreProofs ---------------------------
(***************************************************************************)
(* Proofs about Mach semaphores, for every set of threads and semaphores   *)
(* and whatever is waited on, signalled and destroyed: no waiter is        *)
(* forgotten, references are balanced and a wait reports what happened.    *)
(***************************************************************************)
EXTENDS Semaphore, FiniteSetTheorems, TLAPS

-----------------------------------------------------------------------------
(* The inductive invariant *)

(* The types of the variables.                                             *)
Typed ==
    /\ count \in [Semaphores -> Int] /\ \A s \in Semaphores : count[s] >= -1
    /\ active \in [Semaphores -> BOOLEAN]
    /\ waitq \in [Semaphores -> SUBSET Threads]
    /\ port \in [Semaphores -> BOOLEAN]
    /\ ref_count \in [Semaphores -> Int]
    /\ pc \in [Threads -> {"idle", "wait", "clear", "block", "blocked", "return"}
                             \union Routines]
    /\ op \in [Threads -> {"wait"} \union Routines]
    /\ wsem \in [Threads -> Semaphores \union {None}]
    /\ ssem \in [Threads -> Semaphores \union {None}]
    /\ option \in [Threads -> {"none", "timed", "noblock"}]
    /\ kr \in [Threads -> Results]
    /\ wait_result \in [Threads -> WaitResults]
    /\ handoff_thread \in [Threads -> Threads \union {None}]
    /\ got \in [Threads -> BOOLEAN]

(* Which semaphores the call of a thread works on at each position.        *)
Placed ==
    \A t \in Threads :
        /\ pc[t] = "idle" => wsem[t] = None /\ ssem[t] = None
        /\ pc[t] \in {"wait", "clear", "block", "blocked"} => op[t] = "wait"
        /\ pc[t] \in Routines \ {"signal"} => op[t] # "wait"
        /\ pc[t] # "idle" /\ op[t] = "wait" => wsem[t] \in Semaphores
        /\ op[t] # "wait" => wsem[t] = None
        /\ pc[t] \in {"clear"} \union Routines => ssem[t] \in Semaphores

(* A thread is only in the queue of the semaphore its call waits on, and   *)
(* only between the assertion of the wait and the end of it.               *)
Queued ==
    \A t \in Threads, s \in Semaphores : t \in waitq[s] =>
        /\ wsem[t] = s /\ op[t] = "wait"
        /\ pc[t] \in {"signal", "clear", "block", "blocked"}
        /\ kr[t] = "ALREADY_WAITING"

(* The result of a wait is open exactly as long as the thread is queued.   *)
Open == \A t \in Threads : wait_result[t] = "WAITING" <=> Waiting(t)

(* What a wait knows of its token before it returns.                       *)
OutcomeOf(t) ==
    op[t] = "wait" =>
        /\ pc[t] = "wait" => ~ got[t]
        /\ pc[t] \in {"block", "blocked"} => kr[t] = "ALREADY_WAITING"
        /\ pc[t] \in {"signal", "block", "blocked"} /\ kr[t] = "ALREADY_WAITING"
              => (got[t] <=> wait_result[t] = "AWAKENED")
        /\ pc[t] = "signal" /\ kr[t] # "ALREADY_WAITING"
              => (kr[t] = "SUCCESS" <=> got[t])
        /\ pc[t] = "clear" => ~ active[ssem[t]]

(* The same for all threads.                                               *)
Outcome == \A t \in Threads : OutcomeOf(t)

(* The threads whose calls wait on s, and those whose calls signal it.     *)
Waits(s) == {t \in Threads : wsem[t] = s}
Signals(s) == {t \in Threads : ssem[t] = s}

(* One reference for the port and one for each use by a call.              *)
Balanced ==
    \A s \in Semaphores :
        ref_count[s] = Cardinality(Waits(s)) + Cardinality(Signals(s))
                       + IF port[s] THEN 1 ELSE 0

(* The part that does not depend on the references.                        *)
Control ==
    Typed /\ Placed /\ Queued /\ Open /\ WaitersCounted /\ Outcome /\ LiveResultIsTrue

(* The inductive invariant.                                                *)
SemaphoreInv == Control /\ Balanced

-----------------------------------------------------------------------------
(* Sets of threads are finite, and their size follows their members.       *)
LEMMA UsesFinite ==
    ASSUME NEW s
    PROVE  /\ IsFiniteSet(Waits(s)) /\ IsFiniteSet(Signals(s))
           /\ Cardinality(Waits(s)) \in Nat /\ Cardinality(Signals(s)) \in Nat
           /\ Cardinality(Waits(s)) = 0 <=> Waits(s) = {}
           /\ Cardinality(Signals(s)) = 0 <=> Signals(s) = {}
<1>1. Waits(s) \subseteq Threads /\ Signals(s) \subseteq Threads
  BY DEF Waits, Signals
<1>2. IsFiniteSet(Threads)
  BY SemaphoreAssumption
<1> QED
  BY <1>1, <1>2, FS_Subset, FS_CardinalityType, FS_EmptySet

(* A semaphore without references is used by no call.                      *)
LEMMA Unused ==
    ASSUME Typed, Balanced, NEW s \in Semaphores, ref_count[s] = 0
    PROVE  ~ port[s] /\ \A t \in Threads : wsem[t] # s /\ ssem[t] # s
<1>1. Waits(s) = {} /\ Signals(s) = {} /\ ~ port[s]
  BY UsesFinite DEF Balanced
<1> QED
  BY <1>1 DEF Waits, Signals

-----------------------------------------------------------------------------
(* The outcome of a wait that is over has a result, and it is success for  *)
(* a wait that was awakened and for no other.                              *)
LEMMA Converted ==
    ASSUME NEW wr \in WaitResults \ {"WAITING"}
    PROVE  /\ semaphore_convert_wait_result(wr) \in Results \ {"ALREADY_WAITING"}
           /\ semaphore_convert_wait_result(wr) = "SUCCESS" <=> wr = "AWAKENED"
BY DEF semaphore_convert_wait_result, Results, WaitResults

(* To give tokens is to set flags.                                         *)
LEMMA AwakenTyped ==
    ASSUME NEW us, awaken(us)
    PROVE  got' \in [Threads -> BOOLEAN]
<1>1. \A u \in Threads : (got[u] \/ u \in us) \in BOOLEAN
  OBVIOUS
<1>2. got' = [u \in Threads |-> got[u] \/ u \in us]
  BY DEF awaken
<1> QED
  BY <1>1, <1>2, Zenon

-----------------------------------------------------------------------------
(* The steps of a call between its entry and its return.                   *)

(* A wait that is asserted, or fails at once: the count tells of a waiter. *)
LEMMA WaitLockedKeeps ==
    ASSUME Control, NEW t \in Threads, wait_locked(t)
    PROVE  Control'
<1> USE SemaphoreAssumption DEF Control, wait_locked, semas, life, call
<1>1. Typed'
  <2>1. wsem[t] \in Semaphores
    BY DEF Placed
  <2>2. count' \in [Semaphores -> Int] /\ \A s \in Semaphores : count'[s] >= -1
    BY <2>1 DEF Typed
  <2>3. waitq' \in [Semaphores -> SUBSET Threads]
    BY <2>1 DEF Typed
  <2>4. wait_result' \in [Threads -> WaitResults] /\ kr' \in [Threads -> Results]
    BY DEF Typed, WaitResults, Results
  <2>5. pc' \in [Threads -> {"idle", "wait", "clear", "block", "blocked", "return"}
                               \union Routines]
    BY DEF Typed, Routines
  <2> QED
    BY <2>2, <2>3, <2>4, <2>5 DEF Typed
<1>2. Placed'
  BY DEF Typed, Placed, Routines
<1>3. Queued'
  BY DEF Typed, Placed, Queued
<1>4. Open'
  <2>1. wsem[t] \in Semaphores /\ ~ Waiting(t)
    BY DEF Placed, Queued, Waiting
  <2>2. \A u \in Threads : u # t => (Waiting(u)' <=> Waiting(u))
    BY <2>1 DEF Typed, Waiting
  <2>3. \A u \in Threads : u # t => wait_result'[u] = wait_result[u]
    BY DEF Typed
  <2>4. wait_result'[t] = "WAITING" <=> Waiting(t)'
    BY <2>1 DEF Typed, Waiting
  <2> QED
    BY <2>2, <2>3, <2>4 DEF Open
<1>5. WaitersCounted'
  BY DEF Typed, WaitersCounted
<1>6. Outcome'
  BY DEF Typed, Outcome, OutcomeOf
<1>7. LiveResultIsTrue'
  BY DEF LiveResultIsTrue
<1> QED
  BY <1>1, <1>2, <1>3, <1>4, <1>5, <1>6, <1>7

(* A wait that takes a token, or returns without one.                      *)
LEMMA WaitNoblockKeeps ==
    ASSUME Control, NEW t \in Threads, wait_noblock(t)
    PROVE  Control'
<1> USE SemaphoreAssumption DEF Control, wait_noblock, semas, life, call
<1>1. Typed'
  BY DEF Typed, Placed, Routines, Results
<1>2. Placed'
  BY DEF Typed, Placed, Routines
<1>3. Queued'
  BY DEF Queued
<1>4. Open'
  BY DEF Open, Waiting
<1>5. WaitersCounted'
  BY DEF WaitersCounted
<1>6. Outcome'
  BY DEF Typed, Outcome, OutcomeOf
<1>7. LiveResultIsTrue'
  BY DEF Typed, Outcome, OutcomeOf, LiveResultIsTrue
<1> QED
  BY <1>1, <1>2, <1>3, <1>4, <1>5, <1>6, <1>7

(* The signal in the middle of a wait that signals: it may awaken any      *)
(* waiter, the caller included.                                            *)
LEMMA WaitSignalKeeps ==
    ASSUME Control, NEW t \in Threads, wait_signal(t)
    PROVE  Control'
<1> USE SemaphoreAssumption DEF Control, wait_signal, semas, life, call,
    semaphore_signal_internal, awaken, wakeup
<1>1. Typed'
  <2>1. ssem[t] \in Semaphores
    BY DEF Typed, Placed
  <2>2. count' \in [Semaphores -> Int] /\ \A s \in Semaphores : count'[s] >= -1
    BY <2>1 DEF Typed
  <2>3. waitq' \in [Semaphores -> SUBSET Threads]
    BY <2>1 DEF Typed
  <2>4. wait_result' \in [Threads -> WaitResults]
    BY DEF Typed, WaitResults
  <2>5. got' \in [Threads -> BOOLEAN]
    <3>1. CASE got' = got
      BY <3>1 DEF Typed
    <3>2. ASSUME NEW u, awaken({u})
          PROVE  got' \in [Threads -> BOOLEAN]
      BY <3>2, AwakenTyped
    <3> QED
      BY <3>1, <3>2
  <2>6. handoff_thread' \in [Threads -> Threads \union {None}]
    BY <2>1 DEF Typed
  <2>7. pc' \in [Threads -> {"idle", "wait", "clear", "block", "blocked", "return"}
                               \union Routines]
    BY DEF Typed
  <2> QED
    BY <2>2, <2>3, <2>4, <2>6, <2>7, <2>5 DEF Typed
<1>2. Placed'
  BY DEF Placed, Routines
<1>3. Queued'
  BY DEF Queued
<1>4. Open'
  BY DEF Open, Waiting
<1>5. WaitersCounted'
  BY DEF Typed, WaitersCounted
<1>6. Outcome'
  BY DEF Typed, Placed, Outcome, OutcomeOf, Queued
<1>7. LiveResultIsTrue'
  BY DEF Typed, Placed, Outcome, OutcomeOf, LiveResultIsTrue, Queued
<1> QED
  BY <1>1, <1>2, <1>3, <1>4, <1>5, <1>6, <1>7

(* The semaphore to signal is gone.                                        *)
LEMMA WaitSignalDeadKeeps ==
    ASSUME Control, NEW t \in Threads, wait_signal_dead(t)
    PROVE  Control'
<1> USE SemaphoreAssumption DEF Control, wait_signal_dead, semas, life, call
<1>1. Typed'
  BY DEF Typed
<1>2. Placed'
  BY DEF Placed, Routines
<1>3. Queued'
  BY DEF Queued
<1>4. Open'
  BY DEF Open, Waiting
<1>5. WaitersCounted'
  BY DEF WaitersCounted
<1>6. Outcome'
  BY DEF Outcome, OutcomeOf
<1>7. LiveResultIsTrue'
  BY DEF LiveResultIsTrue
<1> QED
  BY <1>1, <1>2, <1>3, <1>4, <1>5, <1>6, <1>7

(* The wait is called off, unless it is already over.                      *)
LEMMA WaitClearKeeps ==
    ASSUME Control, NEW t \in Threads, wait_clear(t)
    PROVE  Control'
<1> USE SemaphoreAssumption DEF Control, wait_clear, semas, life, call, wakeup,
    semaphore_convert_wait_result
<1>1. Typed'
  BY DEF Typed, Results, WaitResults, Open
<1>2. Placed'
  BY DEF Placed, Routines
<1>3. Queued'
  BY DEF Queued, Waiting
<1>4. Open'
  BY DEF Open, Waiting
<1>5. WaitersCounted'
  BY DEF WaitersCounted
<1>6. Outcome'
  BY DEF Outcome, OutcomeOf
<1>7. LiveResultIsTrue'
  BY DEF Placed, Outcome, OutcomeOf, LiveResultIsTrue
<1> QED
  BY <1>1, <1>2, <1>3, <1>4, <1>5, <1>6, <1>7

(* The thread gives up the processor.                                      *)
LEMMA WaitBlockKeeps ==
    ASSUME Control, NEW t \in Threads, wait_block(t)
    PROVE  Control'
<1> USE SemaphoreAssumption DEF Control, wait_block, semas, life, call
<1>1. Typed'
  BY DEF Typed
<1>2. Placed'
  BY DEF Placed, Routines
<1>3. Queued'
  BY DEF Queued
<1>4. Open'
  BY DEF Open, Waiting
<1>5. WaitersCounted'
  BY DEF WaitersCounted
<1>6. Outcome'
  BY DEF Outcome, OutcomeOf
<1>7. LiveResultIsTrue'
  BY DEF LiveResultIsTrue
<1> QED
  BY <1>1, <1>2, <1>3, <1>4, <1>5, <1>6, <1>7

(* The thread runs again; its result is what the wait ended with.          *)
LEMMA WaitResumeKeeps ==
    ASSUME Control, NEW t \in Threads, wait_resume(t)
    PROVE  Control'
<1> USE SemaphoreAssumption DEF Control, wait_resume, semas, life, call,
    semaphore_convert_wait_result
<1>1. Typed'
  BY DEF Typed, Results, WaitResults, Open
<1>2. Placed'
  BY DEF Placed, Routines
<1>3. Queued'
  BY DEF Queued, Waiting
<1>4. Open'
  BY DEF Open, Waiting
<1>5. WaitersCounted'
  BY DEF WaitersCounted
<1>6. Outcome'
  BY DEF Typed, Outcome, OutcomeOf
<1>7. LiveResultIsTrue'
  <2>1. wait_result[t] \in WaitResults \ {"WAITING"}
    BY DEF Typed, Open
  <2>2. kr'[t] = "SUCCESS" <=> got[t]
    BY <2>1, Converted DEF Typed, Outcome, OutcomeOf, Placed
  <2> QED
    BY <2>2 DEF Typed, LiveResultIsTrue
<1> QED
  BY <1>1, <1>2, <1>3, <1>4, <1>5, <1>6, <1>7

(* A signal.                                                               *)
LEMMA SemaphoreSignalKeeps ==
    ASSUME Control, NEW t \in Threads, semaphore_signal(t)
    PROVE  Control'
<1> USE SemaphoreAssumption DEF Control, semaphore_signal, semas, life, call,
    semaphore_signal_internal, awaken, wakeup
<1>1. Typed'
  <2>1. ssem[t] \in Semaphores
    BY DEF Typed, Placed
  <2>2. count' \in [Semaphores -> Int] /\ \A s \in Semaphores : count'[s] >= -1
    BY <2>1 DEF Typed
  <2>3. waitq' \in [Semaphores -> SUBSET Threads]
    BY <2>1 DEF Typed
  <2>4. wait_result' \in [Threads -> WaitResults]
    BY DEF Typed, WaitResults
  <2>5. got' \in [Threads -> BOOLEAN]
    <3>1. CASE got' = got
      BY <3>1 DEF Typed
    <3>2. ASSUME NEW u, awaken({u})
          PROVE  got' \in [Threads -> BOOLEAN]
      BY <3>2, AwakenTyped
    <3> QED
      BY <3>1, <3>2
  <2>6. handoff_thread' \in [Threads -> Threads \union {None}]
    BY <2>1 DEF Typed
  <2>7. pc' \in [Threads -> {"idle", "wait", "clear", "block", "blocked", "return"}
                               \union Routines]
    BY DEF Typed
  <2> QED
    BY <2>2, <2>3, <2>4, <2>6, <2>7, <2>5 DEF Typed
<1>2. Placed'
  BY DEF Typed, Placed
<1>3. Queued'
  BY DEF Queued
<1>4. Open'
  BY DEF Open, Waiting
<1>5. WaitersCounted'
  BY DEF Typed, WaitersCounted
<1>6. Outcome'
  BY DEF Typed, Placed, Outcome, OutcomeOf, Queued
<1>7. LiveResultIsTrue'
  BY DEF Typed, Placed, LiveResultIsTrue, Queued
<1> QED
  BY <1>1, <1>2, <1>3, <1>4, <1>5, <1>6, <1>7

(* A wakeup of every waiter.                                               *)
LEMMA SemaphoreSignalAllKeeps ==
    ASSUME Control, NEW t \in Threads, semaphore_signal_all(t)
    PROVE  Control'
<1> USE SemaphoreAssumption DEF Control, semaphore_signal_all, semas, life,
    call, awaken, wakeup
<1>1. Typed'
  BY DEF Typed, Placed, WaitResults
<1>2. Placed'
  BY DEF Typed, Placed
<1>3. Queued'
  BY DEF Queued
<1>4. Open'
  BY DEF Open, Waiting
<1>5. WaitersCounted'
  BY DEF WaitersCounted
<1>6. Outcome'
  BY DEF Typed, Placed, Outcome, OutcomeOf, Queued
<1>7. LiveResultIsTrue'
  BY DEF Typed, Placed, LiveResultIsTrue, Queued, Waiting, Routines
<1> QED
  BY <1>1, <1>2, <1>3, <1>4, <1>5, <1>6, <1>7

(* A signal of a semaphore that is gone.                                   *)
LEMMA SignalTerminatedKeeps ==
    ASSUME Control, NEW t \in Threads, signal_terminated(t)
    PROVE  Control'
<1> USE SemaphoreAssumption DEF Control, signal_terminated, semas, life, call
<1>1. Typed'
  BY DEF Typed
<1>2. Placed'
  BY DEF Typed, Placed
<1>3. Queued'
  BY DEF Queued
<1>4. Open'
  BY DEF Open, Waiting
<1>5. WaitersCounted'
  BY DEF WaitersCounted
<1>6. Outcome'
  BY DEF Outcome, OutcomeOf
<1>7. LiveResultIsTrue'
  BY DEF LiveResultIsTrue
<1> QED
  BY <1>1, <1>2, <1>3, <1>4, <1>5, <1>6, <1>7

(* Destruction by a call: the queue is emptied with the count.             *)
LEMMA SemaphoreDestroyKeeps ==
    ASSUME Control, NEW t \in Threads, semaphore_destroy(t)
    PROVE  Control'
<1> USE SemaphoreAssumption DEF Control, semaphore_destroy, semas, life, call,
    semaphore_destroy_internal, wakeup
<1>1. Typed'
  <2>1. count' \in [Semaphores -> Int] /\ \A s \in Semaphores : count'[s] >= -1
    BY DEF Typed
  <2>2. waitq' \in [Semaphores -> SUBSET Threads]
    BY DEF Typed
  <2>3. active' \in [Semaphores -> BOOLEAN]
    BY DEF Typed
  <2>4. wait_result' \in [Threads -> WaitResults]
    BY DEF Typed, WaitResults
  <2>5. pc' \in [Threads -> {"idle", "wait", "clear", "block", "blocked", "return"}
                               \union Routines]
    BY DEF Typed
  <2> QED
    BY <2>1, <2>2, <2>4, <2>5, <2>3 DEF Typed
<1>2. Placed'
  BY DEF Typed, Placed
<1>3. Queued'
  BY DEF Queued
<1>4. Open'
  BY DEF Open, Waiting
<1>5. WaitersCounted'
  BY DEF Typed, WaitersCounted
<1>6. Outcome'
  BY DEF Typed, Placed, Outcome, OutcomeOf, Open, Waiting
<1>7. LiveResultIsTrue'
  BY DEF Typed, Placed, LiveResultIsTrue
<1> QED
  BY <1>1, <1>2, <1>3, <1>4, <1>5, <1>6, <1>7

(* A signal of one thread.                                                 *)
LEMMA SemaphoreSignalThreadKeeps ==
    ASSUME Control, NEW t \in Threads, NEW x, semaphore_signal_thread(t, x)
    PROVE  Control'
<1> USE SemaphoreAssumption DEF Control, semaphore_signal_thread, semas, life,
    call, semaphore_signal_internal, awaken, wakeup
<1>1. Typed'
  <2>1. ssem[t] \in Semaphores
    BY DEF Typed, Placed
  <2>2. count' \in [Semaphores -> Int] /\ \A s \in Semaphores : count'[s] >= -1
    BY <2>1 DEF Typed
  <2>3. waitq' \in [Semaphores -> SUBSET Threads]
    BY <2>1 DEF Typed
  <2>4. wait_result' \in [Threads -> WaitResults]
    BY DEF Typed, WaitResults
  <2>5. handoff_thread' = handoff_thread
    OBVIOUS
  <2>6. pc' \in [Threads -> {"idle", "wait", "clear", "block", "blocked", "return"}
                               \union Routines]
    BY DEF Typed
  <2>7. got' \in [Threads -> BOOLEAN]
    <3>1. CASE got' = got
      BY <3>1 DEF Typed
    <3>2. ASSUME NEW us, awaken(us)
          PROVE  got' \in [Threads -> BOOLEAN]
      BY <3>2, AwakenTyped
    <3> QED
      BY <3>1, <3>2
  <2> QED
    BY <2>2, <2>3, <2>4, <2>5, <2>6, <2>7 DEF Typed
<1>2. Placed'
  BY DEF Typed, Placed
<1>3. Queued'
  BY DEF Queued
<1>4. Open'
  BY DEF Open, Waiting
<1>5. WaitersCounted'
  BY DEF Typed, WaitersCounted
<1>6. Outcome'
  BY DEF Typed, Placed, Outcome, OutcomeOf, Queued
<1>7. LiveResultIsTrue'
  BY DEF Typed, Placed, LiveResultIsTrue, Queued, Open, Routines
<1> QED
  BY <1>1, <1>2, <1>3, <1>4, <1>5, <1>6, <1>7

(* A timeout or an abort leaves the count at -1, with or without waiters.  *)
LEMMA WaitEndKeeps ==
    ASSUME Control, NEW t \in Threads, NEW r \in {"TIMED_OUT", "INTERRUPTED"}, wait_end(t, r)
    PROVE  Control'
<1> USE SemaphoreAssumption DEF Control, wait_end, semas, life, call, wakeup
<1>1. Typed'
  BY DEF Typed, WaitResults
<1>2. Placed'
  BY DEF Placed
<1>3. Queued'
  BY DEF Queued
<1>4. Open'
  BY DEF Open, Waiting
<1>5. WaitersCounted'
  BY DEF WaitersCounted
<1>6. Outcome'
  BY DEF Outcome, OutcomeOf, Open
<1>7. LiveResultIsTrue'
  BY DEF LiveResultIsTrue
<1> QED
  BY <1>1, <1>2, <1>3, <1>4, <1>5, <1>6, <1>7

(* Destruction at the end of the owning task.                              *)
LEMMA SemaphoreDestroyAllKeeps ==
    ASSUME Control, NEW x \in Semaphores, semaphore_destroy_all(x)
    PROVE  Control'
<1> USE SemaphoreAssumption DEF Control, semaphore_destroy_all, semas, life,
    call, semaphore_destroy_internal, wakeup
<1>1. Typed'
  BY DEF Typed, WaitResults
<1>2. Placed'
  BY DEF Placed
<1>3. Queued'
  BY DEF Queued
<1>4. Open'
  BY DEF Open, Waiting
<1>5. WaitersCounted'
  BY DEF Typed, WaitersCounted
<1>6. Outcome'
  BY DEF Typed, Placed, Outcome, OutcomeOf, Open, Waiting
<1>7. LiveResultIsTrue'
  BY DEF Typed, LiveResultIsTrue
<1> QED
  BY <1>1, <1>2, <1>3, <1>4, <1>5, <1>6, <1>7

(* Destruction by the end of the port.                                     *)
LEMMA SemaphoreNoSendersKeeps ==
    ASSUME Control, NEW x \in Semaphores, semaphore_no_senders(x)
    PROVE  Control'
<1> USE SemaphoreAssumption DEF Control, semaphore_no_senders, semas, life,
    call, semaphore_dereference, semaphore_destroy_internal, wakeup, Uses
<1>1. Typed'
  BY DEF Typed, WaitResults
<1>2. Placed'
  BY DEF Placed
<1>3. Queued'
  BY DEF Queued
<1>4. Open'
  BY DEF Open, Waiting
<1>5. WaitersCounted'
  BY DEF Typed, WaitersCounted
<1>6. Outcome'
  BY DEF Typed, Placed, Outcome, OutcomeOf, Open, Waiting, Routines
<1>7. LiveResultIsTrue'
  BY DEF Typed, LiveResultIsTrue
<1> QED
  BY <1>1, <1>2, <1>3, <1>4, <1>5, <1>6, <1>7

(* A call drops its references, perhaps the last ones.                     *)
LEMMA SemaphoreReturnKeeps ==
    ASSUME Control, NEW t \in Threads, semaphore_return(t)
    PROVE  Control'
<1> USE SemaphoreAssumption DEF Control, semaphore_return, semas, life, call,
    forget, semaphore_dereference, semaphore_destroy_internal, wakeup, Uses
<1>1. Typed'
  BY DEF Typed, Results, WaitResults
<1>2. Placed'
  BY DEF Typed, Placed, Routines
<1>3. Queued'
  BY DEF Queued
<1>4. Open'
  BY DEF Open, Waiting
<1>5. WaitersCounted'
  BY DEF Typed, WaitersCounted
<1>6. Outcome'
  <2>1. pc'[t] = "idle"
    BY DEF Typed
  <2>2. \A s \in Semaphores : active'[s] => active[s]
    BY DEF Typed
  <2>3. \A u \in Threads : u # t =>
          /\ op'[u] = op[u] /\ pc'[u] = pc[u] /\ kr'[u] = kr[u]
          /\ got'[u] = got[u] /\ ssem'[u] = ssem[u]
    BY DEF Typed
  <2>4. \A u \in Threads :
          \/ wait_result'[u] = wait_result[u]
          \/ wait_result[u] = "WAITING" /\ wait_result'[u] = "RESTART"
    BY DEF Typed, Open, Waiting
  <2> HIDE DEF semaphore_return
  <2>5. ASSUME NEW u \in Threads
        PROVE  OutcomeOf(u)'
    <3>1. CASE u = t
      BY <2>1, <3>1 DEF OutcomeOf
    <3>2. CASE u # t
      BY <2>2, <2>3, <2>4, <3>2 DEF Placed, Outcome, OutcomeOf
    <3> QED
      BY <3>1, <3>2
  <2> QED
    BY <2>5 DEF Outcome
<1>7. LiveResultIsTrue'
  BY DEF Typed, LiveResultIsTrue
<1> QED
  BY <1>1, <1>2, <1>3, <1>4, <1>5, <1>6, <1>7

(* A new semaphore in freed memory: nobody is left in its queue and no     *)
(* call remembers it.                                                      *)
LEMMA SemaphoreCreateKeeps ==
    ASSUME Control, Balanced, NEW x \in Semaphores, NEW value \in 0 .. 1, semaphore_create(x, value)
    PROVE  Control'
<1> USE SemaphoreAssumption DEF Control, semaphore_create, semas, life, call
<1>1. waitq[x] = {} /\ \A t \in Threads : ssem[t] # x
  BY Unused DEF Typed, Queued
<1>2. Typed'
  BY DEF Typed
<1>3. Placed'
  BY DEF Placed
<1>4. Queued'
  BY DEF Queued
<1>5. Open'
  BY DEF Open, Waiting
<1>6. WaitersCounted'
  BY <1>1 DEF WaitersCounted
<1>7. Outcome'
  BY <1>1 DEF Outcome, OutcomeOf
<1>8. LiveResultIsTrue'
  BY <1>1 DEF LiveResultIsTrue
<1> QED
  BY <1>2, <1>3, <1>4, <1>5, <1>6, <1>7, <1>8

(* A wait begins.                                                          *)
LEMMA SemaphoreWaitTrapKeeps ==
    ASSUME Control, NEW t \in Threads, NEW w \in Semaphores, NEW g \in Semaphores \union {None},
           NEW opt \in {"none", "timed", "noblock"}, semaphore_wait_trap(t, w, g, opt)
    PROVE  Control'
<1> USE SemaphoreAssumption DEF Control, semaphore_wait_trap, semas, life,
    call, semaphore_reference, Uses
<1>1. Typed'
  BY DEF Typed
<1>2. Placed'
  BY DEF Typed, Placed, Routines
<1>3. Queued'
  BY DEF Queued
<1>4. Open'
  BY DEF Open, Waiting
<1>5. WaitersCounted'
  BY DEF WaitersCounted
<1>6. Outcome'
  BY DEF Typed, Outcome, OutcomeOf
<1>7. LiveResultIsTrue'
  BY DEF LiveResultIsTrue
<1> QED
  BY <1>1, <1>2, <1>3, <1>4, <1>5, <1>6, <1>7

(* A signal or a destruction begins.                                       *)
LEMMA SemaphoreTrapKeeps ==
    ASSUME Control, NEW t \in Threads, NEW g \in Semaphores, NEW routine \in Calls,
           semaphore_trap(t, g, routine)
    PROVE  Control'
<1> USE SemaphoreAssumption DEF Control, semaphore_trap, semas, life, call,
    semaphore_reference, Uses
<1>1. Typed'
  BY DEF Typed
<1>2. Placed'
  BY DEF Typed, Placed, Routines
<1>3. Queued'
  BY DEF Queued
<1>4. Open'
  BY DEF Open, Waiting
<1>5. WaitersCounted'
  BY DEF WaitersCounted
<1>6. Outcome'
  BY DEF Typed, Outcome, OutcomeOf, Routines
<1>7. LiveResultIsTrue'
  BY DEF Typed, LiveResultIsTrue
<1> QED
  BY <1>1, <1>2, <1>3, <1>4, <1>5, <1>6, <1>7

-----------------------------------------------------------------------------
(* References *)

(* A use that begins is counted.                                           *)
LEMMA UseBegins ==
    ASSUME NEW t \in Threads, NEW w, NEW g, NEW s \in Semaphores,
           Typed, wsem[t] = None, ssem[t] = None,
           wsem' = [wsem EXCEPT ![t] = w], ssem' = [ssem EXCEPT ![t] = g]
    PROVE  Cardinality(Waits(s)') + Cardinality(Signals(s)')
             = Cardinality(Waits(s)) + Cardinality(Signals(s)) + Uses(s, w, g)
<1>1. t \notin Waits(s) /\ t \notin Signals(s)
  BY SemaphoreAssumption DEF Waits, Signals
<1>2. /\ s = w => Waits(s)' = Waits(s) \union {t}
      /\ s # w => Waits(s)' = Waits(s)
      /\ s = g => Signals(s)' = Signals(s) \union {t}
      /\ s # g => Signals(s)' = Signals(s)
  BY SemaphoreAssumption DEF Waits, Signals, Typed
<1>3. /\ Cardinality(Waits(s) \union {t}) = Cardinality(Waits(s)) + 1
      /\ Cardinality(Signals(s) \union {t}) = Cardinality(Signals(s)) + 1
  BY <1>1, UsesFinite, FS_AddElement
<1>4. Cardinality(Waits(s)) \in Nat /\ Cardinality(Signals(s)) \in Nat
  BY UsesFinite
<1>5. Cardinality(Waits(s)') = Cardinality(Waits(s)) + IF s = w THEN 1 ELSE 0
  <2>1. CASE s = w
    BY <1>2, <1>3, <2>1
  <2>2. CASE s # w
    BY <1>2, <1>4, <2>2
  <2> QED
    BY <2>1, <2>2
<1>6. Cardinality(Signals(s)') = Cardinality(Signals(s)) + IF s = g THEN 1 ELSE 0
  <2>1. CASE s = g
    BY <1>2, <1>3, <2>1
  <2>2. CASE s # g
    BY <1>2, <1>4, <2>2
  <2> QED
    BY <2>1, <2>2
<1> QED
  BY <1>4, <1>5, <1>6 DEF Uses

(* A use that ends is no longer counted.                                   *)
LEMMA UseEnds ==
    ASSUME NEW t \in Threads, NEW s \in Semaphores, Typed,
           wsem' = [wsem EXCEPT ![t] = None], ssem' = [ssem EXCEPT ![t] = None]
    PROVE  Cardinality(Waits(s)') + Cardinality(Signals(s)')
             = Cardinality(Waits(s)) + Cardinality(Signals(s)) - Uses(s, wsem[t], ssem[t])
<1>1. /\ s = wsem[t] => t \in Waits(s) /\ Waits(s)' = Waits(s) \ {t}
      /\ s # wsem[t] => Waits(s)' = Waits(s)
      /\ s = ssem[t] => t \in Signals(s) /\ Signals(s)' = Signals(s) \ {t}
      /\ s # ssem[t] => Signals(s)' = Signals(s)
  BY SemaphoreAssumption DEF Waits, Signals, Typed
<1>2. /\ t \in Waits(s) => Cardinality(Waits(s) \ {t}) = Cardinality(Waits(s)) - 1
      /\ t \in Signals(s) => Cardinality(Signals(s) \ {t}) = Cardinality(Signals(s)) - 1
  BY UsesFinite, FS_RemoveElement
<1>3. Cardinality(Waits(s)) \in Nat /\ Cardinality(Signals(s)) \in Nat
  BY UsesFinite
<1>4. /\ Cardinality(Waits(s)') = Cardinality(Waits(s)) - IF s = wsem[t] THEN 1 ELSE 0
      /\ Cardinality(Signals(s)') = Cardinality(Signals(s)) - IF s = ssem[t] THEN 1 ELSE 0
  BY <1>1, <1>2, <1>3
<1> QED
  BY <1>3, <1>4 DEF Uses

(* Calls that go on, ports that stay: the references stay.                 *)
LEMMA UsesStay ==
    ASSUME Balanced, UNCHANGED <<life, call>>
    PROVE  Balanced'
BY DEF Balanced, life, call, Waits, Signals

(* Every semaphore has as many references as it has uses.                  *)
LEMMA TrapBalanced ==
    ASSUME Control, Balanced, NEW t \in Threads, pc[t] = "idle", NEW w, NEW g,
           semaphore_reference(w, g), port' = port,
           wsem' = [wsem EXCEPT ![t] = w], ssem' = [ssem EXCEPT ![t] = g]
    PROVE  Balanced'
<1> SUFFICES ASSUME NEW s \in Semaphores
             PROVE  ref_count'[s] = Cardinality(Waits(s)') + Cardinality(Signals(s)')
                                    + IF port'[s] THEN 1 ELSE 0
  BY DEF Balanced
<1>1. wsem[t] = None /\ ssem[t] = None
  BY DEF Control, Placed
<1>2. ref_count'[s] = ref_count[s] + Uses(s, w, g)
  BY DEF semaphore_reference
<1>3. Uses(s, w, g) \in Nat
  BY DEF Uses
<1>4. Cardinality(Waits(s)') + Cardinality(Signals(s)')
        = Cardinality(Waits(s)) + Cardinality(Signals(s)) + Uses(s, w, g)
  BY <1>1, UseBegins DEF Control
<1>5. ref_count[s] = Cardinality(Waits(s)) + Cardinality(Signals(s))
                          + IF port[s] THEN 1 ELSE 0
  BY DEF Balanced
<1>6. Cardinality(Waits(s)) \in Nat /\ Cardinality(Signals(s)) \in Nat
  BY UsesFinite
<1> QED
  BY <1>2, <1>3, <1>4, <1>5, <1>6

(* A call that returns drops the references it has taken.                  *)
LEMMA ReturnBalanced ==
    ASSUME Control, Balanced, NEW t \in Threads, semaphore_return(t)
    PROVE  Balanced'
<1> SUFFICES ASSUME NEW s \in Semaphores
             PROVE  ref_count'[s] = Cardinality(Waits(s)') + Cardinality(Signals(s)')
                                    + IF port'[s] THEN 1 ELSE 0
  BY DEF Balanced
<1>1. ref_count'[s] = ref_count[s] - Uses(s, wsem[t], ssem[t]) /\ port' = port
  BY DEF semaphore_return, semaphore_dereference
<1>2. Uses(s, wsem[t], ssem[t]) \in Nat
  BY DEF Uses
<1>3. wsem' = [wsem EXCEPT ![t] = None] /\ ssem' = [ssem EXCEPT ![t] = None]
  BY DEF semaphore_return, forget
<1>4. Cardinality(Waits(s)') + Cardinality(Signals(s)')
        = Cardinality(Waits(s)) + Cardinality(Signals(s)) - Uses(s, wsem[t], ssem[t])
  BY <1>3, UseEnds DEF Control
<1>5. ref_count[s] = Cardinality(Waits(s)) + Cardinality(Signals(s))
                          + IF port[s] THEN 1 ELSE 0
  BY DEF Balanced
<1>6. Cardinality(Waits(s)) \in Nat /\ Cardinality(Signals(s)) \in Nat
  BY UsesFinite
<1> QED
  BY <1>1, <1>2, <1>4, <1>5, <1>6

(* The port gives up its reference.                                        *)
LEMMA NoSendersBalanced ==
    ASSUME Control, Balanced, NEW x \in Semaphores, semaphore_no_senders(x)
    PROVE  Balanced'
<1> SUFFICES ASSUME NEW s \in Semaphores
             PROVE  ref_count'[s] = Cardinality(Waits(s)') + Cardinality(Signals(s)')
                                    + IF port'[s] THEN 1 ELSE 0
  BY DEF Balanced
<1>1. Waits(s)' = Waits(s) /\ Signals(s)' = Signals(s)
  BY DEF semaphore_no_senders, call, Waits, Signals
<1>2. ref_count'[s] = ref_count[s] - IF s = x THEN 1 ELSE 0
  BY SemaphoreAssumption DEF semaphore_no_senders, semaphore_dereference, Uses
<1>3. IF s = x THEN port[s] /\ ~ port'[s] ELSE port'[s] = port[s]
  BY DEF semaphore_no_senders, Control, Typed
<1>4. ref_count[s] = Cardinality(Waits(s)) + Cardinality(Signals(s))
                          + IF port[s] THEN 1 ELSE 0
  BY DEF Balanced
<1>5. Cardinality(Waits(s)) \in Nat /\ Cardinality(Signals(s)) \in Nat
  BY UsesFinite
<1> QED
  BY <1>1, <1>2, <1>3, <1>4, <1>5

(* A new semaphore has the reference of its port.                          *)
LEMMA CreateBalanced ==
    ASSUME Control, Balanced, NEW x \in Semaphores, NEW value, semaphore_create(x, value)
    PROVE  Balanced'
<1> SUFFICES ASSUME NEW s \in Semaphores
             PROVE  ref_count'[s] = Cardinality(Waits(s)') + Cardinality(Signals(s)')
                                    + IF port'[s] THEN 1 ELSE 0
  BY DEF Balanced
<1>1. Waits(s)' = Waits(s) /\ Signals(s)' = Signals(s)
  BY DEF semaphore_create, call, Waits, Signals
<1>2. ~ port[x] /\ ref_count[x] = 0
  BY Unused DEF Control, semaphore_create
<1>3. ref_count'[s] = ref_count[s] + IF s = x THEN 1 ELSE 0
  BY <1>2 DEF semaphore_create, Control, Typed
<1>4. IF s = x THEN port'[s] ELSE port'[s] = port[s]
  BY DEF semaphore_create, Control, Typed
<1>5. ref_count[s] = Cardinality(Waits(s)) + Cardinality(Signals(s))
                          + IF port[s] THEN 1 ELSE 0
  BY DEF Balanced
<1>6. Cardinality(Waits(s)) \in Nat /\ Cardinality(Signals(s)) \in Nat
  BY UsesFinite
<1> QED
  BY <1>1, <1>2, <1>3, <1>4, <1>5, <1>6

-----------------------------------------------------------------------------
(* The invariant holds initially,                                          *)
LEMMA SemaphoreInvInit == Init => SemaphoreInv
<1> SUFFICES ASSUME Init
             PROVE  SemaphoreInv
  OBVIOUS
<1> USE SemaphoreAssumption DEF Init
<1>1. Typed
  BY DEF Typed, Results, WaitResults
<1>2. Placed /\ Queued /\ Open /\ WaitersCounted /\ Outcome /\ LiveResultIsTrue
  BY DEF Placed, Queued, Open, Waiting, WaitersCounted, Outcome, OutcomeOf,
      LiveResultIsTrue, Routines
<1>3. \A s \in Semaphores : Waits(s) = {} /\ Signals(s) = {}
  BY DEF Waits, Signals
<1>4. Balanced
  BY <1>3, FS_EmptySet DEF Balanced
<1> QED
  BY <1>1, <1>2, <1>4 DEF SemaphoreInv, Control

(* and every step keeps it.                                                *)
LEMMA SemaphoreInvNext == SemaphoreInv /\ [Next]_vars => SemaphoreInv'
<1> SUFFICES ASSUME SemaphoreInv, [Next]_vars
             PROVE  SemaphoreInv'
  OBVIOUS
<1> USE DEF SemaphoreInv
<1>1. CASE UNCHANGED vars
  BY <1>1 DEF vars, semas, life, call, Control, Typed, Placed, Queued, Open,
      Waiting, WaitersCounted, Outcome, OutcomeOf, LiveResultIsTrue, Balanced,
      Waits, Signals
<1>2. ASSUME NEW t \in Threads, NEW w \in WaitOn, NEW g \in SignalOn \union {None},
             NEW opt \in {"none", "timed", "noblock"}, semaphore_wait_trap(t, w, g, opt)
      PROVE  SemaphoreInv'
  <2>1. w \in Semaphores /\ g \in Semaphores \union {None}
    BY SemaphoreAssumption
  <2> QED
    BY <1>2, <2>1, SemaphoreWaitTrapKeeps, TrapBalanced DEF semaphore_wait_trap
<1>3. ASSUME NEW t \in Threads, NEW g \in Semaphores, NEW routine \in Calls,
             semaphore_trap(t, g, routine)
      PROVE  SemaphoreInv'
  BY <1>3, SemaphoreTrapKeeps, TrapBalanced DEF semaphore_trap
<1>4. ASSUME NEW t \in Threads, ThreadStep(t)
      PROVE  SemaphoreInv'
  <2>1. CASE wait_locked(t)
    BY <2>1, WaitLockedKeeps, UsesStay DEF wait_locked
  <2>2. CASE wait_noblock(t)
    BY <2>2, WaitNoblockKeeps, UsesStay DEF wait_noblock
  <2>3. CASE wait_signal(t)
    BY <2>3, WaitSignalKeeps, UsesStay DEF wait_signal
  <2>4. CASE wait_signal_dead(t)
    BY <2>4, WaitSignalDeadKeeps, UsesStay DEF wait_signal_dead
  <2>5. CASE wait_clear(t)
    BY <2>5, WaitClearKeeps, UsesStay DEF wait_clear
  <2>6. CASE wait_block(t)
    BY <2>6, WaitBlockKeeps, UsesStay DEF wait_block
  <2>7. CASE wait_resume(t)
    BY <2>7, WaitResumeKeeps, UsesStay DEF wait_resume
  <2>8. CASE semaphore_signal(t)
    BY <2>8, SemaphoreSignalKeeps, UsesStay DEF semaphore_signal
  <2>9. CASE semaphore_signal_all(t)
    BY <2>9, SemaphoreSignalAllKeeps, UsesStay DEF semaphore_signal_all
  <2>10. ASSUME NEW u \in Threads \union {None}, semaphore_signal_thread(t, u)
         PROVE  SemaphoreInv'
    BY <2>10, SemaphoreSignalThreadKeeps, UsesStay DEF semaphore_signal_thread
  <2>11. CASE signal_terminated(t)
    BY <2>11, SignalTerminatedKeeps, UsesStay DEF signal_terminated
  <2>12. CASE semaphore_destroy(t)
    BY <2>12, SemaphoreDestroyKeeps, UsesStay DEF semaphore_destroy
  <2>13. CASE semaphore_return(t)
    BY <2>13, SemaphoreReturnKeeps, ReturnBalanced
  <2> QED
    BY <1>4, <2>1, <2>2, <2>3, <2>4, <2>5, <2>6, <2>7, <2>8, <2>9, <2>10,
        <2>11, <2>12, <2>13 DEF ThreadStep
<1>5. ASSUME NEW t \in Threads, NEW r \in {"TIMED_OUT", "INTERRUPTED"}, wait_end(t, r)
      PROVE  SemaphoreInv'
  BY <1>5, WaitEndKeeps, UsesStay DEF wait_end
<1>6. ASSUME NEW s \in Semaphores, semaphore_destroy_all(s)
      PROVE  SemaphoreInv'
  BY <1>6, SemaphoreDestroyAllKeeps, UsesStay DEF semaphore_destroy_all
<1>7. ASSUME NEW s \in Semaphores, semaphore_no_senders(s)
      PROVE  SemaphoreInv'
  BY <1>7, SemaphoreNoSendersKeeps, NoSendersBalanced
<1>8. ASSUME NEW s \in Semaphores, NEW value \in 0 .. 1, semaphore_create(s, value)
      PROVE  SemaphoreInv'
  BY <1>8, SemaphoreCreateKeeps, CreateBalanced
<1> QED
  BY <1>1, <1>2, <1>3, <1>4, <1>5, <1>6, <1>7, <1>8 DEF Next

(* The invariant holds always.                                             *)
THEOREM SemaphoreInvariant == Spec => []SemaphoreInv
BY SemaphoreInvInit, SemaphoreInvNext, PTL DEF Spec

(* No mix of timeouts, aborts, signals and destructions leaves a thread in *)
(* the queue of a semaphore whose count does not tell of waiters.          *)
THEOREM WaitersAreCounted == Spec => []WaitersCounted
<1>1. SemaphoreInv => WaitersCounted
  BY DEF SemaphoreInv, Control
<1> QED
  BY <1>1, SemaphoreInvariant, PTL

(* A semaphore has one reference for its port and one for every use by a   *)
(* call, also when a call waits on and signals the same semaphore.         *)
THEOREM ReferencesAreBalanced == Spec => []ReferencesBalanced
<1>1. SemaphoreInv => ReferencesBalanced
  <2> SUFFICES ASSUME SemaphoreInv, NEW s \in Semaphores
               PROVE  /\ Waits(s) = {t \in Threads : pc[t] # "idle" /\ s = wsem[t]}
                      /\ Signals(s) = {t \in Threads : pc[t] # "idle" /\ s = ssem[t]}
    BY DEF SemaphoreInv, Balanced, ReferencesBalanced
  <2> QED
    BY SemaphoreAssumption DEF SemaphoreInv, Control, Placed, Waits, Signals
<1> QED
  BY <1>1, SemaphoreInvariant, PTL

(* A wait that signals nothing, or a semaphore that is still active,       *)
(* reports success exactly when the thread was given a token or a wakeup.  *)
THEOREM LiveResultsAreTrue == Spec => []LiveResultIsTrue
<1>1. SemaphoreInv => LiveResultIsTrue
  BY DEF SemaphoreInv, Control
<1> QED
  BY <1>1, SemaphoreInvariant, PTL

(* A semaphore without references is the argument of no call, has an empty *)
(* queue and no port.                                                      *)
FreedIsUnused ==
    \A s \in Semaphores : ref_count[s] = 0 =>
        /\ waitq[s] = {} /\ ~ port[s]
        /\ \A t \in Threads : wsem[t] # s /\ ssem[t] # s

(* Nothing is freed under a call: semaphore_dereference frees a semaphore  *)
(* that no call uses any more and that nobody can find.                    *)
THEOREM FreedSemaphoresAreUnused == Spec => []FreedIsUnused
<1>1. SemaphoreInv => FreedIsUnused
  BY Unused DEF SemaphoreInv, Control, Typed, Queued, FreedIsUnused
<1> QED
  BY <1>1, SemaphoreInvariant, PTL
=============================================================================
