# Verification of the synchronisation core of XNU

The repository holds the sources of XNU 8020.140.41 (the macOS 12.5 kernel),
scripts that build it and notes on the build. The reference build is the one
the repository's README describes: LP64, x86_64, DEVELOPMENT. This project
keeps TLA+ models of the part of the kernel that everything else relies on and
that tests reach least: the lock-free queues, the deferred reclamation schemes,
the CPU quiescing counter, the Mach semaphores, the thread calls, the read-write
locks and the gates of `osfmk/kern`.

Paths below are relative to `src/xnu-8020.140.41/`. `PROJECT.json` names the
lines each definition was translated from, the runs, the mutants, the hazards
and the theorems.

Contents: 1 inventory, 2 modules and code, 3 runs, 4 bounds, 5 fairness,
6 proofs, 7 disagreements between code and documentation, 8 limits, 9 plan.

## 1. Inventory

### Components that are modelled

**Safe memory reclamation**, `osfmk/kern/smr.c`, `smr.h`.
*State:* a clock of two sequences (`s_rd_seq`, `s_wr_seq`) per domain and one
`c_rd_seq` per CPU. *Operations:* `smr_enter`, `smr_leave`, `smr_advance`,
`smr_poll`, `smr_wait`, `smr_synchronize`. *Interactions:* readers only store
to their own CPU's word; writers scan all of them; several writers scan at a
time and share their results through `s_rd_seq`. *Client:* the backtrace
library (`btlog.c`), which unlinks stacks, tags them with a goal and reuses
them. *Hard:* a section publishes a write sequence it loaded arbitrarily long
ago; a scan is not atomic; a scanner's result is used for objects it knew
nothing of. *Correct if* nothing is reused while a section can still reach it,
the read sequence is monotone, and waits end.

**MPSC queue**, `mpsc_queue.h`, `mpsc_queue.c`.
*State:* head, tail and links. *Operations:* append of an element or a list,
dequeue of a batch, walk, restore. *Hard:* an append exchanges the tail before
it links its element, so the list has gaps while the consumer walks it.
*Correct if* it is a FIFO of batches that loses, duplicates and reorders
nothing.

**MPSC daemon queues**, `mpsc_queue.c`.
*State:* four bits (`DRAINING`, `WAKEUP`, `CANCELED`, `INACTIVE`), the queue,
the state of the drain (a kernel thread, a thread call, or an item of another
daemon queue). *Operations:* enqueue, wakeup, drain, activate, cancel and wait.
*Interactions:* a nested queue is an element of its target; the drain is woken
through `thread_wakeup_thread` or `thread_call_enter`. *Hard:* who wakes whom
is decided by three atomic operations on the bits that race with appends; the
object is destroyed when a cancelation returns. *Correct if* no wakeup is lost,
no queue is on its target twice, and nothing refers to a canceled queue.

**Hazard pointers**, `hazard.c`, `hazard.h`, with `bsd/kern/qsort.c`.
*State:* guard slots per CPU, a bucket per CPU, the daemon queue of full
buckets, the pending list. *Operations:* guard get, acquire, set, put; store and
retire; scan, sort, filter. *Hard:* values are retired and reused between the
load and the guard of a reader; buckets are compacted in place. *Correct if* no
guarded value is destroyed, no record of a retired value is lost, and few
records are deferred.

**CPU quiescing counter**, `cpu_quiesce.c`, and the increment in
`osfmk/arm/commpage/commpage.c`.
*State:* an expected and a checkin bit per CPU in one word, a counter in the
commpage, a participation per CPU. *Operations:* join, AST, leave, checkin,
commit. *Hard:* the commit is several steps that exclude each other only
through the value of the mask. *Correct if* a complete round is committed, and
two increments imply a barrier on all CPUs in user space.

**Mach semaphores**, `sync_sema.c`.
*State:* count, owner, wait queue, references, port. *Operations:* all traps
(wait, timed wait, wait and signal, three signals), create, destroy, end of the
owner, no-senders notification. *Hard:* a thread asserts a wait, signals
another semaphore and only then blocks; timeouts, aborts and destruction come
in between; references are dropped by continuations. *Correct if* no waiter is
forgotten, the result of a wait is true, references balance and woken threads
return.

**Thread calls**, `thread_call.c`.
*State:* per group a queue of pending calls, the delayed calls with their
timer, counts of active, idle and blocked threads; per call its flags
(`RUNNING`, `RESCHEDULE`, `WAIT`), submit and finish counts, references.
*Operations:* enter now or for a deadline, cancel, cancel and wait, wait once,
allocate, free. *Interactions:* clients, the group's threads, the daemon that
creates them, the timer interrupt and the scheduler's call when a function
blocks all change the group under its lock, which is dropped to execute, to
wake up and to create. *Hard:* `ONCE` calls are submitted, canceled, waited for
and freed while they execute; wakeups are sent after the lock was dropped; the
daemon is told by a flag and a wakeup. *Correct if* counts match the threads,
nothing submitted is lost, a `ONCE` call executes alone, storage outlives its
users, and waits return, not before what they wait for.

**Read-write locks**, `lock_rw.c`.
*State:* one word (reader count, `want_excl`, `want_upgrade`, two waiting
flags, interlock, attributes) and the owner. *Operations:* lock and try, shared
and exclusive, upgrade, downgrade, unlock. *Hard:* fast paths exchange the word
while sleepers set flags under the interlock; two readers upgrade at a time
while a writer drains; wakeups are decided on the word as it was. *Correct if*
a writer is alone, one upgrade wins, sleepers are woken up, writers do not
starve.

**Gates**, `locks.c`.
*State:* a word (holder, waiters bit, spin bit, or destroyed), references, a
turnstile. *Operations:* close, try, open, hand off, steal, wait, destroy,
free. *Interactions:* a gate is used with a lock of its client's, which
`gate_wait` drops and takes again; who comes back from a wait touches the gate
without it. *Hard:* interrupted waiters come back late, to a gate that was
opened, closed, handed off or freed. *Correct if* sleepers are known and push
the holder, a holder knows that it is one, and the last one out frees.

### Components that are not modelled

Listed with reasons in `PROJECT.json`: ticket and spin locks and mutexes, wait
queues and turnstiles, the scheduler, task references, tasks and threads, the
zone allocator, Mach IPC, virtual memory, restartable ranges, machine dependent
code, diagnostics, the BSD layer, I/O Kit, the security framework, the platform
expert, tools and tests, the build scripts. Some of them are planned (section
9); the others are either far larger than a model can hold or have no protocol
of their own.

### How the modelled components interact

    btlog ---> SMR            hazard_retire ---> daemon queue ---> hazard scan
                                                     |
    senders ---> daemon queue (bits) ---> MPSC queue (list)
                     |  nested in
                     +--> target daemon queue ---> drain thread / thread call
                                                                    |
    clients, timers, blocking functions ---> thread call group <----+

    gate ---> the client's lock: SharedLock <--- implemented by RwLock

`MpscQueue` implements `MpscFifo`; `MpscDaemon` and `Hazard` take their queues
at the level of `MpscFifo`. `RwLock` implements `SharedLock`; `Gate` takes the
lock it is used with at the level of `SharedLock`, and its fairness assumption
about that lock is what `RwLock` shows of writers. A daemon queue submits its
call with `thread_call_enter`; `MpscDaemon` assumes of it that a pending call is
executed and a submission during an execution is not lost, which are
`PendingServed` and `RescheduleKept` of `ThreadCall`. Semaphores and the
quiescing counter stand by themselves on top of the scheduler's wait and wakeup.

## 2. Modules and how they correspond to the code

Each action is one access to shared memory, or one section under a lock where
the code has one. Names are the names of the code; a function of several steps
is a group of actions with its name as a stem, tied together by a program
counter (`wpc`, `cpc`, `tpc`, `dpc`, `pc`).

**Smr.** `smr_enter_load` / `smr_enter_publish` are the load and the store of
`__smr_enter`, `smr_entered_load` a load of a protected pointer, `smr_leave` the
end of a section. `remove` and `insert` are the client unlinking an object and
putting it to use again; `smr_advance` and `smr_synchronize` give it a goal.
`smr_poll` is the fast path of `__smr_poll`, after it come `smr_poll_load_wr`,
`smr_scan_cpu` and `smr_scan_spin` (the loop over CPUs, whose decision is
`observe`), `smr_rd_advance_load` and `smr_rd_advance_cas`, and `smr_return`.
A scan that did not meet its goal leaves the object retired, to be polled
again. CPUs are visited in order. The model is sequentially consistent: on
x86_64 the publication is followed by a full fence, which is what the code
asks for on other machines too.

**MpscFifo.** The promise: a queue and a batch; append of a list, dequeue of
everything, invocation of the first element, restore of the rest in front.

**MpscQueue.** `append_update_tail` and `append_update_prev` are the two halves
of an append. A dequeue is `dequeue_batch` (empty test), `dequeue_load_head`
(wait for the first link), `dequeue_clear_head`, `dequeue_xchg_tail`. The walk
is `batch_next` (load of the next link before the body runs, wait for a gap)
and `invoke` (the body, which may free the element: its link is poisoned).
`restore_batch`, `restore_cas`, `restore_wait`, `restore_head` put a batch back.
`queueOf` and `batchOf` are the refinement mapping to `MpscFifo`: the append
takes effect when the tail is exchanged, links that producers have still to
store are followed through their `prev` and `first`. `path` is the one chain of
such links between two elements, so that `Elements` is assumed to be finite.

**MpscDaemon.** `append`, `enqueue_wakeup_bit`, `wakeup` are
`_mpsc_daemon_queue_enqueue`; `mpsc_daemon_queue_activate`; `cancel_bit`,
`cancel_block`, `cancel_return` are `mpsc_daemon_queue_cancel_and_wait`.
`thread_continue` and `thread_call_drain` start a drain; `drain_xor`,
`drain_fix`, `drain_dequeue`, `drain_invoke`, `drain_andnot`, `drain_canceled`
are `_mpsc_daemon_queue_drain`; invoking a nested queue runs the drain of that
queue and `drain_return` comes back. A failed assertion and the panic on "use
after cancelation" set `panicked`. External: `assert_wait` and its wakeup
(`waiting`) and a pending thread call (`pending`), as the drain uses them.

**Hazard.** Values are small integers, since the order of addresses matters to
`hazard_compare`, `qsort` and `hazard_bsearch`, which are modelled as they are
written (the insertion sort that `qsort` uses for fewer than seven entries).
Buckets have identities, since the filter reuses them. `hazard_guard_get`,
`hazard_guard_acquire`, `hazard_guard_set`, `hazard_guard_acquire_loop`,
`hazard_guard_put` are the readers; `hazard_ptr_serialized_store`,
`hazard_retire`, `retire_nobucket`, `retire_alloc` the writers, which may move
to another CPU during the allocation that blocks; `dequeue_batch`,
`hazard_deallocate_queue_invoke`, `hazard_scan_and_reclaim` the start of a
reclaim. Its loops are one action per turn: `scan_guard` loads one slot, `qsort`
inserts one entry, `hazard_bsearch` is a probe that misses, `filter_destroy` and
`filter_keep` end the search for one record, `hazard_filter_bucket` is the end
of a bucket and `hazard_filter_finish` the end of the reclaim. `cpu`, `idx`,
`lo`, `hi` are the variables of those loops.

**CpuQuiesce.** Each CPU joins, goes through the AST, checks in and leaves;
the operation that completes a round goes on to `increment_load`,
`increment_store` and `cpu_quiescent_counter_commit`. `user_read` stands for a
user thread that reads the counter and starts counting increments; `seen`
collects the CPUs that executed a barrier, or were not in user space, since.
The counter has `CounterMod` values in place of 2^64.

**Semaphore.** `semaphore_trap` and `semaphore_wait_trap` take the references;
`wait_locked`, `wait_noblock`, then `wait_signal`, `wait_signal_dead`,
`wait_clear`, then `wait_block` are `semaphore_wait_internal`; `wait_resume` is
the continuation; `wait_end` a timeout or an abort (external). The three
signals, `signal_terminated`, the two destructions, `semaphore_no_senders`,
`semaphore_create` (which may reuse the memory of a freed one) complete it.
`got` is history: it says that this call was given a token or a wakeup.

**ThreadCall.** One group. Clients: `thread_call_enter`,
`thread_call_enter_delayed`, `thread_call_cancel`, `thread_call_cancel_wait`,
`thread_call_wait_once`, `thread_call_free`, `thread_call_allocate`, and
`wait_recheck`, the loop of `thread_call_wait_locked`. Threads: `take_lock`,
`thread_call_dequeue`, `thread_call_finish`, `finish_wakeup`,
`thread_call_park` are `thread_call_thread`, with `sched_call_block` and
`sched_call_unblock` when the function blocks. The daemon is `daemon_store` to
`daemon_recheck`. Timers: `deadline_passes` and `timer_fires` (external),
`timer_call_due`, `timer_repend`, `timer_done`; the rescan; the timer that
disposes of threads. A section that loops keeps the lock between its actions.
Deadlines are an order and the set of those that have passed. The counts of
submissions and finishes are kept as their difference, and per waiter as the
finishes it has still to see. `owed` is history: the executions that a waiter
has to wait for.

**SharedLock.** The promise of a read-write lock: who holds it how; upgrades
have a state of their own, in which other readers may remain but nobody writes.

**RwLock.** Each exchange of the word is an action. `lck_rw_try_lock_exclusive`
and `lck_rw_try_lock_shared` are also the fast paths of the blocking calls,
`..._gen` their failure. In each of the four loops (`want`, `drain`, `share`,
`upgrade`) a thread spins, takes the interlock and sets its flag (`want_wait`,
...), asserts the wait and releases the interlock (`lck_interlock_unlock`).
`downgrade_owner`/`lck_rw_lock_exclusive_to_shared` and
`unlock_owner`/`lck_rw_done` clear the owner and then change the word; `todo`
holds the wakeups decided then, which `thread_wakeup` sends later. A try that
fails changes nothing and is left out.

**Gate.** A section under the spin bit of the word is one action, and so are
the compare and exchange of the fast paths, which fail while it is set.
`gate_try_close`, `gate_close`, `gate_open`, `gate_handoff`, `gate_steal`;
`gate_wait` up to the sleep, `wait_return` after it, `relock`; `wait_end` is a
timeout or an interruption (external). `gate_free`, `gate_destroy`, `gate_init`
complete the life of the memory. The turnstile is `waitq` and `inheritor`. A
panic or a failed assertion sets `panicked`; misuse that the interface forbids
is left out (who opens a gate holds it, and so on).

`MCSemaphore` adds the symmetry set that the safety run uses.
Definitions whose comment begins with "Mutant of" are the plausible mistakes
that the properties have to notice; no specification uses them.

## 3. Runs

| run | what it shows |
|---|---|
| `smr` | no reuse while held (`NoReuseWhileHeld`); the fast path is right for all objects (`GoalObserved`); the read clock is monotone and never ahead (`ReadClockAdvances`); `smr_wait` and `smr_synchronize` return (`WaitReturns`) |
| `mpsc_queue` | the linked list implements the FIFO, restores included (`IsFifo`), no poisoned link is followed (`TypeOK`), everything appended is invoked or put back, and putting back ends (`AllInvoked`) |
| `mpsc_daemon` | a thread queue, a thread-call queue and a nested queue, some created inactive, with cancelation: a queue is on its target at most once (`QueuedOnce`), assertions of the drain (`NoPanic`), a queue may be destroyed when its cancelation returns (`DestroyIsSafe`), no wakeup is lost (`AllInvoked`), the cancelation returns (`CancelReturns`) |
| `hazard` | with one guard in use: guarded values are not destroyed (`GuardedIsAlive`), records of retired values are not lost (`RecordsKept`) nor written beyond a bucket (`TypeOK`), few are deferred (`DeferredBounded`) |
| `cpu_quiesce` | while one CPU goes on participating: two increments imply a barrier on every CPU (`TwoIncrements`), no increment is lost or doubled (`CounterAdvances`), rounds are completed (`Ticks`) |
| `semaphore` | under every call, timeout, abort and destruction: no waiter is forgotten (`WaitersCounted`), references balance (`ReferencesBalanced`), the result of a wait is true unless it signalled a dead semaphore (`LiveResultIsTrue`) |
| `semaphore_live` | a thread whose wait is over returns (`WokenReturns`) |
| `thread_call` | `ONCE` and `SIGNAL` calls: the counts that decide about wakeups are those of the threads (`CountsAgree`), storage is returned when nobody uses it (`FreedIsIdle`), a `ONCE` call executes alone (`OnceAlone`), a submission during an execution survives it (`RescheduleKept`), delayed calls have a timer (`TimerCovers`) |
| `thread_call_live` | a normal call, which executes on several threads: pending calls are executed (`PendingServed`), waits return (`WaitReturns`) |
| `rw_lock` | the lock implements `SharedLock` (`IsSharedLock`), in which a writer is alone; the owner and the word agree with who holds the lock (`OwnerKnown`); whoever sleeps is going to be woken up (`NoLostWakeup`); announced writers and upgrades get the lock (`WriterServed`) |
| `gate` | no assertion fails (`NoPanic`); sleepers are known (`WaitersKnown`) and push the holder (`PushGoesToHolder`); a holder is awake and told (`HolderKnows`); references (`FreedIsUnused`); waiters return (`WaiterServed`) |

One more run, `thread_call_cancel_wait`, ends in the violation of a statement
that a comment of the code makes: section 7.

`CHECK_DEADLOCK FALSE` is set where the system may stop: in `Smr` because the
sequence is bounded, in `MpscDaemon` because all queues may be canceled or all
items sent (`Resend` is off: a queue that is refilled for ever keeps its drain
busy and its siblings waiting, by design of the drain loop). All the other runs
check that nothing is stuck.

The type invariants of `Smr`, `CpuQuiesce`, `RwLock` and `Gate`, and
`MaskMatchesState`, `CommitAssigned` and `MutualExclusion`, are theorems
(section 6), which the runs do not repeat. `TypeOK` of the other modules
describes their variables; it is in the cfg only where it says something about
the code, in `MpscQueue` (no poisoned link) and in `Hazard` (no record beyond a
bucket), and holds on the other runs as well if it is added.

## 4. Bounds

- *Smr*: 2 CPUs (one that was visited and one that was not), 2 writers (a
  scanner and one that overtakes it), 2 objects (one scanned for, one that
  gains from the scan), two advances (`MaxSeq` 5), one for each object. The
  safety properties are also proved without bounds.
- *MpscQueue*: 3 producers, so that two gaps and a complete append coexist; 4
  elements, appended singly or in pairs.
- *MpscDaemon*: a root with a nested queue, one thread queue and one
  thread-call queue, 2 threads and 2 elements, for a sender, an activation and a
  canceler against a drain. `Quiescent` is the client's obligation that sends
  have returned before a cancelation; `Cancelable` says which queues the client
  cancels. The safety properties are also proved without bounds.
- *Hazard*: 2 CPUs with one slot each, buckets of two records (one to keep, one
  to destroy), 3 values, 2 buckets, one writer. `MaxGuards` bounds the guards
  in use at the same time: with 1 the code is right, with 2 it is not. The same
  properties are also proved without bounds on values, buckets and writers.
- *CpuQuiesce*: 3 CPUs (one leaving, one joining, one in user space all the
  time); the counter wraps at 3, the smallest width that tells one increment
  from a lost and from a double one.
- *Semaphore*: 2 threads, 2 semaphores, counts up to 1 plus the -1 that says
  "waiters". All safety properties are also proved without bounds. `MaxCount`
  also guards calls that would exceed it, so that no increment is cut off in
  the middle of a call. The liveness run leaves out the plain calls (the signal
  is part of a wait) and destroys one semaphore only.
- *ThreadCall*: 2 threads, so that one executes while the other blocks, sleeps
  or is created; `MaxBlocked` keeps one of them for the others' work, as the
  limit of threads does. `thread_call` has 2 clients (one waits or frees, one
  submits), a `ONCE` and a `SIGNAL` call; `thread_call_live` one client and a
  normal call; the violation needs 2 clients, a `ONCE` call, and another call
  that gets the second thread started. Both flavors of group are checked, with
  the target count of most groups, 1. `SignalRaces = FALSE` leaves out the
  behaviours of section 7, items 6 and 7. The safety properties of `thread_call`
  are also proved without bounds.
- *RwLock*: 3 threads (an upgrade, a second one or a writer, a reader), all
  attributes. All safety properties are also proved without bounds.
- *Gate*: 3 threads (a holder, an interrupted waiter, and one who closes,
  steals or frees meanwhile), both kinds of memory. The safety properties are
  also proved without bounds.

## 5. Fairness

Of steps the code really cannot postpone for ever; weak unless said otherwise:

- *Smr*: a section runs with preemption disabled and ends; a thread inside
  `smr_wait` is runnable. Nobody is obliged to enter, retire or poll.
- *MpscQueue*: between the two halves of an append preemption is disabled; the
  consumer keeps draining.
- *MpscDaemon*: a thread inside a call and a drain that was woken up run. That a
  drain is woken up is what the property is about and is not assumed.
- *CpuQuiesce*: operations run with interrupts disabled, and the quantum timer
  makes each CPU in user space check in once the interval has passed. Joining
  and leaving are not fair.
- *Semaphore*: runnable threads in a trap are scheduled. A blocked thread is not
  obliged to wake up, and timeouts are not obliged to happen.
- *ThreadCall*: functions return and blocked ones continue, deadlines pass.
  Strong fairness of the steps of threads, the timer and the daemon: they wait
  for a ticket lock, which serves them in turn although others take it again and
  again. A `SIGNAL` call is not submitted for a time that has passed whenever it
  executes; the timer interrupt would never end. Nobody is obliged to submit,
  cancel or rescan, and functions are not obliged to block.
- *RwLock*: threads run. Strong fairness of unlock and downgrade, which have to
  get past an interlock that is held for moments; a thread does not upgrade and
  downgrade for ever. Nobody is obliged to lock or to sleep rather than spin.
- *Gate*: threads run, and the client's lock is free again and again: sections
  under it are short, and `WriterServed` of `RwLock` says that a writer keeps
  readers out until it is. Strong fairness of taking that lock again after a
  wait, of the holder taking it, and of opening: holders do not hand off or
  steal for ever.

## 6. Proofs

TLAPS checks the proofs for every value of the constants.

**QuiescenceProofs** has the proofs about the two protocols that wait for every
CPU to pass a point.

*Smr* (any number of CPUs, writers, objects, advances). Assumptions:
`NCPU` is a positive natural, `MaxSeq` a natural, `NoObj` is not an object.
`NoReuseWhileHeld` is not inductive: that `smr_return` may hand an object back
rests on what its scan saw earlier, while readers and other scanners went on.
The invariant `IInv` adds

- `SeqBounds`: no sequence anywhere is ahead of `s_wr_seq`, and the `clk_rd` a
  scanner starts from is not ahead of `s_rd_seq`;
- `ReaderState`, `WriterState`: a CPU publishes a sequence exactly inside a
  section; a busy writer owns its object;
- `HeldBelowGoal`: a reader that holds a retired object keeps its own sequence
  and `s_rd_seq` below the object's goal. It holds because an object can only be
  loaded while it is linked, and its goal is larger than all sequences of that
  time;
- `ScannedBelowGoal`: so does the minimum of a scanner that has visited the
  reader's CPU. A section that begins after the visit cannot load the object;
- `WaitedFor`: a CPU that `smr_wait` is done with does not hold the object;
- `ReturnIsSafe`: the decision of `smr_return` is right.

Theorems: `InvariantIInv`, `TypeCorrect`, `NoReuse`, `FastPath`
(`GoalObserved`), `ReadClock` (`ReadClockAdvances`, an action property).

*CpuQuiesce* (any set of CPUs, any counter of at least three values; the module
names its specification `QuiesceSpec` and its CPUs `Processors`, so that it can
be extended together with `Smr`). `RoundInv` (types, `MaskMatchesState`,
`CommitAssigned`) is inductive and needs no further assumption:
`RoundInvariant`, `QuiesceTypes`, `MaskAgrees`, `CommitIsAssigned`.
`TwoIncrementsSuffice` and `CounterOnlyAdvances` assume `~LastMayLeave`, the
case outside of which they are false (section 7). Their invariant `CommitInv`
adds `OneCommit` (one CPU commits at a time, its round stays complete until its
reset and its loaded value is the counter) and `BarriersSeen` (CPUs outside of
user space have had their barrier since the read, and after the first increment
so has every CPU that checked in since).

**RwLockProofs** (any finite set of threads, all attributes). `LockInv` is
inductive: `Typed`; `Counted` (the reader count is the number of threads that
hold the lock shared); `Alone` (at most one thread has the lock, one drains
with `want_excl`, one upgrades, and nobody upgrades a lock another thread has);
`Bits` (`want_excl` and `want_upgrade` each have one thread that stands for
them, and the reader count is 0 when one of those holds the lock); `Owned`.
From it `TypeCorrect`, `Exclusion` (`MutualExclusion`, a writer is alone),
`OwnerCorrect` (`OwnerKnown`) and `Refinement` (`IsSharedLock`: every step is a
step of `SharedLock` or a stutter). `NoLostWakeup` needs more: a wakeup that is
decided is sent later, when flags have been set again. `WakeInv` adds `Placed`
(who has wakeups still to send holds nothing exclusively), `Interlocked` (one
thread at a time asserts a wait), `Flagged` (a sleeper's flag is set or its
wakeup is on the way) and `Grounded` (a waiting flag is set only while the lock
is taken or a writer is about to take it, so that an unlock will see it).
`Wakeups` assumes that locks without writer priority are not downgraded, the
case outside of which it is false (section 7, item 9).

**GateProofs** (any finite set of threads). `GateInv` is `Typed`, `Locked` (who
holds the client's lock is in a section, an exclusive holder alone), `Queued`
(who is in the queue is in a wait, an open gate has no waiters bit, a dead gate
no holder), `Alive` (nobody calls a dead gate, and only the memory of allocated
gates is kept for waiters on their way back) with `WaitersKnown`,
`PushGoesToHolder`, `HolderKnows` and `FreedIsUnused`, which are inductive only
together: that an interrupted waiter clears the right bit depends on who holds
the gate, that the last waiter ends the push on the references. Theorems
`TypeCorrect`, `SleepersKnown`, `PushIsRight`, `HandoffIsTold`, `MemoryIsSafe`.
`AssertionsHold` (`NoPanic`) adds `Probed`, that the gate stays closed for who
has found it closed and kept the lock, and assumes that the gate is opened and
handed off under the exclusive lock (section 7, item 10).

**SemaphoreProofs** (any finite set of threads, any set of semaphores, any
`MaxCount`). `SemaphoreInv` has two parts. `Control` is `Typed`; `Placed`
(which semaphores a call works on at each position); `Queued` (a thread is only
in the queue of the semaphore its call waits on, from the assertion of the wait
to its end); `Open` (a result is open exactly as long as the thread is queued);
`Outcome` (what a wait already knows of its token while it signals, blocks or
is on its way back: `LiveResultIsTrue` speaks of a call that returns, and rests
on what was decided several steps before); `WaitersCounted` and
`LiveResultIsTrue` themselves. `Balanced` counts the references: one of the
port, one for each use, two if a call waits on and signals one semaphore. Each
action has a lemma for either part; `Control` needs `Balanced` only where the
memory of a freed semaphore is used for a new one. Theorems `SemaphoreInvariant`, `WaitersAreCounted`,
`ReferencesAreBalanced`, `LiveResultsAreTrue`, and `FreedSemaphoresAreUnused`,
which says what the balance is for: a semaphore without references is out of
use.

**MpscDaemonProofs** (any sets of threads, queues of each kind and elements).
All theorems assume `ClientRule`, without which `NoPanic` and `DestroyIsSafe`
are false (section 7, item 2): sends have returned before a queue is canceled, and nested
queues are not canceled. `DaemonInv` is `Typed`; `Roles` (what a thread in a
call works on); `Quiet` (a queue that is being canceled has no other user);
`BitsTrue` (`DRAINING` and `CANCELED` tell what goes on); `Drains` (where the
drain of each kind of queue can be, and that nested queues are drained one at a
time from the loop of their target); `Covered` (items are seen by a drain that
will look again, or through `WAKEUP`); `OneCarrier`; `ListedOnce`; `Finished`
(what the drain has done when a canceler may go on); `NoPanic`. The heart is
`OneCarrier`: at most one actor at a time carries the wakeup of a queue, from
the one whose atomic operation set `WAKEUP` to the drain that clears it, and
while somebody does, `WAKEUP` is set and `DRAINING` and `INACTIVE` are clear.
That is why a queue is not put on its target twice and why the exclusive or at
the start of a drain finds the bits it asserts. Theorems `DaemonInvariant`,
`DrainAssertionsHold`, `NestedQueuedOnce`, `CanceledIsDestroyable`.
`NoWakeupLost` proves the safety part of `AllInvoked`, with one more layer,
`Kept` (`WAKEUP` is not set without a carrier while the queue is idle): when an
active queue holds an item, a drain will look again, has been told to, or is
about to be told.

**MpscQueueProofs** (any set of producers, any finite set of elements). A
refinement whose state is read off the links is not provable by looking at one
link: `Represents(q, b)` says that the memory is the queue `q` and the batch
`b`. Its parts are `Separate` (no element twice), `Marked` (the elements
elsewhere, and only they, are poisoned), `Linked` (each element is followed by
the next, by its link or in the `prev` and `first` of the producer that has
still to store it), `Gaps` (a producer's link is empty, and each gap has one
producer), `TailOf`, `HeadOf` and `BatchOf` (what the ends of the list and the
consumer's variables are at each position). The invariant `ListInv` is that
some `q` and `b` are represented. Each action has a lemma that gives the next
ones: an append makes `q` longer when the tail is exchanged, although nothing
points to the new elements yet; `append_update_prev` leaves both as they are;
the exchange in a dequeue makes `q` the batch; a restore puts the
batch in front. `Mapping` shows that `queueOf` and `batchOf` are those `q`
and `b`: a path without repetitions between two elements is unique
(`ChainUnique`, by the least index at which two would differ). Theorems
`ListInvariant`, `LinksAreSane` (`TypeOK`), `QueueIsFifo` (`IsFifo`).

**HazardProofs** (any number of values, buckets and writers; up to six guard
slots in all, for which `qsort` is the insertion sort of the model). All theorems
assume `MaxGuards < hazard_bucket_count`: fewer guards are in use than a bucket
has records. `hazard_startup` makes buckets of at least eight records, so that
six slots never break it; on machines with more CPUs, whose buckets have half as
many records as there are slots, it is the condition outside of which
`RecordsKept` is false (section 7, item 3). `IInv` is

- `TypeOK`; `Placed` and `Once` (each bucket is free, or with one CPU, one
  writer or on one list, and there once; the partial bucket of a reclaim is the
  one in hand or on no list), `Counted` (a bucket to be filled has room),
  `Phases` (what the drain has in hand at each position: kept records never
  catch up with the record that is read, and between reclaims at most one
  bucket is pending);
- `Owned` (the pointer's value and those that writers have still to retire are
  live and have one owner) and `Exact` (each retired value is in one record).
  `Noted` says which records count: those of listed buckets from `due` on and
  those already copied to the partial bucket. A copy in place moves a record
  from one kind to the other;
- `Readers`, `Kept`, `Bounded`. What a reclaim keeps is bounded by the guards in
  use, which is not obvious: the slots are loaded at different times, and a
  reader that moves ahead of the scan could be counted twice. It is not, because
  of the values that the reclaim decides about (`Chosen`) none can be acquired
  any more: `Found`, those in the array, and `Threats`, the guards still to be
  loaded that hold or are about to publish one, together never grow. So the
  partial bucket does not get full, which all the other parts need.

Theorems `HazardInvariant`, `HazardTypes` (`TypeOK`), `HazardKeepsRecords`
(`RecordsKept`), `HazardIsBounded` (`DeferredBounded`). The guards come in two
steps. `HazardScanFindsGuards`: a guard that protects one of the chosen values
is in the array as soon as its slot has been passed, and stays there through the
sort, for any number of guards below the size of a bucket; what is wrong with
several guards is thus confined to the order of the array. With one guard in
use, `FoundAlone` says that the array is empty until that guard is loaded and
has one entry afterwards, so that the search hits at its first probe, and
`HazardGuardProtects` (`GuardedIsAlive`) follows; more than one is item 3 of
section 7.

**ThreadCallProofs** (any set of clients, any finite sets of threads, CPUs and
calls, any target, both flavors). All theorems assume `~SignalRaces`, without
which `OnceAlone` and `FreedIsIdle` are false (section 7, items 6 and 7). `CallsInv` is
`Typed`, `Roles`, `Held` (an actor has a call from when it takes it to its
wakeup of the waiters), `Locked` (the loops over a queue keep the lock),
`Queued`, `SignalsTimed` (SIGNAL calls are executed by the timer, the others by
threads), `Alone` (a ONCE call has one executor and is on no queue meanwhile),
`Owned` (what is queued or to be queued has an owner), `Counted`,
`RefsCounted`, `OutCounted` (references and outstanding finishes are the number
of executions, plus one for the owner or the queue), `TimerCovers` and
`Waiters`. The parts need each other: that `thread_call_finish` queues a call
which was submitted meanwhile rests on the owner's reference, that the
reference is there on `Owned`, that the call is not queued a second time on
`Alone`. Theorems `CallsInvariant`, `CountsAreExact`, `DelayedCallsAreTimed`,
`OnceExecutesAlone`, `ReschedulesAreKept` (`RescheduleKept`, an action
property). `FreedCallsAreIdle` (`FreedIsIdle`) adds `Gone` (nobody uses storage
that was returned) and assumes `OneTimer`, that SIGNAL calls, if there are any,
execute on one CPU (item 7). A step keeps `Gone` because `OutCounted` turns
"nothing was submitted" into "nobody executes it".

The lemmas about the operators are about queues (`RemoveKeeps`, `InsertKeeps`,
`AppendKeeps`, `TailKeeps`, `OrderKeeps`: which calls are on a queue after
`RemoveFirst`, `InsertAt`, `Append`, `Tail` and a new order, and that none is on
it twice) and about numbers of threads (`WorkerMoves`, `NobodyMoves`, `Woken`:
what `thread_call_wake` does to the counts; `Taken`, `Returned`).

**Only model-checked.** Liveness (`WaitReturns`, `AllInvoked`, `CancelReturns`,
`Ticks`, `WokenReturns`, `PendingServed`, `WriterServed`,
`WaiterServed`): fairness and `ENABLED` are beyond this prover. All
the invariants, action properties and refinements of the passing runs are also
theorems, under the hypotheses named above; section 7 describes what TLC finds
outside of them.

## 7. Where the code and its documentation disagree

1. The run `thread_call_cancel_wait`, also under "findings".
   `thread_call_finish` drops the group lock before it wakes up the waiters
   (`thread_call.c:1579`). In between, the `ONCE` call can begin to execute
   again and a second client can begin to wait for it; the wakeup ends that
   wait too, and `thread_call_wait_once_locked` does not look again. The
   comment of `thread_call_cancel_wait` says that all requests prior to the
   call "will have finished" (`thread_call.c:1353-1354`).

The other models show the following by a change of a constant or a property;
the passing runs state the condition under which each property does hold.

2. `MpscDaemon.cfg` with `n1` in `Cancelable` violates `DestroyIsSafe`. The
   cancelation of a nested queue that is on its target appends it a second time
   (`mpsc_queue.c:435`); the canceler returns while the target still refers to
   the queue, against "so that the object owning it can be destroyed"
   (`mpsc_queue.h:640`). With `Quiescent = FALSE` it violates `NoPanic`: a queue
   canceled when its last item was invoked, before the sender of that item has
   set `WAKEUP`, panics with "use after cancelation" (`mpsc_queue.c:378`). The
   kernel's own test cancels its queues that way (`test_mpsc_queue.c:129-130`).
3. `Hazard.cfg` with `MaxGuards = 2` violates `GuardedIsAlive`: `hazard_compare`
   compares the addresses of the array entries, not the pointers in them
   (`hazard.c:340`), so the binary search misses guards when more than one is in
   use. It also violates `RecordsKept`, since its buckets have two records: a
   full bucket whose records are all kept is put on the pending list and used as
   the partial bucket at the same time (`hazard.c:396`). The theorem
   `HazardScanFindsGuards` shows that the scan itself finds every guard.
4. `CpuQuiesce.cfg` with `LastMayLeave = TRUE` and a fourth CPU violates
   `TwoIncrements`: the last CPU to leave commits an empty mask
   (`cpu_quiesce.c:309`) while joining CPUs complete a round of their own, two
   increments without a barrier on a third CPU, against `commpage.c:847-848`.
   The two commits overlap, which violates `CounterAdvances`
   (`commpage.c:870`).
5. `Semaphore.cfg` with `ResultIsTrue` in place of `LiveResultIsTrue`. When the
   semaphore to signal is dead, the call returns the conversion of
   `wait_result` even if it never waited (`sync_sema.c:747`), against the
   comment at 740-743.
6. `ThreadCall.cfg` with `SignalRaces = TRUE`. A rescan puts `SIGNAL` calls that
   are due on the pending queue (`thread_call.c:1990`); a thread executes them,
   against "execute call from the timer interrupt instead of from the thread
   call thread" (`thread_call.h:80`), and takes a reference that no finish drops
   (`FreedIsIdle`).
7. Also with `SignalRaces = TRUE`: when a `SIGNAL` call that somebody waits for
   is to be executed again, `thread_call_finish` drops the lock with `RUNNING`
   clear; the call can be queued or freed before it executes (`OnceAlone`,
   `FreedIsIdle`). With a second CPU in `CPUs` and `SignalRaces = FALSE`, the
   late wakeup of item 1 makes `thread_call_free` return the storage of a
   `SIGNAL` call that executes; hence the assumption `OneTimer` of the theorem
   `FreedCallsAreIdle`.
8. `ThreadCallCancelWait.cfg` with `Tracked = {n}`. The cancelation of a later
   submission counts as a finish, so that who waits for an earlier, slower
   execution of a normal call may return before it has ended
   (`thread_call.c:2196`).
9. `RwLock.cfg` with `SharedDowngrade = TRUE` violates `NoLostWakeup`. A
   downgrade of a lock without writer priority clears `W_WAITING`
   (`lock_rw.c:1646-1648`) and wakes up no writer, although "when the read count
   drops to 0, the writers will be woken" (`lock_rw.c:1591-1592`). The only such
   lock in the tree (`IORegistryEntry.cpp`) is never downgraded.
10. `Gate.cfg` with `"shared"` in `OpenModes` violates `NoPanic`. The comments
    ask that the lock be held from `lck_rw_gate_try_close` to `lck_rw_gate_wait`
    (`locks.c:2771-2772`), shared or exclusive. If the prober and the holder both
    hold it shared, the gate is opened in between and `gate_wait` panics
    (`locks.c:2413`).

Two observations without a property. A gate that is embedded in its client's
memory must not be destroyed before interrupted waiters have returned, or they
panic (`locks.c:2502`); the model has it as an obligation of the client. A
thread that `gate_wait` told `GATE_HANDOFF` may find the gate stolen once it has
the lock, since it is told before it takes it.

## 8. Limits

Memory is sequentially consistent in all modules; the comments say where that
is exact on x86_64. Sequence numbers of SMR do not wrap (2^62 advances on
LP64), nor do the reader count of a lock and the references of a gate (2^16
threads). Deadlines and intervals are free choices rather than numbers. Memory
reuse is modelled for SMR objects, hazard values and buckets, semaphores, thread
calls and gates, not for the thread that drains a daemon queue. Priorities,
promotion and the chains of turnstiles are left out, and so are boot-time
set-up, statistics, tracing and the in-kernel tests.

**Not modelled.** The tree holds 1.8 million lines, of which drivers' and file
systems' interfaces, network protocols, virtual memory, I/O Kit and machine
dependent code are nearly all. The models cover a small part of it by size: the
primitives of `osfmk/kern` whose protocols are dense and small enough to be
modelled access by access, on which the rest is built. Thread calls leave out
internal calls and cancelation by function, read-write locks the promotion of
holders and the wrappers for sleep and yield.

## 9. Plan

Next modules, in this order, most of them with a theorem:

1. `BtLibrary` (`btlog.c`): the hash table, removals deferred during a rehash,
   stack references; composed with `Smr`.
2. `TicketLock` (`lock_ticket.c`) with invalidation of a lock that readers may
   still try.
3. `TaskRef` (`task_ref.c`) and `Restartable` (`restartable.c`).
4. `EventLink`, `Mqueue`, `MkTimer` (`osfmk/ipc`, `osfmk/kern/mk_timer.c`): a
   message queue at its limit, event links under termination, a timer that
   fires while it is destroyed.
5. Sleep with inheritor (`locks.c`), on the turnstile of `Gate`.

Next theorems: the invariants of `Hazard` for the quicksort of seven entries or
more, which only has to be shown to keep the entries of the array.
