----------------------------- MODULE SharedLock -----------------------------
(***************************************************************************)
(* What a read-write lock promises, osfmk/kern/lock_rw.h: many threads     *)
(* hold it shared or one holds it exclusively; of the readers that upgrade *)
(* one succeeds and nobody writes between its shared and its exclusive     *)
(* tenure, the others lose the lock; a downgrade lets no writer in between.*)
(***************************************************************************)
CONSTANT Threads

VARIABLE mode       (* thread: how it holds the lock                       *)

Modes == {"none", "shared", "upgrading", "exclusive"}

Init == mode = [t \in Threads |-> "none"]

Set(t, m) == mode' = [mode EXCEPT ![t] = m]

OthersIn(t, S) == \A u \in Threads \ {t} : mode[u] \in S

LockShared(t) ==
    /\ mode[t] = "none" /\ OthersIn(t, Modes \ {"exclusive"})
    /\ Set(t, "shared")

LockExclusive(t) ==
    /\ mode[t] = "none" /\ OthersIn(t, {"none"})
    /\ Set(t, "exclusive")

(* The upgrade begins; it is complete when the other readers are gone.     *)
Upgrade(t) ==
    \/ /\ mode[t] = "shared" /\ OthersIn(t, {"none", "shared"})
       /\ Set(t, "upgrading")
    \/ /\ mode[t] \in {"shared", "upgrading"} /\ OthersIn(t, {"none"})
       /\ Set(t, "exclusive")

Downgrade(t) == mode[t] = "exclusive" /\ Set(t, "shared")

(* Also what happens to a second reader that upgrades.                     *)
Unlock(t) == mode[t] \in {"shared", "exclusive"} /\ Set(t, "none")

Next == \E t \in Threads :
    \/ LockShared(t) \/ LockExclusive(t)
    \/ Upgrade(t) \/ Downgrade(t) \/ Unlock(t)

Spec == Init /\ [][Next]_mode
=============================================================================
