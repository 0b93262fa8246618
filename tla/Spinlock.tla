------------------------------- MODULE Spinlock ------------------------------
(***************************************************************************)
(* The spinlock of task04-concurrency/src/cspinlock.c and threads that use *)
(* it: a critical section is entered only after cspin_lock or              *)
(* cspin_trylock has returned 0, and left by cspin_unlock.                 *)
(***************************************************************************)
EXTENDS Integers

CONSTANT Threads

VARIABLES
    slock,      \* "null" (cspin_alloc failed), "live", "freed"
    is_locked,  \* the atomic_flag
    at,         \* where every thread is
    ret         \* what its last call returned

vars == <<slock, is_locked, at, ret>>

(* cspin_alloc returns a cleared lock or, if malloc fails, NULL.           *)
Init ==
    /\ slock \in {"null", "live"}
    /\ is_locked = FALSE
    /\ at = [t \in Threads |-> "outside"]
    /\ ret = [t \in Threads |-> 0]

Call(t, fn) ==
    /\ slock # "freed"
    /\ at[t] = "outside"
    /\ at' = [at EXCEPT ![t] = fn]
    /\ UNCHANGED <<slock, is_locked, ret>>

Return(t, r, where) ==
    /\ at' = [at EXCEPT ![t] = where]
    /\ ret' = [ret EXCEPT ![t] = r]
    /\ UNCHANGED slock

(* if (!slock) return 1                                                    *)
NullLock(t) ==
    /\ at[t] \in {"locking", "trying"}
    /\ slock = "null"
    /\ Return(t, 1, "outside")
    /\ UNCHANGED is_locked

(* The test-and-set that finds the flag clear ends the loop of cspin_lock; *)
(* one that finds it set changes nothing.                                  *)
cspin_lock(t) ==
    /\ at[t] = "locking"
    /\ slock = "live"
    /\ \/ ~is_locked /\ is_locked' = TRUE /\ Return(t, 0, "holding")
       \/ is_locked /\ UNCHANGED vars

(* As cspin_trylock, but the old value of the flag is ignored.             *)
TrylockNoTest(t) ==
    /\ at[t] = "trying"
    /\ slock = "live"
    /\ is_locked' = TRUE
    /\ Return(t, 0, "holding")

(* The test-and-set, whose old value is returned.                          *)
cspin_trylock(t) ==
    /\ at[t] = "trying"
    /\ slock = "live"
    /\ is_locked' = TRUE
    /\ \/ ~is_locked /\ Return(t, 0, "holding")
       \/ is_locked /\ Return(t, 1, "outside")

(* As cspin_unlock, but the flag is not cleared.                           *)
UnlockKeepsFlag(t) ==
    /\ at[t] = "holding"
    /\ Return(t, 0, "outside")
    /\ UNCHANGED is_locked

cspin_unlock(t) ==
    /\ at[t] = "holding"
    /\ is_locked' = FALSE
    /\ Return(t, 0, "outside")

(* To be called once all users have stopped.                               *)
cspin_free ==
    /\ slock = "live"
    /\ \A t \in Threads : at[t] = "outside"
    /\ slock' = "freed"
    /\ UNCHANGED <<is_locked, at, ret>>

Step(t) == NullLock(t) \/ cspin_lock(t) \/ cspin_trylock(t) \/ cspin_unlock(t)

Next ==
    \/ \E t \in Threads : Call(t, "locking") \/ Call(t, "trying") \/ Step(t)
    \/ cspin_free
    \/ slock = "freed" /\ UNCHANGED vars

Spec == Init /\ [][Next]_vars

(* A thread that spins, tries or holds the lock keeps running.             *)
FairSpec == Spec /\ \A t \in Threads : WF_vars(Step(t))
-----------------------------------------------------------------------------
(* The states of a lock and its users; every function returns 0 or 1.      *)
TypeOK ==
    /\ slock \in {"null", "live", "freed"}
    /\ is_locked \in BOOLEAN
    /\ at \in [Threads -> {"outside", "locking", "trying", "holding"}]
    /\ ret \in [Threads -> {0, 1}]

(* At most one thread is in the critical section, whichever of cspin_lock  *)
(* and cspin_trylock let it in, and the flag is set while one is.          *)
MutualExclusion ==
    \A t \in Threads : at[t] = "holding" =>
        /\ is_locked
        /\ \A u \in Threads \ {t} : at[u] # "holding"

(* While threads spin in cspin_lock the lock is handed out again and again *)
(* (though not to every one of them: the flag is not fair).                *)
SpinningMakesProgress ==
    []<>((slock = "live" /\ \E t \in Threads : at[t] = "locking")
            => \E t \in Threads : at[t] = "holding")
=============================================================================
