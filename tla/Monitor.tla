------------------------------ MODULE Monitor ------------------------------
(***************************************************************************)
(* A std::mutex and the std::condition_variable used with it, as the       *)
(* member sessions of the PSI plugins use them (`mu` and `cv` in           *)
(* runMember).  A thread inside cv.wait either holds the mutex or is in    *)
(* `waiting`; releasing the mutex and starting to wait is one atomic step, *)
(* as the standard requires, but testing the predicate is an earlier one.  *)
(***************************************************************************)
CONSTANT NoThread          \* the value of `mu` while no thread holds it

VARIABLES
    mu,                    \* the thread that holds the mutex, or NoThread
    waiting                \* the threads blocked inside cv.wait

monitorVars == <<mu, waiting>>

MonitorInit == mu = NoThread /\ waiting = {}

(* lock(), also the re-lock at the end of a wait: a notified thread is out *)
(* of `waiting` and competes for the mutex like any other.                 *)
Lock(t) == /\ mu = NoThread
           /\ t \notin waiting
           /\ mu' = t
           /\ UNCHANGED waiting

Unlock(t) == mu = t /\ mu' = NoThread /\ UNCHANGED waiting

(* The atomic "unlock and block" of cv.wait.                               *)
Block(t) == /\ mu = t
            /\ mu' = NoThread
            /\ waiting' = waiting \union {t}

(* cv.notify_all(): needs no mutex, and wakes only who waits already.      *)
NotifyAll == waiting' = {} /\ UNCHANGED mu

(* A spurious wake-up, which the standard allows and never promises.       *)
SpuriousWake == /\ \E t \in waiting : waiting' = waiting \ {t}
                /\ UNCHANGED mu
=============================================================================
