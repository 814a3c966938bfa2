------------------------------ MODULE SyncLock ------------------------------
(* The lock under which the sync runner starts a task: a Symfony lock that   *)
(* lives for as long as the task may take, is not refreshed while the task   *)
(* runs, and can be released only by the run that took it.                   *)
CONSTANTS Runs,     \* runs of the task
          Nobody    \* no run

ASSUME SyncLockAssumption == Nobody \notin Runs

VARIABLE holder   \* the run that holds the lock

LockTypeOK == holder \in Runs \cup {Nobody}

LockInit == holder = Nobody

(* createAndAcquireLock: refused while another run holds the lock.           *)
Acquire(r) == /\ holder = Nobody
              /\ holder' = r

\* BUG variant: a lock that expired meanwhile is released for its new holder.
Release_Any(r) == holder' = Nobody

(* release: a lock that has expired, and may be another run's by now, stays. *)
Release(r) == holder' = IF holder = r THEN Nobody ELSE holder

(* The lock's time to live is over.                                          *)
Expire(r) == /\ holder = r
             /\ holder' = Nobody
=============================================================================
