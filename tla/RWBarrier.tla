------------------------------- MODULE RWBarrier -------------------------------
(***************************************************************************)
(* read_write_barrier and its guards read_lock and write_lock              *)
(* (include/rw_barrier.hpp).  Which lock is behind it depends on the       *)
(* build: one that a writer takes at once (posix/pthrrwlock.hpp,           *)
(* win/srwlock.hpp) or the mutex of boost (shared_mutex_rwb.hpp), where a  *)
(* writer first becomes the one that may upgrade, beside the readers.      *)
(***************************************************************************)
CONSTANTS Threads, NULL

VARIABLES
  two_step,  \* the build has the mutex of boost
  readers,
  upgrader,
  writer

barrier == <<two_step, readers, upgrader, writer>>

BarrierInit ==
  /\ two_step \in BOOLEAN
  /\ readers = {}
  /\ upgrader = NULL
  /\ writer = NULL

ReadLock(t) ==
  /\ writer = NULL
  /\ readers' = readers \cup {t}
  /\ UNCHANGED <<two_step, upgrader, writer>>

ReadUnlock(t) ==
  /\ readers' = readers \ {t}
  /\ UNCHANGED <<two_step, upgrader, writer>>

\* barier_.lock_upgrade()
LockUpgrade(t) ==
  /\ two_step
  /\ upgrader = NULL
  /\ writer = NULL
  /\ upgrader' = t
  /\ UNCHANGED <<two_step, readers, writer>>

\* barier_.unlock_upgrade_and_lock(), or the whole of write_lock().
WriteLock(t) ==
  /\ readers = {}
  /\ writer = NULL
  /\ upgrader = IF two_step THEN t ELSE NULL
  /\ writer' = t
  /\ upgrader' = NULL
  /\ UNCHANGED <<two_step, readers>>

WriteUnlock(t) ==
  /\ writer' = NULL
  /\ UNCHANGED <<two_step, readers, upgrader>>

=============================================================================
