-------------------------------- MODULE RunLock --------------------------------
(***************************************************************************)
(* The pid-file lock of orchestrator/queue.py (_acquire_lock), taken per   *)
(* task by run_lock and for the whole queue by TaskQueue.lock.             *)
(*                                                                         *)
(* A process reads the recorded pid, asks the kernel whether that process  *)
(* is alive and then takes or refuses the lock, all under an flock on a    *)
(* guard file.  It gives the lock back by unlinking the file, without the  *)
(* guard.  A crash leaves the file behind; the kernel releases the guard.  *)
(* The kernel may give the pid of a dead process to a new one, which need  *)
(* not have anything to do with the lock.                                  *)
(*                                                                         *)
(* A symlink in place of the lock file (refused with QueueLocked) is left  *)
(* out: nothing in the repository puts one there.                          *)
(***************************************************************************)
EXTENDS FiniteSets

CONSTANTS
    Procs,    \* processes on the node: loops, queue runners, unrelated ones
    Pids,     \* process ids
    None,     \* no process
    Missing,  \* no lock file, or no pid in it
    Empty     \* a lock file between O_TRUNC and the write

ASSUME RunLockAssumption ==
    /\ None \notin Procs
    /\ {Missing, Empty} \cap Pids = {}

VARIABLES
    st,       \* where each process is in run_lock
    pid,      \* the pid of each process, Missing for a dead one
    seen,     \* the pid it is judging, Missing for 0 and when it judges none
    guard,    \* the process holding the flock on the guard file
    file,     \* the lock file: Missing, Empty or a pid
    used,     \* pids handed out so far
    recycled  \* pids handed out more than once

vars == <<st, pid, seen, guard, file, used, recycled>>

\* dead: no such process.  out: alive, outside run_lock.
States == {"dead", "out", "open", "read", "judge", "trunc", "fill", "taken",
           "body", "unlink", "refuse"}

\* Where a process has the guard, and where it has the lock.
Guarded == {"read", "judge", "trunc", "fill", "taken", "refuse"}
Holding == {"taken", "body", "unlink"}

Alive(i) == \E p \in Procs : st[p] # "dead" /\ pid[p] = i

Init ==
    /\ st = [p \in Procs |-> "dead"]
    /\ pid = [p \in Procs |-> Missing]
    /\ seen = [p \in Procs |-> Missing]
    /\ guard = None
    /\ file = Missing
    /\ used = {}
    /\ recycled = {}

Moves(p, from, to) == st[p] = from /\ st' = [st EXCEPT ![p] = to]

-----------------------------------------------------------------------------
(* The kernel *)

Start(p, i) ==
    /\ ~Alive(i)
    /\ Moves(p, "dead", "out")
    /\ pid' = [pid EXCEPT ![p] = i]
    /\ used' = used \cup {i}
    /\ recycled' = IF i \in used THEN recycled \cup {i} ELSE recycled
    /\ UNCHANGED <<seen, guard, file>>

Dies(p) ==
    /\ st' = [st EXCEPT ![p] = "dead"]
    /\ pid' = [pid EXCEPT ![p] = Missing]
    /\ seen' = [seen EXCEPT ![p] = Missing]

\* Mutant: the guard is a file too, and outlives its holder.
CrashKeepsGuard(p) ==
    /\ st[p] # "dead"
    /\ Dies(p)
    /\ UNCHANGED <<guard, file, used, recycled>>

\* Killed, crashed or exited: the guard is released with its descriptor,
\* the lock file stays as it is.
Crash(p) ==
    /\ st[p] # "dead"
    /\ Dies(p)
    /\ guard' = IF guard = p THEN None ELSE guard
    /\ UNCHANGED <<file, used, recycled>>

-----------------------------------------------------------------------------
(* run_lock *)

Enter(p) ==
    /\ Moves(p, "out", "open")
    /\ UNCHANGED <<pid, seen, guard, file, used, recycled>>

\* Mutant: the guard is opened but not locked.
FlockUnlocked(p) ==
    /\ Moves(p, "open", "read")
    /\ guard' = p
    /\ UNCHANGED <<pid, seen, file, used, recycled>>

\* flock(LOCK_EX) blocks until nobody holds the guard.
Flock(p) ==
    /\ guard = None
    /\ Moves(p, "open", "read")
    /\ guard' = p
    /\ UNCHANGED <<pid, seen, file, used, recycled>>

\* _read_lock_pid: a missing and an empty file both read as pid 0.
ReadLockPid(p) ==
    /\ Moves(p, "read", "judge")
    /\ seen' = [seen EXCEPT ![p] = IF file \in Pids THEN file ELSE Missing]
    /\ UNCHANGED <<pid, guard, file, used, recycled>>

\* _pid_alive(old), some time after old was read.
Judge(p) ==
    /\ Moves(p, "judge", IF Alive(seen[p]) THEN "refuse" ELSE "trunc")
    /\ seen' = [seen EXCEPT ![p] = Missing]
    /\ UNCHANGED <<pid, guard, file, used, recycled>>

\* _write_lock_pid: open with O_TRUNC, then write.
Truncate(p) ==
    /\ Moves(p, "trunc", "fill")
    /\ file' = Empty
    /\ UNCHANGED <<pid, seen, guard, used, recycled>>

WritePid(p) ==
    /\ Moves(p, "fill", "taken")
    /\ file' = pid[p]
    /\ UNCHANGED <<pid, seen, guard, used, recycled>>

\* os.close(guard_fd), with the lock or with QueueLocked raised.
CloseGuard(p) ==
    /\ Moves(p, "taken", "body") \/ Moves(p, "refuse", "out")
    /\ guard' = None
    /\ UNCHANGED <<pid, seen, file, used, recycled>>

\* The locked section ends, by return or by exception.
Finish(p) ==
    /\ Moves(p, "body", "unlink")
    /\ UNCHANGED <<pid, seen, guard, file, used, recycled>>

\* Mutant: the lock file is left to be reclaimed.
UnlinkForgotten(p) ==
    /\ Moves(p, "unlink", "out")
    /\ UNCHANGED <<pid, seen, guard, file, used, recycled>>

Unlink(p) ==
    /\ Moves(p, "unlink", "out")
    /\ file' = Missing
    /\ UNCHANGED <<pid, seen, guard, used, recycled>>

-----------------------------------------------------------------------------

Acquiring(p) ==
    ReadLockPid(p) \/ Judge(p) \/ Truncate(p) \/ WritePid(p) \/ CloseGuard(p)

Next ==
    \E p \in Procs :
        \/ \E i \in Pids : Start(p, i)
        \/ Crash(p)
        \/ Enter(p) \/ Flock(p) \/ Acquiring(p) \/ Finish(p) \/ Unlink(p)

Spec == Init /\ [][Next]_vars

\* A process that has the guard goes on; the kernel does not pass over a
\* blocked flock for ever.  Nothing says how long the locked section lasts.
FairSpec ==
    /\ Spec
    /\ \A p \in Procs : WF_vars(Acquiring(p)) /\ SF_vars(Flock(p))

-----------------------------------------------------------------------------
(* Properties *)

\* Every variable stays in its type; in particular the pid a process
\* compares is a pid or nothing, whatever a crash left in the file.
TypeOK ==
    /\ st \in [Procs -> States]
    /\ pid \in [Procs -> Pids \cup {Missing}]
    /\ seen \in [Procs -> Pids \cup {Missing}]
    /\ guard \in Procs \cup {None}
    /\ file \in Pids \cup {Missing, Empty}
    /\ used \subseteq Pids
    /\ recycled \subseteq Pids

\* queue.run_lock: "exactly one loop (kickoff OR queue) per task", through
\* crashes of the holder, racing reclaimers, releases that do not take the
\* guard, and recycled pids.
MutualExclusion ==
    \A p, q \in Procs : st[p] \in Holding /\ st[q] \in Holding => p = q

\* Unless its pid was recycled, a live process that the lock file names is in
\* the locked section: "already has a running loop (pid ...)" was true when it
\* was read, and a crashed holder's lock is never an obstacle, whatever order
\* crashes, reclaims and unlinks came in (queue._acquire_lock).
FileNamesHolder ==
    \A p \in Procs :
        st[p] # "dead" /\ file = pid[p] /\ pid[p] \notin recycled => st[p] \in Holding

\* Every attempt to take the lock is decided, even if the process that had
\* the guard died with it: the guard cannot go stale (queue._acquire_lock).
AttemptsDecided == \A p \in Procs : st[p] = "open" ~> st[p] # "open"
==============================================================================
