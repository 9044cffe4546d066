------------------------------- MODULE TaskQueue -------------------------------
(***************************************************************************)
(* The file-backed task queue (orchestrator/queue.py, TaskQueue), the      *)
(* commands that fill it (run._phase_enqueue) and the single-flight runner *)
(* that drains it (run._phase_queue), beside loops that the Director       *)
(* starts directly on the same tasks.                                      *)
(*                                                                         *)
(* Chained tasks build on their predecessor's pushed branch, so the model  *)
(* has the trees of each task: its worktree and its branch on the hub,     *)
(* each a set of commits with the terminal its log records.  What happens  *)
(* inside a run is module DevLoop's; here a run ends in success, in a      *)
(* sticky failure or in a retryable one, or it dies.                       *)
(*                                                                         *)
(* The queue lock is module RunLock's: it is held by the live runner, or   *)
(* by an enqueue for the moment it writes one item (one action), and a     *)
(* dead runner's lock is free.  The run lock of a task is its running      *)
(* entry.                                                                  *)
(***************************************************************************)
EXTENDS Integers, Sequences, FiniteSets

CONSTANTS
    Tasks,
    Clients,     \* enqueue commands that may be in progress at once
    Calls,       \* the arguments each may have: [tasks, chain]
    None,        \* no base task
    MaxCalls,    \* bound: enqueue commands issued
    MaxDirect,   \* bound: loops started and worktrees removed by the Director
    MaxFaults    \* bound: deaths of the queue runner and unhandled errors

ASSUME TaskQueueAssumption ==
    /\ None \notin Tasks
    /\ \A c \in Clients : \A a \in Calls[c] : a.tasks \in Seq(Tasks) /\ a.chain \in BOOLEAN
    /\ {MaxCalls, MaxDirect, MaxFaults} \subseteq Nat

VARIABLES
    queue,     \* the item files: sequence number, task, base task
    call,      \* what each enqueue command has still to write
    runner,    \* where the queue runner is; "idle" = no runner
    cur,       \* the item it is working on
    rc,        \* the return code of that item's run
    deferred,  \* tasks this pass has passed over
    blocked,   \* tasks whose descendants must not run in this pass
    running,   \* who runs the loop of each task
    wt,        \* the task worktrees
    hub,       \* the task branches on the hub
    runs,      \* runs of each task that ended
    owed,      \* history: tasks queued and not at a terminal since
    refused,   \* history: those whose run was refused (return code 2)
    meanwhile, \* history: a direct loop got the run lock of cur first
    budget     \* enqueue commands, direct loops and faults still allowed

vars == <<queue, call, runner, cur, rc, deferred, blocked, running, wt, hub,
          runs, owed, refused, meanwhile, budget>>
pass == <<deferred, blocked>>
trees == <<wt, hub, runs>>
ledger == <<owed, refused, meanwhile>>

\* A tree: the commits in its history and what the task's own log records.
Terms == {"absent", "none", "success", "failed", "retryable"}
Absent == [commits |-> {}, term |-> "absent"]
Main == [commits |-> {}, term |-> "none"]
Exists(tree) == tree.term # "absent"
Sticky(tree) == tree.term \in {"success", "failed"}

Items == [seq : Nat \ {0}, task : Tasks, base : Tasks \cup {None}]
NoItem == [seq |-> 0, task |-> None, base |-> None]
NoCall == [left |-> <<>>, prev |-> None, chain |-> FALSE]

Queued == {item.task : item \in queue}

\* _next_seq: numbers are used again once the items that had them are gone.
NextSeq ==
    LET taken == {0} \cup {item.seq : item \in queue}
    IN  1 + CHOOSE n \in taken : \A m \in taken : m <= n

Init ==
    /\ queue = {}
    /\ call = [c \in Clients |-> NoCall]
    /\ runner = "idle" /\ cur = NoItem /\ rc = 0
    /\ deferred = {} /\ blocked = {}
    /\ running = [t \in Tasks |-> "nobody"]
    /\ wt = [t \in Tasks |-> Absent]
    /\ hub = [t \in Tasks |-> Absent]
    /\ runs = [t \in Tasks |-> 0]
    /\ owed = {} /\ refused = {} /\ meanwhile = FALSE
    /\ budget = [calls |-> MaxCalls, direct |-> MaxDirect, faults |-> MaxFaults]

Spend(event) == budget[event] > 0 /\ budget' = [budget EXCEPT ![event] = @ - 1]

-----------------------------------------------------------------------------
(* Trees *)

\* task_worktree(t, base): an existing worktree, else the task's own branch
\* on the hub, else the predecessor's branch, else the default branch.
Worktree(t, base) ==
    CASE Exists(wt[t]) -> wt[t]
      [] ~Exists(wt[t]) /\ Exists(hub[t]) -> hub[t]
      [] ~Exists(wt[t]) /\ ~Exists(hub[t]) /\ base # None ->
            [Main EXCEPT !.commits = hub[base].commits]
      [] OTHER -> Main

\* The chain base is needed and the hub has no branch of it: a GitError.
BaseMissing(t, base) ==
    ~Exists(wt[t]) /\ ~Exists(hub[t]) /\ base # None /\ ~Exists(hub[base])

\* Mutant: any worktree will do.
AnyWorktree(t, base) == TRUE

\* chain_base_satisfied: the predecessor's pushed tip is in the worktree.
ChainBaseSatisfied(t, base) == Exists(hub[base]) /\ hub[base].commits \subseteq wt[t].commits

\* A run of t ends and records its terminal; successes and sticky failures
\* are always pushed, of the retryable terminals only a quota timeout is.
RunEnds(t, term) ==
    LET tree == [commits |-> wt[t].commits \cup {<<t, runs[t] + 1>>}, term |-> term]
    IN  /\ runs' = [runs EXCEPT ![t] = @ + 1]
        /\ wt' = [wt EXCEPT ![t] = tree]
        /\ \/ hub' = [hub EXCEPT ![t] = tree]
           \/ term = "retryable" /\ UNCHANGED hub
        /\ running' = [running EXCEPT ![t] = "nobody"]
        /\ owed' = owed \ {t}
        /\ UNCHANGED <<refused, meanwhile>>

-----------------------------------------------------------------------------
(* --phase enqueue *)

\* Validation, before anything is written: no task is queued already (read
\* without the lock).  Only an unchained call opens the worktrees.
Enqueue(c) ==
    /\ call[c] = NoCall
    /\ Spend("calls")
    /\ \E new \in Calls[c] :
          LET tasks == {new.tasks[i] : i \in DOMAIN new.tasks}
          IN  /\ tasks \cap Queued = {}
              /\ call' = [call EXCEPT ![c] =
                            [left |-> new.tasks, prev |-> None, chain |-> new.chain]]
              /\ wt' = IF new.chain THEN wt
                       ELSE [t \in Tasks |-> IF t \in tasks THEN Worktree(t, None) ELSE wt[t]]
    /\ UNCHANGED <<queue, runner, cur, rc, pass, running, hub, runs, ledger>>

\* Mutant: the duplicate check of the validation is trusted.
WriteUnchecked(c) == call[c].left # <<>> /\ runner = "idle"

\* TaskQueue.enqueue gets the lock and finds no item of the task.
MayWrite(c) == call[c].left # <<>> /\ runner = "idle" /\ Head(call[c].left) \notin Queued

WriteItem(c) ==
    /\ MayWrite(c)
    /\ LET task == Head(call[c].left)
           rest == Tail(call[c].left)
       IN  /\ queue' = queue \cup {[seq |-> NextSeq, task |-> task, base |-> call[c].prev]}
           /\ owed' = owed \cup {task}
           /\ refused' = refused \ {task}
           /\ call' = [call EXCEPT ![c] =
                         IF rest = <<>> THEN NoCall
                         ELSE [@ EXCEPT !.left = rest,
                                        !.prev = IF call[c].chain THEN task ELSE None]]
    /\ UNCHANGED <<runner, cur, rc, pass, running, trees, meanwhile, budget>>

\* QueueError: the lock is held by a live runner, or the task came to be
\* queued meanwhile.  The command stops; what it wrote stays queued.
GiveUp(c) ==
    /\ call[c].left # <<>>
    /\ runner # "idle" \/ Head(call[c].left) \in Queued
    /\ call' = [call EXCEPT ![c] = NoCall]
    /\ UNCHANGED <<queue, runner, cur, rc, pass, running, trees, ledger, budget>>

-----------------------------------------------------------------------------
(* --phase queue *)

Drain ==
    /\ runner = "idle"
    /\ runner' = "pick"
    /\ UNCHANGED <<queue, call, cur, rc, pass, running, trees, ledger, budget>>

\* The first item of the queue that is not deferred.
IsNext(item) ==
    /\ item.task \notin deferred
    /\ \A other \in queue : other.seq < item.seq => other.task \in deferred

\* The item stays in the queue, this pass skips it and its descendants.
Defer(task) ==
    /\ deferred' = deferred \cup {task}
    /\ blocked' = blocked \cup {task}
    /\ runner' = "pick"
    /\ cur' = NoItem

SkipBlocked ==
    /\ runner = "pick"
    /\ \E item \in queue :
          IsNext(item) /\ item.base \in blocked /\ Defer(item.task)
    /\ UNCHANGED <<queue, call, rc, running, trees, ledger, budget>>

\* A reused worktree without the predecessor's tip.
StaleLink(item) ==
    /\ item.base # None
    /\ Exists(wt[item.task])
    /\ ~ChainBaseSatisfied(item.task, item.base)

RefuseStale ==
    /\ runner = "pick"
    /\ \E item \in queue :
          IsNext(item) /\ item.base \notin blocked /\ StaleLink(item) /\ Defer(item.task)
    /\ UNCHANGED <<queue, call, rc, running, trees, ledger, budget>>

Choose ==
    /\ runner = "pick"
    /\ \E item \in queue :
          IsNext(item) /\ item.base \notin blocked /\ ~StaleLink(item) /\ cur' = item
    /\ runner' = "start"
    /\ meanwhile' = FALSE
    /\ UNCHANGED <<queue, call, rc, pass, running, trees, owed, refused, budget>>

Busy == running[cur.task] # "nobody"

\* Mutant: a task whose run lock is held counts as done.
LockHeldRemoves ==
    /\ runner = "start" /\ Busy
    /\ runner' = "after" /\ rc' = 4
    /\ UNCHANGED <<queue, call, cur, pass, running, trees, ledger, budget>>

\* Mutant: the skipped item is picked again at once.
LockHeldSpins ==
    /\ runner = "start" /\ Busy
    /\ runner' = "pick"
    /\ blocked' = blocked \cup {cur.task}
    /\ cur' = NoItem
    /\ UNCHANGED <<queue, call, rc, deferred, running, trees, ledger, budget>>

\* Mutant: a skipped item does not stop its chain.
LockHeldUnblocked ==
    /\ runner = "start" /\ Busy
    /\ runner' = "pick"
    /\ deferred' = deferred \cup {cur.task}
    /\ cur' = NoItem
    /\ UNCHANGED <<queue, call, rc, blocked, running, trees, ledger, budget>>

\* Return code 4: another loop holds the task's run lock.
LockHeld ==
    /\ runner = "start" /\ Busy
    /\ Defer(cur.task)
    /\ UNCHANGED <<queue, call, rc, running, trees, ledger, budget>>

BaseUnavailable ==
    /\ runner = "start" /\ ~Busy
    /\ BaseMissing(cur.task, cur.base)
    /\ Defer(cur.task)
    /\ UNCHANGED <<queue, call, rc, running, trees, ledger, budget>>

OpenWorktree ==
    /\ runner = "start" /\ ~Busy
    /\ ~BaseMissing(cur.task, cur.base)
    /\ wt' = [wt EXCEPT ![cur.task] = Worktree(cur.task, cur.base)]

\* Return code 2: the worktree has no valid spec, or a high-risk one without
\* an approved design.  It can be so when it is not the tree in which the
\* enqueue validated the task: specs of chained tasks are validated on the
\* default branch and read from the chain base; a worktree that was removed is
\* cut anew, from a branch that may have moved on.
Refuse ==
    /\ OpenWorktree
    /\ cur.base # None \/ ~Exists(wt[cur.task])
    /\ refused' = refused \cup {cur.task}
    /\ runner' = "after" /\ rc' = 2
    /\ UNCHANGED <<queue, call, cur, pass, running, hub, runs, owed, meanwhile, budget>>

\* run() returns the recorded terminal.
AlreadyFinished ==
    /\ OpenWorktree
    /\ Sticky(wt'[cur.task])
    /\ runner' = "after"
    /\ rc' = IF wt'[cur.task].term = "success" THEN 0 ELSE 1
    /\ owed' = owed \ {cur.task}
    /\ UNCHANGED <<queue, call, cur, pass, running, hub, runs, refused, meanwhile, budget>>

Begin ==
    /\ OpenWorktree
    /\ ~Sticky(wt'[cur.task])
    /\ running' = [running EXCEPT ![cur.task] = "queue"]
    /\ runner' = "run"
    /\ UNCHANGED <<queue, call, cur, rc, pass, hub, runs, ledger, budget>>

End ==
    /\ runner = "run"
    /\ \E term \in {"success", "failed", "retryable"} :
          /\ RunEnds(cur.task, term)
          /\ rc' = IF term = "success" THEN 0 ELSE 1
    /\ runner' = "after"
    /\ UNCHANGED <<queue, call, cur, pass, budget>>

\* A GitError left the run unhandled (DevLoop: the tail of a quota timeout).
EndUnhandled ==
    /\ runner = "run"
    /\ Spend("faults")
    /\ Defer(cur.task)
    /\ running' = [running EXCEPT ![cur.task] = "nobody"]
    /\ UNCHANGED <<queue, call, rc, trees, ledger>>

\* A failed run stops its chain; any finished run leaves the queue.
Remove ==
    /\ runner = "after"
    /\ blocked' = IF rc # 0 THEN blocked \cup {cur.task} ELSE blocked
    /\ queue' = queue \ {cur}
    /\ runner' = "pick"
    /\ cur' = NoItem /\ rc' = 0
    /\ UNCHANGED <<call, deferred, running, trees, ledger, budget>>

\* The runner is gone, and with it what it knew of the pass.
PassOver ==
    /\ runner' = "idle"
    /\ cur' = NoItem /\ rc' = 0
    /\ deferred' = {} /\ blocked' = {}

\* Mutant: the pass ends at the first item of a stopped chain.
FinishEarly ==
    /\ runner = "pick"
    /\ Queued \subseteq deferred \/ deferred # {}
    /\ PassOver
    /\ UNCHANGED <<queue, call, running, trees, ledger, budget>>

Finish ==
    /\ runner = "pick"
    /\ Queued \subseteq deferred
    /\ PassOver
    /\ UNCHANGED <<queue, call, running, trees, ledger, budget>>

\* The runner dies, with the run in it: nothing is written any more.
Crash ==
    /\ runner # "idle"
    /\ Spend("faults")
    /\ PassOver
    /\ running' = [t \in Tasks |-> IF running[t] = "queue" THEN "nobody" ELSE running[t]]
    /\ UNCHANGED <<queue, call, trees, ledger>>

-----------------------------------------------------------------------------
(* The Director *)

\* A direct kickoff of a task that is not finished.
Kickoff(t) ==
    /\ running[t] = "nobody"
    /\ ~Sticky(Worktree(t, None))
    /\ Spend("direct")
    /\ wt' = [wt EXCEPT ![t] = Worktree(t, None)]
    /\ running' = [running EXCEPT ![t] = "direct"]
    /\ meanwhile' = (meanwhile \/ (runner = "start" /\ cur.task = t))
    /\ UNCHANGED <<queue, call, runner, cur, rc, pass, hub, runs, owed, refused>>

\* --phase resume of a finished task: the worktree is synced to the hub.
Resume(t) ==
    /\ running[t] = "nobody"
    /\ Sticky(wt[t]) /\ Exists(hub[t])
    /\ Spend("direct")
    /\ wt' = [wt EXCEPT ![t] = [hub[t] EXCEPT !.term = "none"]]
    /\ running' = [running EXCEPT ![t] = "direct"]
    /\ UNCHANGED <<queue, call, runner, cur, rc, pass, hub, runs, ledger>>

DirectEnd(t) ==
    /\ running[t] = "direct"
    /\ \/ \E term \in {"success", "failed", "retryable"} : RunEnds(t, term)
       \/ running' = [running EXCEPT ![t] = "nobody"] /\ UNCHANGED <<trees, ledger>>
    /\ UNCHANGED <<queue, call, runner, cur, rc, pass, budget>>

\* The Director removes a worktree for a fresh start (USAGE.md, Batch).
RemoveWorktree(t) ==
    /\ running[t] = "nobody"
    /\ Exists(wt[t])
    /\ Spend("direct")
    /\ wt' = [wt EXCEPT ![t] = Absent]
    /\ UNCHANGED <<queue, call, runner, cur, rc, pass, running, hub, runs, ledger>>

-----------------------------------------------------------------------------

RunnerStep ==
    \/ SkipBlocked \/ RefuseStale \/ Choose \/ LockHeld \/ BaseUnavailable
    \/ Refuse \/ AlreadyFinished \/ Begin \/ End \/ EndUnhandled \/ Remove \/ Finish

Next ==
    \/ \E c \in Clients : Enqueue(c) \/ WriteItem(c) \/ GiveUp(c)
    \/ Drain \/ RunnerStep \/ Crash
    \/ \E t \in Tasks : Kickoff(t) \/ Resume(t) \/ RemoveWorktree(t) \/ DirectEnd(t)

Spec == Init /\ [][Next]_vars

\* Fairness: the runner goes on (its runs end: DevLoop, EventuallyFinished)
\* and the queue is drained again.  A loop started directly may last for ever.
Progress == WF_vars(RunnerStep) /\ WF_vars(Drain)

FairSpec == Spec /\ Progress

-----------------------------------------------------------------------------
(* Properties *)

\* The types of all variables.
TypeOK ==
    /\ queue \subseteq Items
    /\ call \in [Clients -> [left : Seq(Tasks), prev : Tasks \cup {None}, chain : BOOLEAN]]
    /\ runner \in {"idle", "pick", "start", "run", "after"}
    /\ cur \in Items \cup {NoItem}
    /\ rc \in {0, 1, 2, 4}
    /\ deferred \subseteq Tasks /\ blocked \subseteq Tasks
    /\ running \in [Tasks -> {"nobody", "queue", "direct"}]
    /\ runs \in [Tasks -> Nat]
    /\ wt \in [Tasks -> [commits : SUBSET (Tasks \X Nat), term : Terms]]
    /\ hub \in [Tasks -> [commits : SUBSET (Tasks \X Nat), term : Terms]]
    /\ owed \subseteq Tasks /\ refused \subseteq Tasks /\ meanwhile \in BOOLEAN

\* queue.enqueue: two commands never queue one task twice, though both saw
\* it unqueued when they validated their arguments.
NoDuplicateItems ==
    \A x, y \in queue : x.task = y.task => x = y

\* run._phase_queue: a task that was queued is in the queue until a run has
\* brought it to a terminal, whoever ran it and however often the runner
\* died or found the task's run lock held; only a refused run (return code
\* 2) leaves without one.
NothingVanishes == owed \subseteq Queued \cup refused

\* run._phase_queue: a chained item never runs while its predecessor's item
\* still waits before it in the queue, skipped or stopped ("every
\* transitive descendant is left in the queue").
RunsInOrder ==
    runner \in {"start", "run"} =>
        \A item \in queue : item.task = cur.base => ~(item.seq < cur.seq)

\* gitops.task_worktree, run._phase_queue: what the loop of a chained item
\* works on contains work its predecessor pushed, unless the task was under
\* way on a branch of its own, or a direct kickoff slipped in between the
\* runner's look at the worktree and its taking the run lock: the worktree
\* that one leaves behind is reused unseen (run.py:992, without the lock).
BuildsOnBase ==
    runner = "run" /\ cur.base # None /\ ~Exists(hub[cur.task]) /\ ~meanwhile
        => \E c \in wt[cur.task].commits : c[1] = cur.base

\* A pass ends even if a loop that holds a run lock never does (run._phase_
\* queue: "instead of busy-looping on items[0]").
PassEnds == runner # "idle" ~> runner = "idle"

\* An independent task that is queued leaves the queue, unless a direct loop
\* works on it, whatever became of the chains before it and whoever works on
\* them (run._phase_queue: "Independent items keep running").
Independent(t) == \E item \in queue : item.task = t /\ item.base = None

IndependentLeaves ==
    \A t \in Tasks : Independent(t) ~> ~Independent(t) \/ running[t] = "direct"
==============================================================================
