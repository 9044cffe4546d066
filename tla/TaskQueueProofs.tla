---------------------------- MODULE TaskQueueProofs ----------------------------
(***************************************************************************)
(* The safety of the task queue for any tasks, any number of enqueue       *)
(* commands and any number of deaths of the runner.                        *)
(***************************************************************************)
EXTENDS TaskQueue, WellFoundedInduction, TLAPS

-----------------------------------------------------------------------------
(* Sequence numbers *)

Less == {p \in Nat \X Nat : p[1] < p[2]}

LEMMA LessWellFounded == IsWellFoundedOn(Less, Nat)
BY NatLessThanWellFounded DEF OpToRel, Less

LEMMA LeastOf ==
    ASSUME NEW S, S \subseteq Nat, S # {}
    PROVE  \E n \in S : \A m \in S : n <= m
<1>1. PICK n \in S : \A m \in S : <<m, n>> \notin Less
  BY LessWellFounded, WFMin
<1>2. ASSUME NEW m \in S
      PROVE  n <= m
  <2>1. m \in Nat /\ n \in Nat
    OBVIOUS
  <2>2. ~(m < n)
    BY <1>1, <2>1 DEF Less
  <2> QED
    BY <2>1, <2>2
<1> QED
  BY <1>2

Bounds(S, n) == \A m \in S : m <= n

\* A set of numbers with a bound has a greatest element: its least bound.
LEMMA GreatestOf ==
    ASSUME NEW S, S \subseteq Nat, 0 \in S, NEW b \in Nat, Bounds(S, b)
    PROVE  \E n \in S : Bounds(S, n)
<1> DEFINE B == {n \in Nat : Bounds(S, n)}
<1>1. PICK n \in B : \A m \in B : n <= m
  BY LeastOf
<1>2. n \in S
  <2> SUFFICES ASSUME n \notin S
               PROVE  FALSE
    OBVIOUS
  <2>1. n # 0 /\ n - 1 \in Nat /\ n \in Nat
    OBVIOUS
  <2>2. \A m \in S : m \in Nat /\ m <= n /\ m # n
    BY <1>1 DEF Bounds
  <2>3. \A m \in S : m <= n - 1
    BY <2>1, <2>2
  <2>4. n - 1 \in B
    BY <2>1, <2>3 DEF Bounds
  <2> QED
    BY <1>1, <2>1, <2>4
<1> QED
  BY <1>1, <1>2

\* TypeOK and a bound on the sequence numbers in use, without which there
\* need not be a greatest one.
Bounded(q) == \E b \in Nat : \A item \in q : item.seq <= b

\* The item that is worked on stays in the queue until it is removed.
CurQueued == runner \in {"start", "run", "after"} => cur \in queue

TypeInv == TypeOK /\ Bounded(queue) /\ CurQueued

\* The next sequence number is one greater than all those in use.
LEMMA NextSeqIsNew ==
    ASSUME queue \subseteq Items, Bounded(queue)
    PROVE  /\ NextSeq \in Nat \ {0}
           /\ \A item \in queue : item.seq < NextSeq
<1> DEFINE seqs == {item.seq : item \in queue}
           taken == {0} \cup seqs
           greatest == CHOOSE n \in taken : \A m \in taken : m <= n
<1>1. taken \subseteq Nat
  BY DEF Items
<1>2. \E n \in taken : \A m \in taken : m <= n
  <2>1. PICK b \in Nat : \A item \in queue : item.seq <= b
    BY DEF Bounded
  <2>2. Bounds(taken, b)
    BY <2>1 DEF Bounds
  <2>3. 0 \in taken
    OBVIOUS
  <2> HIDE DEF taken
  <2> QED
    BY <1>1, <2>2, <2>3, GreatestOf DEF Bounds
<1>3. greatest \in taken /\ \A m \in taken : m <= greatest
  <2> HIDE DEF taken
  <2> QED
    BY <1>2
<1>4. NextSeq = 1 + greatest
  BY DEF NextSeq
<1>5. \A item \in queue : item.seq \in taken /\ item.seq \in Nat
  BY DEF Items
<1> HIDE DEF greatest, taken, seqs
<1>6. greatest \in Nat
  BY <1>1, <1>3
<1> QED
  BY <1>3, <1>4, <1>5, <1>6

-----------------------------------------------------------------------------
(* Types *)

Tree == [commits : SUBSET (Tasks \X Nat), term : Terms]

TreesOK ==
    /\ runs \in [Tasks -> Nat]
    /\ wt \in [Tasks -> Tree]
    /\ hub \in [Tasks -> Tree]

LEMMA WorktreeType ==
    ASSUME TreesOK, NEW t \in Tasks, NEW base \in Tasks \cup {None}
    PROVE  Worktree(t, base) \in Tree
<1>1. CASE Exists(wt[t])
  BY <1>1 DEF Worktree, TreesOK
<1>2. CASE ~Exists(wt[t]) /\ Exists(hub[t])
  BY <1>2 DEF Worktree, TreesOK
<1>3. CASE ~Exists(wt[t]) /\ ~Exists(hub[t]) /\ base # None
  <2>1. Worktree(t, base) = [Main EXCEPT !.commits = hub[base].commits]
    BY <1>3 DEF Worktree
  <2>2. hub[base].commits \in SUBSET (Tasks \X Nat)
    BY <1>3 DEF TreesOK, Tree
  <2> QED
    BY <2>1, <2>2 DEF Main, Tree, Terms
<1>4. CASE ~Exists(wt[t]) /\ ~Exists(hub[t]) /\ base = None
  <2>1. Worktree(t, base) = Main
    BY <1>4 DEF Worktree
  <2> QED
    BY <2>1 DEF Main, Tree, Terms
<1> QED
  BY <1>1, <1>2, <1>3, <1>4

LEMMA RunEndsType ==
    ASSUME TreesOK, NEW t \in Tasks,
           NEW term \in {"success", "failed", "retryable"}, RunEnds(t, term)
    PROVE  TreesOK'
<1> DEFINE tree == [commits |-> wt[t].commits \cup {<<t, runs[t] + 1>>}, term |-> term]
<1>1. tree \in Tree
  BY DEF TreesOK, Tree, Terms
<1>2. runs' \in [Tasks -> Nat]
  BY DEF TreesOK, RunEnds
<1>3. wt' = [wt EXCEPT ![t] = tree]
  BY DEF RunEnds
<1>4. hub' = [hub EXCEPT ![t] = tree] \/ hub' = hub
  BY DEF RunEnds
<1> HIDE DEF tree
<1> QED
  BY <1>1, <1>2, <1>3, <1>4 DEF TreesOK

\* The initial state is well-typed.
LEMMA InitType == Init => TypeInv
<1> SUFFICES ASSUME Init
             PROVE  TypeInv
  OBVIOUS
<1>1. NoCall \in [left : Seq(Tasks), prev : Tasks \cup {None}, chain : BOOLEAN]
  BY DEF NoCall
<1>2. Absent \in Tree
  BY DEF Absent, Tree, Terms
<1>3. Bounded(queue)
  BY DEF Init, Bounded
<1> QED
  BY <1>1, <1>2, <1>3 DEF Init, TypeInv, TypeOK, Tree, CurQueued

\* The parts of the type invariant that different actions are about.
CallsOK == call \in [Clients -> [left : Seq(Tasks), prev : Tasks \cup {None}, chain : BOOLEAN]]
QueueOK == queue \subseteq Items /\ Bounded(queue)
PassOK ==
    /\ runner \in {"idle", "pick", "start", "run", "after"}
    /\ cur \in Items \cup {NoItem}
    /\ rc \in {0, 1, 2, 4}
    /\ deferred \subseteq Tasks /\ blocked \subseteq Tasks
    /\ running \in [Tasks -> {"nobody", "queue", "direct"}]
    /\ CurQueued
LedgerOK == owed \subseteq Tasks /\ refused \subseteq Tasks /\ meanwhile \in BOOLEAN

LEMMA TypeParts == TypeInv <=> CallsOK /\ QueueOK /\ PassOK /\ TreesOK /\ LedgerOK
BY DEF TypeInv, TypeOK, CallsOK, QueueOK, PassOK, TreesOK, LedgerOK, Tree

LEMMA EnqueueType ==
    ASSUME CallsOK, QueueOK, PassOK, TreesOK, LedgerOK, NEW c \in Clients, Enqueue(c)
    PROVE  (CallsOK /\ QueueOK /\ PassOK /\ TreesOK /\ LedgerOK)'
<1>1. QueueOK' /\ PassOK' /\ LedgerOK'
  BY DEF Enqueue, pass, ledger, QueueOK, PassOK, LedgerOK, Bounded, CurQueued
<1>2. PICK new \in Calls[c] :
        /\ call' = [call EXCEPT ![c] =
                      [left |-> new.tasks, prev |-> None, chain |-> new.chain]]
        /\ wt' = IF new.chain THEN wt
                 ELSE [t \in Tasks |-> IF t \in {new.tasks[i] : i \in DOMAIN new.tasks}
                                       THEN Worktree(t, None) ELSE wt[t]]
  BY DEF Enqueue
<1>3. CallsOK'
  BY <1>2, TaskQueueAssumption DEF CallsOK
<1>4. TreesOK'
  <2>1. \A t \in Tasks : Worktree(t, None) \in Tree
    BY WorktreeType
  <2>2. runs' = runs /\ hub' = hub
    BY DEF Enqueue
  <2>3. wt' \in [Tasks -> Tree]
    BY <1>2, <2>1 DEF TreesOK
  <2> QED
    BY <2>2, <2>3 DEF TreesOK
<1> QED
  BY <1>1, <1>3, <1>4

LEMMA WriteItemType ==
    ASSUME CallsOK, QueueOK, PassOK, TreesOK, LedgerOK, NEW c \in Clients, WriteItem(c)
    PROVE  (CallsOK /\ QueueOK /\ PassOK /\ TreesOK /\ LedgerOK)'
<1> DEFINE task == Head(call[c].left)
           rest == Tail(call[c].left)
           item == [seq |-> NextSeq, task |-> task, base |-> call[c].prev]
<1>1. /\ call[c].left \in Seq(Tasks) /\ call[c].left # <<>>
      /\ call[c].prev \in Tasks \cup {None} /\ call[c].chain \in BOOLEAN
  BY DEF CallsOK, WriteItem, MayWrite
<1>2. task \in Tasks /\ rest \in Seq(Tasks)
  BY <1>1
<1>3. NextSeq \in Nat \ {0} /\ \A i \in queue : i.seq < NextSeq
  BY NextSeqIsNew DEF QueueOK
<1>4. queue' = queue \cup {item}
  BY DEF WriteItem
<1>5. QueueOK'
  <2>1. item \in Items
    BY <1>1, <1>2, <1>3 DEF Items
  <2>2. \A i \in queue' : i.seq <= NextSeq
    <3>1. \A i \in queue : i.seq \in Nat
      BY DEF QueueOK, Items
    <3> QED
      BY <1>3, <1>4, <3>1
  <2>3. Bounded(queue')
    BY <1>3, <2>2 DEF Bounded
  <2> QED
    BY <1>4, <2>1, <2>3 DEF QueueOK
<1>6. CallsOK'
  <2>1. call' = [call EXCEPT ![c] =
                   IF rest = <<>> THEN NoCall
                   ELSE [@ EXCEPT !.left = rest,
                                  !.prev = IF call[c].chain THEN task ELSE None]]
    BY DEF WriteItem
  <2> QED
    BY <1>1, <1>2, <2>1 DEF CallsOK, NoCall
<1>7. LedgerOK'
  BY <1>2 DEF WriteItem, LedgerOK
<1>8. PassOK' /\ TreesOK'
  BY DEF WriteItem, MayWrite, pass, trees, PassOK, TreesOK, CurQueued
<1> QED
  BY <1>5, <1>6, <1>7, <1>8

LEMMA DeferType ==
    ASSUME PassOK, NEW t \in Tasks, Defer(t), rc' = rc,
           running' \in [Tasks -> {"nobody", "queue", "direct"}]
    PROVE  PassOK'
BY DEF PassOK, CurQueued, Defer

\* What the steps of a runner that has chosen an item know of it.
LEMMA CurType ==
    ASSUME QueueOK, PassOK, runner \in {"start", "run", "after"}
    PROVE  /\ cur \in Items /\ cur.task \in Tasks /\ cur.base \in Tasks \cup {None}
           /\ running[cur.task] \in {"nobody", "queue", "direct"}
BY DEF QueueOK, PassOK, CurQueued, Items

LEMMA OpenWorktreeType ==
    ASSUME QueueOK, PassOK, TreesOK, OpenWorktree, UNCHANGED <<hub, runs>>
    PROVE  TreesOK'
<1>1. cur.task \in Tasks /\ cur.base \in Tasks \cup {None}
  BY CurType DEF OpenWorktree
<1>2. Worktree(cur.task, cur.base) \in Tree
  BY <1>1, WorktreeType
<1> QED
  BY <1>2 DEF OpenWorktree, TreesOK

LEMMA RunnerStepType ==
    ASSUME CallsOK, QueueOK, PassOK, TreesOK, LedgerOK, RunnerStep
    PROVE  (CallsOK /\ QueueOK /\ PassOK /\ TreesOK /\ LedgerOK)'
<1> USE DEF trees, pass, ledger
<1>a. CallsOK'
  BY DEF CallsOK, RunnerStep, SkipBlocked, RefuseStale, Choose, LockHeld,
         BaseUnavailable, Refuse, AlreadyFinished, Begin, End, EndUnhandled,
         Remove, Finish
<1>b. ASSUME UNCHANGED queue
      PROVE  QueueOK'
  BY <1>b DEF QueueOK, Bounded
<1>c. ASSUME UNCHANGED trees
      PROVE  TreesOK'
  BY <1>c DEF TreesOK
<1>d. ASSUME UNCHANGED ledger
      PROVE  LedgerOK'
  BY <1>d DEF LedgerOK
<1>1. CASE SkipBlocked \/ RefuseStale
  <2>1. PICK item \in queue : Defer(item.task)
    BY <1>1 DEF SkipBlocked, RefuseStale
  <2>2. PassOK'
    BY <1>1, <2>1, DeferType DEF SkipBlocked, RefuseStale, QueueOK, Items, PassOK
  <2> QED
    BY <1>1, <1>a, <1>b, <1>c, <1>d, <2>2 DEF SkipBlocked, RefuseStale
<1>2. CASE Choose
  <2>1. PassOK'
    BY <1>2 DEF Choose, PassOK, QueueOK, CurQueued
  <2>2. LedgerOK'
    BY <1>2 DEF Choose, LedgerOK
  <2> QED
    BY <1>2, <1>a, <1>b, <1>c, <2>1, <2>2 DEF Choose
<1>3. CASE LockHeld \/ BaseUnavailable
  <2>1. PassOK'
    BY <1>3, CurType, DeferType DEF LockHeld, BaseUnavailable, PassOK
  <2> QED
    BY <1>3, <1>a, <1>b, <1>c, <1>d, <2>1 DEF LockHeld, BaseUnavailable
<1>4. CASE Refuse
  <2>1. TreesOK'
    BY <1>4, OpenWorktreeType DEF Refuse
  <2>2. PassOK'
    BY <1>4 DEF Refuse, OpenWorktree, PassOK, CurQueued
  <2>3. LedgerOK'
    BY <1>4, CurType DEF Refuse, OpenWorktree, LedgerOK
  <2> QED
    BY <1>4, <1>a, <1>b, <2>1, <2>2, <2>3 DEF Refuse
<1>5. CASE AlreadyFinished
  <2>1. TreesOK'
    BY <1>5, OpenWorktreeType DEF AlreadyFinished
  <2>2. PassOK'
    BY <1>5 DEF AlreadyFinished, OpenWorktree, PassOK, CurQueued
  <2>3. LedgerOK'
    BY <1>5 DEF AlreadyFinished, LedgerOK
  <2> QED
    BY <1>5, <1>a, <1>b, <2>1, <2>2, <2>3 DEF AlreadyFinished
<1>6. CASE Begin
  <2>1. TreesOK'
    BY <1>6, OpenWorktreeType DEF Begin
  <2>2. PassOK'
    BY <1>6 DEF Begin, OpenWorktree, PassOK, CurQueued
  <2> QED
    BY <1>6, <1>a, <1>b, <1>d, <2>1, <2>2 DEF Begin
<1>7. CASE End
  <2>1. PICK term \in {"success", "failed", "retryable"} :
          RunEnds(cur.task, term) /\ rc' = IF term = "success" THEN 0 ELSE 1
    BY <1>7 DEF End
  <2>2. TreesOK'
    BY <1>7, <2>1, CurType, RunEndsType DEF End
  <2>3. PassOK'
    BY <1>7, <2>1 DEF End, RunEnds, PassOK, CurQueued
  <2>4. LedgerOK'
    BY <2>1 DEF RunEnds, LedgerOK
  <2> QED
    BY <1>7, <1>a, <1>b, <2>2, <2>3, <2>4 DEF End
<1>8. CASE EndUnhandled
  <2>1. PassOK'
    BY <1>8, CurType, DeferType DEF EndUnhandled, PassOK
  <2> QED
    BY <1>8, <1>a, <1>b, <1>c, <1>d, <2>1 DEF EndUnhandled
<1>9. CASE Remove
  <2>1. PassOK'
    BY <1>9, CurType DEF Remove, PassOK, CurQueued
  <2>2. QueueOK'
    BY <1>9 DEF Remove, QueueOK, Bounded
  <2> QED
    BY <1>9, <1>a, <1>c, <1>d, <2>1, <2>2 DEF Remove
<1>10. CASE Finish
  <2>1. PassOK'
    BY <1>10 DEF Finish, PassOver, PassOK, CurQueued
  <2> QED
    BY <1>10, <1>a, <1>b, <1>c, <1>d, <2>1 DEF Finish
<1> QED
  BY <1>1, <1>2, <1>3, <1>4, <1>5, <1>6, <1>7, <1>8, <1>9, <1>10 DEF RunnerStep

LEMMA OtherStepType ==
    ASSUME CallsOK, QueueOK, PassOK, TreesOK, LedgerOK,
           \/ \E c \in Clients : GiveUp(c)
           \/ Drain \/ Crash
           \/ \E t \in Tasks : Kickoff(t) \/ Resume(t) \/ RemoveWorktree(t) \/ DirectEnd(t)
           \/ UNCHANGED vars
    PROVE  (CallsOK /\ QueueOK /\ PassOK /\ TreesOK /\ LedgerOK)'
<1> USE DEF trees, pass, ledger
<1>1. CASE \E c \in Clients : GiveUp(c)
  <2>1. PICK c \in Clients : GiveUp(c)
    BY <1>1
  <2>2. CallsOK'
    BY <2>1 DEF GiveUp, CallsOK, NoCall
  <2> QED
    BY <2>1, <2>2 DEF GiveUp, QueueOK, Bounded, PassOK, CurQueued, TreesOK, LedgerOK
<1>2. CASE Drain
  BY <1>2 DEF Drain, CallsOK, QueueOK, Bounded, PassOK, CurQueued, TreesOK, LedgerOK
<1>3. CASE Crash
  BY <1>3 DEF Crash, PassOver, CallsOK, QueueOK, Bounded, PassOK, CurQueued, TreesOK, LedgerOK
<1>4. ASSUME NEW t \in Tasks, Kickoff(t) \/ Resume(t) \/ RemoveWorktree(t)
      PROVE  (CallsOK /\ QueueOK /\ PassOK /\ TreesOK /\ LedgerOK)'
  <2>1. Worktree(t, None) \in Tree
    BY WorktreeType
  <2>2. [hub[t] EXCEPT !.term = "none"] \in Tree
    BY DEF TreesOK, Tree, Terms
  <2>3. Absent \in Tree
    BY DEF Absent, Tree, Terms
  <2>4. wt' \in [Tasks -> Tree] /\ UNCHANGED <<hub, runs>>
    BY <1>4, <2>1, <2>2, <2>3 DEF Kickoff, Resume, RemoveWorktree, TreesOK
  <2>5. PassOK'
    BY <1>4 DEF Kickoff, Resume, RemoveWorktree, PassOK, CurQueued
  <2>6. (CallsOK /\ QueueOK /\ LedgerOK)'
    BY <1>4 DEF Kickoff, Resume, RemoveWorktree, CallsOK, QueueOK, Bounded, LedgerOK
  <2> QED
    BY <2>4, <2>5, <2>6 DEF TreesOK
<1>5. ASSUME NEW t \in Tasks, DirectEnd(t)
      PROVE  (CallsOK /\ QueueOK /\ PassOK /\ TreesOK /\ LedgerOK)'
  <2>1. (CallsOK /\ QueueOK)'
    BY <1>5 DEF DirectEnd, CallsOK, QueueOK, Bounded
  <2>2. PassOK'
    BY <1>5 DEF DirectEnd, RunEnds, PassOK, CurQueued
  <2>3. LedgerOK'
    BY <1>5 DEF DirectEnd, RunEnds, LedgerOK
  <2>4. TreesOK'
    <3>1. CASE \E term \in {"success", "failed", "retryable"} : RunEnds(t, term)
      BY <3>1, RunEndsType
    <3>2. CASE UNCHANGED trees
      BY <3>2 DEF TreesOK
    <3> QED
      BY <1>5, <3>1, <3>2 DEF DirectEnd
  <2> QED
    BY <2>1, <2>2, <2>3, <2>4
<1>6. CASE UNCHANGED vars
  BY <1>6 DEF vars, CallsOK, QueueOK, Bounded, PassOK, CurQueued, TreesOK, LedgerOK
<1> QED
  BY <1>1, <1>2, <1>3, <1>4, <1>5, <1>6

LEMMA StepType == TypeInv /\ [Next]_vars => TypeInv'
<1> SUFFICES ASSUME TypeInv, [Next]_vars
             PROVE  TypeInv'
  OBVIOUS
<1>1. CallsOK /\ QueueOK /\ PassOK /\ TreesOK /\ LedgerOK
  BY TypeParts
<1>2. (CallsOK /\ QueueOK /\ PassOK /\ TreesOK /\ LedgerOK)'
  <2>1. CASE \E c \in Clients : Enqueue(c) \/ WriteItem(c)
    BY <1>1, <2>1, EnqueueType, WriteItemType
  <2>2. CASE RunnerStep
    BY <1>1, <2>2, RunnerStepType
  <2> QED
    BY <1>1, <2>1, <2>2, OtherStepType DEF Next
<1> QED
  BY <1>2, TypeParts DEF TypeInv, TypeOK, CallsOK, QueueOK, PassOK, TreesOK, LedgerOK, Tree

\* Every variable keeps its type; in particular the sequence number of a new
\* item is always defined (TaskQueue._next_seq).
THEOREM TypeCorrect == Spec => []TypeOK
<1>1. Spec => []TypeInv
  BY InitType, StepType, PTL DEF Spec
<1>2. TypeInv => TypeOK
  BY DEF TypeInv
<1> QED
  BY <1>1, <1>2, PTL

-----------------------------------------------------------------------------
(* The queue *)

\* What is known of the queue: a task passed over is one whose descendants
\* are stopped, and a run that ended without a terminal was refused.
PassedOver == deferred \subseteq blocked
AfterRun == runner = "after" => cur.task \notin owed \/ cur.task \in refused

QueueInv == NoDuplicateItems /\ NothingVanishes /\ RunsInOrder /\ PassedOver /\ AfterRun

LEMMA InitQueue == Init => QueueInv
BY DEF Init, QueueInv, NoDuplicateItems, NothingVanishes, Queued, RunsInOrder,
       PassedOver, AfterRun

LEMMA WriteItemQueue ==
    ASSUME TypeInv, QueueInv, NEW c \in Clients, WriteItem(c)
    PROVE  QueueInv'
<1> DEFINE item == [seq |-> NextSeq, task |-> Head(call[c].left), base |-> call[c].prev]
<1>1. queue' = queue \cup {item} /\ item.task \notin Queued
  BY DEF WriteItem, MayWrite
<1>2. owed' = owed \cup {item.task} /\ refused' = refused \ {item.task}
  BY DEF WriteItem
<1>3. runner = "idle" /\ UNCHANGED <<runner, cur, deferred, blocked>>
  BY DEF WriteItem, MayWrite, pass
<1> HIDE DEF item
<1>4. NoDuplicateItems'
  BY <1>1 DEF QueueInv, NoDuplicateItems, Queued
<1>5. NothingVanishes'
  BY <1>1, <1>2 DEF QueueInv, NothingVanishes, Queued
<1>6. (RunsInOrder /\ PassedOver /\ AfterRun)'
  BY <1>3 DEF QueueInv, RunsInOrder, PassedOver, AfterRun
<1> QED
  BY <1>4, <1>5, <1>6 DEF QueueInv

LEMMA RunnerStepQueue ==
    ASSUME TypeInv, QueueInv, RunnerStep
    PROVE  QueueInv'
<1> USE DEF pass, trees, ledger
<1>a. ASSUME UNCHANGED <<queue, owed, refused>>
      PROVE  (NoDuplicateItems /\ NothingVanishes)'
  BY <1>a DEF QueueInv, NoDuplicateItems, NothingVanishes, Queued
<1>b. ASSUME NEW t, Defer(t)
      PROVE  (RunsInOrder /\ PassedOver /\ AfterRun)'
  BY <1>b DEF QueueInv, Defer, RunsInOrder, PassedOver, AfterRun
<1>1. CASE SkipBlocked \/ RefuseStale \/ LockHeld \/ BaseUnavailable \/ EndUnhandled
  <2>1. PICK t : Defer(t)
    BY <1>1 DEF SkipBlocked, RefuseStale, LockHeld, BaseUnavailable, EndUnhandled
  <2> QED
    BY <1>1, <1>a, <1>b, <2>1
    DEF QueueInv, SkipBlocked, RefuseStale, LockHeld, BaseUnavailable, EndUnhandled
<1>2. CASE Choose
  \* The items before the chosen one are deferred, so their tasks block it.
  <2>1. PICK item \in queue :
          IsNext(item) /\ item.base \notin blocked /\ cur' = item
    BY <1>2 DEF Choose
  <2>2. \A other \in queue : other.seq < item.seq => other.task \in blocked
    BY <2>1 DEF IsNext, QueueInv, PassedOver
  <2>3. UNCHANGED <<queue, deferred, blocked, owed, refused>> /\ runner' = "start"
    BY <1>2 DEF Choose
  <2>4. RunsInOrder'
    BY <2>1, <2>2, <2>3 DEF RunsInOrder
  <2> QED
    BY <1>a, <2>3, <2>4 DEF QueueInv, PassedOver, AfterRun
<1>3. CASE Refuse
  BY <1>3 DEF Refuse, OpenWorktree, QueueInv, NoDuplicateItems, NothingVanishes,
              Queued, RunsInOrder, PassedOver, AfterRun
<1>4. CASE AlreadyFinished
  BY <1>4 DEF AlreadyFinished, QueueInv, NoDuplicateItems, NothingVanishes,
              Queued, RunsInOrder, PassedOver, AfterRun
<1>5. CASE Begin
  BY <1>5, <1>a DEF Begin, OpenWorktree, QueueInv, RunsInOrder, PassedOver, AfterRun
<1>6. CASE End
  <2>1. owed' = owed \ {cur.task} /\ refused' = refused
    BY <1>6 DEF End, RunEnds
  <2> QED
    BY <1>6, <2>1 DEF End, QueueInv, NoDuplicateItems, NothingVanishes, Queued,
                      RunsInOrder, PassedOver, AfterRun
<1>7. CASE Remove
  <2>1. queue' = queue \ {cur} /\ runner = "after" /\ runner' = "pick"
    BY <1>7 DEF Remove
  <2>2. NoDuplicateItems'
    BY <2>1 DEF QueueInv, NoDuplicateItems
  <2>3. NothingVanishes'
    <3>1. \A t \in Queued : t = cur.task \/ t \in Queued'
      BY <2>1 DEF Queued
    <3> QED
      BY <1>7, <2>1, <3>1 DEF Remove, QueueInv, NothingVanishes, AfterRun
  <2> QED
    BY <1>7, <2>2, <2>3 DEF Remove, QueueInv, RunsInOrder, PassedOver, AfterRun
<1>8. CASE Finish
  BY <1>8, <1>a DEF Finish, PassOver, QueueInv, RunsInOrder, PassedOver, AfterRun
<1> QED
  BY <1>1, <1>2, <1>3, <1>4, <1>5, <1>6, <1>7, <1>8 DEF RunnerStep

LEMMA StepQueue == TypeInv /\ QueueInv /\ [Next]_vars => QueueInv'
<1> SUFFICES ASSUME TypeInv, QueueInv, [Next]_vars
             PROVE  QueueInv'
  OBVIOUS
<1> USE DEF pass, trees, ledger
\* Steps of others: the queue and the runner stay, no task becomes owed.
<1>1. ASSUME UNCHANGED <<queue, runner, cur, deferred, blocked, refused>>,
             owed' \subseteq owed
      PROVE  QueueInv'
  BY <1>1 DEF QueueInv, NoDuplicateItems, NothingVanishes, Queued, RunsInOrder,
              PassedOver, AfterRun
<1>2. CASE \E c \in Clients : Enqueue(c) \/ GiveUp(c)
  BY <1>1, <1>2 DEF Enqueue, GiveUp
<1>3. CASE \E c \in Clients : WriteItem(c)
  BY <1>3, WriteItemQueue
<1>4. CASE Drain
  BY <1>4 DEF Drain, QueueInv, NoDuplicateItems, NothingVanishes, Queued, RunsInOrder,
              PassedOver, AfterRun
<1>5. CASE RunnerStep
  BY <1>5, RunnerStepQueue
<1>6. CASE Crash
  BY <1>6 DEF Crash, PassOver, QueueInv, NoDuplicateItems, NothingVanishes, Queued,
              RunsInOrder, PassedOver, AfterRun
<1>7. CASE \E t \in Tasks : Kickoff(t) \/ Resume(t) \/ RemoveWorktree(t)
  BY <1>1, <1>7 DEF Kickoff, Resume, RemoveWorktree
<1>8. CASE \E t \in Tasks : DirectEnd(t)
  BY <1>1, <1>8 DEF DirectEnd, RunEnds
<1>9. CASE UNCHANGED vars
  BY <1>1, <1>9 DEF vars
<1> QED
  BY <1>2, <1>3, <1>4, <1>5, <1>6, <1>7, <1>8, <1>9 DEF Next

LEMMA Queue == Spec => [](TypeInv /\ QueueInv)
<1>1. Init => TypeInv /\ QueueInv
  BY InitType, InitQueue
<1>2. TypeInv /\ QueueInv /\ [Next]_vars => (TypeInv /\ QueueInv)'
  BY StepType, StepQueue
<1> QED
  BY <1>1, <1>2, PTL DEF Spec

\* TaskQueue.enqueue: however many commands have seen a task unqueued, it is
\* queued once.
THEOREM QueuedOnce == Spec => []NoDuplicateItems
<1>1. QueueInv => NoDuplicateItems
  BY DEF QueueInv
<1> QED
  BY <1>1, Queue, PTL

\* run._phase_queue: no task is lost, whatever the runner passes over and
\* whenever it dies; only a refused run leaves the queue without a terminal.
THEOREM NothingLost == Spec => []NothingVanishes
<1>1. QueueInv => NothingVanishes
  BY DEF QueueInv
<1> QED
  BY <1>1, Queue, PTL

\* run._phase_queue: no descendant runs past a predecessor that waits before
\* it in the queue.
THEOREM ChainsInOrder == Spec => []RunsInOrder
<1>1. QueueInv => RunsInOrder
  BY DEF QueueInv
<1> QED
  BY <1>1, Queue, PTL

-----------------------------------------------------------------------------
(* The trees of a chain *)

\* What a chained run builds on: a branch on the hub has work of its task; a
\* loop has a worktree; and unless a kickoff slips in, nobody gives the chosen
\* item a worktree without its base after the runner has looked.
HasWorkOf(tree, t) == \E c \in tree.commits : c[1] = t

HubHasWork == \A t \in Tasks : Exists(hub[t]) => HasWorkOf(hub[t], t)
LoopHasTree == \A t \in Tasks : running[t] # "nobody" => Exists(wt[t])
RunHasLock == runner = "run" => running[cur.task] = "queue"
StartBuildsOnBase ==
    runner = "start" /\ cur.base # None /\ Exists(wt[cur.task])
      /\ ~Exists(hub[cur.task]) /\ ~meanwhile
        => HasWorkOf(wt[cur.task], cur.base)

BaseInv == HubHasWork /\ LoopHasTree /\ RunHasLock /\ StartBuildsOnBase /\ BuildsOnBase

LEMMA InitBase == Init => BaseInv
BY DEF Init, BaseInv, HubHasWork, LoopHasTree, RunHasLock, StartBuildsOnBase,
       BuildsOnBase, Exists, Absent

LEMMA WorktreeExists ==
    ASSUME TypeInv, NEW t \in Tasks, NEW base \in Tasks \cup {None}
    PROVE  Exists(Worktree(t, base))
<1>1. CASE Exists(wt[t])
  BY <1>1 DEF Worktree
<1>2. CASE ~Exists(wt[t]) /\ Exists(hub[t])
  BY <1>2 DEF Worktree
<1>3. CASE ~Exists(wt[t]) /\ ~Exists(hub[t]) /\ base # None
  <2>1. Worktree(t, base) = [Main EXCEPT !.commits = hub[base].commits]
    BY <1>3 DEF Worktree
  <2> QED
    BY <2>1 DEF Main, Exists
<1>4. CASE ~Exists(wt[t]) /\ ~Exists(hub[t]) /\ base = None
  <2>1. Worktree(t, base) = Main
    BY <1>4 DEF Worktree
  <2> QED
    BY <2>1 DEF Main, Exists
<1> QED
  BY <1>1, <1>2, <1>3, <1>4

\* What the end of a run does to the trees, whichever run it is.
LEMMA RunEndsTrees ==
    ASSUME TypeInv, BaseInv, NEW t \in Tasks,
           NEW term \in {"success", "failed", "retryable"}, RunEnds(t, term)
    PROVE  /\ HubHasWork' /\ LoopHasTree'
           /\ \A s \in Tasks \ {t} : wt'[s] = wt[s] /\ hub'[s] = hub[s]
                                     /\ running'[s] = running[s]
           /\ wt[t].commits \subseteq wt'[t].commits
<1> DEFINE tree == [commits |-> wt[t].commits \cup {<<t, runs[t] + 1>>}, term |-> term]
<1>1. wt' = [wt EXCEPT ![t] = tree] /\ running' = [running EXCEPT ![t] = "nobody"]
  BY DEF RunEnds
<1>2. hub' = [hub EXCEPT ![t] = tree] \/ hub' = hub
  BY DEF RunEnds
<1>3. HasWorkOf(tree, t) /\ Exists(tree) /\ wt[t].commits \subseteq tree.commits
  <2>1. tree.commits = wt[t].commits \cup {<<t, runs[t] + 1>>} /\ tree.term = term
    OBVIOUS
  <2> HIDE DEF tree
  <2>2. <<t, runs[t] + 1>> \in tree.commits /\ <<t, runs[t] + 1>>[1] = t
    BY <2>1
  <2>3. HasWorkOf(tree, t)
    BY <2>2 DEF HasWorkOf
  <2> QED
    BY <2>1, <2>3 DEF Exists
<1> HIDE DEF tree
<1> USE DEF TypeInv, TypeOK
<1>4. HubHasWork'
  BY <1>2, <1>3 DEF BaseInv, HubHasWork
<1>5. LoopHasTree'
  BY <1>1 DEF BaseInv, LoopHasTree
<1> QED
  BY <1>1, <1>2, <1>3, <1>4, <1>5

LEMMA RunnerStepBase ==
    ASSUME TypeInv, BaseInv, RunnerStep
    PROVE  BaseInv'
<1> USE DEF pass, trees, ledger
<1>t. (runner \in {"start", "run", "after"} =>
         cur.task \in Tasks /\ cur.base \in Tasks \cup {None})
      /\ wt \in [Tasks -> Tree] /\ hub \in [Tasks -> Tree]
      /\ running \in [Tasks -> {"nobody", "queue", "direct"}]
  BY DEF TypeInv, TypeOK, CurQueued, Items, Tree
\* The runner leaves the trees alone and works on no item.
<1>a. ASSUME UNCHANGED <<wt, hub>>, runner' \in {"pick", "idle", "after"},
             \A t \in Tasks : running'[t] \in {running[t], "nobody"}
      PROVE  BaseInv'
  BY <1>a DEF BaseInv, HubHasWork, LoopHasTree, RunHasLock, StartBuildsOnBase, BuildsOnBase
<1>1. CASE SkipBlocked \/ RefuseStale \/ LockHeld \/ BaseUnavailable \/ Remove \/ Finish
  BY <1>1, <1>a, <1>t DEF SkipBlocked, RefuseStale, LockHeld, BaseUnavailable, Remove,
                    Finish, PassOver, Defer
<1>2. CASE EndUnhandled
  BY <1>2, <1>a, <1>t DEF EndUnhandled, Defer
<1>3. CASE Choose
  <2>1. PICK item \in queue : cur' = item /\ ~StaleLink(item)
    BY <1>3 DEF Choose
  <2>2. item.task \in Tasks /\ item.base \in Tasks \cup {None}
    BY DEF TypeInv, TypeOK, Items
  <2>3. item.base # None /\ Exists(wt[item.task])
          => HasWorkOf(wt[item.task], item.base)
    BY <2>1, <2>2 DEF StaleLink, ChainBaseSatisfied, BaseInv, HubHasWork, HasWorkOf
  <2>4. UNCHANGED <<wt, hub, running>> /\ runner' = "start"
    BY <1>3 DEF Choose
  <2> QED
    BY <2>1, <2>3, <2>4 DEF BaseInv, HubHasWork, LoopHasTree, RunHasLock,
                            StartBuildsOnBase, BuildsOnBase
<1>4. CASE Refuse \/ AlreadyFinished \/ Begin
  <2> DEFINE tree == Worktree(cur.task, cur.base)
  <2>1. runner = "start" /\ wt' = [wt EXCEPT ![cur.task] = tree]
        /\ UNCHANGED <<hub, cur, meanwhile>> /\ ~BaseMissing(cur.task, cur.base)
    BY <1>4 DEF Refuse, AlreadyFinished, Begin, OpenWorktree
  <2>2. Exists(tree)
    BY <1>t, <2>1, WorktreeExists
  <2>3. cur.base # None /\ ~Exists(hub[cur.task]) /\ ~meanwhile => HasWorkOf(tree, cur.base)
    <3> SUFFICES ASSUME cur.base # None, ~Exists(hub[cur.task]), ~meanwhile
                 PROVE  HasWorkOf(tree, cur.base)
      OBVIOUS
    <3>1. CASE Exists(wt[cur.task])
      <4>1. tree = wt[cur.task]
        BY <3>1 DEF Worktree
      <4> QED
        BY <2>1, <3>1, <4>1 DEF BaseInv, StartBuildsOnBase
    <3>2. CASE ~Exists(wt[cur.task])
      <4>1. Exists(hub[cur.base])
        BY <2>1, <3>2 DEF BaseMissing
      <4>2. tree = [Main EXCEPT !.commits = hub[cur.base].commits]
        BY <3>2 DEF Worktree
      <4>3. tree.commits = hub[cur.base].commits
        BY <4>2 DEF Main
      <4> QED
        BY <1>t, <2>1, <4>1, <4>3 DEF BaseInv, HubHasWork, HasWorkOf
    <3> QED
      BY <3>1, <3>2
  <2> HIDE DEF tree
  <2>4. \A t \in Tasks : Exists(wt[t]) => Exists(wt'[t])
    BY <1>t, <2>1, <2>2
  <2>5. wt'[cur.task] = tree
    BY <1>t, <2>1
  <2>6. HubHasWork'
    BY <2>1 DEF BaseInv, HubHasWork
  <2>7. CASE Refuse \/ AlreadyFinished
    <3>1. running' = running /\ runner' = "after"
      BY <2>7 DEF Refuse, AlreadyFinished
    <3> QED
      BY <2>4, <2>6, <3>1 DEF BaseInv, LoopHasTree, RunHasLock, StartBuildsOnBase,
                              BuildsOnBase
  <2>8. CASE Begin
    <3>1. running' = [running EXCEPT ![cur.task] = "queue"] /\ runner' = "run"
      BY <2>8 DEF Begin
    <3>2. LoopHasTree'
      BY <1>t, <2>1, <2>2, <2>4, <2>5, <3>1 DEF BaseInv, LoopHasTree
    <3>3. RunHasLock'
      BY <1>t, <2>1, <3>1 DEF RunHasLock
    <3>4. (StartBuildsOnBase /\ BuildsOnBase)'
      BY <2>1, <2>3, <2>5, <3>1 DEF StartBuildsOnBase, BuildsOnBase, HasWorkOf
    <3> QED
      BY <2>6, <3>2, <3>3, <3>4 DEF BaseInv
  <2> QED
    BY <1>4, <2>7, <2>8
<1>5. CASE End
  <2>1. PICK term \in {"success", "failed", "retryable"} : RunEnds(cur.task, term)
    BY <1>5 DEF End
  <2>2. HubHasWork' /\ LoopHasTree' /\ runner' = "after"
    BY <1>5, <1>t, <2>1, RunEndsTrees DEF End
  <2> QED
    BY <2>2 DEF BaseInv, RunHasLock, StartBuildsOnBase, BuildsOnBase
<1> QED
  BY <1>1, <1>2, <1>3, <1>4, <1>5 DEF RunnerStep

\* Whoever gives a task a worktree gives it one that exists.
LEMMA EnqueueBase ==
    ASSUME TypeInv, BaseInv, NEW c \in Clients, Enqueue(c)
    PROVE  BaseInv'
<1>1. UNCHANGED <<queue, runner, cur, running, hub, meanwhile>>
  BY DEF Enqueue, ledger
<1>2. PICK tasks :
        /\ tasks \cap Queued = {}
        /\ \/ wt' = wt
           \/ wt' = [t \in Tasks |-> IF t \in tasks THEN Worktree(t, None) ELSE wt[t]]
  BY Zenon DEF Enqueue
<1>3. \A t \in Tasks : Exists(wt[t]) => Exists(wt'[t])
  BY <1>2, WorktreeExists
<1>4. runner \in {"start", "run"} => cur.task \in Tasks /\ cur.task \notin tasks
  BY <1>2 DEF TypeInv, TypeOK, CurQueued, Queued, Items
<1>5. runner \in {"start", "run"} => wt'[cur.task] = wt[cur.task]
  BY <1>2, <1>4
<1> QED
  BY <1>1, <1>3, <1>5 DEF BaseInv, HubHasWork, LoopHasTree, RunHasLock,
                          StartBuildsOnBase, BuildsOnBase, HasWorkOf

LEMMA DirectorBase ==
    ASSUME TypeInv, BaseInv, NEW t \in Tasks,
           Kickoff(t) \/ Resume(t) \/ RemoveWorktree(t)
    PROVE  BaseInv'
<1> USE DEF TypeInv, TypeOK
<1>1. UNCHANGED <<queue, runner, cur, hub>> /\ running[t] = "nobody"
  BY DEF Kickoff, Resume, RemoveWorktree
<1>2. /\ \A s \in Tasks \ {t} : wt'[s] = wt[s] /\ running'[s] = running[s]
      /\ running'[t] # "nobody" => Exists(wt'[t])
  <2>1. CASE Kickoff(t)
    BY <2>1, WorktreeExists DEF Kickoff
  <2>2. CASE Resume(t)
    BY <2>2 DEF Resume, Exists
  <2>3. CASE RemoveWorktree(t)
    BY <1>1, <2>3 DEF RemoveWorktree
  <2> QED
    BY <2>1, <2>2, <2>3
<1>3. LoopHasTree'
  BY <1>2 DEF BaseInv, LoopHasTree
<1>4. runner \in {"start", "run"} => cur.task \in Tasks
  BY DEF CurQueued, Items
<1>5. runner = "run" => cur.task # t
  BY <1>1 DEF BaseInv, RunHasLock
<1>6. meanwhile \in BOOLEAN /\ (meanwhile => meanwhile')
  BY DEF Kickoff, Resume, RemoveWorktree, ledger
<1>7. RunHasLock' /\ BuildsOnBase'
  BY <1>1, <1>2, <1>4, <1>5, <1>6 DEF BaseInv, RunHasLock, BuildsOnBase
\* A worktree that is removed is cut anew, from a branch on the hub or from
\* the base; one that is synced has a branch on the hub.
<1>8. StartBuildsOnBase'
  <2>1. CASE runner # "start" \/ cur.task # t
    BY <1>1, <1>2, <1>4, <1>6, <2>1 DEF BaseInv, StartBuildsOnBase, HasWorkOf
  <2>2. CASE runner = "start" /\ cur.task = t
    <3>1. CASE Kickoff(t)
      BY <2>2, <3>1 DEF Kickoff, StartBuildsOnBase
    <3>2. CASE Resume(t)
      BY <1>1, <2>2, <3>2 DEF Resume, StartBuildsOnBase
    <3>3. CASE RemoveWorktree(t)
      BY <1>1, <2>2, <3>3 DEF RemoveWorktree, StartBuildsOnBase, Exists, Absent
    <3> QED
      BY <3>1, <3>2, <3>3
  <2> QED
    BY <2>1, <2>2
<1> QED
  BY <1>1, <1>3, <1>7, <1>8 DEF BaseInv, HubHasWork

LEMMA DirectEndBase ==
    ASSUME TypeInv, BaseInv, NEW t \in Tasks, DirectEnd(t)
    PROVE  BaseInv'
<1>t. /\ runner \in {"start", "run"} => cur.task \in Tasks
      /\ UNCHANGED <<queue, runner, cur, meanwhile>> /\ running[t] = "direct"
  BY DEF DirectEnd, RunEnds, ledger, TypeInv, TypeOK, CurQueued, Items
<1>1. CASE \E term \in {"success", "failed", "retryable"} : RunEnds(t, term)
  <2>1. /\ HubHasWork' /\ LoopHasTree'
        /\ \A s \in Tasks \ {t} : wt'[s] = wt[s] /\ hub'[s] = hub[s]
                                  /\ running'[s] = running[s]
        /\ wt[t].commits \subseteq wt'[t].commits
    BY <1>1, RunEndsTrees
  <2>2. Exists(wt[t])
    BY <1>t DEF BaseInv, LoopHasTree
  <2>3. runner = "run" => cur.task # t
    BY <1>t DEF BaseInv, RunHasLock
  <2>4. RunHasLock' /\ BuildsOnBase'
    BY <1>t, <2>1, <2>3 DEF BaseInv, RunHasLock, BuildsOnBase
  <2>5. StartBuildsOnBase'
    <3>1. Exists(hub[t]) => Exists(hub'[t])
      BY <1>1 DEF RunEnds, Exists, TypeInv, TypeOK
    <3> QED
      BY <1>t, <2>1, <2>2, <3>1 DEF BaseInv, StartBuildsOnBase, HasWorkOf
  <2> QED
    BY <2>1, <2>4, <2>5 DEF BaseInv
<1>2. CASE running' = [running EXCEPT ![t] = "nobody"] /\ UNCHANGED trees
  <2>1. \A s \in Tasks : running'[s] \in {running[s], "nobody"}
    BY <1>2 DEF TypeInv, TypeOK
  <2>2. runner = "run" => running'[cur.task] = running[cur.task]
    BY <1>t, <1>2 DEF TypeInv, TypeOK, BaseInv, RunHasLock
  <2> QED
    BY <1>t, <1>2, <2>1, <2>2 DEF trees, BaseInv, HubHasWork, LoopHasTree, RunHasLock,
                                  StartBuildsOnBase, BuildsOnBase, HasWorkOf
<1> QED
  BY <1>1, <1>2 DEF DirectEnd

LEMMA StepBase == TypeInv /\ BaseInv /\ [Next]_vars => BaseInv'
<1> SUFFICES ASSUME TypeInv, BaseInv, [Next]_vars
             PROVE  BaseInv'
  OBVIOUS
<1>1. ASSUME UNCHANGED <<wt, hub, running, runner, cur, meanwhile>>
      PROVE  BaseInv'
  BY <1>1 DEF BaseInv, HubHasWork, LoopHasTree, RunHasLock, StartBuildsOnBase,
              BuildsOnBase, HasWorkOf
<1>2. CASE \E c \in Clients : WriteItem(c) \/ GiveUp(c)
  BY <1>1, <1>2 DEF WriteItem, GiveUp, trees, ledger
<1>3. CASE Drain \/ Crash
  <2>1. UNCHANGED <<wt, hub>> /\ runner' \in {"pick", "idle"}
        /\ \A t \in Tasks : running'[t] \in {running[t], "nobody"}
    BY <1>3 DEF Drain, Crash, PassOver, trees, TypeInv, TypeOK
  <2> QED
    BY <2>1 DEF BaseInv, HubHasWork, LoopHasTree, RunHasLock, StartBuildsOnBase,
                BuildsOnBase
<1>4. CASE UNCHANGED vars
  BY <1>1, <1>4 DEF vars
<1> QED
  BY <1>2, <1>3, <1>4, EnqueueBase, RunnerStepBase, DirectorBase, DirectEndBase DEF Next

\* gitops.task_worktree, run._phase_queue: whatever was removed, synced or run
\* beside the queue, a chained item builds on work of its predecessor.
THEOREM ChainsBuildOnBase == Spec => []BuildsOnBase
<1>1. Init => TypeInv /\ BaseInv
  BY InitType, InitBase
<1>2. TypeInv /\ BaseInv /\ [Next]_vars => (TypeInv /\ BaseInv)'
  BY StepType, StepBase
<1>3. TypeInv /\ BaseInv => BuildsOnBase
  BY DEF BaseInv
<1> QED
  BY <1>1, <1>2, <1>3, PTL DEF Spec
==============================================================================
