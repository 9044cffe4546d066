----------------------------- MODULE DevLoopProofs -----------------------------
(***************************************************************************)
(* Theorems about the convergence loop, for every round cap, grant, set of *)
(* fingerprints and risks, and every number of external events.            *)
(***************************************************************************)
EXTENDS DevLoop, FiniteSetTheorems, WellFoundedInduction, TLAPS

-----------------------------------------------------------------------------
(* Entries and trees *)

LEMMA PlainType ==
    ASSUME NEW a \in Actions, NEW o \in Outcomes
    PROVE  /\ Plain(a, o) \in Entry
           /\ Plain(a, o).sha = NoSha
BY DEF Plain, Entry, Shas, NoSha, NoFp

LEMMA VerdictType ==
    ASSUME NEW a \in Actions, NEW o \in Outcomes, NEW fp \in Fps \cup {NoFp},
           wt \in Tree, head \in Tree
    PROVE  /\ Verdict(a, o, fp) \in Entry
           /\ Verdict(a, o, fp).sha = head.code
           /\ Verdict(a, o, fp).seen = wt.code
BY DEF Verdict, Plain, Entry, Shas, NoSha, NoFp, Tree

LEMMA LoggedType ==
    ASSUME NEW tree \in Tree, NEW e \in Entry
    PROVE  /\ Logged(tree, e) \in Tree
           /\ Logged(tree, e).log = Append(tree.log, e)
           /\ Logged(tree, e).code = tree.code
BY DEF Logged, Tree

LEMMA BaseTreeType == BaseTree \in Tree
BY DEF BaseTree, Tree, NoRisk, NoDecision

LEMMA DecisionType == Decision \in MergeDecisions
BY DEF Decision, MergeDecisions

LEMMA StateTypes ==
    /\ \A d \in MergeDecisions : MergeDecided(d) \in TerminalStates
    /\ {"PUSHED", "CAP_REACHED", "ESCALATED_DEADLOCK", "QUOTA_TIMEOUT",
        "INTERNAL_ERROR"} \subseteq TerminalStates
    /\ TerminalStates \subseteq Outcomes
BY DEF MergeDecided, TerminalStates, SuccessStates, MergeDecidedStates,
       RetryableStates, FailureStates, Outcomes

LEMMA ActionNames ==
    {"developer", "fast_tests", "rw1", "rw2", "authoritative", "senior", "push",
     "explorer", "terminal", "director_resume"} \subseteq Actions
BY DEF Actions, PhaseActions

LEMMA OutcomeNames ==
    {"ok", "error", "pass", "fail", "approved", "changes_requested",
     "malformed", "go", "nogo", "deadlock"} \subseteq Outcomes
BY DEF Outcomes

LEMMA EpisodeType ==
    ASSUME NEW log \in Seq(Entry)
    PROVE  Episode(log) \in Nat
<1>1. IsFiniteSet(1 .. Len(log))
  BY FS_Interval
<1>2. Where(log, {"director_resume"}) \in SUBSET (1 .. Len(log))
  BY DEF Where
<1>3. IsFiniteSet(Where(log, {"director_resume"}))
  BY <1>1, <1>2, FS_Subset
<1>4. QED
  BY <1>3, FS_CardinalityType DEF Episode

-----------------------------------------------------------------------------
(* Type correctness: a notification and a marker take their state from     *)
(* fin, so the types need to know that the tail always has one.            *)

TailPcs == {"fin_commit", "fin_push", "fin_notify", "fin_pushok", "fin_marker",
            "fin_mcommit", "fin_mpush"}

TailHasState == pc \in TailPcs => fin \in TerminalStates

LEMMA InitType == Init => TypeOK
<1> SUFFICES ASSUME Init PROVE TypeOK
  OBVIOUS
<1>1. NoJob \in Entry
  BY PlainType, ActionNames, OutcomeNames DEF NoJob
<1> QED
  BY <1>1, BaseTreeType, DevLoopAssumption DEF Init, TypeOK, Pcs

LEMMA AgentType ==
    ASSUME TypeOK, NEW code \in 0 .. MaxCode, AgentLeaves(code)
    PROVE  /\ nextCode' \in Nat
           /\ code \in Nat
           /\ [wt EXCEPT !.code = code] \in Tree
           /\ [wt EXCEPT !.code = code].log = wt.log
           /\ [wt EXCEPT !.code = code].code = code
<1>1. code \in Nat /\ nextCode' \in Nat
  BY DevLoopAssumption DEF TypeOK, AgentLeaves
<1>2. wt \in Tree
  BY DEF TypeOK
<1> QED
  BY <1>1, <1>2 DEF Tree

\* A phase that left a well-formed tree and entry leaves the types intact.
LEMMA RanPhaseType ==
    ASSUME TypeOK, NEW tree \in Tree, NEW e \in Entry, RanPhase(tree, e),
           nextCode' \in Nat
    PROVE  TypeOK'
BY DEF TypeOK, RanPhase, people, status, Pcs, RunPcs, CaughtPcs

LEMMA PhaseTypes ==
    ASSUME TypeOK,
           \/ RunExplorer \/ RunDeveloper \/ RunFastTests \/ RunRw1 \/ RunRw2
           \/ RunAuthoritative \/ RunSenior
    PROVE  TypeOK'
<1> USE ActionNames, OutcomeNames
<1>0. wt \in Tree /\ head \in Tree /\ head.code \in Nat /\ wt.code \in Nat
      /\ NoFp \in Fps \cup {NoFp} /\ nextCode \in Nat
  BY DEF TypeOK, Tree
<1>1. CASE RunExplorer
  <2>1. PICK outcome \in {"ok", "error"}, code \in 0 .. MaxCode :
           /\ AgentLeaves(code)
           /\ RanPhase([wt EXCEPT !.code = code], Plain("explorer", outcome))
    BY <1>1 DEF RunExplorer
  <2> QED BY <2>1, AgentType, PlainType, RanPhaseType
<1>2. CASE RunDeveloper
  <2>1. PICK outcome \in {"ok", "error"}, code \in 0 .. MaxCode :
           /\ AgentLeaves(code)
           /\ RanPhase([wt EXCEPT !.code = code], Plain("developer", outcome))
    BY <1>2 DEF RunDeveloper
  <2> QED BY <2>1, AgentType, PlainType, RanPhaseType
<1>3. CASE RunFastTests
  <2>1. [Plain("fast_tests", "pass") EXCEPT !.seen = wt.code] \in Entry
    BY <1>0 DEF Plain, Entry, Shas, NoSha, NoFp
  <2>2. \A fp \in Fps :
           [Plain("fast_tests", "fail") EXCEPT !.seen = wt.code, !.fp = fp] \in Entry
    BY <1>0 DEF Plain, Entry, Shas, NoSha, NoFp
  <2> QED BY <1>3, <1>0, <2>1, <2>2, RanPhaseType DEF RunFastTests
<1>4. CASE RunRw1
  <2>1. PICK code \in 0 .. MaxCode :
           /\ AgentLeaves(code)
           /\ \/ RanPhase([wt EXCEPT !.code = code], Plain("rw1", "malformed"))
              \/ \E risk \in Risks, outcome \in {"approved", "changes_requested"} :
                    RanPhase([wt EXCEPT !.code = code, !.rw1risk = risk],
                             Verdict("rw1", outcome, NoFp))
    BY <1>4 DEF RunRw1
  <2>2. \A risk \in Risks : [wt EXCEPT !.code = code, !.rw1risk = risk] \in Tree
    BY <1>0, <2>1, AgentType DEF Tree
  <2> QED BY <1>0, <2>1, <2>2, AgentType, PlainType, VerdictType, RanPhaseType
<1>5. CASE RunRw2
  <2>1. PICK code \in 0 .. MaxCode :
           /\ AgentLeaves(code)
           /\ \/ RanPhase([wt EXCEPT !.code = code], Plain("rw2", "malformed"))
              \/ \E risk \in Risks :
                    RanPhase([wt EXCEPT !.code = code, !.rw2risk = risk, !.rw2blocks = FALSE],
                             Verdict("rw2", "go", NoFp))
              \/ \E risk \in Risks, fp \in Fps :
                    RanPhase([wt EXCEPT !.code = code, !.rw2risk = risk, !.rw2blocks = TRUE],
                             Verdict("rw2", "nogo", fp))
    BY <1>5 DEF RunRw2
  <2>2. \A risk \in Risks, b \in BOOLEAN :
           [wt EXCEPT !.code = code, !.rw2risk = risk, !.rw2blocks = b] \in Tree
    BY <1>0, <2>1, AgentType DEF Tree
  <2> QED BY <1>0, <2>1, <2>2, AgentType, PlainType, VerdictType, RanPhaseType
<1>6. CASE RunAuthoritative
  <2> DEFINE result(outcome) == [Plain("authoritative", outcome) EXCEPT
                                    !.sha = head.code, !.seen = head.code]
  <2>1. \A b \in BOOLEAN : [result("pass") EXCEPT !.flaky = b] \in Entry
    BY <1>0 DEF Plain, Entry, Shas, NoSha, NoFp
  <2>2. \A fp \in Fps : [result("fail") EXCEPT !.fp = fp] \in Entry
    BY <1>0 DEF Plain, Entry, Shas, NoSha, NoFp
  <2>3. nextCode' \in Nat
    BY <1>0, <1>6 DEF RunAuthoritative
  <2>4. PICK e \in Entry : RanPhase(wt, e)
    BY <1>6, <2>1, <2>2 DEF RunAuthoritative
  <2> QED BY <1>0, <2>3, <2>4, RanPhaseType
<1>7. CASE RunSenior
  <2>1. PICK code \in 0 .. MaxCode :
           /\ AgentLeaves(code)
           /\ \/ RanPhase([wt EXCEPT !.code = code], Plain("senior", "deadlock"))
              \/ \E outcome \in {"approved", "changes_requested"} :
                    RanPhase([wt EXCEPT !.code = code], Verdict("senior", outcome, NoFp))
    BY <1>7 DEF RunSenior
  <2> QED BY <1>0, <2>1, AgentType, PlainType, VerdictType, RanPhaseType
<1> QED BY <1>1, <1>2, <1>3, <1>4, <1>5, <1>6, <1>7

LEMMA TailTypes ==
    ASSUME TypeOK, TailHasState,
           \/ AppendEntry \/ CommitEntry \/ DecideMerge \/ CapReached
           \/ Deadlocked \/ Done \/ FinalCommit \/ FinalPush \/ FinalNotify
           \/ RecordPushOk \/ RecordMarker \/ MarkerCommit \/ MarkerPush
    PROVE  TypeOK'
<1> USE DEF TypeOK, Pcs, RunPcs, CaughtPcs, AdoptPcs, trees, people, process, status
<1>0. NoJob \in Entry
  BY PlainType, ActionNames, OutcomeNames DEF NoJob
<1>1. CASE AppendEntry
  BY <1>1, <1>0, LoggedType DEF AppendEntry
<1>2. CASE CommitEntry
  BY <1>2 DEF CommitEntry, LoopEntry
<1>3. CASE DecideMerge
  <2>1. [wt EXCEPT !.merge = Decision] \in Tree
    BY DecisionType DEF Tree
  <2> QED BY <1>3, <2>1, DecisionType, StateTypes DEF DecideMerge, Finalize
<1>4. CASE CapReached
  BY <1>4, StateTypes DEF CapReached, Finalize
<1>5. CASE Deadlocked
  BY <1>5, StateTypes DEF Deadlocked, Finalize
<1>6. CASE Done
  <2>1. wt.merge \in MergeDecisions \cup {NoDecision}
    BY DEF Tree
  <2> QED BY <1>6, <2>1, StateTypes DEF Done
<1>7. CASE FinalCommit
  BY <1>7 DEF FinalCommit
<1>8. CASE FinalPush
  BY <1>8 DEF FinalPush
<1>9. CASE FinalNotify
  <2>1. fin \in TerminalStates
    BY <1>9 DEF FinalNotify, TailHasState, TailPcs
  <2>2. Episode(wt.log) \in Nat
    BY EpisodeType DEF Tree
  <2> QED BY <1>9, <2>1, <2>2 DEF FinalNotify, Notify
<1>10. CASE RecordPushOk
  BY <1>10, LoggedType, PlainType, ActionNames, OutcomeNames DEF RecordPushOk
<1>11. CASE RecordMarker
  <2>1. fin \in Outcomes
    BY <1>11, StateTypes DEF RecordMarker, TailHasState, TailPcs
  <2> QED BY <1>11, <2>1, LoggedType, PlainType, ActionNames DEF RecordMarker
<1>12. CASE MarkerCommit
  BY <1>12, <1>0 DEF MarkerCommit, Exit
<1>13. CASE MarkerPush
  BY <1>13, <1>0 DEF MarkerPush, Exit
<1> QED
  BY <1>1, <1>2, <1>3, <1>4, <1>5, <1>6, <1>7, <1>8, <1>9, <1>10, <1>11, <1>12, <1>13

LEMMA EventTypes ==
    ASSUME TypeOK,
           \/ Interruption \/ PushRefused \/ ErrorAppend \/ ErrorCommit \/ ErrorNotify
           \/ Kickoff \/ KickoffCodeReady \/ ResumeSync \/ ResumeStep
           \/ DirectorPush \/ Rebuild
    PROVE  TypeOK'
<1> USE DEF TypeOK, Pcs, RunPcs, CaughtPcs, AdoptPcs, ErrorPcs, trees, people,
            process, status
<1>0. NoJob \in Entry /\ Plain("developer", "ok") \in Entry
  BY PlainType, ActionNames, OutcomeNames DEF NoJob
<1>1. \A event \in ExternalEvents : Spend(event) => left' \in [ExternalEvents -> Nat]
  BY DEF Spend
<1>2. CASE QuotaTimeout
  <2>1. PICK code \in 0 .. MaxCode :
           AgentLeaves(code) /\ wt' = [wt EXCEPT !.code = code]
    BY <1>2 DEF QuotaTimeout
  <2>2. wt' \in Tree /\ nextCode' \in Nat
    BY <2>1, AgentType
  <2>3. left' \in [ExternalEvents -> Nat]
    BY <1>1, <1>2 DEF QuotaTimeout, ExternalEvents
  <2> QED BY <1>2, <2>2, <2>3, StateTypes DEF QuotaTimeout, Finalize
<1>3. CASE StepFails
  <2>1. left' \in [ExternalEvents -> Nat]
    BY <1>1, <1>3 DEF StepFails, ExternalEvents
  <2> QED BY <1>0, <1>3, <2>1 DEF StepFails, Raise, Exit
<1>4. CASE Kill
  <2>1. left' \in [ExternalEvents -> Nat]
    BY <1>1, <1>4 DEF Kill, ExternalEvents
  <2> QED BY <1>0, <1>4, <2>1 DEF Kill, Exit
<1>5. CASE ResumeKilled
  <2>1. left' \in [ExternalEvents -> Nat]
    BY <1>1, <1>5 DEF ResumeKilled, ExternalEvents
  <2> QED BY <1>5, <2>1 DEF ResumeKilled
<1>6. CASE PushRefused
  BY <1>0, <1>6 DEF PushRefused, Raise, Exit
<1>7. CASE ErrorAppend
  <2>1. left' \in [ExternalEvents -> Nat]
    BY <1>1, <1>7 DEF ErrorAppend, ExternalEvents
  <2>2. Plain("terminal", "INTERNAL_ERROR") \in Entry
    BY PlainType, ActionNames, StateTypes
  <2>3. wt' \in {wt, Logged(wt, Plain("terminal", "INTERNAL_ERROR"))}
    BY <1>7 DEF ErrorAppend
  <2>4. wt' \in Tree
    BY <2>2, <2>3, LoggedType
  <2> QED BY <1>7, <2>1, <2>4 DEF ErrorAppend
<1>8. CASE ErrorCommit
  <2>1. left' \in [ExternalEvents -> Nat]
    BY <1>1, <1>8 DEF ErrorCommit, ExternalEvents
  <2> QED BY <1>8, <2>1 DEF ErrorCommit
<1>9. CASE ErrorNotify
  <2>1. Episode(wt.log) \in Nat
    BY EpisodeType DEF Tree
  <2> QED BY <1>0, <1>9, <2>1, StateTypes DEF ErrorNotify, Notify, Exit
<1>10. CASE Kickoff
  BY <1>10 DEF Kickoff, LoopEntry
<1>11. CASE KickoffCodeReady
  BY <1>0, <1>11 DEF KickoffCodeReady
<1>12. CASE ResumeSync
  <2>1. left' \in [ExternalEvents -> Nat]
    BY <1>1, <1>12 DEF ResumeSync, ExternalEvents
  <2> QED BY <1>12, <2>1 DEF ResumeSync
<1>13. CASE ResumeStep
  BY <1>13, LoggedType, PlainType, ActionNames, OutcomeNames
     DEF ResumeStep, ResumeAppend, ResumeCommit
<1>14. CASE DirectorPush
  <2>1. left' \in [ExternalEvents -> Nat]
    BY <1>1, <1>14 DEF DirectorPush, ExternalEvents
  <2>2. [hub EXCEPT !.code = nextCode] \in Tree
    BY DEF Tree
  <2> QED BY <1>14, <2>1, <2>2 DEF DirectorPush
<1>15. CASE Rebuild
  <2>1. left' \in [ExternalEvents -> Nat]
    BY <1>1, <1>15 DEF Rebuild, ExternalEvents
  <2> QED BY <1>15, <2>1 DEF Rebuild
<1> QED
  BY <1>2, <1>3, <1>4, <1>5, <1>6, <1>7, <1>8, <1>9, <1>10, <1>11, <1>12, <1>13,
     <1>14, <1>15 DEF Interruption

LEMMA TailStateStep ==
    ASSUME TypeOK, TailHasState, Next
    PROVE  TailHasState'
<1> USE StateTypes DEF TailHasState, TailPcs, process
<1>1. CASE RunExplorer \/ RunDeveloper \/ RunFastTests \/ RunRw1 \/ RunRw2
           \/ RunAuthoritative \/ RunSenior
  BY <1>1 DEF RunExplorer, RunDeveloper, RunFastTests, RunRw1, RunRw2,
              RunAuthoritative, RunSenior, RanPhase
<1>2. CASE AppendEntry \/ CommitEntry
  BY <1>2 DEF AppendEntry, CommitEntry, LoopEntry
<1>3. CASE DecideMerge \/ CapReached \/ Deadlocked \/ QuotaTimeout
  BY <1>3, DecisionType DEF DecideMerge, CapReached, Deadlocked, QuotaTimeout, Finalize
<1>4. CASE Done
  <2>1. wt.merge \in MergeDecisions \cup {NoDecision}
    BY DEF TypeOK, Tree
  <2> QED BY <1>4, <2>1 DEF Done
<1>5. CASE FinalCommit \/ FinalPush \/ FinalNotify \/ RecordPushOk
           \/ RecordMarker \/ MarkerCommit \/ MarkerPush
  BY <1>5 DEF FinalCommit, FinalPush, FinalNotify, RecordPushOk,
              RecordMarker, MarkerCommit, MarkerPush, Exit
<1>6. CASE PushRefused \/ StepFails \/ Kill \/ ErrorAppend \/ ErrorCommit \/ ErrorNotify
  BY <1>6 DEF PushRefused, StepFails, Kill, Raise, Exit, ErrorAppend, ErrorCommit,
              ErrorNotify
<1>7. CASE Kickoff \/ KickoffCodeReady
  BY <1>7 DEF Kickoff, KickoffCodeReady, LoopEntry
<1>8. CASE ResumeKilled \/ ResumeStep \/ ResumeSync \/ DirectorPush \/ Rebuild
  BY <1>8 DEF ResumeKilled, ResumeStep, ResumeAppend, ResumeCommit, ResumeSync,
              DirectorPush, Rebuild
<1> QED
  BY <1>1, <1>2, <1>3, <1>4, <1>5, <1>6, <1>7, <1>8
     DEF Next, LoopStep, Interruption

LEMMA TypeStep ==
    ASSUME TypeOK, TailHasState, [Next]_vars
    PROVE  TypeOK' /\ TailHasState'
<1>1. CASE Next
  BY <1>1, PhaseTypes, TailTypes, EventTypes, TailStateStep
     DEF Next, LoopStep
<1>2. CASE UNCHANGED vars
  BY <1>2 DEF vars, TypeOK, TailHasState
<1> QED
  BY <1>1, <1>2

\* Every reachable state has the declared types: the terminal states the
\* tail announces and records are known ones (terminals.TERMINALS), and the
\* log never holds an entry the replay functions do not understand.
THEOREM TypeCorrect == Spec => []TypeOK
<1>1. Init => TailHasState
  BY DEF Init, TailHasState, TailPcs
<1> QED
  BY <1>1, InitType, TypeStep, PTL DEF Spec

-----------------------------------------------------------------------------
(* Verdicts bind the code they were given on.                              *)
(*                                                                         *)
(* ApprovalsBindCode is not inductive: a fresh version must not already be *)
(* named by an entry, and the entry in flight between the agent's run and  *)
(* the append must be bound too, against edits the agent made meanwhile.   *)

ShasBelow(tree, n) ==
    tree.code < n /\ \A i \in DOMAIN tree.log : tree.log[i].sha < n

BindInv ==
    /\ ApprovalsBindCode
    /\ ShasBelow(wt, nextCode) /\ ShasBelow(head, nextCode) /\ ShasBelow(hub, nextCode)
    /\ job.sha < nextCode
    /\ job.sha = wt.code => job.seen = wt.code
    /\ pc # "append" => job.sha = NoSha

LEMMA LogElements ==
    ASSUME NEW tree \in Tree
    PROVE  /\ tree.log \in Seq(Entry)
           /\ tree.code \in Nat
           /\ \A i \in DOMAIN tree.log : tree.log[i].sha \in Int
<1>1. tree.log \in Seq(Entry) /\ tree.code \in Nat
  BY DEF Tree
<1>2. \A i \in DOMAIN tree.log : tree.log[i] \in Entry
  BY <1>1
<1>3. \A e \in Entry : e.sha \in Int
  BY DEF Entry, Shas, NoSha
<1> QED
  BY <1>1, <1>2, <1>3

\* Logging an entry that is bound keeps a tree bound.
LEMMA AppendBound ==
    ASSUME NEW tree \in Tree, NEW e \in Entry, NEW n \in Nat,
           BoundTo(tree), ShasBelow(tree, n),
           e.sha < n, e.sha = tree.code => e.seen = tree.code
    PROVE  BoundTo(Logged(tree, e)) /\ ShasBelow(Logged(tree, e), n)
<1>1. tree.log \in Seq(Entry)
  BY DEF Tree
<1>2. /\ DOMAIN Append(tree.log, e) = 1 .. Len(tree.log) + 1
      /\ \A i \in 1 .. Len(tree.log) + 1 :
            Append(tree.log, e)[i] = IF i = Len(tree.log) + 1 THEN e ELSE tree.log[i]
  BY <1>1
<1>3. DOMAIN tree.log = 1 .. Len(tree.log)
  BY <1>1
<1>4. /\ Logged(tree, e).log = Append(tree.log, e)
      /\ Logged(tree, e).code = tree.code
  BY LoggedType
<1>5. ASSUME NEW i \in DOMAIN Logged(tree, e).log
      PROVE  /\ Logged(tree, e).log[i].sha < n
             /\ Logged(tree, e).log[i].sha = tree.code
                   => Logged(tree, e).log[i].seen = tree.code
  <2>1. CASE i = Len(tree.log) + 1
    BY <1>2, <1>4, <1>5, <2>1
  <2>2. CASE i \in DOMAIN tree.log
    <3>1. Logged(tree, e).log[i] = tree.log[i]
      BY <1>1, <1>2, <1>3, <1>4, <2>2
    <3> QED BY <2>2, <3>1 DEF BoundTo, ShasBelow
  <2> QED BY <1>1, <1>2, <1>3, <1>4, <1>5, <2>1, <2>2
<1> QED
  BY <1>4, <1>5 DEF BoundTo, ShasBelow

\* So does leaving its code alone or moving it to a fresh version.
LEMMA EditBound ==
    ASSUME NEW tree \in Tree, NEW edited \in Tree, NEW n \in Nat, NEW m \in Nat,
           BoundTo(tree), ShasBelow(tree, n), edited.log = tree.log,
           \/ edited.code = tree.code /\ m = n
           \/ edited.code = n /\ m = n + 1
    PROVE  BoundTo(edited) /\ ShasBelow(edited, m)
BY LogElements DEF BoundTo, ShasBelow

LEMMA ShasStayBelow ==
    ASSUME NEW tree \in Tree, NEW n \in Nat, ShasBelow(tree, n)
    PROVE  ShasBelow(tree, n + 1)
BY LogElements DEF ShasBelow

\* A verdict keyed to the committed code by an agent that had the working
\* tree in front of it: either the two are the same code, or the sha will
\* never be the code again.
LEMMA RanPhaseBound ==
    ASSUME TypeOK, BindInv, NEW tree \in Tree, NEW e \in Entry,
           RanPhase(tree, e), AgentLeaves(tree.code), tree.log = wt.log,
           \/ e.sha = NoSha
           \/ e.sha = head.code /\ e.seen \in {wt.code, head.code}
    PROVE  BindInv'
<1>1. /\ wt \in Tree /\ head \in Tree /\ hub \in Tree /\ nextCode \in Nat
      /\ wt.code \in Nat /\ head.code \in Nat /\ tree.code \in Nat
      /\ wt.code < nextCode /\ head.code < nextCode
  BY DEF TypeOK, Tree, BindInv, ShasBelow
<1>2. /\ wt' = tree /\ job' = e /\ head' = head /\ hub' = hub /\ pc' = "append"
  BY DEF RanPhase
<1>3. \/ tree.code = wt.code /\ nextCode' = nextCode
      \/ tree.code = nextCode /\ nextCode' = nextCode + 1
  BY DEF AgentLeaves
<1>4. BoundTo(tree) /\ ShasBelow(tree, nextCode')
  BY <1>1, <1>3, EditBound DEF BindInv, ApprovalsBindCode
<1>5. ShasBelow(head, nextCode') /\ ShasBelow(hub, nextCode')
  BY <1>1, <1>3, ShasStayBelow DEF BindInv
<1>6. e.sha < nextCode' /\ (e.sha = tree.code => e.seen = tree.code)
  BY <1>1, <1>3 DEF NoSha
<1> QED
  BY <1>2, <1>4, <1>5, <1>6 DEF BindInv, ApprovalsBindCode, BoundTo, ShasBelow

LEMMA PhasesBound ==
    ASSUME TypeOK, BindInv,
           \/ RunExplorer \/ RunDeveloper \/ RunFastTests \/ RunRw1 \/ RunRw2
           \/ RunAuthoritative \/ RunSenior
    PROVE  BindInv'
<1> DEFINE Bound(tree, e) ==
              /\ RanPhase(tree, e) /\ AgentLeaves(tree.code)
              /\ tree \in Tree /\ e \in Entry /\ tree.log = wt.log
              /\ \/ e.sha = NoSha
                 \/ e.sha = head.code /\ e.seen \in {wt.code, head.code}
<1> SUFFICES \E tree, e : Bound(tree, e)
  BY RanPhaseBound
<1> USE ActionNames, OutcomeNames
<1>0. /\ wt \in Tree /\ head \in Tree /\ head.code \in Nat /\ wt.code \in Nat
      /\ NoFp \in Fps \cup {NoFp}
  BY DEF TypeOK, Tree
<1>1. CASE RunExplorer
  <2>1. PICK outcome \in {"ok", "error"}, code \in 0 .. MaxCode :
           /\ AgentLeaves(code)
           /\ RanPhase([wt EXCEPT !.code = code], Plain("explorer", outcome))
    BY <1>1 DEF RunExplorer
  <2>2. Bound([wt EXCEPT !.code = code], Plain("explorer", outcome))
    BY <2>1, AgentType, PlainType
  <2> QED BY <2>2
<1>2. CASE RunDeveloper
  <2>1. PICK outcome \in {"ok", "error"}, code \in 0 .. MaxCode :
           /\ AgentLeaves(code)
           /\ RanPhase([wt EXCEPT !.code = code], Plain("developer", outcome))
    BY <1>2 DEF RunDeveloper
  <2>2. Bound([wt EXCEPT !.code = code], Plain("developer", outcome))
    BY <2>1, AgentType, PlainType
  <2> QED BY <2>2
<1>3. CASE RunFastTests
  <2> DEFINE passed == [Plain("fast_tests", "pass") EXCEPT !.seen = wt.code]
             failed(fp) == [Plain("fast_tests", "fail") EXCEPT !.seen = wt.code, !.fp = fp]
  <2>1. passed \in Entry /\ passed.sha = NoSha
    BY <1>0 DEF Plain, Entry, Shas, NoSha, NoFp
  <2>2. \A fp \in Fps : failed(fp) \in Entry /\ failed(fp).sha = NoSha
    BY <1>0 DEF Plain, Entry, Shas, NoSha, NoFp
  <2>3. AgentLeaves(wt.code)
    BY <1>3 DEF RunFastTests, AgentLeaves
  <2>4. RanPhase(wt, passed) \/ \E fp \in Fps : RanPhase(wt, failed(fp))
    BY <1>3 DEF RunFastTests
  <2>5. Bound(wt, passed) \/ \E fp \in Fps : Bound(wt, failed(fp))
    BY <1>0, <2>1, <2>2, <2>3, <2>4
  <2> QED BY <2>5
<1>4. CASE RunRw1
  <2>1. PICK code \in 0 .. MaxCode :
           /\ AgentLeaves(code)
           /\ \/ RanPhase([wt EXCEPT !.code = code], Plain("rw1", "malformed"))
              \/ \E risk \in Risks, outcome \in {"approved", "changes_requested"} :
                    RanPhase([wt EXCEPT !.code = code, !.rw1risk = risk],
                             Verdict("rw1", outcome, NoFp))
    BY <1>4 DEF RunRw1
  <2>2. CASE RanPhase([wt EXCEPT !.code = code], Plain("rw1", "malformed"))
    <3>1. Bound([wt EXCEPT !.code = code], Plain("rw1", "malformed"))
      BY <2>1, <2>2, AgentType, PlainType
    <3> QED BY <3>1
  <2>3. ASSUME NEW risk \in Risks, NEW outcome \in {"approved", "changes_requested"},
               RanPhase([wt EXCEPT !.code = code, !.rw1risk = risk],
                        Verdict("rw1", outcome, NoFp))
        PROVE  \E tree, e : Bound(tree, e)
    <3> DEFINE tree == [wt EXCEPT !.code = code, !.rw1risk = risk]
    <3>0. code \in Nat
      BY <2>1, AgentType
    <3>1. tree \in Tree /\ tree.log = wt.log /\ tree.code = code
      BY <1>0, <3>0 DEF Tree
    <3>2. RanPhase(tree, Verdict("rw1", outcome, NoFp))
      BY <2>3
    <3> HIDE DEF tree
    <3>3. AgentLeaves(tree.code)
      BY <2>1, <3>1 DEF AgentLeaves
    <3>4. /\ Verdict("rw1", outcome, NoFp) \in Entry
          /\ Verdict("rw1", outcome, NoFp).sha = head.code
          /\ Verdict("rw1", outcome, NoFp).seen = wt.code
      BY <1>0, VerdictType
    <3>5. Bound(tree, Verdict("rw1", outcome, NoFp))
      BY <3>1, <3>2, <3>3, <3>4
    <3> QED BY <3>5
  <2> QED BY <2>1, <2>2, <2>3
<1>5. CASE RunRw2
  <2>1. PICK code \in 0 .. MaxCode :
           /\ AgentLeaves(code)
           /\ \/ RanPhase([wt EXCEPT !.code = code], Plain("rw2", "malformed"))
              \/ \E risk \in Risks :
                    RanPhase([wt EXCEPT !.code = code, !.rw2risk = risk, !.rw2blocks = FALSE],
                             Verdict("rw2", "go", NoFp))
              \/ \E risk \in Risks, fp \in Fps :
                    RanPhase([wt EXCEPT !.code = code, !.rw2risk = risk, !.rw2blocks = TRUE],
                             Verdict("rw2", "nogo", fp))
    BY <1>5 DEF RunRw2
  <2>2. CASE RanPhase([wt EXCEPT !.code = code], Plain("rw2", "malformed"))
    <3>1. Bound([wt EXCEPT !.code = code], Plain("rw2", "malformed"))
      BY <2>1, <2>2, AgentType, PlainType
    <3> QED BY <3>1
  <2>3. ASSUME NEW risk \in Risks, NEW b \in BOOLEAN, NEW outcome \in {"go", "nogo"},
               NEW fp \in Fps \cup {NoFp},
               RanPhase([wt EXCEPT !.code = code, !.rw2risk = risk, !.rw2blocks = b],
                        Verdict("rw2", outcome, fp))
        PROVE  \E tree, e : Bound(tree, e)
    <3> DEFINE tree == [wt EXCEPT !.code = code, !.rw2risk = risk, !.rw2blocks = b]
    <3>0. code \in Nat
      BY <2>1, AgentType
    <3>1. tree \in Tree /\ tree.log = wt.log /\ tree.code = code
      BY <1>0, <3>0 DEF Tree
    <3>2. RanPhase(tree, Verdict("rw2", outcome, fp))
      BY <2>3
    <3> HIDE DEF tree
    <3>3. AgentLeaves(tree.code)
      BY <2>1, <3>1 DEF AgentLeaves
    <3>4. /\ Verdict("rw2", outcome, fp) \in Entry
          /\ Verdict("rw2", outcome, fp).sha = head.code
          /\ Verdict("rw2", outcome, fp).seen = wt.code
      BY <1>0, VerdictType
    <3>5. Bound(tree, Verdict("rw2", outcome, fp))
      BY <3>1, <3>2, <3>3, <3>4
    <3> QED BY <3>5
  <2> QED BY <1>0, <2>1, <2>2, <2>3
<1>6. CASE RunAuthoritative
  <2> DEFINE result(outcome) == [Plain("authoritative", outcome) EXCEPT
                                    !.sha = head.code, !.seen = head.code]
             passed(b) == [result("pass") EXCEPT !.flaky = b]
             failed(fp) == [result("fail") EXCEPT !.fp = fp]
             ofHead(e) == e \in Entry /\ e.sha = head.code /\ e.seen = head.code
  <2>1. \A b \in BOOLEAN : ofHead(passed(b))
    BY <1>0 DEF Plain, Entry, Shas, NoSha, NoFp
  <2>2. \A fp \in Fps : ofHead(failed(fp))
    BY <1>0 DEF Plain, Entry, Shas, NoSha, NoFp
  <2>3. \E e : ofHead(e) /\ RanPhase(wt, e)
    BY <1>6, <2>1, <2>2 DEF RunAuthoritative
  <2>4. AgentLeaves(wt.code)
    BY <1>6 DEF RunAuthoritative, AgentLeaves
  <2> QED BY <1>0, <2>3, <2>4
<1>7. CASE RunSenior
  <2>1. PICK code \in 0 .. MaxCode :
           /\ AgentLeaves(code)
           /\ \/ RanPhase([wt EXCEPT !.code = code], Plain("senior", "deadlock"))
              \/ \E outcome \in {"approved", "changes_requested"} :
                    RanPhase([wt EXCEPT !.code = code], Verdict("senior", outcome, NoFp))
    BY <1>7 DEF RunSenior
  <2>2. CASE RanPhase([wt EXCEPT !.code = code], Plain("senior", "deadlock"))
    <3>1. Bound([wt EXCEPT !.code = code], Plain("senior", "deadlock"))
      BY <2>1, <2>2, AgentType, PlainType
    <3> QED BY <3>1
  <2>3. ASSUME NEW outcome \in {"approved", "changes_requested"},
               RanPhase([wt EXCEPT !.code = code], Verdict("senior", outcome, NoFp))
        PROVE  \E tree, e : Bound(tree, e)
    <3>1. Bound([wt EXCEPT !.code = code], Verdict("senior", outcome, NoFp))
      BY <1>0, <2>1, <2>3, AgentType, VerdictType
    <3> QED BY <3>1
  <2> QED BY <2>1, <2>2, <2>3
<1> QED BY <1>1, <1>2, <1>3, <1>4, <1>5, <1>6, <1>7

\* Steps that only move whole trees around, or log an entry with no sha.
LEMMA OtherStepsBound ==
    ASSUME TypeOK, TailHasState, BindInv,
           \/ AppendEntry \/ CommitEntry \/ DecideMerge \/ CapReached
           \/ Deadlocked \/ Done \/ FinalCommit \/ FinalPush \/ FinalNotify
           \/ RecordPushOk \/ RecordMarker \/ MarkerCommit \/ MarkerPush
           \/ Interruption \/ PushRefused \/ ErrorAppend \/ ErrorCommit \/ ErrorNotify
           \/ Kickoff \/ KickoffCodeReady \/ (Attended /\ ResumeSync) \/ ResumeStep
           \/ DirectorPush \/ Rebuild
    PROVE  BindInv'
<1> USE DEF trees, people, process, status
<1>0. /\ wt \in Tree /\ head \in Tree /\ hub \in Tree /\ job \in Entry
      /\ nextCode \in Nat /\ wt.code \in Nat /\ NoJob.sha = NoSha
      /\ Plain("developer", "ok").sha = NoSha /\ NoSha < nextCode
      /\ NoSha # wt.code /\ NoSha # hub.code
  BY DEF TypeOK, Tree, NoJob, Plain, NoSha
\* The facts to carry over when trees are only copied.
<1>1. ASSUME wt' \in {wt, head, hub}, head' \in {wt, head, hub}, hub' \in {head, hub},
             nextCode' = nextCode,
             \/ job'.sha = NoSha
             \/ job' = job /\ wt' = wt /\ pc' = pc
      PROVE  BindInv'
  <2>1. job'.sha = NoSha => job'.sha < nextCode' /\ job'.sha # wt'.code
    BY <1>0, <1>1 DEF Tree, NoSha
  <2> QED BY <1>0, <1>1, <2>1 DEF BindInv, ApprovalsBindCode, BoundTo, ShasBelow
\* ... and when an entry without a sha is logged in the working tree.
<1>2. ASSUME NEW e \in Entry, e.sha = NoSha, wt' = Logged(wt, e), head' = head,
             hub' = hub, nextCode' = nextCode,
             job'.sha = NoSha \/ (job' = job /\ pc' = pc)
      PROVE  BindInv'
  <2>1. BoundTo(Logged(wt, e)) /\ ShasBelow(Logged(wt, e), nextCode)
    BY <1>0, <1>2, AppendBound DEF BindInv, ApprovalsBindCode
  <2> QED BY <1>0, <1>2, <2>1, LoggedType
          DEF BindInv, ApprovalsBindCode, BoundTo, ShasBelow
<1>3. pc # "append" => job.sha = NoSha
  BY DEF BindInv
<1>4. CASE AppendEntry
  <2>1. BoundTo(Logged(wt, job)) /\ ShasBelow(Logged(wt, job), nextCode)
    BY <1>0, AppendBound DEF BindInv, ApprovalsBindCode
  <2> QED BY <1>0, <1>4, <2>1, LoggedType
          DEF AppendEntry, BindInv, ApprovalsBindCode, BoundTo, ShasBelow
<1>5. CASE CommitEntry \/ FinalCommit \/ MarkerCommit \/ ErrorCommit
  BY <1>0, <1>1, <1>3, <1>5 DEF CommitEntry, FinalCommit, MarkerCommit, ErrorCommit, Exit
<1>6. CASE FinalPush \/ MarkerPush
  BY <1>0, <1>1, <1>3, <1>6 DEF FinalPush, MarkerPush, Exit
<1>7. CASE CapReached \/ Deadlocked \/ Done \/ FinalNotify
  BY <1>1, <1>3, <1>7 DEF CapReached, Deadlocked, Done, FinalNotify, Finalize, At
<1>8. CASE StepFails \/ PushRefused \/ Kill \/ ErrorNotify
  BY <1>0, <1>1, <1>3, <1>8 DEF StepFails, PushRefused, Kill, ErrorNotify, Raise, Exit
<1>9. CASE Kickoff
  BY <1>0, <1>1, <1>3, <1>9 DEF Kickoff
<1>10. CASE KickoffCodeReady
  BY <1>0, <1>1, <1>10 DEF KickoffCodeReady
<1>11. CASE (Attended /\ ResumeSync) \/ Rebuild
  BY <1>0, <1>1, <1>3, <1>11 DEF Attended, ResumeSync, Rebuild
<1>12. CASE ResumeKilled \/ ResumeCommit
  BY <1>0, <1>1, <1>3, <1>12 DEF ResumeKilled, ResumeCommit
<1>13. CASE RecordPushOk
  BY <1>2, <1>3, <1>13, PlainType, ActionNames, OutcomeNames DEF RecordPushOk
<1>14. CASE RecordMarker
  <2>1. fin \in Outcomes
    BY <1>14, StateTypes DEF RecordMarker, TailHasState, TailPcs
  <2> QED BY <1>2, <1>3, <1>14, <2>1, PlainType, ActionNames DEF RecordMarker
<1>15. CASE ErrorAppend
  <2>1. wt' = wt \/ wt' = Logged(wt, Plain("terminal", "INTERNAL_ERROR"))
    BY <1>15 DEF ErrorAppend
  <2>2. Plain("terminal", "INTERNAL_ERROR") \in Entry
        /\ Plain("terminal", "INTERNAL_ERROR").sha = NoSha
    BY PlainType, ActionNames, StateTypes
  <2> QED BY <1>1, <1>2, <1>3, <1>15, <2>1, <2>2 DEF ErrorAppend
<1>16. CASE ResumeAppend
  BY <1>2, <1>16, PlainType, ActionNames, OutcomeNames DEF ResumeAppend
<1>17. CASE DecideMerge
  <2>1. /\ wt' \in Tree /\ wt'.log = wt.log /\ wt'.code = wt.code
        /\ job' = job /\ head' = head /\ hub' = hub /\ nextCode' = nextCode
    BY <1>0, <1>17, DecisionType DEF DecideMerge, Tree
  <2>2. job.sha = NoSha
    BY <1>3, <1>17 DEF DecideMerge, At
  <2> QED BY <1>0, <2>1, <2>2 DEF BindInv, ApprovalsBindCode, BoundTo, ShasBelow
<1>18. CASE QuotaTimeout
  <2>1. PICK code \in 0 .. MaxCode :
           AgentLeaves(code) /\ wt' = [wt EXCEPT !.code = code]
    BY <1>18 DEF QuotaTimeout
  <2>2. /\ wt' \in Tree /\ wt'.log = wt.log /\ wt'.code = code /\ nextCode' \in Nat
        /\ \/ code = wt.code /\ nextCode' = nextCode
           \/ code = nextCode /\ nextCode' = nextCode + 1
    BY <2>1, AgentType DEF AgentLeaves
  <2>3. BoundTo(wt)' /\ ShasBelow(wt', nextCode')
    BY <1>0, <2>2, EditBound DEF BindInv, ApprovalsBindCode, BoundTo
  <2>4. ShasBelow(head, nextCode') /\ ShasBelow(hub, nextCode')
    BY <1>0, <2>2, ShasStayBelow DEF BindInv
  <2>5. job.sha = NoSha /\ job' = job /\ head' = head /\ hub' = hub /\ wt'.code \in Nat
    BY <1>3, <1>18, <2>2 DEF QuotaTimeout, Tree
  <2> QED BY <1>0, <2>2, <2>3, <2>4, <2>5
          DEF BindInv, ApprovalsBindCode, BoundTo, ShasBelow, NoSha
<1>19. CASE DirectorPush
  <2>1. /\ wt' = wt /\ head' = head /\ job' = job /\ pc' = pc
        /\ hub' = [hub EXCEPT !.code = nextCode] /\ nextCode' = nextCode + 1
    BY <1>19 DEF DirectorPush
  <2>2. hub' \in Tree /\ hub'.log = hub.log /\ hub'.code = nextCode /\ nextCode' \in Nat
    <3>1. nextCode \in Nat /\ nextCode + 1 \in Nat /\ hub \in Tree
      BY <1>0
    <3>2. [hub EXCEPT !.code = nextCode] \in Tree
      BY <3>1 DEF Tree
    <3>3. /\ [hub EXCEPT !.code = nextCode].log = hub.log
          /\ [hub EXCEPT !.code = nextCode].code = nextCode
      BY <3>1 DEF Tree
    <3> QED BY <2>1, <3>1, <3>2, <3>3
  <2>3. BoundTo(hub)' /\ ShasBelow(hub', nextCode')
    BY <1>0, <2>1, <2>2, EditBound DEF BindInv, ApprovalsBindCode, BoundTo
  <2>4. ShasBelow(wt, nextCode') /\ ShasBelow(head, nextCode')
    BY <1>0, <2>1, ShasStayBelow DEF BindInv
  <2>5. job.sha \in Int
    BY <1>0 DEF Entry, Shas, NoSha
  <2> QED BY <1>0, <2>1, <2>3, <2>4, <2>5 DEF BindInv, ApprovalsBindCode, BoundTo, ShasBelow
<1> QED
  BY <1>4, <1>5, <1>6, <1>7, <1>8, <1>9, <1>10, <1>11, <1>12, <1>13, <1>14, <1>15,
     <1>16, <1>17, <1>18, <1>19 DEF Interruption, ResumeStep

LEMMA BindInit == Init => BindInv
BY DEF Init, BindInv, ApprovalsBindCode, BoundTo, ShasBelow, BaseTree, NoJob, Plain, NoSha

LEMMA BindStep ==
    ASSUME TypeOK, TailHasState, BindInv, [Next]_vars
    PROVE  BindInv'
<1>1. CASE Next
  BY <1>1, PhasesBound, OtherStepsBound DEF Next, LoopStep
<1>2. CASE UNCHANGED vars
  BY <1>2 DEF vars, BindInv, ApprovalsBindCode, BoundTo, ShasBelow
<1> QED
  BY <1>1, <1>2

\* Whatever the agents edit and wherever the process dies, no tree on disk or
\* on the hub ever holds a gate entry for its own code that was given on
\* other code (loop._run_rw1/_run_rw2/_run_senior/_run_authoritative and
\* gate_states_from_log): the precondition of a merge decision is sound.
THEOREM ApprovalsBound == Spec => []ApprovalsBindCode
<1>1. Init => TailHasState
  BY DEF Init, TailHasState, TailPcs
<1>2. BindInv => ApprovalsBindCode
  BY DEF BindInv
<1> QED
  BY <1>1, <1>2, InitType, TypeStep, BindInit, BindStep, PTL DEF Spec

-----------------------------------------------------------------------------
(* Logs and positions in them *)

LEMMA AppendFacts ==
    ASSUME NEW log \in Seq(Entry), NEW e \in Entry
    PROVE  /\ Len(log) \in Nat
           /\ DOMAIN log = 1 .. Len(log)
           /\ Append(log, e) \in Seq(Entry)
           /\ Len(Append(log, e)) = Len(log) + 1
           /\ DOMAIN Append(log, e) = 1 .. Len(log) + 1
           /\ \A i \in 1 .. Len(log) : Append(log, e)[i] = log[i]
           /\ Append(log, e)[Len(log) + 1] = e
OBVIOUS

Less == {p \in Nat \X Nat : p[1] < p[2]}

LEMMA LessWellFounded == IsWellFoundedOn(Less, Nat)
BY NatLessThanWellFounded DEF OpToRel, Less

LEMMA LeastNumber ==
    ASSUME NEW T, T \subseteq Nat, T # {}
    PROVE  \E n \in T : \A m \in T : n <= m
<1>1. PICK n \in T : \A m \in T : <<m, n>> \notin Less
  BY LessWellFounded, WFMin
<1>2. ASSUME NEW m \in T
      PROVE  n <= m
  <2>1. m \in Nat /\ n \in Nat /\ <<m, n>> \notin Less
    BY <1>1
  <2> QED BY <2>1 DEF Less
<1> QED
  BY <1>2

\* Latest is the maximum of a set of positions, and 0 says there is none.
LEMMA LatestIsGreatest ==
    ASSUME NEW n \in Nat, NEW S \in SUBSET (1 .. n)
    PROVE  /\ Latest(S) \in 0 .. n
           /\ Latest(S) = 0 <=> S = {}
           /\ S # {} => Latest(S) \in S
           /\ \A i \in S : i <= Latest(S)
<1>0. \A i \in S : i \in Nat /\ 1 <= i /\ i <= n
  OBVIOUS
<1>1. CASE S = {}
  BY <1>1 DEF Latest
<1>2. CASE S # {}
  <2>1. PICK m \in {k \in Nat : \A i \in S : i <= k} :
           \A k \in {j \in Nat : \A i \in S : i <= j} : m <= k
    <3>1. n \in {k \in Nat : \A i \in S : i <= k}
      OBVIOUS
    <3> QED BY <3>1, LeastNumber
  <2>2. m \in Nat /\ (\A i \in S : i <= m)
    OBVIOUS
  <2>3. m \in S
    <3> SUFFICES ASSUME m \notin S PROVE FALSE
      OBVIOUS
    <3>1. PICK i \in S : i \in Nat /\ 1 <= i /\ i <= m
      BY <1>0, <1>2, <2>2
    <3>2. m - 1 \in Nat /\ \A j \in S : j <= m - 1
      BY <1>0, <2>2, <3>1
    <3>3. m <= m - 1
      BY <2>1, <3>2
    <3> QED BY <2>2, <3>3
  <2>4. \E i \in S : \A j \in S : j <= i
    BY <2>2, <2>3
  <2>5. Latest(S) = CHOOSE i \in S : \A j \in S : j <= i
    BY <1>2 DEF Latest
  <2>6. Latest(S) \in S /\ \A j \in S : j <= Latest(S)
    BY <2>4, <2>5
  <2>7. Latest(S) \in Nat /\ 1 <= Latest(S) /\ Latest(S) <= n
    BY <1>0, <2>6
  <2>8. Latest(S) \in 0 .. n /\ Latest(S) # 0
    BY <2>7
  <2> QED BY <1>2, <2>6, <2>8
<1> QED BY <1>1, <1>2

LEMMA LatestIs ==
    ASSUME NEW n \in Nat, NEW S \in SUBSET (1 .. n), NEW i \in S, \A j \in S : j <= i
    PROVE  Latest(S) = i
<1>1. Latest(S) \in S /\ i <= Latest(S) /\ Latest(S) <= i
  BY LatestIsGreatest
<1>2. Latest(S) \in Nat /\ i \in Nat
  <2>1. S \subseteq Nat
    OBVIOUS
  <2> QED BY <1>1, <2>1
<1> QED BY <1>1, <1>2

\* The set of positions with a property, after one more entry: the new
\* position is added when the entry has the property.
LEMMA LatestAfterAppend ==
    ASSUME NEW n \in Nat, NEW S \in SUBSET (1 .. n)
    PROVE  Latest(S \cup {n + 1}) = n + 1
<1>1. S \cup {n + 1} \in SUBSET (1 .. n + 1) /\ n + 1 \in Nat
  OBVIOUS
<1>2. \A j \in S \cup {n + 1} : j <= n + 1
  OBVIOUS
<1> QED BY <1>1, <1>2, LatestIs

LEMMA WhereAppend ==
    ASSUME NEW log \in Seq(Entry), NEW e \in Entry, NEW acts
    PROVE  /\ Where(log, acts) \in SUBSET (1 .. Len(log))
           /\ Where(Append(log, e), acts) =
                 IF e.action \in acts THEN Where(log, acts) \cup {Len(log) + 1}
                                      ELSE Where(log, acts)
<1>1. Where(log, acts) \in SUBSET (1 .. Len(log))
  BY AppendFacts DEF Where
<1>2. ASSUME NEW i
      PROVE  i \in Where(Append(log, e), acts)
               <=> \/ i \in Where(log, acts)
                   \/ i = Len(log) + 1 /\ e.action \in acts
  BY AppendFacts DEF Where
<1> QED BY <1>1, <1>2

LEMMA LatestWhere ==
    ASSUME NEW log \in Seq(Entry), NEW acts
    PROVE  /\ Latest(Where(log, acts)) \in 0 .. Len(log)
           /\ Latest(Where(log, acts)) = 0 <=> Where(log, acts) = {}
           /\ Latest(Where(log, acts)) # 0 => Latest(Where(log, acts)) \in Where(log, acts)
           /\ \A i \in Where(log, acts) : i <= Latest(Where(log, acts))
<1>1. Where(log, acts) \in SUBSET (1 .. Len(log)) /\ Len(log) \in Nat
  BY DEF Where
<1> QED BY <1>1, LatestIsGreatest

LEMMA LatestWhereAppend ==
    ASSUME NEW log \in Seq(Entry), NEW e \in Entry, NEW acts
    PROVE  Latest(Where(Append(log, e), acts)) =
              IF e.action \in acts THEN Len(log) + 1 ELSE Latest(Where(log, acts))
<1>1. Len(log) \in Nat /\ Where(log, acts) \in SUBSET (1 .. Len(log))
  BY AppendFacts, WhereAppend
<1>2. Latest(Where(log, acts) \cup {Len(log) + 1}) = Len(log) + 1
  BY <1>1, LatestAfterAppend
<1> QED BY <1>2, WhereAppend

LEMMA CountAppend ==
    ASSUME NEW log \in Seq(Entry), NEW e \in Entry, NEW acts
    PROVE  /\ Cardinality(Where(log, acts)) \in Nat
           /\ Cardinality(Where(Append(log, e), acts)) =
                 IF e.action \in acts THEN Cardinality(Where(log, acts)) + 1
                                      ELSE Cardinality(Where(log, acts))
<1>1. Len(log) \in Nat /\ Len(log) + 1 \notin Where(log, acts)
  BY WhereAppend
<1>2. IsFiniteSet(1 .. Len(log))
  BY <1>1, FS_Interval
<1>3. IsFiniteSet(Where(log, acts))
  BY <1>2, WhereAppend, FS_Subset
<1>4. Cardinality(Where(log, acts) \cup {Len(log) + 1}) = Cardinality(Where(log, acts)) + 1
  BY <1>1, <1>3, FS_AddElement
<1>5. Cardinality(Where(log, acts)) \in Nat
  BY <1>3, FS_CardinalityType
<1> QED BY <1>4, <1>5, WhereAppend

\* The last mark of a log, and what it says, after one more entry.
LEMMA MarkAppend ==
    ASSUME NEW log \in Seq(Entry), NEW e \in Entry
    PROVE  /\ LastMark(log) \in 0 .. Len(log)
           /\ LastMark(Append(log, e)) = IF IsMark(e) THEN Len(log) + 1 ELSE LastMark(log)
           /\ last_terminal_state(Append(log, e)) =
                 IF IsMark(e) THEN MarkState(e) ELSE last_terminal_state(log)
<1> DEFINE marks(l) == {i \in DOMAIN l : IsMark(l[i])}
<1>1. marks(log) \in SUBSET (1 .. Len(log)) /\ Len(log) \in Nat
  BY AppendFacts
<1>2. marks(Append(log, e)) =
         IF IsMark(e) THEN marks(log) \cup {Len(log) + 1} ELSE marks(log)
  <2>1. ASSUME NEW i
        PROVE  i \in marks(Append(log, e))
                  <=> i \in marks(log) \/ (i = Len(log) + 1 /\ IsMark(e))
    BY AppendFacts
  <2> QED BY <2>1
<1>3. LastMark(log) = Latest(marks(log)) /\ LastMark(Append(log, e)) = Latest(marks(Append(log, e)))
  BY DEF LastMark
<1> HIDE DEF marks
<1>4. LastMark(log) \in 0 .. Len(log)
  BY <1>1, <1>3, LatestIsGreatest
<1>5. LastMark(Append(log, e)) = IF IsMark(e) THEN Len(log) + 1 ELSE LastMark(log)
  BY <1>1, <1>2, <1>3, LatestAfterAppend
<1>6. LastMark(log) # 0 => Append(log, e)[LastMark(log)] = log[LastMark(log)]
  BY <1>4, AppendFacts
<1> QED BY <1>1, <1>4, <1>5, <1>6, AppendFacts DEF last_terminal_state

-----------------------------------------------------------------------------
(* A push is gated                                                         *)
(*                                                                         *)
(* FullyGated speaks of pushes that were logged.  What makes the next one  *)
(* gated is a fact about every log: a gate entry that is the last phase    *)
(* has its predecessors, in order, since the last developer round.         *)

Developed(log) == Latest(Where(log, {"developer"}))

Since(log, action, outcome) ==
    {i \in Where(log, {action}) : i > Developed(log) /\ log[i].outcome = outcome}

Reviewed(log) ==
    \/ Since(log, "senior", "approved") # {}
    \/ \E f \in Since(log, "fast_tests", "pass"), r \in Since(log, "rw1", "approved") :
          /\ f < r
          /\ WithRw2 => \E g \in Since(log, "rw2", "go") : r < g

LastIs(log, action, outcome) ==
    /\ LastPhase(log) # 0
    /\ log[LastPhase(log)].action = action
    /\ log[LastPhase(log)].outcome = outcome

GateChain(log) ==
    /\ LastIs(log, "rw1", "approved") =>
          \E f \in Since(log, "fast_tests", "pass") : f < LastPhase(log)
    /\ LastIs(log, "rw2", "go") =>
          \E f \in Since(log, "fast_tests", "pass"), r \in Since(log, "rw1", "approved") :
             f < r /\ r < LastPhase(log)
    /\ LastIs(log, "authoritative", "pass") => Reviewed(log)

\* The phase of an entry is the one the replay of the log asks for.
Due(log, action) == LastPhase(log) # 0 /\ NextAfter(log[LastPhase(log)]) = action

LEMMA LastPhaseFacts ==
    ASSUME NEW log \in Seq(Entry), LastPhase(log) # 0
    PROVE  /\ LastPhase(log) \in 1 .. Len(log)
           /\ log[LastPhase(log)] \in Entry
           /\ log[LastPhase(log)].action \in PhaseActions
<1>1. LastPhase(log) \in Where(log, PhaseActions)
  BY LatestWhere DEF LastPhase
<1> QED BY <1>1, AppendFacts DEF Where

\* A last phase that is not a developer round is later than all of them.
LEMMA LastIsSince ==
    ASSUME NEW log \in Seq(Entry), NEW action \in PhaseActions \ {"developer"}, NEW outcome,
           LastIs(log, action, outcome)
    PROVE  LastPhase(log) \in Since(log, action, outcome)
<1>1. /\ LastPhase(log) \in 1 .. Len(log) /\ log[LastPhase(log)].action = action
      /\ log[LastPhase(log)].outcome = outcome
  BY LastPhaseFacts DEF LastIs
<1>2. LastPhase(log) \in Where(log, {action})
  BY <1>1, AppendFacts DEF Where
<1>3. LastPhase(log) > Developed(log)
  <2>1. Where(log, {"developer"}) \subseteq Where(log, PhaseActions)
    BY DEF Where, PhaseActions
  <2>2. CASE Developed(log) = 0
    BY <1>1, <2>2
  <2>3. CASE Developed(log) # 0
    <3>1. Developed(log) \in Where(log, {"developer"})
      BY <2>3, LatestWhere DEF Developed
    <3>2. Developed(log) <= LastPhase(log)
      BY <2>1, <3>1, LatestWhere DEF LastPhase
    <3>5. Developed(log) \in 1 .. Len(log)
      BY <3>1, AppendFacts DEF Where
    <3>3. log[Developed(log)].action = "developer"
      BY <3>1 DEF Where
    <3>4. Developed(log) # LastPhase(log)
      BY <1>1, <3>3
    <3> QED BY <1>1, <3>2, <3>4, <3>5
  <2> QED BY <2>2, <2>3
<1> QED BY <1>1, <1>2, <1>3 DEF Since

LEMMA SinceAppend ==
    ASSUME NEW log \in Seq(Entry), NEW e \in Entry, e.action # "developer",
           NEW action, NEW outcome
    PROVE  /\ Since(log, action, outcome) \subseteq Since(Append(log, e), action, outcome)
           /\ e.action # action =>
                 Since(Append(log, e), action, outcome) = Since(log, action, outcome)
<1>1. Developed(Append(log, e)) = Developed(log)
  BY LatestWhereAppend DEF Developed
<1>2. \A i \in Where(log, {action}) :
         i \in 1 .. Len(log) /\ Append(log, e)[i] = log[i]
  BY AppendFacts DEF Where
<1> QED BY <1>1, <1>2, WhereAppend DEF Since

LEMMA SincePositions ==
    ASSUME NEW log \in Seq(Entry), NEW action, NEW outcome
    PROVE  Since(log, action, outcome) \in SUBSET (1 .. Len(log))
BY WhereAppend DEF Since, Where

LEMMA LastPhaseAppend ==
    ASSUME NEW log \in Seq(Entry), NEW e \in Entry
    PROVE  /\ LastPhase(Append(log, e)) =
                 IF e.action \in PhaseActions THEN Len(log) + 1 ELSE LastPhase(log)
           /\ \A action, outcome :
                 LastIs(Append(log, e), action, outcome) <=>
                    IF e.action \in PhaseActions
                    THEN e.action = action /\ e.outcome = outcome
                    ELSE LastIs(log, action, outcome)
<1>1. LastPhase(Append(log, e)) =
         IF e.action \in PhaseActions THEN Len(log) + 1 ELSE LastPhase(log)
  BY LatestWhereAppend DEF LastPhase
<1>2. Len(log) + 1 # 0 /\ Append(log, e)[Len(log) + 1] = e
  BY AppendFacts
<1>3. LastPhase(log) # 0 => Append(log, e)[LastPhase(log)] = log[LastPhase(log)]
  BY LastPhaseFacts, AppendFacts
<1> QED BY <1>1, <1>2, <1>3 DEF LastIs

\* What the replay asks for next says what the last phase was.
LEMMA DueAfter ==
    ASSUME NEW log \in Seq(Entry)
    PROVE  /\ Due(log, "rw1") => LastIs(log, "fast_tests", "pass")
           /\ Due(log, "rw2") => WithRw2 /\ LastIs(log, "rw1", "approved")
           /\ Due(log, "authoritative") =>
                 \/ LastIs(log, "rw2", "go")
                 \/ LastIs(log, "senior", "approved")
                 \/ ~WithRw2 /\ LastIs(log, "rw1", "approved")
           /\ Due(log, "push") => LastIs(log, "authoritative", "pass")
           /\ Due(log, "done") => LastIs(log, "push", "ok")
BY DEF Due, LastIs, NextAfter, AfterRw1

LEMMA DueReviewed ==
    ASSUME NEW log \in Seq(Entry), GateChain(log), Due(log, "authoritative")
    PROVE  Reviewed(log)
<1>1. CASE LastIs(log, "rw2", "go")
  <2>1. LastPhase(log) \in Since(log, "rw2", "go")
    BY <1>1, LastIsSince DEF PhaseActions
  <2> QED BY <1>1, <2>1 DEF GateChain, Reviewed
<1>2. CASE LastIs(log, "senior", "approved")
  <2>1. LastPhase(log) \in Since(log, "senior", "approved")
    BY <1>2, LastIsSince DEF PhaseActions
  <2> QED BY <2>1 DEF Reviewed
<1>3. CASE ~WithRw2 /\ LastIs(log, "rw1", "approved")
  <2>1. LastPhase(log) \in Since(log, "rw1", "approved")
    BY <1>3, LastIsSince DEF PhaseActions
  <2> QED BY <1>3, <2>1 DEF GateChain, Reviewed
<1> QED BY <1>1, <1>2, <1>3, DueAfter

\* The gates of an entry that runs when it is due come in order.
LEMMA GateChainAppend ==
    ASSUME NEW log \in Seq(Entry), NEW e \in Entry, GateChain(log),
           e.action \in {"rw1", "rw2", "authoritative"} => Due(log, e.action)
    PROVE  GateChain(Append(log, e))
<1> DEFINE new == Append(log, e)
<1>0. Len(log) \in Nat
  BY AppendFacts
<1>1. CASE e.action \notin PhaseActions
  <2>1. \A action \in PhaseActions : \A outcome :
           Since(new, action, outcome) = Since(log, action, outcome)
    BY <1>1, SinceAppend DEF PhaseActions
  <2>2. \A action, outcome : LastIs(new, action, outcome) <=> LastIs(log, action, outcome)
    BY <1>1, LastPhaseAppend
  <2>3. LastPhase(new) = LastPhase(log)
    BY <1>1, LastPhaseAppend
  <2>4. Reviewed(new) <=> Reviewed(log)
    BY <2>1 DEF Reviewed, PhaseActions
  <2>5. /\ Since(new, "fast_tests", "pass") = Since(log, "fast_tests", "pass")
        /\ Since(new, "rw1", "approved") = Since(log, "rw1", "approved")
    BY <2>1 DEF PhaseActions
  <2>6. /\ LastIs(new, "rw1", "approved") <=> LastIs(log, "rw1", "approved")
        /\ LastIs(new, "rw2", "go") <=> LastIs(log, "rw2", "go")
        /\ LastIs(new, "authoritative", "pass") <=> LastIs(log, "authoritative", "pass")
    BY <2>2
  <2> QED BY <2>3, <2>4, <2>5, <2>6 DEF GateChain
<1>2. CASE e.action = "rw1"
  <2>1. LastPhase(log) \in Since(log, "fast_tests", "pass")
    BY <1>2, DueAfter, LastIsSince DEF PhaseActions
  <2>2. LastPhase(log) \in Since(new, "fast_tests", "pass") /\ LastPhase(log) <= Len(log)
    BY <1>2, <2>1, SinceAppend, SincePositions
  <2>3. LastPhase(new) = Len(log) + 1
    BY <1>2, LastPhaseAppend DEF PhaseActions
  <2>4. ~LastIs(new, "rw2", "go") /\ ~LastIs(new, "authoritative", "pass")
    BY <1>2, LastPhaseAppend DEF PhaseActions
  <2>5. LastPhase(log) < LastPhase(new)
    BY <1>0, <2>1, <2>2, <2>3, SincePositions
  <2> QED BY <2>2, <2>4, <2>5 DEF GateChain
<1>3. CASE e.action = "rw2"
  <2>1. LastIs(log, "rw1", "approved") /\ LastPhase(log) \in Since(log, "rw1", "approved")
    BY <1>3, DueAfter, LastIsSince DEF PhaseActions
  <2>2. PICK f \in Since(log, "fast_tests", "pass") : f < LastPhase(log)
    BY <2>1 DEF GateChain
  <2>3. f \in Since(new, "fast_tests", "pass") /\ LastPhase(log) \in Since(new, "rw1", "approved")
    BY <1>3, <2>1, <2>2, SinceAppend
  <2>4. LastPhase(new) = Len(log) + 1
    BY <1>3, LastPhaseAppend DEF PhaseActions
  <2>5. LastPhase(log) < LastPhase(new)
    BY <1>0, <2>1, <2>4, SincePositions
  <2>6. ~LastIs(new, "rw1", "approved") /\ ~LastIs(new, "authoritative", "pass")
    BY <1>3, LastPhaseAppend DEF PhaseActions
  <2> QED BY <2>2, <2>3, <2>5, <2>6 DEF GateChain
<1>4. CASE e.action = "authoritative"
  <2>1. Reviewed(log)
    BY <1>4, DueReviewed
  <2>2. \A action, outcome : Since(log, action, outcome) \subseteq Since(new, action, outcome)
    BY <1>4, SinceAppend
  <2>3. Reviewed(new)
    <3> HIDE DEF new
    <3> QED BY <2>1, <2>2 DEF Reviewed
  <2>4. ~LastIs(new, "rw1", "approved") /\ ~LastIs(new, "rw2", "go")
    BY <1>4, LastPhaseAppend DEF PhaseActions
  <2> QED BY <2>3, <2>4 DEF GateChain
<1>5. CASE e.action \in {"developer", "fast_tests", "senior", "push"}
  BY <1>5, LastPhaseAppend DEF GateChain, PhaseActions
<1> QED BY <1>1, <1>2, <1>3, <1>4, <1>5 DEF PhaseActions

\* FullyGated for one push entry.
GatedAt(log, p) ==
    LET prior == {i \in Where(log, PhaseActions) : i < p}
        start == Latest({i \in prior : log[i].action = "developer"})
        gate(action, outcome) ==
            {i \in prior : i > start /\ log[i].action = action
                                     /\ log[i].outcome = outcome}
    IN  /\ Latest(prior) \in gate("authoritative", "pass")
        /\ \/ gate("senior", "approved") # {}
           \/ \E f \in gate("fast_tests", "pass"), r \in gate("rw1", "approved") :
                 /\ f < r
                 /\ WithRw2 => \E g \in gate("rw2", "go") : r < g

LEMMA GatedAtAll ==
    ASSUME NEW log
    PROVE  FullyGated(log) <=> \A p \in Where(log, {"push"}) : GatedAt(log, p)
BY DEF FullyGated, GatedAt

\* Whether a push was gated is settled by the entries before it.
LEMMA GatedAtStays ==
    ASSUME NEW log \in Seq(Entry), NEW e \in Entry, NEW p \in 1 .. Len(log),
           GatedAt(log, p)
    PROVE  GatedAt(Append(log, e), p)
<1> DEFINE new == Append(log, e)
           prior(l) == {i \in Where(l, PhaseActions) : i < p}
           devs(l) == {i \in prior(l) : l[i].action = "developer"}
           gate(l, start, action, outcome) ==
              {i \in prior(l) : i > start /\ l[i].action = action /\ l[i].outcome = outcome}
<1>1. \A i \in 1 .. Len(log) : new[i] = log[i]
  BY AppendFacts
<1>2. prior(new) = prior(log)
  <2>1. ASSUME NEW i, i < p
        PROVE  i \in Where(new, PhaseActions) <=> i \in Where(log, PhaseActions)
    <3>1. Len(log) + 1 # i
      BY <2>1, AppendFacts
    <3> QED BY <3>1, WhereAppend
  <2> QED BY <2>1
<1>3. \A i \in prior(log) : new[i] = log[i]
  BY <1>1, AppendFacts DEF Where
<1>4. devs(new) = devs(log)
  BY <1>2, <1>3
<1>5. ASSUME NEW start, NEW action, NEW outcome
      PROVE  gate(new, start, action, outcome) = gate(log, start, action, outcome)
  BY <1>2, <1>3
<1>6. ASSUME NEW l
      PROVE  GatedAt(l, p) <=>
               LET start == Latest(devs(l))
               IN  /\ Latest(prior(l)) \in gate(l, start, "authoritative", "pass")
                   /\ \/ gate(l, start, "senior", "approved") # {}
                      \/ \E f \in gate(l, start, "fast_tests", "pass"),
                            r \in gate(l, start, "rw1", "approved") :
                            /\ f < r
                            /\ WithRw2 => \E g \in gate(l, start, "rw2", "go") : r < g
  BY DEF GatedAt
<1> HIDE DEF new, prior, devs, gate
<1>7. GatedAt(new, p)
  BY <1>2, <1>4, <1>5, <1>6
<1> QED BY <1>7 DEF new

\* A push logged when the gate passed last, on reviewed code, is gated.
LEMMA GatedAtPush ==
    ASSUME NEW log \in Seq(Entry), NEW e \in Entry,
           LastIs(log, "authoritative", "pass"), Reviewed(log)
    PROVE  GatedAt(Append(log, e), Len(log) + 1)
<1> DEFINE new == Append(log, e)
           p == Len(log) + 1
           prior == {i \in Where(new, PhaseActions) : i < p}
           devs == {i \in prior : new[i].action = "developer"}
           gate(action, outcome) ==
              {i \in prior : i > Latest(devs) /\ new[i].action = action
                                              /\ new[i].outcome = outcome}
<1>1. prior = Where(log, PhaseActions)
  <2>1. \A i \in Where(log, PhaseActions) : i < p
    BY AppendFacts DEF Where
  <2> QED BY <2>1, WhereAppend, AppendFacts
<1>2. \A i \in Where(log, PhaseActions) : new[i] = log[i]
  BY AppendFacts DEF Where
<1>3. devs = Where(log, {"developer"})
  BY <1>1, <1>2 DEF Where, PhaseActions
<1>4. ASSUME NEW action \in PhaseActions, NEW outcome
      PROVE  gate(action, outcome) = Since(log, action, outcome)
  <2>1. Where(log, {action}) = {i \in Where(log, PhaseActions) : log[i].action = action}
    BY DEF Where
  <2>2. Latest(devs) = Developed(log)
    BY <1>3 DEF Developed
  <2> HIDE DEF devs
  <2>3. gate(action, outcome) =
           {i \in Where(log, PhaseActions) : i > Developed(log) /\ new[i].action = action
                                              /\ new[i].outcome = outcome}
    BY <1>1, <2>2
  <2> HIDE DEF gate, prior
  <2> QED BY <1>2, <2>1, <2>3 DEF Since
<1>5. Latest(prior) = LastPhase(log)
  BY <1>1 DEF LastPhase
<1>6. LastPhase(log) \in Since(log, "authoritative", "pass")
  BY LastIsSince DEF PhaseActions
<1>7. GatedAt(new, p) <=>
         /\ Latest(prior) \in gate("authoritative", "pass")
         /\ \/ gate("senior", "approved") # {}
            \/ \E f \in gate("fast_tests", "pass"), r \in gate("rw1", "approved") :
                  /\ f < r
                  /\ WithRw2 => \E g \in gate("rw2", "go") : r < g
  BY DEF GatedAt
<1> HIDE DEF prior, devs, gate
<1>8. /\ gate("authoritative", "pass") = Since(log, "authoritative", "pass")
      /\ gate("senior", "approved") = Since(log, "senior", "approved")
      /\ gate("fast_tests", "pass") = Since(log, "fast_tests", "pass")
      /\ gate("rw1", "approved") = Since(log, "rw1", "approved")
      /\ gate("rw2", "go") = Since(log, "rw2", "go")
  BY <1>4 DEF PhaseActions
<1> QED BY <1>5, <1>6, <1>7, <1>8 DEF Reviewed

LEMMA FullyGatedAppend ==
    ASSUME NEW log \in Seq(Entry), NEW e \in Entry, FullyGated(log),
           e.action = "push" => LastIs(log, "authoritative", "pass") /\ Reviewed(log)
    PROVE  FullyGated(Append(log, e))
<1>1. \A p \in Where(log, {"push"}) : p \in 1 .. Len(log) /\ GatedAt(log, p)
  BY GatedAtAll, AppendFacts DEF Where
<1>2. \A p \in Where(log, {"push"}) : GatedAt(Append(log, e), p)
  BY <1>1, GatedAtStays
<1>3. CASE e.action = "push"
  <2>1. GatedAt(Append(log, e), Len(log) + 1)
    BY <1>3, GatedAtPush
  <2> QED BY <1>2, <2>1, WhereAppend, GatedAtAll
<1>4. CASE e.action # "push"
  BY <1>2, <1>4, WhereAppend, GatedAtAll
<1> QED BY <1>3, <1>4

-----------------------------------------------------------------------------
(* The developer's rounds *)

\* Rounds before the last resume leave the whole grant of that resume.
RoundsWithin(log) ==
    /\ Rounds(log) <= MaxLoops + ResumeGrant * Episode(log)
    /\ LastResume(log) # 0 =>
          Rounds(log) - dev_rounds_since_resume(log)
             <= MaxLoops + ResumeGrant * (Episode(log) - 1)

LEMMA RoundsAppend ==
    ASSUME NEW log \in Seq(Entry), NEW e \in Entry
    PROVE  /\ Rounds(log) \in Nat /\ Episode(log) \in Nat
           /\ dev_rounds_since_resume(log) \in 0 .. Rounds(log)
           /\ Rounds(Append(log, e)) =
                 IF e.action = "developer" THEN Rounds(log) + 1 ELSE Rounds(log)
           /\ Episode(Append(log, e)) =
                 IF e.action = "director_resume" THEN Episode(log) + 1 ELSE Episode(log)
           /\ LastResume(Append(log, e)) =
                 IF e.action = "director_resume" THEN Len(log) + 1 ELSE LastResume(log)
           /\ dev_rounds_since_resume(Append(log, e)) =
                 CASE e.action = "director_resume" -> 0
                   [] e.action = "developer" -> dev_rounds_since_resume(log) + 1
                   [] OTHER -> dev_rounds_since_resume(log)
<1> DEFINE new == Append(log, e)
           late(l) == {i \in Where(l, {"developer"}) : i > LastResume(l)}
<1>1. /\ Rounds(log) \in Nat /\ Episode(log) \in Nat
      /\ Rounds(new) = IF e.action = "developer" THEN Rounds(log) + 1 ELSE Rounds(log)
      /\ Episode(new) =
            IF e.action = "director_resume" THEN Episode(log) + 1 ELSE Episode(log)
  BY CountAppend DEF Rounds, Episode
<1>2. LastResume(new) =
         IF e.action = "director_resume" THEN Len(log) + 1 ELSE LastResume(log)
  BY LatestWhereAppend DEF LastResume
<1>3. LastResume(log) \in 0 .. Len(log) /\ Len(log) \in Nat
  BY LatestWhere, AppendFacts DEF LastResume
<1>4. Where(log, {"developer"}) \in SUBSET (1 .. Len(log))
  BY WhereAppend
<1>5. IsFiniteSet(Where(log, {"developer"}))
  <2>1. IsFiniteSet(1 .. Len(log))
    BY <1>3, FS_Interval
  <2> QED BY <1>4, <2>1, FS_Subset
<1>6. late(log) \in SUBSET Where(log, {"developer"})
  OBVIOUS
<1>7. IsFiniteSet(late(log)) /\ Cardinality(late(log)) \in 0 .. Rounds(log)
  <2> HIDE DEF late
  <2>1. IsFiniteSet(late(log)) /\ Cardinality(late(log)) <= Rounds(log)
    BY <1>5, <1>6, FS_Subset DEF Rounds
  <2>2. Cardinality(late(log)) \in Nat
    BY <2>1, FS_CardinalityType
  <2> QED BY <1>1, <2>1, <2>2
<1>8. CASE e.action = "director_resume"
  <2>1. late(new) = {}
    <3>1. Where(new, {"developer"}) = Where(log, {"developer"})
      BY <1>8, WhereAppend
    <3>2. \A i \in Where(log, {"developer"}) : ~(i > Len(log) + 1)
      BY <1>3, <1>4
    <3> QED BY <1>2, <1>8, <3>1, <3>2
  <2> QED BY <1>1, <1>2, <1>7, <1>8, <2>1, FS_EmptySet DEF dev_rounds_since_resume
<1>9. CASE e.action = "developer"
  <2>1. late(new) = late(log) \cup {Len(log) + 1}
    <3>1. Where(new, {"developer"}) = Where(log, {"developer"}) \cup {Len(log) + 1}
      BY <1>9, WhereAppend
    <3>2. LastResume(new) = LastResume(log) /\ Len(log) + 1 > LastResume(log)
      BY <1>2, <1>3, <1>9
    <3> QED BY <3>1, <3>2
  <2>2. Len(log) + 1 \notin late(log)
    BY <1>3, <1>4
  <2>3. Cardinality(late(new)) = Cardinality(late(log)) + 1
    <3> HIDE DEF late
    <3> QED BY <1>7, <2>1, <2>2, FS_AddElement
  <2> QED BY <1>1, <1>2, <1>7, <1>9, <2>3 DEF dev_rounds_since_resume
<1>10. CASE e.action \notin {"developer", "director_resume"}
  <2>1. late(new) = late(log)
    BY <1>2, <1>10, WhereAppend
  <2> QED BY <1>1, <1>2, <1>7, <1>10, <2>1 DEF dev_rounds_since_resume
<1> QED BY <1>8, <1>9, <1>10

LEMMA RoundsWithinAppend ==
    ASSUME NEW log \in Seq(Entry), NEW e \in Entry, RoundsWithin(log),
           e.action = "developer" =>
              Rounds(log) + 1 <= MaxLoops + ResumeGrant * Episode(log)
    PROVE  RoundsWithin(Append(log, e))
<1> DEFINE new == Append(log, e)
           bound(n) == MaxLoops + ResumeGrant * n
<1>1. MaxLoops \in Nat /\ ResumeGrant \in Nat /\ Rounds(log) \in Nat /\ Episode(log) \in Nat
      /\ dev_rounds_since_resume(log) \in Nat
  BY ReplayAssumption, RoundsAppend
<1>2. CASE e.action = "director_resume"
  <2>1. /\ Rounds(new) = Rounds(log) /\ Episode(new) = Episode(log) + 1
        /\ dev_rounds_since_resume(new) = 0
    BY <1>2, RoundsAppend
  <2>2. ResumeGrant * (Episode(log) + 1) = ResumeGrant * Episode(log) + ResumeGrant
    BY <1>1
  <2>3. ResumeGrant * Episode(log) \in Nat /\ Episode(log) + 1 - 1 = Episode(log)
    BY <1>1
  <2> DEFINE granted == ResumeGrant * Episode(log)
  <2>4. /\ ResumeGrant * Episode(new) = granted + ResumeGrant
        /\ ResumeGrant * (Episode(new) - 1) = granted
    <3>1. Episode(new) - 1 = Episode(log) /\ Episode(new) = Episode(log) + 1
      BY <1>1, <2>1
    <3> HIDE DEF new
    <3> QED BY <2>2, <3>1
  <2>5. Rounds(log) <= MaxLoops + granted /\ granted \in Nat
    BY <2>3 DEF RoundsWithin
  <2> HIDE DEF granted, new
  <2>6. Rounds(new) <= MaxLoops + (granted + ResumeGrant) /\ Rounds(new) - 0 <= MaxLoops + granted
    BY <1>1, <2>1, <2>5
  <2>7. RoundsWithin(new)
    BY <2>1, <2>4, <2>6 DEF RoundsWithin
  <2> QED BY <2>7 DEF new
<1>3. CASE e.action # "director_resume"
  <2>1. Episode(new) = Episode(log) /\ LastResume(new) = LastResume(log)
    BY <1>3, RoundsAppend
  <2>2. Rounds(new) - dev_rounds_since_resume(new) = Rounds(log) - dev_rounds_since_resume(log)
    BY <1>1, <1>3, RoundsAppend
  <2>3. Rounds(new) <= MaxLoops + ResumeGrant * Episode(log)
    BY <1>3, RoundsAppend DEF RoundsWithin
  <2> QED BY <2>1, <2>2, <2>3 DEF RoundsWithin
<1> QED BY <1>2, <1>3

-----------------------------------------------------------------------------
(* Outcomes are announced                                                  *)
(*                                                                         *)
(* Stated of any set of notifications, so that the same facts serve before *)
(* and after a step that sends one.                                        *)

\* Told, of a given set of notifications.
AnnouncedIn(sent, log) ==
    recorded_terminal(log) # NoState =>
        \E t \in sent :
            /\ t[1] = Episode(log)
            /\ \/ t[2] = recorded_terminal(log)
               \/ recorded_terminal(log) = "PUSHED" /\ Succeeded(t[2])

\* The states a marker may record: retried, or cleared by a resume.  (The
\* others of the taxonomy belong to the report-only path.)
Recordable == RetryableStates \cup ClearedBy("director_resume")

MarksRecordable(log) ==
    \A i \in DOMAIN log : log[i].action = "terminal" => log[i].outcome \in Recordable

\* While the push is the last phase of its episode, its decision is the
\* recorded one and was announced: the "done" branch may repeat it.
PushAnnouncedIn(sent, tree) ==
    LET p == LastPhase(tree.log)
    IN  p # 0 /\ tree.log[p].action = "push" /\ LastResume(tree.log) < p =>
           /\ tree.merge # NoDecision
           /\ <<Episode(tree.log), MergeDecided(tree.merge)>> \in sent

LEMMA RecordableFacts ==
    /\ Recordable \subseteq TerminalStates
    /\ {"CAP_REACHED", "ESCALATED_DEADLOCK", "QUOTA_TIMEOUT", "INTERNAL_ERROR",
        "PUSHED"} \subseteq Recordable
    /\ \A d : MergeDecided(d) \in Recordable /\ Succeeded(MergeDecided(d))
    /\ \A s \in Recordable : Sticky(s) => clears_terminal("director_resume", s)
    /\ \A s \in Recordable : s # NoState
    /\ Succeeded("PUSHED") /\ Sticky("PUSHED") /\ ~Sticky("INTERNAL_ERROR")
    /\ ~Succeeded("CAP_REACHED") /\ ~Succeeded("ESCALATED_DEADLOCK")
    /\ ~Succeeded("QUOTA_TIMEOUT") /\ ~Succeeded("INTERNAL_ERROR")
    /\ \A s \in Recordable : Succeeded(s) => Pushes(s)
<1> USE DEF Recordable, TerminalStates, SuccessStates, MergeDecidedStates, RetryableStates,
            FailureStates, ClearedBy, MergeDecided, MergeDecisions
<1>1. \A d : MergeDecided(d) \in {"MERGE_DECIDED:auto_merge", "MERGE_DECIDED:stop_before_merge"}
  OBVIOUS
<1>2. {MergeDecided(d) : d \in MergeDecisions} =
         {"MERGE_DECIDED:auto_merge", "MERGE_DECIDED:stop_before_merge"}
  OBVIOUS
<1>3. MergeDecidedStates = {"MERGE_DECIDED:auto_merge", "MERGE_DECIDED:stop_before_merge"}
  BY <1>2
<1> QED BY <1>1, <1>3 DEF Succeeded, Sticky, clears_terminal, NoState, Pushes

LEMMA RecordedAppend ==
    ASSUME NEW log \in Seq(Entry), NEW e \in Entry
    PROVE  /\ ~IsMark(e) /\ e.action # "director_resume" =>
                 recorded_terminal(Append(log, e)) = recorded_terminal(log)
           /\ IsMark(e) =>
                 recorded_terminal(Append(log, e)) =
                    IF Sticky(MarkState(e)) THEN MarkState(e) ELSE NoState
           /\ e.action = "director_resume" /\ MarksRecordable(log) =>
                 recorded_terminal(Append(log, e)) = NoState
<1> DEFINE new == Append(log, e)
           cleared(l, i, state) == \E j \in i + 1 .. Len(l) : clears_terminal(l[j].action, state)
<1>1. /\ Len(log) \in Nat /\ Len(new) = Len(log) + 1 /\ LastMark(log) \in 0 .. Len(log)
      /\ \A i \in 1 .. Len(log) : new[i] = log[i]
      /\ new[Len(log) + 1] = e
  BY AppendFacts, MarkAppend
<1>2. ASSUME NEW l
      PROVE  recorded_terminal(l) =
                IF \/ LastMark(l) = 0
                   \/ ~Sticky(last_terminal_state(l))
                   \/ cleared(l, LastMark(l), last_terminal_state(l))
                THEN NoState ELSE last_terminal_state(l)
  BY DEF recorded_terminal
<1>3. ASSUME ~IsMark(e), e.action # "director_resume"
      PROVE  recorded_terminal(new) = recorded_terminal(log)
  <2>1. LastMark(new) = LastMark(log) /\ last_terminal_state(new) = last_terminal_state(log)
    BY <1>3, MarkAppend
  <2>2. ASSUME NEW state
        PROVE  cleared(new, LastMark(log), state) <=> cleared(log, LastMark(log), state)
    <3>1. ~clears_terminal(e.action, state)
      BY <1>3 DEF clears_terminal, ClearedBy
    <3>2. \A j : j \in LastMark(log) + 1 .. Len(new) <=>
                    \/ j \in LastMark(log) + 1 .. Len(log)
                    \/ j = Len(log) + 1
      BY <1>1
    <3>3. \A j \in LastMark(log) + 1 .. Len(log) : new[j] = log[j]
      BY <1>1
    <3> QED BY <1>1, <3>1, <3>2, <3>3
  <2> HIDE DEF cleared, new
  <2> QED BY <1>2, <2>1, <2>2
<1>4. ASSUME IsMark(e)
      PROVE  recorded_terminal(new) = IF Sticky(MarkState(e)) THEN MarkState(e) ELSE NoState
  <2>1. LastMark(new) = Len(log) + 1 /\ last_terminal_state(new) = MarkState(e)
    BY <1>4, MarkAppend
  <2>2. \A state : ~cleared(new, Len(log) + 1, state)
    BY <1>1
  <2>3. Len(log) + 1 # 0
    BY <1>1
  <2> HIDE DEF cleared, new
  <2> QED BY <1>2, <2>1, <2>2, <2>3
<1>5. ASSUME e.action = "director_resume", MarksRecordable(log)
      PROVE  recorded_terminal(new) = NoState
  <2>1. LastMark(new) = LastMark(log) /\ last_terminal_state(new) = last_terminal_state(log)
    BY <1>5, MarkAppend DEF IsMark
  <2>2. CASE LastMark(log) = 0
    BY <1>2, <2>1, <2>2
  <2>3. CASE LastMark(log) # 0
    <3>1. last_terminal_state(log) \in Recordable
      <4>1. LastMark(log) \in {i \in DOMAIN log : IsMark(log[i])}
        <5>1. {i \in DOMAIN log : IsMark(log[i])} \in SUBSET (1 .. Len(log))
          BY AppendFacts
        <5> QED BY <1>1, <2>3, <5>1, LatestIsGreatest DEF LastMark
      <4>2. last_terminal_state(log) = MarkState(log[LastMark(log)])
        BY <2>3 DEF last_terminal_state
      <4> QED BY <1>5, <4>1, <4>2, RecordableFacts DEF MarkState, MarksRecordable
    <3>2. Sticky(last_terminal_state(log)) =>
             cleared(new, LastMark(log), last_terminal_state(log))
      <4>1. Len(log) + 1 \in LastMark(log) + 1 .. Len(new)
        BY <1>1
      <4> QED BY <1>1, <1>5, <3>1, <4>1, RecordableFacts
    <3> HIDE DEF cleared, new
    <3> QED BY <1>2, <2>1, <3>2
  <2> QED BY <2>2, <2>3
<1> QED BY <1>3, <1>4, <1>5

-----------------------------------------------------------------------------
(* What every tree satisfies, and what keeps it so *)

TreeSound(sent, tree) ==
    /\ FullyGated(tree.log)
    /\ GateChain(tree.log)
    /\ RoundsWithin(tree.log)
    /\ MarksRecordable(tree.log)
    /\ AnnouncedIn(sent, tree.log)
    /\ PushAnnouncedIn(sent, tree)

\* An entry that the loop may append to this log.
Follows(log, e) ==
    /\ e.action \notin {"push", "terminal", "director_resume"}
    /\ e.action \in {"rw1", "rw2", "authoritative"} => Due(log, e.action)
    /\ e.action = "developer" =>
          Rounds(log) + 1 <= MaxLoops + ResumeGrant * Episode(log)

LEMMA SoundLater ==
    ASSUME NEW sent, NEW later, sent \subseteq later, NEW tree, TreeSound(sent, tree)
    PROVE  TreeSound(later, tree)
BY DEF TreeSound, AnnouncedIn, PushAnnouncedIn

LEMMA SoundEdited ==
    ASSUME NEW sent, NEW tree, NEW edited, TreeSound(sent, tree), edited.log = tree.log,
           \/ edited.merge = tree.merge
           \/ LastIs(tree.log, "authoritative", "pass")
    PROVE  TreeSound(sent, edited)
BY DEF TreeSound, PushAnnouncedIn, LastIs

LEMMA MarksAppend ==
    ASSUME NEW log \in Seq(Entry), NEW e \in Entry, MarksRecordable(log),
           e.action = "terminal" => e.outcome \in Recordable
    PROVE  MarksRecordable(Append(log, e))
<1>1. ASSUME NEW i \in DOMAIN Append(log, e), Append(log, e)[i].action = "terminal"
      PROVE  Append(log, e)[i].outcome \in Recordable
  <2>1. CASE i = Len(log) + 1
    BY <1>1, <2>1, AppendFacts
  <2>2. CASE i # Len(log) + 1
    <3>1. i \in 1 .. Len(log) /\ i \in DOMAIN log /\ Append(log, e)[i] = log[i]
      BY <2>2, AppendFacts
    <3> QED BY <1>1, <3>1 DEF MarksRecordable
  <2> QED BY <2>1, <2>2
<1> QED BY <1>1 DEF MarksRecordable

LEMMA PushAnnouncedAppend ==
    ASSUME NEW tree \in Tree, NEW e \in Entry, NEW sent, PushAnnouncedIn(sent, tree),
           e.action # "push"
    PROVE  PushAnnouncedIn(sent, Logged(tree, e))
<1> DEFINE new == Append(tree.log, e)
<1>1. tree.log \in Seq(Entry) /\ Logged(tree, e).log = new
      /\ Logged(tree, e).merge = tree.merge
  BY LoggedType DEF Logged, Tree
<1>2. Len(tree.log) \in Nat /\ new[Len(tree.log) + 1] = e
  BY <1>1, AppendFacts
<1>3. CASE e.action \in PhaseActions
  <2>1. LastPhase(new) = Len(tree.log) + 1
    BY <1>1, <1>3, LastPhaseAppend
  <2> QED BY <1>1, <1>2, <2>1 DEF PushAnnouncedIn
<1>4. CASE e.action = "director_resume"
  <2>1. LastResume(new) = Len(tree.log) + 1 /\ LastPhase(new) = LastPhase(tree.log)
    BY <1>1, <1>4, RoundsAppend, LastPhaseAppend DEF PhaseActions
  <2>2. LastPhase(tree.log) \in 0 .. Len(tree.log)
    BY <1>1, LatestWhere DEF LastPhase
  <2>3. ~(LastResume(new) < LastPhase(new))
    BY <1>2, <2>1, <2>2
  <2> HIDE DEF new
  <2> QED BY <1>1, <2>3 DEF PushAnnouncedIn
<1>5. CASE e.action \notin PhaseActions \cup {"director_resume"}
  <2>1. /\ LastResume(new) = LastResume(tree.log) /\ LastPhase(new) = LastPhase(tree.log)
        /\ Episode(new) = Episode(tree.log)
    BY <1>1, <1>5, RoundsAppend, LastPhaseAppend
  <2>2. LastPhase(tree.log) # 0 => new[LastPhase(tree.log)] = tree.log[LastPhase(tree.log)]
    BY <1>1, LastPhaseFacts, AppendFacts
  <2> HIDE DEF new
  <2> QED BY <1>1, <2>1, <2>2 DEF PushAnnouncedIn
<1> QED BY <1>3, <1>4, <1>5

\* A phase's entry.
LEMMA SoundAppend ==
    ASSUME NEW tree \in Tree, NEW e \in Entry, NEW sent, TreeSound(sent, tree),
           Follows(tree.log, e)
    PROVE  TreeSound(sent, Logged(tree, e))
<1> DEFINE new == Append(tree.log, e)
<1>1. tree.log \in Seq(Entry) /\ Logged(tree, e).log = new
  BY LoggedType DEF Tree
<1>2. /\ e.action \notin {"push", "terminal", "director_resume"}
      /\ e.action \in {"rw1", "rw2", "authoritative"} => Due(tree.log, e.action)
      /\ e.action = "developer" =>
            Rounds(tree.log) + 1 <= MaxLoops + ResumeGrant * Episode(tree.log)
  BY DEF Follows
<1>3. FullyGated(new) /\ GateChain(new) /\ RoundsWithin(new) /\ MarksRecordable(new)
  BY <1>1, <1>2, FullyGatedAppend, GateChainAppend, RoundsWithinAppend, MarksAppend
     DEF TreeSound
<1>4. recorded_terminal(new) = recorded_terminal(tree.log)
      /\ Episode(new) = Episode(tree.log)
  BY <1>1, <1>2, RecordedAppend, RoundsAppend DEF IsMark
<1>5. PushAnnouncedIn(sent, Logged(tree, e))
  BY <1>2, PushAnnouncedAppend DEF TreeSound
<1> HIDE DEF new
<1> QED BY <1>1, <1>3, <1>4, <1>5 DEF TreeSound, AnnouncedIn

\* The entry of a resume: nothing is recorded afterwards.
LEMMA SoundResumed ==
    ASSUME NEW tree \in Tree, NEW sent, TreeSound(sent, tree)
    PROVE  TreeSound(sent, Logged(tree, Plain("director_resume", "ok")))
<1> DEFINE e == Plain("director_resume", "ok")
           new == Append(tree.log, e)
<1>1. e \in Entry /\ e.action = "director_resume"
  BY PlainType, ActionNames, OutcomeNames DEF Plain
<1>2. tree.log \in Seq(Entry) /\ Logged(tree, e).log = new
  BY <1>1, LoggedType DEF Tree
<1> HIDE DEF e
<1>3. FullyGated(new) /\ GateChain(new) /\ RoundsWithin(new) /\ MarksRecordable(new)
  BY <1>1, <1>2, FullyGatedAppend, GateChainAppend, RoundsWithinAppend, MarksAppend
     DEF TreeSound
<1>4. recorded_terminal(new) = NoState
  BY <1>1, <1>2, RecordedAppend DEF TreeSound
<1>5. PushAnnouncedIn(sent, Logged(tree, e))
  BY <1>1, PushAnnouncedAppend DEF TreeSound
<1>6. TreeSound(sent, Logged(tree, e))
  <2> HIDE DEF new
  <2> QED BY <1>2, <1>3, <1>4, <1>5 DEF TreeSound, AnnouncedIn
<1> QED BY <1>6 DEF e

\* A marker: a sticky one was announced before it is recorded.
LEMMA SoundMarked ==
    ASSUME NEW tree \in Tree, NEW sent, TreeSound(sent, tree), NEW state \in Recordable,
           Sticky(state) => <<Episode(tree.log), state>> \in sent
    PROVE  TreeSound(sent, Logged(tree, Plain("terminal", state)))
<1> DEFINE e == Plain("terminal", state)
           new == Append(tree.log, e)
<1>1. e \in Entry /\ e.action = "terminal" /\ e.outcome = state
  <2>1. state \in Outcomes
    BY RecordableFacts, StateTypes
  <2> QED BY <2>1, PlainType, ActionNames DEF Plain
<1>2. tree.log \in Seq(Entry) /\ Logged(tree, e).log = new
  BY <1>1, LoggedType DEF Tree
<1> HIDE DEF e
<1>3. FullyGated(new) /\ GateChain(new) /\ RoundsWithin(new) /\ MarksRecordable(new)
  BY <1>1, <1>2, FullyGatedAppend, GateChainAppend, RoundsWithinAppend, MarksAppend
     DEF TreeSound
<1>4. recorded_terminal(new) = IF Sticky(state) THEN state ELSE NoState
  BY <1>1, <1>2, RecordedAppend DEF IsMark, MarkState
<1>5. Episode(new) = Episode(tree.log)
  BY <1>1, <1>2, RoundsAppend
<1>6. AnnouncedIn(sent, new)
  <2> HIDE DEF new
  <2>1. CASE Sticky(state)
    <3> DEFINE t == <<Episode(tree.log), state>>
    <3>1. t \in sent /\ t[1] = Episode(new) /\ t[2] = recorded_terminal(new)
      BY <1>4, <1>5, <2>1
    <3> HIDE DEF t
    <3> QED BY <3>1 DEF AnnouncedIn
  <2>2. CASE ~Sticky(state)
    BY <1>4, <2>2 DEF AnnouncedIn
  <2> QED BY <2>1, <2>2
<1>7. PushAnnouncedIn(sent, Logged(tree, e))
  BY <1>1, PushAnnouncedAppend DEF TreeSound
<1>8. TreeSound(sent, Logged(tree, e))
  <2> HIDE DEF new
  <2> QED BY <1>2, <1>3, <1>6, <1>7 DEF TreeSound
<1> QED BY <1>8 DEF e

\* A push entry: logged on a gated tree whose decision was announced.
LEMMA SoundPushed ==
    ASSUME NEW tree \in Tree, NEW sent, TreeSound(sent, tree),
           LastIs(tree.log, "authoritative", "pass"), tree.merge # NoDecision,
           <<Episode(tree.log), MergeDecided(tree.merge)>> \in sent
    PROVE  TreeSound(sent, Logged(tree, Plain("push", "ok")))
<1> DEFINE e == Plain("push", "ok")
           new == Append(tree.log, e)
           t == <<Episode(tree.log), MergeDecided(tree.merge)>>
<1>1. e \in Entry /\ e.action = "push" /\ e.outcome = "ok"
  BY PlainType, ActionNames, OutcomeNames DEF Plain
<1>2. tree.log \in Seq(Entry) /\ Logged(tree, e).log = new
      /\ Logged(tree, e).merge = tree.merge
  BY <1>1, LoggedType DEF Tree, Logged
<1> HIDE DEF e
<1>3. Reviewed(tree.log)
  BY DEF TreeSound, GateChain
<1>4. FullyGated(new) /\ GateChain(new) /\ RoundsWithin(new) /\ MarksRecordable(new)
  BY <1>1, <1>2, <1>3, FullyGatedAppend, GateChainAppend, RoundsWithinAppend, MarksAppend
     DEF TreeSound
<1>5. recorded_terminal(new) = "PUSHED"
  BY <1>1, <1>2, RecordedAppend, RecordableFacts DEF IsMark, MarkState
<1>6. Episode(new) = Episode(tree.log)
  BY <1>1, <1>2, RoundsAppend
<1>7. t \in sent /\ t[1] = Episode(new) /\ Succeeded(t[2])
  BY <1>6, RecordableFacts
<1>8. AnnouncedIn(sent, new) /\ PushAnnouncedIn(sent, Logged(tree, e))
  <2> HIDE DEF new
  <2>1. PushAnnouncedIn(sent, Logged(tree, e))
    BY <1>2, <1>6 DEF PushAnnouncedIn
  <2> HIDE DEF t
  <2> QED BY <1>5, <1>7, <2>1 DEF AnnouncedIn
<1>9. TreeSound(sent, Logged(tree, e))
  <2> HIDE DEF new
  <2> QED BY <1>2, <1>4, <1>8 DEF TreeSound
<1> QED BY <1>9 DEF e

-----------------------------------------------------------------------------
(* The inductive invariant                                                 *)
(*                                                                         *)
(* Each tree is sound; the hub's log is the beginning of the committed     *)
(* one, and that of the working one; a push entry lies at most one past    *)
(* the end of the hub's log.  Between these entries the process itself     *)
(* knows more: the entry in flight follows the log, the tail records the   *)
(* decision that was taken on this log, after it was pushed and announced. *)

Beginning(s, t) == Len(s) <= Len(t) /\ \A i \in 1 .. Len(s) : s[i] = t[i]

LogsNested == Beginning(hub.log, head.log) /\ Beginning(head.log, wt.log)

PushesOnHub == \A p \in Where(wt.log, {"push"}) : p - 1 <= Len(hub.log)

TreesSound == TreeSound(told, wt) /\ TreeSound(told, head) /\ TreeSound(told, hub)

DiskInv == TreesSound /\ LogsNested /\ PushesOnHub

JobFollows == pc \in {"append", "adopt_append"} => Follows(wt.log, job)

TailSound ==
    /\ pc \in TailPcs => fin \in Recordable
    /\ pc \in {"fin_commit", "fin_push", "fin_notify", "fin_pushok"} /\ Succeeded(fin) =>
          /\ LastIs(wt.log, "authoritative", "pass")
          /\ wt.merge # NoDecision
          /\ fin = MergeDecided(wt.merge)
    /\ pc = "fin_push" => wt.log = head.log
    /\ pc \in {"fin_notify", "fin_pushok"} /\ Succeeded(fin) => wt.log = hub.log
    /\ pc = "fin_pushok" => Succeeded(fin)
    /\ pc \in {"fin_pushok", "fin_marker"} => <<Episode(wt.log), fin>> \in told

Reported == pinged \/ \E t \in told : t[1] = Episode(wt.log) /\ Succeeded(t[2])

Reporting ==
    /\ pc \in {"fin_marker", "fin_mcommit", "fin_mpush"} => Reported
    /\ exit = "returned" => pc = "idle" /\ director = "none" /\ Reported
    /\ director # "none" => pc = "idle"

LoopInv == DiskInv /\ JobFollows /\ TailSound /\ Reporting

-----------------------------------------------------------------------------
(* How the disk changes *)

LEMMA BeginningFacts ==
    /\ \A s \in Seq(Entry) : Beginning(s, s)
    /\ \A s, t, u \in Seq(Entry) : Beginning(s, t) /\ Beginning(t, u) => Beginning(s, u)
    /\ \A s, t \in Seq(Entry), e \in Entry : Beginning(s, t) => Beginning(s, Append(t, e))
<1>1. \A s \in Seq(Entry) : Len(s) \in Nat
  OBVIOUS
<1>2. ASSUME NEW s \in Seq(Entry), NEW t \in Seq(Entry), NEW u \in Seq(Entry),
             Beginning(s, t), Beginning(t, u)
      PROVE  Beginning(s, u)
  <2>1. Len(s) <= Len(u) /\ Len(s) <= Len(t)
    BY <1>1, <1>2 DEF Beginning
  <2>2. \A i \in 1 .. Len(s) : i \in 1 .. Len(t)
    BY <1>1, <2>1
  <2> QED BY <1>2, <2>1, <2>2 DEF Beginning
<1>3. ASSUME NEW s \in Seq(Entry), NEW t \in Seq(Entry), NEW e \in Entry, Beginning(s, t)
      PROVE  Beginning(s, Append(t, e))
  <2>1. Len(s) <= Len(t) /\ Len(Append(t, e)) = Len(t) + 1
    BY <1>3, AppendFacts DEF Beginning
  <2>2. \A i \in 1 .. Len(s) : i \in 1 .. Len(t)
    BY <1>1, <2>1
  <2>3. \A i \in 1 .. Len(s) : Append(t, e)[i] = s[i]
    BY <1>3, <2>2, AppendFacts DEF Beginning
  <2>4. Len(s) <= Len(Append(t, e))
    BY <1>1, <2>1
  <2> QED BY <2>3, <2>4 DEF Beginning
<1> QED BY <1>1, <1>2, <1>3 DEF Beginning

LEMMA TreeLogs == TypeOK => /\ wt.log \in Seq(Entry) /\ head.log \in Seq(Entry)
                            /\ hub.log \in Seq(Entry) /\ Len(hub.log) \in Nat
                            /\ wt \in Tree /\ head \in Tree /\ hub \in Tree
BY DEF TypeOK, Tree

\* The logs stay and notifications are only added.
LEMMA DiskKept ==
    ASSUME TypeOK, DiskInv, told \subseteq told',
           wt'.log = wt.log, head' = head, hub'.log = hub.log, hub'.merge = hub.merge,
           wt'.merge = wt.merge \/ LastIs(wt.log, "authoritative", "pass")
    PROVE  DiskInv'
<1>1. TreeSound(told', wt') /\ TreeSound(told', head') /\ TreeSound(told', hub')
  BY SoundLater, SoundEdited DEF DiskInv, TreesSound
<1> QED BY <1>1 DEF DiskInv, TreesSound, LogsNested, PushesOnHub

\* A commit, a push, and a hard reset onto the hub.
LEMMA DiskCopied ==
    ASSUME TypeOK, DiskInv, told' = told,
           \/ wt' = wt /\ head' \in {wt, head} /\ hub' = hub
           \/ wt' = wt /\ head' = head /\ hub' = head
           \/ wt' = hub /\ head' = hub /\ hub' = hub
    PROVE  DiskInv'
<1> USE TreeLogs, BeginningFacts
<1>1. TreeSound(told, wt) /\ TreeSound(told, head) /\ TreeSound(told, hub)
  BY DEF DiskInv, TreesSound
<1>2. TreesSound'
  BY <1>1 DEF TreesSound
<1>3. LogsNested'
  BY DEF DiskInv, LogsNested
<1>4. Len(hub.log) <= Len(head.log) /\ Len(head.log) \in Nat
  BY DEF DiskInv, LogsNested, Beginning
<1>5. ASSUME NEW p \in Where(wt.log, {"push"}) \cup Where(hub.log, {"push"})
      PROVE  p \in Nat /\ (p \in Where(hub.log, {"push"}) => p <= Len(hub.log))
  BY AppendFacts DEF Where
<1>6. PushesOnHub'
  BY <1>4, <1>5 DEF DiskInv, PushesOnHub
<1> QED BY <1>2, <1>3, <1>6 DEF DiskInv

\* An entry is appended to the working tree's log.
LEMMA DiskLogged ==
    ASSUME TypeOK, DiskInv, told' = told, head' = head, hub' = hub,
           NEW e \in Entry, wt' = Logged(wt, e), TreeSound(told, Logged(wt, e)),
           e.action = "push" => wt.log = hub.log
    PROVE  DiskInv'
<1>1. wt'.log = Append(wt.log, e)
  BY TreeLogs, LoggedType
<1>2. TreesSound'
  BY DEF DiskInv, TreesSound
<1>3. LogsNested'
  BY <1>1, TreeLogs, BeginningFacts DEF DiskInv, LogsNested
<1>4. ASSUME NEW p \in Where(wt'.log, {"push"})
      PROVE  p - 1 <= Len(hub.log)
  <2>1. CASE p \in Where(wt.log, {"push"})
    BY <2>1 DEF DiskInv, PushesOnHub
  <2>2. CASE p = Len(wt.log) + 1 /\ e.action = "push"
    BY <2>2, TreeLogs
  <2> QED BY <1>1, <1>4, <2>1, <2>2, TreeLogs, WhereAppend
<1>5. PushesOnHub'
  BY <1>4 DEF PushesOnHub
<1> QED BY <1>2, <1>3, <1>5 DEF DiskInv

-----------------------------------------------------------------------------
(* The phase that the replay chooses *)

LEMMA PhaseFacts ==
    ASSUME TypeOK, RoundsWithin(wt.log)
    PROVE  /\ Phase \in {"rw1", "rw2", "authoritative", "push"} => Due(wt.log, Phase)
           /\ Phase = "developer" =>
                 Rounds(wt.log) + 1 <= MaxLoops + ResumeGrant * Episode(wt.log)
           /\ Phase = "done" =>
                 Due(wt.log, "done") /\ LastResume(wt.log) < LastPhase(wt.log)
<1> DEFINE log == wt.log
           derived == derive_resume_point(log)
           forced == ResumeForcesDeveloper(log, derived)
<1>0. /\ log \in Seq(Entry) /\ Rounds(log) \in Nat /\ Episode(log) \in Nat
      /\ dev_rounds_since_resume(log) \in 0 .. Rounds(log)
      /\ MaxLoops \in Nat /\ ResumeGrant \in Nat \ {0}
  <2>1. log \in Seq(Entry)
    BY TreeLogs
  <2>2. NoJob \in Entry
    BY PlainType, ActionNames, OutcomeNames DEF NoJob
  <2> QED BY <2>1, <2>2, RoundsAppend, ReplayAssumption
<1>1. Phase = IF forced THEN "developer" ELSE override_phase(derived)
  BY DEF Phase
<1>2. \/ Phase \in {"developer", "deadlock", "senior"}
      \/ ~forced /\ Phase = derived
  BY <1>1 DEF override_phase
<1>3. \/ derived = "cap_reached"
      \/ derived = "developer" /\ Rounds(log) < MaxLoops
      \/ derived # "developer" /\ Due(log, derived)
  <2> DEFINE last == LastPhase(log)
             next == IF last = 0 THEN "developer" ELSE NextAfter(log[last])
  <2>1. derived = IF next = "developer" /\ Rounds(log) >= MaxLoops THEN "cap_reached" ELSE next
    BY DEF derive_resume_point
  <2>2. last # 0 => Due(log, next)
    BY DEF Due
  <2> HIDE DEF derived, log
  <2> QED BY <1>0, <2>1, <2>2
<1>4. ASSUME Phase \in {"rw1", "rw2", "authoritative", "push"}
      PROVE  Due(log, Phase)
  <2> HIDE DEF derived, log, forced
  <2> QED BY <1>2, <1>3, <1>4
<1>5. ResumeGrant * Episode(log) \in Nat
  BY <1>0
<1>6. ASSUME Phase = "developer"
      PROVE  Rounds(log) + 1 <= MaxLoops + ResumeGrant * Episode(log)
  <2>1. CASE Rounds(log) < MaxLoops
    <3> DEFINE granted == ResumeGrant * Episode(log)
    <3> HIDE DEF granted, log
    <3>1. granted \in Nat
      BY <1>5 DEF granted
    <3>2. Rounds(log) + 1 <= MaxLoops + granted
      BY <1>0, <2>1, <3>1
    <3> QED BY <3>2 DEF granted
  <2>2. CASE forced
    <3> DEFINE late == dev_rounds_since_resume(log)
               before == ResumeGrant * (Episode(log) - 1)
    <3>1. LastResume(log) # 0 /\ late < ResumeGrant
      BY <2>2 DEF ResumeForcesDeveloper
    <3>2. Rounds(log) - late <= MaxLoops + before
      BY <3>1 DEF RoundsWithin
    <3>3. ResumeGrant * Episode(log) = before + ResumeGrant /\ before \in Int
      BY <1>0
    <3>4. late \in Nat
      BY <1>0
    <3> HIDE DEF late, before, log
    <3> QED BY <1>0, <3>1, <3>2, <3>3, <3>4
  <2>3. CASE ~forced /\ Phase = override_phase(derived)
    <3>1. override_phase(derived) = "developer" => derived = "developer"
      BY DEF override_phase
    <3> HIDE DEF derived, log
    <3> QED BY <1>3, <1>6, <2>1, <2>3, <3>1
  <2> HIDE DEF derived, log, forced
  <2> QED BY <1>1, <2>2, <2>3
<1>7. ASSUME Phase = "done"
      PROVE  Due(log, "done") /\ LastResume(log) < LastPhase(log)
  <2>1. derived = "done" /\ ~forced
    <3> HIDE DEF derived, log, forced
    <3> QED BY <1>2, <1>7
  <2>2. Due(log, "done")
    <3> HIDE DEF derived, log, forced
    <3> QED BY <1>3, <2>1
  <2>3. \/ LastResume(log) = 0
        \/ dev_rounds_since_resume(log) > 0
    BY <1>0, <2>1 DEF ResumeForcesDeveloper, FlowthroughPhases
  <2>4. LastPhase(log) # 0
    BY <2>2 DEF Due
  <2>5. CASE LastResume(log) = 0
    <3>1. LastPhase(log) \in 1 .. Len(log) /\ Len(log) \in Nat
      BY <1>0, <2>4, LastPhaseFacts, AppendFacts
    <3> HIDE DEF log
    <3> QED BY <2>2, <2>5, <3>1
  <2>6. CASE dev_rounds_since_resume(log) > 0
    <3> DEFINE late == {i \in Where(log, {"developer"}) : i > LastResume(log)}
    <3>1. late # {}
      BY <2>6, FS_EmptySet DEF dev_rounds_since_resume
    <3>2. PICK i \in late : TRUE
      BY <3>1
    <3>3. i \in Where(log, PhaseActions) /\ i > LastResume(log)
      BY <3>2 DEF Where, PhaseActions
    <3>4. i <= LastPhase(log)
      BY <1>0, <3>3, LatestWhere DEF LastPhase
    <3>5. i \in Int /\ LastPhase(log) \in Int /\ LastResume(log) \in Int
      <4>1. Len(log) \in Nat /\ i \in 1 .. Len(log)
        BY <1>0, <3>3 DEF Where
      <4>2. LastPhase(log) \in 0 .. Len(log) /\ LastResume(log) \in 0 .. Len(log)
        BY <1>0, LatestWhere DEF LastPhase, LastResume
      <4> QED BY <4>1, <4>2
    <3> HIDE DEF late, log
    <3> QED BY <2>2, <3>3, <3>4, <3>5
  <2> QED BY <2>2, <2>3, <2>5, <2>6
<1> QED BY <1>4, <1>6, <1>7

-----------------------------------------------------------------------------
(* The steps *)

\* A phase that ran left the log and an entry that follows it.
LEMMA RanPhaseKeeps ==
    ASSUME TypeOK, LoopInv, NEW tree, NEW e, RanPhase(tree, e), pc # "idle",
           tree.log = wt.log, tree.merge = wt.merge, Follows(wt.log, e)
    PROVE  LoopInv'
<1>1. /\ wt' = tree /\ job' = e /\ pc' = "append" /\ head' = head /\ hub' = hub
      /\ told' = told /\ exit' = exit /\ director' = director /\ pinged' = pinged
  BY DEF RanPhase, people, status
<1>2. DiskInv'
  BY <1>1, DiskKept DEF LoopInv
<1>3. JobFollows'
  BY <1>1 DEF JobFollows
<1>4. TailSound' /\ Reporting'
  BY <1>1 DEF TailSound, Reporting, TailPcs, LoopInv
<1> QED BY <1>2, <1>3, <1>4 DEF LoopInv

\* A phase edits the tree outside its log and chooses an entry that follows.
LEMMA PhasesRan ==
    ASSUME TypeOK, LoopInv,
           \/ RunExplorer \/ RunDeveloper \/ RunFastTests \/ RunRw1 \/ RunRw2
           \/ RunAuthoritative \/ RunSenior
    PROVE  \E tree, e : /\ RanPhase(tree, e) /\ tree.log = wt.log
                        /\ tree.merge = wt.merge /\ Follows(wt.log, e)
<1> DEFINE Ran(tree, e) ==
              RanPhase(tree, e) /\ tree.log = wt.log /\ tree.merge = wt.merge
                 /\ Follows(wt.log, e)
<1>0. wt \in Tree /\ RoundsWithin(wt.log)
  BY DEF LoopInv, DiskInv, TreesSound, TreeSound, TypeOK
<1> SUFFICES \E tree, e : Ran(tree, e)
  OBVIOUS
<1> USE DEF Follows
<1>1. \A o, fp : /\ \A a : Plain(a, o).action = a
                 /\ \A a : Verdict(a, o, fp).action = a
  BY DEF Plain, Verdict
<1>2. ASSUME NEW code
      PROVE  [wt EXCEPT !.code = code].log = wt.log
             /\ [wt EXCEPT !.code = code].merge = wt.merge
  BY <1>0 DEF Tree
<1>3. CASE RunExplorer
  <2>1. PICK outcome, code : RanPhase([wt EXCEPT !.code = code], Plain("explorer", outcome))
    BY <1>3 DEF RunExplorer
  <2>2. Ran([wt EXCEPT !.code = code], Plain("explorer", outcome))
    BY <1>1, <1>2, <2>1
  <2> QED BY <2>2
<1>4. CASE RunDeveloper
  <2>1. PICK outcome, code : RanPhase([wt EXCEPT !.code = code], Plain("developer", outcome))
    BY <1>4 DEF RunDeveloper
  <2>2. Rounds(wt.log) + 1 <= MaxLoops + ResumeGrant * Episode(wt.log)
    BY <1>0, <1>4, PhaseFacts DEF RunDeveloper, At
  <2>3. Ran([wt EXCEPT !.code = code], Plain("developer", outcome))
    BY <1>1, <1>2, <2>1, <2>2
  <2> QED BY <2>3
<1>5. CASE RunFastTests
  <2>1. PICK e : RanPhase(wt, e) /\ e.action = "fast_tests"
    <3>1. \A outcome, fp :
             /\ [Plain("fast_tests", outcome) EXCEPT !.seen = wt.code].action = "fast_tests"
             /\ [Plain("fast_tests", outcome) EXCEPT !.seen = wt.code, !.fp = fp].action
                   = "fast_tests"
      BY DEF Plain
    <3> QED BY <1>5, <3>1 DEF RunFastTests
  <2>2. Ran(wt, e)
    BY <2>1
  <2> QED BY <2>2
<1>6. CASE RunRw1
  <2>1. Due(wt.log, "rw1")
    BY <1>0, <1>6, PhaseFacts DEF RunRw1, At
  <2>2. \A code, risk : /\ [wt EXCEPT !.code = code, !.rw1risk = risk].log = wt.log
                        /\ [wt EXCEPT !.code = code, !.rw1risk = risk].merge = wt.merge
    BY <1>0 DEF Tree
  <2>3. \/ \E code : RanPhase([wt EXCEPT !.code = code], Plain("rw1", "malformed"))
        \/ \E code, risk, outcome :
              RanPhase([wt EXCEPT !.code = code, !.rw1risk = risk],
                       Verdict("rw1", outcome, NoFp))
    BY <1>6 DEF RunRw1
  <2>4. CASE \E code : RanPhase([wt EXCEPT !.code = code], Plain("rw1", "malformed"))
    <3>1. PICK code : RanPhase([wt EXCEPT !.code = code], Plain("rw1", "malformed"))
      BY <2>4
    <3>2. Ran([wt EXCEPT !.code = code], Plain("rw1", "malformed"))
      BY <1>1, <1>2, <2>1, <3>1
    <3> QED BY <3>2
  <2>5. CASE \E code, risk, outcome :
                RanPhase([wt EXCEPT !.code = code, !.rw1risk = risk],
                         Verdict("rw1", outcome, NoFp))
    <3>1. PICK code, risk, outcome :
             RanPhase([wt EXCEPT !.code = code, !.rw1risk = risk],
                      Verdict("rw1", outcome, NoFp))
      BY <2>5
    <3>2. Ran([wt EXCEPT !.code = code, !.rw1risk = risk], Verdict("rw1", outcome, NoFp))
      BY <1>1, <2>1, <2>2, <3>1
    <3> QED BY <3>2
  <2> QED BY <2>3, <2>4, <2>5
<1>7. CASE RunRw2
  <2>1. Due(wt.log, "rw2")
    BY <1>0, <1>7, PhaseFacts DEF RunRw2, At
  <2>2. \A code, risk, b :
           /\ [wt EXCEPT !.code = code, !.rw2risk = risk, !.rw2blocks = b].log = wt.log
           /\ [wt EXCEPT !.code = code, !.rw2risk = risk, !.rw2blocks = b].merge = wt.merge
    BY <1>0 DEF Tree
  <2>3. \/ \E code : RanPhase([wt EXCEPT !.code = code], Plain("rw2", "malformed"))
        \/ \E code, risk, b, outcome, fp :
              RanPhase([wt EXCEPT !.code = code, !.rw2risk = risk, !.rw2blocks = b],
                       Verdict("rw2", outcome, fp))
    BY <1>7 DEF RunRw2
  <2>4. CASE \E code : RanPhase([wt EXCEPT !.code = code], Plain("rw2", "malformed"))
    <3>1. PICK code : RanPhase([wt EXCEPT !.code = code], Plain("rw2", "malformed"))
      BY <2>4
    <3>2. Ran([wt EXCEPT !.code = code], Plain("rw2", "malformed"))
      BY <1>1, <1>2, <2>1, <3>1
    <3> QED BY <3>2
  <2>5. CASE \E code, risk, b, outcome, fp :
                RanPhase([wt EXCEPT !.code = code, !.rw2risk = risk, !.rw2blocks = b],
                         Verdict("rw2", outcome, fp))
    <3>1. PICK code, risk, b, outcome, fp :
             RanPhase([wt EXCEPT !.code = code, !.rw2risk = risk, !.rw2blocks = b],
                      Verdict("rw2", outcome, fp))
      BY <2>5
    <3>2. Ran([wt EXCEPT !.code = code, !.rw2risk = risk, !.rw2blocks = b],
              Verdict("rw2", outcome, fp))
      BY <1>1, <2>1, <2>2, <3>1
    <3> QED BY <3>2
  <2> QED BY <2>3, <2>4, <2>5
<1>8. CASE RunAuthoritative
  <2>1. Due(wt.log, "authoritative")
    BY <1>0, <1>8, PhaseFacts DEF RunAuthoritative, At
  <2>2. PICK e : RanPhase(wt, e) /\ e.action = "authoritative"
    <3> DEFINE result(outcome) == [Plain("authoritative", outcome) EXCEPT
                                      !.sha = head.code, !.seen = head.code]
    <3>1. \A outcome, b, fp :
             /\ [result(outcome) EXCEPT !.flaky = b].action = "authoritative"
             /\ [result(outcome) EXCEPT !.fp = fp].action = "authoritative"
      BY DEF Plain
    <3>2. \/ \E b : RanPhase(wt, [result("pass") EXCEPT !.flaky = b])
          \/ \E fp : RanPhase(wt, [result("fail") EXCEPT !.fp = fp])
      BY <1>8 DEF RunAuthoritative
    <3> HIDE DEF result
    <3> QED BY <3>1, <3>2
  <2>3. Ran(wt, e)
    BY <2>1, <2>2
  <2> QED BY <2>3
<1>9. CASE RunSenior
  <2>1. PICK code :
           \/ RanPhase([wt EXCEPT !.code = code], Plain("senior", "deadlock"))
           \/ \E outcome : RanPhase([wt EXCEPT !.code = code], Verdict("senior", outcome, NoFp))
    BY <1>9 DEF RunSenior
  <2>2. \/ Ran([wt EXCEPT !.code = code], Plain("senior", "deadlock"))
        \/ \E outcome : Ran([wt EXCEPT !.code = code], Verdict("senior", outcome, NoFp))
    BY <1>1, <1>2, <2>1
  <2> QED BY <2>2
<1> QED BY <1>3, <1>4, <1>5, <1>6, <1>7, <1>8, <1>9

LEMMA PhasesKeep ==
    ASSUME TypeOK, LoopInv,
           \/ RunExplorer \/ RunDeveloper \/ RunFastTests \/ RunRw1 \/ RunRw2
           \/ RunAuthoritative \/ RunSenior
    PROVE  LoopInv'
<1>1. pc # "idle"
  BY DEF RunExplorer, RunDeveloper, RunFastTests, RunRw1, RunRw2, RunAuthoritative,
         RunSenior, At
<1> QED BY <1>1, PhasesRan, RanPhaseKeeps

LEMMA CommitsKeep ==
    ASSUME TypeOK, LoopInv,
           \/ AppendEntry \/ CommitEntry \/ FinalCommit \/ FinalPush \/ MarkerCommit
           \/ MarkerPush \/ ErrorCommit
    PROVE  LoopInv'
<1> USE DEF trees, people, process, status, TailPcs
<1>0. /\ DiskInv /\ JobFollows /\ TailSound /\ Reporting /\ job \in Entry
      /\ wt \in Tree /\ TreeSound(told, wt)
  BY DEF LoopInv, DiskInv, TreesSound, TypeOK
<1>1. CASE AppendEntry
  <2>1. Follows(wt.log, job)
    BY <1>0, <1>1 DEF AppendEntry, JobFollows
  <2>2. TreeSound(told, Logged(wt, job)) /\ job.action # "push"
    BY <1>0, <2>1, SoundAppend DEF Follows
  <2>3. /\ wt' = Logged(wt, job) /\ head' = head /\ hub' = hub /\ told' = told
        /\ pc' \in {"commit", "adopt_commit"} /\ pc \in {"append", "adopt_append"}
        /\ exit' = exit /\ director' = director
    BY <1>1 DEF AppendEntry
  <2>4. DiskInv'
    BY <1>0, <2>2, <2>3, DiskLogged
  <2>5. JobFollows' /\ TailSound' /\ Reporting'
    BY <1>0, <2>3 DEF JobFollows, TailSound, Reporting
  <2> QED BY <2>4, <2>5 DEF LoopInv
<1>2. CASE CommitEntry \/ FinalCommit \/ MarkerCommit \/ ErrorCommit
  <2>1. wt' = wt /\ head' \in {wt, head} /\ hub' = hub /\ told' = told
    BY <1>2 DEF CommitEntry, FinalCommit, MarkerCommit, ErrorCommit
  <2>2. DiskInv'
    BY <1>0, <2>1, DiskCopied
  <2>3. CASE CommitEntry
    BY <1>0, <2>2, <2>3 DEF CommitEntry, LoopEntry, LoopInv, JobFollows, TailSound, Reporting
  <2>4. CASE FinalCommit
    <3>1. fin \in Recordable /\ (Succeeded(fin) => Pushes(fin))
      BY <1>0, <2>4, RecordableFacts DEF FinalCommit, TailSound
    <3> QED BY <1>0, <2>2, <2>4, <3>1
            DEF FinalCommit, LoopInv, JobFollows, TailSound, Reporting
  <2>5. CASE MarkerCommit
    BY <1>0, <2>2, <2>5
       DEF MarkerCommit, Exit, LoopInv, JobFollows, TailSound, Reporting, Reported
  <2>6. CASE ErrorCommit
    BY <1>0, <2>2, <2>6 DEF ErrorCommit, LoopInv, JobFollows, TailSound, Reporting
  <2> QED BY <1>2, <2>3, <2>4, <2>5, <2>6
<1>3. CASE FinalPush \/ MarkerPush
  <2>1. wt' = wt /\ head' = head /\ hub' = head /\ told' = told
    BY <1>3 DEF FinalPush, MarkerPush
  <2>2. DiskInv'
    BY <1>0, <2>1, DiskCopied
  <2>3. CASE FinalPush
    BY <1>0, <2>2, <2>3 DEF FinalPush, LoopInv, JobFollows, TailSound, Reporting
  <2>4. CASE MarkerPush
    BY <1>0, <2>2, <2>4
       DEF MarkerPush, Exit, LoopInv, JobFollows, TailSound, Reporting, Reported
  <2> QED BY <1>3, <2>3, <2>4
<1> QED BY <1>1, <1>2, <1>3

\* The end of a run: the tail is entered, announces and records.
LEMMA TailKeeps ==
    ASSUME TypeOK, LoopInv,
           \/ DecideMerge \/ CapReached \/ Deadlocked \/ QuotaTimeout \/ Done
           \/ FinalNotify \/ RecordPushOk \/ RecordMarker
    PROVE  LoopInv'
<1> USE DEF trees, people, process, status, TailPcs
<1>0. /\ DiskInv /\ JobFollows /\ TailSound /\ Reporting
      /\ wt \in Tree /\ TreeSound(told, wt) /\ RoundsWithin(wt.log)
  BY DEF LoopInv, DiskInv, TreesSound, TreeSound, TypeOK
<1>1. CASE DecideMerge
  <2>1. LastIs(wt.log, "authoritative", "pass")
    BY <1>0, <1>1, PhaseFacts, DueAfter, TreeLogs DEF DecideMerge, At
  <2>2. /\ wt'.log = wt.log /\ wt'.merge = Decision /\ fin' = MergeDecided(Decision)
        /\ pc' = "fin_commit" /\ pc = "top" /\ head' = head /\ hub' = hub /\ told' = told
        /\ exit' = exit /\ director' = director /\ pinged' = pinged
    BY <1>0, <1>1 DEF DecideMerge, Finalize, At, Tree
  <2>3. DiskInv'
    BY <1>0, <2>1, <2>2, DiskKept
  <2>4. Decision # NoDecision
    BY DecisionType DEF MergeDecisions, NoDecision
  <2>5. TailSound'
    BY <2>1, <2>2, <2>4, RecordableFacts DEF TailSound
  <2> QED BY <1>0, <2>2, <2>3, <2>5 DEF LoopInv, JobFollows, Reporting
<1>2. CASE CapReached \/ Deadlocked \/ QuotaTimeout
  <2>1. /\ wt'.log = wt.log /\ wt'.merge = wt.merge /\ head' = head /\ hub' = hub
        /\ told' = told /\ exit' = exit /\ director' = director /\ pinged' = pinged
        /\ pc' = "fin_commit" /\ pc \in {"explore", "top"}
        /\ fin' \in {"CAP_REACHED", "ESCALATED_DEADLOCK", "QUOTA_TIMEOUT"}
    <3>1. CASE CapReached \/ Deadlocked
      BY <3>1 DEF CapReached, Deadlocked, Finalize, At
    <3>2. CASE QuotaTimeout
      <4>1. PICK code : wt' = [wt EXCEPT !.code = code]
        BY <3>2 DEF QuotaTimeout
      <4>2. wt'.log = wt.log /\ wt'.merge = wt.merge
        BY <1>0, <4>1 DEF Tree
      <4> QED BY <3>2, <4>2 DEF QuotaTimeout, Finalize
    <3> QED BY <1>2, <3>1, <3>2
  <2>2. DiskInv'
    BY <1>0, <2>1, DiskKept
  <2>3. TailSound'
    BY <2>1, RecordableFacts DEF TailSound
  <2> QED BY <1>0, <2>1, <2>2, <2>3 DEF LoopInv, JobFollows, Reporting
<1>3. CASE Done
  <2>1. /\ wt' = wt /\ head' = head /\ hub' = hub /\ told' = told /\ pinged' = pinged
        /\ exit' = exit /\ director' = director /\ pc = "top" /\ pc' = "fin_marker"
        /\ Phase = "done"
    BY <1>3 DEF Done, At
  <2>2. LastIs(wt.log, "push", "ok") /\ LastResume(wt.log) < LastPhase(wt.log)
    BY <1>0, <2>1, PhaseFacts, DueAfter, TreeLogs
  <2>3. wt.merge # NoDecision /\ <<Episode(wt.log), MergeDecided(wt.merge)>> \in told
    BY <1>0, <2>2 DEF TreeSound, PushAnnouncedIn, LastIs
  <2>4. fin' = MergeDecided(wt.merge)
    BY <1>3, <2>3 DEF Done
  <2>5. DiskInv'
    BY <1>0, <2>1, DiskKept
  <2>6. TailSound'
    BY <2>1, <2>3, <2>4, RecordableFacts DEF TailSound
  <2>7. Reported'
    <3> DEFINE t == <<Episode(wt.log), MergeDecided(wt.merge)>>
    <3>1. t \in told /\ t[1] = Episode(wt.log) /\ Succeeded(t[2])
      BY <2>3, RecordableFacts
    <3> HIDE DEF t
    <3> QED BY <2>1, <3>1 DEF Reported
  <2> QED BY <1>0, <2>1, <2>5, <2>6, <2>7 DEF LoopInv, JobFollows, Reporting
<1>4. CASE FinalNotify
  <2>1. /\ wt' = wt /\ head' = head /\ hub' = hub /\ pinged' = TRUE /\ fin' = fin
        /\ exit' = exit /\ director' = director /\ pc = "fin_notify"
        /\ pc' = IF Succeeded(fin) THEN "fin_pushok" ELSE "fin_marker"
        /\ told' = told \cup {<<Episode(wt.log), fin>>}
    BY <1>4 DEF FinalNotify, Notify
  <2>2. DiskInv'
    BY <1>0, <2>1, DiskKept
  <2>3. TailSound'
    BY <1>0, <2>1 DEF TailSound
  <2> QED BY <1>0, <2>1, <2>2, <2>3 DEF LoopInv, JobFollows, Reporting, Reported
<1>5. CASE RecordPushOk
  <2> DEFINE e == Plain("push", "ok")
  <2>1. /\ wt' = Logged(wt, e) /\ head' = head /\ hub' = hub /\ told' = told
        /\ pinged' = pinged /\ fin' = fin /\ exit' = exit /\ director' = director
        /\ pc = "fin_pushok" /\ pc' = "fin_marker"
    BY <1>5 DEF RecordPushOk
  <2>2. /\ fin \in Recordable /\ Succeeded(fin) /\ fin = MergeDecided(wt.merge)
        /\ LastIs(wt.log, "authoritative", "pass") /\ wt.merge # NoDecision
        /\ wt.log = hub.log /\ <<Episode(wt.log), fin>> \in told
    BY <1>0, <2>1 DEF TailSound
  <2>3. TreeSound(told, Logged(wt, e))
    BY <1>0, <2>2, SoundPushed
  <2>4. e \in Entry /\ e.action = "push"
    BY PlainType, ActionNames, OutcomeNames DEF Plain
  <2> HIDE DEF e
  <2>5. DiskInv'
    BY <1>0, <2>1, <2>2, <2>3, <2>4, DiskLogged
  <2>6. Episode(wt'.log) = Episode(wt.log)
    <3>1. wt \in Tree /\ wt.log \in Seq(Entry)
      BY <1>0, TreeLogs
    <3>2. wt'.log = Append(wt.log, e)
      BY <2>1, <2>4, <3>1, LoggedType
    <3> QED BY <2>4, <3>1, <3>2, RoundsAppend
  <2>7. Reported'
    <3> DEFINE t == <<Episode(wt.log), fin>>
    <3>1. t \in told' /\ t[1] = Episode(wt'.log) /\ Succeeded(t[2])
      BY <2>1, <2>2, <2>6
    <3> HIDE DEF t
    <3> QED BY <3>1 DEF Reported
  <2>8. TailSound'
    BY <2>1, <2>2, <2>6 DEF TailSound
  <2> QED BY <1>0, <2>1, <2>5, <2>7, <2>8 DEF LoopInv, JobFollows, Reporting
<1>6. CASE RecordMarker
  <2> DEFINE e == Plain("terminal", fin)
  <2>1. /\ wt' = Logged(wt, e) /\ head' = head /\ hub' = hub /\ told' = told
        /\ pinged' = pinged /\ fin' = fin /\ exit' = exit /\ director' = director
        /\ pc = "fin_marker" /\ pc' = "fin_mcommit"
    BY <1>6 DEF RecordMarker
  <2>2. fin \in Recordable /\ <<Episode(wt.log), fin>> \in told /\ Reported
    BY <1>0, <2>1 DEF TailSound, Reporting
  <2>3. TreeSound(told, Logged(wt, e))
    BY <1>0, <2>2, SoundMarked
  <2>4. e \in Entry /\ e.action = "terminal"
    <3>1. fin \in Outcomes
      BY <2>2, RecordableFacts, StateTypes
    <3> QED BY <3>1, PlainType, ActionNames DEF Plain
  <2> HIDE DEF e
  <2>5. DiskInv'
    BY <1>0, <2>1, <2>3, <2>4, DiskLogged
  <2>6. Episode(wt'.log) = Episode(wt.log)
    <3>1. wt \in Tree /\ wt.log \in Seq(Entry)
      BY <1>0, TreeLogs
    <3>2. wt'.log = Append(wt.log, e)
      BY <2>1, <2>4, <3>1, LoggedType
    <3> QED BY <2>4, <3>1, <3>2, RoundsAppend
  <2>7. Reported'
    BY <2>1, <2>2, <2>6 DEF Reported
  <2>8. TailSound'
    BY <2>1, <2>2 DEF TailSound
  <2> QED BY <1>0, <2>1, <2>5, <2>7, <2>8 DEF LoopInv, JobFollows, Reporting
<1> QED BY <1>1, <1>2, <1>3, <1>4, <1>5, <1>6

\* Errors, deaths and refusals.
LEMMA FailuresKeep ==
    ASSUME TypeOK, LoopInv,
           \/ StepFails \/ PushRefused \/ Kill \/ ResumeKilled
           \/ ErrorAppend \/ ErrorNotify
    PROVE  LoopInv'
<1> USE DEF trees, people, process, status, TailPcs
<1>0. /\ DiskInv /\ JobFollows /\ TailSound /\ Reporting
      /\ wt \in Tree /\ TreeSound(told, wt)
  BY DEF LoopInv, DiskInv, TreesSound, TypeOK
<1>1. CASE StepFails \/ PushRefused \/ Kill
  <2>1. /\ wt' = wt /\ head' = head /\ hub' = hub /\ told' = told /\ pinged' = pinged
        /\ director' = director
        /\ \/ pc' = "idle" /\ exit' \in {"raised", "killed"}
           \/ pc' = "err_append" /\ exit' = exit
        /\ pc # "idle"
    BY <1>1 DEF StepFails, PushRefused, Kill, Raise, Exit, CaughtPcs, AdoptPcs
  <2>2. DiskInv'
    BY <1>0, <2>1, DiskKept
  <2> QED BY <1>0, <2>1, <2>2 DEF LoopInv, JobFollows, TailSound, Reporting
<1>2. CASE ResumeKilled
  <2>1. /\ wt' = wt /\ head' = head /\ hub' = hub /\ told' = told /\ pinged' = pinged
        /\ pc' = pc /\ exit' = exit /\ fin' = fin /\ job' = job
        /\ director # "none" /\ director' = "none"
    BY <1>2 DEF ResumeKilled
  <2>2. DiskInv'
    BY <1>0, <2>1, DiskKept
  <2> QED BY <1>0, <2>1, <2>2 DEF LoopInv, JobFollows, TailSound, Reporting
<1>3. CASE ErrorAppend
  <2> DEFINE e == Plain("terminal", "INTERNAL_ERROR")
  <2>1. /\ wt' \in {wt, Logged(wt, e)} /\ head' = head /\ hub' = hub /\ told' = told
        /\ pinged' = pinged /\ exit' = exit /\ director' = director
        /\ pc = "err_append" /\ pc' = "err_commit"
    BY <1>3 DEF ErrorAppend
  <2>2. TreeSound(told, Logged(wt, e))
    BY <1>0, SoundMarked, RecordableFacts
  <2>3. e \in Entry /\ e.action = "terminal"
    BY PlainType, ActionNames, StateTypes DEF Plain
  <2> HIDE DEF e
  <2>4. DiskInv'
    BY <1>0, <2>1, <2>2, <2>3, DiskKept, DiskLogged
  <2> QED BY <1>0, <2>1, <2>4 DEF LoopInv, JobFollows, TailSound, Reporting
<1>4. CASE ErrorNotify
  <2>1. /\ wt' = wt /\ head' = head /\ hub' = hub /\ pinged' = TRUE
        /\ told \subseteq told' /\ director' = director
        /\ pc = "err_notify" /\ pc' = "idle" /\ exit' = "returned"
    BY <1>4 DEF ErrorNotify, Notify, Exit
  <2>2. DiskInv'
    BY <1>0, <2>1, DiskKept
  <2>3. director = "none"
    BY <1>0, <2>1 DEF Reporting
  <2> QED BY <1>0, <2>1, <2>2, <2>3
          DEF LoopInv, JobFollows, TailSound, Reporting, Reported
<1> QED BY <1>1, <1>2, <1>3, <1>4

\* Starting a run, the Director and the hub.
LEMMA StartsKeep ==
    ASSUME TypeOK, LoopInv,
           \/ Attended /\ Kickoff
           \/ Attended /\ KickoffCodeReady
           \/ Attended /\ ResumeSync
           \/ ResumeStep \/ DirectorPush \/ Rebuild
    PROVE  LoopInv'
<1> USE DEF trees, people, process, status, TailPcs
<1>0. /\ DiskInv /\ JobFollows /\ TailSound /\ Reporting
      /\ wt \in Tree /\ hub \in Tree /\ TreeSound(told, wt)
  BY DEF LoopInv, DiskInv, TreesSound, TypeOK
<1>1. CASE Attended /\ Kickoff
  <2>1. /\ wt' = wt /\ head' = head /\ hub' = hub /\ told' = told
        /\ pc' \in {"explore", "top"} /\ exit' = "none" /\ director' = "none"
    BY <1>1 DEF Kickoff, LoopEntry, Attended
  <2>2. DiskInv'
    BY <1>0, <2>1, DiskKept
  <2> QED BY <2>1, <2>2 DEF LoopInv, JobFollows, TailSound, Reporting
<1>2. CASE Attended /\ KickoffCodeReady
  <2>1. /\ wt' = hub /\ head' = hub /\ hub' = hub /\ told' = told
        /\ pc' = "adopt_append" /\ exit' = "none" /\ director' = "none"
        /\ job' = Plain("developer", "ok")
    BY <1>2 DEF KickoffCodeReady, Attended
  <2>2. DiskInv'
    BY <1>0, <2>1, DiskCopied
  <2>3. Follows(hub.log, Plain("developer", "ok"))
    <3>1. Plain("developer", "ok").action = "developer"
      BY DEF Plain
    <3>2. Where(hub.log, {"developer"}) = {}
      <4>1. Where(wt.log, {"developer"}) = {}
        BY <1>2 DEF KickoffCodeReady
      <4>2. Beginning(hub.log, wt.log)
        BY <1>0, TreeLogs, BeginningFacts DEF DiskInv, LogsNested
      <4>3. \A i \in 1 .. Len(hub.log) : i \in 1 .. Len(wt.log) /\ wt.log[i] = hub.log[i]
        <5>1. Len(wt.log) \in Nat /\ Len(hub.log) \in Nat
          BY TreeLogs
        <5> QED BY <4>2, <5>1 DEF Beginning
      <4> QED BY <4>1, <4>3, TreeLogs, AppendFacts DEF Where
    <3>3. Rounds(hub.log) = 0
      BY <3>2, FS_EmptySet DEF Rounds
    <3>4. ResumeGrant * Episode(hub.log) \in Nat /\ MaxLoops \in Nat \ {0}
      <4>1. Episode(hub.log) \in Nat
        BY TreeLogs, EpisodeType
      <4> QED BY <4>1, ReplayAssumption
    <3>5. Rounds(hub.log) + 1 <= MaxLoops + ResumeGrant * Episode(hub.log)
      BY <3>3, <3>4
    <3> QED BY <3>1, <3>5 DEF Follows
  <2>4. JobFollows'
    BY <2>1, <2>3 DEF JobFollows
  <2> QED BY <2>1, <2>2, <2>4 DEF LoopInv, TailSound, Reporting
<1>3. CASE (Attended /\ ResumeSync) \/ Rebuild
  <2>1. /\ wt' = hub /\ head' = hub /\ hub' = hub /\ told' = told
        /\ pc = "idle" /\ pc' = "idle" /\ exit' = "none"
    BY <1>3 DEF ResumeSync, Rebuild, Attended
  <2>2. DiskInv'
    BY <1>0, <2>1, DiskCopied
  <2> QED BY <2>1, <2>2 DEF LoopInv, JobFollows, TailSound, Reporting
<1>4. CASE ResumeAppend
  <2> DEFINE e == Plain("director_resume", "ok")
  <2>1. /\ wt' = Logged(wt, e) /\ head' = head /\ hub' = hub /\ told' = told
        /\ pc' = pc /\ exit' = exit /\ director = "append"
    BY <1>4 DEF ResumeAppend
  <2>2. TreeSound(told, Logged(wt, e))
    BY <1>0, SoundResumed
  <2>3. e \in Entry /\ e.action = "director_resume"
    BY PlainType, ActionNames, OutcomeNames DEF Plain
  <2> HIDE DEF e
  <2>4. DiskInv'
    BY <1>0, <2>1, <2>2, <2>3, DiskLogged
  <2>5. pc = "idle" /\ exit # "returned"
    BY <1>0, <2>1 DEF Reporting
  <2> QED BY <2>1, <2>4, <2>5 DEF LoopInv, JobFollows, TailSound, Reporting
<1>5. CASE ResumeCommit
  <2>1. /\ wt' = wt /\ head' = wt /\ hub' = hub /\ told' = told
        /\ pc' = pc /\ exit' = exit /\ director = "commit" /\ director' = "none"
    BY <1>5 DEF ResumeCommit
  <2>2. DiskInv'
    BY <1>0, <2>1, DiskCopied
  <2>3. pc = "idle" /\ exit # "returned"
    BY <1>0, <2>1 DEF Reporting
  <2> QED BY <2>1, <2>2, <2>3 DEF LoopInv, JobFollows, TailSound, Reporting
<1>6. CASE DirectorPush
  <2>1. /\ wt' = wt /\ head' = head /\ told' = told /\ pc' = pc /\ exit' = exit
        /\ fin' = fin /\ job' = job /\ director' = director /\ pinged' = pinged
        /\ hub'.log = hub.log /\ hub'.merge = hub.merge
    <3>1. hub' = [hub EXCEPT !.code = nextCode]
      BY <1>6 DEF DirectorPush
    <3>2. hub'.log = hub.log /\ hub'.merge = hub.merge
      BY <1>0, <3>1 DEF Tree
    <3> QED BY <1>6, <3>2 DEF DirectorPush
  <2>2. DiskInv'
    BY <1>0, <2>1, DiskKept
  <2> QED BY <1>0, <2>1, <2>2 DEF LoopInv, JobFollows, TailSound, Reporting, Reported
<1> QED BY <1>1, <1>2, <1>3, <1>4, <1>5, <1>6 DEF ResumeStep

LEMMA LoopInit == Init => LoopInv
<1> SUFFICES ASSUME Init PROVE LoopInv
  OBVIOUS
<1>1. /\ wt = BaseTree /\ head = BaseTree /\ hub = BaseTree /\ pc = "idle"
      /\ exit = "none" /\ director = "none" /\ BaseTree.log = <<>>
  BY DEF Init, BaseTree
<1>2. /\ \A acts : Where(<<>>, acts) = {}
      /\ {i \in DOMAIN <<>> : IsMark(<<>>[i])} = {}
  BY DEF Where
<1>3. LastPhase(<<>>) = 0 /\ LastResume(<<>>) = 0 /\ LastMark(<<>>) = 0
  BY <1>2 DEF LastPhase, LastResume, LastMark, Latest
<1>4. Rounds(<<>>) = 0 /\ Episode(<<>>) = 0
  BY <1>2, FS_EmptySet DEF Rounds, Episode
<1>5. TreeSound(told, BaseTree)
  <2>1. recorded_terminal(<<>>) = NoState
    BY <1>3 DEF recorded_terminal
  <2>2. MaxLoops + ResumeGrant * 0 >= 0
    BY ReplayAssumption
  <2>3. RoundsWithin(<<>>)
    BY <1>3, <1>4, <2>2 DEF RoundsWithin
  <2>4. FullyGated(<<>>) /\ GateChain(<<>>) /\ MarksRecordable(<<>>)
    BY <1>2, <1>3 DEF FullyGated, GateChain, LastIs, MarksRecordable
  <2>5. AnnouncedIn(told, <<>>) /\ PushAnnouncedIn(told, BaseTree)
    BY <1>1, <1>3, <2>1 DEF AnnouncedIn, PushAnnouncedIn
  <2> QED BY <1>1, <2>3, <2>4, <2>5 DEF TreeSound
<1>6. DiskInv
  <2>1. <<>> \in Seq(Entry)
    OBVIOUS
  <2> QED BY <1>1, <1>2, <1>5, <2>1, BeginningFacts
          DEF DiskInv, TreesSound, LogsNested, PushesOnHub
<1> QED BY <1>1, <1>6 DEF LoopInv, JobFollows, TailSound, TailPcs, Reporting

LEMMA LoopStepKeeps ==
    ASSUME TypeOK, LoopInv, [Next]_vars
    PROVE  LoopInv'
<1>1. CASE Next
  BY <1>1, PhasesKeep, CommitsKeep, TailKeeps, FailuresKeep, StartsKeep
     DEF Next, LoopStep, Interruption
<1>2. CASE UNCHANGED vars
  BY <1>2
     DEF vars, LoopInv, DiskInv, TreesSound, LogsNested, PushesOnHub, JobFollows,
         TailSound, Reporting, Reported
<1> QED BY <1>1, <1>2

LEMMA LoopInvariant == Spec => [](TypeOK /\ LoopInv)
<1>1. Init => TailHasState
  BY DEF Init, TailHasState, TailPcs
<1> QED
  BY <1>1, InitType, TypeStep, LoopInit, LoopStepKeeps, PTL DEF Spec

-----------------------------------------------------------------------------
(* The theorems *)

LEMMA PublishedPrefix ==
    ASSUME TypeOK, LoopInv
    PROVE  PushedIsPublished
<1>1. Beginning(hub.log, wt.log)
  BY TreeLogs, BeginningFacts DEF LoopInv, DiskInv, LogsNested
<1>2. wt.log \in Seq(Entry) /\ hub.log \in Seq(Entry)
      /\ Len(wt.log) \in Nat /\ Len(hub.log) \in Nat
  BY TreeLogs
<1>3. ASSUME NEW p \in Where(wt.log, {"push"})
      PROVE  /\ p - 1 <= Len(hub.log)
             /\ SubSeq(wt.log, 1, p - 1) = SubSeq(hub.log, 1, p - 1)
  <2>1. p \in 1 .. Len(wt.log) /\ p - 1 <= Len(hub.log)
    BY <1>2, AppendFacts DEF LoopInv, DiskInv, PushesOnHub, Where
  <2>2. \A i \in 1 .. p - 1 : wt.log[i] = hub.log[i]
    BY <1>1, <1>2, <2>1 DEF Beginning
  <2>3. SubSeq(wt.log, 1, p - 1) = [i \in 1 .. p - 1 |-> wt.log[i]]
        /\ SubSeq(hub.log, 1, p - 1) = [i \in 1 .. p - 1 |-> hub.log[i]]
    BY <1>2, <2>1
  <2> QED BY <2>1, <2>2, <2>3
<1> QED BY <1>3 DEF PushedIsPublished

LEMMA LoopInvImplies ==
    ASSUME TypeOK, LoopInv
    PROVE  /\ PushFullyGated /\ NoLostNotification /\ ReturnsReported
           /\ PushedIsPublished /\ RoundsBounded
<1>1. TreeSound(told, wt) /\ TreeSound(told, head) /\ TreeSound(told, hub)
  BY DEF LoopInv, DiskInv, TreesSound
<1>2. PushFullyGated /\ RoundsBounded
  BY <1>1 DEF TreeSound, PushFullyGated, RoundsBounded, RoundsWithin
<1>3. NoLostNotification
  BY <1>1 DEF TreeSound, NoLostNotification, Told, AnnouncedIn
<1>4. ReturnsReported
  BY DEF LoopInv, Reporting, Reported, ReturnsReported
<1> QED BY <1>2, <1>3, <1>4, PublishedPrefix

\* Whatever the agents answer and wherever the process dies, every push that
\* a log on disk or on the hub records was preceded, since the last developer
\* round, by the gates in their order or a senior's approval, the
\* authoritative gate last (derive_resume_point, _run_phases).
THEOREM PushesAreGated == Spec => []PushFullyGated
BY LoopInvariant, LoopInvImplies, PTL

\* A log never claims a push that the hub does not show: the log up to the
\* push entry is the beginning of the hub's log (_finalize pushes before it
\* records, sync_worktree_to_origin only resets to the hub).
THEOREM PushesArePublished == Spec => []PushedIsPublished
BY LoopInvariant, LoopInvImplies, PTL

\* A log that makes a re-kickoff return at once was announced to the Director
\* in the same episode, whatever process died in between (_finalize notifies
\* before it records the marker, terminal_spec decides which are sticky).
THEOREM OutcomesAreAnnounced == Spec => []NoLostNotification
BY LoopInvariant, LoopInvImplies, PTL

\* run() never returns without a word: it notified, or its episode had been
\* announced as a success before (the "done" branch, _internal_error).
THEOREM ReturnsAreAnnounced == Spec => []ReturnsReported
BY LoopInvariant, LoopInvImplies, PTL

\* The rounds the developer gets are bounded by the cap and the grants of the
\* resumes, for every cap and grant (derive_resume_point and
\* _resume_developer_point).
THEOREM RoundsAreBounded == Spec => []RoundsBounded
BY LoopInvariant, LoopInvImplies, PTL

\* All guarantees at once, however often the Director resumes the task,
\* pushes to its branch or replaces the machine.
THEOREM LoopGuarantees == Spec => []GuaranteesHold
BY LoopInvariant, LoopInvImplies, ApprovalsBound, PTL DEF GuaranteesHold

-----------------------------------------------------------------------------
(* Undisturbed: the auto-merge decision speaks of what was pushed          *)
(*                                                                         *)
(* As long as nothing is killed and no step fails, a task whose push is    *)
(* the last word of its log never runs again: the marker that stops it was *)
(* recorded, or the branch has moved on and a resume has to come first.    *)
(* So the decision is always taken on the tree that is committed next.     *)

Undisturbed == left["kill"] = Budget["kill"] /\ left["fault"] = Budget["fault"]

Spent == \A e \in ExternalEvents : left[e] <= Budget[e]

\* The push is the last phase, and no resume came after it.
Finished(log) == LastIs(log, "push", "ok") /\ LastResume(log) < LastPhase(log)

AutoDecided == fin = "MERGE_DECIDED:auto_merge"

\* Uncommitted edits live from a phase to its commit, or to the tail's when
\* the quota ran out.
EditsCommitted ==
    pc \notin {"append", "commit"} /\ ~(pc = "fin_commit" /\ fin = "QUOTA_TIMEOUT")
        => wt.code = head.code

FinishedStops ==
    /\ pc \in AdoptPcs \cup {"explore", "top", "append", "commit", "fin_commit",
                             "fin_push", "fin_notify", "fin_pushok"} => ~Finished(wt.log)
    /\ pc = "fin_marker" /\ Finished(wt.log) => Succeeded(fin)
    /\ pc \in {"fin_mcommit", "fin_mpush", "idle"} /\ Finished(wt.log) =>
          recorded_terminal(wt.log) # NoState \/ behind
    /\ Finished(hub.log) => recorded_terminal(hub.log) # NoState

DecisionEarned ==
    /\ AutoDecided /\ pc = "fin_commit" => GatesGreen(wt.log, wt.code)
    /\ AutoDecided /\ pc \in {"fin_push", "fin_notify", "fin_pushok", "fin_marker"} =>
          GatesGreen(head.log, head.code)

Calm ==
    /\ EditsCommitted /\ FinishedStops /\ DecisionEarned
    /\ pc \in ErrorPcs => behind
    /\ pc \in {"fin_push", "fin_mpush"} => head.log = wt.log

CalmInv == Spent /\ (Undisturbed => Calm)

LEMMA FinishedAppend ==
    ASSUME NEW log \in Seq(Entry), NEW e \in Entry
    PROVE  /\ e.action \in (PhaseActions \ {"push"}) \cup {"director_resume"} =>
                 ~Finished(Append(log, e))
           /\ e.action \notin PhaseActions \cup {"director_resume"} =>
                 (Finished(Append(log, e)) <=> Finished(log))
<1> DEFINE new == Append(log, e)
<1>1. /\ LastPhase(new) = IF e.action \in PhaseActions THEN Len(log) + 1 ELSE LastPhase(log)
      /\ LastIs(new, "push", "ok") <=>
            IF e.action \in PhaseActions THEN e.action = "push" /\ e.outcome = "ok"
                                         ELSE LastIs(log, "push", "ok")
  BY LastPhaseAppend
<1>2. LastResume(new) = IF e.action = "director_resume" THEN Len(log) + 1 ELSE LastResume(log)
  BY LatestWhereAppend DEF LastResume
<1>3. LastPhase(log) \in 0 .. Len(log) /\ Len(log) \in Nat
  BY LatestWhere, AppendFacts DEF LastPhase
<1>4. "director_resume" \notin PhaseActions
  BY DEF PhaseActions
<1>5. e.action = "director_resume" => ~(LastResume(new) < LastPhase(new))
  BY <1>1, <1>2, <1>3, <1>4
<1>6. e.action \in PhaseActions \ {"push"} => ~LastIs(new, "push", "ok")
  BY <1>1
<1>7. e.action \notin PhaseActions \cup {"director_resume"} =>
         /\ LastPhase(new) = LastPhase(log) /\ LastResume(new) = LastResume(log)
         /\ LastIs(new, "push", "ok") <=> LastIs(log, "push", "ok")
  BY <1>1, <1>2
<1>8. /\ e.action \in (PhaseActions \ {"push"}) \cup {"director_resume"} => ~Finished(new)
      /\ e.action \notin PhaseActions \cup {"director_resume"} =>
            (Finished(new) <=> Finished(log))
  <2> HIDE DEF new
  <2> QED BY <1>5, <1>6, <1>7 DEF Finished
<1> QED BY <1>8

\* A finished push leaves its mark in every log that goes on from it.
LEMMA NoMarkNoPush ==
    ASSUME TypeOK, LoopInv, last_terminal_state(wt.log) = NoState
    PROVE  ~Finished(hub.log)
<1> SUFFICES ASSUME LastIs(hub.log, "push", "ok") PROVE FALSE
  BY DEF Finished
<1> DEFINE p == LastPhase(hub.log)
           marks == {i \in DOMAIN wt.log : IsMark(wt.log[i])}
<1>1. /\ p \in 1 .. Len(hub.log) /\ hub.log[p].action = "push" /\ hub.log[p].outcome = "ok"
  BY TreeLogs, LastPhaseFacts DEF LastIs
<1>2. Beginning(hub.log, wt.log)
  BY TreeLogs, BeginningFacts DEF LoopInv, DiskInv, LogsNested
<1>3. Len(wt.log) \in Nat /\ Len(hub.log) \in Nat /\ DOMAIN wt.log = 1 .. Len(wt.log)
  BY TreeLogs, AppendFacts
<1>4. p \in marks
  <2>1. p \in 1 .. Len(wt.log) /\ wt.log[p] = hub.log[p]
    BY <1>1, <1>2, <1>3 DEF Beginning
  <2> HIDE DEF p
  <2> QED BY <1>1, <1>3, <2>1 DEF IsMark
<1>5. marks \in SUBSET (1 .. Len(wt.log)) /\ LastMark(wt.log) = Latest(marks)
  BY <1>3 DEF LastMark
<1> HIDE DEF marks, p
<1>6. LastMark(wt.log) # 0 /\ LastMark(wt.log) \in marks
  BY <1>3, <1>4, <1>5, LatestIsGreatest
<1>7. last_terminal_state(wt.log) = MarkState(wt.log[LastMark(wt.log)])
  BY <1>6 DEF last_terminal_state
<1>8. MarksRecordable(wt.log)
  BY DEF LoopInv, DiskInv, TreesSound, TreeSound
<1>9. MarkState(wt.log[LastMark(wt.log)]) \in Recordable
  BY <1>6, <1>8, RecordableFacts DEF marks, MarkState, MarksRecordable
<1> QED BY <1>7, <1>9, RecordableFacts

\* Nothing gives an event back, and a death or a failure is a disturbance.
LEMMA EventsSpent ==
    ASSUME TypeOK, Spent, [Next]_vars
    PROVE  /\ Spent'
           /\ Undisturbed' => Undisturbed
           /\ StepFails \/ Kill \/ ResumeKilled => ~Undisturbed'
<1>0. left \in [ExternalEvents -> Nat] /\ Budget \in [ExternalEvents -> Nat]
  BY DevLoopAssumption DEF TypeOK
<1>1. \A x \in ExternalEvents : Spend(x) =>
         /\ left'[x] < left[x]
         /\ \A y \in ExternalEvents : left'[y] <= left[y] /\ left'[y] \in Nat
  BY <1>0 DEF Spend
<1>2. \/ left' = left
      \/ \E x \in ExternalEvents : Spend(x)
  BY DEF Next, LoopStep, Interruption, ResumeStep, vars, ExternalEvents,
         RunExplorer, RunDeveloper, RunFastTests, RunRw1, RunRw2, RunAuthoritative, RunSenior,
         RanPhase, AppendEntry, CommitEntry, DecideMerge, CapReached, Deadlocked, Done,
         FinalCommit, FinalPush, FinalNotify, RecordPushOk, RecordMarker, MarkerCommit,
         MarkerPush, PushRefused, ErrorAppend, ErrorCommit, ErrorNotify, QuotaTimeout,
         StepFails, Kill, ResumeKilled, ResumeAppend, ResumeCommit, Kickoff,
         KickoffCodeReady, ResumeSync, DirectorPush, Rebuild
<1>3. \A y \in ExternalEvents : left'[y] <= left[y] /\ left'[y] \in Nat
                                /\ left[y] \in Nat /\ Budget[y] \in Nat
  BY <1>0, <1>1, <1>2
<1>4. Spent'
  BY <1>3 DEF Spent
<1>5. Undisturbed' => Undisturbed
  BY <1>3 DEF Spent, Undisturbed, ExternalEvents
<1>6. StepFails \/ Kill \/ ResumeKilled => Spend("kill") \/ Spend("fault")
  BY DEF StepFails, Kill, ResumeKilled
<1>7. Spend("kill") \/ Spend("fault") => ~Undisturbed'
  BY <1>1, <1>3 DEF Spent, Undisturbed, ExternalEvents
<1> QED BY <1>4, <1>5, <1>6, <1>7

\* A phase, its entry and its commit; what is committed is what was decided.
LEMMA CalmPhases ==
    ASSUME TypeOK, LoopInv, Calm,
           \/ RunExplorer \/ RunDeveloper \/ RunFastTests \/ RunRw1 \/ RunRw2
           \/ RunAuthoritative \/ RunSenior \/ AppendEntry \/ CommitEntry
    PROVE  Calm'
<1> USE DEF trees, people, process, status, ErrorPcs, AdoptPcs
<1>1. CASE \/ RunExplorer \/ RunDeveloper \/ RunFastTests \/ RunRw1 \/ RunRw2
           \/ RunAuthoritative \/ RunSenior
  <2>1. pc \in {"explore", "top"}
    BY <1>1 DEF RunExplorer, RunDeveloper, RunFastTests, RunRw1, RunRw2, RunAuthoritative,
                RunSenior, At
  <2>2. /\ wt'.log = wt.log /\ pc' = "append" /\ hub' = hub
    BY <1>1, PhasesRan DEF RanPhase
  <2> QED BY <2>1, <2>2 DEF Calm, EditsCommitted, FinishedStops, DecisionEarned
<1>2. CASE AppendEntry
  <2>1. /\ wt' = Logged(wt, job) /\ head' = head /\ hub' = hub
        /\ pc \in {"append", "adopt_append"}
        /\ pc' = IF pc = "append" THEN "commit" ELSE "adopt_commit"
    BY <1>2 DEF AppendEntry
  <2>2. job \in Entry /\ wt \in Tree /\ wt.log \in Seq(Entry)
    BY TreeLogs DEF TypeOK
  <2>3. wt'.log = Append(wt.log, job) /\ wt'.code = wt.code
    BY <2>1, <2>2 DEF Logged, Tree
  <2>4. job.action \notin {"push", "terminal", "director_resume"}
    BY <2>1 DEF LoopInv, JobFollows, Follows
  <2>5. ~Finished(wt.log)
    BY <2>1 DEF Calm, FinishedStops
  <2>6. ~Finished(wt'.log)
    BY <2>2, <2>3, <2>4, <2>5, FinishedAppend
  <2> QED BY <2>1, <2>3, <2>6 DEF Calm, EditsCommitted, FinishedStops, DecisionEarned
<1>3. CASE CommitEntry
  <2>1. /\ wt' = wt /\ head' = wt /\ hub' = hub
        /\ pc \in {"commit", "adopt_commit"} /\ pc' \in {"explore", "top"}
    BY <1>3 DEF CommitEntry, LoopEntry
  <2> QED BY <2>1 DEF Calm, EditsCommitted, FinishedStops, DecisionEarned
<1> QED BY <1>1, <1>2, <1>3

\* The tail of an undisturbed run never starts from the "done" branch.
LEMMA CalmTail ==
    ASSUME TypeOK, LoopInv, Calm,
           \/ DecideMerge \/ CapReached \/ Deadlocked \/ QuotaTimeout \/ Done
           \/ FinalCommit \/ FinalPush \/ FinalNotify
    PROVE  Calm'
<1> USE DEF trees, people, process, status, ErrorPcs, AdoptPcs, AutoDecided
<1>0. wt \in Tree /\ RoundsWithin(wt.log) /\ wt.log \in Seq(Entry)
  BY TreeLogs DEF LoopInv, DiskInv, TreesSound, TreeSound
<1>1. CASE DecideMerge
  <2>1. /\ pc = "top" /\ pc' = "fin_commit" /\ fin' = MergeDecided(Decision)
        /\ head' = head /\ hub' = hub
    BY <1>1 DEF DecideMerge, Finalize, At
  <2>2. wt'.log = wt.log /\ wt'.code = wt.code
    BY <1>0, <1>1 DEF DecideMerge, Tree
  <2>3. wt.code = head.code /\ ~Finished(wt.log)
    BY <2>1 DEF Calm, EditsCommitted, FinishedStops
  <2>4. AutoDecided' => GatesGreen(wt.log, head.code)
    BY <2>1 DEF MergeDecided, Decision
  <2>5. EditsCommitted' /\ FinishedStops'
    BY <2>1, <2>2, <2>3 DEF EditsCommitted, FinishedStops, Calm
  <2>6. DecisionEarned'
    BY <2>1, <2>2, <2>3, <2>4 DEF DecisionEarned
  <2> QED BY <2>1, <2>5, <2>6 DEF Calm
<1>2. CASE CapReached \/ Deadlocked \/ QuotaTimeout
  <2>1. /\ pc \in {"explore", "top"} /\ pc' = "fin_commit" /\ head' = head /\ hub' = hub
        /\ \/ wt' = wt /\ fin' \in {"CAP_REACHED", "ESCALATED_DEADLOCK"}
           \/ fin' = "QUOTA_TIMEOUT"
    BY <1>2 DEF CapReached, Deadlocked, QuotaTimeout, Finalize, At
  <2>2. wt'.log = wt.log
    BY <1>0, <1>2 DEF CapReached, Deadlocked, QuotaTimeout, Tree
  <2> QED BY <2>1, <2>2 DEF Calm, EditsCommitted, FinishedStops, DecisionEarned
<1>3. CASE Done
  <2>1. pc = "top" /\ Phase = "done"
    BY <1>3 DEF Done, At
  <2>2. Finished(wt.log)
    BY <1>0, <2>1, PhaseFacts, DueAfter DEF Finished
  <2> QED BY <2>1, <2>2 DEF Calm, FinishedStops
<1>4. CASE FinalCommit
  <2>1. /\ pc = "fin_commit" /\ pc' \in {"fin_push", "fin_notify"} /\ fin' = fin
        /\ wt' = wt /\ head' = wt /\ hub' = hub
    BY <1>4 DEF FinalCommit
  <2> QED BY <2>1 DEF Calm, EditsCommitted, FinishedStops, DecisionEarned
<1>5. CASE FinalPush
  <2>1. /\ pc = "fin_push" /\ pc' = "fin_notify" /\ fin' = fin
        /\ wt' = wt /\ head' = head /\ hub' = head
    BY <1>5 DEF FinalPush
  <2> QED BY <2>1 DEF Calm, EditsCommitted, FinishedStops, DecisionEarned
<1>6. CASE FinalNotify
  <2>1. /\ pc = "fin_notify" /\ pc' \in {"fin_pushok", "fin_marker"} /\ fin' = fin
        /\ wt' = wt /\ head' = head /\ hub' = hub
    BY <1>6 DEF FinalNotify
  <2> QED BY <2>1 DEF Calm, EditsCommitted, FinishedStops, DecisionEarned
<1> QED BY <1>1, <1>2, <1>3, <1>4, <1>5, <1>6

\* A push entry is followed by the marker that makes it the last word.
LEMMA CalmMarks ==
    ASSUME TypeOK, LoopInv, Calm,
           RecordPushOk \/ RecordMarker \/ MarkerCommit \/ MarkerPush
    PROVE  Calm'
<1> USE DEF trees, people, process, status, ErrorPcs, AdoptPcs, AutoDecided
<1>0. wt \in Tree /\ wt.log \in Seq(Entry)
  BY TreeLogs
<1>1. CASE RecordPushOk
  <2>1. /\ pc = "fin_pushok" /\ pc' = "fin_marker" /\ fin' = fin
        /\ wt' = Logged(wt, Plain("push", "ok")) /\ head' = head /\ hub' = hub
    BY <1>1 DEF RecordPushOk
  <2>2. wt'.code = wt.code
    BY <1>0, <2>1 DEF Logged, Tree
  <2>3. Succeeded(fin)
    BY <2>1 DEF LoopInv, TailSound
  <2> QED BY <2>1, <2>2, <2>3 DEF Calm, EditsCommitted, FinishedStops, DecisionEarned
<1>2. CASE RecordMarker
  <2> DEFINE e == Plain("terminal", fin)
  <2>1. /\ pc = "fin_marker" /\ pc' = "fin_mcommit" /\ fin' = fin
        /\ wt' = Logged(wt, e) /\ head' = head /\ hub' = hub
    BY <1>2 DEF RecordMarker
  <2>2. fin \in Recordable
    BY <2>1 DEF LoopInv, TailSound, TailPcs
  <2>3. e \in Entry /\ e.action = "terminal" /\ e.outcome = fin
    <3>1. fin \in Outcomes
      BY <2>2, RecordableFacts, StateTypes
    <3> QED BY <3>1, PlainType, ActionNames DEF Plain
  <2> HIDE DEF e
  <2>4. wt'.code = wt.code /\ wt'.log = Append(wt.log, e)
    BY <1>0, <2>1 DEF Logged, Tree
  <2>5. Finished(wt'.log) <=> Finished(wt.log)
    BY <1>0, <2>3, <2>4, FinishedAppend DEF PhaseActions
  <2>6. Finished(wt.log) => Succeeded(fin)
    BY <2>1 DEF Calm, FinishedStops
  <2>7. Succeeded(fin) => Sticky(fin) /\ fin # NoState
    BY <2>2, RecordableFacts
       DEF Succeeded, Sticky, SuccessStates, RetryableStates, MergeDecidedStates,
           MergeDecided
  <2>8. recorded_terminal(wt'.log) = IF Sticky(fin) THEN fin ELSE NoState
    BY <1>0, <2>3, <2>4, RecordedAppend DEF IsMark, MarkState
  <2>9. EditsCommitted' /\ DecisionEarned'
    BY <2>1, <2>4 DEF Calm, EditsCommitted, DecisionEarned
  <2>10. FinishedStops'
    BY <2>1, <2>5, <2>6, <2>7, <2>8 DEF Calm, FinishedStops
  <2> QED BY <2>1, <2>9, <2>10 DEF Calm
<1>3. CASE MarkerCommit
  <2>1. /\ pc = "fin_mcommit" /\ pc' \in {"fin_mpush", "idle"}
        /\ wt' = wt /\ head' = wt /\ hub' = hub /\ behind' = behind
    BY <1>3 DEF MarkerCommit, Exit
  <2> QED BY <2>1 DEF Calm, EditsCommitted, FinishedStops, DecisionEarned
<1>4. CASE MarkerPush
  <2>1. /\ pc = "fin_mpush" /\ pc' = "idle" /\ ~behind /\ behind' = behind
        /\ wt' = wt /\ head' = head /\ hub' = head
    BY <1>4 DEF MarkerPush, Exit
  <2>2. head.log = wt.log /\ (Finished(wt.log) => recorded_terminal(wt.log) # NoState)
    BY <2>1 DEF Calm, FinishedStops
  <2> QED BY <2>1, <2>2 DEF Calm, EditsCommitted, FinishedStops, DecisionEarned
<1> QED BY <1>1, <1>2, <1>3, <1>4

\* Undisturbed, only a refused push ends in an internal error, and the branch
\* has moved on until somebody resets to it.
LEMMA CalmErrors ==
    ASSUME TypeOK, LoopInv, Calm,
           PushRefused \/ ErrorAppend \/ ErrorCommit \/ ErrorNotify
    PROVE  Calm'
<1> USE DEF trees, people, process, status, ErrorPcs, AdoptPcs, AutoDecided
<1>0. wt \in Tree /\ wt.log \in Seq(Entry)
  BY TreeLogs
<1>1. CASE PushRefused
  <2>1. /\ pc \in {"fin_push", "fin_mpush"} /\ pc' \in {"idle", "err_append"}
        /\ behind /\ behind' = behind /\ wt' = wt /\ head' = head /\ hub' = hub
    BY <1>1 DEF PushRefused, Raise, Exit
  <2> QED BY <2>1 DEF Calm, EditsCommitted, FinishedStops, DecisionEarned
<1>2. CASE ErrorAppend
  <2>1. /\ pc = "err_append" /\ pc' = "err_commit" /\ behind' = behind
        /\ wt' \in {wt, Logged(wt, Plain("terminal", "INTERNAL_ERROR"))}
        /\ head' = head /\ hub' = hub
    BY <1>2 DEF ErrorAppend
  <2>2. wt'.code = wt.code
    BY <1>0, <2>1 DEF Logged, Tree
  <2> QED BY <2>1, <2>2 DEF Calm, EditsCommitted, FinishedStops, DecisionEarned
<1>3. CASE ErrorCommit
  <2>1. /\ pc = "err_commit" /\ pc' = "err_notify" /\ behind' = behind
        /\ wt' = wt /\ head' \in {wt, head} /\ hub' = hub
    BY <1>3 DEF ErrorCommit
  <2> QED BY <2>1 DEF Calm, EditsCommitted, FinishedStops, DecisionEarned
<1>4. CASE ErrorNotify
  <2>1. /\ pc = "err_notify" /\ pc' = "idle" /\ behind' = behind
        /\ wt' = wt /\ head' = head /\ hub' = hub
    BY <1>4 DEF ErrorNotify, Exit
  <2> QED BY <2>1 DEF Calm, EditsCommitted, FinishedStops, DecisionEarned
<1> QED BY <1>1, <1>2, <1>3, <1>4

\* What starts a run, and what the Director and the hub do.
LEMMA CalmStarts ==
    ASSUME TypeOK, LoopInv, Calm,
           \/ Attended /\ ~behind /\ Kickoff
           \/ Attended /\ KickoffCodeReady
           \/ Attended /\ ResumeSync
           \/ ResumeStep \/ DirectorPush \/ Rebuild
    PROVE  Calm'
<1> USE DEF trees, people, process, status, ErrorPcs, AdoptPcs, AutoDecided
<1>0. wt \in Tree /\ hub \in Tree /\ wt.log \in Seq(Entry)
  BY TreeLogs
<1>1. CASE Attended /\ ~behind /\ Kickoff
  <2>1. /\ pc = "idle" /\ pc' \in {"explore", "top"} /\ ~behind /\ behind' = behind
        /\ wt' = wt /\ head' = head /\ hub' = hub
        /\ recorded_terminal(wt.log) = NoState
    BY <1>1 DEF Kickoff, LoopEntry
  <2> QED BY <2>1 DEF Calm, EditsCommitted, FinishedStops, DecisionEarned
<1>2. CASE Attended /\ KickoffCodeReady
  <2>1. /\ pc' = "adopt_append" /\ wt' = hub /\ head' = hub /\ hub' = hub
        /\ last_terminal_state(wt.log) = NoState
    BY <1>2 DEF KickoffCodeReady
  <2>2. ~Finished(hub.log)
    BY <2>1, NoMarkNoPush
  <2> QED BY <2>1, <2>2 DEF Calm, EditsCommitted, FinishedStops, DecisionEarned
<1>3. CASE (Attended /\ ResumeSync) \/ Rebuild
  <2>1. /\ pc' = "idle" /\ wt' = hub /\ head' = hub /\ hub' = hub
    BY <1>3 DEF ResumeSync, Rebuild, Attended
  <2> QED BY <2>1 DEF Calm, EditsCommitted, FinishedStops, DecisionEarned
<1>4. CASE ResumeAppend
  <2> DEFINE e == Plain("director_resume", "ok")
  <2>1. /\ pc = "idle" /\ pc' = "idle" /\ wt' = Logged(wt, e) /\ head' = head /\ hub' = hub
    BY <1>4 DEF ResumeAppend, LoopInv, Reporting
  <2>2. e \in Entry /\ e.action = "director_resume"
    BY PlainType, ActionNames, OutcomeNames DEF Plain
  <2> HIDE DEF e
  <2>3. wt'.code = wt.code /\ ~Finished(wt'.log)
    BY <1>0, <2>1, <2>2, LoggedType, FinishedAppend DEF Logged, Tree
  <2> QED BY <2>1, <2>3 DEF Calm, EditsCommitted, FinishedStops, DecisionEarned
<1>5. CASE ResumeCommit
  <2>1. /\ pc = "idle" /\ pc' = "idle" /\ wt' = wt /\ head' = wt /\ hub' = hub
        /\ behind' = behind
    BY <1>5 DEF ResumeCommit, LoopInv, Reporting
  <2> QED BY <2>1 DEF Calm, EditsCommitted, FinishedStops, DecisionEarned
<1>6. CASE DirectorPush
  <2>1. /\ pc' = pc /\ fin' = fin /\ wt' = wt /\ head' = head /\ behind'
        /\ hub'.log = hub.log
    BY <1>0, <1>6 DEF DirectorPush, Tree
  <2> QED BY <2>1 DEF Calm, EditsCommitted, FinishedStops, DecisionEarned
<1> QED BY <1>1, <1>2, <1>3, <1>4, <1>5, <1>6 DEF ResumeStep

LEMMA CalmInit == Init => CalmInv
<1> SUFFICES ASSUME Init PROVE CalmInv
  OBVIOUS
<1>1. /\ wt = BaseTree /\ head = BaseTree /\ hub = BaseTree /\ pc = "idle" /\ left = Budget
      /\ BaseTree.log = <<>>
  BY DEF Init, BaseTree
<1>2. LastPhase(<<>>) = 0
  <2>1. Where(<<>>, PhaseActions) = {}
    BY DEF Where
  <2> QED BY <2>1 DEF LastPhase, Latest
<1>3. ~Finished(<<>>)
  BY <1>2 DEF Finished, LastIs
<1>4. Calm
  BY <1>1, <1>3 DEF Calm, EditsCommitted, FinishedStops, DecisionEarned, ErrorPcs
<1>5. Spent
  <2>1. \A x \in ExternalEvents : Budget[x] \in Nat
    BY DevLoopAssumption
  <2> QED BY <1>1, <2>1 DEF Spent
<1> QED BY <1>4, <1>5 DEF CalmInv

LEMMA CalmStep ==
    ASSUME TypeOK, LoopInv, CalmInv, [Next]_vars
    PROVE  CalmInv'
<1>1. Spent' /\ (Undisturbed' => Undisturbed)
      /\ (StepFails \/ Kill \/ ResumeKilled => ~Undisturbed')
  BY EventsSpent DEF CalmInv
<1> SUFFICES ASSUME Undisturbed' PROVE Calm'
  BY <1>1 DEF CalmInv
<1>2. Calm
  BY <1>1 DEF CalmInv
<1>3. CASE Next
  BY <1>1, <1>2, <1>3, CalmPhases, CalmTail, CalmMarks, CalmErrors, CalmStarts
     DEF Next, LoopStep, Interruption
<1>4. CASE UNCHANGED vars
  BY <1>2, <1>4 DEF vars, Calm, EditsCommitted, FinishedStops, DecisionEarned, AutoDecided
<1> QED BY <1>3, <1>4

\* As long as no process was killed and no step failed, reviewers who edit
\* while they review, resumes and commits from other clones never leave an
\* auto-merge decision on code that its gates did not pass (_decide_merge,
\* _finalize, and the "done" branch that repeats a recorded decision).
THEOREM UndisturbedMergesAreEarned == Spec => []AutoMergeEarnedUndisturbed
<1>1. Init => TailHasState
  BY DEF Init, TailHasState, TailPcs
<1>2. CalmInv => AutoMergeEarnedUndisturbed
  BY DEF CalmInv, Calm, DecisionEarned, AutoDecided, Undisturbed, AutoMergeEarnedUndisturbed,
         AutoMergeEarned
<1> QED
  BY <1>1, <1>2, LoopInvariant, CalmInit, CalmStep, PTL DEF Spec

-----------------------------------------------------------------------------
(* The hub's record is kept                                                *)
(*                                                                         *)
(* Behind a hub log that stops the loop, the working tree has nothing yet, *)
(* or a resume; and a run never works on such a log as it stands, since it *)
(* starts on one that does not stop it and marks are its last entries.     *)

Stopped(log) == recorded_terminal(log) # NoState

\* The first entry of the working tree that the hub lacks is a resume.
GoesOnResumed ==
    /\ Len(hub.log) < Len(wt.log)
    /\ wt.log[Len(hub.log) + 1].action = "director_resume"

\* Where a run has not recorded its push or its marker yet.
WorkingPcs == AdoptPcs \cup {"explore", "top", "append", "commit", "fin_commit",
                             "fin_push", "fin_notify", "fin_pushok"}

KeptInv ==
    /\ Stopped(hub.log) => wt.log = hub.log \/ GoesOnResumed
    /\ pc \in WorkingPcs => ~Stopped(wt.log)
    /\ pc # "idle" /\ wt.log = hub.log => ~Stopped(hub.log)
    /\ pc = "fin_mpush" => head.log = wt.log

\* A log without a mark has no beginning that stops the loop.
LEMMA NoMarkNoStop ==
    ASSUME TypeOK, LoopInv, last_terminal_state(wt.log) = NoState
    PROVE  ~Stopped(hub.log)
<1> DEFINE marks(log) == {i \in DOMAIN log : IsMark(log[i])}
<1>1. Beginning(hub.log, wt.log)
  BY TreeLogs, BeginningFacts DEF LoopInv, DiskInv, LogsNested
<1>2. /\ Len(wt.log) \in Nat /\ DOMAIN wt.log = 1 .. Len(wt.log)
      /\ Len(hub.log) \in Nat /\ DOMAIN hub.log = 1 .. Len(hub.log)
  BY TreeLogs, AppendFacts
<1>3. marks(hub.log) \subseteq marks(wt.log)
  BY <1>1, <1>2 DEF Beginning
<1>4. marks(wt.log) \in SUBSET (1 .. Len(wt.log)) /\ LastMark(wt.log) = Latest(marks(wt.log))
  BY <1>2 DEF LastMark
<1>5. LastMark(hub.log) = Latest(marks(hub.log))
  BY DEF LastMark
<1>6. MarksRecordable(wt.log)
  BY DEF LoopInv, DiskInv, TreesSound, TreeSound
<1>7. \A i \in marks(wt.log) : MarkState(wt.log[i]) \in Recordable
  BY <1>6, RecordableFacts DEF MarkState, MarksRecordable
<1> HIDE DEF marks
<1>8. LastMark(wt.log) = 0
  <2> SUFFICES ASSUME LastMark(wt.log) # 0 PROVE FALSE
    OBVIOUS
  <2>1. LastMark(wt.log) \in marks(wt.log)
    BY <1>2, <1>4, LatestIsGreatest
  <2>2. last_terminal_state(wt.log) \in Recordable
    BY <1>7, <2>1 DEF last_terminal_state
  <2> QED BY <2>2, RecordableFacts
<1>9. marks(wt.log) = {}
  BY <1>2, <1>4, <1>8, LatestIsGreatest
<1>10. LastMark(hub.log) = 0
  BY <1>3, <1>5, <1>9 DEF Latest
<1> QED BY <1>10 DEF Stopped, recorded_terminal

\* An entry is appended to the working tree's log: by a run, or a resume.
LEMMA KeptLogged ==
    ASSUME TypeOK, LoopInv, KeptInv, hub' = hub,
           NEW e \in Entry, wt' = Logged(wt, e),
           \/ pc # "idle"
           \/ e.action = "director_resume"
    PROVE  /\ Stopped(hub.log) => GoesOnResumed'
           /\ wt'.log # hub'.log
<1>1. /\ wt.log \in Seq(Entry) /\ hub.log \in Seq(Entry) /\ wt'.log = Append(wt.log, e)
      /\ Beginning(hub.log, wt.log)
  BY TreeLogs, LoggedType, BeginningFacts DEF LoopInv, DiskInv, LogsNested
<1>2. PICK n \in Nat : n = Len(hub.log)
  BY TreeLogs
<1>3. PICK m \in Nat : m = Len(wt.log)
  BY <1>1
<1>4. /\ n <= m /\ Len(wt'.log) = m + 1 /\ wt'.log[m + 1] = e
      /\ \A i \in 1 .. m : wt'.log[i] = wt.log[i]
  BY <1>1, <1>2, <1>3, AppendFacts DEF Beginning
<1>5. wt'.log # hub'.log
  BY <1>2, <1>4
<1>6. ASSUME Stopped(hub.log)
      PROVE  GoesOnResumed'
  <2>1. CASE wt.log = hub.log
    <3>1. n = m /\ e.action = "director_resume"
      BY <1>2, <1>3, <1>6, <2>1 DEF KeptInv
    <3> QED BY <1>2, <1>4, <3>1 DEF GoesOnResumed
  <2>2. CASE GoesOnResumed
    <3>1. n < m /\ wt.log[n + 1].action = "director_resume"
      BY <1>2, <1>3, <2>2 DEF GoesOnResumed
    <3>2. n + 1 \in 1 .. m /\ n < m + 1
      BY <3>1
    <3> QED BY <1>2, <1>4, <3>1, <3>2 DEF GoesOnResumed
  <2> QED BY <1>6, <2>1, <2>2 DEF KeptInv
<1> QED BY <1>5, <1>6

\* The steps that write no log.
LEMMA KeptQuiet ==
    ASSUME TypeOK, LoopInv, KeptInv,
           wt'.log = wt.log, hub'.log = hub.log, pc # "idle",
           pc' \in WorkingPcs => pc \in WorkingPcs,
           pc' = "fin_mpush" => head'.log = wt.log
    PROVE  KeptInv'
<1>1. GoesOnResumed' <=> GoesOnResumed
  BY DEF GoesOnResumed
<1> QED BY <1>1 DEF KeptInv, Stopped

LEMMA KeptRuns ==
    ASSUME TypeOK, LoopInv, KeptInv,
           \/ RunExplorer \/ RunDeveloper \/ RunFastTests \/ RunRw1 \/ RunRw2
           \/ RunAuthoritative \/ RunSenior \/ CommitEntry
           \/ DecideMerge \/ CapReached \/ Deadlocked \/ Done \/ QuotaTimeout
           \/ FinalCommit \/ FinalNotify \/ MarkerCommit
           \/ StepFails \/ PushRefused \/ Kill \/ ErrorCommit \/ ErrorNotify
    PROVE  KeptInv'
<1> USE DEF trees, people, process, status, WorkingPcs, AdoptPcs
<1>0. wt \in Tree
  BY TreeLogs
<1>1. CASE \/ RunExplorer \/ RunDeveloper \/ RunFastTests \/ RunRw1 \/ RunRw2
           \/ RunAuthoritative \/ RunSenior
  <2>1. pc \in {"explore", "top"}
    BY <1>1 DEF RunExplorer, RunDeveloper, RunFastTests, RunRw1, RunRw2, RunAuthoritative,
                RunSenior, At
  <2>2. wt'.log = wt.log /\ pc' = "append" /\ hub' = hub
    BY <1>1, PhasesRan DEF RanPhase
  <2> QED BY <2>1, <2>2, KeptQuiet
<1>2. CASE DecideMerge \/ CapReached \/ Deadlocked \/ Done \/ QuotaTimeout
  <2>1. /\ pc \in {"explore", "top"} /\ pc' \in {"fin_commit", "fin_marker"} /\ hub' = hub
    BY <1>2 DEF DecideMerge, CapReached, Deadlocked, Done, QuotaTimeout, Finalize, At
  <2>2. wt'.log = wt.log
    BY <1>0, <1>2 DEF DecideMerge, CapReached, Deadlocked, Done, QuotaTimeout, Tree
  <2> QED BY <2>1, <2>2, KeptQuiet
<1>3. CASE CommitEntry \/ FinalCommit \/ FinalNotify \/ MarkerCommit \/ ErrorCommit
  <2>1. /\ wt' = wt /\ hub' = hub
        /\ pc \in {"commit", "adopt_commit", "fin_commit", "fin_notify", "fin_mcommit",
                   "err_commit"}
        /\ pc \in {"fin_mcommit", "err_commit"} =>
              pc' \in {"fin_mpush", "idle", "err_notify"}
        /\ pc' = "fin_mpush" => head' = wt
    BY <1>3 DEF CommitEntry, LoopEntry, FinalCommit, FinalNotify, MarkerCommit, ErrorCommit,
                Exit
  <2>2. pc' \in WorkingPcs => pc \in WorkingPcs
    BY <2>1
  <2> QED BY <2>1, <2>2, KeptQuiet
<1>4. CASE StepFails \/ PushRefused \/ Kill \/ ErrorNotify
  <2>1. /\ wt' = wt /\ hub' = hub /\ pc # "idle" /\ pc' \in {"idle", "err_append"}
    BY <1>4 DEF StepFails, PushRefused, Kill, ErrorNotify, Raise, Exit, CaughtPcs
  <2> QED BY <2>1, KeptQuiet
<1> QED BY <1>1, <1>2, <1>3, <1>4

\* The appends to the log, and the two pushes.
LEMMA KeptRecords ==
    ASSUME TypeOK, LoopInv, KeptInv,
           \/ AppendEntry \/ RecordPushOk \/ RecordMarker \/ ErrorAppend
           \/ FinalPush \/ MarkerPush
    PROVE  KeptInv'
<1> USE DEF trees, people, process, status, WorkingPcs, AdoptPcs
<1>0. wt \in Tree /\ wt.log \in Seq(Entry)
  BY TreeLogs
<1>1. CASE AppendEntry
  <2>1. /\ wt' = Logged(wt, job) /\ hub' = hub /\ job \in Entry
        /\ pc \in {"append", "adopt_append"} /\ pc' \in {"commit", "adopt_commit"}
    BY <1>1 DEF AppendEntry, TypeOK
  <2>2. job.action \notin {"push", "terminal", "director_resume"}
    BY <2>1 DEF LoopInv, JobFollows, Follows
  <2>3. wt'.log = Append(wt.log, job) /\ ~Stopped(wt.log)
    BY <1>0, <2>1, LoggedType DEF KeptInv
  <2>4. ~Stopped(wt'.log)
    BY <1>0, <2>1, <2>2, <2>3, RecordedAppend DEF IsMark, Stopped
  <2>5. (Stopped(hub.log) => GoesOnResumed') /\ wt'.log # hub'.log
    BY <2>1, KeptLogged
  <2> QED BY <2>1, <2>4, <2>5 DEF KeptInv
<1>2. CASE RecordPushOk \/ RecordMarker \/ ErrorAppend
  <2>1. /\ hub' = hub /\ pc \in {"fin_pushok", "fin_marker", "err_append"}
        /\ pc' \in {"fin_marker", "fin_mcommit", "err_commit"}
        /\ wt' = wt \/ \E e \in Entry : wt' = Logged(wt, e)
        /\ pc = "fin_pushok" => \E e \in Entry : wt' = Logged(wt, e)
    <3>1. /\ Plain("push", "ok") \in Entry
          /\ Plain("terminal", "INTERNAL_ERROR") \in Entry
      BY PlainType, ActionNames, OutcomeNames, StateTypes
    <3>2. pc = "fin_marker" => Plain("terminal", fin) \in Entry
      <4>1. pc = "fin_marker" => fin \in Outcomes
        BY RecordableFacts, StateTypes DEF LoopInv, TailSound, TailPcs
      <4> QED BY <4>1, PlainType, ActionNames
    <3> QED BY <1>2, <3>1, <3>2 DEF RecordPushOk, RecordMarker, ErrorAppend
  <2>2. CASE wt' = wt
    <3>1. pc # "fin_pushok"
      <4>1. ASSUME NEW e \in Entry PROVE Logged(wt, e) # wt
        <5>1. Logged(wt, e).log = Append(wt.log, e)
          BY <1>0, LoggedType
        <5> QED BY <1>0, <5>1, AppendFacts
      <4> QED BY <2>1, <2>2, <4>1
    <3> QED BY <2>1, <2>2, <3>1, KeptQuiet
  <2>3. CASE \E e \in Entry : wt' = Logged(wt, e)
    <3>1. PICK e \in Entry : wt' = Logged(wt, e)
      BY <2>3
    <3>2. (Stopped(hub.log) => GoesOnResumed') /\ wt'.log # hub'.log
      BY <2>1, <3>1, KeptLogged
    <3> QED BY <2>1, <3>2 DEF KeptInv
  <2> QED BY <2>1, <2>2, <2>3
<1>3. CASE FinalPush
  <2>1. /\ pc = "fin_push" /\ pc' = "fin_notify" /\ wt' = wt /\ hub' = head
    BY <1>3 DEF FinalPush
  <2>2. wt.log = head.log /\ ~Stopped(wt.log)
    BY <2>1 DEF LoopInv, TailSound, KeptInv
  <2> QED BY <2>1, <2>2 DEF KeptInv
<1>4. CASE MarkerPush
  <2>1. /\ pc = "fin_mpush" /\ pc' = "idle" /\ wt' = wt /\ hub' = head
    BY <1>4 DEF MarkerPush, Exit
  <2>2. head.log = wt.log
    BY <2>1 DEF KeptInv
  <2> QED BY <2>1, <2>2 DEF KeptInv
<1> QED BY <1>1, <1>2, <1>3, <1>4

\* What starts a run, and what the Director and the hub do.
LEMMA KeptStarts ==
    ASSUME TypeOK, LoopInv, KeptInv,
           \/ Attended /\ Kickoff
           \/ Attended /\ KickoffCodeReady
           \/ Attended /\ ResumeSync
           \/ ResumeStep \/ ResumeKilled \/ DirectorPush \/ Rebuild
    PROVE  KeptInv'
<1> USE DEF trees, people, process, status, WorkingPcs, AdoptPcs
<1>0. hub \in Tree
  BY TreeLogs
<1>1. CASE Attended /\ Kickoff
  <2>1. /\ wt' = wt /\ hub' = hub /\ ~Stopped(wt.log) /\ pc' \in {"explore", "top"}
    BY <1>1 DEF Kickoff, LoopEntry, Stopped
  <2> QED BY <2>1 DEF KeptInv, GoesOnResumed
<1>2. CASE Attended /\ KickoffCodeReady
  <2>1. /\ wt' = hub /\ hub' = hub /\ pc' = "adopt_append"
        /\ last_terminal_state(wt.log) = NoState
    BY <1>2 DEF KickoffCodeReady
  <2>2. ~Stopped(hub.log)
    BY <2>1, NoMarkNoStop
  <2> QED BY <2>1, <2>2 DEF KeptInv
<1>3. CASE (Attended /\ ResumeSync) \/ Rebuild
  <2>1. /\ wt' = hub /\ hub' = hub /\ pc' = "idle"
    BY <1>3 DEF ResumeSync, Rebuild, Attended
  <2> QED BY <2>1 DEF KeptInv
<1>4. CASE ResumeAppend
  <2> DEFINE e == Plain("director_resume", "ok")
  <2>1. /\ wt' = Logged(wt, e) /\ hub' = hub /\ pc = "idle" /\ pc' = "idle"
    BY <1>4 DEF ResumeAppend, LoopInv, Reporting
  <2>2. e \in Entry /\ e.action = "director_resume"
    BY PlainType, ActionNames, OutcomeNames DEF Plain
  <2> HIDE DEF e
  <2>3. Stopped(hub.log) => GoesOnResumed'
    BY <2>1, <2>2, KeptLogged
  <2> QED BY <2>1, <2>3 DEF KeptInv
<1>5. CASE ResumeCommit \/ ResumeKilled
  <2>1. /\ wt' = wt /\ hub' = hub /\ pc = "idle" /\ pc' = "idle"
    BY <1>5 DEF ResumeCommit, ResumeKilled, LoopInv, Reporting
  <2> QED BY <2>1 DEF KeptInv, GoesOnResumed
<1>6. CASE DirectorPush
  <2>1. /\ pc' = pc /\ wt' = wt /\ head' = head /\ hub'.log = hub.log
    BY <1>0, <1>6 DEF DirectorPush, Tree
  <2>2. GoesOnResumed' <=> GoesOnResumed
    BY <2>1 DEF GoesOnResumed
  <2> QED BY <2>1, <2>2 DEF KeptInv, Stopped
<1> QED BY <1>1, <1>2, <1>3, <1>4, <1>5, <1>6 DEF ResumeStep

LEMMA KeptStep ==
    ASSUME TypeOK, LoopInv, KeptInv, [Next]_vars
    PROVE  KeptInv'
<1>1. CASE Next
  BY <1>1, KeptRuns, KeptRecords, KeptStarts DEF Next, LoopStep, Interruption
<1>2. CASE UNCHANGED vars
  BY <1>2 DEF vars, KeptInv, GoesOnResumed, Stopped
<1> QED BY <1>1, <1>2

\* Only the two pushes of a run change the hub's log.
LEMMA HubLogPushed ==
    ASSUME TypeOK, LoopInv, [Next]_vars
    PROVE  hub'.log = hub.log \/ FinalPush \/ MarkerPush
<1>1. hub \in Tree
  BY TreeLogs
<1>2. DirectorPush => hub'.log = hub.log
  BY <1>1 DEF DirectorPush, Tree
<1>3. CASE Next
  BY <1>2, <1>3
     DEF Next, LoopStep, Interruption, ResumeStep, trees, people,
         RunExplorer, RunDeveloper, RunFastTests, RunRw1, RunRw2, RunAuthoritative, RunSenior,
         RanPhase, AppendEntry, CommitEntry, DecideMerge, CapReached, Deadlocked, Done,
         FinalCommit, FinalNotify, RecordPushOk, RecordMarker, MarkerCommit, PushRefused,
         Raise, ErrorAppend, ErrorCommit, ErrorNotify, QuotaTimeout, StepFails, Kill,
         ResumeKilled, ResumeAppend, ResumeCommit, Kickoff, KickoffCodeReady, ResumeSync,
         Rebuild
<1>4. CASE UNCHANGED vars
  BY <1>4 DEF vars
<1> QED BY <1>3, <1>4

\* RecordKept, of one step.
HubLogKept ==
    /\ Len(hub.log) <= Len(hub'.log)
    /\ \A i \in DOMAIN hub.log : hub'.log[i] = hub.log[i]
    /\ recorded_terminal(hub.log) # NoState /\ hub'.log # hub.log =>
          hub'.log[Len(hub.log) + 1].action = "director_resume"

LEMMA KeptByStep ==
    ASSUME TypeOK, LoopInv, KeptInv, [Next]_vars
    PROVE  HubLogKept
<1>1. Len(hub.log) \in Nat /\ DOMAIN hub.log = 1 .. Len(hub.log)
  BY TreeLogs, AppendFacts
<1>2. CASE hub'.log = hub.log
  BY <1>1, <1>2 DEF HubLogKept
<1>3. CASE FinalPush \/ MarkerPush
  <2>1. hub' = head /\ head.log = wt.log
    BY <1>3 DEF FinalPush, MarkerPush, LoopInv, TailSound, KeptInv
  <2>2. Beginning(hub.log, hub'.log)
    BY <2>1 DEF LoopInv, DiskInv, LogsNested
  <2>3. Stopped(hub.log) /\ hub'.log # hub.log => GoesOnResumed
    BY <2>1 DEF KeptInv
  <2> QED BY <1>1, <2>1, <2>2, <2>3 DEF HubLogKept, Beginning, Stopped, GoesOnResumed
<1> QED BY <1>2, <1>3, HubLogPushed

\* What the hub shows of a task is never taken back, whatever dies, fails or
\* is pushed from elsewhere, and a task it shows as finished goes on with a
\* resume only (run, _finalize, _phase_resume, gitops.push).
THEOREM RecordIsKept == Spec => RecordKept
<1>1. Init => TailHasState
  BY DEF Init, TailHasState, TailPcs
<1>2. Init => KeptInv
  <2> SUFFICES ASSUME Init PROVE KeptInv
    OBVIOUS
  <2>1. wt = hub /\ pc = "idle"
    BY DEF Init
  <2> QED BY <2>1 DEF KeptInv, WorkingPcs, AdoptPcs
<1>3. TypeOK /\ LoopInv /\ KeptInv /\ [Next]_vars => [HubLogKept]_vars
  BY KeptByStep
<1>4. RecordKept <=> [][HubLogKept]_vars
  BY DEF RecordKept, HubLogKept
<1> QED
  BY <1>2, <1>3, <1>4, LoopInvariant, KeptStep, PTL DEF Spec
================================================================================
