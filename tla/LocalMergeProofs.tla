-------------------------- MODULE LocalMergeProofs --------------------------
(***************************************************************************)
(* The merge tool keeps what TrustedMain promises, for every set of tasks, *)
(* every content of their commits and every bound.                         *)
(***************************************************************************)
EXTENDS LocalMerge, SequenceTheorems, TLAPS

USE TrustedMainAssumption, LocalMergeAssumption

(***************************************************************************)
(* The inductive invariant                                                 *)
(***************************************************************************)

\* While a task is at hand it is the head of the list, and its commit is known.
Busy == pc \in {"gate", "confirm", "merge", "commit"} => todo # <<>> /\ cur \in Commit

\* What the gates established still holds of main as it is now.
Judged ==
  pc \in {"confirm", "merge", "commit"} =>
    /\ base \in 0..Len(main)
    /\ StandsOn(cur, base)
    /\ \A i \in (base + 1)..Len(main) : main[i].c = OwnCommit
    /\ cur \in Flagged => Waived # {}

\* The unfinished merge is that of the judged commit and brings something new.
Staged == pc = "commit" => mergeHead = cur /\ ~InMain(cur)

\* What is reported as merged is in main, and on origin before a branch goes.
Reported ==
  /\ \A t \in merged : \E i \in 1..Len(main) : main[i].c \in Commit /\ main[i].c.task = t
  /\ pc = "delete" =>
       \A t \in merged : \E i \in 1..origin : main[i].c \in Commit /\ main[i].c.task = t

Fetched == \A t \in Task : hub[t] <= vps[t]

\* The tracking ref is the record of the last check or push.
Remembered == best = seen

Inv == TypeOK /\ Busy /\ Judged /\ Staged /\ Reported /\ Fetched /\ Remembered

(***************************************************************************)
(* Facts about the operators                                               *)
(***************************************************************************)

\* A verdict other than broken has no deterministic reason, and carries the
\* judgment reasons as its advisory.
LEMMA DecideOpen ==
  ASSUME NEW g \in GateResults, NEW advisory \in BOOLEAN, decide(g, advisory).kind # "broken"
  PROVE  /\ g.attestation # "failed" /\ g.tests /\ ~g.infra
         /\ g.security => decide(g, advisory).advisory # {}
  <1> DEFINE blocking == Deterministic(g) \cup (IF advisory THEN {} ELSE Judgment(g))
  <1>1. blocking = {}
    BY DEF decide
  <1>2. Deterministic(g) = {}
    BY <1>1
  <1>3. g.attestation # "failed"
    BY <1>2 DEF Deterministic
  <1>4. g.tests
    BY <1>2 DEF Deterministic
  <1>5. ~g.infra
    BY <1>2 DEF Deterministic
  <1>6. ASSUME g.security PROVE decide(g, advisory).advisory # {}
    <2>1. "security" \in Judgment(g)
      BY <1>6 DEF Judgment
    <2>2. advisory
      BY <1>1, <2>1
    <2>3. decide(g, advisory).advisory = Judgment(g)
      BY <1>1, <2>2 DEF decide
    <2> QED BY <2>1, <2>3
  <1> QED BY <1>3, <1>4, <1>5, <1>6

LEMMA GatesType ==
  ASSUME TypeOK, NEW c \in Commit, NEW panel \in PanelAnswer, NEW rw2 \in PanelAnswer
  PROVE  GatesOf(c, panel, rw2) \in GateResults
  BY DEF GatesOf, GateResults, BlastRadius, SecurityBlockers, Rw2Blockers, Blocks, PanelAnswer, Commit

\* A commit whose gates are open stands on the main they ran on, and one with
\* a flaw has its waiver recorded.
LEMMA GatesSound ==
  ASSUME TypeOK, NEW c \in Commit, NEW panel \in Answers(c), NEW rw2 \in PanelAnswer,
         NEW advisory \in BOOLEAN,
         decide(GatesOf(c, panel, rw2), advisory).kind # "broken"
  PROVE  /\ StandsOn(c, Len(main))
         /\ c \in Flagged => decide(GatesOf(c, panel, rw2), advisory).advisory # {}
  <1> DEFINE g == GatesOf(c, panel, rw2)
  <1>1. panel \in PanelAnswer
    BY DEF Answers, PanelAnswer
  <1>2. g \in GateResults
    BY <1>1, GatesType
  <1>3. /\ g.attestation # "failed" /\ g.tests /\ ~g.infra
        /\ g.security => decide(g, advisory).advisory # {}
    BY <1>2, DecideOpen
  <1>4. c \notin Refused
    BY <1>3 DEF GatesOf
  <1>5. \A i \in DOMAIN main : ~Clash(c, main[i].c)
    BY <1>3 DEF GatesOf
  <1>6. StandsOn(c, Len(main))
    BY <1>4, <1>5 DEF StandsOn, TypeOK
  <1>7. c \in Flagged => g.security
    BY DEF GatesOf, Answers, SecurityBlockers, Blocks, PanelAnswer
  <1> QED BY <1>3, <1>6, <1>7

\* A list of tasks, as the command line or the discovery gives it.
LEMMA ListsType == Lists \subseteq Seq(Task)
  BY SeqDef DEF Lists

\* One more commit on main leaves the ones before it where they were.
LEMMA Grow ==
  ASSUME main \in Seq(Landed), NEW e \in Landed, main' = Append(main, e)
  PROVE  /\ main' \in Seq(Landed)
         /\ Len(main') = Len(main) + 1
         /\ \A i \in 1..Len(main) : main'[i] = main[i]
         /\ main'[Len(main) + 1] = e
  OBVIOUS

\* When main, the hub, origin and everything the tool holds stay, so does the
\* invariant; what is left is the typing of the hub's main and of its record.
LEMMA Quiet ==
  ASSUME Inv, UNCHANGED <<main, origin, hub, vps, run, todo, cur, base, gates, merged, mergeHead, pc>>
  PROVE  Busy' /\ Judged' /\ Staged' /\ Reported' /\ Fetched'
  BY DEF Inv, Busy, Judged, Staged, Reported, Fetched, StandsOn, Clash, InMain, Within, Waived

LEMMA Values == NoGates \in GateResults /\ Idle \in Modes /\ <<>> \in Seq(Task) /\ <<>> \in Seq(Landed)
  <1>1. NoGates \in GateResults
    BY DEF NoGates, GateResults, BlastRadius
  <1>2. Idle \in Modes
    BY DEF Idle, Modes
  <1> QED BY <1>1, <1>2

\* Whatever ends the work on a task empties its variables.
LEMMA TaskLeft ==
  ASSUME Inv, todo # <<>>, NextTask, UNCHANGED <<hub, vps, best, seen>>
  PROVE  /\ pc' \in Pcs /\ todo' \in Seq(Task) /\ cur' = None /\ base' \in Nat
         /\ gates' \in GateResults /\ run' \in Modes
         /\ Busy' /\ Judged' /\ Staged' /\ Fetched' /\ Remembered'
  <1>1. pc' \in Pcs /\ cur' = None /\ base' \in Nat /\ gates' \in GateResults /\ run' \in Modes
    BY Values DEF Inv, TypeOK, NextTask, Pcs
  <1>2. todo' \in Seq(Task)
    BY DEF Inv, TypeOK, NextTask
  <1>3. Busy' /\ Judged' /\ Staged' /\ Fetched' /\ Remembered'
    BY DEF Inv, NextTask, Busy, Judged, Staged, Fetched, Remembered
  <1> QED BY <1>1, <1>2, <1>3

LEMMA RunLeft ==
  ASSUME Inv, Off, UNCHANGED <<vps>>
  PROVE  /\ pc' \in Pcs /\ todo' \in Seq(Task) /\ cur' \in Commit \cup {None} /\ base' \in Nat
         /\ gates' \in GateResults /\ run' \in Modes /\ merged' = {}
         /\ Busy' /\ Judged' /\ Staged' /\ Reported'
  <1>1. /\ pc' \in Pcs /\ cur' \in Commit \cup {None} /\ base' \in Nat /\ gates' \in GateResults
        /\ run' \in Modes /\ todo' \in Seq(Task) /\ merged' = {}
    BY Values DEF Off, Pcs
  <1>2. Busy' /\ Judged' /\ Staged' /\ Reported'
    BY <1>1 DEF Off, Busy, Judged, Staged, Reported
  <1> QED BY <1>1, <1>2

LEMMA InvInit == MergeInit => Inv
  <1> SUFFICES ASSUME MergeInit PROVE Inv
    OBVIOUS
  <1> USE DEF MergeInit, Init
  <1>1. TypeOK
    <2>1. main \in Seq(Landed) /\ Len(main) = 0 /\ origin \in 0..Len(main) /\ todo \in Seq(Task)
      BY Values
    <2>2. hub \in [Task -> 0..MaxTip] /\ vps \in [Task -> 0..MaxTip]
      OBVIOUS
    <2>3. gates \in GateResults /\ run \in Modes /\ pc \in Pcs
      BY Values DEF Pcs
    <2> QED BY <2>1, <2>2, <2>3 DEF TypeOK
  <1>2. Busy /\ Judged /\ Staged /\ Reported /\ Fetched /\ Remembered
    BY DEF Busy, Judged, Staged, Reported, Fetched, Remembered
  <1> QED BY <1>1, <1>2 DEF Inv

LEMMA InvStep == Inv /\ [MergeNext]_allVars => Inv'
  <1> SUFFICES ASSUME Inv, [MergeNext]_allVars PROVE Inv'
    OBVIOUS
  <1> USE DEF Inv
  <1>1. CASE Start
    <2>1. TypeOK'
      BY <1>1 DEF Start, TypeOK, Pcs, worldVars, SeenAfter, check_hub_main, HubOk, Absent, Alien
    <2>2. Remembered'
      BY <1>1 DEF Start, Remembered, SeenAfter, check_hub_main, HubOk, Absent, TypeOK
    <2>3. Busy' /\ Judged' /\ Staged' /\ Reported' /\ Fetched'
      BY <1>1 DEF Start, Busy, Judged, Staged, Reported, Fetched, worldVars
    <2> QED BY <2>1, <2>2, <2>3
  <1>2. CASE Discover
    <2>1. todo' \in Seq(Task)
      <3>1. CASE run.fix # None
        <4>1. run.fix \in Commit
          BY <3>1 DEF TypeOK, Modes
        <4>2. run.fix.task \in Task
          BY <4>1 DEF Commit
        <4>3. todo' = <<run.fix.task>>
          BY <1>2, <3>1, Zenon DEF Discover
        <4>4. <<run.fix.task>> \in Seq(Task)
          BY <4>2
        <4> QED BY <4>3, <4>4
      <3>2. CASE run.fix = None
        BY <1>2, <3>2, ListsType DEF Discover
      <3> QED BY <3>1, <3>2
    <2>2. TypeOK'
      BY <1>2, <2>1 DEF Discover, TypeOK, Pcs, worldVars
    <2>3. Busy' /\ Judged' /\ Staged' /\ Reported' /\ Fetched' /\ Remembered'
      BY <1>2 DEF Discover, Busy, Judged, Staged, Reported, Fetched, Remembered, worldVars
    <2> QED BY <2>2, <2>3
  <1>3. CASE Pin
    <2>1. CASE run.fix = None /\ hub[Head(todo)] = 0
      <3>1. NextTask /\ UNCHANGED <<main, worldVars, seen, best, scratch, mergeHead, merged, crashes, tampers>> /\ todo # <<>>
        BY <1>3, <2>1 DEF Pin, Held
      <3>2. TypeOK'
        BY <3>1, TaskLeft DEF TypeOK, worldVars
      <3>3. Reported'
        BY <3>1 DEF Reported, NextTask, worldVars
      <3> QED BY <3>1, <3>2, <3>3, TaskLeft DEF worldVars
    <2>2. CASE ~(run.fix = None /\ hub[Head(todo)] = 0)
      <3>1. Head(todo) \in Task
        BY <1>3 DEF Pin, TypeOK
      <3>2. cur' \in Commit
        <4>1. Tip(Head(todo)) \in Commit
          BY <3>1 DEF Tip, Commit, TypeOK
        <4>2. run.fix # None => run.fix \in Commit
          BY DEF TypeOK, Modes
        <4> QED BY <1>3, <2>2, <4>1, <4>2 DEF Pin
      <3>3. TypeOK'
        BY <1>3, <2>2, <3>2 DEF Pin, TypeOK, Pcs, worldVars
      <3>4. Busy' /\ Judged' /\ Staged' /\ Reported' /\ Fetched' /\ Remembered'
        BY <1>3, <2>2, <3>2 DEF Pin, Busy, Judged, Staged, Reported, Fetched, Remembered, worldVars
      <3> QED BY <3>3, <3>4
    <2> QED BY <2>1, <2>2
  <1>4. CASE Gate
    <2>0. todo # <<>> /\ cur \in Commit /\ pc = "gate"
      BY <1>4 DEF Gate, Busy
    <2>1. PICK panel \in Answers(cur), rw2 \in PanelAnswer :
            IF decide(GatesOf(cur, panel, rw2), run.advisory).kind = "broken" \/ run.dry
            THEN Held
            ELSE /\ pc' = "confirm" /\ gates' = GatesOf(cur, panel, rw2) /\ base' = Len(main)
                 /\ UNCHANGED <<run, todo, cur, merged>>
      BY <1>4 DEF Gate
    <2>2. UNCHANGED <<main, worldVars, seen, mergeHead, best, crashes, tampers>> /\ scratch' = FALSE
      BY <1>4 DEF Gate
    <2>3. CASE Held
      <3>1. TypeOK'
        BY <2>0, <2>2, <2>3, TaskLeft DEF TypeOK, Held, worldVars
      <3>2. Reported'
        BY <2>2, <2>3 DEF Reported, Held, NextTask, worldVars
      <3> QED BY <2>0, <2>2, <2>3, <3>1, <3>2, TaskLeft DEF Held, worldVars
    <2>4. CASE ~Held
      <3> DEFINE g == GatesOf(cur, panel, rw2)
      <3>1. /\ decide(g, run.advisory).kind # "broken"
            /\ pc' = "confirm" /\ gates' = g /\ base' = Len(main)
            /\ UNCHANGED <<run, todo, cur, merged>>
        BY <2>1, <2>4
      <3>2. panel \in PanelAnswer
        BY DEF Answers, PanelAnswer
      <3>3. g \in GateResults
        BY <2>0, <3>2, GatesType
      <3>4. TypeOK'
        <4>1. Len(main) \in Nat
          BY DEF TypeOK
        <4> QED BY <2>2, <3>1, <3>3, <4>1 DEF TypeOK, Pcs, worldVars
      <3>5. /\ StandsOn(cur, Len(main))
            /\ cur \in Flagged => decide(g, run.advisory).advisory # {}
        BY <2>0, <3>1, GatesSound DEF TypeOK, Modes
      <3>6. Judged'
        <4>1. StandsOn(cur, Len(main))' /\ Len(main)' = Len(main) /\ Len(main) \in Nat
          BY <2>2, <3>1, <3>5 DEF StandsOn, Clash, TypeOK
        <4>2. Waived' = decide(g, run.advisory).advisory
          BY <3>1 DEF Waived
        <4> QED BY <2>2, <3>1, <3>5, <4>1, <4>2 DEF Judged, StandsOn, Clash
      <3>7. Busy' /\ Staged' /\ Reported' /\ Fetched' /\ Remembered'
        BY <2>0, <2>2, <3>1 DEF Busy, Staged, Reported, Fetched, Remembered, worldVars
      <3> QED BY <3>4, <3>6, <3>7
    <2> QED BY <2>3, <2>4
  <1>5. CASE GateRaises
    <2>1. todo # <<>> /\ NextTask /\ scratch' = FALSE
          /\ UNCHANGED <<main, worldVars, seen, mergeHead, merged, best, crashes, tampers>>
      BY <1>5 DEF GateRaises, Busy, Held
    <2>2. TypeOK'
      BY <2>1, TaskLeft DEF TypeOK, worldVars
    <2>3. Reported'
      BY <2>1 DEF Reported, NextTask, worldVars
    <2> QED BY <2>1, <2>2, <2>3, TaskLeft DEF worldVars
  <1>6. CASE Confirm
    <2>1. CASE Held
      <3>1. todo # <<>> /\ NextTask /\ UNCHANGED <<main, worldVars, seen, merged, mergeHead, scratch, best, crashes, tampers>>
        BY <1>6, <2>1 DEF Confirm, Busy, Held
      <3>2. TypeOK'
        BY <3>1, TaskLeft DEF TypeOK, worldVars
      <3>3. Reported'
        BY <3>1 DEF Reported, NextTask, worldVars
      <3> QED BY <3>1, <3>2, <3>3, TaskLeft DEF worldVars
    <2>2. CASE pc' = "merge" /\ UNCHANGED toolVars
      <3>1. TypeOK'
        BY <1>6, <2>2 DEF Confirm, TypeOK, Pcs, worldVars, toolVars
      <3>2. Judged'
        BY <1>6, <2>2 DEF Confirm, Judged, StandsOn, Clash, Waived, toolVars
      <3>3. Busy' /\ Staged' /\ Reported' /\ Fetched' /\ Remembered'
        BY <1>6, <2>2 DEF Confirm, Busy, Staged, Reported, Fetched, Remembered, worldVars, toolVars
      <3> QED BY <3>1, <3>2, <3>3
    <2> QED BY <1>6, <2>1, <2>2 DEF Confirm
  <1>7. CASE Merge
    <2>1. CASE Held
      <3>1. todo # <<>> /\ NextTask /\ UNCHANGED <<main, worldVars, seen, merged, scratch, best, crashes, tampers>>
            /\ mergeHead' \in {None, mergeHead}
        BY <1>7, <2>1 DEF Merge, Busy, Held, NextTask
      <3>2. TypeOK'
        BY <3>1, TaskLeft DEF TypeOK, worldVars
      <3>3. Reported'
        BY <3>1 DEF Reported, NextTask, worldVars
      <3> QED BY <3>1, <3>2, <3>3, TaskLeft DEF worldVars
    <2>2. CASE ~Held
      <3>1. /\ pc = "merge" /\ pc' = "commit" /\ mergeHead' = cur /\ ~InMain(cur)
            /\ UNCHANGED <<main, worldVars, toolVars, seen, scratch, best, crashes, tampers>>
        BY <1>7, <2>2 DEF Merge
      <3>2. cur \in Commit /\ todo # <<>>
        BY <3>1 DEF Busy
      <3>3. TypeOK'
        BY <3>1, <3>2 DEF TypeOK, Pcs, worldVars, toolVars
      <3>4. Judged'
        BY <3>1 DEF Judged, StandsOn, Clash, Waived, toolVars
      <3>5. Staged'
        BY <3>1 DEF Staged, InMain, Within, toolVars
      <3>6. Busy' /\ Reported' /\ Fetched' /\ Remembered'
        BY <3>1, <3>2 DEF Busy, Reported, Fetched, Remembered, worldVars, toolVars
      <3> QED BY <3>3, <3>4, <3>5, <3>6
    <2> QED BY <2>1, <2>2
  <1>8. CASE Commits
    <2> DEFINE e == [c |-> mergeHead, rec |-> Waived # {}, base |-> base]
    <2>1. /\ pc = "commit" /\ todo # <<>> /\ cur \in Commit /\ mergeHead = cur
          /\ main' = Append(main, e) /\ mergeHead' = None /\ merged' = merged \cup {cur.task}
          /\ NextTask /\ UNCHANGED <<worldVars, seen, scratch, best, crashes, tampers>>
      BY <1>8 DEF Commits, Busy, Staged
    <2>2. e \in Landed /\ main \in Seq(Landed)
      BY <2>1 DEF Landed, TypeOK
    <2>3. /\ main' \in Seq(Landed)
          /\ Len(main') = Len(main) + 1
          /\ \A i \in 1..Len(main) : main'[i] = main[i]
          /\ main'[Len(main) + 1] = e
      BY <2>1, <2>2, Grow
    <2>4. cur.task \in Task /\ Len(main) \in Nat
      BY <2>1, <2>2 DEF Commit
    <2>5. TypeOK'
      <3>1. /\ pc' \in Pcs /\ todo' \in Seq(Task) /\ cur' = None /\ base' \in Nat
            /\ gates' \in GateResults /\ run' \in Modes
        BY <2>1, TaskLeft DEF worldVars
      <3>2. /\ origin' \in 0..Len(main') /\ hubMain' \in {Absent, Alien} \cup 0..Len(main')
            /\ seen' \in {Absent} \cup 0..Len(main') /\ best' \in {Absent} \cup 0..Len(main')
        BY <2>1, <2>3, <2>4 DEF TypeOK, worldVars
      <3>3. merged' \subseteq Task
        BY <2>1, <2>4 DEF TypeOK
      <3> QED BY <2>1, <2>3, <3>1, <3>2, <3>3 DEF TypeOK, worldVars
    <2>6. Reported'
      BY <2>1, <2>3, <2>4 DEF Reported, NextTask, worldVars
    <2> QED BY <2>1, <2>5, <2>6, TaskLeft DEF worldVars
  <1>9. CASE Aborts
    <2>1. todo # <<>> /\ NextTask /\ mergeHead' = None
          /\ UNCHANGED <<main, worldVars, seen, merged, scratch, best, crashes, tampers>>
      BY <1>9 DEF Aborts, Busy, Held
    <2>2. TypeOK'
      BY <2>1, TaskLeft DEF TypeOK, worldVars
    <2>3. Reported'
      BY <2>1 DEF Reported, NextTask, worldVars
    <2> QED BY <2>1, <2>2, <2>3, TaskLeft DEF worldVars
  <1>10. CASE Finish
    <2>1. UNCHANGED <<main, worldVars, seen, mergeHead, scratch, best, crashes, tampers>>
      BY <1>10 DEF Finish
    <2>2. CASE Off
      <3>1. TypeOK'
        BY <2>1, <2>2, RunLeft DEF TypeOK, worldVars
      <3> QED BY <2>1, <2>2, <3>1, RunLeft DEF Fetched, Remembered, worldVars
    <2>3. CASE pc' = "push" /\ UNCHANGED toolVars
      <3>1. TypeOK'
        BY <2>1, <2>3 DEF TypeOK, Pcs, worldVars, toolVars
      <3> QED BY <2>1, <2>3, <3>1 DEF Busy, Judged, Staged, Reported, Fetched, Remembered, worldVars, toolVars
    <2> QED BY <1>10, <2>2, <2>3 DEF Finish
  <1>11. CASE Push
    <2>1. UNCHANGED <<main, hub, vps, hubMain, seen, mergeHead, scratch, best, crashes, tampers>>
      BY <1>11 DEF Push
    <2>2. CASE Off /\ UNCHANGED origin
      <3>1. TypeOK'
        BY <2>1, <2>2, RunLeft DEF TypeOK
      <3> QED BY <2>1, <2>2, <3>1, RunLeft DEF Fetched, Remembered
    <2>3. CASE origin' = Len(main) /\ pc' = "delete" /\ UNCHANGED toolVars
      <3>1. TypeOK'
        BY <2>1, <2>3 DEF TypeOK, Pcs, toolVars
      <3>2. Reported'
        BY <2>1, <2>3 DEF Reported, toolVars
      <3> QED BY <2>1, <2>3, <3>1, <3>2 DEF Busy, Judged, Staged, Fetched, Remembered, toolVars
    <2> QED BY <1>11, <2>2, <2>3 DEF Push
  <1>12. CASE Delete
    <2>1. UNCHANGED <<main, origin, vps, hubMain, seen, mergeHead, scratch, best, crashes, tampers>>
      BY <1>12 DEF Delete
    <2>2. CASE Off /\ UNCHANGED hub
      <3>1. TypeOK'
        BY <2>1, <2>2, RunLeft DEF TypeOK
      <3> QED BY <2>1, <2>2, <3>1, RunLeft DEF Fetched, Remembered
    <2>3. CASE ~(Off /\ UNCHANGED hub)
      <3>1. PICK t \in merged :
              /\ hub' \in {hub, [hub EXCEPT ![t] = 0]}
              /\ merged' = merged \ {t}
              /\ UNCHANGED <<pc, run, todo, cur, base, gates>>
        BY <1>12, <2>3 DEF Delete
      <3>2. hub' \in [Task -> 0..MaxTip] /\ \A u \in Task : hub'[u] \in {hub[u], 0}
        <4>1. CASE hub' = hub
          BY <4>1 DEF TypeOK
        <4>2. CASE hub' = [hub EXCEPT ![t] = 0]
          BY <4>2 DEF TypeOK
        <4> QED BY <3>1, <4>1, <4>2
      <3>3. TypeOK' /\ Fetched'
        <4>1. TypeOK'
          BY <2>1, <3>1, <3>2 DEF TypeOK
        <4>2. \A u \in Task : hub[u] <= vps[u] /\ vps[u] \in Nat
          BY DEF Fetched, TypeOK
        <4>3. Fetched'
          BY <2>1, <3>2, <4>2 DEF Fetched
        <4> QED BY <4>1, <4>3
      <3>4. pc = "delete"
        BY <1>12 DEF Delete
      <3>5. Reported'
        BY <2>1, <3>1 DEF Reported
      <3> QED BY <2>1, <3>1, <3>3, <3>4, <3>5 DEF Busy, Judged, Staged, Remembered
    <2> QED BY <2>2, <2>3
  <1>13. CASE \E t \in Task : VpsPush(t)
    <2>1. PICK t \in Task : VpsPush(t)
      BY <1>13
    <2>2. vps' = [vps EXCEPT ![t] = @ + 1] /\ hub' = [hub EXCEPT ![t] = vps[t] + 1] /\ vps[t] < Versions[t]
          /\ UNCHANGED <<main, origin, hubMain, seen, best, tampers, pc, run, todo, cur, base, gates, merged, mergeHead, scratch, crashes>>
      BY <2>1 DEF VpsPush, toolUnchanged, toolVars
    <2>3. TypeOK'
      BY <2>2 DEF TypeOK
    <2>4. Fetched'
      BY <2>2 DEF Fetched, TypeOK
    <2>5. Judged' /\ Staged'
      BY <2>2 DEF Judged, Staged, StandsOn, Clash, InMain, Within, Waived
    <2> QED BY <2>2, <2>3, <2>4, <2>5 DEF Busy, Reported, Remembered
  <1>14. CASE Tamper
    <2>1. hubMain' \in {Absent, Alien} \cup 0..Len(main) /\ tampers' = tampers + 1
          /\ UNCHANGED <<main, origin, hub, vps, seen, best, pc, run, todo, cur, base, gates, merged, mergeHead, scratch, crashes>>
      BY <1>14 DEF Tamper, toolUnchanged, toolVars
    <2>2. TypeOK'
      BY <2>1 DEF TypeOK
    <2> QED BY <2>1, <2>2, Quiet DEF Remembered
  <1>15. CASE PushHub
    <2>1. hubMain' = Len(main) /\ seen' = Len(main) /\ best' = Len(main)
          /\ UNCHANGED <<main, origin, hub, vps, tampers, pc, run, todo, cur, base, gates, merged, mergeHead, scratch, crashes>>
      BY <1>15 DEF PushHub, toolUnchanged, toolVars
    <2>2. TypeOK'
      BY <2>1 DEF TypeOK
    <2> QED BY <2>1, <2>2, Quiet DEF Remembered
  <1>16. CASE DirectorCommits
    <2> DEFINE e == [c |-> OwnCommit, rec |-> FALSE, base |-> Len(main)]
    <2>1. main' = Append(main, e) /\ mergeHead = None
          /\ UNCHANGED <<origin, hub, vps, hubMain, seen, best, tampers, pc, run, todo, cur, base, gates, merged, mergeHead, scratch, crashes>>
      BY <1>16 DEF DirectorCommits, OwnLand, toolUnchanged, toolVars
    <2>2. e \in Landed /\ main \in Seq(Landed)
      BY DEF Landed, TypeOK
    <2>3. /\ main' \in Seq(Landed)
          /\ Len(main') = Len(main) + 1
          /\ \A i \in 1..Len(main) : main'[i] = main[i]
          /\ main'[Len(main) + 1] = e
      BY <2>1, <2>2, Grow
    <2>4. TypeOK'
      BY <2>1, <2>3 DEF TypeOK
    <2>5. pc # "commit"
      BY <2>1 DEF Busy, Staged
    <2>6. Reported'
      BY <2>1, <2>3 DEF Reported, TypeOK
    <2>7. Judged'
      <3> SUFFICES ASSUME pc \in {"confirm", "merge", "commit"} PROVE Judged'
        BY <2>1 DEF Judged
      <3>1. base \in 0..Len(main') /\ Waived' = Waived
        BY <2>1, <2>3 DEF Judged, Waived
      <3>2. StandsOn(cur, base)'
        BY <2>1, <2>3 DEF Judged, StandsOn, Clash
      <3>3. \A i \in (base + 1)..Len(main') : main'[i].c = OwnCommit
        BY <2>1, <2>3 DEF Judged
      <3> QED BY <2>1, <3>1, <3>2, <3>3 DEF Judged
    <2> QED BY <2>1, <2>4, <2>5, <2>6, <2>7 DEF Busy, Staged, Fetched, Remembered
  <1>17. CASE DirectorCleans
    <2>1. TypeOK'
      BY <1>17 DEF DirectorCleans, TypeOK, worldVars, toolVars
    <2> QED BY <1>17, <2>1 DEF DirectorCleans, Busy, Judged, Staged, Reported, Fetched, Remembered, worldVars, toolVars
  <1>18. CASE Crash
    <2>1. Off /\ UNCHANGED <<main, worldVars, seen, mergeHead, scratch, best, tampers>> /\ crashes' = crashes + 1
      BY <1>18 DEF Crash
    <2>2. TypeOK'
      BY <2>1, RunLeft DEF TypeOK, worldVars
    <2> QED BY <2>1, <2>2, RunLeft DEF Fetched, Remembered, worldVars
  <1>19. CASE UNCHANGED allVars
    <2>1. TypeOK'
      BY <1>19 DEF allVars, TypeOK
    <2> QED BY <1>19, <2>1, Quiet DEF allVars, Remembered
  <1> QED
    BY <1>1, <1>2, <1>3, <1>4, <1>5, <1>6, <1>7, <1>8, <1>9, <1>10, <1>11, <1>12,
       <1>13, <1>14, <1>15, <1>16, <1>17, <1>18, <1>19 DEF MergeNext, Step

LEMMA InvHolds == MergeSpec => []Inv
  BY InvInit, InvStep, PTL DEF MergeSpec

(***************************************************************************)
(* The promise                                                             *)
(***************************************************************************)
LEMMA PromiseInit == MergeInit => Promise!Init
  BY DEF MergeInit, Init, Promise!Init

LEMMA PromiseStep == Inv /\ [MergeNext]_allVars => [Promise!Next]_(Promise!vars)
  <1> SUFFICES ASSUME Inv, [MergeNext]_allVars PROVE [Promise!Next]_(Promise!vars)
    OBVIOUS
  <1> USE DEF Inv
  <1>1. CASE Commits
    <2>1. /\ pc = "commit" /\ cur \in Commit /\ mergeHead = cur
          /\ main' = Append(main, [c |-> mergeHead, rec |-> Waived # {}, base |-> base])
          /\ UNCHANGED <<origin, hub>>
      BY <1>1 DEF Commits, Busy, Staged, worldVars
    <2>2. /\ base \in 0..Len(main) /\ StandsOn(cur, base)
          /\ \A i \in (base + 1)..Len(main) : main[i].c = OwnCommit
          /\ cur \in Flagged => Waived # {}
          /\ ~InMain(cur)
      BY <2>1 DEF Judged, Staged
    <2>3. Promise!Land(cur, Waived # {}, base)
      BY <2>1, <2>2 DEF Promise!Land, Promise!StandsOn, StandsOn, Promise!Clash, Clash,
         Promise!InMain, InMain, Promise!Within, Within, Promise!OwnCommit, OwnCommit
    <2>4. cur \in Promise!Commit /\ (Waived # {}) \in BOOLEAN
      BY <2>1 DEF Promise!Commit, Commit
    <2> QED BY <2>2, <2>3, <2>4 DEF Promise!Next
  <1>2. CASE DirectorCommits
    BY <1>2 DEF DirectorCommits, OwnLand, Promise!OwnLand, Promise!Next, Promise!Clash, Clash,
       Promise!OwnCommit, OwnCommit
  <1>3. CASE \E t \in Task : VpsPush(t)
    <2>1. PICK t \in Task : VpsPush(t)
      BY <1>3
    <2>2. /\ hub' = [hub EXCEPT ![t] = vps[t] + 1] /\ vps[t] < Versions[t]
          /\ UNCHANGED <<main, origin>>
      BY <2>1 DEF VpsPush
    <2>3. vps[t] \in 0..MaxTip /\ Versions[t] \in 0..MaxTip /\ hub[t] \in 0..MaxTip /\ hub[t] <= vps[t]
          /\ hub \in [Task -> 0..MaxTip]
      BY DEF TypeOK, Fetched
    <2>4. Promise!Offer(t)
      BY <2>2, <2>3 DEF Promise!Offer
    <2> QED BY <2>4 DEF Promise!Next
  <1>4. CASE Push
    <2>1. UNCHANGED <<main, hub>> /\ origin' \in {origin, Len(main)}
      BY <1>4 DEF Push
    <2> QED BY <2>1 DEF Promise!Next, Promise!Publish, Promise!vars
  <1>5. CASE Delete
    <2>1. UNCHANGED <<main, origin>> /\ pc = "delete"
      BY <1>5 DEF Delete
    <2>2. CASE UNCHANGED hub
      BY <2>1, <2>2 DEF Promise!vars
    <2>3. CASE ~UNCHANGED hub
      <3>1. PICK t \in merged : hub' = [hub EXCEPT ![t] = 0]
        BY <1>5, <2>3 DEF Delete
      <3>2. t \in Task
        BY DEF TypeOK
      <3>3. Promise!Retire(t)
        BY <2>1, <3>1 DEF Reported, Promise!Retire, Promise!Commit, Commit
      <3> QED BY <3>2, <3>3 DEF Promise!Next
    <2> QED BY <2>2, <2>3
  <1>6. CASE Start \/ Discover \/ Pin \/ Gate \/ GateRaises \/ Confirm \/ Merge \/ Aborts \/ Finish
    BY <1>6 DEF Start, Discover, Pin, Gate, GateRaises, Confirm, Merge, Aborts, Finish, worldVars, Promise!vars
  <1>7. CASE Tamper \/ PushHub \/ DirectorCleans \/ Crash \/ UNCHANGED allVars
    BY <1>7 DEF Tamper, PushHub, DirectorCleans, Crash, allVars, worldVars, Promise!vars
  <1> QED BY <1>1, <1>2, <1>3, <1>4, <1>5, <1>6, <1>7 DEF MergeNext, Step

\* The merge tool implements TrustedMain: whatever the VPS pushes, whoever
\* tampers and wherever it is killed, main gains only judged commits, a branch
\* goes only after its task was published.
THEOREM MergeKeepsPromise == MergeSpec => KeepsPromise
  BY PromiseInit, PromiseStep, InvHolds, PTL DEF MergeSpec, KeepsPromise, Promise!Spec

(***************************************************************************)
(* The safety properties of main                                           *)
(***************************************************************************)
LEMMA MainInit == MergeInit => MainSound /\ WaiversRecorded /\ MergedOnce
  BY DEF MergeInit, Init, MainSound, WaiversRecorded, MergedOnce

LEMMA MainStep ==
  Inv /\ MainSound /\ WaiversRecorded /\ MergedOnce /\ [MergeNext]_allVars
    => MainSound' /\ WaiversRecorded' /\ MergedOnce'
  <1> SUFFICES ASSUME Inv, MainSound, WaiversRecorded, MergedOnce, [MergeNext]_allVars
               PROVE  MainSound' /\ WaiversRecorded' /\ MergedOnce'
    OBVIOUS
  <1>1. CASE main' = main
    BY <1>1 DEF MainSound, WaiversRecorded, MergedOnce, Clash, Within
  <1>2. CASE \E e \in Landed :
               /\ main' = Append(main, e)
               /\ e.c # OwnCommit => e.c \in Commit /\ e.base \in 0..Len(main) /\ StandsOn(e.c, e.base) /\ ~InMain(e.c)
                                    /\ \A i \in (e.base + 1)..Len(main) : main[i].c = OwnCommit
               /\ e.c \in Flagged => e.rec
               /\ e.c = OwnCommit => e.c \notin Flagged
    <2>1. PICK e \in Landed :
               /\ main' = Append(main, e)
               /\ e.c # OwnCommit => e.c \in Commit /\ e.base \in 0..Len(main) /\ StandsOn(e.c, e.base) /\ ~InMain(e.c)
                                    /\ \A i \in (e.base + 1)..Len(main) : main[i].c = OwnCommit
               /\ e.c \in Flagged => e.rec
               /\ e.c = OwnCommit => e.c \notin Flagged
      BY <1>2
    <2>2. main \in Seq(Landed) /\ Len(main) \in Nat
      BY DEF Inv, TypeOK
    <2>3. /\ main' \in Seq(Landed)
          /\ Len(main') = Len(main) + 1
          /\ \A i \in 1..Len(main) : main'[i] = main[i]
          /\ main'[Len(main) + 1] = e
      BY <2>1, <2>2, Grow
    <2>4. DOMAIN main = 1..Len(main) /\ DOMAIN main' = 1..(Len(main) + 1)
      BY <2>2, <2>3
    <2>5. WaiversRecorded'
      BY <2>1, <2>2, <2>3, <2>4 DEF WaiversRecorded
    <2>6. MainSound'
      <3> SUFFICES ASSUME NEW j \in DOMAIN main', main'[j].c # OwnCommit
                   PROVE  /\ main'[j].c \notin Refused
                          /\ \A i \in 1..(j - 1) : Clash(main'[j].c, main'[i].c) =>
                                main'[i].c = OwnCommit /\ i > main'[j].base
        BY DEF MainSound, Clash
      <3>1. CASE j \in 1..Len(main)
        <4>1. main'[j] = main[j] /\ j \in DOMAIN main
          BY <2>3, <2>4, <3>1
        <4>2. \A i \in 1..(j - 1) : main'[i] = main[i]
          BY <2>2, <2>3, <3>1
        <4>3. /\ main[j].c \notin Refused
              /\ \A i \in 1..(j - 1) : Clash(main[j].c, main[i].c) =>
                    main[i].c = OwnCommit /\ i > main[j].base
          BY <4>1 DEF MainSound
        <4> QED BY <4>1, <4>2, <4>3
      <3>2. CASE j = Len(main) + 1
        <4>1. e.c # OwnCommit /\ main'[j] = e
          BY <2>3, <3>2
        <4>2. e.base \in 0..Len(main) /\ StandsOn(e.c, e.base)
              /\ \A i \in (e.base + 1)..Len(main) : main[i].c = OwnCommit
          BY <2>1, <4>1
        <4>3. ASSUME NEW i \in 1..(j - 1), Clash(e.c, main[i].c)
              PROVE  main[i].c = OwnCommit /\ i > e.base
          BY <2>2, <3>2, <4>2, <4>3 DEF StandsOn
        <4>4. \A i \in 1..(j - 1) : main'[i] = main[i]
          BY <2>2, <2>3, <3>2
        <4> QED BY <4>1, <4>2, <4>3, <4>4 DEF StandsOn
      <3> QED BY <2>2, <2>4, <3>1, <3>2
    <2>7. MergedOnce'
      <3> SUFFICES ASSUME NEW i \in DOMAIN main', NEW j \in DOMAIN main', i < j, main'[i].c # OwnCommit
                   PROVE  ~Within(main'[j].c, main'[i].c)
        BY DEF MergedOnce, Within
      <3>1. i \in 1..Len(main) /\ main'[i] = main[i]
        BY <2>2, <2>3, <2>4
      <3>2. CASE j \in 1..Len(main)
        BY <2>2, <2>3, <2>4, <3>1, <3>2 DEF MergedOnce
      <3>3. CASE j = Len(main) + 1 /\ e.c # OwnCommit
        <4>1. ~InMain(e.c) /\ main'[j] = e
          BY <2>1, <2>3, <3>3
        <4>2. i \in DOMAIN main /\ main[i].c # OwnCommit
          BY <2>4, <3>1
        <4>3. ~Within(e.c, main[i].c)
          BY <4>1, <4>2 DEF InMain
        <4> QED BY <3>1, <4>1, <4>3
      <3>4. CASE j = Len(main) + 1 /\ e.c = OwnCommit
        <4>1. main[i].c \in Commit
          <5>1. main[i] \in Landed
            BY <2>2, <3>1
          <5>2. main[i].c \in Commit \cup {OwnCommit}
            BY <5>1 DEF Landed
          <5> QED BY <3>1, <5>2
        <4>2. main[i].c.task # Own
          BY <4>1 DEF Commit
        <4>3. main'[j].c = OwnCommit /\ main'[i].c = main[i].c
          BY <2>3, <3>1, <3>4
        <4>4. OwnCommit.task = Own
          BY DEF OwnCommit
        <4> QED BY <3>1, <4>2, <4>3, <4>4 DEF Within
      <3> QED BY <2>2, <2>4, <3>2, <3>3, <3>4
    <2> QED BY <2>5, <2>6, <2>7
  <1>3. OwnCommit \notin Commit
    BY DEF OwnCommit, Commit
  <1>4. CASE Commits
    <2> DEFINE e == [c |-> cur, rec |-> Waived # {}, base |-> base]
    <2>1. /\ pc = "commit" /\ cur \in Commit /\ mergeHead = cur /\ main' = Append(main, e)
      BY <1>4 DEF Commits, Inv, Busy, Staged
    <2>2. /\ base \in 0..Len(main) /\ StandsOn(cur, base)
          /\ \A i \in (base + 1)..Len(main) : main[i].c = OwnCommit
          /\ cur \in Flagged => Waived # {}
          /\ ~InMain(cur)
      BY <2>1 DEF Inv, Judged, Staged
    <2>3. e \in Landed
      BY <2>1, <2>2 DEF Landed, Inv, TypeOK
    <2> QED BY <1>2, <1>3, <2>1, <2>2, <2>3
  <1>5. CASE DirectorCommits
    <2> DEFINE e == [c |-> OwnCommit, rec |-> FALSE, base |-> Len(main)]
    <2>1. main' = Append(main, e)
      BY <1>5 DEF DirectorCommits, OwnLand
    <2>2. e \in Landed
      BY DEF Landed, Inv, TypeOK
    <2> QED BY <1>2, <1>3, <2>1, <2>2
  <1>6. CASE ~Commits /\ ~DirectorCommits
    <2>1. main' = main
      BY <1>6 DEF MergeNext, Step, Start, Discover, Pin, Gate, GateRaises, Confirm, Merge, Aborts, Finish,
         Push, Delete, VpsPush, Tamper, PushHub, DirectorCleans, Crash, allVars
    <2> QED BY <1>1, <2>1
  <1> QED BY <1>4, <1>5, <1>6

\* A commit of a task is in main only if no gate refuses it, and it stands on
\* everything before it but what the Director committed after it was judged.
THEOREM MergeMainSound == MergeSpec => []MainSound
  BY MainInit, MainStep, InvHolds, PTL DEF MergeSpec

\* A flawed commit is in main only with the record of its waiver.
THEOREM MergeWaiversRecorded == MergeSpec => []WaiversRecorded
  BY MainInit, MainStep, InvHolds, PTL DEF MergeSpec

\* No commit is merged that main already has.
THEOREM MergeOnce == MergeSpec => []MergedOnce
  BY MainInit, MainStep, InvHolds, PTL DEF MergeSpec

\* The three together: what enters main is sound, recorded and new.
THEOREM MergeMainTrusted == MergeSpec => []MainTrusted
  BY MergeMainSound, MergeWaiversRecorded, MergeOnce, PTL DEF MainTrusted

\* Types are respected.
THEOREM MergeTypes == MergeSpec => []TypeOK
  BY InvHolds, PTL DEF Inv

(***************************************************************************)
(* The repository and the tripwire                                         *)
(***************************************************************************)

\* Only a kill leaves a merge unfinished.
THEOREM MergeNotHalf == MergeSpec => []NothingHalfMerged
  <1>1. MergeInit => NothingHalfMerged
    BY DEF MergeInit, NothingHalfMerged
  <1>2. Inv /\ NothingHalfMerged /\ [MergeNext]_allVars => NothingHalfMerged'
    <2> SUFFICES ASSUME Inv, NothingHalfMerged, [MergeNext]_allVars PROVE NothingHalfMerged'
      OBVIOUS
    <2> USE DEF NothingHalfMerged
    <2>1. CASE Start \/ Discover \/ Pin \/ Gate \/ GateRaises \/ Confirm
      BY <2>1 DEF Start, Discover, Pin, Gate, GateRaises, Confirm
    <2>2. CASE Merge \/ Commits \/ Aborts
      BY <2>2 DEF Merge, Commits, Aborts, Held, NextTask
    <2>3. CASE Finish \/ Push \/ Delete
      BY <2>3 DEF Finish, Push, Delete
    <2>4. CASE Tamper \/ PushHub \/ DirectorCommits \/ \E t \in Task : VpsPush(t)
      BY <2>4 DEF Tamper, PushHub, DirectorCommits, VpsPush, toolUnchanged
    <2>5. CASE DirectorCleans \/ UNCHANGED allVars
      BY <2>5 DEF DirectorCleans, allVars
    <2>6. CASE Crash
      BY <2>6 DEF Crash, Off, Inv, TypeOK
    <2> QED BY <2>1, <2>2, <2>3, <2>4, <2>5, <2>6 DEF MergeNext, Step
  <1> QED BY <1>1, <1>2, InvHolds, PTL DEF MergeSpec

\* No run that consults the hub starts while the hub's main is gone, rewound
\* or off local main.
THEOREM MergeTripHolds == MergeSpec => TripHolds
  <1> DEFINE Trip == pc = "off" /\ pc' = "list" /\ run'.fix = None
                     => \/ best = Absent /\ hubMain = Absent
                        \/ hubMain \in best..Len(main)
  <1>1. Inv /\ [MergeNext]_allVars => [Trip]_allVars
    <2> SUFFICES ASSUME Inv, [MergeNext]_allVars, pc = "off", pc' = "list", run'.fix = None
                 PROVE  Trip
      OBVIOUS
    <2>1. Start
      BY DEF MergeNext, Step, Start, Discover, Pin, Gate, GateRaises, Confirm, Merge, Commits, Aborts, Finish,
         Push, Delete, VpsPush, Tamper, PushHub, DirectorCommits, DirectorCleans, Crash, Off, toolUnchanged, allVars
    <2>2. HubOk(check_hub_main(seen, hubMain, Len(main)))
      BY <2>1 DEF Start
    <2>3. best = seen /\ seen \in {Absent} \cup 0..Len(main) /\ hubMain \in {Absent, Alien} \cup 0..Len(main)
          /\ Len(main) \in Nat
      BY DEF Inv, TypeOK, Remembered
    <2> QED BY <2>2, <2>3 DEF HubOk, check_hub_main, Absent, Alien
  <1> QED BY <1>1, InvHolds, PTL DEF MergeSpec, TripHolds
=============================================================================
