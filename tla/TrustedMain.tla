---------------------------- MODULE TrustedMain ----------------------------
(***************************************************************************)
(* What the Director's merge tool promises about the trusted main branch,  *)
(* without saying how (local_merge.py, module and engine docstrings): main *)
(* only gains commits, one at a time; a commit that came from a task's     *)
(* branch lands only if it is sound against the main it was judged on, and *)
(* only commits of the Director himself came between; a branch is retired  *)
(* from the hub only after a commit of its task has been published.        *)
(***************************************************************************)
EXTENDS Integers, Sequences

CONSTANTS
  Task,       \* task ids, each with a branch of that name on the hub
  MaxTip,     \* versions a task's branch goes through on the VPS
  Refused,    \* commits some gate is red for, whatever main is
  Flagged,    \* commits the security panel or rw2 finds a blocker in
  Conflict    \* pairs of tasks whose changes cannot stand together in main

CONSTANT Own  \* in place of a task: a commit of the Director's own

\* A commit: version n of the VPS, or the Director's fix on top of it.
Commit == [task : Task, n : 0..MaxTip, fix : BOOLEAN]
OwnCommit == [task |-> Own, n |-> 0, fix |-> FALSE]

ASSUME TrustedMainAssumption ==
  /\ MaxTip \in Nat
  /\ Own \notin Task
  /\ Refused \subseteq Commit /\ Flagged \subseteq Commit
  /\ Conflict \subseteq (Task \cup {Own}) \X (Task \cup {Own})

VARIABLES
  main,       \* the commits of local main: [c, rec, base], see Landed
  origin,     \* how many of them origin has
  hub         \* version at the tip of each task's branch, 0 without a branch

vars == <<main, origin, hub>>

\* c: the commit merged; rec: whether the same merge commit carries the
\* record of waived findings; base: the main it was judged on.
Landed == [c : Commit \cup {OwnCommit}, rec : BOOLEAN, base : Nat]

\* Two commits that cannot stand together.
Clash(c, d) == <<c.task, d.task>> \in Conflict \/ <<d.task, c.task>> \in Conflict

\* Ancestry on a task's branch: tip d contains the tips before it, and a fix
\* contains the tip it was made on.
Within(c, d) ==
  \/ c = d
  \/ c.task = d.task /\ ~c.fix /\ c.n > 0 /\ c.n <= d.n

InMain(c) == \E i \in DOMAIN main : main[i].c # OwnCommit /\ Within(c, main[i].c)

\* The commit stands on the first k commits of main.
StandsOn(c, k) ==
  /\ c \notin Refused
  /\ \A i \in 1..k : ~Clash(c, main[i].c)

Init == main = <<>> /\ origin = 0 /\ hub \in [Task -> 0..MaxTip]

Offer(t) == /\ hub' \in [Task -> 0..MaxTip]
            /\ hub'[t] > hub[t] /\ \A u \in Task \ {t} : hub'[u] = hub[u]
            /\ UNCHANGED <<main, origin>>

\* A commit of a task's branch enters main.
Land(c, rec, base) ==
  /\ StandsOn(c, base)
  /\ \A i \in (base + 1)..Len(main) : main[i].c = OwnCommit
  /\ ~InMain(c)
  /\ c \in Flagged => rec
  /\ main' = Append(main, [c |-> c, rec |-> rec, base |-> base])
  /\ UNCHANGED <<origin, hub>>

\* The Director commits to main himself, on what he has in front of him.
OwnLand ==
  /\ \A i \in DOMAIN main : ~Clash(OwnCommit, main[i].c)
  /\ main' = Append(main, [c |-> OwnCommit, rec |-> FALSE, base |-> Len(main)])
  /\ UNCHANGED <<origin, hub>>

Publish == origin' = Len(main) /\ UNCHANGED <<main, hub>>

Retire(t) ==
  /\ \E i \in 1..origin : main[i].c \in Commit /\ main[i].c.task = t
  /\ hub' = [hub EXCEPT ![t] = 0]
  /\ UNCHANGED <<main, origin>>

Next == \/ \E t \in Task : Offer(t) \/ Retire(t)
        \/ \E c \in Commit, rec \in BOOLEAN, base \in 0..Len(main) : Land(c, rec, base)
        \/ OwnLand
        \/ Publish

Spec == Init /\ [][Next]_vars
=============================================================================
