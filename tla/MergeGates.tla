----------------------------- MODULE MergeGates -----------------------------
(***************************************************************************)
(* The pure part of the Director's merge tool: what gather_gates collects  *)
(* about one branch, what decide makes of it, and how the tripwire reads   *)
(* the hub's main (local_merge.py, hub_tripwire.py).                       *)
(***************************************************************************)
EXTENDS Integers, FiniteSets

BlastRadius == {"L1", "L2", "L3"}

\* What one call of an agent amounts to for a gate: request_verdict raises on
\* every output it cannot trust, and the caller turns that into a blocker.
PanelAnswer == {"clean", "blockers", "malformed"}

\* run_security_panel and _rw2: a member that gives no valid verdict is a
\* blocking abstention.
Blocks(answer) == answer \in {"blockers", "malformed"}

\* The panel runs for L2 and L3, rw2 for L2 alone.
SecurityBlockers(blast, answers) == blast # "L1" /\ \E a \in answers : Blocks(a)
Rw2Blockers(blast, answer) == blast = "L2" /\ Blocks(answer)

GateResults ==
  [blast : BlastRadius, attestation : {"passed", "failed", "not_applicable"},
   tests : BOOLEAN, coverage : BOOLEAN, scanned : BOOLEAN, infra : BOOLEAN,
   security : BOOLEAN, rw2 : BOOLEAN]

\* The reasons no mode may waive: an attestation that failed, a red suite,
\* thin coverage, scan findings, gate infra the gate ran main's copy of.
Deterministic(g) ==
  {r \in {"attestation", "tests", "coverage", "scan", "infra"} :
     \/ r = "attestation" /\ g.attestation = "failed"
     \/ r = "tests" /\ ~g.tests
     \/ r = "coverage" /\ ~g.coverage
     \/ r = "scan" /\ ~g.scanned
     \/ r = "infra" /\ g.infra}

\* The reasons --advisory turns into a record.
Judgment(g) == 
  {r \in {"security", "rw2"} : (r = "security" /\ g.security) \/ (r = "rw2" /\ g.rw2)}

\* decide: merge, or hold as a decision of the Director or as broken.
decide(g, advisory_mode) ==
  LET blocking == Deterministic(g) \cup (IF advisory_mode THEN {} ELSE Judgment(g))
      advisory == IF advisory_mode THEN Judgment(g) ELSE {}
  IN IF blocking # {} THEN [decision |-> "hold", kind |-> "broken", advisory |-> {}]
     ELSE IF g.blast = "L3" THEN [decision |-> "hold", kind |-> "risk_decision", advisory |-> advisory]
     ELSE [decision |-> "merge", kind |-> "auto_merge", advisory |-> advisory]

(***************************************************************************)
(* Local main only ever gains commits, so a commit of main is named by its *)
(* position; the hub's main is such a position, or absent, or a commit     *)
(* that local main does not contain.                                       *)
(***************************************************************************)
Absent == -1
Alien == -2

\* check_hub_main: `seen` is the remote-tracking ref, `top` local main's tip.
check_hub_main(seen, hub, top) ==
  IF hub = Absent THEN (IF seen # Absent THEN "deleted" ELSE "fresh")
  ELSE IF hub = Alien \/ hub > top THEN "diverged"
  ELSE IF seen # Absent /\ hub < seen THEN "rewound"
  ELSE "ok"

HubOk(state) == state \in {"ok", "fresh"}

\* The tracking ref after the check: advanced on a pass, else untouched.
SeenAfter(seen, hub, top) == IF check_hub_main(seen, hub, top) = "ok" THEN hub ELSE seen
=============================================================================
