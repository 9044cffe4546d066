---------------------------- MODULE MCMergeRoute ----------------------------
(***************************************************************************)
(* MergeRoute with a rich policy, the least a target may declare, and one  *)
(* that does not parse.                                                    *)
(***************************************************************************)
EXTENDS MergeRoute

Lax == [sensitive |-> {}, security |-> {}, invariant |-> {}, tests |-> {}, migrations |-> {},
        visible |-> {}, safe |-> {}]
Rich == [sensitive |-> {"schema"}, security |-> {"auth"}, invariant |-> {"contract"},
         tests |-> {"suitegone"}, migrations |-> {"schema", "drop"}, visible |-> {"ui"},
         safe |-> {"data"}]
MCDiffs == {{}} \cup {{j, k} : j, k \in Kinds}
MCPolicies == {Lax, Rich, [Lax EXCEPT !.safe = {"code"}]}
=============================================================================
