----------------------------- MODULE MCTaskQueue -----------------------------
(***************************************************************************)
(* Values for TLC's runs of TaskQueue: a chain of two tasks and one        *)
(* independent task.                                                       *)
(***************************************************************************)
EXTENDS TaskQueue, TLC

CONSTANTS first, second, single, c1, c2

Chained == [tasks |-> <<first, second>>, chain |-> TRUE]
Alone == [tasks |-> <<single>>, chain |-> FALSE]

\* Two commands may queue the independent task, one the chain.
ChainAndSingle == (c1 :> {Chained, Alone}) @@ (c2 :> {Alone})
==============================================================================
