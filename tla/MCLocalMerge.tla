---------------------------- MODULE MCLocalMerge ----------------------------
(***************************************************************************)
(* Two tasks: taskA (reviewed by agents, L2) and taskB (sensitive, L3),    *)
(* whose changes break each other without a textual conflict; taskB        *)
(* conflicts with a commit of the Director's own.                          *)
(***************************************************************************)
EXTENDS LocalMerge

CONSTANTS taskA, taskB

C(t, k, f) == [task |-> t, n |-> k, fix |-> f]
MCTask == {taskA, taskB}
MCBlastOf == [t \in MCTask |-> IF t = taskA THEN "L2" ELSE "L3"]
MCRed == {C(taskA, 2, FALSE)}
MCStopped == {C(taskB, 0, TRUE)}
MCInfra == {C(taskA, 1, TRUE)}
MCVersions == [t \in MCTask |-> IF t = taskA THEN 2 ELSE 1]
MCRefused == MCRed \cup MCStopped \cup MCInfra
MCFlagged == {C(taskB, 1, FALSE), C(taskB, 1, TRUE)}
MCConflict == {<<taskA, taskB>>, <<Own, taskB>>}
MCTextual == {}
MCForged == {}
MCArtifactOnly == {C(taskA, 1, FALSE)}
MCFixes == {C(taskA, 1, TRUE), C(taskB, 0, TRUE), C(taskB, 1, TRUE)}
=============================================================================
