------------------------------- MODULE MCAsks -------------------------------
(***************************************************************************)
(* Two commands of one task and two requests at a time.                    *)
(***************************************************************************)
EXTENDS Asks

\* A clarify agent comes up with at most two questions.
MCQuestions == 0 .. 2

\* Commands are alike, and so are idle threads: command 1 is the one that asks
\* first, thread n the one that serves the n-th POST.
MCInTurn ==
  /\ Len(asked') = 1 => asked'[1].by = 1
  /\ \A r \in Requests :
       request[r].pc = "idle" /\ request'[r].pc # "idle" => r = Cardinality(given')

\* What the Director answers to a clarify question is a word that would approve a
\* design.
MCAnswers == \A g \in given : asked[g.id].what = "clarify" => g.text = "approve"
=============================================================================
