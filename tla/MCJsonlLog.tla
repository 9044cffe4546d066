------------------------------ MODULE MCJsonlLog ------------------------------
(***************************************************************************)
(* Values for TLC's runs of JsonlLog.                                      *)
(***************************************************************************)
EXTENDS JsonlLog

CONSTANTS ascii, czech, split

\* One event in plain ASCII, one with an accented character, one with a line
\* separator in its text.
Mixed == [e \in {ascii, czech, split} |->
             CASE e = ascii -> "plain" [] e = czech -> "wide" [] e = split -> "separator"]
==============================================================================
