---------------------------- MODULE MCReportOnly ----------------------------
(***************************************************************************)
(* ReportOnly with two backoff steps and messages that name a reset two    *)
(* units ahead, or none.                                                   *)
(***************************************************************************)
EXTENDS ReportOnly

MCBackoff == <<1, 2>>
MCResets == {0, 2}
=============================================================================
