---------------------------- MODULE MCReportSlot ----------------------------
(***************************************************************************)
(* Two publishers of the same task, an attempt and its retry, one harvest, *)
(* and two reports to tell a replay from an equivocal report.              *)
(***************************************************************************)
EXTENDS ReportSlot

CONSTANTS attempt, retry, harvest, early, late

MCPublisher == {attempt, retry}
MCCollector == {harvest}
MCReport == {early, late}
=============================================================================
