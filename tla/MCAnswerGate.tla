---------------------------- MODULE MCAnswerGate ----------------------------
(* AnswerGate on a small instance. *)
EXTENDS AnswerGate, FiniteSetsExt

CONSTANT MaxTotal   \* bound on the reports of all generations together

\* A worker that asks in band pays for its second generation with one report.
FewReports ==
  MapThenSumSet(LAMBDA e : last[e], Epochs) + (IF InBand THEN epoch - 1 ELSE 0) <= MaxTotal
=============================================================================
