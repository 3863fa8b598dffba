---------------------------- MODULE MCCompanyQueue ----------------------------
(* Model values for the runs of CompanyQueue.                              *)
EXTENDS CompanyQueue

CONSTANTS w1, w2, v1, v2

TwoWorkers == {w1, w2}
TwoViews   == {v1, v2}
==============================================================================
