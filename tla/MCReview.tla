------------------------------ MODULE MCReview ------------------------------
(* Two of the three analyzers, which differ in nothing but their place in the  *)
(* order, answers in one piece, and a channel that is full after one.         *)
EXTENDS Review

TwoAnalyzers == <<"security_audit", "test_coverage">>
OneAnalyzer == <<"style_check">>
=============================================================================
