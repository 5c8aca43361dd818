----------------------------- MODULE MCHttpSends -----------------------------
(* A few calls for HttpSends.                                              *)
EXTENDS HttpSends

CONSTANTS s1, s2, r1, r2

OneSend == {s1}
TwoSends == {s1, s2}
OneRun == {r1}
TwoRuns == {r1, r2}
NoCall == {}
=============================================================================
