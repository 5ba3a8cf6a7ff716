---------------------------- MODULE MCPublisher ----------------------------
(* Publisher for TLC: two findings, taken for one bug or not.              *)
EXTENDS Publisher

Drifted == {Findings}

=============================================================================
