------------------------------ MODULE MCPayment ------------------------------
(* Two attempts at paying one order. They differ only in name, which a run *)
(* of safety properties may use.                                           *)
EXTENDS Payment, TLC

AttemptSymmetry == Permutations(Attempts)
=============================================================================
