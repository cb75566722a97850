----------------------------- MODULE MCShipping -----------------------------
(* Shipping on small instances. *)
EXTENDS Shipping
=============================================================================
