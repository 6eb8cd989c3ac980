----------------------------- MODULE MCFraming ------------------------------
(* Model values for checking Framing with TLC. *)
EXTENDS Framing
=============================================================================
