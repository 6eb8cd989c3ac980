----------------------------- MODULE MCSkeleton -----------------------------
(* Model values for checking Skeleton with TLC. *)
EXTENDS Skeleton
=============================================================================
