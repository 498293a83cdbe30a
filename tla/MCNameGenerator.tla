-------------------------- MODULE MCNameGenerator --------------------------
(* Instances of NameGenerator for TLC. *)
EXTENDS NameGenerator

CONSTANTS g1, g2, g3
=============================================================================
