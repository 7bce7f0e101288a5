------------------------------- MODULE MCNode -------------------------------
(* Node with three restart requests at a time.                                *)
EXTENDS Node
=============================================================================
