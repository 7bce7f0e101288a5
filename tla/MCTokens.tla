------------------------------ MODULE MCTokens ------------------------------
(* Tokens with two accounts of one phone.                                    *)
EXTENDS Tokens
=============================================================================
