---------------------------- MODULE MCHelperLink ----------------------------
(* HelperLink alone, with one or two operators.                             *)
EXTENDS HelperLink

\* LinkSpec where SendersActive is FALSE; HelperBot has the REST handlers.
RestartSpec == LinkInit /\ [][OwnNext]_linkVars /\ LinkFairness
=============================================================================
