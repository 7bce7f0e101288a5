------------------------------- MODULE MCXmpp -------------------------------
(* XmppSession on a few connections of one bot and one user.                *)
EXTENDS XmppSession

\* No id is part of another.
Apart == [n \in Names |-> {n}]
=============================================================================
