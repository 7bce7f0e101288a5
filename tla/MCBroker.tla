------------------------------ MODULE MCBroker ------------------------------
(* Broker on a few connections of one bot and one user.                     *)
EXTENDS Broker, TLC

\* Neither the ids nor the senders of commands are told apart.
Relabelled == Permutations(Ids) \cup Permutations(Senders)
=============================================================================
