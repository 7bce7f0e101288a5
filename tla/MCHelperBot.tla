----------------------------- MODULE MCHelperBot -----------------------------
EXTENDS HelperBot

\* A p2p command (appsvr RobotControl), and with it one that is wrapped for the
\* caller after it has been answered in XML (iot).
P2P      == {[version |-> "p2p", format |-> "j"]}
TwoForms == P2P \cup {[version |-> "1", format |-> "x"]}
=============================================================================
