----------------------------- MODULE MCFirewall -----------------------------
\* Firewall on small instances.  The text of port 8 begins that of port 80, and
\* the operator's own rule covers one port of the range.
EXTENDS Firewall, TLC

PanelSymmetry == Permutations(Panels)

OneRange == {<<20, 21>>}
OperatorsRule == <<[range |-> <<21, 22>>, to |-> 80]>>

=============================================================================
