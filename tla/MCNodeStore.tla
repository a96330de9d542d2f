---------------------------- MODULE MCNodeStore ----------------------------
\* NodeStore on small instances.
EXTENDS NodeStore, TLC

\* Panels are alike.
PanelSymmetry == Permutations(Panels)

=============================================================================
