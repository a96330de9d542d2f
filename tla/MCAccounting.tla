---------------------------- MODULE MCAccounting ----------------------------
\* Accounting on small instances.
EXTENDS Accounting, TLC

\* Panels are alike.
PanelSymmetry == Permutations(Panels)

=============================================================================
