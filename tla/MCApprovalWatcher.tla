------------------------- MODULE MCApprovalWatcher -------------------------
(* ApprovalWatcher on small instances. *)
EXTENDS ApprovalWatcher, TLC

CONSTANTS f1, f2

\* The write targets of a proposal are interchangeable when they all have a
\* baseline, and so are the appliers: every applier runs the same code.
FixSymmetry == Permutations(Fixes)
Symmetry == Permutations(Fixes) \cup Permutations(Appliers)

=============================================================================
