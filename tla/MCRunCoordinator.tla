--------------------------- MODULE MCRunCoordinator ---------------------------
(***************************************************************************)
(* Instances of RunCoordinator for TLC; the .cfg files give the bounds.    *)
(***************************************************************************)
EXTENDS RunCoordinator, TLC

NoPlans == {}
SomePlans == {<<"later">>, <<"now", "later">>, <<"later", "now">>}

\* Callers and proposals are interchangeable in the safety properties.
Symmetry == Permutations(Callers) \cup Permutations(Proposals)
=============================================================================
