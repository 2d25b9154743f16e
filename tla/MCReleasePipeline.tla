--------------------------- MODULE MCReleasePipeline ---------------------------
(***************************************************************************)
(* Two patch releases of one minor version, which share all floating tags. *)
(***************************************************************************)
EXTENDS ReleasePipeline, TLC

CONSTANTS c1, c2, r1, r2

MCVersions == {<<1, 0, 0>>, <<1, 0, 1>>}

Symmetry == Permutations(Commits) \cup Permutations(Runs)

=============================================================================
