---------------------------- MODULE MCListRecords ----------------------------
(***************************************************************************)
(* A small repository, and the pages of a misbehaving PDS.                 *)
(***************************************************************************)
EXTENDS ListRecords

MCKeys    == 1..6
MCInitial == {1, 2, 3, 4}
MCSize    == [k \in MCKeys |-> IF k = 6 THEN 3 ELSE 1]

\* Empty, ordinary, repeating and overfull pages.
MCPages == {<<>>, <<1>>, <<6>>, <<2, 2>>, <<1, 2, 3, 4, 5>>}

=============================================================================
