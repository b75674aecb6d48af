------------------------------ MODULE MCListPanel ------------------------------
(***************************************************************************)
(* ListPanel with two items and a third that is added.                      *)
(***************************************************************************)
EXTENDS ListPanel

CONSTANTS i1, i2, i3

MCItems == {i1, i2, i3}
MCInitialItems == {i1, i2}
MCMaxChanges == 2
=============================================================================
