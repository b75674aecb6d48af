------------------------------ MODULE MCGpgEditor ------------------------------
(***************************************************************************)
(* GpgEditor on a key with two subkeys and two user ids, and one subkey to  *)
(* be added.  Two edits overlap, and another program changes the key once.  *)
(***************************************************************************)
EXTENDS GpgEditor

CONSTANTS undefined, marginal, full, e1, e2

MCKeySeq == <<"primary", "s1">>
MCUidSeq == <<"u1", "u2">>
MCNewKeys == {"s2"}
MCNewUids == {}
MCValidities == {undefined, marginal, full}
MCNeverSent == {undefined}
MCEdits == {e1, e2}
MCMaxOutside == 1

\* No definition tells two edits apart, or two values gpg accepts.
Interchangeable == Permutations({e1, e2}) \cup Permutations({marginal, full})
=============================================================================
