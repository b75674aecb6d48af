--------------------------- MODULE MCGpgEditSession ---------------------------
(***************************************************************************)
(* GpgEditSession on a key with two user ids and two subkeys: an index can *)
(* be the primary key, a subkey, or past the end, and a mistaken index hits  *)
(* another user id or subkey.  Three disturbances cover a status between two *)
(* prompts and a value refused before and after it.                         *)
(***************************************************************************)
EXTENDS GpgEditSession

MCNUids == 2
MCNKeys == 2
MCMaxTrouble == 3
=============================================================================
