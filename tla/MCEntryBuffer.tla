---------------------------- MODULE MCEntryBuffer ----------------------------
(***************************************************************************)
(* EntryBuffer with characters of one and two bytes and the sizes 2, 4, 7,  *)
(* as 16, 32, ..., 32768, 65535: the maximum is one less than a double.     *)
(***************************************************************************)
EXTENDS EntryBuffer

MCChars == {"a", "e"}
MCWidth == [c \in MCChars |-> IF c = "a" THEN 1 ELSE 2]
MCMinSize == 2
MCMaxSize == 7
MCMaxInsert == 2
=============================================================================
