------------------------------ MODULE MCGpgSource ------------------------------
(***************************************************************************)
(* GpgSource with a listing that is followed by another one on the same     *)
(* context, as in GpgItem.load_content, and an operation of another         *)
(* context without a cancellable.                                           *)
(***************************************************************************)
EXTENDS GpgSource

MCOps == {"first", "second", "other"}
MCCancellable == {"first", "second"}
MCCtxs == {"ctx", "ctx2"}
MCCtxOf == [o \in MCOps |-> IF o = "other" THEN "ctx2" ELSE "ctx"]
MCNumFds == 2
MCMaxKeys == 1
MCMaxReads == 1
MCMaxCancels == 1
=============================================================================
