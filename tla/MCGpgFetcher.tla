----------------------------- MODULE MCGpgFetcher -----------------------------
(***************************************************************************)
(* GpgFetcher with three searches that find up to two keys each.            *)
(***************************************************************************)
EXTENDS GpgFetcher

MCMaxSearches == 3
MCMaxKeys == 2
=============================================================================
