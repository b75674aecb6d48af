---------------------------- MODULE MCGpgCollection ----------------------------
(***************************************************************************)
(* GpgCollection with two keys and two operations at a time: a load overlaps *)
(* another load, a deletion or an import, and an item is reloaded twice at   *)
(* once.                                                                     *)
(***************************************************************************)
EXTENDS GpgCollection, TLC

CONSTANTS k1, k2, o1, o2

MCKeys == {k1, k2}
MCOps == {o1, o2}
MCMaxChanges == 3
MCMaxItems == 2

Symmetry == Permutations(MCKeys) \cup Permutations(MCOps)

\* A version is only ever compared with the one in the ring, and an old version
\* never comes back: states that differ in which old version it is are the same.
Age(k, v) == IF v = ring[k].ver THEN 1 ELSE 0

View ==
  <<[k \in Keys |-> [ring[k] EXCEPT !.ver = IF @ = 0 THEN 0 ELSE 1]], now,
    [i \in Items |-> [cache[i] EXCEPT !.ver = Age(cache[i].key, @)]],
    tracked, store,
    [o \in Ops |-> IF ops[o].view = NoKey THEN ops[o]
                   ELSE [ops[o] EXCEPT !.view.ver = 10 + Age(ops[o].key, @)]],
    deleted, settled>>
=============================================================================
