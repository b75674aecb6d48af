---------------------------- MODULE MCSecureMemory ----------------------------
(***************************************************************************)
(* Two threads and three buffers over two blocks of nine words.  A block    *)
(* holds three of the short cells, so that a freed cell can have an unused  *)
(* neighbour on either side; a short one that grows eats its neighbour,     *)
(* steals from it, or moves to the other block or to pageable memory.  The  *)
(* pool has no item for a second cell of the second block when the first    *)
(* has three.                                                               *)
(***************************************************************************)
EXTENDS SecureMemory, TLC

MCLengths == {1, 4}
Symmetry == Permutations(Threads)

\* Which item of the pool a block's or a cell's meta data is in makes no difference:
\* a state is known by the order of the blocks and by where the cells are.
Rank(b) == Cardinality({x \in DOMAIN heap.block : x <= b})
Place(p) == [p EXCEPT !.block = IF @ = None THEN None ELSE Rank(@)]
CellView(c) ==
  <<Place(heap.cell[c]), c \in heap.unused, c \in heap.used>>
WordView(x) ==
  IF x[1] = "guard" /\ x[2] \in DOMAIN heap.cell THEN <<"guard", heap.cell[x[2]].words>> ELSE x
View ==
  <<{<<Rank(b), heap.block[b], [w \in DOMAIN heap.mem[b] |-> WordView(heap.mem[b][w])]>> :
        b \in DOMAIN heap.block},
    {CellView(c) : c \in DOMAIN heap.cell},
    pageable,
    {<<Place(p), buf[p]>> : p \in DOMAIN buf},
    [t \in Threads |-> [call[t] EXCEPT !.ptr = Place(@), !.new = Place(@)]], starved>>
=============================================================================
