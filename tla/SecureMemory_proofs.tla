-------------------------- MODULE SecureMemory_proofs --------------------------
(***************************************************************************)
(* Proofs about SecureMemory: for any threads, lengths, sizes of page, block *)
(* and pool, limit of locked memory and number of buffers.                  *)
(*                                                                          *)
(* From the bottom up: what each primitive of a heap changes; a heap is     *)
(* Sound when its cells tile their blocks between guards, stand on their    *)
(* rings and no two unused ones are neighbours, and Private when data is in *)
(* buffers only; each C function takes a sound and private heap to one, and *)
(* its effect is said of the View, the words at each address; the sections  *)
(* under the lock in terms of the Store, the view with the pageable         *)
(* buffers; the invariant Inv, with one lemma for each action; the          *)
(* properties; and the refinement of SecureHeap.                            *)
(***************************************************************************)
EXTENDS SecureMemory, FiniteSetTheorems, TLAPS

Fields(h) == DOMAIN h = {"block", "cell", "mem", "unused", "used"}

CellType(h) ==
  [block : DOMAIN h.block, words : Nat, n_words : Nat, requested : Nat]

Typed(h) ==
  /\ Fields(h)
  /\ DOMAIN h.block \subseteq Items
  /\ DOMAIN h.cell \subseteq Items
  /\ DOMAIN h.block \cap DOMAIN h.cell = {}
  /\ \A c \in DOMAIN h.cell : h.cell[c] \in CellType(h)
  /\ \A b \in DOMAIN h.block : h.block[b] \in [n_words : Nat, n_used : Nat]
  /\ DOMAIN h.mem = DOMAIN h.block
  /\ \A b \in DOMAIN h.block : DOMAIN h.mem[b] = 0..(h.block[b].n_words - 1)

\* The words of a cell in its block: the first, and the one behind the last.
From(h, c) == h.cell[c].words
To(h, c) == h.cell[c].words + h.cell[c].n_words
BlockOf(h, c) == h.cell[c].block

Tiled(h) ==
  /\ \A c \in DOMAIN h.cell :
       /\ h.cell[c].n_words >= 2
       /\ h.cell[c].requested + 2 <= h.cell[c].n_words
       /\ To(h, c) <= h.block[BlockOf(h, c)].n_words
  /\ \A c, d \in DOMAIN h.cell :
       c # d /\ BlockOf(h, c) = BlockOf(h, d) => To(h, c) <= From(h, d) \/ To(h, d) <= From(h, c)
  /\ \A b \in DOMAIN h.block : \A w \in 0..(h.block[b].n_words - 1) :
       \E c \in DOMAIN h.cell : BlockOf(h, c) = b /\ From(h, c) <= w /\ w < To(h, c)

Guarded(h) ==
  \A c \in DOMAIN h.cell : \A w \in Ends(h, c) : h.mem[BlockOf(h, c)][w] = Guard(c)

Laid(h) == Typed(h) /\ Tiled(h) /\ Guarded(h)

---------------------------------------------------------------------------
(* Fields.                                                                  *)

\* memset and memcpy change words only.
LEMMA PutFields ==
  ASSUME NEW h, Fields(h), NEW b \in DOMAIN h.mem, NEW W, NEW value
  PROVE  LET m == Put(h, b, W, value) IN
         /\ Fields(m) /\ m.block = h.block /\ m.cell = h.cell
         /\ m.unused = h.unused /\ m.used = h.used
         /\ DOMAIN m.mem = DOMAIN h.mem
         /\ \A x \in DOMAIN h.mem : DOMAIN m.mem[x] = DOMAIN h.mem[x]
         /\ \A x \in DOMAIN h.mem : \A w \in DOMAIN h.mem[x] :
              m.mem[x][w] = IF x = b /\ w \in W THEN value ELSE h.mem[x][w]
BY DEF Put, Fields

\* Writing or forgetting the guards of a cell changes the two words at its ends only.
LEMMA EndsFields ==
  ASSUME NEW h, Fields(h), NEW c \in DOMAIN h.cell, h.cell[c].block \in DOMAIN h.mem, NEW value
  PROVE  LET m == SetGuards(h, c, value) IN
         /\ Fields(m) /\ m.block = h.block /\ m.cell = h.cell
         /\ m.unused = h.unused /\ m.used = h.used
         /\ DOMAIN m.mem = DOMAIN h.mem
         /\ \A x \in DOMAIN h.mem : DOMAIN m.mem[x] = DOMAIN h.mem[x]
         /\ \A x \in DOMAIN h.mem : \A w \in DOMAIN h.mem[x] :
              m.mem[x][w] = IF x = BlockOf(h, c) /\ w \in Ends(h, c) THEN value ELSE h.mem[x][w]
BY PutFields DEF SetGuards, BlockOf

\* A cell that is dropped leaves its words where they are.
LEMMA DropFields ==
  ASSUME NEW h, Fields(h), NEW c
  PROVE  LET m == DropCell(h, c) IN
         /\ Fields(m) /\ m.block = h.block /\ m.mem = h.mem
         /\ m.unused = h.unused \ {c} /\ m.used = h.used \ {c}
         /\ m.cell = [x \in DOMAIN h.cell \ {c} |-> h.cell[x]]
BY DEF DropCell, Fields, Without

\* Cell `into` after it has taken the words of its neighbour.
Merged(h, into, gone, words) ==
  [block |-> h.cell[into].block, words |-> words,
   n_words |-> h.cell[into].n_words + h.cell[gone].n_words,
   requested |-> h.cell[into].requested]

\* The merged cell has the words of both, guards at its ends and none where the two met.
LEMMA MergeFields ==
  ASSUME NEW h, Typed(h), NEW into \in DOMAIN h.cell, NEW gone \in DOMAIN h.cell,
         into # gone, NEW words \in Nat
  PROVE  LET m == MergeCells(h, into, gone, words) IN
         /\ Fields(m) /\ m.block = h.block
         /\ m.unused = h.unused \ {gone} /\ m.used = h.used \ {gone}
         /\ DOMAIN m.cell = DOMAIN h.cell \ {gone}
         /\ m.cell[into] = Merged(h, into, gone, words)
         /\ \A x \in DOMAIN m.cell \ {into} : m.cell[x] = h.cell[x]
         /\ DOMAIN m.mem = DOMAIN h.mem
         /\ \A x \in DOMAIN h.mem : DOMAIN m.mem[x] = DOMAIN h.mem[x]
         /\ \A x \in DOMAIN h.mem : \A w \in DOMAIN h.mem[x] :
              m.mem[x][w] = IF x = BlockOf(h, into)
                               /\ w \in {words, words + Merged(h, into, gone, words).n_words - 1}
                            THEN Guard(into)
                            ELSE IF \/ x = BlockOf(h, into) /\ w \in Ends(h, into)
                                    \/ x = BlockOf(h, gone) /\ w \in Ends(h, gone)
                            THEN Stale ELSE h.mem[x][w]
<1> DEFINE f1 == Forget(h, into)
           f == Forget(f1, gone)
           m1 == [f EXCEPT !.cell[into].n_words = @ + h.cell[gone].n_words,
                           !.cell[into].words = words]
           m2 == DropCell(m1, gone)
           m == WriteGuards(m2, into)
<1>1. /\ h.cell[into].block \in DOMAIN h.mem /\ h.cell[gone].block \in DOMAIN h.mem /\ Fields(h)
      /\ h.cell[into] \in CellType(h) /\ h.cell[gone] \in CellType(h)
  BY DEF Typed, CellType
<1>2. /\ Fields(f1) /\ f1.block = h.block /\ f1.cell = h.cell
      /\ f1.unused = h.unused /\ f1.used = h.used
      /\ DOMAIN f1.mem = DOMAIN h.mem
      /\ \A x \in DOMAIN h.mem : DOMAIN f1.mem[x] = DOMAIN h.mem[x]
      /\ \A x \in DOMAIN h.mem : \A w \in DOMAIN h.mem[x] :
           f1.mem[x][w] = IF x = BlockOf(h, into) /\ w \in Ends(h, into) THEN Stale ELSE h.mem[x][w]
  BY <1>1, EndsFields DEF Forget
<1> HIDE DEF f1
<1>3. /\ Fields(f) /\ f.block = h.block /\ f.cell = h.cell
      /\ f.unused = h.unused /\ f.used = h.used
      /\ DOMAIN f.mem = DOMAIN h.mem
      /\ \A x \in DOMAIN h.mem : DOMAIN f.mem[x] = DOMAIN h.mem[x]
      /\ \A x \in DOMAIN h.mem : \A w \in DOMAIN h.mem[x] :
           f.mem[x][w] = IF x = BlockOf(h, gone) /\ w \in Ends(h, gone) THEN Stale ELSE f1.mem[x][w]
  <2>1. BlockOf(f1, gone) = BlockOf(h, gone) /\ Ends(f1, gone) = Ends(h, gone)
    BY <1>2 DEF BlockOf, Ends
  <2> QED
    BY <1>1, <1>2, <2>1, EndsFields DEF Forget
<1> HIDE DEF f
<1>4. /\ Fields(m1) /\ m1.block = h.block /\ m1.mem = f.mem
      /\ m1.unused = h.unused /\ m1.used = h.used
      /\ DOMAIN m1.cell = DOMAIN h.cell
      /\ \A x \in DOMAIN h.cell \ {into} : m1.cell[x] = h.cell[x]
      /\ m1.cell[into] = Merged(h, into, gone, words)
  BY <1>1, <1>3 DEF Fields, Merged, CellType
<1> HIDE DEF m1
<1>5. /\ Fields(m2) /\ m2.block = h.block /\ m2.mem = f.mem
      /\ m2.unused = h.unused \ {gone} /\ m2.used = h.used \ {gone}
      /\ DOMAIN m2.cell = DOMAIN h.cell \ {gone}
      /\ \A x \in DOMAIN m2.cell : m2.cell[x] = m1.cell[x]
  <2>1. m2.cell = [x \in DOMAIN m1.cell \ {gone} |-> m1.cell[x]]
    BY <1>4, DropFields
  <2> QED
    BY <1>4, <2>1, DropFields
<1> HIDE DEF m2
<1>6. m2.cell[into] = Merged(h, into, gone, words) /\ into \in DOMAIN m2.cell
  BY <1>4, <1>5
<1>7. /\ BlockOf(m2, into) = BlockOf(h, into)
      /\ Ends(m2, into) = {words, words + Merged(h, into, gone, words).n_words - 1}
  BY <1>1, <1>6 DEF BlockOf, Ends, Merged, CellType
<1>8. /\ Fields(m) /\ m.block = m2.block /\ m.cell = m2.cell
      /\ m.unused = m2.unused /\ m.used = m2.used
      /\ DOMAIN m.mem = DOMAIN m2.mem
      /\ \A x \in DOMAIN m2.mem : DOMAIN m.mem[x] = DOMAIN m2.mem[x]
      /\ \A x \in DOMAIN m2.mem : \A w \in DOMAIN m2.mem[x] :
           m.mem[x][w] = IF x = BlockOf(m2, into) /\ w \in Ends(m2, into)
                         THEN Guard(into) ELSE m2.mem[x][w]
  <2>1. m2.cell[into].block \in DOMAIN m2.mem
    BY <1>1, <1>3, <1>5, <1>6 DEF Merged
  <2> QED
    BY <1>5, <1>6, <2>1, EndsFields DEF WriteGuards
<1>9. MergeCells(h, into, gone, words) = m
  BY DEF MergeCells, m, m2, m1, f, f1
<1> HIDE DEF m
<1>10. /\ Fields(m) /\ m.block = h.block
       /\ m.unused = h.unused \ {gone} /\ m.used = h.used \ {gone}
       /\ DOMAIN m.cell = DOMAIN h.cell \ {gone}
       /\ m.cell[into] = Merged(h, into, gone, words)
       /\ \A x \in DOMAIN m.cell \ {into} : m.cell[x] = h.cell[x]
       /\ DOMAIN m.mem = DOMAIN h.mem
       /\ \A x \in DOMAIN h.mem : DOMAIN m.mem[x] = DOMAIN h.mem[x]
  BY <1>3, <1>4, <1>5, <1>6, <1>8
<1>11. ASSUME NEW x \in DOMAIN h.mem, NEW w \in DOMAIN h.mem[x]
       PROVE  m.mem[x][w] = IF x = BlockOf(h, into)
                               /\ w \in {words, words + Merged(h, into, gone, words).n_words - 1}
                            THEN Guard(into)
                            ELSE IF \/ x = BlockOf(h, into) /\ w \in Ends(h, into)
                                    \/ x = BlockOf(h, gone) /\ w \in Ends(h, gone)
                            THEN Stale ELSE h.mem[x][w]
  <2>1. m.mem[x][w] = IF x = BlockOf(m2, into) /\ w \in Ends(m2, into)
                      THEN Guard(into) ELSE f.mem[x][w]
    BY <1>3, <1>5, <1>8
  <2>2. f.mem[x][w] = IF x = BlockOf(h, gone) /\ w \in Ends(h, gone) THEN Stale ELSE f1.mem[x][w]
    BY <1>3
  <2>3. f1.mem[x][w] = IF x = BlockOf(h, into) /\ w \in Ends(h, into) THEN Stale ELSE h.mem[x][w]
    BY <1>2
  <2> QED
    BY <1>7, <2>1, <2>2, <2>3
<1> QED
  BY <1>9, <1>10, <1>11

---------------------------------------------------------------------------
(* The cells tile their block, and their guards are where the neighbours    *)
(* look for them.                                                           *)

\* The type of one cell.
LEMMA CellTypes ==
  ASSUME NEW h, Typed(h), NEW c \in DOMAIN h.cell
  PROVE  /\ c \in Items
         /\ h.cell[c].words \in Nat /\ h.cell[c].n_words \in Nat /\ h.cell[c].requested \in Nat
         /\ From(h, c) \in Nat /\ To(h, c) \in Nat
         /\ BlockOf(h, c) \in DOMAIN h.block /\ BlockOf(h, c) \in DOMAIN h.mem
         /\ h.block[BlockOf(h, c)].n_words \in Nat
         /\ DOMAIN h.mem[BlockOf(h, c)] = 0..(h.block[BlockOf(h, c)].n_words - 1)
BY DEF Typed, CellType, From, To, BlockOf

\* The guards are the first word of the cell and the last.
LEMMA CellEnds ==
  ASSUME NEW h, Typed(h), NEW c \in DOMAIN h.cell
  PROVE  Ends(h, c) = {From(h, c), To(h, c) - 1} /\ To(h, c) = From(h, c) + h.cell[c].n_words
<1>1. h.cell[c].words \in Nat /\ h.cell[c].n_words \in Nat
  BY CellTypes
<1>2. \A w : w \in Ends(h, c) <=> w \in {From(h, c), To(h, c) - 1}
  BY <1>1 DEF Ends, From, To
<1> QED
  BY <1>2 DEF From, To

\* The words of a cell that are not guards.
Inside(h, c) == (From(h, c) + 1)..(To(h, c) - 2)

\* The words of a cell lie in its block, and the guards of another cell are not among them.
LEMMA CellWords ==
  ASSUME NEW h, Typed(h), Tiled(h), NEW c \in DOMAIN h.cell
  PROVE  /\ From(h, c) + 2 <= To(h, c)
         /\ Ends(h, c) \subseteq DOMAIN h.mem[BlockOf(h, c)]
         /\ Inside(h, c) \subseteq DOMAIN h.mem[BlockOf(h, c)]
         /\ Ends(h, c) \cap Inside(h, c) = {}
         /\ \A d \in DOMAIN h.cell : d # c /\ BlockOf(h, d) = BlockOf(h, c) =>
              /\ Ends(h, d) \cap Inside(h, c) = {}
              /\ Ends(h, d) \cap Ends(h, c) = {}
              /\ Inside(h, d) \cap Inside(h, c) = {}
              /\ From(h, d) # From(h, c)
<1>1. /\ h.cell[c].n_words >= 2 /\ To(h, c) <= h.block[BlockOf(h, c)].n_words
      /\ To(h, c) = From(h, c) + h.cell[c].n_words /\ Ends(h, c) = {From(h, c), To(h, c) - 1}
  BY CellEnds DEF Tiled
<1>2. /\ From(h, c) + 2 <= To(h, c)
      /\ Ends(h, c) \subseteq DOMAIN h.mem[BlockOf(h, c)]
      /\ Inside(h, c) \subseteq DOMAIN h.mem[BlockOf(h, c)]
      /\ Ends(h, c) \cap Inside(h, c) = {}
  <2>1. /\ From(h, c) \in Nat /\ To(h, c) \in Nat /\ h.cell[c].n_words \in Nat
        /\ h.block[BlockOf(h, c)].n_words \in Nat
        /\ DOMAIN h.mem[BlockOf(h, c)] = 0..(h.block[BlockOf(h, c)].n_words - 1)
    BY CellTypes
  <2>2. From(h, c) + 2 <= To(h, c)
    BY <1>1, <2>1
  <2> DEFINE N == h.block[BlockOf(h, c)].n_words
             F == From(h, c)
             T == To(h, c)
  <2>3. F \in Nat /\ T \in Nat /\ N \in Nat /\ F + 2 <= T /\ T <= N
    BY <1>1, <2>1, <2>2
  <2>4. Ends(h, c) = {F, T - 1} /\ Inside(h, c) = (F + 1)..(T - 2)
        /\ DOMAIN h.mem[BlockOf(h, c)] = 0..(N - 1)
    BY <1>1, <2>1 DEF Inside
  <2> HIDE DEF N, F, T
  <2>5. {F, T - 1} \subseteq 0..(N - 1) /\ (F + 1)..(T - 2) \subseteq 0..(N - 1)
        /\ {F, T - 1} \cap ((F + 1)..(T - 2)) = {}
    BY <2>3
  <2> QED
    BY <2>2, <2>4, <2>5
<1>3. ASSUME NEW d \in DOMAIN h.cell, d # c, BlockOf(h, d) = BlockOf(h, c)
      PROVE  /\ Ends(h, d) \cap Inside(h, c) = {}
             /\ Ends(h, d) \cap Ends(h, c) = {}
             /\ Inside(h, d) \cap Inside(h, c) = {}
             /\ From(h, d) # From(h, c)
  <2>1. To(h, c) <= From(h, d) \/ To(h, d) <= From(h, c)
    BY <1>3 DEF Tiled
  <2>2. h.cell[d].n_words >= 2 /\ To(h, d) = From(h, d) + h.cell[d].n_words
        /\ Ends(h, d) = {From(h, d), To(h, d) - 1}
    BY CellEnds DEF Tiled
  <2>3. From(h, d) \in Nat /\ To(h, d) \in Nat /\ From(h, c) \in Nat /\ To(h, c) \in Nat
        /\ h.cell[d].n_words \in Nat /\ h.cell[c].n_words \in Nat
    BY CellTypes
  <2> QED
    BY <1>1, <2>1, <2>2, <2>3 DEF Inside
<1> QED
  BY <1>2, <1>3

\* m has the words of h inside cell c.
SameWords(h, m, c) ==
  \A w \in Inside(h, c) : m.mem[BlockOf(h, c)][w] = h.mem[BlockOf(h, c)][w]

IsData(x) == x[1] = "data"

\* Data in m is in the same place in h.
NoNewData(h, m) ==
  \A b \in DOMAIN m.mem : \A w \in DOMAIN m.mem[b] :
    IsData(m.mem[b][w]) =>
      b \in DOMAIN h.mem /\ w \in DOMAIN h.mem[b] /\ m.mem[b][w] = h.mem[b][w]

\* Guards and zeroes are no data.
LEMMA NotData ==
  ~IsData(Zero) /\ ~IsData(Stale) /\ (\A c : ~IsData(Guard(c))) /\ (\A t : IsData(Data(t)))
BY DEF IsData, Zero, Stale, Guard, Data

Adjacent(h, c, d) == BlockOf(h, c) = BlockOf(h, d) /\ To(h, c) = From(h, d)

\* Merging two cells that lie side by side.
LEMMA MergeLaid ==
  ASSUME NEW h, Laid(h), NEW into \in DOMAIN h.cell, NEW gone \in DOMAIN h.cell,
         into # gone, NEW words,
         \/ Adjacent(h, into, gone) /\ words = From(h, into)
         \/ Adjacent(h, gone, into) /\ words = From(h, gone)
  PROVE  LET m == MergeCells(h, into, gone, words) IN
         /\ Laid(m) /\ NoNewData(h, m) /\ \A c \in DOMAIN h.cell : SameWords(h, m, c)
<1> DEFINE m == MergeCells(h, into, gone, words)
           n == h.cell[into].n_words + h.cell[gone].n_words
<1>0. Typed(h) /\ Tiled(h) /\ Guarded(h) /\ words \in Nat
  BY CellTypes DEF Laid
<1>1. /\ Fields(m) /\ m.block = h.block
      /\ DOMAIN m.cell = DOMAIN h.cell \ {gone}
      /\ m.cell[into] = Merged(h, into, gone, words)
      /\ \A x \in DOMAIN m.cell \ {into} : m.cell[x] = h.cell[x]
      /\ DOMAIN m.mem = DOMAIN h.mem
      /\ \A x \in DOMAIN h.mem : DOMAIN m.mem[x] = DOMAIN h.mem[x]
  BY <1>0, MergeFields
<1>2. ASSUME NEW x \in DOMAIN h.mem, NEW w \in DOMAIN h.mem[x]
      PROVE  m.mem[x][w] = IF x = BlockOf(h, into)
                               /\ w \in {words, words + Merged(h, into, gone, words).n_words - 1}
                            THEN Guard(into)
                            ELSE IF \/ x = BlockOf(h, into) /\ w \in Ends(h, into)
                                    \/ x = BlockOf(h, gone) /\ w \in Ends(h, gone)
                            THEN Stale ELSE h.mem[x][w]
  BY <1>0, MergeFields
<1> HIDE DEF m
<1>3. /\ BlockOf(m, into) = BlockOf(h, into) /\ From(m, into) = words /\ To(m, into) = words + n
      /\ m.cell[into].n_words = n /\ m.cell[into].requested = h.cell[into].requested
      /\ Ends(m, into) = {words, words + n - 1} /\ Merged(h, into, gone, words).n_words = n
      /\ m.cell[into].block = h.cell[into].block /\ m.cell[into].words = words
  BY <1>1 DEF Merged, BlockOf, From, To, Ends
<1>4. \A x \in DOMAIN m.cell \ {into} :
        /\ BlockOf(m, x) = BlockOf(h, x) /\ From(m, x) = From(h, x) /\ To(m, x) = To(h, x)
        /\ Ends(m, x) = Ends(h, x)
  BY <1>1 DEF BlockOf, From, To, Ends
<1>5. /\ BlockOf(h, into) = BlockOf(h, gone)
      /\ From(h, into) \in Nat /\ From(h, gone) \in Nat
      /\ To(h, into) = From(h, into) + h.cell[into].n_words
      /\ To(h, gone) = From(h, gone) + h.cell[gone].n_words
      /\ h.cell[into].n_words \in Nat /\ h.cell[into].n_words >= 2
      /\ h.cell[gone].n_words \in Nat /\ h.cell[gone].n_words >= 2
      /\ n \in Nat /\ h.cell[into].requested \in Nat /\ h.cell[into].requested + 2 <= n
      /\ To(h, into) <= h.block[BlockOf(h, into)].n_words
      /\ To(h, gone) <= h.block[BlockOf(h, into)].n_words
  <2>1. BlockOf(h, into) = BlockOf(h, gone)
    BY DEF Adjacent
  <2>2. /\ From(h, into) \in Nat /\ From(h, gone) \in Nat
        /\ To(h, into) = From(h, into) + h.cell[into].n_words
        /\ To(h, gone) = From(h, gone) + h.cell[gone].n_words
        /\ h.cell[into].n_words \in Nat /\ h.cell[gone].n_words \in Nat
        /\ h.cell[into].requested \in Nat
    BY <1>0, CellTypes, CellEnds
  <2>3. /\ h.cell[into].n_words >= 2 /\ h.cell[gone].n_words >= 2
        /\ h.cell[into].requested + 2 <= h.cell[into].n_words
        /\ To(h, into) <= h.block[BlockOf(h, into)].n_words
        /\ To(h, gone) <= h.block[BlockOf(h, gone)].n_words
    BY <1>0 DEF Tiled
  <2> QED
    BY <2>1, <2>2, <2>3
<1>6. \/ words = From(h, into) /\ words + n = To(h, gone) /\ To(h, into) = From(h, gone)
      \/ words = From(h, gone) /\ words + n = To(h, into) /\ To(h, gone) = From(h, into)
  BY <1>5 DEF Adjacent
<1>7. Typed(m)
  <2>1. m.cell[into] \in CellType(m)
    <3>1. h.cell[into].block \in DOMAIN h.block
      BY <1>0, CellTypes DEF BlockOf
    <3> QED
      BY <1>0, <1>1, <1>5, <3>1 DEF Merged, CellType
  <2>2. \A x \in DOMAIN m.cell : m.cell[x] \in CellType(m)
    BY <1>0, <1>1, <2>1 DEF Typed, CellType
  <2> QED
    BY <1>0, <1>1, <2>2 DEF Typed
<1>8. Tiled(m)
  <2>1. ASSUME NEW c \in DOMAIN m.cell
        PROVE  /\ m.cell[c].n_words >= 2
               /\ m.cell[c].requested + 2 <= m.cell[c].n_words
               /\ To(m, c) <= m.block[BlockOf(m, c)].n_words
    <3>1. CASE c = into
      BY <1>1, <1>3, <1>5, <1>6, <3>1
    <3>2. CASE c # into
      BY <1>0, <1>1, <1>4, <3>2 DEF Tiled
    <3> QED
      BY <3>1, <3>2
  <2>2. ASSUME NEW c \in DOMAIN m.cell, c # into, BlockOf(m, c) = BlockOf(m, into)
        PROVE  To(m, c) <= From(m, into) \/ To(m, into) <= From(m, c)
    <3>1. /\ To(h, c) <= From(h, into) \/ To(h, into) <= From(h, c)
          /\ To(h, c) <= From(h, gone) \/ To(h, gone) <= From(h, c)
      BY <1>0, <1>1, <1>3, <1>4, <1>5, <2>2 DEF Tiled
    <3>2. From(h, c) + 2 <= To(h, c) /\ From(h, c) \in Nat /\ To(h, c) \in Nat
      BY <1>0, <1>1, CellTypes, CellWords
    <3>3. To(h, c) <= words \/ words + n <= From(h, c)
      BY <1>5, <1>6, <3>1, <3>2
    <3> QED
      BY <1>3, <1>4, <2>2, <3>3
  <2>3. ASSUME NEW c \in DOMAIN m.cell, NEW d \in DOMAIN m.cell, c # d,
               BlockOf(m, c) = BlockOf(m, d)
        PROVE  To(m, c) <= From(m, d) \/ To(m, d) <= From(m, c)
    <3>1. CASE c # into /\ d # into
      BY <1>0, <1>1, <1>4, <2>3, <3>1 DEF Tiled
    <3> QED
      BY <2>2, <2>3, <3>1
  <2>4. ASSUME NEW b \in DOMAIN m.block, NEW w \in 0..(m.block[b].n_words - 1)
        PROVE  \E c \in DOMAIN m.cell : BlockOf(m, c) = b /\ From(m, c) <= w /\ w < To(m, c)
    <3>1. PICK c \in DOMAIN h.cell : BlockOf(h, c) = b /\ From(h, c) <= w /\ w < To(h, c)
      BY <1>0, <1>1 DEF Tiled
    <3>2. CASE c \in {into, gone}
      <4>1. From(m, into) <= w /\ w < To(m, into)
        BY <1>3, <1>5, <1>6, <3>1, <3>2
      <4> QED
        BY <1>1, <1>3, <1>5, <3>1, <3>2, <4>1
    <3>3. CASE c \notin {into, gone}
      BY <1>1, <1>4, <3>1, <3>3
    <3> QED
      BY <3>2, <3>3
  <2> QED
    BY <2>1, <2>3, <2>4 DEF Tiled
<1>9. Guarded(m)
  <2>1. ASSUME NEW w \in Ends(m, into) PROVE m.mem[BlockOf(m, into)][w] = Guard(into)
    BY <1>1, <1>2, <1>3, <1>7, <1>8, CellTypes, CellWords
  <2>2. ASSUME NEW c \in DOMAIN m.cell, c # into, NEW w \in Ends(m, c)
        PROVE  m.mem[BlockOf(m, c)][w] = Guard(c)
    <3>1. h.mem[BlockOf(h, c)][w] = Guard(c) /\ w \in Ends(h, c) /\ c \in DOMAIN h.cell /\ c # gone
      BY <1>0, <1>1, <1>4, <2>2 DEF Guarded
    <3>2. w \in DOMAIN h.mem[BlockOf(h, c)] /\ BlockOf(h, c) \in DOMAIN h.mem
      BY <1>0, <3>1, CellTypes, CellWords
    <3>3. BlockOf(h, c) = BlockOf(h, into) => w \notin Ends(m, into)
      BY <1>1, <1>3, <1>4, <1>7, <1>8, <2>2, <3>1, CellWords
    <3>4. BlockOf(h, c) = BlockOf(h, into) => w \notin Ends(h, into) \cup Ends(h, gone)
      BY <1>0, <1>5, <2>2, <3>1, CellWords
    <3> QED
      BY <1>2, <1>3, <1>4, <1>5, <2>2, <3>1, <3>2, <3>3, <3>4
  <2> QED
    BY <2>1, <2>2 DEF Guarded
<1>10. NoNewData(h, m)
  BY <1>1, <1>2, NotData DEF NoNewData
<1>11. ASSUME NEW c \in DOMAIN h.cell PROVE SameWords(h, m, c)
  <2>1. SUFFICES ASSUME NEW w \in Inside(h, c)
                 PROVE  m.mem[BlockOf(h, c)][w] = h.mem[BlockOf(h, c)][w]
    BY DEF SameWords
  <2>2. w \in DOMAIN h.mem[BlockOf(h, c)] /\ BlockOf(h, c) \in DOMAIN h.mem
    BY <1>0, CellTypes, CellWords
  <2>3. BlockOf(h, c) = BlockOf(h, into) => w \notin Ends(h, into) \cup Ends(h, gone)
    BY <1>0, <1>5, <2>1, CellWords
  <2>4. Ends(m, into) \subseteq Ends(h, into) \cup Ends(h, gone)
    <3>1. Ends(h, into) = {From(h, into), To(h, into) - 1} /\ Ends(h, gone) = {From(h, gone), To(h, gone) - 1}
      BY <1>0, CellEnds
    <3> QED
      BY <1>3, <1>5, <1>6, <3>1
  <2> QED
    BY <1>2, <1>3, <1>5, <2>2, <2>3, <2>4
<1> QED
  BY <1>7, <1>8, <1>9, <1>10, <1>11 DEF Laid, m

\* The front n words of cell c become the cell `new`.
LEMMA SplitFields ==
  ASSUME NEW h, Typed(h), PoolFree(h) # {}, NEW c \in DOMAIN h.cell, NEW n \in Nat
  PROVE  LET m == SplitFront(h, c, n)
             new == PoolAlloc(h) IN
         /\ new \in Items \ (DOMAIN h.block \cup DOMAIN h.cell)
         /\ Fields(m) /\ m.block = h.block /\ m.unused = h.unused /\ m.used = h.used
         /\ DOMAIN m.cell = DOMAIN h.cell \cup {new}
         /\ m.cell[new] = [block |-> h.cell[c].block, words |-> h.cell[c].words, n_words |-> n,
                           requested |-> 0]
         /\ m.cell[c] = [block |-> h.cell[c].block, words |-> h.cell[c].words + n,
                         n_words |-> h.cell[c].n_words - n, requested |-> h.cell[c].requested]
         /\ \A x \in DOMAIN h.cell \ {c} : m.cell[x] = h.cell[x]
         /\ DOMAIN m.mem = DOMAIN h.mem
         /\ \A x \in DOMAIN h.mem : DOMAIN m.mem[x] = DOMAIN h.mem[x]
         /\ \A x \in DOMAIN h.mem : \A w \in DOMAIN h.mem[x] :
              m.mem[x][w] = IF x = BlockOf(h, c) /\ w \in Ends(m, c) THEN Guard(c)
                            ELSE IF x = BlockOf(h, c) /\ w \in Ends(m, new) THEN Guard(new)
                            ELSE h.mem[x][w]
<1> DEFINE new == PoolAlloc(h)
           front == [block |-> h.cell[c].block, words |-> h.cell[c].words, n_words |-> n,
                     requested |-> 0]
           rest == [block |-> h.cell[c].block, words |-> h.cell[c].words + n,
                    n_words |-> h.cell[c].n_words - n, requested |-> h.cell[c].requested]
           h0 == [h EXCEPT !.cell[c].words = @ + n, !.cell[c].n_words = @ - n]
           h1 == [h0 EXCEPT !.cell = With(@, new, front)]
           h2 == WriteGuards(h1, new)
           m == WriteGuards(h2, c)
<1>1. new \in Items \ (DOMAIN h.block \cup DOMAIN h.cell)
  BY DEF PoolAlloc, PoolFree
<1> HIDE DEF new
<1>2. h.cell[c] \in CellType(h) /\ Fields(h) /\ h.cell[c].block \in DOMAIN h.mem
  BY DEF Typed, CellType
<1>3. /\ Fields(h0) /\ h0.block = h.block /\ h0.unused = h.unused /\ h0.used = h.used
      /\ h0.mem = h.mem
      /\ DOMAIN h0.cell = DOMAIN h.cell
      /\ h0.cell[c] = rest
      /\ \A x \in DOMAIN h.cell \ {c} : h0.cell[x] = h.cell[x]
  BY <1>2 DEF Fields, CellType
<1> HIDE DEF h0
<1>4. /\ Fields(h1) /\ h1.block = h.block /\ h1.unused = h.unused /\ h1.used = h.used
      /\ h1.mem = h.mem
      /\ DOMAIN h1.cell = DOMAIN h.cell \cup {new}
      /\ h1.cell[new] = front /\ h1.cell[c] = rest
      /\ \A x \in DOMAIN h.cell \ {c} : h1.cell[x] = h.cell[x]
  BY <1>1, <1>2, <1>3 DEF Fields, With
<1> HIDE DEF h1
<1>5. /\ Fields(h2) /\ h2.block = h1.block /\ h2.cell = h1.cell
      /\ h2.unused = h1.unused /\ h2.used = h1.used
      /\ DOMAIN h2.mem = DOMAIN h1.mem
      /\ \A x \in DOMAIN h1.mem : DOMAIN h2.mem[x] = DOMAIN h1.mem[x]
      /\ \A x \in DOMAIN h1.mem : \A w \in DOMAIN h1.mem[x] :
           h2.mem[x][w] = IF x = BlockOf(h1, new) /\ w \in Ends(h1, new) THEN Guard(new)
                          ELSE h1.mem[x][w]
  <2>1. h1.cell[new].block \in DOMAIN h1.mem /\ new \in DOMAIN h1.cell
    BY <1>2, <1>3, <1>4
  <2> QED
    BY <1>4, <2>1, EndsFields DEF WriteGuards
<1> HIDE DEF h2
<1>6. /\ Fields(m) /\ m.block = h2.block /\ m.cell = h2.cell
      /\ m.unused = h2.unused /\ m.used = h2.used
      /\ DOMAIN m.mem = DOMAIN h2.mem
      /\ \A x \in DOMAIN h2.mem : DOMAIN m.mem[x] = DOMAIN h2.mem[x]
      /\ \A x \in DOMAIN h2.mem : \A w \in DOMAIN h2.mem[x] :
           m.mem[x][w] = IF x = BlockOf(h2, c) /\ w \in Ends(h2, c) THEN Guard(c)
                         ELSE h2.mem[x][w]
  <2>1. h2.cell[c].block \in DOMAIN h2.mem /\ c \in DOMAIN h2.cell
    BY <1>2, <1>3, <1>4, <1>5
  <2> QED
    BY <1>5, <2>1, EndsFields DEF WriteGuards
<1>7. SplitFront(h, c, n) = m
  BY DEF SplitFront, m, h2, h1, h0, new
<1> HIDE DEF m
<1>8. /\ BlockOf(h1, new) = BlockOf(h, c) /\ BlockOf(h2, c) = BlockOf(h, c)
      /\ Ends(h1, new) = Ends(m, new) /\ Ends(h2, c) = Ends(m, c)
  BY <1>3, <1>4, <1>5, <1>6 DEF BlockOf, Ends
<1>9. ASSUME NEW x \in DOMAIN h.mem, NEW w \in DOMAIN h.mem[x]
      PROVE  m.mem[x][w] = IF x = BlockOf(h, c) /\ w \in Ends(m, c) THEN Guard(c)
                            ELSE IF x = BlockOf(h, c) /\ w \in Ends(m, new) THEN Guard(new)
                            ELSE h.mem[x][w]
  BY <1>4, <1>5, <1>6, <1>8
<1>10. /\ Fields(m) /\ m.block = h.block /\ m.unused = h.unused /\ m.used = h.used
       /\ DOMAIN m.cell = DOMAIN h.cell \cup {new}
       /\ m.cell[new] = front /\ m.cell[c] = rest
       /\ \A x \in DOMAIN h.cell \ {c} : m.cell[x] = h.cell[x]
       /\ DOMAIN m.mem = DOMAIN h.mem
       /\ \A x \in DOMAIN h.mem : DOMAIN m.mem[x] = DOMAIN h.mem[x]
  BY <1>4, <1>5, <1>6
<1> QED
  BY <1>1, <1>7, <1>9, <1>10 DEF new

\* Cell c takes n words of the cell behind it.
LEMMA StealFields ==
  ASSUME NEW h, Typed(h), NEW c \in DOMAIN h.cell, NEW other \in DOMAIN h.cell, c # other,
         NEW n \in Nat
  PROVE  LET m == Steal(h, c, other, n) IN
         /\ Fields(m) /\ m.block = h.block /\ m.unused = h.unused /\ m.used = h.used
         /\ DOMAIN m.cell = DOMAIN h.cell
         /\ m.cell[c] = [block |-> h.cell[c].block, words |-> h.cell[c].words,
                         n_words |-> h.cell[c].n_words + n, requested |-> h.cell[c].requested]
         /\ m.cell[other] = [block |-> h.cell[other].block, words |-> h.cell[other].words + n,
                             n_words |-> h.cell[other].n_words - n,
                             requested |-> h.cell[other].requested]
         /\ \A x \in DOMAIN h.cell \ {c, other} : m.cell[x] = h.cell[x]
         /\ DOMAIN m.mem = DOMAIN h.mem
         /\ \A x \in DOMAIN h.mem : DOMAIN m.mem[x] = DOMAIN h.mem[x]
         /\ \A x \in DOMAIN h.mem : \A w \in DOMAIN h.mem[x] :
              m.mem[x][w] = IF x = BlockOf(h, c) /\ w \in Ends(m, c) THEN Guard(c)
                            ELSE IF x = BlockOf(h, other) /\ w \in Ends(m, other) THEN Guard(other)
                            ELSE IF \/ x = BlockOf(h, c) /\ w \in Ends(h, c)
                                    \/ x = BlockOf(h, other) /\ w \in Ends(h, other)
                            THEN Stale ELSE h.mem[x][w]
<1> DEFINE f1 == Forget(h, c)
           f == Forget(f1, other)
           h1 == [f EXCEPT !.cell[other].words = @ + n, !.cell[other].n_words = @ - n,
                           !.cell[c].n_words = @ + n]
           h2 == WriteGuards(h1, other)
           m == WriteGuards(h2, c)
           taken == [block |-> h.cell[c].block, words |-> h.cell[c].words,
                     n_words |-> h.cell[c].n_words + n, requested |-> h.cell[c].requested]
           left == [block |-> h.cell[other].block, words |-> h.cell[other].words + n,
                    n_words |-> h.cell[other].n_words - n, requested |-> h.cell[other].requested]
<1>1. /\ h.cell[c].block \in DOMAIN h.mem /\ h.cell[other].block \in DOMAIN h.mem /\ Fields(h)
      /\ h.cell[c] \in CellType(h) /\ h.cell[other] \in CellType(h)
  BY DEF Typed, CellType
<1>2. /\ Fields(f1) /\ f1.block = h.block /\ f1.cell = h.cell
      /\ f1.unused = h.unused /\ f1.used = h.used
      /\ DOMAIN f1.mem = DOMAIN h.mem
      /\ \A x \in DOMAIN h.mem : DOMAIN f1.mem[x] = DOMAIN h.mem[x]
      /\ \A x \in DOMAIN h.mem : \A w \in DOMAIN h.mem[x] :
           f1.mem[x][w] = IF x = BlockOf(h, c) /\ w \in Ends(h, c) THEN Stale ELSE h.mem[x][w]
  BY <1>1, EndsFields DEF Forget
<1> HIDE DEF f1
<1>3. /\ Fields(f) /\ f.block = h.block /\ f.cell = h.cell
      /\ f.unused = h.unused /\ f.used = h.used
      /\ DOMAIN f.mem = DOMAIN h.mem
      /\ \A x \in DOMAIN h.mem : DOMAIN f.mem[x] = DOMAIN h.mem[x]
      /\ \A x \in DOMAIN h.mem : \A w \in DOMAIN h.mem[x] :
           f.mem[x][w] = IF x = BlockOf(h, other) /\ w \in Ends(h, other) THEN Stale
                         ELSE f1.mem[x][w]
  <2>1. BlockOf(f1, other) = BlockOf(h, other) /\ Ends(f1, other) = Ends(h, other)
    BY <1>2 DEF BlockOf, Ends
  <2> QED
    BY <1>1, <1>2, <2>1, EndsFields DEF Forget
<1> HIDE DEF f
<1>4. /\ Fields(h1) /\ h1.block = h.block /\ h1.mem = f.mem
      /\ h1.unused = h.unused /\ h1.used = h.used
      /\ DOMAIN h1.cell = DOMAIN h.cell
      /\ \A x \in DOMAIN h.cell \ {c, other} : h1.cell[x] = h.cell[x]
      /\ h1.cell[c] = taken /\ h1.cell[other] = left
  BY <1>1, <1>3 DEF Fields, CellType
<1> HIDE DEF h1
<1>5. /\ Fields(h2) /\ h2.block = h1.block /\ h2.cell = h1.cell
      /\ h2.unused = h1.unused /\ h2.used = h1.used
      /\ DOMAIN h2.mem = DOMAIN h1.mem
      /\ \A x \in DOMAIN h1.mem : DOMAIN h2.mem[x] = DOMAIN h1.mem[x]
      /\ \A x \in DOMAIN h1.mem : \A w \in DOMAIN h1.mem[x] :
           h2.mem[x][w] = IF x = BlockOf(h1, other) /\ w \in Ends(h1, other) THEN Guard(other)
                          ELSE h1.mem[x][w]
  <2>1. h1.cell[other].block \in DOMAIN h1.mem /\ other \in DOMAIN h1.cell
    BY <1>1, <1>3, <1>4
  <2> QED
    BY <1>4, <2>1, EndsFields DEF WriteGuards
<1> HIDE DEF h2
<1>6. /\ Fields(m) /\ m.block = h2.block /\ m.cell = h2.cell
      /\ m.unused = h2.unused /\ m.used = h2.used
      /\ DOMAIN m.mem = DOMAIN h2.mem
      /\ \A x \in DOMAIN h2.mem : DOMAIN m.mem[x] = DOMAIN h2.mem[x]
      /\ \A x \in DOMAIN h2.mem : \A w \in DOMAIN h2.mem[x] :
           m.mem[x][w] = IF x = BlockOf(h2, c) /\ w \in Ends(h2, c) THEN Guard(c)
                         ELSE h2.mem[x][w]
  <2>1. h2.cell[c].block \in DOMAIN h2.mem /\ c \in DOMAIN h2.cell
    BY <1>1, <1>3, <1>4, <1>5
  <2> QED
    BY <1>5, <2>1, EndsFields DEF WriteGuards
<1>7. Steal(h, c, other, n) = m
  BY DEF Steal, m, h2, h1, f, f1
<1> HIDE DEF m
<1>8. /\ BlockOf(h1, other) = BlockOf(h, other) /\ BlockOf(h2, c) = BlockOf(h, c)
      /\ Ends(h1, other) = Ends(m, other) /\ Ends(h2, c) = Ends(m, c)
  BY <1>4, <1>5, <1>6 DEF BlockOf, Ends
<1>9. ASSUME NEW x \in DOMAIN h.mem, NEW w \in DOMAIN h.mem[x]
      PROVE  m.mem[x][w] = IF x = BlockOf(h, c) /\ w \in Ends(m, c) THEN Guard(c)
                            ELSE IF x = BlockOf(h, other) /\ w \in Ends(m, other) THEN Guard(other)
                            ELSE IF \/ x = BlockOf(h, c) /\ w \in Ends(h, c)
                                    \/ x = BlockOf(h, other) /\ w \in Ends(h, other)
                            THEN Stale ELSE h.mem[x][w]
  <2>1. m.mem[x][w] = IF x = BlockOf(h2, c) /\ w \in Ends(h2, c) THEN Guard(c) ELSE h2.mem[x][w]
    BY <1>3, <1>4, <1>5, <1>6
  <2>2. h2.mem[x][w] = IF x = BlockOf(h1, other) /\ w \in Ends(h1, other) THEN Guard(other)
                       ELSE f.mem[x][w]
    BY <1>3, <1>4, <1>5
  <2>3. f.mem[x][w] = IF x = BlockOf(h, other) /\ w \in Ends(h, other) THEN Stale ELSE f1.mem[x][w]
    BY <1>3
  <2>4. f1.mem[x][w] = IF x = BlockOf(h, c) /\ w \in Ends(h, c) THEN Stale ELSE h.mem[x][w]
    BY <1>2
  <2> QED
    BY <1>8, <2>1, <2>2, <2>3, <2>4
<1>10. /\ Fields(m) /\ m.block = h.block /\ m.unused = h.unused /\ m.used = h.used
       /\ DOMAIN m.cell = DOMAIN h.cell
       /\ m.cell[c] = taken /\ m.cell[other] = left
       /\ \A x \in DOMAIN h.cell \ {c, other} : m.cell[x] = h.cell[x]
       /\ DOMAIN m.mem = DOMAIN h.mem
       /\ \A x \in DOMAIN h.mem : DOMAIN m.mem[x] = DOMAIN h.mem[x]
  BY <1>3, <1>4, <1>5, <1>6
<1> QED
  BY <1>7, <1>9, <1>10

\* Cells `before` of block b become cells `after` of it, with new guards.
Reshape(h, m, b, before, after) ==
  /\ before \subseteq DOMAIN h.cell /\ after \subseteq DOMAIN m.cell
  /\ DOMAIN m.cell \ after = DOMAIN h.cell \ before
  /\ \A c \in before : BlockOf(h, c) = b
  /\ \A c \in after : BlockOf(m, c) = b
  /\ \A c \in DOMAIN h.cell \ before : m.cell[c] = h.cell[c]
  /\ DOMAIN m.mem = DOMAIN h.mem
  /\ \A x \in DOMAIN h.mem : DOMAIN m.mem[x] = DOMAIN h.mem[x]
  /\ \A x \in DOMAIN h.mem : \A w \in DOMAIN h.mem[x] :
       \/ x = b /\ \E c \in after : w \in Ends(m, c) /\ m.mem[x][w] = Guard(c)
       \/ /\ x = b => \A c \in after : w \notin Ends(m, c)
          /\ \/ m.mem[x][w] = h.mem[x][w]
             \/ x = b /\ m.mem[x][w] = Stale /\ \E c \in before : w \in Ends(h, c)

\* All guards are right then, and the words inside the other cells are as they were.
LEMMA Reshaped ==
  ASSUME NEW h, Laid(h), NEW m, Typed(m), Tiled(m), NEW b, NEW before, NEW after,
         Reshape(h, m, b, before, after)
  PROVE  /\ Guarded(m) /\ NoNewData(h, m)
         /\ \A c \in DOMAIN h.cell \ before : SameWords(h, m, c)
<1>0. Typed(h) /\ Tiled(h) /\ Guarded(h)
  BY DEF Laid
<1>r. /\ before \subseteq DOMAIN h.cell /\ after \subseteq DOMAIN m.cell
      /\ DOMAIN m.cell \ after = DOMAIN h.cell \ before
      /\ \A c \in before : BlockOf(h, c) = b
      /\ \A c \in after : BlockOf(m, c) = b
      /\ \A c \in DOMAIN h.cell \ before : m.cell[c] = h.cell[c]
      /\ DOMAIN m.mem = DOMAIN h.mem
      /\ \A x \in DOMAIN h.mem : DOMAIN m.mem[x] = DOMAIN h.mem[x]
  BY DEF Reshape
<1>w. ASSUME NEW x \in DOMAIN h.mem, NEW w \in DOMAIN h.mem[x]
      PROVE  \/ x = b /\ \E c \in after : w \in Ends(m, c) /\ m.mem[x][w] = Guard(c)
             \/ /\ x = b => \A c \in after : w \notin Ends(m, c)
                /\ \/ m.mem[x][w] = h.mem[x][w]
                   \/ x = b /\ m.mem[x][w] = Stale /\ \E c \in before : w \in Ends(h, c)
  BY DEF Reshape
<1>1. NoNewData(h, m)
  <2>1. SUFFICES ASSUME NEW x \in DOMAIN m.mem, NEW w \in DOMAIN m.mem[x], IsData(m.mem[x][w])
                 PROVE  x \in DOMAIN h.mem /\ w \in DOMAIN h.mem[x] /\ m.mem[x][w] = h.mem[x][w]
    BY DEF NoNewData
  <2>2. x \in DOMAIN h.mem /\ w \in DOMAIN h.mem[x]
    BY <1>r
  <2> QED
    BY <1>w, <2>1, <2>2, NotData
<1>2. ASSUME NEW c \in DOMAIN m.cell, NEW w \in Ends(m, c)
      PROVE  m.mem[BlockOf(m, c)][w] = Guard(c)
  <2>1. BlockOf(m, c) \in DOMAIN h.mem /\ w \in DOMAIN h.mem[BlockOf(m, c)]
    BY <1>2, <1>r, CellTypes, CellWords
  <2>2. CASE c \in after
    <3>1. BlockOf(m, c) = b
      BY <1>r, <2>2
    <3>2. PICK d \in after : w \in Ends(m, d) /\ m.mem[b][w] = Guard(d)
      BY <1>2, <1>w, <2>1, <2>2, <3>1
    <3>3. d \in DOMAIN m.cell /\ BlockOf(m, d) = b
      BY <1>r, <3>2
    <3>4. d = c
      BY <1>2, <3>1, <3>2, <3>3, CellWords
    <3> QED
      BY <3>1, <3>2, <3>4
  <2>3. CASE c \notin after
    <3>1. c \in DOMAIN h.cell \ before /\ m.cell[c] = h.cell[c]
      BY <1>2, <1>r, <2>3
    <3>2. BlockOf(m, c) = BlockOf(h, c) /\ Ends(m, c) = Ends(h, c)
      BY <3>1 DEF BlockOf, Ends
    <3>3. h.mem[BlockOf(h, c)][w] = Guard(c)
      BY <1>0, <1>2, <3>1, <3>2 DEF Guarded
    <3>4. ASSUME BlockOf(m, c) = b, NEW d \in after PROVE w \notin Ends(m, d)
      BY <1>2, <1>r, <2>3, <3>4, CellWords
    <3>5. ASSUME BlockOf(m, c) = b, NEW d \in before PROVE w \notin Ends(h, d)
      BY <1>0, <1>2, <1>r, <3>1, <3>2, <3>5, CellWords
    <3> QED
      BY <1>w, <2>1, <3>2, <3>3, <3>4, <3>5
  <2> QED
    BY <2>2, <2>3
<1>3. ASSUME NEW c \in DOMAIN h.cell \ before, NEW w \in Inside(h, c)
      PROVE  m.mem[BlockOf(h, c)][w] = h.mem[BlockOf(h, c)][w]
  <2>1. BlockOf(h, c) \in DOMAIN h.mem /\ w \in DOMAIN h.mem[BlockOf(h, c)]
    BY <1>0, <1>3, CellTypes, CellWords
  <2>2. c \in DOMAIN m.cell \ after /\ m.cell[c] = h.cell[c]
    BY <1>3, <1>r
  <2>3. BlockOf(m, c) = BlockOf(h, c) /\ Inside(m, c) = Inside(h, c)
    BY <2>2 DEF BlockOf, Inside, From, To
  <2>4. ASSUME BlockOf(h, c) = b, NEW d \in after PROVE w \notin Ends(m, d)
    BY <1>3, <1>r, <2>2, <2>3, <2>4, CellWords
  <2>5. ASSUME BlockOf(h, c) = b, NEW d \in before PROVE w \notin Ends(h, d)
    BY <1>0, <1>3, <1>r, <2>5, CellWords
  <2> QED
    BY <1>w, <2>1, <2>4, <2>5
<1> QED
  BY <1>1, <1>2, <1>3 DEF Guarded, SameWords

\* A cell that is split leaves two that tile its words.
LEMMA SplitLaid ==
  ASSUME NEW h, Laid(h), PoolFree(h) # {}, NEW c \in DOMAIN h.cell, NEW n \in Nat, n >= 2,
         n + 2 <= h.cell[c].n_words, h.cell[c].requested = 0
  PROVE  LET m == SplitFront(h, c, n) IN
         Laid(m) /\ NoNewData(h, m) /\ \A x \in DOMAIN h.cell \ {c} : SameWords(h, m, x)
<1> DEFINE m == SplitFront(h, c, n)
           new == PoolAlloc(h)
           b == BlockOf(h, c)
<1>0. Typed(h) /\ Tiled(h) /\ Guarded(h)
  BY DEF Laid
<1>1. /\ new \in Items \ (DOMAIN h.block \cup DOMAIN h.cell)
      /\ Fields(m) /\ m.block = h.block
      /\ DOMAIN m.cell = DOMAIN h.cell \cup {new}
      /\ m.cell[new] = [block |-> h.cell[c].block, words |-> h.cell[c].words, n_words |-> n,
                         requested |-> 0]
      /\ m.cell[c] = [block |-> h.cell[c].block, words |-> h.cell[c].words + n,
                       n_words |-> h.cell[c].n_words - n, requested |-> h.cell[c].requested]
      /\ \A x \in DOMAIN h.cell \ {c} : m.cell[x] = h.cell[x]
      /\ DOMAIN m.mem = DOMAIN h.mem
      /\ \A x \in DOMAIN h.mem : DOMAIN m.mem[x] = DOMAIN h.mem[x]
      /\ \A x \in DOMAIN h.mem : \A w \in DOMAIN h.mem[x] :
           m.mem[x][w] = IF x = BlockOf(h, c) /\ w \in Ends(m, c) THEN Guard(c)
                         ELSE IF x = BlockOf(h, c) /\ w \in Ends(m, new) THEN Guard(new)
                         ELSE h.mem[x][w]
  BY <1>0, SplitFields
<1> HIDE DEF m, new
<1>3. /\ h.cell[c].words \in Nat /\ h.cell[c].n_words \in Nat /\ h.cell[c].block \in DOMAIN h.block
      /\ b \in DOMAIN h.mem /\ b \in DOMAIN h.block /\ From(h, c) \in Nat
      /\ To(h, c) = From(h, c) + h.cell[c].n_words
      /\ To(h, c) <= h.block[b].n_words /\ h.block[b].n_words \in Nat
  BY <1>0, CellTypes, CellEnds DEF Tiled, BlockOf
<1>4. /\ BlockOf(m, new) = b /\ From(m, new) = From(h, c) /\ To(m, new) = From(h, c) + n
      /\ BlockOf(m, c) = b /\ From(m, c) = From(h, c) + n /\ To(m, c) = To(h, c)
      /\ m.cell[new].n_words = n /\ m.cell[new].requested = 0
      /\ m.cell[c].n_words = h.cell[c].n_words - n /\ m.cell[c].requested = 0
  BY <1>1, <1>3 DEF BlockOf, From, To
<1>5. \A x \in DOMAIN h.cell \ {c} :
        /\ BlockOf(m, x) = BlockOf(h, x) /\ From(m, x) = From(h, x) /\ To(m, x) = To(h, x)
  BY <1>1 DEF BlockOf, From, To
<1>6. Typed(m)
  <2>1. m.cell[new] \in CellType(m) /\ m.cell[c] \in CellType(m)
    BY <1>0, <1>1, <1>3 DEF CellType
  <2>2. \A x \in DOMAIN m.cell : m.cell[x] \in CellType(m)
    BY <1>0, <1>1, <2>1 DEF Typed, CellType
  <2> QED
    BY <1>0, <1>1, <2>2 DEF Typed
<1>7. Tiled(m)
  <2>1. ASSUME NEW x \in DOMAIN m.cell
        PROVE  /\ m.cell[x].n_words >= 2
               /\ m.cell[x].requested + 2 <= m.cell[x].n_words
               /\ To(m, x) <= m.block[BlockOf(m, x)].n_words
    <3>1. CASE x \in {c, new}
      BY <1>1, <1>3, <1>4, <3>1
    <3>2. CASE x \notin {c, new}
      BY <1>0, <1>1, <1>5, <3>2 DEF Tiled
    <3> QED
      BY <3>1, <3>2
  <2>2. ASSUME NEW x \in DOMAIN h.cell \ {c}, BlockOf(h, x) = b
        PROVE  /\ To(m, x) <= From(m, c) \/ To(m, c) <= From(m, x)
               /\ To(m, x) <= From(m, new) \/ To(m, new) <= From(m, x)
    <3>1. To(h, x) <= From(h, c) \/ To(h, c) <= From(h, x)
      BY <1>0, <2>2 DEF Tiled
    <3>2. From(h, x) \in Nat /\ To(h, x) \in Nat
      BY <1>0, <2>2, CellTypes
    <3> QED
      BY <1>3, <1>4, <1>5, <3>1, <3>2
  <2>3. ASSUME NEW x \in DOMAIN m.cell, NEW y \in DOMAIN m.cell, x # y,
               BlockOf(m, x) = BlockOf(m, y)
        PROVE  To(m, x) <= From(m, y) \/ To(m, y) <= From(m, x)
    <3>1. CASE x \in {c, new} /\ y \in {c, new}
      BY <1>3, <1>4, <2>3, <3>1
    <3>2. CASE x \in {c, new} /\ y \notin {c, new}
      BY <1>1, <1>4, <1>5, <2>2, <2>3, <3>2
    <3>3. CASE x \notin {c, new} /\ y \in {c, new}
      BY <1>1, <1>4, <1>5, <2>2, <2>3, <3>3
    <3>4. CASE x \notin {c, new} /\ y \notin {c, new}
      BY <1>0, <1>1, <1>5, <2>3, <3>4 DEF Tiled
    <3> QED
      BY <3>1, <3>2, <3>3, <3>4
  <2>4. ASSUME NEW k \in DOMAIN m.block, NEW w \in 0..(m.block[k].n_words - 1)
        PROVE  \E x \in DOMAIN m.cell : BlockOf(m, x) = k /\ From(m, x) <= w /\ w < To(m, x)
    <3>1. PICK x \in DOMAIN h.cell : BlockOf(h, x) = k /\ From(h, x) <= w /\ w < To(h, x)
      BY <1>0, <1>1 DEF Tiled
    <3>2. CASE x = c
      <4>1. w < From(m, c) => From(m, new) <= w /\ w < To(m, new)
        BY <1>3, <1>4, <3>1, <3>2
      <4>2. ~(w < From(m, c)) => From(m, c) <= w /\ w < To(m, c)
        BY <1>3, <1>4, <3>1, <3>2
      <4> QED
        BY <1>1, <1>4, <3>1, <3>2, <4>1, <4>2
    <3>3. CASE x # c
      BY <1>1, <1>5, <3>1, <3>3
    <3> QED
      BY <3>2, <3>3
  <2> QED
    BY <2>1, <2>3, <2>4 DEF Tiled
<1>8. Reshape(h, m, b, {c}, {c, new})
  <2>1. /\ {c} \subseteq DOMAIN h.cell /\ {c, new} \subseteq DOMAIN m.cell
        /\ \A x \in {c} : BlockOf(h, x) = b
        /\ \A x \in {c, new} : BlockOf(m, x) = b
        /\ DOMAIN m.cell \ {c, new} = DOMAIN h.cell \ {c}
    BY <1>1, <1>4
  <2>2. ASSUME NEW x \in DOMAIN h.mem, NEW w \in DOMAIN h.mem[x]
        PROVE  \/ x = b /\ \E d \in {c, new} : w \in Ends(m, d) /\ m.mem[x][w] = Guard(d)
               \/ /\ x = b => \A d \in {c, new} : w \notin Ends(m, d)
                  /\ m.mem[x][w] = h.mem[x][w]
    BY <1>1
  <2> HIDE DEF b
  <2> QED
    BY <1>1, <2>1, <2>2 DEF Reshape
<1>9. /\ Guarded(m) /\ NoNewData(h, m)
      /\ \A x \in DOMAIN h.cell \ {c} : SameWords(h, m, x)
  BY <1>6, <1>7, <1>8, Reshaped
<1> QED
  BY <1>6, <1>7, <1>9 DEF Laid, m
----------------------------------------------------------------------------

\* A cell takes the front k words of the cell behind it.
LEMMA StealLaid ==
  ASSUME NEW h, Laid(h), NEW c \in DOMAIN h.cell, NEW other \in DOMAIN h.cell, c # other,
         Adjacent(h, c, other), NEW k \in Nat, k + 2 <= h.cell[other].n_words,
         h.cell[other].requested = 0
  PROVE  LET m == Steal(h, c, other, k) IN
         Laid(m) /\ NoNewData(h, m) /\ \A x \in DOMAIN h.cell \ {other} : SameWords(h, m, x)
<1> DEFINE m == Steal(h, c, other, k)
           b == BlockOf(h, c)
<1>0. Typed(h) /\ Tiled(h) /\ Guarded(h)
  BY DEF Laid
<1>1. /\ Fields(m) /\ m.block = h.block
      /\ DOMAIN m.cell = DOMAIN h.cell
      /\ m.cell[c] = [block |-> h.cell[c].block, words |-> h.cell[c].words,
                      n_words |-> h.cell[c].n_words + k, requested |-> h.cell[c].requested]
      /\ m.cell[other] = [block |-> h.cell[other].block, words |-> h.cell[other].words + k,
                          n_words |-> h.cell[other].n_words - k,
                          requested |-> h.cell[other].requested]
      /\ \A x \in DOMAIN h.cell \ {c, other} : m.cell[x] = h.cell[x]
      /\ DOMAIN m.mem = DOMAIN h.mem
      /\ \A x \in DOMAIN h.mem : DOMAIN m.mem[x] = DOMAIN h.mem[x]
      /\ \A x \in DOMAIN h.mem : \A w \in DOMAIN h.mem[x] :
           m.mem[x][w] = IF x = BlockOf(h, c) /\ w \in Ends(m, c) THEN Guard(c)
                         ELSE IF x = BlockOf(h, other) /\ w \in Ends(m, other) THEN Guard(other)
                         ELSE IF \/ x = BlockOf(h, c) /\ w \in Ends(h, c)
                                 \/ x = BlockOf(h, other) /\ w \in Ends(h, other)
                         THEN Stale ELSE h.mem[x][w]
  BY <1>0, StealFields
<1> HIDE DEF m
<1>2. /\ h.cell[c].words \in Nat /\ h.cell[c].n_words \in Nat /\ h.cell[c].block \in DOMAIN h.block
      /\ h.cell[other].words \in Nat /\ h.cell[other].n_words \in Nat
      /\ h.cell[c].requested \in Nat /\ h.cell[other].block \in DOMAIN h.block
      /\ b \in DOMAIN h.mem /\ b \in DOMAIN h.block /\ From(h, c) \in Nat
      /\ To(h, c) = From(h, c) + h.cell[c].n_words /\ To(h, c) \in Nat
      /\ To(h, other) = From(h, other) + h.cell[other].n_words /\ To(h, other) \in Nat
      /\ From(h, other) = To(h, c) /\ BlockOf(h, other) = b
      /\ h.cell[c].n_words >= 2 /\ h.cell[c].requested + 2 <= h.cell[c].n_words
      /\ To(h, other) <= h.block[b].n_words /\ h.block[b].n_words \in Nat
  BY <1>0, CellTypes, CellEnds DEF Tiled, BlockOf, Adjacent
<1>3. /\ BlockOf(m, other) = b /\ From(m, other) = From(h, other) + k /\ To(m, other) = To(h, other)
      /\ BlockOf(m, c) = b /\ From(m, c) = From(h, c) /\ To(m, c) = From(h, other) + k
      /\ m.cell[other].n_words = h.cell[other].n_words - k /\ m.cell[other].requested = 0
      /\ m.cell[c].n_words = h.cell[c].n_words + k
      /\ m.cell[c].requested = h.cell[c].requested
      /\ Ends(m, c) = {From(h, c), From(h, other) + k - 1}
      /\ Ends(m, other) = {From(h, other) + k, To(h, other) - 1}
  <2>1. /\ BlockOf(m, other) = b /\ From(m, other) = From(h, other) + k /\ To(m, other) = To(h, other)
        /\ BlockOf(m, c) = b /\ From(m, c) = From(h, c) /\ To(m, c) = From(h, other) + k
    BY <1>1, <1>2 DEF BlockOf, From, To
  <2>2. m.cell[c].words = From(h, c) /\ m.cell[other].words = From(h, other) + k
        /\ m.cell[c].words + m.cell[c].n_words = From(h, other) + k
        /\ m.cell[other].words + m.cell[other].n_words = To(h, other)
    BY <1>1, <1>2 DEF From, To
  <2> QED
    BY <1>1, <1>2, <2>1, <2>2 DEF Ends
<1>4. \A x \in DOMAIN h.cell \ {c, other} :
        /\ BlockOf(m, x) = BlockOf(h, x) /\ From(m, x) = From(h, x) /\ To(m, x) = To(h, x)
  BY <1>1 DEF BlockOf, From, To
<1>5. Typed(m)
  <2>1. m.cell[other] \in CellType(m) /\ m.cell[c] \in CellType(m)
    BY <1>0, <1>1, <1>2 DEF CellType
  <2>2. \A x \in DOMAIN m.cell : m.cell[x] \in CellType(m)
    BY <1>0, <1>1, <2>1 DEF Typed, CellType
  <2> QED
    BY <1>0, <1>1, <2>2 DEF Typed
<1>6. Tiled(m)
  <2>1. ASSUME NEW x \in DOMAIN m.cell
        PROVE  /\ m.cell[x].n_words >= 2
               /\ m.cell[x].requested + 2 <= m.cell[x].n_words
               /\ To(m, x) <= m.block[BlockOf(m, x)].n_words
    <3>1. CASE x \in {c, other}
      BY <1>1, <1>2, <1>3, <3>1
    <3>2. CASE x \notin {c, other}
      BY <1>0, <1>1, <1>4, <3>2 DEF Tiled
    <3> QED
      BY <3>1, <3>2
  <2>2. ASSUME NEW x \in DOMAIN h.cell \ {c, other}, BlockOf(h, x) = b
        PROVE  /\ To(m, x) <= From(m, c) \/ To(m, c) <= From(m, x)
               /\ To(m, x) <= From(m, other) \/ To(m, other) <= From(m, x)
    <3>1. To(h, x) <= From(h, c) \/ To(h, c) <= From(h, x)
      BY <1>0, <2>2 DEF Tiled
    <3>2. To(h, x) <= From(h, other) \/ To(h, other) <= From(h, x)
      BY <1>0, <1>2, <2>2 DEF Tiled
    <3>3. From(h, x) \in Nat /\ To(h, x) \in Nat /\ From(h, x) + 2 <= To(h, x)
      BY <1>0, <2>2, CellTypes, CellWords
    <3> QED
      BY <1>2, <1>3, <1>4, <3>1, <3>2, <3>3
  <2>3. ASSUME NEW x \in DOMAIN m.cell, NEW y \in DOMAIN m.cell, x # y,
               BlockOf(m, x) = BlockOf(m, y)
        PROVE  To(m, x) <= From(m, y) \/ To(m, y) <= From(m, x)
    <3>1. CASE x \in {c, other} /\ y \in {c, other}
      BY <1>2, <1>3, <2>3, <3>1
    <3>2. CASE x \in {c, other} /\ y \notin {c, other}
      BY <1>1, <1>3, <1>4, <2>2, <2>3, <3>2
    <3>3. CASE x \notin {c, other} /\ y \in {c, other}
      BY <1>1, <1>3, <1>4, <2>2, <2>3, <3>3
    <3>4. CASE x \notin {c, other} /\ y \notin {c, other}
      BY <1>0, <1>1, <1>4, <2>3, <3>4 DEF Tiled
    <3> QED
      BY <3>1, <3>2, <3>3, <3>4
  <2>4. ASSUME NEW e \in DOMAIN m.block, NEW w \in 0..(m.block[e].n_words - 1)
        PROVE  \E x \in DOMAIN m.cell : BlockOf(m, x) = e /\ From(m, x) <= w /\ w < To(m, x)
    <3>1. PICK x \in DOMAIN h.cell : BlockOf(h, x) = e /\ From(h, x) <= w /\ w < To(h, x)
      BY <1>0, <1>1 DEF Tiled
    <3>2. CASE x \in {c, other}
      <4>1. \/ From(m, c) <= w /\ w < To(m, c)
            \/ From(m, other) <= w /\ w < To(m, other)
        BY <1>2, <1>3, <3>1, <3>2
      <4> QED
        BY <1>1, <1>2, <1>3, <3>1, <3>2, <4>1
    <3>3. CASE x \notin {c, other}
      BY <1>1, <1>4, <3>1, <3>3
    <3> QED
      BY <3>2, <3>3
  <2> QED
    BY <2>1, <2>3, <2>4 DEF Tiled
<1>7. Reshape(h, m, b, {c, other}, {c, other})
  <2>1. /\ {c, other} \subseteq DOMAIN h.cell /\ {c, other} \subseteq DOMAIN m.cell
        /\ \A x \in {c, other} : BlockOf(h, x) = b
        /\ \A x \in {c, other} : BlockOf(m, x) = b
        /\ DOMAIN m.cell \ {c, other} = DOMAIN h.cell \ {c, other}
    BY <1>1, <1>2, <1>3
  <2>2. ASSUME NEW x \in DOMAIN h.mem, NEW w \in DOMAIN h.mem[x]
        PROVE  \/ x = b /\ \E d \in {c, other} : w \in Ends(m, d) /\ m.mem[x][w] = Guard(d)
               \/ /\ x = b => \A d \in {c, other} : w \notin Ends(m, d)
                  /\ \/ m.mem[x][w] = h.mem[x][w]
                     \/ x = b /\ m.mem[x][w] = Stale /\ \E d \in {c, other} : w \in Ends(h, d)
    BY <1>1, <1>2
  <2> HIDE DEF b
  <2> QED
    BY <1>1, <2>1, <2>2 DEF Reshape
<1>8. /\ Guarded(m) /\ NoNewData(h, m)
      /\ \A x \in DOMAIN h.cell \ {c, other} : SameWords(h, m, x)
  BY <1>5, <1>6, <1>7, Reshaped
<1>9. SameWords(h, m, c)
  <2>1. SUFFICES ASSUME NEW w \in Inside(h, c) PROVE m.mem[b][w] = h.mem[b][w]
    BY DEF SameWords
  <2>2. w \in DOMAIN h.mem[b] /\ w \notin Ends(h, c) /\ w \notin Ends(h, other)
    BY <1>0, <1>2, CellWords
  <2>3. w \in (From(h, c) + 1)..(To(h, c) - 2)
    BY DEF Inside
  <2>4. w \notin Ends(m, c) /\ w \notin Ends(m, other)
    BY <1>2, <1>3, <2>3
  <2> QED
    BY <1>1, <1>2, <2>2, <2>4
<1> QED
  BY <1>5, <1>6, <1>8, <1>9 DEF Laid, m

---------------------------------------------------------------------------
(* What the heap holds for its user: the buffers, and the words in each.    *)

\* The words of the buffer in cell c.
Content(h, c) == [i \in 1..h.cell[c].requested |-> h.mem[h.cell[c].block][h.cell[c].words + i]]

Bufs(h) == {Address(h, c) : c \in h.used}
View(h) == [p \in Bufs(h) |-> Content(h, CellOf(h, p))]

\* The cells S are in m what they are in h, to the user.
Kept(h, m, S) ==
  \A c \in S :
    /\ c \in DOMAIN m.cell /\ Address(m, c) = Address(h, c)
    /\ m.cell[c].requested = h.cell[c].requested /\ Content(m, c) = Content(h, c)

\* sec_cell_find: the guard before a buffer leads to its cell.
LEMMA CellAt ==
  ASSUME NEW h, Laid(h), NEW c \in DOMAIN h.cell
  PROVE  CellOf(h, Address(h, c)) = c
<1>1. Typed(h) /\ Tiled(h) /\ Guarded(h)
  BY DEF Laid
<1>2. h.cell[c].words \in Nat
  BY <1>1, CellTypes
<1>3. Address(h, c).word - 1 = h.cell[c].words /\ Address(h, c).block = BlockOf(h, c)
  BY <1>2 DEF Address, BlockOf
<1>4. h.mem[BlockOf(h, c)][h.cell[c].words] = Guard(c)
  BY <1>1 DEF Guarded, Ends
<1> QED
  BY <1>3, <1>4 DEF CellOf, Guard

\* A used cell is in the view, at its address.
LEMMA ViewAt ==
  ASSUME NEW h, Laid(h), h.used \subseteq DOMAIN h.cell, NEW c \in h.used
  PROVE  Address(h, c) \in DOMAIN View(h) /\ View(h)[Address(h, c)] = Content(h, c)
BY CellAt DEF View, Bufs

\* A cell whose place, length and inner words stay is kept.
LEMMA KeptWords ==
  ASSUME NEW h, Laid(h), NEW m, NEW c \in DOMAIN h.cell, c \in DOMAIN m.cell, SameWords(h, m, c),
         m.cell[c].block = h.cell[c].block, m.cell[c].words = h.cell[c].words,
         m.cell[c].requested = h.cell[c].requested
  PROVE  Kept(h, m, {c})
<1>1. Typed(h) /\ Tiled(h)
  BY DEF Laid
<1>2. /\ h.cell[c].words \in Nat /\ h.cell[c].requested \in Nat /\ h.cell[c].n_words \in Nat
      /\ h.cell[c].requested + 2 <= h.cell[c].n_words
      /\ From(h, c) = h.cell[c].words /\ To(h, c) = From(h, c) + h.cell[c].n_words
  BY <1>1, CellTypes DEF Tiled, From, To
<1>3. ASSUME NEW i \in 1..h.cell[c].requested
      PROVE  m.mem[h.cell[c].block][h.cell[c].words + i] = h.mem[h.cell[c].block][h.cell[c].words + i]
  <2>1. h.cell[c].words + i \in Inside(h, c)
    BY <1>2 DEF Inside
  <2> QED
    BY <2>1 DEF SameWords, BlockOf
<1>4. Content(m, c) = Content(h, c)
  BY <1>3 DEF Content
<1> QED
  BY <1>4 DEF Kept, Address

\* Keeping is transitive.
LEMMA KeptChain ==
  ASSUME NEW h, NEW g, NEW m, NEW S, Kept(h, g, S), Kept(g, m, S)
  PROVE  Kept(h, m, S)
BY DEF Kept

\* So is adding no data.
LEMMA DataChain ==
  ASSUME NEW h, NEW g, NEW m, NoNewData(h, g), NoNewData(g, m)
  PROVE  NoNewData(h, m)
BY DEF NoNewData

\* The view depends on the used cells only.
LEMMA SameView ==
  ASSUME NEW h, Laid(h), h.used \subseteq DOMAIN h.cell,
         NEW m, Laid(m), m.used \subseteq DOMAIN m.cell,
         m.used = h.used, Kept(h, m, h.used)
  PROVE  View(m) = View(h)
<1>1. Bufs(m) = Bufs(h)
  BY DEF Bufs, Kept
<1>2. ASSUME NEW p \in Bufs(h) PROVE Content(m, CellOf(m, p)) = Content(h, CellOf(h, p))
  <2>1. PICK c \in h.used : p = Address(h, c)
    BY DEF Bufs
  <2>2. p = Address(m, c) /\ Content(m, c) = Content(h, c)
    BY <2>1 DEF Kept
  <2> QED
    BY <2>1, <2>2, CellAt
<1> QED
  BY <1>1, <1>2 DEF View

\* A cell taken off the used ring takes its buffer from the view.
LEMMA DropView ==
  ASSUME NEW h, Laid(h), h.used \subseteq DOMAIN h.cell,
         NEW m, Laid(m), m.used \subseteq DOMAIN m.cell,
         NEW c \in h.used, m.used = h.used \ {c}, Kept(h, m, m.used)
  PROVE  View(m) = Without(View(h), {Address(h, c)})
<1>1. Bufs(m) = Bufs(h) \ {Address(h, c)}
  <2>1. \A d \in m.used : Address(m, d) = Address(h, d) /\ Address(h, d) # Address(h, c)
    BY CellAt DEF Kept
  <2> QED
    BY <2>1 DEF Bufs
<1>2. ASSUME NEW p \in Bufs(m) PROVE Content(m, CellOf(m, p)) = Content(h, CellOf(h, p))
  <2>1. PICK d \in m.used : p = Address(m, d)
    BY DEF Bufs
  <2>2. p = Address(h, d) /\ Content(m, d) = Content(h, d)
    BY <2>1 DEF Kept
  <2> QED
    BY <2>1, <2>2, CellAt
<1>3. DOMAIN View(h) = Bufs(h)
  BY DEF View
<1> QED
  BY <1>1, <1>2, <1>3 DEF View, Without

\* A cell put on the used ring adds its buffer to the view.
LEMMA NewView ==
  ASSUME NEW h, Laid(h), h.used \subseteq DOMAIN h.cell,
         NEW m, Laid(m), m.used \subseteq DOMAIN m.cell,
         NEW k, k \notin h.used, m.used = h.used \cup {k}, Kept(h, m, h.used)
  PROVE  /\ Address(m, k) \notin DOMAIN View(h)
         /\ View(m) = With(View(h), Address(m, k), Content(m, k))
<1>1. \A d \in h.used : Address(m, d) = Address(h, d) /\ Address(h, d) # Address(m, k)
  BY CellAt DEF Kept
<1>2. Bufs(m) = Bufs(h) \cup {Address(m, k)} /\ Address(m, k) \notin Bufs(h)
  BY <1>1 DEF Bufs
<1>3. ASSUME NEW p \in Bufs(m)
      PROVE  Content(m, CellOf(m, p)) = IF p = Address(m, k) THEN Content(m, k)
                                        ELSE Content(h, CellOf(h, p))
  <2>1. PICK d \in m.used : p = Address(m, d)
    BY DEF Bufs
  <2>2. CellOf(m, p) = d
    BY <2>1, CellAt
  <2>3. CASE d = k
    BY <2>1, <2>2, <2>3
  <2>4. CASE d # k
    <3>1. d \in h.used /\ p = Address(h, d) /\ Content(m, d) = Content(h, d)
      BY <2>1, <2>4 DEF Kept
    <3> QED
      BY <1>1, <2>2, <3>1, CellAt
  <2> QED
    BY <2>3, <2>4
<1>4. DOMAIN View(h) = Bufs(h)
  BY DEF View
<1> QED
  BY <1>2, <1>3, <1>4 DEF View, With

\* A used cell that alone is rewritten changes its buffer in the view.
LEMMA SetView ==
  ASSUME NEW h, Laid(h), h.used \subseteq DOMAIN h.cell,
         NEW m, Laid(m), m.used \subseteq DOMAIN m.cell,
         m.used = h.used, NEW c \in h.used, Kept(h, m, h.used \ {c}), Address(m, c) = Address(h, c)
  PROVE  View(m) = [View(h) EXCEPT ![Address(h, c)] = Content(m, c)]
<1>1. \A d \in h.used : Address(m, d) = Address(h, d)
  BY DEF Kept
<1>2. Bufs(m) = Bufs(h)
  BY <1>1 DEF Bufs
<1>3. ASSUME NEW p \in Bufs(m)
      PROVE  Content(m, CellOf(m, p)) = IF p = Address(h, c) THEN Content(m, c)
                                        ELSE Content(h, CellOf(h, p))
  <2>1. PICK d \in h.used : p = Address(h, d)
    BY <1>2 DEF Bufs
  <2>2. CellOf(m, p) = d /\ CellOf(h, p) = d /\ CellOf(h, Address(h, c)) = c
    BY <1>1, <2>1, CellAt
  <2>3. CASE d = c
    BY <2>1, <2>2, <2>3
  <2>4. CASE d # c
    <3>1. Content(m, d) = Content(h, d)
      BY <2>4 DEF Kept
    <3> QED
      BY <2>1, <2>2, <2>4, <3>1
  <2> QED
    BY <2>3, <2>4
<1>4. DOMAIN View(h) = Bufs(h)
  BY DEF View
<1> QED
  BY <1>2, <1>3, <1>4 DEF View

---------------------------------------------------------------------------
(* Steps that leave every cell where it is.                                 *)

\* From h to m only the length asked for cell c, the words inside it and the counts
\* of the blocks change.
Touch(h, m, c) ==
  /\ Fields(m)
  /\ DOMAIN m.block = DOMAIN h.block
  /\ \A b \in DOMAIN h.block :
       m.block[b] \in [n_words : Nat, n_used : Nat] /\ m.block[b].n_words = h.block[b].n_words
  /\ DOMAIN m.cell = DOMAIN h.cell
  /\ \A d \in DOMAIN h.cell \ {c} : m.cell[d] = h.cell[d]
  /\ m.cell[c] \in CellType(h) /\ m.cell[c].block = h.cell[c].block
  /\ m.cell[c].words = h.cell[c].words /\ m.cell[c].n_words = h.cell[c].n_words
  /\ m.cell[c].requested + 2 <= h.cell[c].n_words
  /\ DOMAIN m.mem = DOMAIN h.mem
  /\ \A x \in DOMAIN h.mem : DOMAIN m.mem[x] = DOMAIN h.mem[x]
  /\ \A x \in DOMAIN h.mem : \A w \in DOMAIN h.mem[x] :
       m.mem[x][w] = h.mem[x][w] \/ (x = BlockOf(h, c) /\ w \in Inside(h, c))

\* A step that touches the inside of one cell leaves the layout.
LEMMA TouchLaid ==
  ASSUME NEW h, Laid(h), NEW c \in DOMAIN h.cell, NEW m, Touch(h, m, c)
  PROVE  /\ Laid(m) /\ Address(m, c) = Address(h, c)
         /\ Kept(h, m, DOMAIN h.cell \ {c})
         /\ \A d, e \in DOMAIN h.cell : Adjacent(m, d, e) <=> Adjacent(h, d, e)
         /\ \A b \in DOMAIN h.block : CellsOf(m, b) = CellsOf(h, b)
<1>0. Typed(h) /\ Tiled(h) /\ Guarded(h)
  BY DEF Laid
<1>1. /\ DOMAIN m.cell = DOMAIN h.cell /\ DOMAIN m.block = DOMAIN h.block
      /\ DOMAIN m.mem = DOMAIN h.mem
  BY DEF Touch
<1>2. \A d \in DOMAIN h.cell :
        /\ m.cell[d].block = h.cell[d].block /\ m.cell[d].words = h.cell[d].words
        /\ m.cell[d].n_words = h.cell[d].n_words
        /\ m.cell[d].requested + 2 <= h.cell[d].n_words
  BY <1>0 DEF Touch, Tiled
<1>3. \A d \in DOMAIN h.cell :
        /\ BlockOf(m, d) = BlockOf(h, d) /\ From(m, d) = From(h, d) /\ To(m, d) = To(h, d)
        /\ Ends(m, d) = Ends(h, d) /\ Address(m, d) = Address(h, d)
  BY <1>2 DEF BlockOf, From, To, Ends, Address
<1>4. Typed(m)
  <2>1. \A d \in DOMAIN m.cell : m.cell[d] \in CellType(m)
    <3>1. CellType(m) = CellType(h)
      BY <1>1 DEF CellType
    <3> QED
      BY <1>0, <1>1, <3>1 DEF Typed, Touch
  <2> QED
    BY <1>0, <2>1 DEF Typed, Touch
<1>5. Tiled(m)
  <2>1. \A b \in DOMAIN h.block : m.block[b].n_words = h.block[b].n_words
    BY DEF Touch
  <2>2. \A d \in DOMAIN h.cell : BlockOf(h, d) \in DOMAIN h.block
    BY <1>0, CellTypes
  <2>3. ASSUME NEW d \in DOMAIN m.cell
        PROVE  /\ m.cell[d].n_words >= 2
               /\ m.cell[d].requested + 2 <= m.cell[d].n_words
               /\ To(m, d) <= m.block[BlockOf(m, d)].n_words
    BY <1>0, <1>1, <1>2, <1>3, <2>1, <2>2 DEF Tiled
  <2>4. ASSUME NEW d \in DOMAIN m.cell, NEW e \in DOMAIN m.cell, d # e, BlockOf(m, d) = BlockOf(m, e)
        PROVE  To(m, d) <= From(m, e) \/ To(m, e) <= From(m, d)
    BY <1>0, <1>1, <1>3, <2>4 DEF Tiled
  <2>5. ASSUME NEW b \in DOMAIN m.block, NEW w \in 0..(m.block[b].n_words - 1)
        PROVE  \E d \in DOMAIN m.cell : BlockOf(m, d) = b /\ From(m, d) <= w /\ w < To(m, d)
    <3>1. PICK d \in DOMAIN h.cell : BlockOf(h, d) = b /\ From(h, d) <= w /\ w < To(h, d)
      BY <1>0, <1>1, <2>1 DEF Tiled
    <3> QED
      BY <1>1, <1>3, <3>1
  <2> QED
    BY <2>3, <2>4, <2>5 DEF Tiled
<1>6. Guarded(m)
  <2>1. ASSUME NEW d \in DOMAIN m.cell, NEW w \in Ends(m, d)
        PROVE  m.mem[BlockOf(m, d)][w] = Guard(d)
    <3>1. /\ d \in DOMAIN h.cell /\ w \in Ends(h, d) /\ BlockOf(m, d) = BlockOf(h, d)
          /\ h.mem[BlockOf(h, d)][w] = Guard(d)
      BY <1>0, <1>1, <1>3, <2>1 DEF Guarded
    <3>2. BlockOf(h, d) \in DOMAIN h.mem /\ w \in DOMAIN h.mem[BlockOf(h, d)]
      BY <1>0, <3>1, CellTypes, CellWords
    <3>3. BlockOf(h, d) = BlockOf(h, c) => w \notin Inside(h, c)
      BY <1>0, <3>1, CellWords
    <3> QED
      BY <3>1, <3>2, <3>3 DEF Touch
  <2> QED
    BY <2>1 DEF Guarded
<1>7. ASSUME NEW d \in DOMAIN h.cell \ {c} PROVE Kept(h, m, {d})
  <2>1. ASSUME NEW w \in Inside(h, d) PROVE m.mem[BlockOf(h, d)][w] = h.mem[BlockOf(h, d)][w]
    <3>1. BlockOf(h, d) \in DOMAIN h.mem /\ w \in DOMAIN h.mem[BlockOf(h, d)]
      BY <1>0, <2>1, CellTypes, CellWords
    <3>2. BlockOf(h, d) = BlockOf(h, c) => w \notin Inside(h, c)
      BY <1>0, <2>1, CellWords
    <3> QED
      BY <3>1, <3>2 DEF Touch
  <2>2. m.cell[d] = h.cell[d] /\ SameWords(h, m, d)
    BY <2>1 DEF Touch, SameWords
  <2> QED
    BY <1>1, <2>2, KeptWords
<1>8. Kept(h, m, DOMAIN h.cell \ {c})
  BY <1>7 DEF Kept
<1>9. \A b \in DOMAIN h.block : CellsOf(m, b) = CellsOf(h, b)
  BY <1>1, <1>2 DEF CellsOf
<1> QED
  BY <1>3, <1>4, <1>5, <1>6, <1>8, <1>9 DEF Laid, Adjacent

---------------------------------------------------------------------------
(* The neighbours of a cell.                                                *)

\* The word next to a cell is the guard of the cell that lies there.
LEMMA After ==
  ASSUME NEW h, Laid(h), NEW c \in DOMAIN h.cell, NEW d, d = NeighborAfter(h, c)
  PROVE  \/ d = None /\ (\A e \in DOMAIN h.cell : ~Adjacent(h, c, e))
         \/ /\ d # None /\ d \in DOMAIN h.cell /\ d # c /\ Adjacent(h, c, d)
            /\ (\A e \in DOMAIN h.cell : Adjacent(h, c, e) => e = d)
<1>0. Typed(h) /\ Tiled(h) /\ Guarded(h)
  BY DEF Laid
<1> DEFINE b == BlockOf(h, c)
<1>1. /\ b \in DOMAIN h.block /\ h.block[b].n_words \in Nat
      /\ From(h, c) \in Nat /\ To(h, c) \in Nat /\ From(h, c) + 2 <= To(h, c)
      /\ To(h, c) = h.cell[c].words + h.cell[c].n_words
  BY <1>0, CellTypes, CellWords DEF To
<1>2. \A e \in DOMAIN h.cell :
        /\ From(h, e) \in Nat /\ To(h, e) \in Nat /\ From(h, e) + 2 <= To(h, e)
        /\ To(h, e) <= h.block[BlockOf(h, e)].n_words
        /\ e # None
  <2>1. ASSUME NEW e \in DOMAIN h.cell PROVE e # None
    <3>1. e \in Items
      BY <1>0, CellTypes
    <3> QED
      BY <3>1, HeapAssumption DEF Items, None
  <2> QED
    BY <1>0, <2>1, CellTypes, CellWords DEF Tiled
<1>3. CASE To(h, c) >= h.block[b].n_words
  <2>1. d = None
    BY <1>1, <1>3 DEF NeighborAfter, BlockOf
  <2>2. \A e \in DOMAIN h.cell : ~Adjacent(h, c, e)
    BY <1>1, <1>2, <1>3 DEF Adjacent
  <2> QED
    BY <2>1, <2>2
<1>4. CASE To(h, c) < h.block[b].n_words
  <2>1. To(h, c) \in 0..(h.block[b].n_words - 1)
    BY <1>1, <1>4
  <2>2. PICK e \in DOMAIN h.cell : BlockOf(h, e) = b /\ From(h, e) <= To(h, c) /\ To(h, c) < To(h, e)
    BY <1>0, <1>1, <2>1 DEF Tiled
  <2>3. e # c
    BY <1>1, <2>2
  <2>4. To(h, c) <= From(h, e) \/ To(h, e) <= From(h, c)
    BY <1>0, <2>2, <2>3 DEF Tiled
  <2>5. From(h, e) = To(h, c)
    BY <1>1, <1>2, <2>2, <2>4
  <2>6. h.mem[b][To(h, c)] = Guard(e)
    BY <1>0, <2>2, <2>5 DEF Guarded, Ends, From
  <2>7. d = e
    <3>1. ~(To(h, c) >= h.block[b].n_words)
      BY <1>1, <1>4
    <3>2. d = h.mem[b][To(h, c)][2]
      BY <1>1, <3>1 DEF NeighborAfter, BlockOf
    <3> QED
      BY <2>6, <3>2 DEF Guard
  <2>8. ASSUME NEW x \in DOMAIN h.cell, Adjacent(h, c, x) PROVE x = e
    BY <1>0, <2>2, <2>5, <2>8, CellWords DEF Adjacent
  <2> QED
    BY <1>2, <2>2, <2>3, <2>5, <2>7, <2>8 DEF Adjacent
<1> QED
  BY <1>1, <1>3, <1>4

\* sec_neighbor_before, in the same way.
LEMMA Before ==
  ASSUME NEW h, Laid(h), NEW c \in DOMAIN h.cell, NEW d, d = NeighborBefore(h, c)
  PROVE  \/ d = None /\ (\A e \in DOMAIN h.cell : ~Adjacent(h, e, c))
         \/ /\ d # None /\ d \in DOMAIN h.cell /\ d # c /\ Adjacent(h, d, c)
            /\ (\A e \in DOMAIN h.cell : Adjacent(h, e, c) => e = d)
<1>0. Typed(h) /\ Tiled(h) /\ Guarded(h)
  BY DEF Laid
<1> DEFINE b == BlockOf(h, c)
<1>1. /\ b \in DOMAIN h.block /\ h.block[b].n_words \in Nat
      /\ From(h, c) \in Nat /\ To(h, c) \in Nat /\ From(h, c) + 2 <= To(h, c)
      /\ From(h, c) = h.cell[c].words /\ To(h, c) <= h.block[b].n_words
  BY <1>0, CellTypes, CellWords DEF From, Tiled
<1>2. \A e \in DOMAIN h.cell :
        /\ From(h, e) \in Nat /\ To(h, e) \in Nat /\ From(h, e) + 2 <= To(h, e)
        /\ e # None
  <2>1. ASSUME NEW e \in DOMAIN h.cell PROVE e # None
    <3>1. e \in Items
      BY <1>0, CellTypes
    <3> QED
      BY <3>1, HeapAssumption DEF Items, None
  <2> QED
    BY <1>0, <2>1, CellTypes, CellWords
<1>3. CASE From(h, c) = 0
  <2>1. d = None
    BY <1>1, <1>3 DEF NeighborBefore
  <2>2. \A e \in DOMAIN h.cell : ~Adjacent(h, e, c)
    BY <1>1, <1>2, <1>3 DEF Adjacent
  <2> QED
    BY <2>1, <2>2
<1>4. CASE From(h, c) # 0
  <2>1. From(h, c) - 1 \in 0..(h.block[b].n_words - 1)
    BY <1>1, <1>4
  <2>2. PICK e \in DOMAIN h.cell :
          BlockOf(h, e) = b /\ From(h, e) <= From(h, c) - 1 /\ From(h, c) - 1 < To(h, e)
    BY <1>0, <1>1, <2>1 DEF Tiled
  <2>3. e # c
    BY <1>1, <2>2
  <2>4. To(h, c) <= From(h, e) \/ To(h, e) <= From(h, c)
    BY <1>0, <2>2, <2>3 DEF Tiled
  <2>5. To(h, e) = From(h, c)
    BY <1>1, <1>2, <2>2, <2>4
  <2>6. h.mem[b][From(h, c) - 1] = Guard(e)
    <3>1. To(h, e) - 1 \in Ends(h, e)
      BY <1>0, CellEnds
    <3> QED
      BY <1>0, <2>2, <2>5, <3>1 DEF Guarded
  <2>7. d = e
    <3>1. ~(From(h, c) - 1 < 0)
      BY <1>1, <1>4
    <3>2. d = h.mem[b][From(h, c) - 1][2]
      BY <1>1, <3>1 DEF NeighborBefore, BlockOf
    <3> QED
      BY <2>6, <3>2 DEF Guard
  <2>8. ASSUME NEW x \in DOMAIN h.cell, Adjacent(h, x, c) PROVE x = e
    <3>1. To(h, x) - 1 \in Ends(h, x) /\ To(h, e) - 1 \in Ends(h, e)
      BY <1>0, CellEnds
    <3>2. BlockOf(h, x) = BlockOf(h, e) /\ To(h, x) = To(h, e)
      BY <2>2, <2>5, <2>8 DEF Adjacent
    <3> QED
      BY <1>0, <3>1, <3>2, CellWords
  <2> QED
    BY <1>2, <2>2, <2>3, <2>5, <2>7, <2>8 DEF Adjacent
<1> QED
  BY <1>1, <1>3, <1>4

---------------------------------------------------------------------------
(* The rings.                                                               *)

Counted(h) ==
  \A b \in DOMAIN h.block : h.block[b].n_used = Cardinality(CellsOf(h, b) \cap h.used)

Rings(h) ==
  /\ h.unused = {c \in DOMAIN h.cell : h.cell[c].requested = 0}
  /\ h.used = DOMAIN h.cell \ h.unused
  /\ Counted(h)

Apart(h) == \A c, d \in h.unused : ~Adjacent(h, c, d)

Sound(h) == Laid(h) /\ Rings(h) /\ Apart(h)

\* The same of all cells but k, which is on its way from one ring to the other.
Aside(h, k) ==
  /\ Laid(h) /\ k \in DOMAIN h.cell
  /\ h.used = {c \in DOMAIN h.cell \ {k} : h.cell[c].requested # 0}
  /\ h.unused \ {k} = {c \in DOMAIN h.cell \ {k} : h.cell[c].requested = 0}
  /\ \A c, d \in h.unused \ {k} : ~Adjacent(h, c, d)

\* Blocks are not resized, and none becomes idle.
BlocksKept(h, m) ==
  /\ DOMAIN m.block \subseteq DOMAIN h.block
  /\ \A b \in DOMAIN m.block :
       /\ m.block[b].n_words = h.block[b].n_words
       /\ m.block[b].n_used = 0 => h.block[b].n_used = 0

\* Keeping the blocks is transitive.
LEMMA BlocksChain ==
  ASSUME NEW h, NEW g, NEW m, BlocksKept(h, g), BlocksKept(g, m)
  PROVE  BlocksKept(h, m)
BY DEF BlocksKept

\* There are at most as many cells as items of the pool.
LEMMA FiniteCells ==
  ASSUME NEW h, Typed(h), NEW S \in SUBSET DOMAIN h.cell
  PROVE  IsFiniteSet(S) /\ Cardinality(S) \in Nat
<1>1. PoolSize \in Nat
  BY HeapAssumption
<1>2. IsFiniteSet(Items)
  BY <1>1, FS_Interval DEF Items
<1>3. S \subseteq Items
  BY DEF Typed
<1> QED
  BY <1>2, <1>3, FS_Subset, FS_CardinalityType

\* A block with a used cell is not idle.
LEMMA InUse ==
  ASSUME NEW h, Sound(h), NEW c \in h.used
  PROVE  /\ c \in DOMAIN h.cell /\ h.cell[c].block \in DOMAIN h.block
         /\ h.block[h.cell[c].block].n_used # 0
         /\ h.cell[c].requested # 0
<1>1. Typed(h)
  BY DEF Sound, Laid
<1>2. c \in DOMAIN h.cell /\ h.cell[c].requested # 0
  BY DEF Sound, Rings
<1>3. h.cell[c].block \in DOMAIN h.block
  BY <1>1, <1>2, CellTypes DEF BlockOf
<1> DEFINE S == CellsOf(h, h.cell[c].block) \cap h.used
<1>4. c \in S /\ S \in SUBSET DOMAIN h.cell
  BY <1>2 DEF CellsOf
<1>5. h.block[h.cell[c].block].n_used = Cardinality(S)
  BY <1>3 DEF Sound, Rings, Counted
<1> HIDE DEF S
<1>6. Cardinality(S) # 0
  BY <1>1, <1>4, FiniteCells, FS_EmptySet
<1> QED
  BY <1>2, <1>3, <1>5, <1>6

---------------------------------------------------------------------------
(* sec_alloc                                                                *)

\* What taking an unused cell changes.
LEMMA UseFields ==
  ASSUME NEW h, Typed(h), NEW c \in DOMAIN h.cell, NEW length \in Nat
  PROVE  LET m == UseCell(h, c, length)
             b == h.cell[c].block IN
         /\ Fields(m) /\ DOMAIN m.block = DOMAIN h.block /\ DOMAIN m.cell = DOMAIN h.cell
         /\ m.unused = h.unused \ {c} /\ m.used = h.used \cup {c}
         /\ m.block[b] = [n_words |-> h.block[b].n_words, n_used |-> h.block[b].n_used + 1]
         /\ \A x \in DOMAIN h.block \ {b} : m.block[x] = h.block[x]
         /\ m.cell[c] = [block |-> h.cell[c].block, words |-> h.cell[c].words,
                         n_words |-> h.cell[c].n_words, requested |-> length]
         /\ \A x \in DOMAIN h.cell \ {c} : m.cell[x] = h.cell[x]
         /\ DOMAIN m.mem = DOMAIN h.mem
         /\ \A x \in DOMAIN h.mem : DOMAIN m.mem[x] = DOMAIN h.mem[x]
         /\ \A x \in DOMAIN h.mem : \A w \in DOMAIN h.mem[x] :
              m.mem[x][w] = IF x = b /\ w \in (h.cell[c].words + 1)..((h.cell[c].words + 1 + length) - 1)
                            THEN Zero ELSE h.mem[x][w]
<1> DEFINE b == h.cell[c].block
           h1 == [h EXCEPT !.unused = @ \ {c}, !.used = @ \cup {c},
                           !.cell[c].requested = length,
                           !.block[h.cell[c].block].n_used = @ + 1]
           W == (h.cell[c].words + 1)..((h.cell[c].words + 1 + length) - 1)
           m == UseCell(h, c, length)
<1>1. /\ h.cell[c] \in CellType(h) /\ Fields(h) /\ b \in DOMAIN h.block
      /\ h.block[b] \in [n_words : Nat, n_used : Nat] /\ DOMAIN h.mem = DOMAIN h.block
  BY DEF Typed, CellType
<1>2. /\ Fields(h1) /\ DOMAIN h1.block = DOMAIN h.block /\ DOMAIN h1.cell = DOMAIN h.cell
      /\ h1.unused = h.unused \ {c} /\ h1.used = h.used \cup {c} /\ h1.mem = h.mem
      /\ h1.block[b] = [n_words |-> h.block[b].n_words, n_used |-> h.block[b].n_used + 1]
      /\ \A x \in DOMAIN h.block \ {b} : h1.block[x] = h.block[x]
      /\ h1.cell[c] = [block |-> h.cell[c].block, words |-> h.cell[c].words,
                       n_words |-> h.cell[c].n_words, requested |-> length]
      /\ \A x \in DOMAIN h.cell \ {c} : h1.cell[x] = h.cell[x]
  BY <1>1 DEF Fields, CellType
<1>3. m = Put(h1, b, W, Zero)
  <2>1. m = Fill(h1, b, h.cell[c].words + 1, h.cell[c].words + 1 + length, Zero)
    BY Zenon DEF UseCell
  <2>2. Fill(h1, b, h.cell[c].words + 1, h.cell[c].words + 1 + length, Zero) = Put(h1, b, W, Zero)
    BY Zenon DEF Fill
  <2> HIDE DEF h1, m, b, W
  <2> QED
    BY <2>1, <2>2
<1> HIDE DEF h1, m, b, W
<1>4. b \in DOMAIN h1.mem
  BY <1>1, <1>2
<1>5. /\ Fields(m) /\ m.block = h1.block /\ m.cell = h1.cell
      /\ m.unused = h1.unused /\ m.used = h1.used
      /\ DOMAIN m.mem = DOMAIN h1.mem
      /\ \A x \in DOMAIN h1.mem : DOMAIN m.mem[x] = DOMAIN h1.mem[x]
      /\ \A x \in DOMAIN h1.mem : \A w \in DOMAIN h1.mem[x] :
           m.mem[x][w] = IF x = b /\ w \in W THEN Zero ELSE h1.mem[x][w]
  BY <1>2, <1>3, <1>4, PutFields
<1> QED
  BY <1>2, <1>5 DEF m, b, W

\* The words of a buffer of this length lie inside the cell.
LEMMA BufferInside ==
  ASSUME NEW h, Typed(h), NEW c \in DOMAIN h.cell, NEW length \in Nat,
         length + 2 <= h.cell[c].n_words
  PROVE  /\ (h.cell[c].words + 1)..((h.cell[c].words + 1 + length) - 1) \subseteq Inside(h, c)
         /\ \A i \in 1..length :
              /\ h.cell[c].words + i \in Inside(h, c)
              /\ h.cell[c].words + i \in (h.cell[c].words + 1)..((h.cell[c].words + 1 + length) - 1)
<1>1. h.cell[c].words \in Nat /\ h.cell[c].n_words \in Nat
  BY CellTypes
<1>2. From(h, c) = h.cell[c].words /\ To(h, c) = h.cell[c].words + h.cell[c].n_words
  BY DEF From, To
<1> QED
  BY <1>1, <1>2 DEF Inside

\* What taking cell k for a buffer does to the heap.
Gained(h, m, k, length) ==
  /\ Sound(m) /\ k \in DOMAIN m.cell /\ k \notin h.used /\ m.used = h.used \cup {k}
  /\ Kept(h, m, h.used) /\ Content(m, k) = Zeros(length) /\ m.cell[k].requested = length
  /\ NoNewData(h, m) /\ BlocksKept(h, m) /\ DOMAIN m.block = DOMAIN h.block

\* An unused cell that is long enough becomes a buffer of zeroes.
LEMMA UseSound ==
  ASSUME NEW h, NEW k, Aside(h, k), Counted(h), NEW length \in Nat \ {0},
         length + 2 <= h.cell[k].n_words
  PROVE  LET m == UseCell(h, k, length) IN
         Gained(h, m, k, length) /\ m.cell[k].block = h.cell[k].block
<1> DEFINE m == UseCell(h, k, length)
           b == h.cell[k].block
           W == (h.cell[k].words + 1)..((h.cell[k].words + 1 + length) - 1)
<1>0. Typed(h) /\ Tiled(h) /\ Guarded(h) /\ Laid(h) /\ k \in DOMAIN h.cell
  BY DEF Aside, Laid
<1>1. /\ Fields(m) /\ DOMAIN m.block = DOMAIN h.block /\ DOMAIN m.cell = DOMAIN h.cell
      /\ m.unused = h.unused \ {k} /\ m.used = h.used \cup {k}
      /\ m.block[b] = [n_words |-> h.block[b].n_words, n_used |-> h.block[b].n_used + 1]
      /\ \A x \in DOMAIN h.block \ {b} : m.block[x] = h.block[x]
      /\ m.cell[k] = [block |-> h.cell[k].block, words |-> h.cell[k].words,
                      n_words |-> h.cell[k].n_words, requested |-> length]
      /\ \A x \in DOMAIN h.cell \ {k} : m.cell[x] = h.cell[x]
      /\ DOMAIN m.mem = DOMAIN h.mem
      /\ \A x \in DOMAIN h.mem : DOMAIN m.mem[x] = DOMAIN h.mem[x]
      /\ \A x \in DOMAIN h.mem : \A w \in DOMAIN h.mem[x] :
           m.mem[x][w] = IF x = b /\ w \in W THEN Zero ELSE h.mem[x][w]
  BY <1>0, UseFields
<1> HIDE DEF m
<1>2. /\ b \in DOMAIN h.block /\ b = BlockOf(h, k) /\ W \subseteq Inside(h, k)
      /\ h.cell[k] \in CellType(h)
      /\ \A x \in DOMAIN h.block : h.block[x] \in [n_words : Nat, n_used : Nat]
  BY <1>0, CellTypes, BufferInside DEF BlockOf, Typed
<1>3. Touch(h, m, k)
  <2>1. m.cell[k] \in CellType(h)
    BY <1>1, <1>2 DEF CellType
  <2>2. ASSUME NEW x \in DOMAIN h.block
        PROVE  m.block[x] \in [n_words : Nat, n_used : Nat] /\ m.block[x].n_words = h.block[x].n_words
    <3>1. CASE x = b
      BY <1>1, <1>2, <3>1
    <3>2. CASE x # b
      BY <1>1, <1>2, <3>2
    <3> QED
      BY <3>1, <3>2
  <2> HIDE DEF W, b
  <2> QED
    BY <1>1, <1>2, <2>1, <2>2 DEF Touch
<1>4. /\ Laid(m) /\ Kept(h, m, DOMAIN h.cell \ {k})
      /\ \A d, e \in DOMAIN h.cell : Adjacent(m, d, e) <=> Adjacent(h, d, e)
      /\ \A x \in DOMAIN h.block : CellsOf(m, x) = CellsOf(h, x)
  BY <1>0, <1>3, TouchLaid
<1>5. h.used \subseteq DOMAIN h.cell \ {k} /\ m.unused \subseteq DOMAIN h.cell
  BY <1>1 DEF Aside
<1>6. m.unused = {c \in DOMAIN m.cell : m.cell[c].requested = 0} /\ m.used = DOMAIN m.cell \ m.unused
  BY <1>1, <1>0 DEF Aside
<1>7. ASSUME NEW x \in DOMAIN m.block
      PROVE  m.block[x].n_used = Cardinality(CellsOf(m, x) \cap m.used)
  <2> DEFINE S == CellsOf(h, x) \cap h.used
  <2>1. h.block[x].n_used = Cardinality(S) /\ S \in SUBSET DOMAIN h.cell /\ k \notin S
    BY <1>1, <1>5 DEF Counted
  <2>2. IsFiniteSet(S) /\ Cardinality(S) \in Nat
    BY <1>0, <2>1, FiniteCells
  <2>3. CASE x = b
    <3>1. CellsOf(m, x) \cap m.used = S \cup {k}
      BY <1>0, <1>1, <1>4, <2>3 DEF CellsOf
    <3> HIDE DEF S
    <3>2. Cardinality(S \cup {k}) = Cardinality(S) + 1
      BY <2>1, <2>2, FS_AddElement
    <3>3. m.block[x].n_used = h.block[x].n_used + 1
      BY <1>1, <2>3
    <3> QED
      BY <2>1, <3>1, <3>2, <3>3
  <2>4. CASE x # b
    <3>1. CellsOf(m, x) \cap m.used = S
      BY <1>1, <1>4, <2>4 DEF CellsOf
    <3> QED
      BY <1>1, <2>1, <2>4, <3>1
  <2> QED
    BY <2>3, <2>4
<1>8. Apart(m)
  <2>1. \A c, d \in m.unused : ~Adjacent(h, c, d)
    BY <1>1 DEF Aside
  <2> QED
    BY <1>4, <1>5, <2>1 DEF Apart
<1>9. Content(m, k) = Zeros(length)
  <2>1. ASSUME NEW i \in 1..length PROVE m.mem[b][h.cell[k].words + i] = Zero
    <3>1. h.cell[k].words + i \in W /\ h.cell[k].words + i \in Inside(h, k)
      BY <1>0, BufferInside
    <3>2. b \in DOMAIN h.mem /\ h.cell[k].words + i \in DOMAIN h.mem[b]
      BY <1>0, <1>2, <3>1, CellTypes, CellWords
    <3> QED
      BY <1>1, <3>1, <3>2
  <2> QED
    <3>1. m.cell[k].requested = length /\ m.cell[k].block = b /\ m.cell[k].words = h.cell[k].words
      BY <1>1
    <3> QED
      BY <2>1, <3>1 DEF Content, Zeros
<1>10. NoNewData(h, m)
  BY <1>1, NotData DEF NoNewData
<1>11. BlocksKept(h, m)
  <2>1. ASSUME NEW x \in DOMAIN m.block
        PROVE  m.block[x].n_words = h.block[x].n_words /\ (m.block[x].n_used = 0 => h.block[x].n_used = 0)
    <3>1. CASE x = b
      BY <1>1, <1>2, <3>1
    <3>2. CASE x # b
      BY <1>1, <3>2
    <3> QED
      BY <3>1, <3>2
  <2> QED
    BY <1>1, <2>1 DEF BlocksKept
<1>12. Sound(m)
  BY <1>4, <1>6, <1>7, <1>8 DEF Sound, Rings, Counted
<1>13. Kept(h, m, h.used)
  BY <1>4, <1>5 DEF Kept
<1> QED
  BY <1>0, <1>1, <1>5, <1>9, <1>10, <1>11, <1>12, <1>13 DEF Gained, m

\* A sound heap is one with any unused cell put aside.
LEMMA UnusedAside ==
  ASSUME NEW h, Sound(h), NEW c \in h.unused
  PROVE  Aside(h, c)
BY DEF Sound, Rings, Apart, Aside

\* The front part of a split cell can be used: the rest is unused and stands alone.
LEMMA SplitAside ==
  ASSUME NEW h, Sound(h), PoolFree(h) # {}, NEW c \in h.unused, NEW n \in Nat, n >= 2,
         n + 2 <= h.cell[c].n_words
  PROVE  LET m == SplitFront(h, c, n)
             new == PoolAlloc(h) IN
         /\ Aside(m, new) /\ Counted(m) /\ new # None /\ new \notin h.used
         /\ m.used = h.used /\ m.block = h.block
         /\ m.cell[new].n_words = n /\ m.cell[new].block = h.cell[c].block
         /\ Kept(h, m, h.used) /\ NoNewData(h, m)
<1> DEFINE m == SplitFront(h, c, n)
           new == PoolAlloc(h)
<1>0. /\ Laid(h) /\ Typed(h) /\ Tiled(h) /\ c \in DOMAIN h.cell /\ h.cell[c].requested = 0
      /\ Rings(h) /\ Apart(h)
  BY DEF Sound, Rings, Laid
<1>1. /\ new \in Items \ (DOMAIN h.block \cup DOMAIN h.cell)
      /\ m.block = h.block /\ m.unused = h.unused /\ m.used = h.used
      /\ DOMAIN m.cell = DOMAIN h.cell \cup {new}
      /\ m.cell[new] = [block |-> h.cell[c].block, words |-> h.cell[c].words, n_words |-> n,
                         requested |-> 0]
      /\ m.cell[c] = [block |-> h.cell[c].block, words |-> h.cell[c].words + n,
                       n_words |-> h.cell[c].n_words - n, requested |-> h.cell[c].requested]
      /\ \A x \in DOMAIN h.cell \ {c} : m.cell[x] = h.cell[x]
  BY <1>0, SplitFields
<1>2. /\ Laid(m) /\ NoNewData(h, m)
      /\ \A x \in DOMAIN h.cell \ {c} : SameWords(h, m, x)
  BY <1>0, SplitLaid
<1> HIDE DEF m, new
<1>3. new # None /\ new \notin DOMAIN h.cell
  BY <1>1, HeapAssumption DEF Items, None
<1>4. /\ h.cell[c].words \in Nat /\ h.cell[c].n_words \in Nat
      /\ h.used \subseteq DOMAIN h.cell \ {c} /\ h.unused \subseteq DOMAIN h.cell
  BY <1>0, CellTypes DEF Rings
<1>5. Kept(h, m, h.used)
  <2>1. ASSUME NEW d \in h.used PROVE Kept(h, m, {d})
    BY <1>0, <1>1, <1>2, <1>4, KeptWords
  <2> QED
    BY <2>1 DEF Kept
<1>6. /\ m.used = {x \in DOMAIN m.cell \ {new} : m.cell[x].requested # 0}
      /\ m.unused \ {new} = {x \in DOMAIN m.cell \ {new} : m.cell[x].requested = 0}
  <2>1. \A x \in DOMAIN h.cell : m.cell[x].requested = h.cell[x].requested
    BY <1>0, <1>1
  <2> QED
    BY <1>0, <1>1, <1>3, <2>1 DEF Rings
<1>7. ASSUME NEW x \in m.unused \ {new}, NEW y \in m.unused \ {new} PROVE ~Adjacent(m, x, y)
  <2>1. /\ x \in h.unused /\ y \in h.unused /\ x \in DOMAIN h.cell /\ y \in DOMAIN h.cell
        /\ ~Adjacent(h, x, y)
    BY <1>0, <1>1, <1>4 DEF Apart
  <2>2. \A z \in DOMAIN h.cell : BlockOf(m, z) = BlockOf(h, z) /\ To(m, z) = To(h, z)
    BY <1>1, <1>4 DEF BlockOf, To
  <2>3. CASE y # c
    <3>1. From(m, y) = From(h, y)
      BY <1>1, <2>1, <2>3 DEF From
    <3> QED
      BY <2>1, <2>2, <3>1 DEF Adjacent
  <2>4. CASE y = c
    <3>1. SUFFICES ASSUME Adjacent(m, x, c) PROVE FALSE
      BY <2>4
    <3>2. BlockOf(m, new) = BlockOf(m, c) /\ To(m, new) = From(m, c) /\ new \in DOMAIN m.cell
      BY <1>1, <1>4 DEF BlockOf, To, From
    <3>3. To(m, x) = To(m, new) /\ BlockOf(m, x) = BlockOf(m, new) /\ x # new /\ x \in DOMAIN m.cell
      BY <1>1, <2>1, <3>1, <3>2 DEF Adjacent
    <3>4. Typed(m) /\ Tiled(m)
      BY <1>2 DEF Laid
    <3>5. To(m, x) - 1 \in Ends(m, x) /\ To(m, new) - 1 \in Ends(m, new)
      BY <3>2, <3>3, <3>4, CellEnds
    <3> QED
      BY <3>2, <3>3, <3>4, <3>5, CellWords
  <2> QED
    BY <2>3, <2>4
<1>8. Counted(m)
  <2>1. \A x \in DOMAIN h.block : CellsOf(m, x) \cap m.used = CellsOf(h, x) \cap h.used
    BY <1>1, <1>3, <1>4 DEF CellsOf
  <2> QED
    BY <1>0, <1>1, <2>1 DEF Counted, Rings
<1>9. Aside(m, new)
  BY <1>1, <1>2, <1>6, <1>7 DEF Aside
<1> QED
  BY <1>1, <1>2, <1>3, <1>4, <1>5, <1>8, <1>9 DEF m, new

\* A buffer gained after a step that the used cells do not notice is gained from its start.
LEMMA GainedChain ==
  ASSUME NEW h, NEW g, NEW m, NEW k, NEW length, h.used = g.used, h.block = g.block,
         Kept(h, g, h.used), NoNewData(h, g), Gained(g, m, k, length)
  PROVE  Gained(h, m, k, length)
<1>1. Kept(h, m, h.used) /\ NoNewData(h, m)
  BY KeptChain, DataChain DEF Gained
<1> QED
  BY <1>1 DEF Gained, BlocksKept

\* A fitting cell is taken whole or split; without an item for the split nothing happens.
LEMMA TakeSound ==
  ASSUME NEW h, Sound(h), NEW c \in h.unused, NEW length \in Nat \ {0},
         length + 2 <= h.cell[c].n_words
  PROVE  LET r == TakeCell(h, c, length) IN
         \/ r.cell = None /\ r.heap = h /\ PoolFree(h) = {}
         \/ /\ r.cell # None /\ Gained(h, r.heap, r.cell, length)
            /\ r.heap.cell[r.cell].block = h.cell[c].block
<1>0. Typed(h) /\ c \in DOMAIN h.cell /\ Counted(h) /\ WASTE \in Nat \ {0}
  BY HeapAssumption DEF Sound, Laid, Rings
<1>1. h.cell[c].n_words \in Nat /\ c \in Items
  BY <1>0, CellTypes
<1>2. CASE h.cell[c].n_words <= length + 2 + WASTE
  <2>1. TakeCell(h, c, length) = [heap |-> UseCell(h, c, length), cell |-> c]
    BY <1>2 DEF TakeCell
  <2>2. Gained(h, UseCell(h, c, length), c, length)
        /\ UseCell(h, c, length).cell[c].block = h.cell[c].block
    BY <1>0, UnusedAside, UseSound
  <2>3. c # None
    BY <1>1, HeapAssumption DEF Items, None
  <2> QED
    BY <2>1, <2>2, <2>3
<1>3. CASE ~(h.cell[c].n_words <= length + 2 + WASTE) /\ PoolFree(h) = {}
  BY <1>3 DEF TakeCell
<1>4. CASE ~(h.cell[c].n_words <= length + 2 + WASTE) /\ PoolFree(h) # {}
  <2> DEFINE g == SplitFront(h, c, length + 2)
             new == PoolAlloc(h)
             m == UseCell(g, new, length)
  <2>1. TakeCell(h, c, length) = [heap |-> m, cell |-> new]
    BY <1>4 DEF TakeCell
  <2>2. length + 2 \in Nat /\ length + 2 >= 2 /\ (length + 2) + 2 <= h.cell[c].n_words
    BY <1>0, <1>1, <1>4
  <2>3. /\ Aside(g, new) /\ Counted(g) /\ new # None
        /\ g.used = h.used /\ g.block = h.block
        /\ g.cell[new].n_words = length + 2 /\ g.cell[new].block = h.cell[c].block
        /\ Kept(h, g, h.used) /\ NoNewData(h, g)
    BY <1>4, <2>2, SplitAside
  <2> HIDE DEF g, new
  <2>4. Gained(g, m, new, length) /\ m.cell[new].block = g.cell[new].block
    BY <2>3, UseSound
  <2> HIDE DEF m
  <2>5. Gained(h, m, new, length)
    BY <2>3, <2>4, GainedChain
  <2> QED
    BY <2>1, <2>3, <2>4, <2>5
<1> QED
  BY <1>2, <1>3, <1>4

\* sec_alloc takes a cell of the block for a new buffer, or leaves the heap as it is: for
\* want of a cell that is long enough, or of a meta data item.
LEMMA SecAllocSound ==
  ASSUME NEW h, Sound(h), NEW b, NEW length \in Nat \ {0}, NEW r \in SecAlloc(h, b, length)
  PROVE  \/ /\ r.cell = None /\ r.heap = h
            /\ \/ PoolFree(h) = {}
               \/ \A c \in h.unused : h.cell[c].block = b => h.cell[c].n_words < length + 2
         \/ /\ r.cell # None /\ Gained(h, r.heap, r.cell, length)
            /\ r.heap.cell[r.cell].block = b
<1> DEFINE fits == {c \in h.unused : h.cell[c].block = b /\ h.cell[c].n_words >= length + 2}
<1>1. \A c \in h.unused : h.cell[c].n_words \in Nat
  BY CellTypes DEF Sound, Laid, Rings
<1>2. CASE fits = {}
  <2>1. r = [heap |-> h, cell |-> None]
    BY <1>2 DEF SecAlloc
  <2> QED
    BY <1>1, <1>2, <2>1
<1>3. CASE fits # {}
  <2>1. PICK c \in fits : r = TakeCell(h, c, length)
    BY <1>3 DEF SecAlloc
  <2>2. c \in h.unused /\ length + 2 <= h.cell[c].n_words /\ h.cell[c].block = b
    BY <1>1
  <2> HIDE DEF fits
  <2> QED
    BY <2>1, <2>2, TakeSound
<1> QED
  BY <1>2, <1>3

---------------------------------------------------------------------------
(* sec_free                                                                 *)

\* What was in the buffer of cell c is gone.
Erased(h, m, c) ==
  \A i \in 1..h.cell[c].requested :
    h.cell[c].block \in DOMAIN m.mem /\ h.cell[c].words + i \in DOMAIN m.mem[h.cell[c].block]
      => ~IsData(m.mem[h.cell[c].block][h.cell[c].words + i])

\* Merging after clearing: the data stays erased.
LEMMA ErasedChain ==
  ASSUME NEW h, NEW g, NEW m, NEW c, Erased(h, g, c), NoNewData(g, m)
  PROVE  Erased(h, m, c)
<1>1. SUFFICES ASSUME NEW i \in 1..h.cell[c].requested, h.cell[c].block \in DOMAIN m.mem,
                      h.cell[c].words + i \in DOMAIN m.mem[h.cell[c].block],
                      IsData(m.mem[h.cell[c].block][h.cell[c].words + i])
               PROVE  FALSE
  BY DEF Erased
<1> QED
  BY <1>1 DEF Erased, NoNewData

\* Cell c of h is being freed: it is now part of cell k of g.
Freeing(h, g, c, k) ==
  /\ Aside(g, k) /\ g.used = h.used \ {c} /\ g.block = h.block
  /\ Kept(h, g, h.used \ {c}) /\ NoNewData(h, g) /\ Erased(h, g, c)

NoneBefore(g, k) == \A x \in g.unused \ {k} : ~Adjacent(g, x, k)
NoneAfter(g, k) == \A x \in g.unused \ {k} : ~Adjacent(g, k, x)

\* sec_free, first: the words are cleared and the cell leaves the used ring.
LEMMA FreeStart ==
  ASSUME NEW h, Sound(h), NEW c \in h.used
  PROVE  Freeing(h, [Clear(h, c, 0, h.cell[c].requested) EXCEPT !.used = @ \ {c}], c, c)
<1> DEFINE n == h.cell[c].requested
           W == (h.cell[c].words + 1)..((h.cell[c].words + 1 + n) - 1)
           b == h.cell[c].block
           f == Clear(h, c, 0, n)
           m == [f EXCEPT !.used = @ \ {c}]
<1>0. /\ Laid(h) /\ Typed(h) /\ Tiled(h) /\ c \in DOMAIN h.cell /\ Rings(h) /\ Apart(h)
      /\ Fields(h)
  BY DEF Sound, Rings, Laid, Typed
<1>1. /\ b \in DOMAIN h.mem /\ n \in Nat /\ h.cell[c].words \in Nat /\ h.cell[c].n_words \in Nat
      /\ n + 2 <= h.cell[c].n_words /\ b = BlockOf(h, c) /\ h.cell[c] \in CellType(h)
  BY <1>0, CellTypes DEF Tiled, BlockOf, Typed
<1>2. f = Put(h, b, W, Zero)
  <2>1. h.cell[c].words + 1 + 0 = h.cell[c].words + 1
    BY <1>1
  <2>2. f = Put(h, b, (h.cell[c].words + 1 + 0)..((h.cell[c].words + 1 + n) - 1), Zero)
    BY Zenon DEF Clear, Fill
  <2> QED
    BY <2>1, <2>2
<1> HIDE DEF f, W
<1>3. /\ Fields(f) /\ f.block = h.block /\ f.cell = h.cell
      /\ f.unused = h.unused /\ f.used = h.used
      /\ DOMAIN f.mem = DOMAIN h.mem
      /\ \A x \in DOMAIN h.mem : DOMAIN f.mem[x] = DOMAIN h.mem[x]
      /\ \A x \in DOMAIN h.mem : \A w \in DOMAIN h.mem[x] :
           f.mem[x][w] = IF x = b /\ w \in W THEN Zero ELSE h.mem[x][w]
  BY <1>0, <1>1, <1>2, PutFields
<1>4. /\ Fields(m) /\ m.block = h.block /\ m.cell = h.cell
      /\ m.unused = h.unused /\ m.used = h.used \ {c} /\ m.mem = f.mem
  BY <1>3 DEF Fields
<1> HIDE DEF m
<1>5. /\ W \subseteq Inside(h, c)
      /\ \A i \in 1..n : h.cell[c].words + i \in Inside(h, c) /\ h.cell[c].words + i \in W
  BY <1>0, <1>1, BufferInside DEF W
<1>6. Touch(h, m, c)
  <2>1. \A x \in DOMAIN h.block : h.block[x] \in [n_words : Nat, n_used : Nat]
    BY <1>0 DEF Typed
  <2> QED
    BY <1>1, <1>3, <1>4, <1>5, <2>1 DEF Touch
<1>7. /\ Laid(m) /\ Kept(h, m, DOMAIN h.cell \ {c})
      /\ \A d, e \in DOMAIN h.cell : Adjacent(m, d, e) <=> Adjacent(h, d, e)
  BY <1>0, <1>6, TouchLaid
<1>8. Aside(m, c)
  <2>1. /\ m.used = {x \in DOMAIN m.cell \ {c} : m.cell[x].requested # 0}
        /\ m.unused \ {c} = {x \in DOMAIN m.cell \ {c} : m.cell[x].requested = 0}
    BY <1>0, <1>4 DEF Rings
  <2>2. \A x, y \in m.unused \ {c} : ~Adjacent(m, x, y)
    BY <1>0, <1>4, <1>7 DEF Rings, Apart
  <2> QED
    BY <1>0, <1>4, <1>7, <2>1, <2>2 DEF Aside
<1>9. Kept(h, m, h.used \ {c})
  BY <1>0, <1>7 DEF Kept, Rings
<1>10. NoNewData(h, m)
  BY <1>3, <1>4, NotData DEF NoNewData
<1>11. Erased(h, m, c)
  <2>1. ASSUME NEW i \in 1..n PROVE ~IsData(m.mem[b][h.cell[c].words + i])
    <3>1. h.cell[c].words + i \in W /\ h.cell[c].words + i \in DOMAIN h.mem[b]
      BY <1>0, <1>1, <1>5, CellWords
    <3> QED
      BY <1>1, <1>3, <1>4, <3>1, NotData
  <2> QED
    BY <2>1 DEF Erased
<1> QED
  BY <1>4, <1>8, <1>9, <1>10, <1>11 DEF Freeing, m, f

\* The freed cell becomes part of the unused cell d next to it.
LEMMA FreeJoin ==
  ASSUME NEW h, NEW g, NEW c, NEW k, Freeing(h, g, c, k), NEW d \in g.unused \ {k}, NEW words,
         \/ Adjacent(g, d, k) /\ words = From(g, d)
         \/ Adjacent(g, k, d) /\ words = From(g, k)
  PROVE  LET m == MergeCells(g, d, k, words) IN
         /\ Freeing(h, m, c, d)
         /\ m.unused \ {d} = g.unused \ {d, k}
         /\ BlockOf(m, d) = BlockOf(g, d)
         /\ Adjacent(g, d, k) => From(m, d) = From(g, d) /\ To(m, d) = To(g, k)
         /\ Adjacent(g, k, d) => From(m, d) = From(g, k) /\ To(m, d) = To(g, d)
         /\ \A x \in g.unused \ {d, k} :
              BlockOf(m, x) = BlockOf(g, x) /\ From(m, x) = From(g, x) /\ To(m, x) = To(g, x)
<1> DEFINE m == MergeCells(g, d, k, words)
<1>0. /\ Laid(g) /\ Typed(g) /\ Tiled(g) /\ k \in DOMAIN g.cell /\ d \in DOMAIN g.cell /\ d # k
      /\ g.cell[d].requested = 0 /\ k \notin g.used /\ g.used \subseteq DOMAIN g.cell \ {k}
      /\ g.unused \subseteq DOMAIN g.cell /\ d \notin g.used
  BY DEF Freeing, Aside, Laid
<1>1. words \in Nat
  BY <1>0, CellTypes
<1>2. /\ m.block = g.block
      /\ m.unused = g.unused \ {k} /\ m.used = g.used \ {k}
      /\ DOMAIN m.cell = DOMAIN g.cell \ {k}
      /\ m.cell[d] = Merged(g, d, k, words)
      /\ \A x \in DOMAIN m.cell \ {d} : m.cell[x] = g.cell[x]
  BY <1>0, <1>1, MergeFields
<1>3. Laid(m) /\ NoNewData(g, m) /\ \A x \in DOMAIN g.cell : SameWords(g, m, x)
  BY <1>0, MergeLaid
<1> HIDE DEF m
<1>4. \A x \in g.unused \ {d, k} :
        BlockOf(m, x) = BlockOf(g, x) /\ From(m, x) = From(g, x) /\ To(m, x) = To(g, x)
  BY <1>0, <1>2 DEF BlockOf, From, To
<1>5. Kept(g, m, g.used)
  <2>1. ASSUME NEW x \in g.used PROVE Kept(g, m, {x})
    BY <1>0, <1>2, <1>3, KeptWords
  <2> QED
    BY <2>1 DEF Kept
<1>6. Aside(m, d)
  <2>1. m.used = {x \in DOMAIN m.cell \ {d} : m.cell[x].requested # 0}
    BY <1>0, <1>2 DEF Freeing, Aside
  <2>2. m.unused \ {d} = {x \in DOMAIN m.cell \ {d} : m.cell[x].requested = 0}
    BY <1>0, <1>2 DEF Freeing, Aside
  <2>3. \A x, y \in m.unused \ {d} : ~Adjacent(m, x, y)
    BY <1>2, <1>4 DEF Freeing, Aside, Adjacent
  <2> QED
    BY <1>0, <1>2, <1>3, <2>1, <2>2, <2>3 DEF Aside
<1>7. Freeing(h, m, c, d)
  <2>1. Kept(h, m, h.used \ {c}) /\ NoNewData(h, m) /\ Erased(h, m, c)
    BY <1>3, <1>5, KeptChain, DataChain, ErasedChain DEF Freeing
  <2>2. m.used = h.used \ {c} /\ m.block = h.block
    BY <1>0, <1>2 DEF Freeing
  <2> QED
    BY <1>6, <2>1, <2>2 DEF Freeing
<1>8. /\ BlockOf(m, d) = BlockOf(g, d)
      /\ From(m, d) = words /\ To(m, d) = words + (g.cell[d].n_words + g.cell[k].n_words)
  BY <1>2 DEF Merged, BlockOf, From, To
<1>9. /\ g.cell[d].n_words \in Nat /\ g.cell[k].n_words \in Nat
      /\ From(g, d) \in Nat /\ From(g, k) \in Nat
      /\ To(g, d) = From(g, d) + g.cell[d].n_words /\ To(g, k) = From(g, k) + g.cell[k].n_words
      /\ g.cell[d].n_words >= 2 /\ g.cell[k].n_words >= 2
  BY <1>0, CellTypes, CellEnds DEF Tiled
<1>10. Adjacent(g, d, k) => From(m, d) = From(g, d) /\ To(m, d) = To(g, k)
  BY <1>8, <1>9 DEF Adjacent
<1>11. Adjacent(g, k, d) => From(m, d) = From(g, k) /\ To(m, d) = To(g, d)
  BY <1>8, <1>9 DEF Adjacent
<1> QED
  BY <1>2, <1>4, <1>7, <1>8, <1>10, <1>11 DEF m

\* sec_free, second: the cell is merged with an unused one before it.
LEMMA FreeBefore ==
  ASSUME NEW h, NEW g, NEW c, NEW k, Freeing(h, g, c, k), NEW d, d = NeighborBefore(g, k)
  PROVE  /\ IsUnused(g, d) =>
              LET m == MergeCells(g, d, k, g.cell[d].words) IN Freeing(h, m, c, d) /\ NoneBefore(m, d)
         /\ ~IsUnused(g, d) => NoneBefore(g, k)
<1>0. /\ Laid(g) /\ Typed(g) /\ Tiled(g) /\ k \in DOMAIN g.cell /\ g.unused \subseteq DOMAIN g.cell
      /\ g.unused \ {k} = {x \in DOMAIN g.cell \ {k} : g.cell[x].requested = 0}
      /\ \A x, y \in g.unused \ {k} : ~Adjacent(g, x, y)
  BY DEF Freeing, Aside, Laid
<1>1. ASSUME IsUnused(g, d)
      PROVE  LET m == MergeCells(g, d, k, g.cell[d].words) IN Freeing(h, m, c, d) /\ NoneBefore(m, d)
  <2> DEFINE m == MergeCells(g, d, k, g.cell[d].words)
  <2>1. d \in DOMAIN g.cell /\ d # k /\ Adjacent(g, d, k)
    BY <1>0, <1>1, Before DEF IsUnused
  <2>2. d \in g.unused \ {k} /\ g.cell[d].words = From(g, d)
    BY <1>0, <1>1, <2>1 DEF IsUnused, From
  <2>3. /\ Freeing(h, m, c, d)
        /\ m.unused \ {d} = g.unused \ {d, k}
        /\ BlockOf(m, d) = BlockOf(g, d) /\ From(m, d) = From(g, d)
        /\ \A x \in g.unused \ {d, k} :
             BlockOf(m, x) = BlockOf(g, x) /\ From(m, x) = From(g, x) /\ To(m, x) = To(g, x)
    BY <2>1, <2>2, FreeJoin
  <2> HIDE DEF m
  <2>4. NoneBefore(m, d)
    BY <1>0, <2>2, <2>3 DEF NoneBefore, Adjacent
  <2> QED
    BY <2>3, <2>4 DEF m
<1>2. ASSUME ~IsUnused(g, d) PROVE NoneBefore(g, k)
  <2>1. SUFFICES ASSUME NEW x \in g.unused \ {k}, Adjacent(g, x, k) PROVE FALSE
    BY DEF NoneBefore
  <2>2. x = d /\ d # None
    BY <1>0, <2>1, Before
  <2> QED
    BY <1>0, <1>2, <2>1, <2>2 DEF IsUnused
<1> QED
  BY <1>1, <1>2

\* sec_free, third: the cell is merged with an unused one behind it.
LEMMA FreeAfter ==
  ASSUME NEW h, NEW g, NEW c, NEW k, Freeing(h, g, c, k), NoneBefore(g, k),
         NEW d, d = NeighborAfter(g, k)
  PROVE  /\ IsUnused(g, d) =>
              LET m == MergeCells(g, d, k, g.cell[k].words) IN
              Freeing(h, m, c, d) /\ NoneBefore(m, d) /\ NoneAfter(m, d)
         /\ ~IsUnused(g, d) => NoneAfter(g, k)
<1>0. /\ Laid(g) /\ Typed(g) /\ Tiled(g) /\ k \in DOMAIN g.cell /\ g.unused \subseteq DOMAIN g.cell
      /\ g.unused \ {k} = {x \in DOMAIN g.cell \ {k} : g.cell[x].requested = 0}
      /\ \A x, y \in g.unused \ {k} : ~Adjacent(g, x, y)
  BY DEF Freeing, Aside, Laid
<1>1. ASSUME IsUnused(g, d)
      PROVE  LET m == MergeCells(g, d, k, g.cell[k].words) IN
             Freeing(h, m, c, d) /\ NoneBefore(m, d) /\ NoneAfter(m, d)
  <2> DEFINE m == MergeCells(g, d, k, g.cell[k].words)
  <2>1. d \in DOMAIN g.cell /\ d # k /\ Adjacent(g, k, d)
    BY <1>0, <1>1, After DEF IsUnused
  <2>2. d \in g.unused \ {k} /\ g.cell[k].words = From(g, k)
    BY <1>0, <1>1, <2>1 DEF IsUnused, From
  <2>3. /\ Freeing(h, m, c, d)
        /\ m.unused \ {d} = g.unused \ {d, k}
        /\ BlockOf(m, d) = BlockOf(g, d) /\ From(m, d) = From(g, k) /\ To(m, d) = To(g, d)
        /\ \A x \in g.unused \ {d, k} :
             BlockOf(m, x) = BlockOf(g, x) /\ From(m, x) = From(g, x) /\ To(m, x) = To(g, x)
    BY <2>1, <2>2, FreeJoin
  <2> HIDE DEF m
  <2>4. NoneBefore(m, d)
    BY <2>1, <2>3 DEF NoneBefore, Adjacent
  <2>5. NoneAfter(m, d)
    BY <1>0, <2>2, <2>3 DEF NoneAfter, Adjacent
  <2> QED
    BY <2>3, <2>4, <2>5 DEF m
<1>2. ASSUME ~IsUnused(g, d) PROVE NoneAfter(g, k)
  <2>1. SUFFICES ASSUME NEW x \in g.unused \ {k}, Adjacent(g, k, x) PROVE FALSE
    BY DEF NoneAfter
  <2>2. x = d /\ d # None
    BY <1>0, <2>1, After
  <2> QED
    BY <1>0, <1>2, <2>1, <2>2 DEF IsUnused
<1> QED
  BY <1>1, <1>2

\* What freeing cell c does to the heap.
Lost(h, m, c) ==
  /\ Sound(m) /\ m.used = h.used \ {c}
  /\ Kept(h, m, h.used \ {c}) /\ NoNewData(h, m) /\ Erased(h, m, c)

\* The same, with the block still there.
Freed(h, m, c) ==
  /\ Lost(h, m, c)
  /\ DOMAIN m.block = DOMAIN h.block
  /\ \A x \in DOMAIN h.block \ {h.cell[c].block} : m.block[x] = h.block[x]
  /\ m.block[h.cell[c].block].n_words = h.block[h.cell[c].block].n_words

\* The last assignments of sec_free.
Ended(h, g, c, k) ==
  [g EXCEPT !.unused = @ \cup {k}, !.cell[k].requested = 0,
            !.block[h.cell[c].block].n_used = @ - 1]

\* sec_free, last: the cell that is left goes to the unused ring.
LEMMA FreeEnd ==
  ASSUME NEW h, Sound(h), NEW c \in h.used, NEW g, NEW k, Freeing(h, g, c, k),
         NoneBefore(g, k), NoneAfter(g, k)
  PROVE  Freed(h, Ended(h, g, c, k), c)
<1> DEFINE b == h.cell[c].block
           m == Ended(h, g, c, k)
<1>0. /\ Laid(g) /\ Typed(g) /\ Tiled(g) /\ k \in DOMAIN g.cell /\ Fields(g)
      /\ k \notin g.used /\ g.used = h.used \ {c} /\ g.block = h.block
      /\ b \in DOMAIN h.block /\ c \in DOMAIN h.cell
      /\ Typed(h) /\ Rings(h)
  BY InUse DEF Freeing, Aside, Laid, Typed, Sound
<1>1. /\ g.cell[k] \in CellType(g)
      /\ \A x \in DOMAIN g.block : g.block[x] \in [n_words : Nat, n_used : Nat]
  BY <1>0 DEF Typed
<1>2. /\ Fields(m) /\ DOMAIN m.block = DOMAIN g.block /\ DOMAIN m.cell = DOMAIN g.cell
      /\ m.unused = g.unused \cup {k} /\ m.used = g.used /\ m.mem = g.mem
      /\ m.block[b] = [n_words |-> g.block[b].n_words, n_used |-> g.block[b].n_used - 1]
      /\ \A x \in DOMAIN g.block \ {b} : m.block[x] = g.block[x]
      /\ m.cell[k] = [block |-> g.cell[k].block, words |-> g.cell[k].words,
                      n_words |-> g.cell[k].n_words, requested |-> 0]
      /\ \A x \in DOMAIN g.cell \ {k} : m.cell[x] = g.cell[x]
  BY <1>0, <1>1 DEF Fields, CellType, Ended
<1> HIDE DEF m
<1>3. h.block[b].n_used \in Nat \ {0} /\ h.block[b].n_words \in Nat
  BY <1>0, <1>1, InUse
<1>4. Touch(g, m, k)
  <2>1. ASSUME NEW x \in DOMAIN g.block
        PROVE  m.block[x] \in [n_words : Nat, n_used : Nat] /\ m.block[x].n_words = g.block[x].n_words
    <3>1. CASE x = b
      BY <1>0, <1>1, <1>2, <1>3, <3>1
    <3>2. CASE x # b
      BY <1>1, <1>2, <3>2
    <3> QED
      BY <3>1, <3>2
  <2>2. m.cell[k] \in CellType(g) /\ 0 + 2 <= g.cell[k].n_words
    <3>1. g.cell[k].n_words >= 2 /\ g.cell[k].n_words \in Nat
      BY <1>0, CellTypes DEF Tiled
    <3> QED
      BY <1>1, <1>2, <3>1 DEF CellType
  <2> HIDE DEF b
  <2> QED
    BY <1>2, <2>1, <2>2 DEF Touch
<1>5. /\ Laid(m) /\ Kept(g, m, DOMAIN g.cell \ {k})
      /\ \A d, e \in DOMAIN g.cell : Adjacent(m, d, e) <=> Adjacent(g, d, e)
      /\ \A x \in DOMAIN g.block : CellsOf(m, x) = CellsOf(g, x)
  BY <1>0, <1>4, TouchLaid
<1>6. m.unused = {x \in DOMAIN m.cell : m.cell[x].requested = 0} /\ m.used = DOMAIN m.cell \ m.unused
  BY <1>0, <1>2 DEF Freeing, Aside
<1>7. Apart(m)
  <2>1. ASSUME NEW x \in m.unused, NEW y \in m.unused PROVE ~Adjacent(g, x, y)
    <3>1. CASE x = k /\ y = k
      BY <1>0, <3>1, CellTypes, CellWords DEF Adjacent
    <3>2. CASE x = k /\ y # k
      BY <1>2, <3>2 DEF NoneAfter
    <3>3. CASE x # k /\ y = k
      BY <1>2, <3>3 DEF NoneBefore
    <3>4. CASE x # k /\ y # k
      BY <1>2, <3>4 DEF Freeing, Aside
    <3> QED
      BY <3>1, <3>2, <3>3, <3>4
  <2> QED
    BY <1>2, <1>5, <1>6, <2>1 DEF Apart
<1>8. Kept(h, m, h.used \ {c})
  <2>1. Kept(g, m, h.used \ {c})
    BY <1>0, <1>5 DEF Kept, Freeing, Aside
  <2> QED
    BY <2>1, KeptChain DEF Freeing
<1>9. ASSUME NEW x \in DOMAIN m.block
      PROVE  m.block[x].n_used = Cardinality(CellsOf(m, x) \cap m.used)
  <2> DEFINE S == CellsOf(h, x) \cap h.used
  <2>1. h.block[x].n_used = Cardinality(S) /\ S \in SUBSET DOMAIN h.cell
    BY <1>0, <1>2 DEF Counted, Rings
  <2>2. CellsOf(m, x) \cap m.used = S \ {c}
    <3>1. \A d \in m.used : /\ d \in DOMAIN m.cell /\ d \in DOMAIN h.cell
                            /\ m.cell[d].block = h.cell[d].block
      BY <1>0, <1>2, <1>8 DEF Kept, Address, Rings
    <3> QED
      BY <1>0, <1>2, <3>1 DEF CellsOf
  <2>3. IsFiniteSet(S) /\ Cardinality(S) \in Nat
    BY <1>0, <2>1, FiniteCells
  <2>4. c \in S <=> x = b
    BY <1>0 DEF CellsOf
  <2> HIDE DEF S
  <2>5. CASE x = b
    <3>1. Cardinality(S \ {c}) = Cardinality(S) - 1
      BY <2>3, <2>4, <2>5, FS_RemoveElement
    <3>2. m.block[x].n_used = h.block[x].n_used - 1
      BY <1>0, <1>2, <2>5
    <3> QED
      BY <2>1, <2>2, <3>1, <3>2
  <2>6. CASE x # b
    <3>1. S \ {c} = S /\ m.block[x] = h.block[x]
      BY <1>0, <1>2, <2>4, <2>6
    <3> QED
      BY <2>1, <2>2, <3>1
  <2> QED
    BY <2>5, <2>6
<1>10. Sound(m)
  BY <1>5, <1>6, <1>7, <1>9 DEF Sound, Rings, Counted
<1>11. NoNewData(h, m) /\ Erased(h, m, c)
  BY <1>2 DEF Freeing, NoNewData, Erased
<1>12. Lost(h, m, c)
  BY <1>0, <1>2, <1>8, <1>10, <1>11 DEF Lost
<1> QED
  <2>1. \A x \in DOMAIN h.block \ {b} : m.block[x] = h.block[x]
    BY <1>0, <1>2
  <2>2. m.block[b].n_words = h.block[b].n_words /\ DOMAIN m.block = DOMAIN h.block
    BY <1>0, <1>2
  <2> QED
    BY <1>12, <2>1, <2>2 DEF m, Freed

\* sec_free takes the cell away, and its neighbours are merged with it.
LEMMA SecFreeSound ==
  ASSUME NEW h, Sound(h), NEW c \in h.used
  PROVE  Freed(h, SecFree(h, c), c)
<1> DEFINE h1 == [Clear(h, c, 0, h.cell[c].requested) EXCEPT !.used = @ \ {c}]
           before == NeighborBefore(h1, c)
           joins == IsUnused(h1, before)
           h2 == IF joins THEN MergeCells(h1, before, c, h1.cell[before].words) ELSE h1
           c2 == IF joins THEN before ELSE c
           after == NeighborAfter(h2, c2)
           h3 == IF IsUnused(h2, after)
                 THEN MergeCells(h2, after, c2, h2.cell[c2].words) ELSE h2
           c3 == IF IsUnused(h2, after) THEN after ELSE c2
<1>1. SecFree(h, c) = Ended(h, h3, c, c3)
  BY DEF SecFree, Ended
<1>2. Freeing(h, h1, c, c)
  BY FreeStart
<1> HIDE DEF h1
<1>3. Freeing(h, h2, c, c2) /\ NoneBefore(h2, c2)
  <2>1. CASE joins
    BY <1>2, <2>1, FreeBefore
  <2>2. CASE ~joins
    BY <1>2, <2>2, FreeBefore
  <2> QED
    BY <2>1, <2>2
<1> HIDE DEF h2, c2
<1>4. Freeing(h, h3, c, c3) /\ NoneBefore(h3, c3) /\ NoneAfter(h3, c3)
  <2>1. CASE IsUnused(h2, after)
    BY <1>3, <2>1, FreeAfter
  <2>2. CASE ~IsUnused(h2, after)
    BY <1>3, <2>2, FreeAfter
  <2> QED
    BY <2>1, <2>2
<1> HIDE DEF h3, c3
<1> QED
  BY <1>1, <1>4, FreeEnd

---------------------------------------------------------------------------
(* sec_realloc                                                              *)

\* The user sees no difference between h and m.
Same(h, m) ==
  /\ Sound(m) /\ m.used = h.used /\ m.block = h.block
  /\ Kept(h, m, h.used) /\ NoNewData(h, m)

\* The counts of used cells depend on the used ring and the blocks of its cells.
LEMMA SameCounts ==
  ASSUME NEW h, Sound(h), NEW m, m.used = h.used, m.block = h.block, Kept(h, m, h.used)
  PROVE  Counted(m)
<1>1. ASSUME NEW x \in DOMAIN h.block PROVE CellsOf(m, x) \cap m.used = CellsOf(h, x) \cap h.used
  BY InUse DEF CellsOf, Kept, Address
<1> QED
  BY <1>1 DEF Sound, Rings, Counted

\* A heap is the same as itself to the user,
LEMMA SameSame ==
  ASSUME NEW h, Sound(h)
  PROVE  Same(h, h)
BY InUse DEF Same, Kept, NoNewData

\* and being the same is transitive.
LEMMA SameChain ==
  ASSUME NEW h, NEW g, NEW m, Same(h, g), Same(g, m)
  PROVE  Same(h, m)
BY KeptChain, DataChain DEF Same

\* Growing by all of the unused neighbour.
LEMMA GrowMerge ==
  ASSUME NEW h, Sound(h), NEW c \in h.used, NEW other \in h.unused, Adjacent(h, c, other)
  PROVE  Same(h, MergeCells(h, c, other, h.cell[c].words))
<1> DEFINE m == MergeCells(h, c, other, h.cell[c].words)
<1>0. /\ Laid(h) /\ Typed(h) /\ c \in DOMAIN h.cell /\ other \in DOMAIN h.cell /\ c # other
      /\ h.used \subseteq DOMAIN h.cell \ {other} /\ h.cell[c].requested # 0
      /\ h.cell[c].words = From(h, c) /\ h.cell[c].words \in Nat /\ Rings(h) /\ c \notin h.unused
  BY InUse, CellTypes DEF Sound, Laid, Rings, From
<1>1. /\ m.block = h.block
      /\ m.unused = h.unused \ {other} /\ m.used = h.used \ {other}
      /\ DOMAIN m.cell = DOMAIN h.cell \ {other}
      /\ m.cell[c] = Merged(h, c, other, h.cell[c].words)
      /\ \A x \in DOMAIN m.cell \ {c} : m.cell[x] = h.cell[x]
  BY <1>0, MergeFields
<1>2. Laid(m) /\ NoNewData(h, m) /\ \A x \in DOMAIN h.cell : SameWords(h, m, x)
  BY <1>0, MergeLaid
<1> HIDE DEF m
<1>3. /\ m.cell[c].block = h.cell[c].block /\ m.cell[c].words = h.cell[c].words
      /\ m.cell[c].requested = h.cell[c].requested
  BY <1>1 DEF Merged
<1>4. Kept(h, m, h.used) /\ m.used = h.used
  <2>1. ASSUME NEW x \in h.used PROVE Kept(h, m, {x})
    BY <1>0, <1>1, <1>2, <1>3, KeptWords
  <2> QED
    BY <1>0, <1>1, <2>1 DEF Kept
<1>5. m.unused = {x \in DOMAIN m.cell : m.cell[x].requested = 0} /\ m.used = DOMAIN m.cell \ m.unused
  BY <1>0, <1>1, <1>3 DEF Rings
<1>6. Apart(m)
  <2>1. \A x \in m.unused : m.cell[x] = h.cell[x] /\ x \in h.unused
    BY <1>0, <1>1, <1>5
  <2>2. \A x, y \in m.unused : Adjacent(m, x, y) <=> Adjacent(h, x, y)
    BY <2>1 DEF Adjacent, BlockOf, From, To
  <2> QED
    BY <2>1, <2>2 DEF Apart, Sound
<1>7. Counted(m)
  BY <1>1, <1>4, SameCounts
<1> QED
  BY <1>1, <1>2, <1>4, <1>5, <1>6, <1>7 DEF Same, Sound, Rings, m

\* Growing by a part of the unused neighbour.
LEMMA GrowSteal ==
  ASSUME NEW h, Sound(h), NEW c \in h.used, NEW other \in h.unused, Adjacent(h, c, other),
         NEW k \in Nat, k + 2 <= h.cell[other].n_words
  PROVE  Same(h, Steal(h, c, other, k))
<1> DEFINE m == Steal(h, c, other, k)
<1>0. /\ Laid(h) /\ Typed(h) /\ c \in DOMAIN h.cell /\ other \in DOMAIN h.cell /\ c # other
      /\ h.used \subseteq DOMAIN h.cell \ {other} /\ h.unused \subseteq DOMAIN h.cell \ {c}
      /\ h.cell[c].requested # 0 /\ h.cell[other].requested = 0 /\ Rings(h) /\ c \notin h.unused
      /\ h.cell[c].words \in Nat /\ h.cell[c].n_words \in Nat
      /\ h.cell[other].words \in Nat /\ h.cell[other].n_words \in Nat
  BY InUse, CellTypes DEF Sound, Laid, Rings
<1>1. /\ m.block = h.block /\ m.unused = h.unused /\ m.used = h.used
      /\ DOMAIN m.cell = DOMAIN h.cell
      /\ m.cell[c] = [block |-> h.cell[c].block, words |-> h.cell[c].words,
                      n_words |-> h.cell[c].n_words + k, requested |-> h.cell[c].requested]
      /\ m.cell[other] = [block |-> h.cell[other].block, words |-> h.cell[other].words + k,
                          n_words |-> h.cell[other].n_words - k,
                          requested |-> h.cell[other].requested]
      /\ \A x \in DOMAIN h.cell \ {c, other} : m.cell[x] = h.cell[x]
  BY <1>0, StealFields
<1>2. Laid(m) /\ NoNewData(h, m) /\ \A x \in DOMAIN h.cell \ {other} : SameWords(h, m, x)
  BY <1>0, StealLaid
<1> HIDE DEF m
<1>3. \A x \in DOMAIN h.cell : m.cell[x].block = h.cell[x].block /\ m.cell[x].requested = h.cell[x].requested
  BY <1>1
<1>4. \A x \in DOMAIN h.cell \ {other} : m.cell[x].words = h.cell[x].words
  BY <1>1
<1>5. Kept(h, m, h.used)
  <2>1. ASSUME NEW x \in h.used PROVE Kept(h, m, {x})
    BY <1>0, <1>1, <1>2, <1>3, <1>4, KeptWords
  <2> QED
    BY <2>1 DEF Kept
<1>6. m.unused = {x \in DOMAIN m.cell : m.cell[x].requested = 0} /\ m.used = DOMAIN m.cell \ m.unused
  BY <1>0, <1>1, <1>3 DEF Rings
<1>7. ASSUME NEW x \in m.unused, NEW y \in m.unused PROVE ~Adjacent(m, x, y)
  <2>1. x \in h.unused /\ y \in h.unused /\ ~Adjacent(h, x, y) /\ x # c /\ y # c
        /\ x \in DOMAIN h.cell /\ y \in DOMAIN h.cell
    BY <1>0, <1>1 DEF Sound, Apart
  <2>2. To(m, x) = To(h, x) /\ BlockOf(m, x) = BlockOf(h, x) /\ BlockOf(m, y) = BlockOf(h, y)
    BY <1>0, <1>1, <1>3, <2>1 DEF To, BlockOf
  <2>3. CASE y # other
    <3>1. From(m, y) = From(h, y)
      BY <1>1, <2>1, <2>3 DEF From
    <3> QED
      BY <2>1, <2>2, <3>1 DEF Adjacent
  <2>4. CASE y = other
    <3>1. SUFFICES ASSUME Adjacent(m, x, other) PROVE FALSE
      BY <2>4
    <3>2. BlockOf(m, c) = BlockOf(m, other) /\ To(m, c) = From(m, other)
      <4>1. h.cell[other].words = h.cell[c].words + h.cell[c].n_words
            /\ h.cell[other].block = h.cell[c].block
        BY DEF Adjacent, To, From, BlockOf
      <4> QED
        BY <1>0, <1>1, <4>1 DEF BlockOf, To, From
    <3>3. To(m, x) = To(m, c) /\ BlockOf(m, x) = BlockOf(m, c) /\ x # c /\ x \in DOMAIN m.cell
          /\ c \in DOMAIN m.cell
      BY <1>0, <1>1, <2>1, <3>1, <3>2 DEF Adjacent
    <3>4. Typed(m) /\ Tiled(m)
      BY <1>2 DEF Laid
    <3>5. To(m, x) - 1 \in Ends(m, x) /\ To(m, c) - 1 \in Ends(m, c)
      BY <3>3, <3>4, CellEnds
    <3> QED
      BY <3>3, <3>4, <3>5, CellWords
  <2> QED
    BY <2>3, <2>4
<1>8. Counted(m)
  BY <1>1, <1>5, SameCounts
<1> QED
  BY <1>1, <1>2, <1>5, <1>6, <1>7, <1>8 DEF Same, Sound, Rings, Apart, m

\* One round of growing changes no word that a user sees.
LEMMA GrowSame ==
  ASSUME NEW h, Sound(h), NEW c \in h.used, NEW n \in Nat
  PROVE  Same(h, Grow(h, c, n))
<1> DEFINE other == NeighborAfter(h, c)
           missing == n - h.cell[c].n_words
<1>0. Laid(h) /\ Typed(h) /\ c \in DOMAIN h.cell /\ WASTE \in Nat \ {0}
  BY InUse, HeapAssumption DEF Sound, Laid
<1>1. h.cell[c].n_words \in Nat
  BY <1>0, CellTypes
<1>2. CASE missing <= 0 \/ ~IsUnused(h, other)
  BY <1>2, SameSame DEF Grow
<1>3. CASE ~(missing <= 0 \/ ~IsUnused(h, other))
  <2>1. other \in DOMAIN h.cell /\ Adjacent(h, c, other) /\ h.cell[other].requested = 0
    BY <1>0, <1>3, After DEF IsUnused
  <2>2. other \in h.unused /\ h.cell[other].n_words \in Nat
    BY <1>0, <2>1, CellTypes DEF Sound, Rings
  <2>3. CASE missing + WASTE >= h.cell[other].n_words
    <3>1. Grow(h, c, n) = MergeCells(h, c, other, h.cell[c].words)
      BY <1>3, <2>3 DEF Grow
    <3> HIDE DEF other
    <3> QED
      BY <2>1, <2>2, <3>1, GrowMerge
  <2>4. CASE ~(missing + WASTE >= h.cell[other].n_words)
    <3>1. Grow(h, c, n) = Steal(h, c, other, missing)
      BY <1>3, <2>4 DEF Grow
    <3> HIDE DEF other
    <3>2. missing \in Nat /\ missing + 2 <= h.cell[other].n_words
      BY <1>0, <1>1, <1>3, <2>2, <2>4
    <3> HIDE DEF missing
    <3> QED
      BY <2>1, <2>2, <3>1, <3>2, GrowSteal
  <2> QED
    BY <2>3, <2>4
<1> QED
  BY <1>2, <1>3

\* Nor do two.
LEMMA GrowCellSame ==
  ASSUME NEW h, Sound(h), NEW c \in h.used, NEW n \in Nat
  PROVE  Same(h, GrowCell(h, c, n))
<1> DEFINE g == Grow(h, c, n)
<1>1. Same(h, g)
  BY GrowSame
<1>2. Same(g, Grow(g, c, n))
  <2>1. Sound(g) /\ c \in g.used
    BY <1>1 DEF Same
  <2> HIDE DEF g
  <2> QED
    BY <2>1, GrowSame
<1> HIDE DEF g
<1>3. Same(h, Grow(g, c, n))
  BY <1>1, <1>2, SameChain
<1> QED
  BY <1>3 DEF GrowCell, g

---------------------------------------------------------------------------
(* Data is found in buffers only.                                           *)

Words(h, c) == (h.cell[c].words + 1)..(h.cell[c].words + h.cell[c].requested)

Private(h) ==
  \A b \in DOMAIN h.mem : \A w \in DOMAIN h.mem[b] :
    IsData(h.mem[b][w]) => \E c \in h.used : h.cell[c].block = b /\ w \in Words(h, c)

\* The words of a buffer are inside its cell.
LEMMA WordsInside ==
  ASSUME NEW h, Laid(h), NEW c \in DOMAIN h.cell
  PROVE  /\ Words(h, c) \subseteq Inside(h, c)
         /\ h.cell[c].words \in Nat /\ h.cell[c].requested \in Nat
         /\ h.cell[c].block = BlockOf(h, c)
         /\ h.cell[c].block \in DOMAIN h.block /\ h.cell[c].block \in DOMAIN h.mem
         /\ Inside(h, c) \subseteq DOMAIN h.mem[h.cell[c].block]
<1>1. Typed(h) /\ Tiled(h)
  BY DEF Laid
<1>2. /\ h.cell[c].words \in Nat /\ h.cell[c].requested \in Nat /\ h.cell[c].n_words \in Nat
      /\ h.cell[c].requested + 2 <= h.cell[c].n_words
      /\ BlockOf(h, c) \in DOMAIN h.mem /\ BlockOf(h, c) \in DOMAIN h.block
      /\ Inside(h, c) \subseteq DOMAIN h.mem[BlockOf(h, c)]
  BY <1>1, CellTypes, CellWords DEF Tiled
<1>3. Words(h, c) \subseteq Inside(h, c)
  BY <1>2 DEF Words, Inside, From, To
<1> QED
  BY <1>2, <1>3 DEF BlockOf

\* A kept cell has its words at the same place.
LEMMA KeptWhere ==
  ASSUME NEW h, Laid(h), NEW m, Laid(m), NEW c \in DOMAIN h.cell, Kept(h, m, {c})
  PROVE  /\ c \in DOMAIN m.cell /\ m.cell[c].block = h.cell[c].block
         /\ m.cell[c].words = h.cell[c].words /\ Words(m, c) = Words(h, c)
<1>1. /\ c \in DOMAIN m.cell /\ Address(m, c) = Address(h, c)
      /\ m.cell[c].requested = h.cell[c].requested
  BY DEF Kept
<1>2. m.cell[c].words \in Nat /\ h.cell[c].words \in Nat
  BY <1>1, WordsInside
<1>3. m.cell[c].words + 1 = h.cell[c].words + 1 /\ m.cell[c].block = h.cell[c].block
  BY <1>1 DEF Address
<1> QED
  BY <1>1, <1>2, <1>3 DEF Words

\* Without new data, memory stays private when the buffer that goes is erased.
LEMMA PrivateLost ==
  ASSUME NEW h, Sound(h), Private(h), NEW m, Sound(m), NEW c \in h.used,
         h.used \ {c} \subseteq m.used, Kept(h, m, h.used \ {c}), NoNewData(h, m), Erased(h, m, c)
  PROVE  Private(m)
<1>1. SUFFICES ASSUME NEW b \in DOMAIN m.mem, NEW w \in DOMAIN m.mem[b], IsData(m.mem[b][w])
               PROVE  \E d \in m.used : m.cell[d].block = b /\ w \in Words(m, d)
  BY DEF Private
<1>2. b \in DOMAIN h.mem /\ w \in DOMAIN h.mem[b] /\ IsData(h.mem[b][w])
  BY <1>1 DEF NoNewData
<1>3. PICK d \in h.used : h.cell[d].block = b /\ w \in Words(h, d)
  BY <1>2 DEF Private
<1>4. d \in DOMAIN h.cell /\ h.cell[d].words \in Nat /\ h.cell[d].requested \in Nat
      /\ Laid(h) /\ Laid(m)
  BY InUse, WordsInside DEF Sound
<1>5. CASE d = c
  <2>1. w - h.cell[c].words \in 1..h.cell[c].requested
        /\ h.cell[c].words + (w - h.cell[c].words) = w
    BY <1>3, <1>4, <1>5 DEF Words
  <2> QED
    BY <1>1, <1>3, <1>5, <2>1 DEF Erased
<1>6. CASE d # c
  <2>1. Kept(h, m, {d}) /\ d \in m.used
    BY <1>6 DEF Kept
  <2> QED
    BY <1>3, <1>4, <2>1, KeptWhere
<1> QED
  BY <1>5, <1>6

\* It stays private when all used cells are kept and no data is added.
LEMMA PrivateSame ==
  ASSUME NEW h, Sound(h), Private(h), NEW m, Sound(m), h.used \subseteq m.used,
         Kept(h, m, h.used), NoNewData(h, m)
  PROVE  Private(m)
<1>1. SUFFICES ASSUME NEW b \in DOMAIN m.mem, NEW w \in DOMAIN m.mem[b], IsData(m.mem[b][w])
               PROVE  \E d \in m.used : m.cell[d].block = b /\ w \in Words(m, d)
  BY DEF Private
<1>2. b \in DOMAIN h.mem /\ w \in DOMAIN h.mem[b] /\ IsData(h.mem[b][w])
  BY <1>1 DEF NoNewData
<1>3. PICK d \in h.used : h.cell[d].block = b /\ w \in Words(h, d)
  BY <1>2 DEF Private
<1>4. d \in DOMAIN h.cell /\ Laid(h) /\ Laid(m) /\ Kept(h, m, {d}) /\ d \in m.used
  BY InUse DEF Sound, Kept
<1> QED
  BY <1>3, <1>4, KeptWhere

\* Data inside a cell is in the buffer the cell holds.
LEMMA PrivateInside ==
  ASSUME NEW h, Sound(h), Private(h), NEW c \in h.used, NEW w \in Inside(h, c),
         IsData(h.mem[h.cell[c].block][w])
  PROVE  w \in Words(h, c)
<1>1. Laid(h) /\ Typed(h) /\ Tiled(h) /\ c \in DOMAIN h.cell
  BY InUse DEF Sound, Laid
<1>2. h.cell[c].block \in DOMAIN h.mem /\ w \in DOMAIN h.mem[h.cell[c].block]
  BY <1>1, WordsInside
<1>3. PICK d \in h.used : h.cell[d].block = h.cell[c].block /\ w \in Words(h, d)
  BY <1>2 DEF Private
<1>4. d \in DOMAIN h.cell /\ w \in Inside(h, d)
  BY <1>1, <1>3, InUse, WordsInside
<1>5. d = c
  BY <1>1, <1>3, <1>4, CellWords DEF BlockOf
<1> QED
  BY <1>3, <1>5

\* A change inside the cell of a buffer, or of the buffer's length.
LEMMA TouchSound ==
  ASSUME NEW h, Sound(h), NEW c \in h.used, NEW m, Touch(h, m, c),
         m.used = h.used, m.unused = h.unused, m.block = h.block, m.cell[c].requested # 0
  PROVE  /\ Sound(m) /\ Address(m, c) = Address(h, c) /\ Kept(h, m, h.used \ {c})
         /\ View(m) = [View(h) EXCEPT ![Address(h, c)] = Content(m, c)]
<1>0. /\ Laid(h) /\ c \in DOMAIN h.cell /\ h.cell[c].requested # 0 /\ Rings(h) /\ Apart(h)
      /\ h.used \subseteq DOMAIN h.cell
  BY InUse DEF Sound
<1>1. /\ Laid(m) /\ Address(m, c) = Address(h, c)
      /\ Kept(h, m, DOMAIN h.cell \ {c})
      /\ \A d, e \in DOMAIN h.cell : Adjacent(m, d, e) <=> Adjacent(h, d, e)
      /\ \A b \in DOMAIN h.block : CellsOf(m, b) = CellsOf(h, b)
  BY <1>0, TouchLaid
<1>2. DOMAIN m.cell = DOMAIN h.cell /\ \A d \in DOMAIN h.cell \ {c} : m.cell[d] = h.cell[d]
  BY DEF Touch
<1>3. m.unused = {x \in DOMAIN m.cell : m.cell[x].requested = 0} /\ m.used = DOMAIN m.cell \ m.unused
  BY <1>0, <1>2 DEF Rings
<1>4. Counted(m)
  BY <1>0, <1>1 DEF Counted, Rings
<1>5. Apart(m)
  BY <1>0, <1>1, <1>2, <1>3 DEF Apart
<1>6. Kept(h, m, h.used \ {c})
  BY <1>0, <1>1 DEF Kept
<1>7. View(m) = [View(h) EXCEPT ![Address(h, c)] = Content(m, c)]
  BY <1>0, <1>1, <1>2, <1>6, SetView
<1> QED
  BY <1>1, <1>3, <1>4, <1>5, <1>6, <1>7 DEF Sound, Rings

\* It stays private when data is written into a buffer only.
LEMMA TouchPrivate ==
  ASSUME NEW h, Sound(h), Private(h), NEW c \in h.used, NEW m, Touch(h, m, c), m.used = h.used,
         \A w \in Inside(h, c) : IsData(m.mem[h.cell[c].block][w]) => w \in Words(m, c)
  PROVE  Private(m)
<1>0. Laid(h) /\ c \in DOMAIN h.cell /\ h.cell[c].block = BlockOf(h, c)
  BY InUse DEF Sound, BlockOf
<1>1. SUFFICES ASSUME NEW b \in DOMAIN m.mem, NEW w \in DOMAIN m.mem[b], IsData(m.mem[b][w])
               PROVE  \E d \in m.used : m.cell[d].block = b /\ w \in Words(m, d)
  BY DEF Private
<1>2. CASE b = h.cell[c].block /\ w \in Inside(h, c)
  BY <1>1, <1>2 DEF Touch
<1>3. CASE ~(b = h.cell[c].block /\ w \in Inside(h, c))
  <2>1. b \in DOMAIN h.mem /\ w \in DOMAIN h.mem[b] /\ m.mem[b][w] = h.mem[b][w]
    BY <1>0, <1>3 DEF Touch
  <2>2. PICK d \in h.used : h.cell[d].block = b /\ w \in Words(h, d)
    BY <1>1, <2>1 DEF Private
  <2>3. d # c /\ d \in DOMAIN h.cell
    BY <1>0, <1>3, <2>2, InUse, WordsInside
  <2>4. m.cell[d] = h.cell[d]
    BY <2>3 DEF Touch
  <2> QED
    BY <2>2, <2>4 DEF Words
<1> QED
  BY <1>2, <1>3

\* The words both lengths have are kept, and the others hold nobody's data.
ResizedTo(x, y, length) ==
  /\ DOMAIN y = 1..length
  /\ \A i \in DOMAIN x \cap DOMAIN y : y[i] = x[i]
  /\ \A i \in DOMAIN y : IsData(y[i]) => i \in DOMAIN x

\* A buffer that is resized in place keeps the words both sizes have.
LEMMA InPlace ==
  ASSUME NEW h, Sound(h), Private(h), NEW c \in h.used, NEW m, Touch(h, m, c),
         m.used = h.used, m.unused = h.unused, m.block = h.block,
         NEW length \in Nat \ {0}, m.cell[c].requested = length, NoNewData(h, m),
         \A i \in 1..h.cell[c].requested :
           LET w == h.cell[c].words + i
               b == h.cell[c].block IN
           IF i <= length THEN m.mem[b][w] = h.mem[b][w] ELSE ~IsData(m.mem[b][w])
  PROVE  /\ Sound(m) /\ Private(m) /\ Address(m, c) = Address(h, c)
         /\ View(m) = [View(h) EXCEPT ![Address(h, c)] = Content(m, c)]
         /\ ResizedTo(Content(h, c), Content(m, c), length)
<1> DEFINE b == h.cell[c].block
<1>0. /\ Laid(h) /\ c \in DOMAIN h.cell /\ h.cell[c].words \in Nat /\ h.cell[c].requested \in Nat
      /\ b \in DOMAIN h.mem
      /\ m.cell[c].block = b /\ m.cell[c].words = h.cell[c].words /\ m.cell[c].n_words = h.cell[c].n_words
      /\ DOMAIN m.mem = DOMAIN h.mem /\ DOMAIN m.mem[b] = DOMAIN h.mem[b]
      /\ c \in DOMAIN m.cell
  BY InUse, WordsInside DEF Sound, Touch
<1>1. /\ Sound(m) /\ Address(m, c) = Address(h, c)
      /\ View(m) = [View(h) EXCEPT ![Address(h, c)] = Content(m, c)]
  BY TouchSound
<1>2. Inside(m, c) = Inside(h, c) /\ Inside(h, c) \subseteq DOMAIN h.mem[b]
  BY <1>0, WordsInside DEF Inside, From, To
<1>3. Words(m, c) = (h.cell[c].words + 1)..(h.cell[c].words + length)
      /\ Words(h, c) = (h.cell[c].words + 1)..(h.cell[c].words + h.cell[c].requested)
      /\ Words(m, c) \subseteq Inside(h, c)
  BY <1>0, <1>1, <1>2, WordsInside DEF Words, Sound
<1>4. ASSUME NEW w \in Inside(h, c), IsData(m.mem[b][w])
      PROVE  w \in Words(m, c) /\ w \in Words(h, c)
  <2>1. IsData(h.mem[b][w])
    BY <1>0, <1>2, <1>4 DEF NoNewData
  <2>2. w \in Words(h, c)
    BY <2>1, PrivateInside
  <2>3. w - h.cell[c].words \in 1..h.cell[c].requested
        /\ h.cell[c].words + (w - h.cell[c].words) = w
    BY <1>0, <1>3, <2>2
  <2>4. w - h.cell[c].words <= length
    BY <1>4, <2>3
  <2> QED
    BY <1>0, <1>3, <2>2, <2>3, <2>4
<1>5. Private(m)
  BY <1>4, TouchPrivate
<1>6. ResizedTo(Content(h, c), Content(m, c), length)
  <2>1. Content(h, c) = [i \in 1..h.cell[c].requested |-> h.mem[b][h.cell[c].words + i]]
        /\ Content(m, c) = [i \in 1..length |-> m.mem[b][h.cell[c].words + i]]
    BY <1>0 DEF Content
  <2>2. ASSUME NEW i \in 1..length, IsData(m.mem[b][h.cell[c].words + i])
        PROVE  i \in 1..h.cell[c].requested
    <3>1. h.cell[c].words + i \in Inside(h, c)
      BY <1>0, <1>3
    <3>2. h.cell[c].words + i \in Words(h, c)
      BY <1>4, <2>2, <3>1
    <3> QED
      BY <1>0, <1>3, <3>2
  <2> DEFINE x == Content(h, c)
             y == Content(m, c)
             F(i) == h.mem[b][h.cell[c].words + i]
             G(i) == m.mem[b][h.cell[c].words + i]
  <2>3. /\ DOMAIN x = 1..h.cell[c].requested /\ DOMAIN y = 1..length
        /\ \A i \in DOMAIN x : x[i] = F(i)
        /\ \A i \in DOMAIN y : y[i] = G(i)
    BY <2>1
  <2>4. \A i \in 1..h.cell[c].requested : i <= length => G(i) = F(i)
    OBVIOUS
  <2>5. \A i \in 1..length : IsData(G(i)) => i \in 1..h.cell[c].requested
    BY <2>2
  <2> HIDE DEF x, y, F, G
  <2>6. ResizedTo(x, y, length)
    BY <2>3, <2>4, <2>5 DEF ResizedTo
  <2> QED
    BY <2>6 DEF x, y
<1> QED
  BY <1>1, <1>5, <1>6

\* From h to m the buffer at p becomes one at q, of this length.
Rewritten(h, m, p, q, length) ==
  /\ Sound(m) /\ Private(m) /\ BlocksKept(h, m)
  /\ p \in DOMAIN View(h) /\ q \in DOMAIN View(m) /\ q \notin DOMAIN View(h) \ {p}
  /\ View(m) = With(Without(View(h), {p}), q, View(m)[q])
  /\ ResizedTo(View(h)[p], View(m)[q], length)

\* In m the words W of block b hold the value; the rest of the heap is that of h.
PutAt(h, m, b, W, value) ==
  /\ Fields(m) /\ m.block = h.block /\ m.cell = h.cell /\ m.unused = h.unused /\ m.used = h.used
  /\ DOMAIN m.mem = DOMAIN h.mem
  /\ \A x \in DOMAIN h.mem : DOMAIN m.mem[x] = DOMAIN h.mem[x]
  /\ \A x \in DOMAIN h.mem : \A w \in DOMAIN h.mem[x] :
       m.mem[x][w] = IF x = b /\ w \in W THEN value ELSE h.mem[x][w]

\* Put, field by field.
LEMMA PutIsPutAt ==
  ASSUME NEW h, Fields(h), NEW b \in DOMAIN h.mem, NEW W, NEW value, NEW m, m = Put(h, b, W, value)
  PROVE  PutAt(h, m, b, W, value)
BY PutFields DEF PutAt

\* The words of the buffer in cell c up to length are the same in h and m, and those
\* beyond it hold no data in m.
KeptUpTo(h, m, c, length) ==
  \A i \in 1..h.cell[c].requested :
    LET w == h.cell[c].words + i
        b == h.cell[c].block IN
    IF i <= length THEN m.mem[b][w] = h.mem[b][w] ELSE ~IsData(m.mem[b][w])

\* Seen through addresses, that buffer is rewritten.
LEMMA InPlaceRewritten ==
  ASSUME NEW h, Sound(h), Private(h), NEW c \in h.used, NEW m, Touch(h, m, c),
         m.used = h.used, m.unused = h.unused, m.block = h.block,
         NEW length \in Nat \ {0}, m.cell[c].requested = length, NoNewData(h, m),
         KeptUpTo(h, m, c, length)
  PROVE  Rewritten(h, m, Address(h, c), Address(m, c), length) /\ c \in m.used /\ m.block = h.block
         /\ m.cell[c].block = h.cell[c].block
<1> DEFINE p == Address(h, c)
<1>1. /\ Sound(m) /\ Private(m) /\ Address(m, c) = p
      /\ View(m) = [View(h) EXCEPT ![p] = Content(m, c)]
      /\ ResizedTo(Content(h, c), Content(m, c), length)
  BY InPlace DEF KeptUpTo
<1>2. p \in DOMAIN View(h) /\ View(h)[p] = Content(h, c)
  <2>1. Laid(h) /\ h.used \subseteq DOMAIN h.cell
    BY InUse DEF Sound
  <2> QED
    BY <2>1, ViewAt
<1>3. View(h) = [x \in DOMAIN View(h) |-> View(h)[x]]
  BY DEF View
<1> HIDE DEF p
<1>4. View(m)[p] = Content(m, c) /\ p \in DOMAIN View(m)
  BY <1>1, <1>2
<1>5. View(m) = With(Without(View(h), {p}), p, View(m)[p])
  BY <1>1, <1>2, <1>3, <1>4 DEF With, Without
<1>6. BlocksKept(h, m)
  BY DEF BlocksKept
<1>7. Rewritten(h, m, p, p, length)
  BY <1>1, <1>2, <1>4, <1>5, <1>6 DEF Rewritten
<1>8. m.cell[c].block = h.cell[c].block
  BY DEF Touch
<1> QED
  BY <1>1, <1>7, <1>8 DEF p

\* The cell is long enough: only the length changes, and the words that leave or enter
\* the buffer are cleared.
LEMMA ResizeOnly ==
  ASSUME NEW h, Sound(h), Private(h), NEW c \in h.used, NEW length \in Nat \ {0},
         length + 2 <= h.cell[c].n_words, h.cell[c].requested <= length
  PROVE  LET m == [h EXCEPT !.cell[c].requested = length] IN
         Rewritten(h, m, Address(h, c), Address(m, c), length) /\ c \in m.used /\ m.block = h.block
         /\ m.cell[c].block = h.cell[c].block
<1> DEFINE m == [h EXCEPT !.cell[c].requested = length]
<1>0. /\ Laid(h) /\ Typed(h) /\ Fields(h) /\ c \in DOMAIN h.cell /\ h.cell[c] \in CellType(h)
      /\ h.cell[c].requested \in Nat
      /\ \A x \in DOMAIN h.block : h.block[x] \in [n_words : Nat, n_used : Nat]
  BY InUse, CellTypes DEF Sound, Laid, Typed
<1>1. /\ Fields(m) /\ m.block = h.block /\ m.unused = h.unused /\ m.used = h.used /\ m.mem = h.mem
      /\ DOMAIN m.cell = DOMAIN h.cell
      /\ m.cell[c] = [block |-> h.cell[c].block, words |-> h.cell[c].words,
                      n_words |-> h.cell[c].n_words, requested |-> length]
      /\ \A x \in DOMAIN h.cell \ {c} : m.cell[x] = h.cell[x]
  BY <1>0 DEF Fields, CellType
<1> HIDE DEF m
<1>2. Touch(h, m, c)
  BY <1>0, <1>1 DEF Touch, CellType
<1>3. NoNewData(h, m)
  BY <1>1 DEF NoNewData
<1>4. \A i \in 1..h.cell[c].requested : i <= length
  BY <1>0
<1>5. m.cell[c].requested = length
  BY <1>1
<1>6. KeptUpTo(h, m, c, length)
  BY <1>1, <1>4 DEF KeptUpTo
<1>7. Rewritten(h, m, Address(h, c), Address(m, c), length) /\ c \in m.used /\ m.block = h.block
      /\ m.cell[c].block = h.cell[c].block
  BY <1>1, <1>2, <1>3, <1>5, <1>6, InPlaceRewritten
<1> QED
  BY <1>7 DEF m

\* sec_realloc in place: the words beyond the smaller size are cleared.
LEMMA ResizeClear ==
  ASSUME NEW h, Sound(h), Private(h), NEW c \in h.used, NEW length \in Nat \ {0},
         length + 2 <= h.cell[c].n_words, NEW from, NEW to,
         \/ from = length /\ to = h.cell[c].requested /\ from <= to
         \/ from = h.cell[c].requested /\ to = length /\ from <= to,
         NEW m, m = Clear([h EXCEPT !.cell[c].requested = length], c, from, to)
  PROVE  Rewritten(h, m, Address(h, c), Address(m, c), length) /\ c \in m.used /\ m.block = h.block
         /\ m.cell[c].block = h.cell[c].block
<1> DEFINE g == [h EXCEPT !.cell[c].requested = length]
           b == h.cell[c].block
           W == (h.cell[c].words + 1 + from)..((h.cell[c].words + 1 + to) - 1)
<1>m. m = Clear(g, c, from, to)
  OBVIOUS
<1>0. /\ Laid(h) /\ Typed(h) /\ Tiled(h) /\ Fields(h) /\ c \in DOMAIN h.cell /\ h.cell[c] \in CellType(h)
      /\ h.cell[c].requested \in Nat /\ h.cell[c].words \in Nat /\ h.cell[c].n_words \in Nat
      /\ h.cell[c].requested + 2 <= h.cell[c].n_words
      /\ \A x \in DOMAIN h.block : h.block[x] \in [n_words : Nat, n_used : Nat]
  BY InUse, CellTypes DEF Sound, Laid, Typed, Tiled
<1>1. /\ Fields(g) /\ g.block = h.block /\ g.unused = h.unused /\ g.used = h.used /\ g.mem = h.mem
      /\ DOMAIN g.cell = DOMAIN h.cell
      /\ g.cell[c] = [block |-> h.cell[c].block, words |-> h.cell[c].words,
                      n_words |-> h.cell[c].n_words, requested |-> length]
      /\ \A x \in DOMAIN h.cell \ {c} : g.cell[x] = h.cell[x]
  BY <1>0 DEF Fields, CellType
<1> HIDE DEF g
<1>2. m = Put(g, b, W, Zero)
  <2>1. m = Put(g, g.cell[c].block, (g.cell[c].words + 1 + from)..((g.cell[c].words + 1 + to) - 1), Zero)
    BY <1>m, Zenon DEF Clear, Fill
  <2> QED
    BY <1>1, <2>1
<1>3. b \in DOMAIN h.mem /\ b = BlockOf(h, c)
  BY <1>0, WordsInside
<1>4. W \subseteq Inside(h, c)
  BY <1>0 DEF Inside, From, To
<1>5. \A i \in 1..h.cell[c].requested :
        IF i <= length THEN h.cell[c].words + i \notin W ELSE h.cell[c].words + i \in W
  BY <1>0
<1> HIDE DEF W
<1>6. /\ Fields(m) /\ m.block = h.block /\ m.cell = g.cell /\ m.unused = h.unused /\ m.used = h.used
      /\ DOMAIN m.mem = DOMAIN h.mem
      /\ \A x \in DOMAIN h.mem : DOMAIN m.mem[x] = DOMAIN h.mem[x]
      /\ \A x \in DOMAIN h.mem : \A w \in DOMAIN h.mem[x] :
           m.mem[x][w] = IF x = b /\ w \in W THEN Zero ELSE h.mem[x][w]
  <2>1. Fields(g) /\ b \in DOMAIN g.mem
    BY <1>1, <1>3
  <2>p. m = Put(g, b, W, Zero)
    BY <1>2
  <2> HIDE DEF b
  <2>2. PutAt(g, m, b, W, Zero)
    BY <2>p, <2>1, PutIsPutAt
  <2> QED
    BY <1>1, <2>2 DEF PutAt
<1>7. Touch(h, m, c)
  <2>1. m.cell[c] \in CellType(h)
    BY <1>0, <1>1, <1>6 DEF CellType
  <2> QED
    BY <1>0, <1>1, <1>3, <1>4, <1>6, <2>1 DEF Touch
<1>8. NoNewData(h, m)
  BY <1>6, NotData DEF NoNewData
<1>9. m.cell[c].requested = length
  BY <1>1, <1>6
<1>10. ASSUME NEW i \in 1..h.cell[c].requested
       PROVE  IF i <= length THEN m.mem[b][h.cell[c].words + i] = h.mem[b][h.cell[c].words + i]
              ELSE ~IsData(m.mem[b][h.cell[c].words + i])
  <2>1. h.cell[c].words + i \in DOMAIN h.mem[b]
    BY <1>0, BufferInside, WordsInside
  <2> QED
    BY <1>3, <1>5, <1>6, <2>1, NotData
<1>11. Rewritten(h, m, Address(h, c), Address(m, c), length) /\ c \in m.used /\ m.block = h.block
       /\ m.cell[c].block = h.cell[c].block
  <2>1. KeptUpTo(h, m, c, length)
    BY <1>10 DEF KeptUpTo
  <2> QED
    BY <1>6, <1>7, <1>8, <1>9, <2>1, InPlaceRewritten
<1> QED
  BY <1>11

\* The first n words of the buffer in cell c become those of the buffer in cell d.
Copied(h, m, c, d, n) ==
  /\ Sound(m) /\ Private(m) /\ m.used = h.used /\ m.block = h.block
  /\ Kept(h, m, h.used \ {c}) /\ m.cell = h.cell
  /\ View(m) = [View(h) EXCEPT ![Address(h, c)] =
                  [i \in DOMAIN Content(h, c) |->
                     IF i <= n THEN Content(h, d)[i] ELSE Content(h, c)[i]]]

\* memcpy from one buffer into the front of another.
LEMMA CopySound ==
  ASSUME NEW h, Sound(h), Private(h), NEW c \in h.used, NEW d \in h.used, NEW n \in Nat,
         n <= h.cell[c].requested, n <= h.cell[d].requested,
         NEW m, m = Copy(h, Address(h, d), Address(h, c), n)
  PROVE  Copied(h, m, c, d, n)
<1> DEFINE b == h.cell[c].block
           e == h.cell[d].block
           W == (h.cell[c].words + 1)..((h.cell[c].words + 1 + n) - 1)
<1>0. /\ Laid(h) /\ Typed(h) /\ Tiled(h) /\ Fields(h) /\ c \in DOMAIN h.cell /\ d \in DOMAIN h.cell
      /\ h.cell[c] \in CellType(h)
      /\ h.cell[c].requested \in Nat /\ h.cell[c].words \in Nat /\ h.cell[c].n_words \in Nat
      /\ h.cell[d].requested \in Nat /\ h.cell[d].words \in Nat
      /\ h.cell[c].requested + 2 <= h.cell[c].n_words /\ h.cell[c].requested # 0
      /\ b \in DOMAIN h.mem /\ b = BlockOf(h, c)
      /\ \A x \in DOMAIN h.block : h.block[x] \in [n_words : Nat, n_used : Nat]
  BY InUse, CellTypes, WordsInside DEF Sound, Laid, Typed, Tiled
<1>1. m = [h EXCEPT !.mem[b] = [w \in DOMAIN @ |->
              IF w \in (h.cell[c].words + 1)..(h.cell[c].words + 1 + n - 1)
              THEN h.mem[e][h.cell[d].words + 1 + w - (h.cell[c].words + 1)] ELSE @[w]]]
  BY DEF Copy, Address
<1>2. (h.cell[c].words + 1)..(h.cell[c].words + 1 + n - 1) = W
  <2>1. h.cell[c].words \in Nat
    BY <1>0
  <2>2. h.cell[c].words + 1 + n - 1 = (h.cell[c].words + 1 + n) - 1
    BY <2>1
  <2> QED
    BY <2>2
<1>3. /\ Fields(m) /\ m.block = h.block /\ m.cell = h.cell /\ m.unused = h.unused /\ m.used = h.used
      /\ DOMAIN m.mem = DOMAIN h.mem
      /\ \A x \in DOMAIN h.mem : DOMAIN m.mem[x] = DOMAIN h.mem[x]
      /\ \A x \in DOMAIN h.mem : \A w \in DOMAIN h.mem[x] :
           m.mem[x][w] = IF x = b /\ w \in W
                         THEN h.mem[e][h.cell[d].words + 1 + w - (h.cell[c].words + 1)]
                         ELSE h.mem[x][w]
  BY <1>0, <1>1, <1>2 DEF Fields
<1>4. W \subseteq Inside(h, c) /\ W \subseteq Words(h, c)
  BY <1>0 DEF Inside, From, To, Words
<1>5. \A i \in 1..h.cell[c].requested :
        /\ h.cell[c].words + i \in DOMAIN h.mem[b]
        /\ h.cell[c].words + i \in W <=> i <= n
  BY <1>0, BufferInside, WordsInside
<1> HIDE DEF W
<1>6. Touch(h, m, c)
  BY <1>0, <1>3, <1>4 DEF Touch
<1>7. /\ Sound(m) /\ Kept(h, m, h.used \ {c})
      /\ View(m) = [View(h) EXCEPT ![Address(h, c)] = Content(m, c)]
  <2>1. m.used = h.used /\ m.unused = h.unused /\ m.block = h.block /\ m.cell[c].requested # 0
    BY <1>0, <1>3
  <2> QED
    BY <1>6, <2>1, TouchSound
<1>8. Private(m)
  <2>1. ASSUME NEW w \in Inside(h, c), IsData(m.mem[b][w]) PROVE w \in Words(m, c)
    <3>1. Words(m, c) = Words(h, c) /\ w \in DOMAIN h.mem[b]
      BY <1>0, <1>3, WordsInside DEF Words
    <3>2. CASE w \in W
      BY <1>4, <3>1, <3>2
    <3>3. CASE w \notin W
      BY <1>0, <1>3, <2>1, <3>1, <3>3, PrivateInside
    <3> QED
      BY <3>2, <3>3
  <2> QED
    BY <1>3, <1>6, <2>1, TouchPrivate
<1>9. Content(m, c) = [i \in DOMAIN Content(h, c) |->
                         IF i <= n THEN Content(h, d)[i] ELSE Content(h, c)[i]]
  <2>1. ASSUME NEW i \in 1..h.cell[c].requested
        PROVE  m.mem[b][h.cell[c].words + i] =
                 IF i <= n THEN Content(h, d)[i] ELSE Content(h, c)[i]
    <3>1. CASE i <= n
      <4>1. h.cell[d].words + 1 + (h.cell[c].words + i) - (h.cell[c].words + 1) = h.cell[d].words + i
        BY <1>0
      <4>2. m.mem[b][h.cell[c].words + i] = h.mem[e][h.cell[d].words + i]
        BY <1>0, <1>3, <1>5, <3>1, <4>1
      <4>3. i \in 1..h.cell[d].requested
        BY <1>0, <3>1
      <4> QED
        BY <3>1, <4>2, <4>3 DEF Content
    <3>2. CASE ~(i <= n)
      BY <1>0, <1>3, <1>5, <3>2 DEF Content
    <3> QED
      BY <3>1, <3>2
  <2>2. Content(m, c) = [i \in 1..h.cell[c].requested |-> m.mem[b][h.cell[c].words + i]]
        /\ DOMAIN Content(h, c) = 1..h.cell[c].requested
    BY <1>3 DEF Content
  <2> QED
    BY <2>1, <2>2
<1> QED
  BY <1>3, <1>7, <1>8, <1>9 DEF Copied

\* From h to m nothing changes for the user.
Unseen(h, m) ==
  /\ Sound(m) /\ Private(m) /\ BlocksKept(h, m) /\ View(m) = View(h)

\* A heap with the same used cells and blocks has the same view;
LEMMA SameUnseen ==
  ASSUME NEW h, Sound(h), Private(h), NEW m, Same(h, m)
  PROVE  Unseen(h, m)
<1>1. Sound(m) /\ m.used = h.used /\ m.block = h.block /\ Kept(h, m, h.used) /\ NoNewData(h, m)
  BY DEF Same
<1>2. /\ Laid(h) /\ Laid(m) /\ h.used \subseteq DOMAIN h.cell /\ m.used \subseteq DOMAIN m.cell
  BY <1>1, InUse DEF Sound
<1>3. View(m) = View(h)
  BY <1>1, <1>2, SameView
<1>4. Private(m)
  BY <1>1, PrivateSame
<1> QED
  BY <1>1, <1>3, <1>4 DEF Unseen, BlocksKept

\* not being seen is transitive.
LEMMA UnseenChain ==
  ASSUME NEW h, NEW g, NEW m, NEW p, NEW q, NEW length, Unseen(h, g), Rewritten(g, m, p, q, length)
  PROVE  Rewritten(h, m, p, q, length)
BY BlocksChain DEF Unseen, Rewritten

\* What taking cell k for a buffer does to the view.
LEMMA GainedView ==
  ASSUME NEW h, Sound(h), Private(h), NEW m, NEW k, NEW length, Gained(h, m, k, length)
  PROVE  /\ Sound(m) /\ Private(m) /\ BlocksKept(h, m)
         /\ Address(m, k) \notin DOMAIN View(h)
         /\ View(m) = With(View(h), Address(m, k), Zeros(length))
<1>1. /\ Sound(m) /\ k \notin h.used /\ m.used = h.used \cup {k} /\ Kept(h, m, h.used)
      /\ Content(m, k) = Zeros(length) /\ NoNewData(h, m) /\ BlocksKept(h, m)
  BY DEF Gained
<1>2. /\ Laid(h) /\ Laid(m) /\ h.used \subseteq DOMAIN h.cell /\ m.used \subseteq DOMAIN m.cell
  BY <1>1, InUse DEF Sound
<1>3. /\ Address(m, k) \notin DOMAIN View(h)
      /\ View(m) = With(View(h), Address(m, k), Content(m, k))
  BY <1>1, <1>2, NewView
<1>4. Private(m)
  BY <1>1, PrivateSame
<1> QED
  BY <1>1, <1>3, <1>4

\* Freeing takes one buffer from the view.
LEMMA LostView ==
  ASSUME NEW h, Sound(h), Private(h), NEW c \in h.used, NEW m, Lost(h, m, c)
  PROVE  Sound(m) /\ Private(m) /\ View(m) = Without(View(h), {Address(h, c)})
<1>1. /\ Sound(m) /\ m.used = h.used \ {c} /\ Kept(h, m, h.used \ {c})
      /\ NoNewData(h, m) /\ Erased(h, m, c)
  BY DEF Lost
<1>2. /\ Laid(h) /\ Laid(m) /\ h.used \subseteq DOMAIN h.cell /\ m.used \subseteq DOMAIN m.cell
  BY <1>1, InUse DEF Sound
<1>3. View(m) = Without(View(h), {Address(h, c)})
  BY <1>1, <1>2, DropView
<1>4. Private(m)
  BY <1>1, PrivateLost
<1> QED
  BY <1>1, <1>3, <1>4

\* The buffer in cell c moves to cell k, which has just been taken for it.
LEMMA MoveSound ==
  ASSUME NEW h, Sound(h), Private(h), NEW c \in h.used, NEW length \in Nat \ {0},
         h.cell[c].requested <= length, NEW g, NEW k, Gained(h, g, k, length),
         g.cell[k].block = h.cell[c].block,
         NEW m, m = SecFree(Copy(g, Address(g, c), Address(g, k), h.cell[c].requested), c)
  PROVE  /\ Rewritten(h, m, Address(h, c), Address(m, k), length)
         /\ k \in m.used /\ m.cell[k].block = h.cell[c].block
<1> DEFINE valid == h.cell[c].requested
           p == Address(h, c)
           q == Address(g, k)
           f == Copy(g, Address(g, c), Address(g, k), valid)
<1>0. /\ Laid(h) /\ c \in DOMAIN h.cell /\ valid \in Nat /\ valid # 0
      /\ h.used \subseteq DOMAIN h.cell
  BY InUse, WordsInside DEF Sound
<1>1. /\ Sound(g) /\ k \in DOMAIN g.cell /\ k \notin h.used /\ g.used = h.used \cup {k}
      /\ Kept(h, g, h.used) /\ Content(g, k) = Zeros(length) /\ g.cell[k].requested = length
      /\ NoNewData(h, g) /\ BlocksKept(h, g) /\ DOMAIN g.block = DOMAIN h.block
  BY DEF Gained
<1>2. /\ Private(g) /\ q \notin DOMAIN View(h) /\ View(g) = With(View(h), q, Zeros(length))
  BY GainedView
<1>3. /\ c \in g.used /\ k \in g.used /\ g.cell[c].requested = valid /\ Address(g, c) = p
      /\ Content(g, c) = Content(h, c) /\ c # k /\ g.cell[c].block = h.cell[c].block
  BY <1>1 DEF Kept, Address
<1>4. /\ Sound(f) /\ Private(f) /\ f.used = g.used /\ f.block = g.block
      /\ Kept(g, f, g.used \ {k}) /\ f.cell = g.cell
      /\ View(f) = [View(g) EXCEPT ![q] = [i \in DOMAIN Content(g, k) |->
                       IF i <= valid THEN Content(g, c)[i] ELSE Content(g, k)[i]]]
  <2>1. valid \in Nat /\ valid <= g.cell[k].requested /\ valid <= g.cell[c].requested
    BY <1>0, <1>1, <1>3
  <2>2. f = Copy(g, Address(g, c), Address(g, k), valid)
    OBVIOUS
  <2> HIDE DEF valid, f
  <2>3. Copied(g, f, k, c, valid)
    BY <1>1, <1>2, <1>3, <2>1, <2>2, CopySound
  <2> QED
    BY <2>3 DEF Copied
<1>m. m = SecFree(f, c)
  OBVIOUS
<1> HIDE DEF f
<1>5. Freed(f, m, c) /\ c \in f.used
  BY <1>3, <1>4, <1>m, SecFreeSound
<1>6. Sound(m) /\ Private(m) /\ View(m) = Without(View(f), {Address(f, c)}) /\ m.used = f.used \ {c}
      /\ Kept(f, m, f.used \ {c})
  BY <1>4, <1>5, LostView DEF Freed, Lost
<1>7. Address(f, c) = p /\ Address(f, k) = q
  BY <1>3, <1>4 DEF Address
<1>8. k \in m.used /\ Address(m, k) = q /\ m.cell[k].block = h.cell[c].block /\ k \in f.used
  BY <1>1, <1>3, <1>4, <1>6, <1>7 DEF Kept, Address
<1>9. p \in DOMAIN View(h) /\ View(h)[p] = Content(h, c)
  BY <1>0, ViewAt
<1> DEFINE z == [i \in DOMAIN Content(g, k) |->
                   IF i <= valid THEN Content(g, c)[i] ELSE Content(g, k)[i]]
<1>10. ResizedTo(View(h)[p], z, length)
  <2>1. DOMAIN Content(h, c) = 1..valid /\ DOMAIN Content(g, k) = 1..length
    BY <1>1 DEF Content
  <2>2. \A i \in 1..length : Content(g, k)[i] = Zero
    BY <1>1 DEF Zeros
  <2> QED
    BY <1>0, <1>3, <1>9, <2>1, <2>2, NotData DEF ResizedTo
<1> HIDE DEF z, p, q, valid
<1>11. View(m) = With(Without(View(h), {p}), q, z) /\ View(m)[q] = z /\ q \in DOMAIN View(m)
  BY <1>2, <1>4, <1>6, <1>7, <1>9 DEF With, Without, z
<1>12. BlocksKept(h, m)
  <2> DEFINE b == h.cell[c].block
  <2>1. DOMAIN m.block = DOMAIN g.block /\ f.cell[c].block = b /\ b \in DOMAIN g.block
    BY <1>0, <1>1, <1>3, <1>4, <1>5, WordsInside DEF Freed
  <2>2. m.block[b].n_used # 0
    BY <1>6, <1>8, InUse
  <2>3. \A x \in DOMAIN g.block : m.block[x].n_words = g.block[x].n_words
                                 /\ (m.block[x].n_used = 0 => g.block[x].n_used = 0)
    BY <1>4, <1>5, <2>1, <2>2 DEF Freed
  <2>4. BlocksKept(g, m)
    BY <2>1, <2>3 DEF BlocksKept
  <2> QED
    BY <1>1, <2>4, BlocksChain
<1>13. Rewritten(h, m, p, q, length)
  BY <1>2, <1>6, <1>9, <1>10, <1>11, <1>12 DEF Rewritten
<1> QED
  BY <1>8, <1>13 DEF p, q, valid

\* sec_realloc gives the buffer its new length, where it is or in another cell, or leaves
\* it as it was.
LEMMA SecReallocSound ==
  ASSUME NEW h, Sound(h), Private(h), NEW c \in h.used, NEW length \in Nat \ {0},
         NEW r \in SecRealloc(h, c, length)
  PROVE  \/ /\ r.cell = None /\ Unseen(h, r.heap) /\ h.cell[c].requested < length
            /\ r.heap.block[h.cell[c].block].n_used # 0
         \/ /\ r.cell # None
            /\ Rewritten(h, r.heap, Address(h, c), Address(r.heap, r.cell), length)
            /\ Address(r.heap, r.cell).block = h.cell[c].block
            /\ r.heap.block[h.cell[c].block].n_used # 0
<1> DEFINE valid == h.cell[c].requested
           n == length + 2
           g == GrowCell(h, c, n)
           b == h.cell[c].block
<1>0. /\ Laid(h) /\ Typed(h) /\ c \in DOMAIN h.cell /\ valid \in Nat /\ valid # 0 /\ c # None
      /\ h.cell[c].n_words \in Nat /\ valid + 2 <= h.cell[c].n_words
      /\ b \in DOMAIN h.block
  <2>1. Laid(h) /\ Typed(h) /\ Tiled(h) /\ c \in DOMAIN h.cell /\ valid # 0 /\ b \in DOMAIN h.block
    BY InUse DEF Sound, Laid
  <2>2. c \in Items
    BY <2>1, CellTypes
  <2> QED
    BY <2>1, <2>2, CellTypes, HeapAssumption DEF Tiled, Items, None
<1>1. CASE n <= h.cell[c].n_words /\ length < valid
  <2> DEFINE m == Clear([h EXCEPT !.cell[c].requested = length], c, length, valid)
  <2>1. r = [heap |-> m, cell |-> c]
    BY <1>1 DEF SecRealloc
  <2>m. m = Clear([h EXCEPT !.cell[c].requested = length], c, length, valid)
    OBVIOUS
  <2> HIDE DEF m
  <2>2. /\ Rewritten(h, m, Address(h, c), Address(m, c), length) /\ c \in m.used /\ m.block = h.block
        /\ m.cell[c].block = b
    <3>1. length + 2 <= h.cell[c].n_words /\ length <= h.cell[c].requested
      BY <1>0, <1>1
    <3> QED
      BY <2>m, <3>1, ResizeClear
  <2> HIDE DEF m
  <2>3. Address(m, c).block = b /\ m.block[b].n_used # 0
    BY <2>2, InUse DEF Address
  <2> QED
    BY <1>0, <2>1, <2>2, <2>3
<1>2. CASE n <= h.cell[c].n_words /\ ~(length < valid)
  <2> DEFINE m == [h EXCEPT !.cell[c].requested = length]
  <2>1. r = [heap |-> m, cell |-> c]
    BY <1>2 DEF SecRealloc
  <2>2. /\ Rewritten(h, m, Address(h, c), Address(m, c), length) /\ c \in m.used /\ m.block = h.block
        /\ m.cell[c].block = b
    BY <1>0, <1>2, ResizeOnly
  <2> HIDE DEF m
  <2>3. Address(m, c).block = b /\ m.block[b].n_used # 0
    BY <2>2, InUse DEF Address
  <2> QED
    BY <1>0, <2>1, <2>2, <2>3
<1>3. ASSUME ~(n <= h.cell[c].n_words)
      PROVE  /\ valid < length /\ Same(h, g) /\ Unseen(h, g) /\ Sound(g) /\ Private(g) /\ c \in g.used
             /\ g.cell[c].requested = valid /\ Address(g, c) = Address(h, c) /\ g.cell[c].block = b
             /\ g.block = h.block
  <2>1. valid < length
    BY <1>0, <1>3
  <2>2. Same(h, g)
    BY GrowCellSame
  <2> HIDE DEF g
  <2>3. Unseen(h, g)
    BY <2>2, SameUnseen
  <2> QED
    BY <2>1, <2>2, <2>3 DEF Same, Unseen, Kept, Address
<1>4. CASE ~(n <= h.cell[c].n_words) /\ n <= g.cell[c].n_words
  <2> DEFINE m == Clear([g EXCEPT !.cell[c].requested = length], c, valid, length)
  <2>1. r = [heap |-> m, cell |-> c]
    BY <1>4 DEF SecRealloc
  <2> HIDE DEF g
  <2>m. m = Clear([g EXCEPT !.cell[c].requested = length], c, valid, length)
    OBVIOUS
  <2> HIDE DEF m
  <2>2. /\ Rewritten(g, m, Address(g, c), Address(m, c), length) /\ c \in m.used /\ m.block = g.block
        /\ m.cell[c].block = b
    <3>1. /\ length + 2 <= g.cell[c].n_words /\ valid = g.cell[c].requested /\ valid <= length
          /\ Sound(g) /\ Private(g) /\ c \in g.used
      BY <1>0, <1>3, <1>4
    <3> HIDE DEF valid
    <3>2. /\ Rewritten(g, m, Address(g, c), Address(m, c), length) /\ c \in m.used /\ m.block = g.block
          /\ m.cell[c].block = g.cell[c].block
      BY <2>m, <3>1, ResizeClear
    <3> QED
      BY <1>3, <1>4, <3>2
  <2> HIDE DEF m
  <2>3. Address(m, c).block = b /\ m.block[b].n_used # 0
    BY <1>3, <1>4, <2>2, InUse DEF Address
  <2>4. Rewritten(h, m, Address(h, c), Address(m, c), length)
    BY <1>3, <1>4, <2>2, UnseenChain
  <2> QED
    BY <1>0, <2>1, <2>3, <2>4
<1>5. CASE ~(n <= h.cell[c].n_words) /\ ~(n <= g.cell[c].n_words)
  <2>1. PICK s \in SecAlloc(g, b, length) :
          r = IF s.cell = None THEN s
              ELSE [heap |-> SecFree(Copy(s.heap, Address(s.heap, c), Address(s.heap, s.cell), valid), c),
                    cell |-> s.cell]
    BY <1>5 DEF SecRealloc
  <2> HIDE DEF g
  <2>2. CASE s.cell = None
    <3>1. s.heap = g /\ r = s
      BY <1>3, <1>5, <2>1, <2>2, SecAllocSound
    <3>2. g.block[b].n_used # 0
      BY <1>3, <1>5, InUse
    <3> QED
      BY <1>3, <1>5, <2>2, <3>1, <3>2
  <2>3. CASE s.cell # None
    <3> DEFINE m == SecFree(Copy(s.heap, Address(s.heap, c), Address(s.heap, s.cell), valid), c)
    <3>1. Gained(g, s.heap, s.cell, length) /\ s.heap.cell[s.cell].block = b
      BY <1>3, <1>5, <2>3, SecAllocSound
    <3>2. /\ Rewritten(g, m, Address(g, c), Address(m, s.cell), length)
          /\ s.cell \in m.used /\ m.cell[s.cell].block = b
      <4>1. g.cell[c].requested = valid /\ valid <= length
        BY <1>0, <1>3, <1>5
      <4> QED
        BY <1>3, <1>5, <3>1, <4>1, MoveSound
    <3>3. r = [heap |-> m, cell |-> s.cell]
      BY <2>1, <2>3
    <3> HIDE DEF m
    <3>4. Address(m, s.cell).block = b /\ m.block[b].n_used # 0
      BY <3>2, InUse DEF Address, Rewritten
    <3>5. Rewritten(h, m, Address(h, c), Address(m, s.cell), length)
      BY <1>3, <1>5, <3>2, UnseenChain
    <3> QED
      BY <2>3, <3>3, <3>4, <3>5
  <2> QED
    BY <2>2, <2>3
<1> QED
  BY <1>1, <1>2, <1>4, <1>5

---------------------------------------------------------------------------
(* Blocks.                                                                  *)

\* A block without a used cell goes with all of its cells.
ReleasedFrom(h, m, b) ==
  /\ Unseen(h, m) /\ m.used = h.used /\ Kept(h, m, h.used)
  /\ DOMAIN h.block \ {b} \subseteq DOMAIN m.block
  /\ b \in DOMAIN m.block => m.block[b].n_used # 0

\* sec_block_destroy takes an idle block and no buffer with it.
LEMMA BlockReleaseSound ==
  ASSUME NEW h, Sound(h), Private(h), NEW b \in DOMAIN h.block, NEW m, m = SecBlockRelease(h, b)
  PROVE  ReleasedFrom(h, m, b)
<1>0. /\ Laid(h) /\ Typed(h) /\ Tiled(h) /\ Guarded(h) /\ Rings(h) /\ Apart(h) /\ Fields(h)
      /\ \A x \in DOMAIN h.block : h.block[x] \in [n_words : Nat, n_used : Nat]
      /\ h.used \subseteq DOMAIN h.cell
  BY DEF Sound, Laid, Typed, Rings
<1>1. CASE h.block[b].n_used # 0
  <2>1. m = h
    BY <1>1 DEF SecBlockRelease
  <2> QED
    BY <1>0, <1>1, <2>1 DEF ReleasedFrom, Unseen, BlocksKept, Kept
<1>2. CASE h.block[b].n_used = 0
  <2> DEFINE S == CellsOf(h, b)
  <2>1. S \cap h.used = {}
    <3> DEFINE U == S \cap h.used
    <3>1. IsFiniteSet(U)
      BY <1>0, FiniteCells DEF CellsOf
    <3>2. Cardinality(U) = 0
      BY <1>0, <1>2 DEF Rings, Counted
    <3> HIDE DEF U
    <3>3. U = {}
      BY <3>1, <3>2, FS_EmptySet
    <3> QED
      BY <3>3 DEF U
  <2>2. m = [h EXCEPT !.block = Without(@, {b}), !.mem = Without(@, {b}),
                      !.cell = Without(@, S), !.unused = @ \ S]
    BY <1>2 DEF SecBlockRelease
  <2>3. /\ Fields(m) /\ m.used = h.used /\ m.unused = h.unused \ S
        /\ DOMAIN m.block = DOMAIN h.block \ {b} /\ DOMAIN m.mem = DOMAIN h.mem \ {b}
        /\ DOMAIN m.cell = DOMAIN h.cell \ S
        /\ \A x \in DOMAIN m.block : m.block[x] = h.block[x]
        /\ \A x \in DOMAIN m.mem : m.mem[x] = h.mem[x]
        /\ \A c \in DOMAIN m.cell : m.cell[c] = h.cell[c]
    BY <1>0, <2>2 DEF Fields, Without
  <2>4. \A c \in DOMAIN m.cell : c \in DOMAIN h.cell /\ h.cell[c].block \in DOMAIN m.block
    BY <1>0, <2>3, CellTypes DEF CellsOf, BlockOf
  <2> HIDE DEF S
  <2>5. Typed(m)
    <3>1. \A c \in DOMAIN m.cell : m.cell[c] \in CellType(m)
      BY <1>0, <2>3, <2>4 DEF Typed, CellType
    <3> QED
      BY <1>0, <2>3, <3>1 DEF Typed
  <2>6. Tiled(m)
    <3>1. \A c \in DOMAIN m.cell : From(m, c) = From(h, c) /\ To(m, c) = To(h, c)
                                   /\ BlockOf(m, c) = BlockOf(h, c)
      BY <2>3 DEF From, To, BlockOf
    <3>2. ASSUME NEW x \in DOMAIN m.block, NEW w \in 0..(m.block[x].n_words - 1)
          PROVE  \E c \in DOMAIN m.cell : BlockOf(m, c) = x /\ From(m, c) <= w /\ w < To(m, c)
      <4>1. PICK c \in DOMAIN h.cell : BlockOf(h, c) = x /\ From(h, c) <= w /\ w < To(h, c)
        BY <1>0, <2>3 DEF Tiled
      <4>2. c \in DOMAIN m.cell
        BY <2>3, <4>1 DEF S, CellsOf, BlockOf
      <4> QED
        BY <3>1, <4>1, <4>2
    <3>3. \A c \in DOMAIN m.cell : BlockOf(m, c) \in DOMAIN m.block
      BY <2>3, <2>4 DEF BlockOf
    <3>4. \A c \in DOMAIN m.cell :
            /\ m.cell[c].n_words >= 2
            /\ m.cell[c].requested + 2 <= m.cell[c].n_words
            /\ To(m, c) <= m.block[BlockOf(m, c)].n_words
      BY <1>0, <2>3, <2>4, <3>1, <3>3 DEF Tiled
    <3>5. \A c, d \in DOMAIN m.cell :
            c # d /\ BlockOf(m, c) = BlockOf(m, d) => To(m, c) <= From(m, d) \/ To(m, d) <= From(m, c)
      BY <1>0, <2>4, <3>1 DEF Tiled
    <3> QED
      BY <3>2, <3>4, <3>5 DEF Tiled
  <2>7. Guarded(m)
    <3>1. \A c \in DOMAIN m.cell : Ends(m, c) = Ends(h, c) /\ BlockOf(m, c) = BlockOf(h, c)
                                   /\ BlockOf(h, c) \in DOMAIN m.mem
      BY <2>3, <2>4, <2>5 DEF Ends, BlockOf, Typed
    <3> QED
      BY <1>0, <2>3, <2>4, <3>1 DEF Guarded
  <2>8. Rings(m)
    <3>1. m.unused = {c \in DOMAIN m.cell : m.cell[c].requested = 0}
      BY <1>0, <2>3 DEF Rings
    <3>2. m.used = DOMAIN m.cell \ m.unused
      BY <1>0, <2>1, <2>3 DEF Rings
    <3>3. \A x \in DOMAIN m.block : CellsOf(m, x) \cap m.used = CellsOf(h, x) \cap h.used
      BY <1>0, <2>1, <2>3 DEF CellsOf
    <3>4. Counted(m)
      BY <1>0, <2>3, <3>3 DEF Rings, Counted
    <3> QED
      BY <3>1, <3>2, <3>4 DEF Rings
  <2>9. Apart(m)
    BY <1>0, <2>3, <2>8 DEF Apart, Adjacent, BlockOf, From, To, Rings
  <2>10. Sound(m)
    BY <2>5, <2>6, <2>7, <2>8, <2>9 DEF Sound, Laid
  <2>11. Kept(h, m, h.used) /\ h.used \subseteq DOMAIN m.cell
    <3>1. h.used \subseteq DOMAIN m.cell
      BY <1>0, <2>1, <2>3
    <3>2. \A c \in h.used : h.cell[c].block \in DOMAIN m.mem
      BY <2>4, <2>5, <3>1 DEF Typed
    <3> QED
      BY <2>3, <3>1, <3>2 DEF Kept, Content, Address
  <2>12. NoNewData(h, m)
    BY <2>3 DEF NoNewData
  <2>13. Private(m) /\ View(m) = View(h)
    <3>1. Laid(m) /\ m.used \subseteq DOMAIN m.cell
      BY <2>3, <2>10, <2>11 DEF Sound
    <3> QED
      BY <1>0, <2>3, <2>10, <2>11, <2>12, <3>1, PrivateSame, SameView
  <2>14. BlocksKept(h, m)
    BY <2>3 DEF BlocksKept
  <2> QED
    BY <2>3, <2>10, <2>11, <2>13, <2>14 DEF ReleasedFrom, Unseen
<1>3. h.block[b].n_used \in Nat
  BY <1>0
<1> QED
  BY <1>1, <1>2

\* sec_block_create
LEMMA RoundedUp ==
  ASSUME NEW length \in Nat
  PROVE  BlockWords(length) \in Nat /\ BlockWords(length) >= 2
<1> DEFINE n == IF length < DefaultWords THEN DefaultWords ELSE length
           k == (n + PageWords - 1) \div PageWords
<1>1. PageWords \in Nat /\ PageWords >= 2 /\ DefaultWords \in Nat /\ DefaultWords >= 1
  BY HeapAssumption
<1>2. n \in Nat /\ n >= 1
  BY <1>1
<1> HIDE DEF n
<1>3. k \in Nat /\ k >= 1
  <2>1. (n + PageWords - 1) \in Nat /\ (n + PageWords - 1) >= PageWords
    BY <1>1, <1>2
  <2> QED
    BY <1>1, <2>1
<1> HIDE DEF k
<1>4. k * PageWords \in Nat /\ k * PageWords >= 2
  <2>1. \E j \in Nat : k = j + 1
    BY <1>3
  <2>2. PICK j \in Nat : k = j + 1
    BY <2>1
  <2>3. k * PageWords = j * PageWords + PageWords /\ j * PageWords \in Nat
    BY <1>1, <2>2
  <2> QED
    BY <1>1, <2>3
<1> QED
  BY <1>4 DEF BlockWords, RoundUp, k, n

\* From h to m a block of n words is made, with one cell over all of them.
Created(h, m, b, n) ==
  /\ Sound(m) /\ Private(m) /\ View(m) = View(h)
  /\ b \notin DOMAIN h.block /\ DOMAIN m.block = DOMAIN h.block \cup {b}
  /\ m.block[b] = [n_words |-> n, n_used |-> 0]
  /\ \A x \in DOMAIN h.block : m.block[x] = h.block[x]
  /\ \E c \in m.unused : m.cell[c].block = b /\ m.cell[c].n_words = n

\* An item that the pool gives was free.
LEMMA PoolAllocFree ==
  ASSUME NEW h, PoolFree(h) # {}
  PROVE  PoolAlloc(h) \in PoolFree(h)
BY DEF PoolAlloc

\* With two items in the pool there is one for the cell once the block has taken one.
LEMMA TwoItems ==
  ASSUME NEW h, Cardinality(PoolFree(h)) >= 2, NEW b \in PoolFree(h)
  PROVE  PoolFree(h) \ {b} # {}
<1>1. IsFiniteSet(PoolFree(h))
  <2>1. IsFiniteSet(Items)
    BY HeapAssumption, FS_Interval DEF Items
  <2> QED
    BY <2>1, FS_Subset DEF PoolFree
<1>2. SUFFICES ASSUME PoolFree(h) = {b} PROVE FALSE
  OBVIOUS
<1>3. Cardinality({b}) = 1
  BY FS_Singleton
<1> QED
  BY <1>2, <1>3

\* sec_block_create adds a block of one unused cell.
LEMMA CreateSound ==
  ASSUME NEW h, Sound(h), Private(h), Cardinality(PoolFree(h)) >= 2, NEW length \in Nat,
         NEW m, m = SecBlockCreate(h, length)
  PROVE  Created(h, m, PoolAlloc(h), BlockWords(length))
<1> DEFINE b == PoolAlloc(h)
           n == BlockWords(length)
           h1 == [h EXCEPT !.block = With(@, b, [n_words |-> n, n_used |-> 0]),
                           !.mem = With(@, b, [w \in 0..(n - 1) |-> Zero])]
           c == PoolAlloc(h1)
           k == [block |-> b, words |-> 0, n_words |-> n, requested |-> 0]
           g == [h1 EXCEPT !.cell = With(@, c, k), !.unused = @ \cup {c}]
<1>0. /\ Laid(h) /\ Typed(h) /\ Tiled(h) /\ Guarded(h) /\ Rings(h) /\ Apart(h) /\ Fields(h)
      /\ \A x \in DOMAIN h.block : h.block[x] \in [n_words : Nat, n_used : Nat]
      /\ h.used \subseteq DOMAIN h.cell /\ DOMAIN h.mem = DOMAIN h.block
  BY DEF Sound, Laid, Typed, Rings
<1>1. n \in Nat /\ n >= 2
  BY RoundedUp
<1>2. b \in PoolFree(h)
  <2>1. PoolFree(h) # {}
    <3>1. Cardinality({}) = 0
      BY FS_EmptySet
    <3> QED
      BY <3>1
  <2> QED
    BY <2>1, PoolAllocFree
<1>3. m = SetGuards(g, c, Guard(c))
  BY Zenon DEF SecBlockCreate, WriteGuards
<1> HIDE DEF n, b
<1>4. /\ Fields(h1) /\ h1.cell = h.cell /\ h1.unused = h.unused /\ h1.used = h.used
      /\ DOMAIN h1.block = DOMAIN h.block \cup {b}
      /\ h1.block[b] = [n_words |-> n, n_used |-> 0]
      /\ \A x \in DOMAIN h.block : x # b => h1.block[x] = h.block[x]
      /\ DOMAIN h1.mem = DOMAIN h.mem \cup {b}
      /\ h1.mem[b] = [w \in 0..(n - 1) |-> Zero]
      /\ \A x \in DOMAIN h.mem : x # b => h1.mem[x] = h.mem[x]
  BY <1>0 DEF Fields, With
<1> HIDE DEF h1
<1>5. c \in PoolFree(h) /\ c # b
  <2>1. PoolFree(h1) = PoolFree(h) \ {b}
    BY <1>4 DEF PoolFree
  <2> QED
    BY <1>2, <2>1, TwoItems, PoolAllocFree
<1> HIDE DEF c
<1>6. /\ b \in Items /\ c \in Items /\ b \notin DOMAIN h.block /\ b \notin DOMAIN h.cell
      /\ c \notin DOMAIN h.block /\ c \notin DOMAIN h.cell
  BY <1>2, <1>5 DEF PoolFree
<1>7. /\ Fields(g) /\ g.block = h1.block /\ g.mem = h1.mem /\ g.used = h.used
      /\ g.unused = h.unused \cup {c} /\ DOMAIN g.cell = DOMAIN h.cell \cup {c} /\ g.cell[c] = k
      /\ \A x \in DOMAIN h.cell : g.cell[x] = h.cell[x]
  BY <1>4, <1>6 DEF Fields, With
<1> HIDE DEF g
<1>8. k.block = b /\ k.words = 0 /\ k.n_words = n /\ k.requested = 0
  OBVIOUS
<1> HIDE DEF k
<1>9. m = Put(g, b, Ends(g, c), Guard(c)) /\ Ends(g, c) = {0, n - 1}
  BY <1>1, <1>3, <1>7, <1>8 DEF SetGuards, Ends
<1>10. PutAt(g, m, b, Ends(g, c), Guard(c))
  <2>1. b \in DOMAIN g.mem
    BY <1>4, <1>7
  <2> QED
    BY <1>7, <1>9, <2>1, PutIsPutAt
<1>11. /\ Fields(m) /\ DOMAIN m.block = DOMAIN h.block \cup {b}
       /\ m.block[b] = [n_words |-> n, n_used |-> 0]
       /\ \A x \in DOMAIN h.block : m.block[x] = h.block[x]
       /\ m.used = h.used /\ m.unused = h.unused \cup {c}
       /\ DOMAIN m.cell = DOMAIN h.cell \cup {c} /\ m.cell[c] = k
       /\ \A x \in DOMAIN h.cell : m.cell[x] = h.cell[x]
       /\ DOMAIN m.mem = DOMAIN h.mem \cup {b}
  BY <1>4, <1>6, <1>7, <1>10 DEF PutAt
<1>12. /\ DOMAIN m.mem[b] = 0..(n - 1)
       /\ \A w \in 0..(n - 1) : m.mem[b][w] = IF w \in {0, n - 1} THEN Guard(c) ELSE Zero
       /\ \A x \in DOMAIN h.mem : DOMAIN m.mem[x] = DOMAIN h.mem[x]
       /\ \A x \in DOMAIN h.mem : \A w \in DOMAIN h.mem[x] : m.mem[x][w] = h.mem[x][w]
  <2>1. \A x \in DOMAIN h.mem : x \in DOMAIN g.mem /\ x # b /\ g.mem[x] = h.mem[x]
    BY <1>0, <1>4, <1>6, <1>7
  <2>2. b \in DOMAIN g.mem /\ DOMAIN g.mem[b] = 0..(n - 1) /\ \A w \in 0..(n - 1) : g.mem[b][w] = Zero
    <3>1. b \in DOMAIN g.mem /\ g.mem[b] = [w \in 0..(n - 1) |-> Zero]
      BY <1>4, <1>7
    <3> QED
      BY <3>1
  <2>3. DOMAIN m.mem[b] = 0..(n - 1)
        /\ \A w \in 0..(n - 1) : m.mem[b][w] = IF w \in {0, n - 1} THEN Guard(c) ELSE Zero
    BY <1>9, <1>10, <2>2 DEF PutAt
  <2>4. \A x \in DOMAIN h.mem : DOMAIN m.mem[x] = DOMAIN h.mem[x]
    BY <1>10, <2>1 DEF PutAt
  <2>5. \A x \in DOMAIN h.mem : \A w \in DOMAIN h.mem[x] : m.mem[x][w] = h.mem[x][w]
    BY <1>10, <2>1 DEF PutAt
  <2> QED
    BY <2>3, <2>4, <2>5
<1>13. Typed(m)
  <2>1. \A x \in DOMAIN h.cell : h.cell[x] \in CellType(m)
    BY <1>0, <1>11 DEF Typed, CellType
  <2>2. k \in CellType(m)
    BY <1>1, <1>11 DEF CellType, k
  <2>3. \A x \in DOMAIN m.block : m.block[x] \in [n_words : Nat, n_used : Nat]
    BY <1>0, <1>1, <1>11
  <2>4. \A x \in DOMAIN m.block : DOMAIN m.mem[x] = 0..(m.block[x].n_words - 1)
    BY <1>0, <1>11, <1>12 DEF Typed
  <2> QED
    BY <1>0, <1>5, <1>6, <1>11, <2>1, <2>2, <2>3, <2>4 DEF Typed
<1>14. /\ From(m, c) = 0 /\ To(m, c) = n /\ BlockOf(m, c) = b /\ Ends(m, c) = {0, n - 1}
       /\ \A x \in DOMAIN h.cell : /\ From(m, x) = From(h, x) /\ To(m, x) = To(h, x)
                                   /\ BlockOf(m, x) = BlockOf(h, x) /\ Ends(m, x) = Ends(h, x)
                                   /\ BlockOf(h, x) \in DOMAIN h.block /\ BlockOf(h, x) # b
  <2>1. \A x \in DOMAIN h.cell : BlockOf(h, x) \in DOMAIN h.block /\ BlockOf(h, x) # b
    BY <1>0, <1>6, CellTypes
  <2> QED
    BY <1>1, <1>8, <1>11, <2>1 DEF From, To, BlockOf, Ends
<1>15. Tiled(m)
  <2>1. \A x \in DOMAIN m.cell :
          /\ m.cell[x].n_words >= 2
          /\ m.cell[x].requested + 2 <= m.cell[x].n_words
          /\ To(m, x) <= m.block[BlockOf(m, x)].n_words
    <3>1. \A x \in DOMAIN h.cell : To(m, x) <= m.block[BlockOf(m, x)].n_words
      BY <1>0, <1>11, <1>14 DEF Tiled
    <3>2. To(m, c) <= m.block[BlockOf(m, c)].n_words
      BY <1>1, <1>11, <1>14
    <3> QED
      BY <1>0, <1>1, <1>8, <1>11, <3>1, <3>2 DEF Tiled
  <2>2. \A x, y \in DOMAIN m.cell :
          x # y /\ BlockOf(m, x) = BlockOf(m, y) => To(m, x) <= From(m, y) \/ To(m, y) <= From(m, x)
    BY <1>0, <1>11, <1>14 DEF Tiled
  <2>3. ASSUME NEW x \in DOMAIN m.block, NEW w \in 0..(m.block[x].n_words - 1)
        PROVE  \E y \in DOMAIN m.cell : BlockOf(m, y) = x /\ From(m, y) <= w /\ w < To(m, y)
    <3>1. CASE x = b
      BY <1>1, <1>11, <1>14, <3>1
    <3>2. CASE x # b
      BY <1>0, <1>11, <1>14, <3>2 DEF Tiled
    <3> QED
      BY <3>1, <3>2
  <2> QED
    BY <2>1, <2>2, <2>3 DEF Tiled
<1>16. Guarded(m)
  <2>1. \A w \in Ends(m, c) : m.mem[BlockOf(m, c)][w] = Guard(c)
    BY <1>1, <1>12, <1>14
  <2>2. ASSUME NEW x \in DOMAIN h.cell, NEW w \in Ends(h, x)
        PROVE  m.mem[BlockOf(h, x)][w] = Guard(x)
    <3>1. BlockOf(h, x) \in DOMAIN h.mem /\ w \in DOMAIN h.mem[BlockOf(h, x)]
      BY <1>0, <1>14, CellWords
    <3> QED
      BY <1>0, <1>12, <3>1 DEF Guarded
  <2> QED
    BY <1>11, <1>14, <2>1, <2>2 DEF Guarded
<1>17. Rings(m)
  <2>1. m.unused = {x \in DOMAIN m.cell : m.cell[x].requested = 0}
    BY <1>0, <1>8, <1>11 DEF Rings
  <2>2. m.used = DOMAIN m.cell \ m.unused
    BY <1>0, <1>6, <1>11 DEF Rings
  <2>3. \A x \in DOMAIN h.block : CellsOf(m, x) \cap m.used = CellsOf(h, x) \cap h.used
    BY <1>0, <1>6, <1>11 DEF CellsOf
  <2>4. CellsOf(m, b) \cap m.used = {}
    BY <1>0, <1>11, <1>14 DEF CellsOf, BlockOf
  <2>5. Counted(m)
    <3>1. Cardinality({}) = 0
      BY FS_EmptySet
    <3>2. \A x \in DOMAIN h.block : m.block[x].n_used = Cardinality(CellsOf(m, x) \cap m.used)
      BY <1>0, <1>11, <2>3 DEF Rings, Counted
    <3>3. m.block[b].n_used = Cardinality(CellsOf(m, b) \cap m.used)
      <4>1. m.block[b].n_used = 0
        BY <1>11
      <4> QED
        BY <2>4, <3>1, <4>1
    <3> QED
      BY <1>11, <3>2, <3>3 DEF Counted
  <2> QED
    BY <2>1, <2>2, <2>5 DEF Rings
<1>18. Apart(m)
  <2>1. ASSUME NEW x \in m.unused, NEW y \in m.unused, Adjacent(m, x, y) PROVE FALSE
    <3>1. CASE x \in h.unused /\ y \in h.unused
      <4>1. x \in DOMAIN h.cell /\ y \in DOMAIN h.cell
        BY <1>0, <3>1 DEF Rings
      <4> QED
        BY <1>0, <1>14, <2>1, <3>1, <4>1 DEF Apart, Adjacent
    <3>2. CASE x = c /\ y = c
      BY <1>1, <1>14, <2>1, <3>2 DEF Adjacent
    <3>3. CASE (x = c /\ y \in h.unused) \/ (x \in h.unused /\ y = c)
      BY <1>0, <1>14, <2>1, <3>3 DEF Adjacent, Rings
    <3> QED
      BY <1>11, <3>1, <3>2, <3>3
  <2> QED
    BY <2>1 DEF Apart
<1>19. Sound(m)
  BY <1>13, <1>15, <1>16, <1>17, <1>18 DEF Sound, Laid
<1>20. Kept(h, m, h.used)
  <2>1. ASSUME NEW x \in h.used
        PROVE  x \in DOMAIN m.cell /\ m.cell[x] = h.cell[x] /\ Content(m, x) = Content(h, x)
    <3>1. x \in DOMAIN h.cell /\ m.cell[x] = h.cell[x] /\ h.cell[x].block \in DOMAIN h.mem
      BY <1>0, <1>11, WordsInside
    <3>2. ASSUME NEW i \in 1..h.cell[x].requested
          PROVE  m.mem[h.cell[x].block][h.cell[x].words + i] = h.mem[h.cell[x].block][h.cell[x].words + i]
      <4>1. h.cell[x].words + i \in DOMAIN h.mem[h.cell[x].block]
        BY <1>0, <3>1, WordsInside DEF Words
      <4> QED
        BY <1>12, <3>1, <4>1
    <3> QED
      BY <1>11, <3>1, <3>2 DEF Content
  <2> QED
    BY <2>1 DEF Kept, Address
<1>21. NoNewData(h, m)
  <2>1. \A w \in DOMAIN m.mem[b] : ~IsData(m.mem[b][w])
    BY <1>12, NotData
  <2> QED
    BY <1>11, <1>12, <2>1 DEF NoNewData
<1>22. Private(m) /\ View(m) = View(h)
  <2>1. m.used \subseteq DOMAIN m.cell
    BY <1>0, <1>11
  <2>2. Laid(m)
    BY <1>19 DEF Sound
  <2> QED
    BY <1>0, <1>11, <1>19, <1>20, <1>21, <2>1, <2>2, PrivateSame, SameView
<1> QED
  BY <1>6, <1>8, <1>11, <1>19, <1>22 DEF Created, b, n

---------------------------------------------------------------------------
(* The sections under the lock, as a thread sees them: by addresses.        *)

\* A block that is idle in m was so in h.
NoNewIdle(h, m) ==
  \A b \in DOMAIN m.block : m.block[b].n_used = 0 =>
    b \in DOMAIN h.block /\ h.block[b].n_used = 0 /\ h.block[b].n_words = m.block[b].n_words

\* From h to m the buffers become those of the view v.
Turned(h, m, v) == Sound(m) /\ Private(m) /\ NoNewIdle(h, m) /\ View(m) = v

\* Where blocks are kept none becomes idle.
LEMMA KeptNoNewIdle ==
  ASSUME NEW h, NEW m, BlocksKept(h, m)
  PROVE  NoNewIdle(h, m)
BY DEF BlocksKept, NoNewIdle

\* An address of the view is that of one used cell.
LEMMA CellOfBuffer ==
  ASSUME NEW h, Sound(h), NEW p \in DOMAIN View(h)
  PROVE  LET c == CellOf(h, p) IN
         /\ c \in h.used /\ p = Address(h, c) /\ View(h)[p] = Content(h, c)
         /\ p.block = h.cell[c].block /\ p.word = h.cell[c].words + 1 /\ p.block # None
         /\ h.cell[c].words \in Nat /\ h.cell[c].requested \in Nat \ {0}
         /\ DOMAIN View(h)[p] = 1..h.cell[c].requested
<1>1. Laid(h) /\ h.used \subseteq DOMAIN h.cell
  BY InUse DEF Sound
<1>2. PICK c \in h.used : p = Address(h, c)
  BY DEF View, Bufs
<1>3. CellOf(h, p) = c /\ View(h)[p] = Content(h, c)
  BY <1>1, <1>2, CellAt, ViewAt
<1>4. /\ h.cell[c].words \in Nat /\ h.cell[c].requested \in Nat /\ h.cell[c].requested # 0
      /\ h.cell[c].block \in DOMAIN h.block
  BY <1>1, InUse, WordsInside
<1>5. h.cell[c].block # None
  BY <1>1, <1>4 DEF Laid, Typed, Items, None
<1>6. p.block = h.cell[c].block /\ p.word = h.cell[c].words + 1
  BY <1>2 DEF Address
<1>7. DOMAIN Content(h, c) = 1..h.cell[c].requested
  BY DEF Content
<1> QED
  BY <1>2, <1>3, <1>4, <1>5, <1>6, <1>7

\* Sequences with the same positions have the same length.
LEMMA SameLength ==
  ASSUME NEW a \in Nat, NEW b \in Nat, 1..a = 1..b
  PROVE  a = b
<1>1. CASE a < b
  BY <1>1
<1>2. CASE b < a
  BY <1>2
<1> QED
  BY <1>1, <1>2

\* The words of a buffer lie one after the other from its address on.
LEMMA ViewWords ==
  ASSUME NEW h, Sound(h), NEW p \in DOMAIN View(h), NEW i \in DOMAIN View(h)[p]
  PROVE  h.mem[p.block][p.word + i - 1] = View(h)[p][i]
<1> DEFINE c == CellOf(h, p)
<1>1. /\ c \in h.used /\ View(h)[p] = Content(h, c)
      /\ p.block = h.cell[c].block /\ p.word = h.cell[c].words + 1
      /\ h.cell[c].words \in Nat /\ h.cell[c].requested \in Nat
      /\ DOMAIN View(h)[p] = 1..h.cell[c].requested
  BY CellOfBuffer
<1> HIDE DEF c
<1>2. p.word + i - 1 = h.cell[c].words + i /\ i \in 1..h.cell[c].requested
  BY <1>1
<1> QED
  BY <1>1, <1>2 DEF Content

\* The owner writes the whole of its buffer.
LEMMA FillAt ==
  ASSUME NEW h, Sound(h), Private(h), NEW p \in DOMAIN View(h), NEW length \in Nat,
         DOMAIN View(h)[p] = 1..length, NEW x,
         NEW m, m = Fill(h, p.block, p.word, p.word + length, x)
  PROVE  Turned(h, m, [View(h) EXCEPT ![p] = [i \in 1..length |-> x]])
<1> DEFINE c == CellOf(h, p)
           W == p.word..((p.word + length) - 1)
<1>1. /\ c \in h.used /\ p = Address(h, c) /\ View(h)[p] = Content(h, c)
      /\ p.block = h.cell[c].block /\ p.word = h.cell[c].words + 1
      /\ h.cell[c].words \in Nat /\ h.cell[c].requested \in Nat \ {0}
      /\ DOMAIN View(h)[p] = 1..h.cell[c].requested
  BY CellOfBuffer
<1>2. m = Put(h, p.block, W, x)
  BY Zenon DEF Fill
<1> HIDE DEF c, W
<1>3. h.cell[c].requested = length
  BY <1>1, SameLength
<1>4. /\ Laid(h) /\ Typed(h) /\ Tiled(h) /\ Fields(h) /\ c \in DOMAIN h.cell /\ h.cell[c] \in CellType(h)
      /\ p.block \in DOMAIN h.mem /\ p.block = BlockOf(h, c)
      /\ length + 2 <= h.cell[c].n_words
      /\ \A b \in DOMAIN h.block : h.block[b] \in [n_words : Nat, n_used : Nat]
  BY <1>1, <1>3, InUse, WordsInside DEF Sound, Laid, Typed, Tiled
<1>5. W = Words(h, c) /\ W \subseteq Inside(h, c)
  <2>1. (p.word + length) - 1 = h.cell[c].words + length
    BY <1>1
  <2> QED
    BY <1>1, <1>3, <1>4, <2>1, WordsInside DEF W, Words
<1>6. PutAt(h, m, p.block, W, x)
  BY <1>2, <1>4, PutIsPutAt
<1>7. Touch(h, m, c) /\ m.used = h.used /\ m.unused = h.unused /\ m.block = h.block /\ m.cell = h.cell
  <2>1. m.used = h.used /\ m.unused = h.unused /\ m.block = h.block /\ m.cell = h.cell
    BY <1>6 DEF PutAt
  <2>2. h.cell[c].requested + 2 <= h.cell[c].n_words
    BY <1>4 DEF Tiled
  <2> HIDE DEF W
  <2>3. Touch(h, m, c)
    BY <1>4, <1>5, <1>6, <2>1, <2>2 DEF Touch, PutAt
  <2> QED
    BY <2>1, <2>3
<1>8. Sound(m) /\ View(m) = [View(h) EXCEPT ![p] = Content(m, c)]
  <2>1. m.cell[c].requested # 0 /\ Touch(h, m, c)
    BY <1>1, <1>7
  <2> QED
    BY <1>1, <1>7, <2>1, TouchSound
<1>9. Private(m)
  <2>1. ASSUME NEW w \in Inside(h, c), IsData(m.mem[h.cell[c].block][w]) PROVE w \in Words(m, c)
    <3>1. Words(m, c) = Words(h, c) /\ w \in DOMAIN h.mem[p.block]
      BY <1>1, <1>4, <1>7, WordsInside DEF Words
    <3>2. CASE w \in W
      BY <1>5, <3>1, <3>2
    <3>3. CASE w \notin W
      <4>1. IsData(h.mem[h.cell[c].block][w])
        BY <1>1, <1>4, <1>6, <2>1, <3>1, <3>3 DEF PutAt
      <4> QED
        BY <1>1, <3>1, <4>1, PrivateInside
    <3> QED
      BY <3>2, <3>3
  <2> QED
    BY <1>1, <1>7, <2>1, TouchPrivate
<1>10. Content(m, c) = [i \in 1..length |-> x]
  <2>1. ASSUME NEW i \in 1..length PROVE m.mem[h.cell[c].block][h.cell[c].words + i] = x
    <3>1. h.cell[c].words + i \in W /\ h.cell[c].words + i \in DOMAIN h.mem[p.block]
      <4>1. h.cell[c].words + i \in Words(h, c)
        BY <1>1, <1>3 DEF Words
      <4> QED
        BY <1>1, <1>4, <1>5, <4>1, WordsInside
    <3> QED
      BY <1>1, <1>4, <1>6, <3>1 DEF PutAt
  <2> QED
    BY <1>3, <1>7, <2>1 DEF Content
<1>11. NoNewIdle(h, m)
  BY <1>7 DEF NoNewIdle
<1> QED
  BY <1>8, <1>9, <1>10, <1>11 DEF Turned

\* The words of one buffer are copied into another.
LEMMA CopyAt ==
  ASSUME NEW h, Sound(h), Private(h), NEW p \in DOMAIN View(h), NEW q \in DOMAIN View(h),
         NEW n \in Nat, DOMAIN View(h)[p] = 1..n, NEW length \in Nat, DOMAIN View(h)[q] = 1..length,
         n <= length, NEW m, m = Copy(h, p, q, n)
  PROVE  Turned(h, m, [View(h) EXCEPT ![q] = [i \in 1..length |->
                          IF i <= n THEN View(h)[p][i] ELSE View(h)[q][i]]])
<1> DEFINE c == CellOf(h, q)
           d == CellOf(h, p)
<1>1. /\ c \in h.used /\ q = Address(h, c) /\ View(h)[q] = Content(h, c)
      /\ h.cell[c].requested \in Nat /\ DOMAIN View(h)[q] = 1..h.cell[c].requested
  BY CellOfBuffer
<1>2. /\ d \in h.used /\ p = Address(h, d) /\ View(h)[p] = Content(h, d)
      /\ h.cell[d].requested \in Nat /\ DOMAIN View(h)[p] = 1..h.cell[d].requested
  BY CellOfBuffer
<1> HIDE DEF c, d
<1>3. h.cell[c].requested = length /\ h.cell[d].requested = n
  BY <1>1, <1>2, SameLength
<1>4. m = Copy(h, Address(h, d), Address(h, c), n)
  BY <1>1, <1>2
<1>5. Copied(h, m, c, d, n)
  <2>1. n <= h.cell[c].requested /\ n <= h.cell[d].requested
    BY <1>3
  <2> QED
    BY <1>1, <1>2, <1>4, <2>1, CopySound
<1>6. NoNewIdle(h, m)
  BY <1>5 DEF Copied, NoNewIdle
<1> QED
  BY <1>1, <1>2, <1>5, <1>6 DEF Turned, Copied

\* egg_secure_free_full: the buffer is gone, and its block with it when it was the last.
LEMMA FreeAt ==
  ASSUME NEW h, Sound(h), Private(h), NEW p \in DOMAIN View(h), NEW m, m = Release(h, p)
  PROVE  Turned(h, m, Without(View(h), {p}))
<1> DEFINE c == CellOf(h, p)
           g == SecFree(h, c)
<1>1. /\ c \in h.used /\ p = Address(h, c) /\ p.block = h.cell[c].block
  BY CellOfBuffer
<1>2. m = SecBlockRelease(g, p.block)
  BY DEF Release
<1>g. Freed(h, g, c)
  <2> HIDE DEF c
  <2> QED
    BY <1>1, SecFreeSound
<1> HIDE DEF c, g
<1>3. /\ Lost(h, g, c) /\ DOMAIN g.block = DOMAIN h.block
      /\ \A x \in DOMAIN h.block \ {p.block} : g.block[x] = h.block[x]
  BY <1>1, <1>g DEF Freed
<1>4. Sound(g) /\ Private(g) /\ View(g) = Without(View(h), {p})
  BY <1>1, <1>3, LostView
<1>5. p.block \in DOMAIN g.block
  BY <1>1, <1>3, InUse
<1>6. ReleasedFrom(g, m, p.block)
  BY <1>2, <1>4, <1>5, BlockReleaseSound
<1>7. NoNewIdle(h, m)
  BY <1>3, <1>6 DEF ReleasedFrom, Unseen, BlocksKept, NoNewIdle
<1> QED
  BY <1>4, <1>6, <1>7 DEF Turned, ReleasedFrom, Unseen

\* egg_secure_realloc_full under the lock: the block of the buffer always stays.
LEMMA ReallocAt ==
  ASSUME NEW h, Sound(h), Private(h), NEW p \in DOMAIN View(h), NEW length \in Nat \ {0},
         NEW r \in SecRealloc(h, CellOf(h, p), length),
         NEW m, m = SecBlockRelease(r.heap, p.block)
  PROVE  \/ /\ r.cell = None /\ Turned(h, m, View(h))
            /\ \A n \in Nat : DOMAIN View(h)[p] = 1..n => n < length
         \/ /\ r.cell # None /\ NoNewIdle(h, m)
            /\ Rewritten(h, m, p, Address(r.heap, r.cell), length)
            /\ Address(r.heap, r.cell).block # None
<1> DEFINE c == CellOf(h, p)
<1>1. /\ c \in h.used /\ p = Address(h, c) /\ p.block = h.cell[c].block /\ p.block # None
      /\ h.cell[c].requested \in Nat /\ DOMAIN View(h)[p] = 1..h.cell[c].requested
      /\ r \in SecRealloc(h, c, length)
  BY CellOfBuffer
<1> HIDE DEF c
<1>2. \/ /\ r.cell = None /\ Unseen(h, r.heap) /\ h.cell[c].requested < length
         /\ r.heap.block[h.cell[c].block].n_used # 0
      \/ /\ r.cell # None
         /\ Rewritten(h, r.heap, Address(h, c), Address(r.heap, r.cell), length)
         /\ Address(r.heap, r.cell).block = h.cell[c].block
         /\ r.heap.block[h.cell[c].block].n_used # 0
  BY <1>1, SecReallocSound
<1>3. m = r.heap
  BY <1>1, <1>2 DEF SecBlockRelease
<1>4. CASE /\ r.cell = None /\ Unseen(h, m) /\ h.cell[c].requested < length
  <2>1. \A n \in Nat : DOMAIN View(h)[p] = 1..n => n < length
    BY <1>1, <1>4, SameLength
  <2> QED
    BY <1>4, <2>1, KeptNoNewIdle DEF Turned, Unseen
<1>5. CASE r.cell # None /\ Rewritten(h, m, p, Address(r.heap, r.cell), length)
           /\ Address(r.heap, r.cell).block = p.block
  BY <1>1, <1>5, KeptNoNewIdle DEF Rewritten
<1> QED
  BY <1>1, <1>2, <1>3, <1>4, <1>5

\* egg_secure_alloc_full under the lock.
Supplied(h, m, q, length) ==
  /\ q \notin DOMAIN View(h) /\ q.block # None
  /\ Turned(h, m, With(View(h), q, Zeros(length)))

Refused(h, m, length) ==
  /\ Sound(m) /\ Private(m) /\ View(m) = View(h)
  /\ \/ NoNewIdle(h, m)
     \/ /\ \A b \in DOMAIN m.block : m.block[b].n_used = 0 =>
             \/ b \in DOMAIN h.block /\ m.block[b] = h.block[b]
             \/ m.block[b].n_words = BlockWords(length)
        /\ Misfit(length) \/ PoolFree(m) = {}

\* A cell gained is a buffer at a free address, seen through addresses.
LEMMA GainedSupplied ==
  ASSUME NEW h, Sound(h), Private(h), NEW m, NEW k, NEW length, Gained(h, m, k, length)
  PROVE  Supplied(h, m, Address(m, k), length)
<1>1. /\ Sound(m) /\ Private(m) /\ BlocksKept(h, m)
      /\ Address(m, k) \notin DOMAIN View(h)
      /\ View(m) = With(View(h), Address(m, k), Zeros(length))
  BY GainedView
<1>2. Address(m, k).block # None
  <2>1. Address(m, k) \in DOMAIN View(m)
    BY <1>1 DEF With
  <2> QED
    BY <1>1, <2>1, CellOfBuffer
<1> QED
  BY <1>1, <1>2, KeptNoNewIdle DEF Supplied, Turned

\* egg_secure_alloc_full under the lock: a new buffer of zeroes, or none; and when none though a
\* block could be made, the length fills its pages or the pool is empty.
LEMMA AllocateSound ==
  ASSUME NEW h, Sound(h), Private(h), NEW length \in Nat \ {0}, NEW r \in Allocate(h, length)
  PROVE  \/ /\ r.cell # None /\ Supplied(h, r.heap, Address(r.heap, r.cell), length)
         \/ /\ r.cell = None /\ Refused(h, r.heap, length)
            /\ CanCreate(h, length) => Misfit(length) \/ PoolFree(r.heap) = {}
<1> DEFINE f == SecBlockCreate(h, length)
           a == PoolAlloc(h)
<1>1. \/ \E b \in DOMAIN h.block : r \in SecAlloc(h, b, length) /\ r.cell # None
      \/ CanCreate(h, length) /\ r \in SecAlloc(f, a, length)
      \/ ~CanCreate(h, length) /\ r = [heap |-> h, cell |-> None]
  BY DEF Allocate
<1>2. CASE \E b \in DOMAIN h.block : r \in SecAlloc(h, b, length) /\ r.cell # None
  <2>1. Gained(h, r.heap, r.cell, length)
    BY <1>2, SecAllocSound
  <2> QED
    BY <1>2, <2>1, GainedSupplied
<1>3. CASE ~CanCreate(h, length) /\ r = [heap |-> h, cell |-> None]
  <2>1. NoNewIdle(h, h)
    BY DEF NoNewIdle
  <2> QED
    BY <1>3, <2>1 DEF Refused
<1>4. CASE CanCreate(h, length) /\ r \in SecAlloc(f, a, length)
  <2>f. f = SecBlockCreate(h, length)
    OBVIOUS
  <2>0. Cardinality(PoolFree(h)) >= 2
    BY <1>4 DEF CanCreate
  <2> HIDE DEF f
  <2>1. Created(h, f, a, BlockWords(length))
    BY <2>f, <2>0, CreateSound
  <2> HIDE DEF a
  <2>2. /\ Sound(f) /\ Private(f) /\ View(f) = View(h)
        /\ a \notin DOMAIN h.block /\ DOMAIN f.block = DOMAIN h.block \cup {a}
        /\ f.block[a].n_words = BlockWords(length)
        /\ \A x \in DOMAIN h.block : f.block[x] = h.block[x]
        /\ \E c \in f.unused : f.cell[c].block = a /\ f.cell[c].n_words = BlockWords(length)
    BY <2>1 DEF Created
  <2>3. CASE r.cell = None
    <3>1. /\ r.heap = f
          /\ \/ PoolFree(f) = {}
             \/ \A c \in f.unused : f.cell[c].block = a => f.cell[c].n_words < length + 2
      BY <1>4, <2>2, <2>3, SecAllocSound
    <3>2. PoolFree(f) = {} \/ Misfit(length)
      BY <2>2, <3>1 DEF Misfit
    <3> QED
      BY <2>2, <2>3, <3>1, <3>2 DEF Refused
  <2>4. CASE r.cell # None
    <3> DEFINE m == r.heap
               q == Address(r.heap, r.cell)
    <3>1. Gained(f, m, r.cell, length) /\ m.cell[r.cell].block = a
      BY <1>4, <2>2, <2>4, SecAllocSound
    <3>2. Supplied(f, m, q, length)
      BY <2>2, <3>1, GainedSupplied
    <3>3. m.block[a].n_used # 0
      BY <3>1, InUse DEF Gained
    <3> HIDE DEF m, q
    <3>4. NoNewIdle(h, m)
      BY <2>2, <3>2, <3>3 DEF Supplied, Turned, NoNewIdle
    <3>5. Supplied(h, m, q, length)
      BY <2>2, <3>2, <3>4 DEF Supplied, Turned
    <3> QED
      BY <2>4, <3>5 DEF m, q
  <2> QED
    BY <2>3, <2>4
<1> QED
  BY <1>1, <1>2, <1>3, <1>4

---------------------------------------------------------------------------
(* The invariant.  Locked and pageable buffers are read as one store, from  *)
(* addresses to words.                                                      *)

Handle(w) == [block |-> None, word |-> w]

Store(v, g) ==
  [p \in DOMAIN v \cup {Handle(w) : w \in DOMAIN g} |-> IF IsLocked(p) THEN v[p] ELSE g[p.word]]

Stored == Store(View(heap), pageable)

MemoryInv ==
  /\ Sound(heap) /\ Private(heap)
  /\ IsFiniteSet(DOMAIN pageable) /\ DOMAIN pageable \subseteq Nat \ {0}

BufInv ==
  /\ IsFiniteSet(DOMAIN buf) /\ Cardinality(DOMAIN buf) <= MaxBuffers
  /\ \A p \in DOMAIN buf : buf[p].owner \in Threads /\ buf[p].length \in Lengths

Moving(t) == call[t].at \in {"copy", "free"}

CallInv ==
  /\ DOMAIN call = Threads
  /\ \A t \in Threads :
       /\ DOMAIN call[t] = {"at", "ptr", "length", "new", "cause"}
       /\ call[t].at \in {"idle", "alloc", "copy", "free"}
       /\ call[t].at # "idle" =>
            /\ call[t].ptr \in Mine(t) /\ IsLocked(call[t].ptr)
            /\ call[t].length \in Lengths /\ buf[call[t].ptr].length < call[t].length
       /\ Moving(t) => call[t].new \notin DOMAIN buf
  /\ \A t, u \in Threads : t # u /\ Moving(t) /\ Moving(u) => call[t].new # call[u].new

\* The words x of a buffer of this length, in which data is that of its owner.
Owned(x, length, t) ==
  DOMAIN x = 1..length /\ \A i \in 1..length : IsData(x[i]) => x[i] = Data(t)

StoreInv ==
  /\ DOMAIN Stored = Live
  /\ \A p \in DOMAIN buf : Owned(Stored[p], buf[p].length, buf[p].owner)
  /\ \A t \in Threads : Moving(t) => Owned(Stored[call[t].new], call[t].length, t)
  /\ \A t \in Threads : call[t].at = "free" =>
       \A i \in 1..buf[call[t].ptr].length : Stored[call[t].new][i] = Stored[call[t].ptr][i]

Excused(p, cause, s) ==
  \/ IsLocked(p) \/ cause = "refused" \/ (\E length \in Lengths : Misfit(length)) \/ s

CauseInv ==
  /\ \A p \in DOMAIN buf : Excused(p, buf[p].cause, starved)
  /\ \A t \in Threads : Moving(t) => Excused(call[t].new, call[t].cause, starved)

IdleInv ==
  \A b \in DOMAIN heap.block : heap.block[b].n_used = 0 =>
    \/ \E length \in Lengths : Misfit(length) /\ heap.block[b].n_words = BlockWords(length)
    \/ starved

Inv == MemoryInv /\ BufInv /\ CallInv /\ StoreInv /\ CauseInv /\ IdleInv

---------------------------------------------------------------------------
(* The store.                                                               *)

AllLocked(v) == \A p \in DOMAIN v : IsLocked(p)

\* The addresses of the store, and what is there.
LEMMA StoreIs ==
  ASSUME NEW v, NEW g
  PROVE  /\ \A p : p \in DOMAIN Store(v, g) <=> p \in DOMAIN v \/ \E w \in DOMAIN g : p = Handle(w)
         /\ \A p \in DOMAIN Store(v, g) : Store(v, g)[p] = IF IsLocked(p) THEN v[p] ELSE g[p.word]
         /\ Store(v, g) = [p \in DOMAIN Store(v, g) |-> Store(v, g)[p]]
         /\ \A w : Handle(w).word = w /\ ~IsLocked(Handle(w))
BY DEF Store, Handle, IsLocked

\* The store when a locked buffer is added,
LEMMA StoreWith ==
  ASSUME NEW v, NEW g, AllLocked(v), NEW q, IsLocked(q), NEW x, NEW m, m = With(v, q, x)
  PROVE  Store(m, g) = With(Store(v, g), q, x)
<1> DEFINE s == Store(m, g)
           r == Store(v, g)
<1>0. \A p \in DOMAIN v : IsLocked(p)
  BY DEF AllLocked
<1>1. /\ \A p : p \in DOMAIN r <=> p \in DOMAIN v \/ \E z \in DOMAIN g : p = Handle(z)
      /\ \A p \in DOMAIN r : r[p] = IF IsLocked(p) THEN v[p] ELSE g[p.word]
      /\ r = [p \in DOMAIN r |-> r[p]]
      /\ \A z : Handle(z).word = z /\ ~IsLocked(Handle(z))
  BY StoreIs
<1>2. /\ \A p : p \in DOMAIN s <=> p \in DOMAIN m \/ \E z \in DOMAIN g : p = Handle(z)
      /\ \A p \in DOMAIN s : s[p] = IF IsLocked(p) THEN m[p] ELSE g[p.word]
      /\ s = [p \in DOMAIN s |-> s[p]]
  BY ONLY StoreIs
<1> HIDE DEF r, s
<1>3. DOMAIN m = DOMAIN v \cup {q} /\ m[q] = x /\ \A z \in DOMAIN v \ {q} : m[z] = v[z]
  BY DEF With
<1>4. DOMAIN s = DOMAIN r \cup {q}
  BY <1>0, <1>1, <1>2, <1>3
<1>5. ASSUME NEW p \in DOMAIN s PROVE s[p] = IF p = q THEN x ELSE r[p]
  BY <1>0, <1>1, <1>2, <1>3, <1>4
<1>6. s = With(r, q, x)
  BY <1>1, <1>2, <1>4, <1>5 DEF With
<1> QED
  BY <1>6 DEF r, s

\* removed,
LEMMA StoreWithout ==
  ASSUME NEW v, NEW g, AllLocked(v), NEW q, IsLocked(q), NEW m, m = Without(v, {q})
  PROVE  Store(m, g) = Without(Store(v, g), {q})
<1> DEFINE s == Store(m, g)
           r == Store(v, g)
<1>0. \A p \in DOMAIN v : IsLocked(p)
  BY DEF AllLocked
<1>1. /\ \A p : p \in DOMAIN r <=> p \in DOMAIN v \/ \E z \in DOMAIN g : p = Handle(z)
      /\ \A p \in DOMAIN r : r[p] = IF IsLocked(p) THEN v[p] ELSE g[p.word]
      /\ r = [p \in DOMAIN r |-> r[p]]
      /\ \A z : Handle(z).word = z /\ ~IsLocked(Handle(z))
  BY StoreIs
<1>2. /\ \A p : p \in DOMAIN s <=> p \in DOMAIN m \/ \E z \in DOMAIN g : p = Handle(z)
      /\ \A p \in DOMAIN s : s[p] = IF IsLocked(p) THEN m[p] ELSE g[p.word]
      /\ s = [p \in DOMAIN s |-> s[p]]
  BY ONLY StoreIs
<1> HIDE DEF r, s
<1>3. DOMAIN m = DOMAIN v \ {q} /\ \A z \in DOMAIN m : m[z] = v[z]
  BY DEF Without
<1>4. DOMAIN s = DOMAIN r \ {q}
  <2>1. \A z : Handle(z) # q
    BY <1>1
  <2>2. \A p : p \in DOMAIN s <=> p \in DOMAIN r /\ p # q
    BY <1>1, <1>2, <1>3, <2>1
  <2> QED
    BY <2>2
<1>5. ASSUME NEW p \in DOMAIN s PROVE s[p] = r[p]
  BY ONLY <1>0, <1>1, <1>2, <1>3, <1>4, <1>5
<1>6. s = Without(r, {q})
  BY <1>1, <1>2, <1>4, <1>5 DEF Without
<1> QED
  BY <1>6 DEF r, s

\* rewritten;
LEMMA StoreExcept ==
  ASSUME NEW v, NEW g, AllLocked(v), NEW q, IsLocked(q), NEW x, q \in DOMAIN v, NEW m, m = [v EXCEPT ![q] = x]
  PROVE  Store(m, g) = [Store(v, g) EXCEPT ![q] = x]
<1> DEFINE s == Store(m, g)
           r == Store(v, g)
<1>0. \A p \in DOMAIN v : IsLocked(p)
  BY DEF AllLocked
<1>1. /\ \A p : p \in DOMAIN r <=> p \in DOMAIN v \/ \E z \in DOMAIN g : p = Handle(z)
      /\ \A p \in DOMAIN r : r[p] = IF IsLocked(p) THEN v[p] ELSE g[p.word]
      /\ r = [p \in DOMAIN r |-> r[p]]
      /\ \A z : Handle(z).word = z /\ ~IsLocked(Handle(z))
  BY StoreIs
<1>2. /\ \A p : p \in DOMAIN s <=> p \in DOMAIN m \/ \E z \in DOMAIN g : p = Handle(z)
      /\ \A p \in DOMAIN s : s[p] = IF IsLocked(p) THEN m[p] ELSE g[p.word]
      /\ s = [p \in DOMAIN s |-> s[p]]
  BY ONLY StoreIs
<1> HIDE DEF r, s
<1>3. DOMAIN m = DOMAIN v /\ m[q] = x /\ \A z \in DOMAIN v \ {q} : m[z] = v[z]
  OBVIOUS
<1>4. DOMAIN s = DOMAIN r /\ q \in DOMAIN r
  BY <1>0, <1>1, <1>2, <1>3
<1>5. ASSUME NEW p \in DOMAIN s PROVE s[p] = IF p = q THEN x ELSE r[p]
  BY <1>0, <1>1, <1>2, <1>3, <1>4
<1>6. s = [r EXCEPT ![q] = x]
  BY <1>1, <1>2, <1>4, <1>5
<1> QED
  BY <1>6 DEF r, s

\* when a pageable buffer is added,
LEMMA StoreWithHandle ==
  ASSUME NEW v, NEW g, AllLocked(v), NEW w, NEW x, NEW m, m = With(g, w, x)
  PROVE  Store(v, m) = With(Store(v, g), Handle(w), x)
<1> DEFINE s == Store(v, m)
           r == Store(v, g)
<1>0. \A p \in DOMAIN v : IsLocked(p)
  BY DEF AllLocked
<1>1. /\ \A p : p \in DOMAIN r <=> p \in DOMAIN v \/ \E z \in DOMAIN g : p = Handle(z)
      /\ \A p \in DOMAIN r : r[p] = IF IsLocked(p) THEN v[p] ELSE g[p.word]
      /\ r = [p \in DOMAIN r |-> r[p]]
      /\ \A z : Handle(z).word = z /\ ~IsLocked(Handle(z))
  BY StoreIs
<1>2. /\ \A p : p \in DOMAIN s <=> p \in DOMAIN v \/ \E z \in DOMAIN m : p = Handle(z)
      /\ \A p \in DOMAIN s : s[p] = IF IsLocked(p) THEN v[p] ELSE m[p.word]
      /\ s = [p \in DOMAIN s |-> s[p]]
  BY ONLY StoreIs
<1> HIDE DEF r, s
<1>3. DOMAIN m = DOMAIN g \cup {w} /\ m[w] = x /\ \A z \in DOMAIN g \ {w} : m[z] = g[z]
  BY DEF With
<1>4. DOMAIN s = DOMAIN r \cup {Handle(w)}
  BY <1>0, <1>1, <1>2, <1>3
<1>5. ASSUME NEW p \in DOMAIN s PROVE s[p] = IF p = Handle(w) THEN x ELSE r[p]
  BY <1>0, <1>1, <1>2, <1>3, <1>4
<1>6. s = With(r, Handle(w), x)
  BY <1>1, <1>2, <1>4, <1>5 DEF With
<1> QED
  BY <1>6 DEF r, s

\* removed,
LEMMA StoreWithoutHandle ==
  ASSUME NEW v, NEW g, AllLocked(v), NEW w, NEW m, m = Without(g, {w})
  PROVE  Store(v, m) = Without(Store(v, g), {Handle(w)})
<1> DEFINE s == Store(v, m)
           r == Store(v, g)
<1>0. \A p \in DOMAIN v : IsLocked(p)
  BY DEF AllLocked
<1>1. /\ \A p : p \in DOMAIN r <=> p \in DOMAIN v \/ \E z \in DOMAIN g : p = Handle(z)
      /\ \A p \in DOMAIN r : r[p] = IF IsLocked(p) THEN v[p] ELSE g[p.word]
      /\ r = [p \in DOMAIN r |-> r[p]]
      /\ \A z : Handle(z).word = z /\ ~IsLocked(Handle(z))
  BY StoreIs
<1>2. /\ \A p : p \in DOMAIN s <=> p \in DOMAIN v \/ \E z \in DOMAIN m : p = Handle(z)
      /\ \A p \in DOMAIN s : s[p] = IF IsLocked(p) THEN v[p] ELSE m[p.word]
      /\ s = [p \in DOMAIN s |-> s[p]]
  BY ONLY StoreIs
<1> HIDE DEF r, s
<1>3. DOMAIN m = DOMAIN g \ {w} /\ \A z \in DOMAIN m : m[z] = g[z]
  BY DEF Without
<1>4. DOMAIN s = DOMAIN r \ {Handle(w)}
  <2>1. \A p \in DOMAIN v : p # Handle(w)
    BY <1>0, <1>1
  <2>2. \A z : Handle(z) = Handle(w) => z = w
    BY <1>1
  <2>3. \A p : p \in DOMAIN s <=> p \in DOMAIN r /\ p # Handle(w)
    BY <1>1, <1>2, <1>3, <2>1, <2>2
  <2> QED
    BY <2>3
<1>5. ASSUME NEW p \in DOMAIN s PROVE s[p] = r[p]
  BY ONLY <1>0, <1>1, <1>2, <1>3, <1>4, <1>5
<1>6. s = Without(r, {Handle(w)})
  BY <1>1, <1>2, <1>4, <1>5 DEF Without
<1> QED
  BY <1>6 DEF r, s

Changed(f, x, y) == [f EXCEPT ![x] = y]

\* rewritten.
LEMMA StoreExceptHandle ==
  ASSUME NEW v, NEW g, AllLocked(v), NEW w, NEW x, w \in DOMAIN g, NEW m, m = Changed(g, w, x)
  PROVE  Store(v, m) = Changed(Store(v, g), Handle(w), x)
<1> DEFINE s == Store(v, m)
           r == Store(v, g)
<1>0. \A p \in DOMAIN v : IsLocked(p)
  BY DEF AllLocked
<1>1. /\ \A p : p \in DOMAIN r <=> p \in DOMAIN v \/ \E z \in DOMAIN g : p = Handle(z)
      /\ \A p \in DOMAIN r : r[p] = IF IsLocked(p) THEN v[p] ELSE g[p.word]
      /\ r = [p \in DOMAIN r |-> r[p]]
      /\ \A z : Handle(z).word = z /\ ~IsLocked(Handle(z))
  BY StoreIs
<1>2. /\ \A p : p \in DOMAIN s <=> p \in DOMAIN v \/ \E z \in DOMAIN m : p = Handle(z)
      /\ \A p \in DOMAIN s : s[p] = IF IsLocked(p) THEN v[p] ELSE m[p.word]
      /\ s = [p \in DOMAIN s |-> s[p]]
  BY ONLY StoreIs
<1> HIDE DEF r, s
<1>3. DOMAIN m = DOMAIN g /\ m[w] = x /\ \A z \in DOMAIN g \ {w} : m[z] = g[z]
  BY DEF Changed
<1>4. DOMAIN s = DOMAIN r /\ Handle(w) \in DOMAIN r
  BY <1>0, <1>1, <1>2, <1>3
<1>5. ASSUME NEW p \in DOMAIN s PROVE s[p] = IF p = Handle(w) THEN x ELSE r[p]
  BY <1>0, <1>1, <1>2, <1>3, <1>4
<1>6. s = Changed(r, Handle(w), x)
  BY <1>1, <1>2, <1>4, <1>5 DEF Changed
<1> QED
  BY <1>6 DEF r, s

\* A buffer of the store is in the locked view, or under its handle.
LEMMA StoreAt ==
  ASSUME MemoryInv, NEW p \in DOMAIN Stored
  PROVE  /\ IsLocked(p) => p \in DOMAIN View(heap) /\ Stored[p] = View(heap)[p]
         /\ ~IsLocked(p) => p = Handle(p.word) /\ p.word \in DOMAIN pageable /\ Stored[p] = pageable[p.word]
         /\ p # Null /\ AllLocked(View(heap))
<1>1. \A q \in DOMAIN View(heap) : IsLocked(q)
  BY CellOfBuffer DEF MemoryInv, IsLocked
<1>2. \A w : ~IsLocked(Handle(w)) /\ Handle(w).word = w
  BY DEF Handle, IsLocked
<1>3. p \in DOMAIN View(heap) \/ \E w \in DOMAIN pageable : p = Handle(w)
  BY DEF Stored, Store
<1>4. Stored[p] = IF IsLocked(p) THEN View(heap)[p] ELSE pageable[p.word]
  BY DEF Stored, Store
<1>5. p # Null
  <2>1. \A w \in DOMAIN pageable : w # None
    BY DEF MemoryInv, None
  <2> QED
    BY <1>1, <1>2, <1>3, <2>1 DEF Null, IsLocked, Handle
<1> QED
  BY <1>1, <1>2, <1>3, <1>4, <1>5 DEF AllLocked

\* Every buffer of the view is in a block.
LEMMA LockedViewOnly == ASSUME MemoryInv PROVE AllLocked(View(heap))
BY CellOfBuffer DEF MemoryInv, IsLocked, AllLocked

\* The handle of a new fallback buffer is free.
LEMMA NewHandleFree ==
  ASSUME MemoryInv
  PROVE  NewHandle \in Nat \ {0} /\ NewHandle \notin DOMAIN pageable
<1> DEFINE n == Cardinality(DOMAIN pageable)
           S == 1..(n + 1)
<1>1. IsFiniteSet(DOMAIN pageable) /\ n \in Nat
  BY FS_CardinalityType DEF MemoryInv
<1>2. Cardinality(S) = n + 1
  <2> HIDE DEF n
  <2>1. n + 1 \in Int /\ 1 \in Int /\ (n + 1) - 1 + 1 = n + 1
    BY <1>1
  <2> QED
    BY <1>1, <2>1, FS_Interval DEF S
<1>3. ~(S \subseteq DOMAIN pageable)
  BY <1>1, <1>2, FS_Subset
<1>4. \E i \in S : i \notin DOMAIN pageable
  BY <1>3
<1>5. NewHandle \in S /\ NewHandle \notin DOMAIN pageable
  BY <1>4 DEF NewHandle
<1> QED
  BY <1>1, <1>5

---------------------------------------------------------------------------
(* What each section does to the store.                                     *)

\* The invariants of the memory are kept, and the store becomes s.
MemoryIs(s) == MemoryInv' /\ IdleInv' /\ Stored' = s

\* A section that turns the view of the heap into v.
LEMMA LockedEffect ==
  ASSUME MemoryInv, IdleInv, NEW v, Turned(heap, heap', v), UNCHANGED pageable, starved => starved'
  PROVE  MemoryIs(Store(v, pageable))
<1>1. MemoryInv' /\ View(heap') = v /\ NoNewIdle(heap, heap')
  BY DEF Turned, MemoryInv
<1>2. IdleInv'
  BY <1>1 DEF NoNewIdle, IdleInv
<1>3. Stored' = Store(View(heap'), pageable')
  BY DEF Stored
<1> QED
  BY <1>1, <1>2, <1>3 DEF MemoryIs

\* A step that changes pageable memory only.
LEMMA PageableEffect ==
  ASSUME MemoryInv, IdleInv, UNCHANGED heap, starved => starved',
         IsFiniteSet(DOMAIN pageable'), DOMAIN pageable' \subseteq Nat \ {0}
  PROVE  MemoryIs(Store(View(heap), pageable'))
<1>1. MemoryInv'
  BY DEF MemoryInv
<1>2. IdleInv'
  BY DEF IdleInv
<1>3. Stored' = Store(View(heap'), pageable')
  BY DEF Stored
<1> QED
  BY <1>1, <1>2, <1>3 DEF MemoryIs

\* egg_secure_free_full: the buffer goes and no other changes.
LEMMA FreeEffect ==
  ASSUME MemoryInv, IdleInv, NEW p \in DOMAIN Stored, FreeMemory(p), UNCHANGED starved
  PROVE  MemoryIs(Without(Stored, {p}))
<1>0. AllLocked(View(heap))
  BY LockedViewOnly
<1>1. CASE IsLocked(p)
  <2>1. p \in DOMAIN View(heap) /\ heap' = Release(heap, p) /\ UNCHANGED pageable
    BY <1>1, StoreAt DEF FreeMemory
  <2>2. Turned(heap, heap', Without(View(heap), {p}))
    BY <2>1, FreeAt DEF MemoryInv
  <2>3. MemoryIs(Store(Without(View(heap), {p}), pageable))
    BY <2>1, <2>2, LockedEffect
  <2> QED
    BY <1>0, <1>1, <2>3, StoreWithout DEF Stored
<1>2. CASE ~IsLocked(p)
  <2>1. p = Handle(p.word) /\ p.word \in DOMAIN pageable
        /\ pageable' = Without(pageable, {p.word}) /\ UNCHANGED heap
    BY <1>2, StoreAt DEF FreeMemory
  <2>2. DOMAIN pageable' = DOMAIN pageable \ {p.word}
    BY <2>1 DEF Without
  <2>3. IsFiniteSet(DOMAIN pageable') /\ DOMAIN pageable' \subseteq Nat \ {0}
    BY <2>2, FS_Subset DEF MemoryInv
  <2>4. MemoryIs(Store(View(heap), pageable'))
    BY <2>1, <2>3, PageableEffect
  <2>5. Store(View(heap), pageable') = Without(Store(View(heap), pageable), {Handle(p.word)})
    BY <1>0, <2>1, StoreWithoutHandle
  <2> QED
    BY <2>1, <2>4, <2>5 DEF Stored
<1> QED
  BY <1>1, <1>2

\* A pageable buffer gets other words.
LEMMA PageableSet ==
  ASSUME MemoryInv, IdleInv, NEW p \in DOMAIN Stored, ~IsLocked(p), NEW x,
         pageable' = [pageable EXCEPT ![p.word] = x], UNCHANGED <<heap, starved>>
  PROVE  MemoryIs([Stored EXCEPT ![p] = x])
<1>0. AllLocked(View(heap))
  BY LockedViewOnly
<1>1. p = Handle(p.word) /\ p.word \in DOMAIN pageable
  BY StoreAt
<1>2. DOMAIN pageable' = DOMAIN pageable
  OBVIOUS
<1>3. IsFiniteSet(DOMAIN pageable') /\ DOMAIN pageable' \subseteq Nat \ {0}
  BY <1>2 DEF MemoryInv
<1>4. MemoryIs(Store(View(heap), pageable'))
  BY <1>3, PageableEffect
<1>5. Store(View(heap), pageable') = [Store(View(heap), pageable) EXCEPT ![Handle(p.word)] = x]
  <2>1. pageable' = [pageable EXCEPT ![p.word] = x]
    OBVIOUS
  <2> QED
    <3> DEFINE v == View(heap)
               g == pageable
               m == pageable'
               w == p.word
    <3>1. AllLocked(v) /\ w \in DOMAIN g /\ m = Changed(g, w, x)
      BY <1>0, <1>1, <2>1 DEF Changed
    <3> HIDE DEF v, g, m, w
    <3>2. Store(v, m) = Changed(Store(v, g), Handle(w), x)
      BY ONLY <3>1, StoreExceptHandle
    <3> QED
      BY <3>2 DEF v, g, m, w, Changed
<1> QED
  BY <1>1, <1>4, <1>5 DEF Stored

\* A step that rewrites one locked buffer.
LEMMA LockedSet ==
  ASSUME MemoryInv, IdleInv, NEW p \in DOMAIN Stored, IsLocked(p), NEW x,
         Turned(heap, heap', [View(heap) EXCEPT ![p] = x]), UNCHANGED <<pageable, starved>>
  PROVE  MemoryIs([Stored EXCEPT ![p] = x])
<1>0. AllLocked(View(heap))
  BY LockedViewOnly
<1>1. p \in DOMAIN View(heap)
  BY StoreAt
<1>2. MemoryIs(Store([View(heap) EXCEPT ![p] = x], pageable))
  BY LockedEffect
<1>3. Store([View(heap) EXCEPT ![p] = x], pageable) = [Store(View(heap), pageable) EXCEPT ![p] = x]
  BY <1>0, <1>1, StoreExcept
<1> QED
  BY <1>2, <1>3 DEF Stored

\* The owner's write changes its buffer only.
LEMMA WriteEffect ==
  ASSUME MemoryInv, IdleInv, NEW p \in DOMAIN Stored, NEW n \in Nat, DOMAIN Stored[p] = 1..n, NEW x,
         IF IsLocked(p)
         THEN heap' = Fill(heap, p.block, p.word, p.word + n, x) /\ UNCHANGED pageable
         ELSE pageable' = [pageable EXCEPT ![p.word] = [i \in DOMAIN @ |-> x]] /\ UNCHANGED heap,
         UNCHANGED starved
  PROVE  MemoryIs([Stored EXCEPT ![p] = [i \in 1..n |-> x]])
<1> DEFINE z == [i \in 1..n |-> x]
<1>1. CASE IsLocked(p)
  <2>1. p \in DOMAIN View(heap) /\ Stored[p] = View(heap)[p]
    BY <1>1, StoreAt
  <2>2. heap' = Fill(heap, p.block, p.word, p.word + n, x) /\ UNCHANGED pageable
    BY <1>1
  <2>3. Turned(heap, heap', [View(heap) EXCEPT ![p] = z])
    <3>1. DOMAIN View(heap)[p] = 1..n /\ Sound(heap) /\ Private(heap) /\ n \in Nat
      BY <2>1 DEF MemoryInv
    <3>2. Turned(heap, heap', [View(heap) EXCEPT ![p] = [i \in 1..n |-> x]])
      BY ONLY <2>1, <2>2, <3>1, FillAt
    <3> QED
      BY <3>2
  <2> HIDE DEF z
  <2>4. MemoryIs([Stored EXCEPT ![p] = z])
    BY <1>1, <2>2, <2>3, LockedSet
  <2> QED
    BY <2>4 DEF z
<1>2. CASE ~IsLocked(p)
  <2>1. p.word \in DOMAIN pageable /\ pageable[p.word] = Stored[p]
    BY <1>2, StoreAt
  <2>2. pageable' = [pageable EXCEPT ![p.word] = z] /\ UNCHANGED heap
    BY <1>2, <2>1
  <2> HIDE DEF z
  <2>3. MemoryIs([Stored EXCEPT ![p] = z])
    BY <1>2, <2>2, PageableSet
  <2> QED
    BY <2>3 DEF z
<1> QED
  BY <1>1, <1>2

\* memcpy in donew: the new buffer starts with the words of the old one.
LEMMA CopyEffect ==
  ASSUME MemoryInv, IdleInv, NEW p \in DOMAIN Stored, IsLocked(p), NEW q \in DOMAIN Stored,
         NEW n \in Nat, DOMAIN Stored[p] = 1..n, NEW length \in Nat, DOMAIN Stored[q] = 1..length,
         n <= length,
         IF IsLocked(q) THEN heap' = Copy(heap, p, q, n) /\ UNCHANGED pageable
         ELSE /\ pageable' = [pageable EXCEPT ![q.word] =
                   [i \in DOMAIN @ |-> IF i <= n THEN heap.mem[p.block][p.word + i - 1] ELSE @[i]]]
              /\ UNCHANGED heap,
         UNCHANGED starved
  PROVE  MemoryIs([Stored EXCEPT ![q] = [i \in 1..length |->
                     IF i <= n THEN Stored[p][i] ELSE Stored[q][i]]])
<1> DEFINE z == [i \in 1..length |-> IF i <= n THEN Stored[p][i] ELSE Stored[q][i]]
<1>0. p \in DOMAIN View(heap) /\ Stored[p] = View(heap)[p]
  BY StoreAt
<1>1. CASE IsLocked(q)
  <2>1. q \in DOMAIN View(heap) /\ Stored[q] = View(heap)[q]
    BY <1>1, StoreAt
  <2>2. heap' = Copy(heap, p, q, n) /\ UNCHANGED pageable
    BY <1>1
  <2>3. Turned(heap, heap', [View(heap) EXCEPT ![q] = [i \in 1..length |->
                 IF i <= n THEN View(heap)[p][i] ELSE View(heap)[q][i]]])
    BY <1>0, <2>1, <2>2, CopyAt DEF MemoryInv
  <2>4. Turned(heap, heap', [View(heap) EXCEPT ![q] = z])
    BY <1>0, <2>1, <2>3
  <2> HIDE DEF z
  <2>5. MemoryIs([Stored EXCEPT ![q] = z])
    BY <1>1, <2>2, <2>4, LockedSet
  <2> QED
    BY <2>5 DEF z
<1>2. CASE ~IsLocked(q)
  <2>1. q.word \in DOMAIN pageable /\ pageable[q.word] = Stored[q]
    BY <1>2, StoreAt
  <2>2. \A i \in 1..length : i <= n => heap.mem[p.block][p.word + i - 1] = Stored[p][i]
    <3>1. ASSUME NEW i \in 1..length, i <= n PROVE i \in DOMAIN View(heap)[p]
      BY <1>0, <3>1
    <3> QED
      BY <1>0, <3>1, ViewWords DEF MemoryInv
  <2>3. pageable' = [pageable EXCEPT ![q.word] = z] /\ UNCHANGED heap
    <3>1. pageable' = [pageable EXCEPT ![q.word] =
             [i \in 1..length |-> IF i <= n THEN heap.mem[p.block][p.word + i - 1] ELSE Stored[q][i]]]
      BY <1>2, <2>1
    <3>2. [i \in 1..length |-> IF i <= n THEN heap.mem[p.block][p.word + i - 1] ELSE Stored[q][i]] = z
      BY <2>2
    <3> QED
      BY <1>2, <3>1, <3>2
  <2> HIDE DEF z
  <2>4. MemoryIs([Stored EXCEPT ![q] = z])
    BY <1>2, <2>3, PageableSet
  <2> QED
    BY <2>4 DEF z
<1> QED
  BY <1>1, <1>2

\* The store when the buffer at p becomes one at q.
Moved(s, p, q, x) == With(Without(s, {p}), q, x)

\* egg_secure_realloc_full under the lock: the buffer is resized, perhaps moved, or stays and
\* is shorter than what is asked for.
LEMMA ReallocEffect ==
  ASSUME MemoryInv, IdleInv, NEW p \in DOMAIN Stored, IsLocked(p), NEW length \in Nat \ {0},
         NEW r \in SecRealloc(heap, CellOf(heap, p), length),
         heap' = SecBlockRelease(r.heap, p.block), UNCHANGED <<pageable, starved>>,
         NEW q, q = Address(r.heap, r.cell)
  PROVE  \/ /\ r.cell = None /\ MemoryIs(Stored)
            /\ \A n \in Nat : DOMAIN Stored[p] = 1..n => n < length
         \/ /\ r.cell # None /\ IsLocked(q) /\ q \notin DOMAIN Stored \ {p}
            /\ \E x : ResizedTo(Stored[p], x, length) /\ MemoryIs(Moved(Stored, p, q, x))
<1>0. /\ AllLocked(View(heap))
      /\ p \in DOMAIN View(heap) /\ Stored[p] = View(heap)[p]
  BY LockedViewOnly, StoreAt
<1>1. \/ /\ r.cell = None /\ Turned(heap, heap', View(heap))
         /\ \A n \in Nat : DOMAIN View(heap)[p] = 1..n => n < length
      \/ /\ r.cell # None /\ NoNewIdle(heap, heap')
         /\ Rewritten(heap, heap', p, q, length)
         /\ q.block # None
  BY <1>0, ReallocAt DEF MemoryInv
<1>2. CASE /\ r.cell = None /\ Turned(heap, heap', View(heap))
           /\ \A n \in Nat : DOMAIN View(heap)[p] = 1..n => n < length
  <2>1. MemoryIs(Store(View(heap), pageable))
    BY <1>2, LockedEffect
  <2> QED
    BY <1>0, <1>2, <2>1 DEF Stored
<1>3. CASE /\ r.cell # None /\ NoNewIdle(heap, heap')
           /\ Rewritten(heap, heap', p, q, length) /\ q.block # None
  <2> DEFINE x == View(heap')[q]
             v == Without(View(heap), {p})
  <2>1. /\ Turned(heap, heap', With(v, q, x)) /\ ResizedTo(Stored[p], x, length)
        /\ q \notin DOMAIN View(heap) \ {p}
    BY <1>0, <1>3 DEF Turned, Rewritten
  <2>2. IsLocked(q)
    BY <1>3 DEF IsLocked
  <2> HIDE DEF x
  <2>3. q \notin DOMAIN Stored \ {p}
    BY <2>1, <2>2, StoreAt
  <2>4. MemoryIs(Store(With(v, q, x), pageable))
    BY <2>1, LockedEffect
  <2>5. Store(v, pageable) = Without(Stored, {p}) /\ AllLocked(v)
    <3>1. Store(v, pageable) = Without(Store(View(heap), pageable), {p})
      BY <1>0, StoreWithout
    <3> QED
      BY <1>0, <3>1 DEF Stored, Without, AllLocked
  <2> HIDE DEF v
  <2>6. Store(With(v, q, x), pageable) = With(Store(v, pageable), q, x)
    BY <2>2, <2>5, StoreWith
  <2> QED
    BY <1>3, <2>1, <2>2, <2>3, <2>4, <2>5, <2>6 DEF Moved
<1> QED
  BY <1>1, <1>2, <1>3

\* The fallback's realloc keeps the words both sizes have.
LEMMA FallbackEffect ==
  ASSUME MemoryInv, IdleInv, NEW p \in DOMAIN Stored, ~IsLocked(p), NEW length \in Nat,
         pageable' = [pageable EXCEPT ![p.word] =
                        [i \in 1..length |-> IF i \in DOMAIN @ THEN @[i] ELSE Zero]],
         UNCHANGED <<heap, starved>>
  PROVE  \E x : ResizedTo(Stored[p], x, length) /\ MemoryIs([Stored EXCEPT ![p] = x])
<1> DEFINE x == [i \in 1..length |-> IF i \in DOMAIN Stored[p] THEN Stored[p][i] ELSE Zero]
<1>1. p.word \in DOMAIN pageable /\ pageable[p.word] = Stored[p]
  BY StoreAt
<1>2. pageable' = [pageable EXCEPT ![p.word] = x]
  BY <1>1
<1>3. ResizedTo(Stored[p], x, length)
  BY NotData DEF ResizedTo
<1> HIDE DEF x
<1>4. MemoryIs([Stored EXCEPT ![p] = x])
  BY <1>2, PageableSet
<1> QED
  BY <1>3, <1>4

\* An allocation gives a zeroed buffer where there was none, or nothing at all.
LEMMA ReceiveEffect ==
  ASSUME MemoryInv, IdleInv, NEW length \in Lengths, NEW o \in Outcomes(length), Receive(o, length)
  PROVE  /\ starved => starved'
         /\ o.ptr = Null => MemoryIs(Stored)
         /\ o.ptr # Null =>
              /\ o.ptr \notin DOMAIN Stored /\ MemoryIs(With(Stored, o.ptr, Zeros(length)))
              /\ Excused(o.ptr, o.cause, starved')
<1>0. /\ AllLocked(View(heap))
      /\ length \in Nat \ {0} /\ Sound(heap) /\ Private(heap)
  BY LockedViewOnly, HeapAssumption DEF MemoryInv
<1>1. starved => starved'
  BY DEF Receive
<1>2. CASE \E r \in Allocate(heap, length) : r.cell # None /\
             o = [heap |-> r.heap, ptr |-> Address(r.heap, r.cell), cause |-> "locked", starved |-> FALSE]
  <2>1. PICK r \in Allocate(heap, length) : r.cell # None /\
             o = [heap |-> r.heap, ptr |-> Address(r.heap, r.cell), cause |-> "locked", starved |-> FALSE]
    BY <1>2
  <2> DEFINE q == Address(r.heap, r.cell)
  <2>2. Supplied(heap, r.heap, q, length)
    BY <1>0, <2>1, AllocateSound
  <2>3. q # Null /\ IsLocked(q)
    BY <2>2 DEF Supplied, IsLocked, Null
  <2>4. o.heap = r.heap /\ o.ptr = q /\ heap' = r.heap /\ UNCHANGED pageable
    BY <2>1, <2>3 DEF Receive
  <2> HIDE DEF q
  <2>5. /\ Turned(heap, heap', With(View(heap), q, Zeros(length))) /\ q \notin DOMAIN View(heap)
    BY <2>2, <2>4 DEF Supplied
  <2>6. MemoryIs(Store(With(View(heap), q, Zeros(length)), pageable))
    BY <1>1, <2>4, <2>5, LockedEffect
  <2>7. MemoryIs(With(Stored, q, Zeros(length)))
    <3>1. Store(With(View(heap), q, Zeros(length)), pageable) = With(Store(View(heap), pageable), q, Zeros(length))
      BY <1>0, <2>3, StoreWith
    <3> QED
      BY <2>6, <3>1 DEF Stored
  <2>8. q \notin DOMAIN Stored
    BY <2>3, <2>5, StoreAt
  <2> QED
    BY <1>1, <2>3, <2>4, <2>7, <2>8 DEF Excused
<1>3. CASE \E r \in Allocate(heap, length), p \in {Null, [block |-> None, word |-> NewHandle]} :
             /\ r.cell = None /\ o.heap = r.heap /\ o.ptr = p
             /\ o.cause = IF CanCreate(heap, length) THEN "misfit" ELSE "refused"
             /\ o.starved = (PoolFree(r.heap) = {})
  <2>1. PICK r \in Allocate(heap, length) :
             /\ r.cell = None /\ o.heap = r.heap /\ o.ptr \in {Null, Handle(NewHandle)}
             /\ o.cause = IF CanCreate(heap, length) THEN "misfit" ELSE "refused"
             /\ o.starved = (PoolFree(r.heap) = {})
    BY <1>3 DEF Handle
  <2>2. heap' = r.heap /\ (PoolFree(r.heap) = {} => starved')
    BY <2>1 DEF Receive
  <2>3. Refused(heap, heap', length)
        /\ (CanCreate(heap, length) => Misfit(length) \/ PoolFree(heap') = {})
    BY <1>0, <2>1, <2>2, AllocateSound
  <2>4. IdleInv'
    <3>1. CASE NoNewIdle(heap, heap')
      BY <1>1, <3>1 DEF NoNewIdle, IdleInv
    <3>2. CASE /\ \A b \in DOMAIN heap'.block : heap'.block[b].n_used = 0 =>
                    \/ b \in DOMAIN heap.block /\ heap'.block[b] = heap.block[b]
                    \/ heap'.block[b].n_words = BlockWords(length)
               /\ Misfit(length) \/ PoolFree(heap') = {}
      BY <1>1, <2>2, <3>2 DEF IdleInv
    <3> QED
      BY <2>3, <3>1, <3>2 DEF Refused
  <2>5. Sound(heap') /\ Private(heap') /\ View(heap') = View(heap)
    BY <2>3 DEF Refused
  <2>6. CASE o.ptr = Null
    <3>1. UNCHANGED pageable
      BY <2>6 DEF Receive
    <3>2. MemoryInv' /\ Stored' = Stored
      BY <2>5, <3>1 DEF MemoryInv, Stored
    <3> QED
      BY <1>1, <2>4, <2>6, <3>2 DEF MemoryIs
  <2>7. CASE o.ptr = Handle(NewHandle)
    <3> DEFINE w == NewHandle
    <3>1. w \in Nat \ {0} /\ w \notin DOMAIN pageable
      BY NewHandleFree
    <3> HIDE DEF w
    <3>2. o.ptr = Handle(w) /\ o.ptr.word = w /\ ~IsLocked(o.ptr) /\ o.ptr # Null
      BY <2>7, <3>1 DEF Handle, Null, IsLocked, None, w
    <3>3. pageable' = With(pageable, w, Zeros(length))
      BY <3>2 DEF Receive
    <3>4. DOMAIN pageable' = DOMAIN pageable \cup {w}
      BY <3>3 DEF With
    <3>5. MemoryInv'
      <4>1. IsFiniteSet(DOMAIN pageable')
        BY <3>4, FS_AddElement DEF MemoryInv
      <4> QED
        BY <2>5, <3>1, <3>4, <4>1 DEF MemoryInv
    <3>6. Stored' = With(Stored, o.ptr, Zeros(length))
      <4>1. Store(View(heap), pageable') = With(Store(View(heap), pageable), Handle(w), Zeros(length))
        BY <1>0, <3>3, StoreWithHandle
      <4> QED
        BY <2>5, <3>2, <4>1 DEF Stored
    <3>7. o.ptr \notin DOMAIN Stored
      BY <3>1, <3>2, StoreAt
    <3>8. Excused(o.ptr, o.cause, starved')
      BY <2>1, <2>2, <2>3 DEF Excused
    <3> QED
      BY <1>1, <2>4, <3>2, <3>5, <3>6, <3>7, <3>8 DEF MemoryIs
  <2> QED
    BY <2>1, <2>6, <2>7
<1> QED
  <2>1. (\E r \in Allocate(heap, length) : r.cell # None /\
             o = [heap |-> r.heap, ptr |-> Address(r.heap, r.cell), cause |-> "locked", starved |-> FALSE])
        \/ \E r \in Allocate(heap, length), p \in {Null, [block |-> None, word |-> NewHandle]} :
             /\ r.cell = None
             /\ o = [heap |-> r.heap, ptr |-> p,
                     cause |-> IF CanCreate(heap, length) THEN "misfit" ELSE "refused",
                     starved |-> PoolFree(r.heap) = {}]
    BY DEF Outcomes
  <2> QED
    BY <1>2, <1>3, <2>1

---------------------------------------------------------------------------
(* The invariant is inductive.                                              *)

\* A live buffer is held by the program, or is the new one of a reallocation.
LEMMA LiveIs ==
  \A p : p \in Live <=> p \in DOMAIN buf \/ \E t \in Threads : Moving(t) /\ p = call[t].new
BY DEF Live, InFlight, Moving

\* The facts about one buffer, or one thread, that the steps need.
LEMMA BufferFacts ==
  ASSUME Inv, NEW t \in Threads, NEW p \in Mine(t)
  PROVE  /\ p \in DOMAIN buf /\ p \in DOMAIN Stored /\ buf[p].owner = t
         /\ buf[p].length \in Lengths /\ buf[p].length \in Nat \ {0}
         /\ Owned(Stored[p], buf[p].length, t) /\ DOMAIN Stored[p] = 1..buf[p].length
<1>1. p \in DOMAIN buf /\ buf[p].owner = t
  BY DEF Mine
<1>2. p \in DOMAIN Stored
  BY <1>1 DEF Inv, StoreInv, Live
<1>3. buf[p].length \in Lengths /\ buf[p].length \in Nat \ {0}
  BY <1>1, HeapAssumption DEF Inv, BufInv
<1>4. Owned(Stored[p], buf[p].length, t)
  BY <1>1 DEF Inv, StoreInv
<1> QED
  BY <1>1, <1>2, <1>3, <1>4 DEF Owned

\* What is known of a reallocation under way.
LEMMA CallFacts ==
  ASSUME Inv, NEW t \in Threads, call[t].at # "idle"
  PROVE  /\ call[t].ptr \in Mine(t) /\ IsLocked(call[t].ptr)
         /\ call[t].length \in Lengths /\ call[t].length \in Nat \ {0}
         /\ buf[call[t].ptr].length < call[t].length
         /\ Moving(t) => /\ call[t].new \notin DOMAIN buf /\ call[t].new \in DOMAIN Stored
                         /\ Owned(Stored[call[t].new], call[t].length, t)
                         /\ DOMAIN Stored[call[t].new] = 1..call[t].length
<1>1. /\ call[t].ptr \in Mine(t) /\ IsLocked(call[t].ptr) /\ call[t].length \in Lengths
      /\ buf[call[t].ptr].length < call[t].length /\ (Moving(t) => call[t].new \notin DOMAIN buf)
  BY DEF Inv, CallInv
<1>2. Moving(t) => call[t].new \in DOMAIN Stored
  BY LiveIs DEF Inv, StoreInv
<1>3. Moving(t) => Owned(Stored[call[t].new], call[t].length, t)
  BY DEF Inv, StoreInv
<1> QED
  BY <1>1, <1>2, <1>3, HeapAssumption DEF Owned

\* A step that changes the words only.
LEMMA SameCall ==
  ASSUME Inv, UNCHANGED <<buf, call>>, starved => starved'
  PROVE  BufInv' /\ CallInv' /\ CauseInv' /\ Live' = Live
<1>1. BufInv'
  BY DEF Inv, BufInv
<1>2. CallInv'
  BY DEF Inv, CallInv, Moving, Mine
<1>3. CauseInv'
  BY DEF Inv, CauseInv, Excused, Moving
<1>4. Live' = Live
  BY DEF Live, InFlight
<1> QED
  BY <1>1, <1>2, <1>3, <1>4

\* The program gets a buffer,
LEMMA BufAdded ==
  ASSUME BufInv, NEW q, q \notin DOMAIN buf, Cardinality(DOMAIN buf) < MaxBuffers, NEW r,
         r.owner \in Threads, r.length \in Lengths, buf' = With(buf, q, r)
  PROVE  BufInv'
<1>1. DOMAIN buf' = DOMAIN buf \cup {q} /\ buf'[q] = r /\ \A p \in DOMAIN buf : buf'[p] = buf[p]
  BY DEF With
<1>2. IsFiniteSet(DOMAIN buf) /\ MaxBuffers \in Nat /\ Cardinality(DOMAIN buf) \in Nat
  BY HeapAssumption, FS_CardinalityType DEF BufInv
<1>3. IsFiniteSet(DOMAIN buf') /\ Cardinality(DOMAIN buf') = Cardinality(DOMAIN buf) + 1
  <2> DEFINE S == DOMAIN buf
  <2>1. IsFiniteSet(S) /\ q \notin S
    BY <1>2
  <2> HIDE DEF S
  <2>2. IsFiniteSet(S \cup {q}) /\ Cardinality(S \cup {q}) = Cardinality(S) + 1
    BY <2>1, FS_AddElement
  <2> QED
    BY <1>1, <2>2 DEF S
<1> QED
  BY <1>1, <1>2, <1>3 DEF BufInv

\* gives one back,
LEMMA BufRemoved ==
  ASSUME BufInv, NEW p \in DOMAIN buf, NEW S, S = DOMAIN buf \ {p}
  PROVE  IsFiniteSet(S) /\ Cardinality(S) \in Nat /\ Cardinality(S) + 1 <= MaxBuffers
<1> DEFINE D == DOMAIN buf
<1>1. IsFiniteSet(D) /\ MaxBuffers \in Nat /\ Cardinality(D) \in Nat /\ Cardinality(D) <= MaxBuffers
  BY HeapAssumption, FS_CardinalityType DEF BufInv
<1>2. p \in D /\ S = D \ {p}
  OBVIOUS
<1> HIDE DEF D
<1>3. IsFiniteSet(S) /\ Cardinality(S) = Cardinality(D) - 1
  BY <1>1, <1>2, FS_RemoveElement
<1>4. Cardinality(S) \in Nat
  BY <1>3, FS_CardinalityType
<1> QED
  BY <1>1, <1>3, <1>4

\* or has one replaced.
LEMMA BufReplaced ==
  ASSUME BufInv, NEW p \in DOMAIN buf, NEW q, q \notin DOMAIN buf \ {p}, NEW length \in Lengths, NEW cause,
         Replace(p, q, length, cause)
  PROVE  /\ BufInv' /\ DOMAIN buf' = (DOMAIN buf \ {p}) \cup {q}
         /\ buf'[q] = [owner |-> buf[p].owner, length |-> length, cause |-> cause]
         /\ \A a \in DOMAIN buf \ {p} : a # q /\ buf'[a] = buf[a]
<1>1. /\ DOMAIN buf' = (DOMAIN buf \ {p}) \cup {q}
      /\ buf'[q] = [owner |-> buf[p].owner, length |-> length, cause |-> cause]
      /\ \A a \in DOMAIN buf \ {p} : a # q /\ buf'[a] = buf[a]
  BY DEF Replace, With, Without
<1> DEFINE S == DOMAIN buf \ {p}
<1>2. IsFiniteSet(S) /\ Cardinality(S) \in Nat /\ Cardinality(S) + 1 <= MaxBuffers
  BY BufRemoved
<1>3. IsFiniteSet(DOMAIN buf') /\ Cardinality(DOMAIN buf') <= MaxBuffers
  <2>1. q \notin S /\ DOMAIN buf' = S \cup {q}
    BY <1>1
  <2> HIDE DEF S
  <2>2. IsFiniteSet(S \cup {q}) /\ Cardinality(S \cup {q}) = Cardinality(S) + 1
    BY <1>2, <2>1, FS_AddElement
  <2> QED
    BY <1>2, <2>1, <2>2
<1>4. \A a \in DOMAIN buf' : buf'[a].owner \in Threads /\ buf'[a].length \in Lengths
  BY <1>1 DEF BufInv
<1> QED
  BY <1>1, <1>3, <1>4 DEF BufInv

---------------------------------------------------------------------------
(* One lemma for each action.                                               *)

\* A thread that is idle moves nothing.
LEMMA IsIdle ==
  ASSUME Inv, NEW t \in Threads, call[t] = Idle
  PROVE  call[t].at = "idle" /\ ~Moving(t)
BY DEF Idle, Moving

\* Zeroes are nobody's data.
LEMMA ZerosOwned ==
  ASSUME NEW length \in Nat, NEW t
  PROVE  Owned(Zeros(length), length, t)
BY NotData DEF Owned, Zeros

\* egg_secure_alloc_full keeps the invariant: the new address is not in use.
LEMMA AllocKeeps ==
  ASSUME Inv, NEW t \in Threads, Alloc(t)
  PROVE  Inv'
<1>0. MemoryInv /\ BufInv /\ CallInv /\ StoreInv /\ CauseInv /\ IdleInv
  BY DEF Inv
<1>a. PICK length \in Lengths : \E o \in Outcomes(length) :
        /\ Receive(o, length)
        /\ buf' = IF o.ptr = Null THEN buf
                  ELSE With(buf, o.ptr, [owner |-> t, length |-> length, cause |-> o.cause])
  BY DEF Alloc
<1>1. PICK o \in Outcomes(length) :
        /\ Receive(o, length)
        /\ buf' = IF o.ptr = Null THEN buf
                  ELSE With(buf, o.ptr, [owner |-> t, length |-> length, cause |-> o.cause])
  BY <1>a
<1>2. UNCHANGED call /\ Cardinality(DOMAIN buf) < MaxBuffers
  BY DEF Alloc
<1>3. /\ starved => starved'
      /\ o.ptr = Null => MemoryIs(Stored)
      /\ o.ptr # Null =>
           /\ o.ptr \notin DOMAIN Stored /\ MemoryIs(With(Stored, o.ptr, Zeros(length)))
           /\ Excused(o.ptr, o.cause, starved')
  BY <1>0, <1>1, ReceiveEffect
<1>4. CASE o.ptr = Null
  <2>1. UNCHANGED <<buf, call>> /\ MemoryInv' /\ IdleInv' /\ Stored' = Stored
    BY <1>1, <1>2, <1>3, <1>4 DEF MemoryIs
  <2>2. BufInv' /\ CallInv' /\ CauseInv' /\ Live' = Live
    BY <1>3, <2>1, SameCall
  <2>3. StoreInv'
    BY <1>0, <2>1, <2>2 DEF StoreInv, Moving
  <2> QED
    BY <2>1, <2>2, <2>3 DEF Inv
<1>5. CASE o.ptr # Null
  <2> DEFINE q == o.ptr
             r == [owner |-> t, length |-> length, cause |-> o.cause]
  <2>1. buf' = With(buf, q, r) /\ q \notin DOMAIN Stored /\ Excused(q, o.cause, starved')
    BY <1>1, <1>3, <1>5
  <2>2. MemoryInv' /\ IdleInv' /\ Stored' = With(Stored, q, Zeros(length))
    BY <1>3, <1>5 DEF MemoryIs
  <2>3. r.owner = t /\ r.length = length /\ r.cause = o.cause
    OBVIOUS
  <2> HIDE DEF q, r
  <2>4. /\ DOMAIN buf' = DOMAIN buf \cup {q} /\ buf'[q] = r /\ \A p \in DOMAIN buf : buf'[p] = buf[p]
        /\ DOMAIN Stored' = DOMAIN Stored \cup {q} /\ Stored'[q] = Zeros(length)
        /\ \A p \in DOMAIN Stored : Stored'[p] = Stored[p]
    <3>1. q \notin DOMAIN buf
      BY <1>0, <2>1, LiveIs DEF StoreInv
    <3> QED
      BY <2>1, <2>2, <3>1 DEF With
  <2>5. q \notin DOMAIN buf /\ \A u \in Threads : Moving(u) => call[u].new # q /\ call[u].new \in DOMAIN Stored
    BY <1>0, <2>1, LiveIs DEF StoreInv
  <2>6. BufInv'
    BY <1>0, <1>2, <2>1, <2>3, <2>5, BufAdded
  <2>7. CallInv'
    <3>1. \A u \in Threads : Moving(u)' <=> Moving(u)
      BY <1>2 DEF Moving
    <3>2. \A u \in Threads : Mine(u) \subseteq Mine(u)'
      BY <2>4 DEF Mine
    <3>3. \A u \in Threads : \A p \in Mine(u) : buf'[p] = buf[p]
      BY <2>4 DEF Mine
    <3> QED
      BY <1>0, <1>2, <2>4, <2>5, <3>1, <3>2, <3>3 DEF CallInv
  <2>8. StoreInv'
    <3>1. DOMAIN Stored' = Live'
      <4>1. \A p : p \in Live' <=> p \in DOMAIN buf' \/ \E u \in Threads : Moving(u) /\ p = call[u].new
        BY <1>2 DEF Live, InFlight, Moving
      <4> QED
        BY <1>0, <2>4, <4>1, LiveIs DEF StoreInv
    <3>2. \A p \in DOMAIN buf : p \in DOMAIN Stored
      BY <1>0, LiveIs DEF StoreInv
    <3>3. length \in Nat
      BY HeapAssumption
    <3>4. \A p \in DOMAIN buf' : Owned(Stored'[p], buf'[p].length, buf'[p].owner)
      BY <1>0, <2>3, <2>4, <3>2, <3>3, ZerosOwned DEF StoreInv
    <3>5. \A u \in Threads : Moving(u)' => Owned(Stored'[call'[u].new], call'[u].length, u)
      BY <1>0, <1>2, <2>4, <2>5 DEF StoreInv, Moving
    <3>6. ASSUME NEW u \in Threads, call'[u].at = "free", NEW i \in 1..buf'[call'[u].ptr].length
          PROVE  Stored'[call'[u].new][i] = Stored'[call'[u].ptr][i]
      <4>1. call[u].at = "free" /\ Moving(u) /\ call' = call
        BY <1>2, <3>6 DEF Moving
      <4>2. call[u].ptr \in DOMAIN buf /\ call[u].ptr \in DOMAIN Stored
        BY <1>0, <3>2, <4>1 DEF CallInv, Mine
      <4> QED
        BY <1>0, <2>4, <2>5, <3>6, <4>1, <4>2 DEF StoreInv
    <3> QED
      BY <3>1, <3>4, <3>5, <3>6 DEF StoreInv
  <2>9. CauseInv'
    <3>1. \A p, c : Excused(p, c, starved) => Excused(p, c, starved')
      BY <1>3 DEF Excused
    <3>2. \A p \in DOMAIN buf' : Excused(p, buf'[p].cause, starved')
      BY <1>0, <2>1, <2>3, <2>4, <3>1 DEF CauseInv
    <3>3. \A u \in Threads : Moving(u)' => Excused(call'[u].new, call'[u].cause, starved')
      BY <1>0, <1>2, <3>1 DEF CauseInv, Moving
    <3> QED
      BY <3>2, <3>3 DEF CauseInv
  <2> QED
    BY <2>2, <2>6, <2>7, <2>8, <2>9 DEF Inv
<1> QED
  BY <1>4, <1>5

\* The owner's write does: its buffer is not read by a reallocation of another thread.
LEMMA WriteKeeps ==
  ASSUME Inv, NEW t \in Threads, Write(t)
  PROVE  Inv'
<1>0. MemoryInv /\ BufInv /\ CallInv /\ StoreInv /\ CauseInv /\ IdleInv
  BY DEF Inv
<1>1. PICK p \in Mine(t) :
        IF IsLocked(p)
        THEN /\ heap' = Fill(heap, p.block, p.word, p.word + buf[p].length, Data(t))
             /\ UNCHANGED pageable
        ELSE /\ pageable' = [pageable EXCEPT ![p.word] = [i \in DOMAIN @ |-> Data(t)]]
             /\ UNCHANGED heap
  BY DEF Write
<1>2. UNCHANGED <<buf, call, starved>> /\ call[t].at = "idle" /\ ~Moving(t)
  BY IsIdle DEF Write
<1>3. /\ p \in DOMAIN buf /\ p \in DOMAIN Stored /\ buf[p].owner = t
      /\ buf[p].length \in Nat /\ DOMAIN Stored[p] = 1..buf[p].length
  BY BufferFacts
<1> DEFINE n == buf[p].length
           z == [i \in 1..n |-> Data(t)]
<1>4. MemoryIs([Stored EXCEPT ![p] = z])
  <2>1. n \in Nat /\ DOMAIN Stored[p] = 1..n
    BY <1>3
  <2>2. IF IsLocked(p)
        THEN heap' = Fill(heap, p.block, p.word, p.word + n, Data(t)) /\ UNCHANGED pageable
        ELSE pageable' = [pageable EXCEPT ![p.word] = [i \in DOMAIN @ |-> Data(t)]] /\ UNCHANGED heap
    BY <1>1
  <2> HIDE DEF n
  <2> QED
    BY <1>0, <1>2, <1>3, <2>1, <2>2, WriteEffect
<1>5. Owned(z, n, t)
  BY DEF Owned
<1> HIDE DEF z
<1>6. /\ MemoryInv' /\ IdleInv' /\ DOMAIN Stored' = DOMAIN Stored /\ Stored'[p] = z
      /\ \A q \in DOMAIN Stored \ {p} : Stored'[q] = Stored[q]
  BY <1>3, <1>4 DEF MemoryIs
<1>7. BufInv' /\ CallInv' /\ CauseInv' /\ Live' = Live
  BY <1>2, SameCall
<1>8. StoreInv'
  <2>1. \A q \in DOMAIN buf : q \in DOMAIN Stored
    BY <1>0, LiveIs DEF StoreInv
  <2>2. \A u \in Threads : Moving(u) => call[u].new # p /\ call[u].new \in DOMAIN Stored
    BY <1>3, CallFacts DEF Moving
  <2>3. \A u \in Threads : call[u].at = "free" => call[u].ptr # p /\ call[u].ptr \in DOMAIN buf
    BY <1>0, <1>2, <1>3 DEF CallInv, Mine
  <2>4. \A q \in DOMAIN buf : Owned(Stored'[q], buf[q].length, buf[q].owner)
    BY <1>0, <1>3, <1>5, <1>6, <2>1 DEF StoreInv
  <2>5. \A u \in Threads : Moving(u) => Owned(Stored'[call[u].new], call[u].length, u)
    BY <1>0, <1>6, <2>2 DEF StoreInv
  <2>6. \A u \in Threads : call[u].at = "free" =>
          \A i \in 1..buf[call[u].ptr].length : Stored'[call[u].new][i] = Stored'[call[u].ptr][i]
    BY <1>0, <1>6, <2>1, <2>2, <2>3 DEF StoreInv, Moving
  <2> QED
    BY <1>0, <1>2, <1>6, <1>7, <2>4, <2>5, <2>6 DEF StoreInv, Moving
<1> QED
  BY <1>6, <1>7, <1>8 DEF Inv

\* Thread t is idle afterwards; the other threads stand where they were.
Settled(t) ==
  /\ DOMAIN call' = Threads /\ DOMAIN call'[t] = {"at", "ptr", "length", "new", "cause"}
  /\ call'[t].at = "idle" /\ \A u \in Threads \ {t} : call'[u] = call[u]

\* Nothing of another thread depends on the buffer an idle thread replaces,
LEMMA IdleSettled ==
  ASSUME Inv, NEW t \in Threads, call[t] = Idle, UNCHANGED call
  PROVE  Settled(t) /\ ~Moving(t) /\ call[t].at = "idle"
BY IsIdle DEF Settled, Inv, CallInv

\* nor on the one a reallocation gives back at its end.
LEMMA EndsSettled ==
  ASSUME Inv, NEW t \in Threads, call' = [call EXCEPT ![t] = Idle]
  PROVE  Settled(t)
BY DEF Settled, Inv, CallInv, Idle

\* The buffer of t at p becomes the one with the words x at q.
LEMMA ReplaceKeeps ==
  ASSUME Inv, NEW t \in Threads, NEW p \in Mine(t), NEW q, NEW x, NEW length \in Lengths, NEW cause,
         Replace(p, q, length, cause), MemoryInv', IdleInv', starved => starved',
         DOMAIN Stored' = (DOMAIN Stored \ {p}) \cup {q}, Stored'[q] = x,
         \A a \in DOMAIN Stored \ {p, q} : Stored'[a] = Stored[a],
         Owned(x, length, t), Excused(q, cause, starved'), Settled(t),
         \/ ~Moving(t) /\ q \notin DOMAIN Stored \ {p}
         \/ Moving(t) /\ q = call[t].new
  PROVE  Inv'
<1>0. MemoryInv /\ BufInv /\ CallInv /\ StoreInv /\ CauseInv /\ IdleInv
  BY DEF Inv
<1>1. /\ p \in DOMAIN buf /\ p \in DOMAIN Stored /\ buf[p].owner = t
      /\ \A a \in DOMAIN buf : a \in DOMAIN Stored
  BY <1>0, BufferFacts, LiveIs DEF StoreInv
<1>2. /\ q \notin DOMAIN buf \ {p}
      /\ \A u \in Threads \ {t} : Moving(u) =>
           call[u].new # q /\ call[u].new # p /\ call[u].new \in DOMAIN Stored
      /\ Moving(t) => call[t].new = q
  <2>1. \A u \in Threads : Moving(u) => call[u].new \notin DOMAIN buf /\ call[u].new \in DOMAIN Stored
    BY CallFacts DEF Moving
  <2>2. CASE ~Moving(t) /\ q \notin DOMAIN Stored \ {p}
    BY <1>1, <2>1, <2>2
  <2>3. CASE Moving(t) /\ q = call[t].new
    BY <1>0, <1>1, <2>1, <2>3 DEF CallInv
  <2> QED
    BY <2>2, <2>3
<1>3. /\ BufInv' /\ DOMAIN buf' = (DOMAIN buf \ {p}) \cup {q}
      /\ buf'[q] = [owner |-> buf[p].owner, length |-> length, cause |-> cause]
      /\ \A a \in DOMAIN buf \ {p} : a # q /\ buf'[a] = buf[a]
  BY <1>0, <1>1, <1>2, BufReplaced
<1>4. /\ buf'[q].owner = t /\ buf'[q].length = length /\ buf'[q].cause = cause
  BY <1>1, <1>3
<1>5. /\ \A u \in Threads \ {t} : Moving(u)' <=> Moving(u)
      /\ ~Moving(t)'
  BY DEF Moving, Settled
<1>6. CallInv'
  <2>1. \A u \in Threads \ {t} : Mine(u) \subseteq Mine(u)' /\ \A a \in Mine(u) : buf'[a] = buf[a]
    BY <1>1, <1>3 DEF Mine
  <2>2. \A u \in Threads \ {t} : Moving(u) => call[u].new \notin DOMAIN buf'
    BY <1>0, <1>2, <1>3 DEF CallInv
  <2>3. ASSUME NEW u \in Threads
        PROVE  /\ DOMAIN call'[u] = {"at", "ptr", "length", "new", "cause"}
               /\ call'[u].at \in {"idle", "alloc", "copy", "free"}
               /\ call'[u].at # "idle" =>
                    /\ call'[u].ptr \in Mine(u)' /\ IsLocked(call'[u].ptr)
                    /\ call'[u].length \in Lengths /\ buf'[call'[u].ptr].length < call'[u].length
               /\ Moving(u)' => call'[u].new \notin DOMAIN buf'
    <3>1. CASE u = t
      BY <1>5, <3>1 DEF Settled
    <3>2. CASE u # t
      <4>1. call'[u] = call[u]
        BY <3>2 DEF Settled
      <4>2. call[u].at # "idle" => call[u].ptr \in Mine(u)' /\ buf'[call[u].ptr] = buf[call[u].ptr]
        BY <1>0, <2>1, <3>2 DEF CallInv
      <4> QED
        BY <1>0, <1>5, <2>2, <3>2, <4>1, <4>2 DEF CallInv
    <3> QED
      BY <3>1, <3>2
  <2>4. \A u, w \in Threads : u # w /\ Moving(u)' /\ Moving(w)' => call'[u].new # call'[w].new
    BY <1>0, <1>5 DEF CallInv, Settled
  <2>5. DOMAIN call' = Threads
    BY DEF Settled
  <2> QED
    BY <2>3, <2>4, <2>5 DEF CallInv
<1>7. StoreInv'
  <2>1. DOMAIN Stored' = Live'
    <3>1. \A a : a \in Live' <=> a \in DOMAIN buf' \/ \E u \in Threads : Moving(u)' /\ a = call'[u].new
      BY DEF Live, InFlight, Moving
    <3>2. \A a : a \in Live' <=> a \in DOMAIN buf' \/ \E u \in Threads \ {t} : Moving(u) /\ a = call[u].new
      BY <1>5, <3>1 DEF Settled
    <3>3. \A a : a \in DOMAIN Stored <=> a \in DOMAIN buf \/ \E u \in Threads : Moving(u) /\ a = call[u].new
      BY <1>0, LiveIs DEF StoreInv
    <3>4. \A a : a \in DOMAIN Stored' <=> a \in Live'
      BY <1>2, <1>3, <3>2, <3>3
    <3> QED
      BY <3>4
  <2>2. \A a \in DOMAIN buf' : Owned(Stored'[a], buf'[a].length, buf'[a].owner)
    BY <1>0, <1>1, <1>3, <1>4 DEF StoreInv
  <2>3. ASSUME NEW u \in Threads, Moving(u)' PROVE Owned(Stored'[call'[u].new], call'[u].length, u)
    <3>1. u # t /\ Moving(u) /\ call'[u] = call[u]
      BY <1>5, <2>3 DEF Settled
    <3> QED
      BY <1>0, <1>2, <3>1 DEF StoreInv
  <2>4. ASSUME NEW u \in Threads, call'[u].at = "free", NEW i \in 1..buf'[call'[u].ptr].length
        PROVE  Stored'[call'[u].new][i] = Stored'[call'[u].ptr][i]
    <3>1. u # t /\ call[u].at = "free" /\ Moving(u) /\ call'[u] = call[u]
      BY <2>4 DEF Settled, Moving
    <3>2. call[u].ptr \in DOMAIN buf \ {p}
      BY <1>0, <1>1, <3>1 DEF CallInv, Mine
    <3>3. call[u].ptr \in DOMAIN Stored \ {p, q} /\ buf'[call[u].ptr] = buf[call[u].ptr]
      BY <1>1, <1>3, <3>2
    <3> QED
      BY <1>0, <1>2, <2>4, <3>1, <3>3 DEF StoreInv
  <2> QED
    BY <2>1, <2>2, <2>3, <2>4 DEF StoreInv
<1>8. CauseInv'
  <2>1. \A a, c : Excused(a, c, starved) => Excused(a, c, starved')
    BY DEF Excused
  <2>2. \A a \in DOMAIN buf' : Excused(a, buf'[a].cause, starved')
    BY <1>0, <1>3, <1>4, <2>1 DEF CauseInv
  <2>3. \A u \in Threads : Moving(u)' => Excused(call'[u].new, call'[u].cause, starved')
    BY <1>0, <1>5, <2>1 DEF CauseInv, Settled
  <2> QED
    BY <2>2, <2>3 DEF CauseInv
<1> QED
  BY <1>3, <1>6, <1>7, <1>8 DEF Inv

\* Resizing leaves no words of another thread in a buffer.
LEMMA ResizedOwned ==
  ASSUME NEW y, NEW x, NEW n \in Nat, NEW length \in Nat, NEW t, Owned(y, n, t), ResizedTo(y, x, length)
  PROVE  Owned(x, length, t)
BY DEF Owned, ResizedTo

\* egg_secure_free_full keeps the invariant.
LEMMA FreeKeeps ==
  ASSUME Inv, NEW t \in Threads, Free(t)
  PROVE  Inv'
<1>0. MemoryInv /\ BufInv /\ CallInv /\ StoreInv /\ CauseInv /\ IdleInv
  BY DEF Inv
<1>1. PICK p \in Mine(t) : FreeMemory(p) /\ buf' = Without(buf, {p})
  BY DEF Free
<1>2. UNCHANGED <<call, starved>> /\ call[t].at = "idle" /\ ~Moving(t)
  BY IsIdle DEF Free
<1>3. p \in DOMAIN buf /\ p \in DOMAIN Stored /\ buf[p].owner = t
  BY BufferFacts
<1>4. MemoryInv' /\ IdleInv' /\ Stored' = Without(Stored, {p})
  BY <1>0, <1>1, <1>2, <1>3, FreeEffect DEF MemoryIs
<1>5. /\ DOMAIN buf' = DOMAIN buf \ {p} /\ \A a \in DOMAIN buf' : buf'[a] = buf[a]
      /\ DOMAIN Stored' = DOMAIN Stored \ {p} /\ \A a \in DOMAIN Stored' : Stored'[a] = Stored[a]
  BY <1>1, <1>4 DEF Without
<1>6. BufInv'
  <2>1. IsFiniteSet(DOMAIN buf') /\ Cardinality(DOMAIN buf') \in Nat /\ Cardinality(DOMAIN buf') + 1 <= MaxBuffers
    BY <1>0, <1>3, <1>5, BufRemoved
  <2>2. Cardinality(DOMAIN buf') <= MaxBuffers
    BY <2>1, HeapAssumption
  <2> QED
    BY <1>0, <1>5, <2>1, <2>2 DEF BufInv
<1>7. /\ \A u \in Threads : Moving(u)' <=> Moving(u)
      /\ \A u \in Threads : Moving(u) => call[u].new # p /\ call[u].new \in DOMAIN Stored
      /\ \A u \in Threads : call[u].at # "idle" => call[u].ptr \in Mine(u) /\ call[u].ptr # p
      /\ \A a \in DOMAIN buf : a \in DOMAIN Stored
  <2>1. \A u \in Threads : Moving(u) => call[u].new # p /\ call[u].new \in DOMAIN Stored
    BY <1>3, CallFacts DEF Moving
  <2>2. \A u \in Threads : call[u].at # "idle" => call[u].ptr \in Mine(u) /\ call[u].ptr # p
    BY <1>0, <1>2, <1>3 DEF CallInv, Mine
  <2> QED
    BY <1>0, <1>2, <2>1, <2>2, LiveIs DEF StoreInv, Moving
<1>8. CallInv'
  <2>1. \A u \in Threads : call[u].at # "idle" =>
          call[u].ptr \in Mine(u)' /\ buf'[call[u].ptr] = buf[call[u].ptr]
    BY <1>5, <1>7 DEF Mine
  <2> QED
    BY <1>0, <1>2, <1>5, <1>7, <2>1 DEF CallInv
<1>9. StoreInv'
  <2>1. DOMAIN Stored' = Live'
    <3>1. \A a : a \in Live' <=> a \in DOMAIN buf' \/ \E u \in Threads : Moving(u) /\ a = call[u].new
      BY <1>2 DEF Live, InFlight, Moving
    <3>2. \A a : a \in DOMAIN Stored <=> a \in DOMAIN buf \/ \E u \in Threads : Moving(u) /\ a = call[u].new
      BY <1>0, LiveIs DEF StoreInv
    <3>3. \A a : a \in DOMAIN Stored' <=> a \in Live'
      BY <1>5, <1>7, <3>1, <3>2
    <3> QED
      BY <3>3
  <2>2. \A a \in DOMAIN buf' : Owned(Stored'[a], buf'[a].length, buf'[a].owner)
    BY <1>0, <1>5, <1>7 DEF StoreInv
  <2>3. \A u \in Threads : Moving(u)' => Owned(Stored'[call'[u].new], call'[u].length, u)
    BY <1>0, <1>2, <1>5, <1>7 DEF StoreInv
  <2>4. \A u \in Threads : call'[u].at = "free" =>
          \A i \in 1..buf'[call'[u].ptr].length : Stored'[call'[u].new][i] = Stored'[call'[u].ptr][i]
    <3>1. \A u \in Threads : call[u].at = "free" =>
            /\ call[u].ptr \in DOMAIN buf' /\ call[u].ptr \in DOMAIN Stored'
            /\ call[u].new \in DOMAIN Stored'
      BY <1>5, <1>7 DEF Mine, Moving
    <3> QED
      BY <1>0, <1>2, <1>5, <3>1 DEF StoreInv
  <2> QED
    BY <2>1, <2>2, <2>3, <2>4 DEF StoreInv
<1>10. CauseInv'
  BY <1>0, <1>2, <1>5, <1>7 DEF CauseInv
<1> QED
  BY <1>4, <1>6, <1>8, <1>9, <1>10 DEF Inv

\* The store after a buffer has moved.
LEMMA MovedStore ==
  ASSUME NEW s, NEW p, NEW q, NEW x, NEW m, m = Moved(s, p, q, x)
  PROVE  /\ DOMAIN m = (DOMAIN s \ {p}) \cup {q} /\ m[q] = x
         /\ \A a \in DOMAIN s \ {p, q} : m[a] = s[a]
BY DEF Moved, With, Without

\* The first section of egg_secure_realloc_full keeps the invariant.
LEMMA ReallocKeeps ==
  ASSUME Inv, NEW t \in Threads, Realloc(t)
  PROVE  Inv'
<1>0. MemoryInv /\ BufInv /\ CallInv /\ StoreInv /\ CauseInv /\ IdleInv
  BY DEF Inv
<1>1. PICK p \in Mine(t), length \in Lengths :
       /\ IsLocked(p)
       /\ length # buf[p].length
       /\ \E r \in SecRealloc(heap, CellOf(heap, p), length) :
            /\ heap' = SecBlockRelease(r.heap, p.block)
            /\ IF r.cell # None
               THEN Replace(p, Address(r.heap, r.cell), length, "locked") /\ UNCHANGED call
               ELSE /\ call' = [call EXCEPT ![t] = [Idle EXCEPT
                                   !.at = "alloc", !.ptr = p, !.length = length]]
                    /\ UNCHANGED buf
  BY DEF Realloc
<1>2. PICK r \in SecRealloc(heap, CellOf(heap, p), length) :
            /\ heap' = SecBlockRelease(r.heap, p.block)
            /\ IF r.cell # None
               THEN Replace(p, Address(r.heap, r.cell), length, "locked") /\ UNCHANGED call
               ELSE /\ call' = [call EXCEPT ![t] = [Idle EXCEPT
                                   !.at = "alloc", !.ptr = p, !.length = length]]
                    /\ UNCHANGED buf
  BY <1>1
<1>3. UNCHANGED <<pageable, starved>> /\ call[t] = Idle /\ call[t].at = "idle" /\ ~Moving(t)
  BY IsIdle DEF Realloc
<1>4. /\ p \in DOMAIN buf /\ p \in DOMAIN Stored /\ buf[p].owner = t
      /\ buf[p].length \in Nat /\ DOMAIN Stored[p] = 1..buf[p].length
      /\ Owned(Stored[p], buf[p].length, t)
  BY BufferFacts
<1>5. length \in Nat \ {0}
  BY HeapAssumption
<1> DEFINE q == Address(r.heap, r.cell)
<1>6. \/ /\ r.cell = None /\ MemoryIs(Stored)
         /\ \A n \in Nat : DOMAIN Stored[p] = 1..n => n < length
      \/ /\ r.cell # None /\ IsLocked(q) /\ q \notin DOMAIN Stored \ {p}
         /\ \E x : ResizedTo(Stored[p], x, length) /\ MemoryIs(Moved(Stored, p, q, x))
  BY <1>0, <1>1, <1>2, <1>3, <1>4, <1>5, ReallocEffect
<1>7. CASE /\ r.cell = None /\ MemoryIs(Stored)
           /\ \A n \in Nat : DOMAIN Stored[p] = 1..n => n < length
  <2>1. /\ UNCHANGED buf /\ buf[p].length < length /\ MemoryInv' /\ IdleInv' /\ Stored' = Stored
        /\ call' = [call EXCEPT ![t] = [Idle EXCEPT !.at = "alloc", !.ptr = p, !.length = length]]
    BY <1>2, <1>4, <1>7 DEF MemoryIs
  <2>2. /\ DOMAIN call' = Threads /\ \A u \in Threads \ {t} : call'[u] = call[u]
        /\ DOMAIN call'[t] = {"at", "ptr", "length", "new", "cause"}
        /\ call'[t].at = "alloc" /\ call'[t].ptr = p /\ call'[t].length = length
    BY <1>0, <2>1 DEF CallInv, Idle
  <2>3. BufInv' /\ \A u \in Threads : Mine(u)' = Mine(u)
    BY <1>0, <2>1 DEF BufInv, Mine
  <2>4. \A u \in Threads : (Moving(u)' <=> Moving(u)) /\ (Moving(u) => u # t /\ call'[u] = call[u])
    BY <1>3, <2>2 DEF Moving
  <2>5. CallInv'
    <3>1. ASSUME NEW u \in Threads
          PROVE  /\ DOMAIN call'[u] = {"at", "ptr", "length", "new", "cause"}
                 /\ call'[u].at \in {"idle", "alloc", "copy", "free"}
                 /\ call'[u].at # "idle" =>
                      /\ call'[u].ptr \in Mine(u)' /\ IsLocked(call'[u].ptr)
                      /\ call'[u].length \in Lengths /\ buf'[call'[u].ptr].length < call'[u].length
                 /\ Moving(u)' => call'[u].new \notin DOMAIN buf'
      <4>1. CASE u = t
        BY <1>1, <2>1, <2>2, <2>3, <2>4, <4>1
      <4>2. CASE u # t
        BY <1>0, <2>1, <2>2, <2>3, <2>4, <4>2 DEF CallInv
      <4> QED
        BY <4>1, <4>2
    <3>2. \A u, w \in Threads : u # w /\ Moving(u)' /\ Moving(w)' => call'[u].new # call'[w].new
      BY <1>0, <2>4 DEF CallInv
    <3> QED
      BY <2>2, <3>1, <3>2 DEF CallInv
  <2>6. StoreInv'
    <3>1. Live' = Live
      <4>1. \A a : a \in Live' <=> a \in DOMAIN buf' \/ \E u \in Threads : Moving(u)' /\ a = call'[u].new
        BY DEF Live, InFlight, Moving
      <4>2. \A a : a \in Live' <=> a \in Live
        BY <2>1, <2>4, <4>1, LiveIs
      <4> QED
        BY <4>2
    <3>2. \A u \in Threads : call'[u].at = "free" => call'[u] = call[u]
      BY <2>2
    <3> QED
      BY <1>0, <2>1, <2>4, <3>1, <3>2 DEF StoreInv
  <2>7. CauseInv'
    BY <1>0, <1>3, <2>1, <2>4 DEF CauseInv
  <2> QED
    BY <2>1, <2>3, <2>5, <2>6, <2>7 DEF Inv
<1>8. ASSUME r.cell # None, IsLocked(q), q \notin DOMAIN Stored \ {p},
             NEW x, ResizedTo(Stored[p], x, length), MemoryIs(Moved(Stored, p, q, x))
      PROVE  Inv'
  <2>1. Replace(p, q, length, "locked") /\ UNCHANGED call
    BY <1>2, <1>8
  <2>2. MemoryInv' /\ IdleInv' /\ Stored' = Moved(Stored, p, q, x)
    BY <1>8 DEF MemoryIs
  <2> HIDE DEF q
  <2>3. /\ DOMAIN Stored' = (DOMAIN Stored \ {p}) \cup {q} /\ Stored'[q] = x
        /\ \A a \in DOMAIN Stored \ {p, q} : Stored'[a] = Stored[a]
    <3> DEFINE m == Stored'
               s == Stored
    <3>1. m = Moved(s, p, q, x)
      BY <2>2
    <3> HIDE DEF m, s
    <3>2. /\ DOMAIN m = (DOMAIN s \ {p}) \cup {q} /\ m[q] = x
          /\ \A a \in DOMAIN s \ {p, q} : m[a] = s[a]
      BY ONLY <3>1 DEF Moved, With, Without
    <3> QED
      BY <3>2 DEF m, s
  <2>4. Owned(x, length, t)
    BY <1>4, <1>5, <1>8, ResizedOwned
  <2>5. Excused(q, "locked", starved') /\ Settled(t)
    BY <1>3, <1>8, <2>1, IdleSettled DEF Excused
  <2>6. p \in Mine(t) /\ length \in Lengths /\ ~Moving(t) /\ q \notin DOMAIN Stored \ {p}
    BY <1>1, <1>3, <1>8
  <2>7. /\ Replace(p, q, length, "locked") /\ MemoryInv' /\ IdleInv' /\ (starved => starved')
        /\ Owned(x, length, t) /\ Excused(q, "locked", starved') /\ Settled(t)
    BY <1>3, <2>1, <2>2, <2>4, <2>5
  <2>8. Inv /\ t \in Threads
    OBVIOUS
  <2> HIDE DEF q
  <2> QED
    BY ONLY <2>3, <2>6, <2>7, <2>8, ReplaceKeeps
<1> QED
  BY <1>6, <1>7, <1>8

\* So does the fallback's realloc,
LEMMA ReallocFallbackKeeps ==
  ASSUME Inv, NEW t \in Threads, ReallocFallback(t)
  PROVE  Inv'
<1>0. MemoryInv /\ BufInv /\ CallInv /\ StoreInv /\ CauseInv /\ IdleInv
  BY DEF Inv
<1>1. PICK p \in Mine(t), length \in Lengths :
       /\ ~IsLocked(p)
       /\ pageable' = [pageable EXCEPT ![p.word] =
                          [i \in 1..length |-> IF i \in DOMAIN @ THEN @[i] ELSE Zero]]
       /\ Replace(p, p, length, buf[p].cause)
  BY DEF ReallocFallback
<1>2. UNCHANGED <<heap, call, starved>> /\ call[t] = Idle /\ ~Moving(t)
  BY IsIdle DEF ReallocFallback
<1>3. /\ p \in DOMAIN buf /\ p \in DOMAIN Stored /\ buf[p].length \in Nat
      /\ Owned(Stored[p], buf[p].length, t)
  BY BufferFacts
<1>4. length \in Nat
  BY HeapAssumption
<1>5. \E x : ResizedTo(Stored[p], x, length) /\ MemoryIs([Stored EXCEPT ![p] = x])
  BY <1>0, <1>1, <1>2, <1>3, <1>4, FallbackEffect
<1>6. PICK x : ResizedTo(Stored[p], x, length) /\ MemoryIs([Stored EXCEPT ![p] = x])
  BY <1>5
<1>7. /\ MemoryInv' /\ IdleInv' /\ DOMAIN Stored' = (DOMAIN Stored \ {p}) \cup {p} /\ Stored'[p] = x
      /\ \A a \in DOMAIN Stored \ {p, p} : Stored'[a] = Stored[a]
  BY <1>3, <1>6 DEF MemoryIs
<1>8. Owned(x, length, t)
  BY <1>3, <1>4, <1>6, ResizedOwned
<1>9. Excused(p, buf[p].cause, starved') /\ Settled(t)
  BY <1>0, <1>2, <1>3, IdleSettled DEF CauseInv
<1> QED
  BY <1>1, <1>2, <1>7, <1>8, <1>9, ReplaceKeeps

\* the third section, which frees the old buffer,
LEMMA ReallocFreeKeeps ==
  ASSUME Inv, NEW t \in Threads, ReallocFree(t)
  PROVE  Inv'
<1>0. MemoryInv /\ BufInv /\ CallInv /\ StoreInv /\ CauseInv /\ IdleInv
  BY DEF Inv
<1> DEFINE p == call[t].ptr
           q == call[t].new
           length == call[t].length
<1>1. /\ call[t].at = "free" /\ Moving(t) /\ FreeMemory(p) /\ Replace(p, q, length, call[t].cause)
      /\ call' = [call EXCEPT ![t] = Idle] /\ UNCHANGED starved
  BY DEF ReallocFree, Moving
<1>2. /\ p \in Mine(t) /\ length \in Lengths /\ q \notin DOMAIN buf /\ q \in DOMAIN Stored
      /\ Owned(Stored[q], length, t)
  BY <1>1, CallFacts
<1>3. p \in DOMAIN buf /\ p \in DOMAIN Stored
  BY <1>2, BufferFacts
<1> HIDE DEF p, q, length
<1>4. MemoryInv' /\ IdleInv' /\ Stored' = Without(Stored, {p})
  BY <1>0, <1>1, <1>3, FreeEffect DEF MemoryIs
<1>5. /\ DOMAIN Stored' = (DOMAIN Stored \ {p}) \cup {q} /\ Stored'[q] = Stored[q]
      /\ \A a \in DOMAIN Stored \ {p, q} : Stored'[a] = Stored[a]
  BY <1>2, <1>3, <1>4 DEF Without
<1>6. Excused(q, call[t].cause, starved') /\ Settled(t)
  BY <1>0, <1>1, EndsSettled DEF CauseInv, q
<1> QED
  BY <1>1, <1>2, <1>4, <1>5, <1>6, ReplaceKeeps DEF q

\* the copy between the sections,
LEMMA ReallocCopyKeeps ==
  ASSUME Inv, NEW t \in Threads, ReallocCopy(t)
  PROVE  Inv'
<1>0. MemoryInv /\ BufInv /\ CallInv /\ StoreInv /\ CauseInv /\ IdleInv
  BY DEF Inv
<1> DEFINE p == call[t].ptr
           q == call[t].new
           n == buf[p].length
           length == call[t].length
           x == [i \in 1..length |-> IF i <= n THEN Stored[p][i] ELSE Stored[q][i]]
<1>1. /\ call[t].at = "copy" /\ Moving(t) /\ call' = [call EXCEPT ![t].at = "free"]
      /\ UNCHANGED <<buf, starved>>
  BY DEF ReallocCopy, Moving
<1>2. IF IsLocked(q) THEN heap' = Copy(heap, p, q, n) /\ UNCHANGED pageable
      ELSE /\ pageable' = [pageable EXCEPT ![q.word] =
                [i \in DOMAIN @ |-> IF i <= n THEN heap.mem[p.block][p.word + i - 1] ELSE @[i]]]
           /\ UNCHANGED heap
  BY DEF ReallocCopy
<1>3. /\ p \in Mine(t) /\ IsLocked(p) /\ length \in Lengths /\ length \in Nat /\ n < length
      /\ q \notin DOMAIN buf /\ q \in DOMAIN Stored
      /\ Owned(Stored[q], length, t) /\ DOMAIN Stored[q] = 1..length
  BY <1>1, CallFacts
<1>4. /\ p \in DOMAIN buf /\ p \in DOMAIN Stored /\ n \in Nat
      /\ Owned(Stored[p], n, t) /\ DOMAIN Stored[p] = 1..n
  BY <1>3, BufferFacts
<1>5. MemoryIs([Stored EXCEPT ![q] = x])
  <2> HIDE DEF n, p, q, length
  <2>1. n <= length
    BY <1>3, <1>4
  <2> QED
    BY <1>0, <1>1, <1>2, <1>3, <1>4, <2>1, CopyEffect
<1>6. Owned(x, length, t) /\ \A i \in 1..n : x[i] = Stored[p][i]
  <2>1. \A i \in 1..n : i \in 1..length /\ i <= n
    BY <1>3, <1>4
  <2>2. \A i \in 1..n : x[i] = Stored[p][i]
    BY <2>1
  <2>3. \A i \in 1..length : IsData(x[i]) => x[i] = Data(t)
    BY <1>3, <1>4 DEF Owned
  <2> QED
    BY <2>2, <2>3 DEF Owned
<1> HIDE DEF x
<1>7. /\ MemoryInv' /\ IdleInv' /\ DOMAIN Stored' = DOMAIN Stored /\ Stored'[q] = x
      /\ \A a \in DOMAIN Stored \ {q} : Stored'[a] = Stored[a]
  BY <1>3, <1>5 DEF MemoryIs
<1>8. /\ DOMAIN call' = Threads /\ \A u \in Threads \ {t} : call'[u] = call[u]
      /\ DOMAIN call'[t] = {"at", "ptr", "length", "new", "cause"}
      /\ call'[t].at = "free" /\ call'[t].ptr = p /\ call'[t].length = length
      /\ call'[t].new = q /\ call'[t].cause = call[t].cause
  BY <1>0, <1>1 DEF CallInv
<1>9. /\ \A u \in Threads : Moving(u)' <=> Moving(u)
      /\ \A u \in Threads : call'[u].ptr = call[u].ptr /\ call'[u].length = call[u].length
                            /\ call'[u].new = call[u].new /\ call'[u].cause = call[u].cause
      /\ \A u \in Threads : call'[u].at # "idle" <=> call[u].at # "idle"
  BY <1>1, <1>8 DEF Moving, p, q, length
<1>10. BufInv' /\ \A u \in Threads : Mine(u)' = Mine(u)
  BY <1>0, <1>1 DEF BufInv, Mine
<1>11. CallInv'
  <2>1. \A u \in Threads : DOMAIN call'[u] = {"at", "ptr", "length", "new", "cause"}
                           /\ call'[u].at \in {"idle", "alloc", "copy", "free"}
    BY <1>0, <1>8 DEF CallInv
  <2> QED
    BY <1>0, <1>1, <1>8, <1>9, <1>10, <2>1 DEF CallInv
<1>12. StoreInv'
  <2>1. Live' = Live
    <3>1. \A a : a \in Live' <=> a \in DOMAIN buf' \/ \E u \in Threads : Moving(u)' /\ a = call'[u].new
      BY DEF Live, InFlight, Moving
    <3>2. \A a : a \in Live' <=> a \in Live
      BY <1>1, <1>9, <3>1, LiveIs
    <3> QED
      BY <3>2
  <2>2. /\ \A a \in DOMAIN buf : a \in DOMAIN Stored /\ a # q
        /\ \A u \in Threads \ {t} : Moving(u) => call[u].new # q /\ call[u].new \in DOMAIN Stored
    BY <1>0, <1>1, <1>3, LiveIs DEF StoreInv, CallInv, q
  <2>3. \A a \in DOMAIN buf' : Owned(Stored'[a], buf'[a].length, buf'[a].owner)
    BY <1>0, <1>1, <1>7, <2>2 DEF StoreInv
  <2>4. \A u \in Threads : Moving(u)' => Owned(Stored'[call'[u].new], call'[u].length, u)
    <3>1. ASSUME NEW u \in Threads, Moving(u)
          PROVE  Owned(Stored'[call[u].new], call[u].length, u)
      <4>1. CASE u = t
        BY <1>6, <1>7, <4>1 DEF q, length
      <4>2. CASE u # t
        BY <1>0, <1>7, <2>2, <3>1, <4>2 DEF StoreInv
      <4> QED
        BY <4>1, <4>2
    <3> QED
      BY <1>9, <3>1
  <2>5. ASSUME NEW u \in Threads, call'[u].at = "free", NEW i \in 1..buf'[call'[u].ptr].length
        PROVE  Stored'[call'[u].new][i] = Stored'[call'[u].ptr][i]
    <3>1. CASE u = t
      <4>1. i \in 1..n /\ call'[u].new = q /\ call'[u].ptr = p /\ p # q
        BY <1>1, <1>3, <1>4, <1>8, <2>5, <3>1
      <4> QED
        BY <1>4, <1>6, <1>7, <4>1
    <3>2. CASE u # t
      <4>1. call'[u] = call[u] /\ call[u].at = "free" /\ Moving(u) /\ call[u].at # "idle"
        BY <1>8, <2>5, <3>2 DEF Moving
      <4>2. call[u].ptr \in DOMAIN buf
        BY <4>1, CallFacts DEF Mine
      <4> QED
        BY <1>0, <1>1, <1>7, <2>2, <2>5, <3>2, <4>1, <4>2 DEF StoreInv
    <3> QED
      BY <3>1, <3>2
  <2> QED
    BY <1>0, <1>7, <2>1, <2>3, <2>4, <2>5 DEF StoreInv
<1>13. CauseInv'
  BY <1>0, <1>1, <1>9 DEF CauseInv
<1> QED
  BY <1>7, <1>10, <1>11, <1>12, <1>13 DEF Inv

\* and the second section, which allocates the new one.
LEMMA ReallocAllocKeeps ==
  ASSUME Inv, NEW t \in Threads, ReallocAlloc(t)
  PROVE  Inv'
<1>0. MemoryInv /\ BufInv /\ CallInv /\ StoreInv /\ CauseInv /\ IdleInv
  BY DEF Inv
<1> DEFINE length == call[t].length
<1>1. PICK o \in Outcomes(length) :
       /\ Receive(o, length)
       /\ call' = [call EXCEPT ![t] = IF o.ptr = Null THEN Idle
                     ELSE [@ EXCEPT !.at = "copy", !.new = o.ptr, !.cause = o.cause]]
  BY DEF ReallocAlloc
<1>2. UNCHANGED buf /\ call[t].at = "alloc" /\ ~Moving(t)
  BY DEF ReallocAlloc, Moving
<1>3. /\ call[t].ptr \in Mine(t) /\ IsLocked(call[t].ptr) /\ length \in Lengths /\ length \in Nat
      /\ buf[call[t].ptr].length < length
  BY <1>2, CallFacts
<1>4. /\ starved => starved'
      /\ o.ptr = Null => MemoryIs(Stored)
      /\ o.ptr # Null =>
           /\ o.ptr \notin DOMAIN Stored /\ MemoryIs(With(Stored, o.ptr, Zeros(length)))
           /\ Excused(o.ptr, o.cause, starved')
  BY <1>0, <1>1, <1>3, ReceiveEffect
<1>5. /\ DOMAIN call' = Threads /\ \A u \in Threads \ {t} : call'[u] = call[u]
      /\ DOMAIN call'[t] = {"at", "ptr", "length", "new", "cause"}
      /\ o.ptr = Null => call'[t].at = "idle"
      /\ o.ptr # Null =>
           /\ call'[t].at = "copy" /\ call'[t].ptr = call[t].ptr /\ call'[t].length = length
           /\ call'[t].new = o.ptr /\ call'[t].cause = o.cause
  BY <1>0, <1>1 DEF CallInv, Idle
<1> HIDE DEF length
<1>6. BufInv' /\ \A u \in Threads : Mine(u)' = Mine(u)
  BY <1>0, <1>2 DEF BufInv, Mine
<1>7. /\ \A u \in Threads \ {t} : Moving(u)' <=> Moving(u)
      /\ Moving(t)' <=> o.ptr # Null
  BY <1>5 DEF Moving
<1>8. /\ MemoryInv' /\ IdleInv'
      /\ DOMAIN Stored' = DOMAIN Stored \cup (IF o.ptr = Null THEN {} ELSE {o.ptr})
      /\ o.ptr # Null => Stored'[o.ptr] = Zeros(length) /\ o.ptr \notin DOMAIN Stored
      /\ \A a \in DOMAIN Stored : Stored'[a] = Stored[a]
  <2>1. CASE o.ptr = Null
    BY <1>4, <2>1 DEF MemoryIs
  <2>2. CASE o.ptr # Null
    BY <1>4, <2>2 DEF MemoryIs, With
  <2> QED
    BY <2>1, <2>2
<1>9. /\ \A a \in DOMAIN buf : a \in DOMAIN Stored
      /\ \A u \in Threads : Moving(u) => u # t /\ call[u].new \in DOMAIN Stored /\ call'[u] = call[u]
  BY <1>0, <1>2, <1>5, LiveIs DEF StoreInv
<1>10. CallInv'
  <2>1. ASSUME NEW u \in Threads
        PROVE  /\ DOMAIN call'[u] = {"at", "ptr", "length", "new", "cause"}
               /\ call'[u].at \in {"idle", "alloc", "copy", "free"}
               /\ call'[u].at # "idle" =>
                    /\ call'[u].ptr \in Mine(u)' /\ IsLocked(call'[u].ptr)
                    /\ call'[u].length \in Lengths /\ buf'[call'[u].ptr].length < call'[u].length
               /\ Moving(u)' => call'[u].new \notin DOMAIN buf'
    <3>1. CASE u = t
      <4>1. o.ptr # Null => o.ptr \notin DOMAIN buf
        BY <1>8, <1>9
      <4>2. CASE o.ptr = Null
        BY <1>5, <1>7, <3>1, <4>2
      <4>3. CASE o.ptr # Null
        BY <1>2, <1>3, <1>5, <1>6, <3>1, <4>1, <4>3
      <4> QED
        BY <4>2, <4>3
    <3>2. CASE u # t
      BY <1>0, <1>2, <1>5, <1>6, <1>7, <3>2 DEF CallInv
    <3> QED
      BY <3>1, <3>2
  <2>2. \A u, w \in Threads : u # w /\ Moving(u)' /\ Moving(w)' => call'[u].new # call'[w].new
    BY <1>0, <1>5, <1>7, <1>8, <1>9 DEF CallInv
  <2> QED
    BY <1>5, <2>1, <2>2 DEF CallInv
<1>11. StoreInv'
  <2>1. DOMAIN Stored' = Live'
    <3>1. \A a : a \in Live' <=> a \in DOMAIN buf' \/ \E u \in Threads : Moving(u)' /\ a = call'[u].new
      BY DEF Live, InFlight, Moving
    <3>2. \A a : a \in Live' <=> a \in Live \/ (o.ptr # Null /\ a = o.ptr)
      BY <1>2, <1>5, <1>7, <1>9, <3>1, LiveIs
    <3>3. \A a : a \in DOMAIN Stored' <=> a \in Live'
      BY <1>0, <1>8, <3>2 DEF StoreInv
    <3> QED
      BY <3>3
  <2>2. \A a \in DOMAIN buf' : Owned(Stored'[a], buf'[a].length, buf'[a].owner)
    BY <1>0, <1>2, <1>8, <1>9 DEF StoreInv
  <2>3. ASSUME NEW u \in Threads, Moving(u)'
        PROVE  Owned(Stored'[call'[u].new], call'[u].length, u)
    <3>1. CASE u = t
      BY <1>3, <1>5, <1>7, <1>8, <2>3, <3>1, ZerosOwned
    <3>2. CASE u # t
      BY <1>0, <1>7, <1>8, <1>9, <2>3, <3>2 DEF StoreInv
    <3> QED
      BY <3>1, <3>2
  <2>4. ASSUME NEW u \in Threads, call'[u].at = "free", NEW i \in 1..buf'[call'[u].ptr].length
        PROVE  Stored'[call'[u].new][i] = Stored'[call'[u].ptr][i]
    <3>1. u # t /\ call'[u] = call[u] /\ Moving(u) /\ call[u].at # "idle"
      BY <1>5, <2>4 DEF Moving
    <3>2. call[u].ptr \in DOMAIN buf
      BY <3>1, CallFacts DEF Mine
    <3> QED
      BY <1>0, <1>2, <1>8, <1>9, <2>4, <3>1, <3>2 DEF StoreInv
  <2> QED
    BY <2>1, <2>2, <2>3, <2>4 DEF StoreInv
<1>12. CauseInv'
  <2>1. \A a, c : Excused(a, c, starved) => Excused(a, c, starved')
    BY <1>4 DEF Excused
  <2>2. \A a \in DOMAIN buf' : Excused(a, buf'[a].cause, starved')
    BY <1>0, <1>2, <2>1 DEF CauseInv
  <2>3. \A u \in Threads : Moving(u)' => Excused(call'[u].new, call'[u].cause, starved')
    BY <1>0, <1>4, <1>5, <1>7, <2>1 DEF CauseInv
  <2> QED
    BY <2>2, <2>3 DEF CauseInv
<1> QED
  BY <1>6, <1>8, <1>10, <1>11, <1>12 DEF Inv

\* The empty function.
LEMMA Empty == DOMAIN << >> = {}
OBVIOUS

\* The invariant holds before the first block is made,
LEMMA InitInv == Init => Inv
<1> SUFFICES ASSUME Init PROVE Inv
  OBVIOUS
<1>1. /\ Fields(heap)
      /\ DOMAIN heap.block = {} /\ DOMAIN heap.cell = {} /\ DOMAIN heap.mem = {}
      /\ heap.unused = {} /\ heap.used = {} /\ DOMAIN buf = {} /\ DOMAIN pageable = {}
      /\ DOMAIN call = Threads /\ \A t \in Threads : call[t] = Idle
  BY Empty DEF Init, EmptyHeap, Fields
<1>2. Idle.at = "idle" /\ DOMAIN Idle = {"at", "ptr", "length", "new", "cause"}
  BY DEF Idle
<1>3. \A t \in Threads : ~Moving(t)
  BY <1>1, <1>2 DEF Moving
<1>4. IsFiniteSet({}) /\ Cardinality({}) = 0 /\ MaxBuffers \in Nat
  BY FS_EmptySet, HeapAssumption
<1>5. Sound(heap) /\ Private(heap)
  <2>1. Laid(heap)
    BY <1>1 DEF Laid, Typed, Tiled, Guarded
  <2>2. Rings(heap) /\ Apart(heap)
    BY <1>1 DEF Rings, Apart, Counted
  <2> QED
    BY <1>1, <2>1, <2>2 DEF Sound, Private
<1>6. MemoryInv
  BY <1>1, <1>4, <1>5 DEF MemoryInv
<1>7. BufInv /\ CallInv
  BY <1>1, <1>2, <1>3, <1>4 DEF BufInv, CallInv
<1>8. StoreInv
  <2>1. DOMAIN View(heap) = {}
    BY <1>1 DEF View, Bufs
  <2>2. \A p : p \notin DOMAIN Stored
    BY <1>1, <2>1, StoreIs DEF Stored
  <2>3. \A p : p \notin Live
    BY <1>1, <1>3, LiveIs
  <2> QED
    BY <1>1, <1>2, <1>3, <2>2, <2>3 DEF StoreInv
<1>9. CauseInv /\ IdleInv
  BY <1>1, <1>3 DEF CauseInv, IdleInv
<1> QED
  BY <1>6, <1>7, <1>8, <1>9 DEF Inv

\* every step keeps it,
LEMMA NextInv == Inv /\ [Next]_vars => Inv'
<1> SUFFICES ASSUME Inv, [Next]_vars PROVE Inv'
  OBVIOUS
<1>1. ASSUME NEW t \in Threads,
             \/ Alloc(t) \/ Write(t) \/ Free(t) \/ Realloc(t) \/ ReallocFallback(t)
             \/ ReallocAlloc(t) \/ ReallocCopy(t) \/ ReallocFree(t)
      PROVE  Inv'
  BY <1>1, AllocKeeps, WriteKeeps, FreeKeeps, ReallocKeeps, ReallocFallbackKeeps,
     ReallocAllocKeeps, ReallocCopyKeeps, ReallocFreeKeeps
<1>2. CASE UNCHANGED vars
  <2>1. heap' = heap /\ pageable' = pageable /\ buf' = buf /\ call' = call /\ starved' = starved
    BY <1>2 DEF vars
  <2>2. MemoryInv' /\ BufInv' /\ CallInv' /\ IdleInv'
    BY <2>1 DEF Inv, MemoryInv, BufInv, CallInv, IdleInv, Moving, Mine
  <2>3. Stored' = Stored /\ Live' = Live
    BY <2>1 DEF Stored, Live, InFlight
  <2>4. StoreInv' /\ CauseInv'
    BY <2>1, <2>3 DEF Inv, StoreInv, CauseInv, Moving
  <2> QED
    BY <2>2, <2>4 DEF Inv
<1> QED
  BY <1>1, <1>2 DEF Next

\* and so it holds always: between any two sections under the lock the heap is sound, data is
\* in buffers only, the store holds the live buffers with their lengths and nobody's data but
\* their owner's, and pageable buffers and idle blocks have one of the named causes.
THEOREM Invariant == Spec => []Inv
BY InitInv, NextInv, PTL DEF Spec

---------------------------------------------------------------------------
(* What the invariant says of the heap.                                     *)

\* The type of the state.
LEMMA InvTyped == Inv => TypeOK
<1> SUFFICES ASSUME Inv PROVE TypeOK
  OBVIOUS
<1>1. Typed(heap)
  BY DEF Inv, MemoryInv, Sound, Laid
<1>2. \A c \in DOMAIN heap.cell : heap.cell[c] \in CellType(heap)
  BY <1>1 DEF Typed
<1> QED
  BY <1>1, <1>2 DEF TypeOK, Typed, CellType, Inv, BufInv, CallInv

\* The cells account for every word of a block exactly once.
LEMMA InvTiles == Inv => CellsTileTheirBlock
<1> SUFFICES ASSUME Inv, NEW b \in DOMAIN heap.block
             PROVE  /\ \A c \in CellsOf(heap, b) : WordsOf(c) \subseteq DOMAIN heap.mem[b]
                    /\ \A w \in DOMAIN heap.mem[b] :
                         Cardinality({c \in CellsOf(heap, b) : w \in WordsOf(c)}) = 1
  BY DEF CellsTileTheirBlock
<1>1. Typed(heap) /\ Tiled(heap)
  BY DEF Inv, MemoryInv, Sound, Laid
<1>2. ASSUME NEW c \in DOMAIN heap.cell
      PROVE  \A w : w \in WordsOf(c) <=> w \in Int /\ From(heap, c) <= w /\ w < To(heap, c)
  <2>1. heap.cell[c].words \in Nat /\ heap.cell[c].n_words \in Nat
    BY <1>1, CellTypes
  <2> QED
    BY <2>1 DEF WordsOf, From, To
<1>3. DOMAIN heap.mem[b] = 0..(heap.block[b].n_words - 1) /\ heap.block[b].n_words \in Nat
  BY <1>1 DEF Typed
<1>4. ASSUME NEW c \in CellsOf(heap, b)
      PROVE  WordsOf(c) \subseteq DOMAIN heap.mem[b]
  <2>1. c \in DOMAIN heap.cell /\ BlockOf(heap, c) = b
    BY DEF CellsOf, BlockOf
  <2>2. From(heap, c) \in Nat /\ To(heap, c) \in Nat /\ To(heap, c) <= heap.block[b].n_words
    BY <1>1, <2>1, CellTypes DEF Tiled
  <2> QED
    BY <1>2, <1>3, <2>1, <2>2
<1>5. ASSUME NEW w \in DOMAIN heap.mem[b]
      PROVE  Cardinality({c \in CellsOf(heap, b) : w \in WordsOf(c)}) = 1
  <2>1. w \in 0..(heap.block[b].n_words - 1) /\ w \in Int
    BY <1>3
  <2>2. PICK c \in DOMAIN heap.cell : BlockOf(heap, c) = b /\ From(heap, c) <= w /\ w < To(heap, c)
    BY <1>1, <2>1 DEF Tiled
  <2>3. c \in CellsOf(heap, b) /\ w \in WordsOf(c)
    BY <1>2, <2>1, <2>2 DEF CellsOf, BlockOf
  <2>4. ASSUME NEW d \in CellsOf(heap, b), w \in WordsOf(d) PROVE d = c
    <3>1. d \in DOMAIN heap.cell /\ BlockOf(heap, d) = b
      BY DEF CellsOf, BlockOf
    <3>2. From(heap, d) <= w /\ w < To(heap, d)
      BY <1>2, <2>4, <3>1
    <3>3. /\ From(heap, c) \in Nat /\ To(heap, c) \in Nat
          /\ From(heap, d) \in Nat /\ To(heap, d) \in Nat
      BY <1>1, <2>2, <3>1, CellTypes
    <3>4. d # c => To(heap, c) <= From(heap, d) \/ To(heap, d) <= From(heap, c)
      BY <1>1, <2>2, <3>1 DEF Tiled
    <3> QED
      BY <2>1, <2>2, <3>2, <3>3, <3>4
  <2>5. {d \in CellsOf(heap, b) : w \in WordsOf(d)} = {c}
    BY <2>3, <2>4
  <2> QED
    BY <2>5, FS_Singleton
<1> QED
  BY <1>4, <1>5

\* Guards, rings and neighbours.
LEMMA InvGuards == Inv => GuardsLeadBack /\ RingsMatch /\ Coalesced
<1> SUFFICES ASSUME Inv PROVE GuardsLeadBack /\ RingsMatch /\ Coalesced
  OBVIOUS
<1>1. Laid(heap) /\ Rings(heap) /\ Apart(heap) /\ Tiled(heap) /\ Guarded(heap)
  BY DEF Inv, MemoryInv, Sound, Laid
<1>2. GuardsLeadBack
  BY <1>1 DEF GuardsLeadBack, Tiled, Guarded, BlockOf
<1>3. RingsMatch
  BY <1>1 DEF RingsMatch, Rings, Counted
<1>4. ASSUME NEW c \in heap.unused PROVE ~IsUnused(heap, NeighborAfter(heap, c))
  <2> DEFINE d == NeighborAfter(heap, c)
  <2>1. c \in DOMAIN heap.cell
    BY <1>1 DEF Rings
  <2>2. d = None \/ (d \in DOMAIN heap.cell /\ Adjacent(heap, c, d))
    BY <1>1, <2>1, After
  <2>3. d \in DOMAIN heap.cell /\ heap.cell[d].requested = 0 => d \in heap.unused
    BY <1>1 DEF Rings
  <2>4. \A e \in heap.unused : ~Adjacent(heap, c, e)
    BY <1>1 DEF Apart
  <2> QED
    BY <2>2, <2>3, <2>4 DEF IsUnused
<1> QED
  BY <1>2, <1>3, <1>4 DEF Coalesced

\* The heap is well formed between any two sections under the lock, for every size of the
\* pages, of the pool and of the requests (egg_secure_validate, egg-secure-memory.c:1278).
THEOREM HeapIsConsistent == Spec => []HeapConsistent
<1>1. Inv => HeapConsistent
  BY InvTyped, InvTiles, InvGuards DEF HeapConsistent
<1> QED
  BY <1>1, Invariant, PTL

---------------------------------------------------------------------------
(* The buffers.                                                             *)

\* The length a live buffer has been given.
LEMMA LengthIs ==
  ASSUME Inv, NEW p \in Live
  PROVE  /\ LengthOf(p) \in Nat \ {0} /\ p \in DOMAIN Stored
         /\ DOMAIN Stored[p] = 1..LengthOf(p)
         /\ \E t \in Threads : Owned(Stored[p], LengthOf(p), t) /\ p \in Mine(t) \cup InFlight(t)
<1>0. BufInv /\ CallInv /\ StoreInv /\ Lengths \subseteq Nat \ {0} /\ p \in DOMAIN Stored
  BY HeapAssumption DEF Inv, StoreInv
<1>1. CASE p \in DOMAIN buf
  <2>1. LengthOf(p) = buf[p].length
    BY <1>1 DEF LengthOf
  <2>2. Owned(Stored[p], buf[p].length, buf[p].owner) /\ buf[p].owner \in Threads
        /\ buf[p].length \in Lengths /\ p \in Mine(buf[p].owner)
    BY <1>0, <1>1 DEF StoreInv, BufInv, Mine
  <2> QED
    BY <1>0, <2>1, <2>2 DEF Owned
<1>2. CASE p \notin DOMAIN buf
  <2>1. \E t \in Threads : p \in InFlight(t)
    BY <1>2 DEF Live
  <2> DEFINE t == CHOOSE u \in Threads : p \in InFlight(u)
  <2>2. t \in Threads /\ p \in InFlight(t)
    BY <2>1
  <2>3. LengthOf(p) = call[t].length
    BY <1>2 DEF LengthOf
  <2> HIDE DEF t
  <2>4. Moving(t) /\ p = call[t].new /\ call[t].at # "idle"
    BY <2>2 DEF InFlight, Moving
  <2>5. Owned(Stored[p], call[t].length, t) /\ call[t].length \in Nat \ {0}
    BY <2>2, <2>4, CallFacts
  <2> QED
    BY <1>0, <2>2, <2>3, <2>5 DEF Owned
<1> QED
  BY <1>1, <1>2

\* The locked buffers are those of the view.
LEMMA LockedLive ==
  ASSUME Inv
  PROVE  /\ \A p : p \in DOMAIN View(heap) <=> p \in Live /\ IsLocked(p)
         /\ \A p \in DOMAIN View(heap) : Stored[p] = View(heap)[p]
<1>0. MemoryInv /\ DOMAIN Stored = Live
  BY DEF Inv, StoreInv
<1>1. \A p \in DOMAIN View(heap) : IsLocked(p)
  BY <1>0, LockedViewOnly DEF AllLocked
<1>2. \A p \in DOMAIN View(heap) : p \in DOMAIN Stored
  BY StoreIs DEF Stored
<1> QED
  BY <1>0, <1>1, <1>2, StoreAt

\* A cell in use is one live buffer, and every live buffer in locked memory has its cell.
THEOREM CellsAreBuffers == Spec => []UsedCellsAreBuffers
<1>1. ASSUME Inv PROVE UsedCellsAreBuffers
  <2>0. Sound(heap) /\ Laid(heap) /\ Tiled(heap) /\ Typed(heap) /\ heap.used \subseteq DOMAIN heap.cell
    BY <1>1, InUse DEF Inv, MemoryInv, Sound, Laid
  <2>1. {Address(heap, c) : c \in heap.used} = {p \in Live : IsLocked(p)}
    <3>1. DOMAIN View(heap) = {Address(heap, c) : c \in heap.used}
      BY DEF View, Bufs
    <3> QED
      BY <1>1, <3>1, LockedLive
  <2>2. ASSUME NEW c \in heap.used
        PROVE  /\ heap.cell[c].requested = LengthOf(Address(heap, c))
               /\ heap.cell[c].requested <= heap.cell[c].n_words - 2
    <3> DEFINE p == Address(heap, c)
               n == LengthOf(p)
    <3>1. p \in DOMAIN View(heap) /\ CellOf(heap, p) = c
      BY <2>0, ViewAt, CellAt
    <3>2. DOMAIN View(heap)[p] = 1..heap.cell[c].requested /\ heap.cell[c].requested \in Nat
      BY <2>0, <3>1, CellOfBuffer
    <3>3. p \in Live /\ Stored[p] = View(heap)[p]
      BY <1>1, <3>1, LockedLive
    <3> HIDE DEF p
    <3>4. n \in Nat /\ DOMAIN Stored[p] = 1..n
      BY <1>1, <3>3, LengthIs
    <3> HIDE DEF n
    <3>5. heap.cell[c].requested = n
      BY <3>2, <3>3, <3>4, SameLength
    <3>6. heap.cell[c].requested + 2 <= heap.cell[c].n_words /\ heap.cell[c].n_words \in Nat
      BY <2>0, CellTypes DEF Tiled
    <3> QED
      BY <3>2, <3>5, <3>6 DEF p, n
  <2> QED
    BY <2>1, <2>2 DEF UsedCellsAreBuffers
<1> QED
  BY <1>1, Invariant, PTL

\* No data outside the buffers of its owner: what is freed, cut off or moved is cleared.
THEOREM MemoryIsScrubbed == Spec => []Scrubbed
<1>1. ASSUME Inv PROVE Scrubbed
  <2>0. Sound(heap) /\ Private(heap) /\ Laid(heap) /\ heap.used \subseteq DOMAIN heap.cell
        /\ DOMAIN heap.mem = DOMAIN heap.block
    BY <1>1, InUse DEF Inv, MemoryInv, Sound, Laid, Typed
  <2> SUFFICES ASSUME NEW b \in DOMAIN heap.block, NEW t \in Threads, NEW w \in DOMAIN heap.mem[b],
                      heap.mem[b][w] = Data(t)
               PROVE  \E p \in Mine(t) \cup InFlight(t) :
                        p.block = b /\ w \in p.word..(p.word + LengthOf(p) - 1)
    BY DEF Scrubbed
  <2>1. IsData(heap.mem[b][w])
    BY NotData
  <2>2. PICK c \in heap.used : heap.cell[c].block = b /\ w \in Words(heap, c)
    BY <2>0, <2>1 DEF Private
  <2> DEFINE p == Address(heap, c)
             n == LengthOf(p)
             i == w - heap.cell[c].words
  <2>3. p \in DOMAIN View(heap) /\ CellOf(heap, p) = c
    BY <2>0, ViewAt, CellAt
  <2>4. /\ p.block = b /\ p.word = heap.cell[c].words + 1 /\ heap.cell[c].words \in Nat
        /\ heap.cell[c].requested \in Nat /\ DOMAIN View(heap)[p] = 1..heap.cell[c].requested
    BY <2>0, <2>2, <2>3, CellOfBuffer
  <2>5. p \in Live /\ Stored[p] = View(heap)[p]
    BY <1>1, <2>3, LockedLive
  <2> HIDE DEF p
  <2>6. /\ n \in Nat /\ DOMAIN Stored[p] = 1..n
        /\ \E u \in Threads : Owned(Stored[p], n, u) /\ p \in Mine(u) \cup InFlight(u)
    BY <1>1, <2>5, LengthIs
  <2>7. PICK u \in Threads : Owned(Stored[p], n, u) /\ p \in Mine(u) \cup InFlight(u)
    BY <2>6
  <2> HIDE DEF n
  <2>8. heap.cell[c].requested = n
    BY <2>4, <2>5, <2>6, SameLength
  <2>9. i \in 1..n /\ p.word + i - 1 = w /\ w \in p.word..(p.word + n - 1)
    <3>1. w \in (heap.cell[c].words + 1)..(heap.cell[c].words + n) /\ n \in Nat
      BY <2>2, <2>6, <2>8 DEF Words
    <3> DEFINE a == heap.cell[c].words
    <3>2. a \in Nat /\ p.word = a + 1 /\ w \in (a + 1)..(a + n) /\ i = w - a
      BY <2>4, <3>1
    <3> HIDE DEF a, i
    <3> QED
      BY <3>1, <3>2
  <2> HIDE DEF i
  <2>10. Stored[p][i] = Data(t)
    <3>1. heap.mem[p.block][p.word + i - 1] = View(heap)[p][i]
      BY <2>0, <2>3, <2>4, <2>8, <2>9, ViewWords
    <3> QED
      BY <2>4, <2>5, <2>9, <3>1
  <2>11. Stored[p][i] = Data(u)
    BY <2>7, <2>9, <2>10, NotData DEF Owned
  <2>12. t = u
    BY <2>10, <2>11 DEF Data
  <2> QED
    BY <2>4, <2>7, <2>9, <2>12 DEF n
<1> QED
  BY <1>1, Invariant, PTL

\* A block is unmapped with its last buffer, and a buffer is pageable only when the system
\* refused locked memory: but for the misfits and an exhausted pool.
THEOREM BlocksAreUsed == Spec => []NoIdleBlocks
<1>1. ASSUME Inv PROVE NoIdleBlocks
  BY <1>1 DEF Inv, IdleInv, CauseInv, Excused, NoIdleBlocks
<1> QED
  BY <1>1, Invariant, PTL

---------------------------------------------------------------------------
(* The refinement.                                                          *)

Objs == [p \in DOMAIN buf |-> Contents(p, buf[p].length)]

ObjsStored ==
  /\ Objs = [p \in DOMAIN buf |-> Stored[p]]
  /\ \A p \in DOMAIN buf : p \in DOMAIN Stored /\ DOMAIN Stored[p] = 1..buf[p].length

\* What a thread reads through its pointers is the store.
LEMMA ObjsAre == Inv => ObjsStored
<1> SUFFICES ASSUME Inv PROVE ObjsStored
  OBVIOUS
<1>0. MemoryInv /\ BufInv /\ StoreInv /\ Sound(heap)
  BY DEF Inv, MemoryInv
<1>1. ASSUME NEW p \in DOMAIN buf
      PROVE  /\ p \in DOMAIN Stored /\ DOMAIN Stored[p] = 1..buf[p].length
             /\ Contents(p, buf[p].length) = Stored[p]
  <2> DEFINE n == buf[p].length
  <2>1. p \in DOMAIN Stored /\ DOMAIN Stored[p] = 1..n
    BY <1>0, LiveIs DEF StoreInv, Owned
  <2> HIDE DEF n
  <2>2. CASE IsLocked(p)
    <3>1. p \in DOMAIN View(heap) /\ Stored[p] = View(heap)[p]
      BY <1>0, <2>1, <2>2, StoreAt
    <3>2. View(heap)[p] = Content(heap, CellOf(heap, p))
      BY <1>0, <3>1, CellOfBuffer
    <3>3. Stored[p] = [i \in 1..n |-> Stored[p][i]]
      BY <2>1, <3>1, <3>2 DEF Content
    <3>4. ASSUME NEW i \in 1..n PROVE heap.mem[p.block][p.word + i - 1] = Stored[p][i]
      <4>1. i \in DOMAIN View(heap)[p]
        BY <2>1, <3>1
      <4>2. heap.mem[p.block][p.word + i - 1] = View(heap)[p][i]
        BY <1>0, <3>1, <4>1, ViewWords
      <4> QED
        BY <3>1, <4>2
    <3>5. Contents(p, n) = [i \in 1..n |-> heap.mem[p.block][p.word + i - 1]]
      BY <2>2 DEF Contents
    <3>6. Contents(p, n) = Stored[p]
      BY <3>3, <3>4, <3>5
    <3> QED
      BY <2>1, <3>6 DEF n
  <2>3. CASE ~IsLocked(p)
    <3>1. Stored[p] = pageable[p.word]
      BY <1>0, <2>1, <2>3, StoreAt
    <3> QED
      BY <2>1, <2>3, <3>1 DEF Contents, n
  <2> QED
    BY <2>2, <2>3
<1>2. Objs = [p \in DOMAIN buf |-> Stored[p]]
  BY <1>1 DEF Objs
<1> QED
  BY <1>1, <1>2 DEF ObjsStored

\* The same of the next state.
LEMMA ObjsAreNext == Inv' => ObjsStored'
BY ObjsAre, PTL

AbstractStep == Heap!Next \/ Objs' = Objs

\* A step that changes no buffer of the program stutters.
LEMMA SameObjs ==
  ASSUME ObjsStored, ObjsStored', UNCHANGED buf,
         \A a \in DOMAIN buf : Stored'[a] = Stored[a]
  PROVE  AbstractStep
<1>1. Objs' = Objs
  BY DEF ObjsStored
<1> QED
  BY <1>1 DEF AbstractStep

\* A buffer of zeroes more is New,
LEMMA NewObj ==
  ASSUME ObjsStored, ObjsStored', NEW q, q \notin DOMAIN buf, DOMAIN buf' = DOMAIN buf \cup {q},
         \A a \in DOMAIN buf : Stored'[a] = Stored[a],
         \A i \in DOMAIN Stored'[q] : Stored'[q][i] = Zero
  PROVE  AbstractStep
<1>1. /\ DOMAIN Objs = DOMAIN buf /\ DOMAIN Objs' = DOMAIN buf'
      /\ \A a \in DOMAIN buf : Objs[a] = Stored[a] /\ Objs'[a] = Stored'[a]
      /\ Objs'[q] = Stored'[q]
  BY DEF ObjsStored
<1>2. \E p \in DOMAIN Objs' \ DOMAIN Objs :
       /\ DOMAIN Objs' = DOMAIN Objs \cup {p}
       /\ \A a \in DOMAIN Objs : a \in DOMAIN Objs' /\ Objs'[a] = Objs[a]
       /\ \A i \in DOMAIN Objs'[p] : Objs'[p][i] = Zero
  BY <1>1
<1>3. Heap!New
  BY <1>2 DEF Heap!New, Heap!Keep, Objs
<1> QED
  BY <1>3 DEF AbstractStep, Heap!Next

\* one buffer that changes and keeps its length is Write,
LEMMA WrittenObj ==
  ASSUME ObjsStored, ObjsStored', UNCHANGED buf, NEW p \in DOMAIN buf,
         \A a \in DOMAIN buf \ {p} : Stored'[a] = Stored[a]
  PROVE  AbstractStep
<1>1. /\ DOMAIN Objs = DOMAIN buf /\ DOMAIN Objs' = DOMAIN buf
      /\ \A a \in DOMAIN buf : Objs[a] = Stored[a] /\ Objs'[a] = Stored'[a]
      /\ DOMAIN Objs'[p] = DOMAIN Objs[p]
  BY DEF ObjsStored
<1>2. /\ DOMAIN Objs' = DOMAIN Objs
      /\ \E a \in DOMAIN Objs :
           /\ DOMAIN Objs'[a] = DOMAIN Objs[a]
           /\ \A b \in DOMAIN Objs \ {a} : b \in DOMAIN Objs' /\ Objs'[b] = Objs[b]
  BY <1>1
<1>3. Heap!Write
  BY <1>2 DEF Heap!Write, Heap!Keep, Objs
<1> QED
  BY <1>3 DEF AbstractStep, Heap!Next

\* one buffer less is Free,
LEMMA FreedObj ==
  ASSUME ObjsStored, ObjsStored', NEW p \in DOMAIN buf, DOMAIN buf' = DOMAIN buf \ {p},
         \A a \in DOMAIN buf \ {p} : Stored'[a] = Stored[a]
  PROVE  AbstractStep
<1>1. /\ DOMAIN Objs = DOMAIN buf /\ DOMAIN Objs' = DOMAIN buf'
      /\ \A a \in DOMAIN buf' : Objs[a] = Stored[a] /\ Objs'[a] = Stored'[a]
  BY DEF ObjsStored
<1>2. \E a \in DOMAIN Objs :
        /\ DOMAIN Objs' = DOMAIN Objs \ {a}
        /\ \A b \in DOMAIN Objs' : b \in DOMAIN Objs' /\ Objs'[b] = Objs[b]
  BY <1>1
<1>3. Heap!Free
  BY <1>2 DEF Heap!Free, Heap!Keep, Objs
<1> QED
  BY <1>3 DEF AbstractStep, Heap!Next

\* and one buffer that moves or changes its length is Resize.
LEMMA ResizedObj ==
  ASSUME ObjsStored, ObjsStored', NEW p \in DOMAIN buf, NEW q, q \notin DOMAIN buf \ {p},
         DOMAIN buf' = (DOMAIN buf \ {p}) \cup {q},
         \A a \in DOMAIN buf \ {p} : Stored'[a] = Stored[a],
         \A i \in DOMAIN Stored[p] \cap DOMAIN Stored'[q] : Stored'[q][i] = Stored[p][i]
  PROVE  AbstractStep
<1>1. /\ DOMAIN Objs = DOMAIN buf /\ DOMAIN Objs' = DOMAIN buf'
      /\ \A a \in DOMAIN buf : Objs[a] = Stored[a]
      /\ \A a \in DOMAIN buf' : Objs'[a] = Stored'[a]
  BY DEF ObjsStored
<1>2. \E a \in DOMAIN Objs, b \in DOMAIN Objs' :
        /\ b \notin DOMAIN Objs \ {a}
        /\ DOMAIN Objs' = (DOMAIN Objs \ {a}) \cup {b}
        /\ \A r \in DOMAIN Objs \ {a} : r \in DOMAIN Objs' /\ Objs'[r] = Objs[r]
        /\ \A i \in DOMAIN Objs[a] \cap DOMAIN Objs'[b] : Objs'[b][i] = Objs[a][i]
  <2>1. p \in DOMAIN Objs /\ q \in DOMAIN Objs'
    BY <1>1
  <2>2. /\ q \notin DOMAIN Objs \ {p}
        /\ DOMAIN Objs' = (DOMAIN Objs \ {p}) \cup {q}
        /\ \A r \in DOMAIN Objs \ {p} : r \in DOMAIN Objs' /\ Objs'[r] = Objs[r]
        /\ \A i \in DOMAIN Objs[p] \cap DOMAIN Objs'[q] : Objs'[q][i] = Objs[p][i]
    BY <1>1
  <2> QED
    BY ONLY <2>1, <2>2
<1>3. Heap!Resize
  BY <1>2 DEF Heap!Resize, Heap!Keep, Objs
<1> QED
  BY <1>3 DEF AbstractStep, Heap!Next

\* egg_secure_alloc_full is New, or a stutter when there is no memory.
LEMMA AllocStep ==
  ASSUME Inv, Inv', NEW t \in Threads, Alloc(t)
  PROVE  AbstractStep
<1>0. MemoryInv /\ IdleInv /\ ObjsStored /\ ObjsStored' /\ \A a \in DOMAIN buf : a \in DOMAIN Stored
  BY ObjsAre, ObjsAreNext DEF Inv, ObjsStored
<1>1. PICK length \in Lengths : \E o \in Outcomes(length) :
        /\ Receive(o, length)
        /\ buf' = IF o.ptr = Null THEN buf
                  ELSE With(buf, o.ptr, [owner |-> t, length |-> length, cause |-> o.cause])
  BY DEF Alloc
<1>2. PICK o \in Outcomes(length) :
        /\ Receive(o, length)
        /\ buf' = IF o.ptr = Null THEN buf
                  ELSE With(buf, o.ptr, [owner |-> t, length |-> length, cause |-> o.cause])
  BY <1>1
<1>3. /\ o.ptr = Null => MemoryIs(Stored)
      /\ o.ptr # Null => o.ptr \notin DOMAIN Stored /\ MemoryIs(With(Stored, o.ptr, Zeros(length)))
  BY <1>0, <1>2, ReceiveEffect
<1>4. CASE o.ptr = Null
  BY <1>0, <1>2, <1>3, <1>4, SameObjs DEF MemoryIs
<1>5. CASE o.ptr # Null
  <2> DEFINE q == o.ptr
             r == [owner |-> t, length |-> length, cause |-> o.cause]
             z == Zeros(length)
  <2>1. \A i \in DOMAIN z : z[i] = Zero
    BY DEF Zeros
  <2>2. buf' = With(buf, q, r) /\ q \notin DOMAIN Stored /\ Stored' = With(Stored, q, z)
    BY <1>2, <1>3, <1>5 DEF MemoryIs
  <2> HIDE DEF q, r, z
  <2>3. /\ DOMAIN buf' = DOMAIN buf \cup {q} /\ q \notin DOMAIN buf
        /\ Stored'[q] = z /\ \A a \in DOMAIN buf : Stored'[a] = Stored[a]
    BY <1>0, <2>2 DEF With
  <2>4. \A i \in DOMAIN Stored'[q] : Stored'[q][i] = Zero
    BY <2>1, <2>3
  <2> QED
    BY ONLY <1>0, <2>3, <2>4, NewObj
<1> QED
  BY <1>4, <1>5

\* The owner's write is Write.
LEMMA WriteStep ==
  ASSUME Inv, Inv', NEW t \in Threads, Write(t)
  PROVE  AbstractStep
<1>0. MemoryInv /\ IdleInv /\ ObjsStored /\ ObjsStored' /\ \A a \in DOMAIN buf : a \in DOMAIN Stored
  BY ObjsAre, ObjsAreNext DEF Inv, ObjsStored
<1>1. PICK p \in Mine(t) :
        IF IsLocked(p)
        THEN /\ heap' = Fill(heap, p.block, p.word, p.word + buf[p].length, Data(t))
             /\ UNCHANGED pageable
        ELSE /\ pageable' = [pageable EXCEPT ![p.word] = [i \in DOMAIN @ |-> Data(t)]]
             /\ UNCHANGED heap
  BY DEF Write
<1>2. UNCHANGED <<buf, starved>>
  BY DEF Write
<1>3. /\ p \in DOMAIN buf /\ p \in DOMAIN Stored
      /\ buf[p].length \in Nat /\ DOMAIN Stored[p] = 1..buf[p].length
  BY BufferFacts
<1> DEFINE n == buf[p].length
           z == [i \in 1..n |-> Data(t)]
<1>4. MemoryIs([Stored EXCEPT ![p] = z])
  <2>1. n \in Nat /\ DOMAIN Stored[p] = 1..n
    BY <1>3
  <2>2. IF IsLocked(p)
        THEN heap' = Fill(heap, p.block, p.word, p.word + n, Data(t)) /\ UNCHANGED pageable
        ELSE pageable' = [pageable EXCEPT ![p.word] = [i \in DOMAIN @ |-> Data(t)]] /\ UNCHANGED heap
    BY <1>1
  <2> HIDE DEF n
  <2> QED
    BY <1>0, <1>2, <1>3, <2>1, <2>2, WriteEffect
<1> HIDE DEF z
<1>5. \A a \in DOMAIN buf \ {p} : Stored'[a] = Stored[a]
  BY <1>0, <1>3, <1>4 DEF MemoryIs
<1> QED
  BY ONLY <1>0, <1>2, <1>3, <1>5, WrittenObj

\* egg_secure_free_full is Free.
LEMMA FreeStep ==
  ASSUME Inv, Inv', NEW t \in Threads, Free(t)
  PROVE  AbstractStep
<1>0. MemoryInv /\ IdleInv /\ ObjsStored /\ ObjsStored' /\ \A a \in DOMAIN buf : a \in DOMAIN Stored
  BY ObjsAre, ObjsAreNext DEF Inv, ObjsStored
<1>1. PICK p \in Mine(t) : FreeMemory(p) /\ buf' = Without(buf, {p})
  BY DEF Free
<1>2. p \in DOMAIN buf /\ p \in DOMAIN Stored /\ UNCHANGED starved
  BY BufferFacts DEF Free
<1>3. Stored' = Without(Stored, {p})
  BY <1>0, <1>1, <1>2, FreeEffect DEF MemoryIs
<1>4. DOMAIN buf' = DOMAIN buf \ {p} /\ \A a \in DOMAIN buf \ {p} : Stored'[a] = Stored[a]
  BY <1>0, <1>1, <1>3 DEF Without
<1> QED
  BY ONLY <1>0, <1>2, <1>4, FreedObj

\* The first section of egg_secure_realloc_full is Resize, or a stutter.
LEMMA ReallocStep ==
  ASSUME Inv, Inv', NEW t \in Threads, Realloc(t)
  PROVE  AbstractStep
<1>0. MemoryInv /\ IdleInv /\ ObjsStored /\ ObjsStored' /\ \A a \in DOMAIN buf : a \in DOMAIN Stored
  BY ObjsAre, ObjsAreNext DEF Inv, ObjsStored
<1>1. PICK p \in Mine(t), length \in Lengths :
       /\ IsLocked(p)
       /\ \E r \in SecRealloc(heap, CellOf(heap, p), length) :
            /\ heap' = SecBlockRelease(r.heap, p.block)
            /\ IF r.cell # None THEN Replace(p, Address(r.heap, r.cell), length, "locked")
               ELSE UNCHANGED buf
  BY DEF Realloc
<1>2. PICK r \in SecRealloc(heap, CellOf(heap, p), length) :
            /\ heap' = SecBlockRelease(r.heap, p.block)
            /\ IF r.cell # None THEN Replace(p, Address(r.heap, r.cell), length, "locked")
               ELSE UNCHANGED buf
  BY <1>1
<1>3. UNCHANGED <<pageable, starved>> /\ p \in DOMAIN buf /\ p \in DOMAIN Stored /\ length \in Nat \ {0}
  BY BufferFacts, HeapAssumption DEF Realloc
<1> DEFINE q == Address(r.heap, r.cell)
<1>4. \/ r.cell = None /\ MemoryIs(Stored)
      \/ /\ r.cell # None /\ q \notin DOMAIN Stored \ {p}
         /\ \E x : ResizedTo(Stored[p], x, length) /\ MemoryIs(Moved(Stored, p, q, x))
  BY <1>0, <1>1, <1>2, <1>3, ReallocEffect
<1>5. CASE r.cell = None /\ MemoryIs(Stored)
  BY <1>0, <1>2, <1>5, SameObjs DEF MemoryIs
<1>6. ASSUME r.cell # None, q \notin DOMAIN Stored \ {p},
             NEW x, ResizedTo(Stored[p], x, length), MemoryIs(Moved(Stored, p, q, x))
      PROVE  AbstractStep
  <2>1. Replace(p, q, length, "locked") /\ Stored' = Moved(Stored, p, q, x)
    BY <1>2, <1>6 DEF MemoryIs
  <2> HIDE DEF q
  <2>2. DOMAIN buf' = (DOMAIN buf \ {p}) \cup {q}
    BY <2>1 DEF Replace, With, Without
  <2>3. Stored'[q] = x /\ \A a \in DOMAIN Stored \ {p, q} : Stored'[a] = Stored[a]
    <3> DEFINE m == Stored'
               s == Stored
    <3>1. m = Moved(s, p, q, x)
      BY <2>1
    <3> HIDE DEF m, s
    <3>2. m[q] = x /\ \A a \in DOMAIN s \ {p, q} : m[a] = s[a]
      BY ONLY <3>1 DEF Moved, With, Without
    <3> QED
      BY <3>2 DEF m, s
  <2>4. q \notin DOMAIN buf \ {p} /\ \A a \in DOMAIN buf \ {p} : Stored'[a] = Stored[a]
    BY <1>0, <1>6, <2>3
  <2>5. \A i \in DOMAIN Stored[p] \cap DOMAIN Stored'[q] : Stored'[q][i] = Stored[p][i]
    BY <1>6, <2>3 DEF ResizedTo
  <2> QED
    BY ONLY <1>0, <1>3, <2>2, <2>4, <2>5, ResizedObj
<1> QED
  BY <1>4, <1>5, <1>6

\* The fallback's realloc is Resize.
LEMMA ReallocFallbackStep ==
  ASSUME Inv, Inv', NEW t \in Threads, ReallocFallback(t)
  PROVE  AbstractStep
<1>0. MemoryInv /\ IdleInv /\ ObjsStored /\ ObjsStored' /\ \A a \in DOMAIN buf : a \in DOMAIN Stored
  BY ObjsAre, ObjsAreNext DEF Inv, ObjsStored
<1>1. PICK p \in Mine(t), length \in Lengths :
       /\ ~IsLocked(p)
       /\ pageable' = [pageable EXCEPT ![p.word] =
                          [i \in 1..length |-> IF i \in DOMAIN @ THEN @[i] ELSE Zero]]
       /\ Replace(p, p, length, buf[p].cause)
  BY DEF ReallocFallback
<1>2. UNCHANGED <<heap, starved>> /\ p \in DOMAIN buf /\ p \in DOMAIN Stored /\ length \in Nat
  BY BufferFacts, HeapAssumption DEF ReallocFallback
<1>3. \E x : ResizedTo(Stored[p], x, length) /\ MemoryIs([Stored EXCEPT ![p] = x])
  BY <1>0, <1>1, <1>2, FallbackEffect
<1>4. PICK x : ResizedTo(Stored[p], x, length) /\ MemoryIs([Stored EXCEPT ![p] = x])
  BY <1>3
<1>5. Stored'[p] = x /\ \A a \in DOMAIN buf \ {p} : Stored'[a] = Stored[a]
  BY <1>0, <1>2, <1>4 DEF MemoryIs
<1>6. DOMAIN buf' = (DOMAIN buf \ {p}) \cup {p} /\ p \notin DOMAIN buf \ {p}
  BY <1>1 DEF Replace, With, Without
<1>7. \A i \in DOMAIN Stored[p] \cap DOMAIN Stored'[p] : Stored'[p][i] = Stored[p][i]
  BY <1>4, <1>5 DEF ResizedTo
<1> QED
  BY ONLY <1>0, <1>2, <1>5, <1>6, <1>7, ResizedObj

\* The third section is Resize: the buffer is replaced by its copy.
LEMMA ReallocFreeStep ==
  ASSUME Inv, Inv', NEW t \in Threads, ReallocFree(t)
  PROVE  AbstractStep
<1>0. /\ MemoryInv /\ IdleInv /\ StoreInv /\ ObjsStored /\ ObjsStored'
      /\ \A a \in DOMAIN buf : a \in DOMAIN Stored
  BY ObjsAre, ObjsAreNext DEF Inv, ObjsStored
<1> DEFINE p == call[t].ptr
           q == call[t].new
<1>1. /\ call[t].at = "free" /\ Moving(t) /\ FreeMemory(p) /\ UNCHANGED starved
      /\ Replace(p, q, call[t].length, call[t].cause)
  BY DEF ReallocFree, Moving
<1>2. p \in Mine(t) /\ q \notin DOMAIN buf /\ q \in DOMAIN Stored
  BY <1>1, CallFacts
<1>3. /\ p \in DOMAIN buf /\ p \in DOMAIN Stored /\ DOMAIN Stored[p] = 1..buf[p].length
      /\ \A i \in 1..buf[p].length : Stored[q][i] = Stored[p][i]
  BY <1>0, <1>1, <1>2, BufferFacts DEF StoreInv
<1> HIDE DEF p, q
<1>4. Stored' = Without(Stored, {p})
  BY <1>0, <1>1, <1>3, FreeEffect DEF MemoryIs
<1>5. /\ Stored'[q] = Stored[q] /\ \A a \in DOMAIN buf \ {p} : Stored'[a] = Stored[a]
      /\ q \notin DOMAIN buf \ {p}
  BY <1>0, <1>2, <1>3, <1>4 DEF Without
<1>6. DOMAIN buf' = (DOMAIN buf \ {p}) \cup {q}
  BY <1>1 DEF Replace, With, Without
<1>7. \A i \in DOMAIN Stored[p] \cap DOMAIN Stored'[q] : Stored'[q][i] = Stored[p][i]
  BY <1>3, <1>5
<1> QED
  BY ONLY <1>0, <1>3, <1>5, <1>6, <1>7, ResizedObj

\* The two sections in the middle of a reallocation change no buffer the program holds.
LEMMA ReallocAllocStep ==
  ASSUME Inv, Inv', NEW t \in Threads, ReallocAlloc(t)
  PROVE  AbstractStep
<1>0. MemoryInv /\ IdleInv /\ ObjsStored /\ ObjsStored' /\ \A a \in DOMAIN buf : a \in DOMAIN Stored
  BY ObjsAre, ObjsAreNext DEF Inv, ObjsStored
<1>1. UNCHANGED buf /\ call[t].at # "idle"
  BY DEF ReallocAlloc
<1> DEFINE length == call[t].length
<1>2. length \in Lengths
  BY <1>1, CallFacts
<1>3. PICK o \in Outcomes(length) : Receive(o, length)
  BY DEF ReallocAlloc
<1> HIDE DEF length
<1>4. /\ o.ptr = Null => MemoryIs(Stored)
      /\ o.ptr # Null => o.ptr \notin DOMAIN Stored /\ MemoryIs(With(Stored, o.ptr, Zeros(length)))
  BY <1>0, <1>2, <1>3, ReceiveEffect
<1>5. \A a \in DOMAIN buf : Stored'[a] = Stored[a]
  BY <1>0, <1>4 DEF MemoryIs, With
<1> QED
  BY ONLY <1>0, <1>1, <1>5, SameObjs

\* So is the copy.
LEMMA ReallocCopyStep ==
  ASSUME Inv, Inv', NEW t \in Threads, ReallocCopy(t)
  PROVE  AbstractStep
<1>0. MemoryInv /\ IdleInv /\ ObjsStored /\ ObjsStored' /\ \A a \in DOMAIN buf : a \in DOMAIN Stored
  BY ObjsAre, ObjsAreNext DEF Inv, ObjsStored
<1> DEFINE p == call[t].ptr
           q == call[t].new
           n == buf[p].length
           length == call[t].length
           x == [i \in 1..length |-> IF i <= n THEN Stored[p][i] ELSE Stored[q][i]]
<1>1. call[t].at = "copy" /\ Moving(t) /\ UNCHANGED <<buf, starved>>
  BY DEF ReallocCopy, Moving
<1>2. IF IsLocked(q) THEN heap' = Copy(heap, p, q, n) /\ UNCHANGED pageable
      ELSE /\ pageable' = [pageable EXCEPT ![q.word] =
                [i \in DOMAIN @ |-> IF i <= n THEN heap.mem[p.block][p.word + i - 1] ELSE @[i]]]
           /\ UNCHANGED heap
  BY DEF ReallocCopy
<1>3. /\ p \in Mine(t) /\ IsLocked(p) /\ length \in Nat /\ n < length
      /\ q \notin DOMAIN buf /\ q \in DOMAIN Stored /\ DOMAIN Stored[q] = 1..length
  BY <1>1, CallFacts
<1>4. p \in DOMAIN Stored /\ n \in Nat /\ DOMAIN Stored[p] = 1..n
  BY <1>3, BufferFacts
<1>5. MemoryIs([Stored EXCEPT ![q] = x])
  <2> HIDE DEF n, p, q, length
  <2>1. n <= length
    BY <1>3, <1>4
  <2> QED
    BY <1>0, <1>1, <1>2, <1>3, <1>4, <2>1, CopyEffect
<1> HIDE DEF x, q
<1>6. \A a \in DOMAIN buf : Stored'[a] = Stored[a]
  BY <1>0, <1>3, <1>5 DEF MemoryIs
<1> QED
  BY ONLY <1>0, <1>1, <1>6, SameObjs

\* Every step is one of SecureHeap, or a stutter.
LEMMA StepRefines == Inv /\ Inv' /\ [Next]_vars => AbstractStep
<1> SUFFICES ASSUME Inv, Inv', [Next]_vars PROVE AbstractStep
  OBVIOUS
<1>1. ASSUME NEW t \in Threads,
             \/ Alloc(t) \/ Write(t) \/ Free(t) \/ Realloc(t) \/ ReallocFallback(t)
             \/ ReallocAlloc(t) \/ ReallocCopy(t) \/ ReallocFree(t)
      PROVE  AbstractStep
  BY <1>1, AllocStep, WriteStep, FreeStep, ReallocStep, ReallocFallbackStep,
     ReallocAllocStep, ReallocCopyStep, ReallocFreeStep
<1>2. CASE UNCHANGED vars
  <2>1. Objs' = Objs
    BY <1>2 DEF vars, Objs, Contents
  <2> QED
    BY <2>1 DEF AbstractStep
<1> QED
  BY <1>1, <1>2 DEF Next

\* To its users the allocator is SecureHeap: a buffer changes only by what its owner does,
\* and a resize keeps the words both sizes have, wherever it moves the buffer.
THEOREM HeapImplemented == Spec => ImplementsHeap
<1>1. Init => Heap!Init
  BY Empty DEF Init, Heap!Init
<1>2. AbstractStep => [Heap!Next]_([p \in DOMAIN buf |-> Contents(p, buf[p].length)])
  BY DEF AbstractStep, Objs
<1> QED
  BY <1>1, <1>2, Invariant, StepRefines, PTL DEF Spec, ImplementsHeap, Heap!Spec
=============================================================================
