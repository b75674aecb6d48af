----------------------------- MODULE SecureMemory -----------------------------
(***************************************************************************)
(* The secure allocator of egg/egg-secure-memory.c.  Blocks of locked pages *)
(* are cut into cells; the first and the last word of a cell point to its   *)
(* meta data, so that a neighbour is found by reading the word next to a    *)
(* cell.  Lengths are counted in words, the size of a pointer.              *)
(*                                                                          *)
(* The C functions that work under the lock are operators from heap to      *)
(* heap, named after them; those whose outcome depends on the order of a    *)
(* ring return the set of outcomes some order gives.  The public functions  *)
(* are the actions, one for each section under DO_LOCK: egg_secure_realloc  *)
(* that has to move a buffer takes the lock three times.                    *)
(*                                                                          *)
(* Definitions named Slip_... are plausible mistakes in the definition that *)
(* follows them; the runs use them to show that the properties notice.      *)
(***************************************************************************)
EXTENDS Integers, FiniteSets, FiniteSetsExt

CONSTANTS
  Threads,
  Lengths,       \* the lengths, in words, the threads ask for
  WASTE,         \* a cell is split when more than this many words are left
  PageWords,     \* getpagesize ()
  DefaultWords,  \* DEFAULT_BLOCK_SIZE
  LockLimit,     \* words of memory the system lets the process lock
  PoolSize,      \* meta data items: blocks and cells
  MaxBuffers     \* bound: buffers the threads hold at a time

ASSUME HeapAssumption ==
  /\ Lengths \subseteq Nat \ {0}
  /\ {WASTE, DefaultWords, LockLimit, PoolSize} \subseteq Nat \ {0}
  /\ PageWords \in Nat \ {0, 1}   \* a page has room for two guards
  /\ MaxBuffers \in Nat

None == 0
Items == 1..PoolSize

\* The contents of a word.
Zero == <<"zero", None>>
Guard(c) == <<"guard", c>>
Stale == <<"stale", None>>   \* a guard that is none any more, whatever cell it led to
Data(t) == <<"data", t>>

---------------------------------------------------------------------------
(* A heap h has h.block[b] = [n_words, n_used], h.cell[c] = [block, words,  *)
(* n_words, requested], h.mem[b][w], and the rings h.unused and h.used.     *)

EmptyHeap ==
  [block |-> << >>, cell |-> << >>, mem |-> << >>, unused |-> {}, used |-> {}]

\* sec_cell_to_memory
Address(h, c) == [block |-> h.cell[c].block, word |-> h.cell[c].words + 1]

CellsOf(h, b) == {c \in DOMAIN h.cell : h.cell[c].block = b}

PoolFree(h) == Items \ (DOMAIN h.block \cup DOMAIN h.cell)
PoolAlloc(h) == CHOOSE i \in PoolFree(h) : TRUE

\* f with x mapped to y.
With(f, x, y) == [z \in DOMAIN f \cup {x} |-> IF z = x THEN y ELSE f[z]]
Without(f, S) == [z \in DOMAIN f \ S |-> f[z]]

Put(h, b, words, value) ==
  [h EXCEPT !.mem[b] = [w \in DOMAIN @ |-> IF w \in words THEN value ELSE @[w]]]

\* memset and memcpy
Fill(h, b, from, to, value) == Put(h, b, from..(to - 1), value)

Slip_CopyShort(h, src, dst, n) ==
  [h EXCEPT !.mem[dst.block] =
     [w \in DOMAIN @ |-> IF w \in dst.word..(dst.word + n - 2)
                         THEN h.mem[src.block][src.word + w - dst.word] ELSE @[w]]]
Copy(h, src, dst, n) ==
  [h EXCEPT !.mem[dst.block] =
     [w \in DOMAIN @ |-> IF w \in dst.word..(dst.word + n - 1)
                         THEN h.mem[src.block][src.word + w - dst.word] ELSE @[w]]]

\* The first and the last word of cell c.  The guards of a cell that is cut or merged
\* stay where they were until they are overwritten: they are forgotten first.
Ends(h, c) == {h.cell[c].words, h.cell[c].words + h.cell[c].n_words - 1}
SetGuards(h, c, value) == Put(h, h.cell[c].block, Ends(h, c), value)
Slip_FrontGuardOnly(h, c) == Put(h, h.cell[c].block, {h.cell[c].words}, Guard(c))
WriteGuards(h, c) == SetGuards(h, c, Guard(c))
Forget(h, c) == SetGuards(h, c, Stale)

\* sec_neighbor_before and sec_neighbor_after read the guard next to the cell.
NeighborBefore(h, c) ==
  LET w == h.cell[c].words - 1
  IN  IF w < 0 THEN None ELSE h.mem[h.cell[c].block][w][2]
NeighborAfter(h, c) ==
  LET w == h.cell[c].words + h.cell[c].n_words
  IN  IF w >= h.block[h.cell[c].block].n_words THEN None
      ELSE h.mem[h.cell[c].block][w][2]
IsUnused(h, c) == c # None /\ h.cell[c].requested = 0

DropCell(h, c) ==
  [h EXCEPT !.cell = Without(@, {c}), !.unused = @ \ {c}, !.used = @ \ {c}]

---------------------------------------------------------------------------
(* sec_alloc                                                                *)

\* The front n words of c become a cell of their own.
SplitFront(h, c, n) ==
  LET new == PoolAlloc(h)
      front == [block |-> h.cell[c].block, words |-> h.cell[c].words,
                n_words |-> n, requested |-> 0]
      h1 == [h EXCEPT !.cell[c].words = @ + n, !.cell[c].n_words = @ - n]
      h2 == [h1 EXCEPT !.cell = With(@, new, front)]
  IN  WriteGuards(WriteGuards(h2, new), c)

UseCell(h, c, length) ==
  LET h1 == [h EXCEPT !.unused = @ \ {c}, !.used = @ \cup {c},
                      !.cell[c].requested = length,
                      !.block[h.cell[c].block].n_used = @ + 1]
      k == h.cell[c]
  IN  Fill(h1, k.block, k.words + 1, k.words + 1 + length, Zero)

TakeCell(h, c, length) ==
  IF h.cell[c].n_words <= length + 2 + WASTE
  THEN [heap |-> UseCell(h, c, length), cell |-> c]
  ELSE IF PoolFree(h) = {}
  THEN [heap |-> h, cell |-> None]
  ELSE [heap |-> UseCell(SplitFront(h, c, length + 2), PoolAlloc(h), length),
        cell |-> PoolAlloc(h)]

\* The first cell of the unused ring that is long enough, in any order of the ring.
SecAlloc(h, b, length) ==
  LET fits == {c \in h.unused : h.cell[c].block = b /\ h.cell[c].n_words >= length + 2}
  IN  IF fits = {} THEN {[heap |-> h, cell |-> None]}
      ELSE {TakeCell(h, c, length) : c \in fits}

---------------------------------------------------------------------------
(* sec_free                                                                 *)

Slip_ClearOneLess(h, c, from, to) ==
  Fill(h, h.cell[c].block, h.cell[c].words + 1 + from, h.cell[c].words + to, Zero)

Clear(h, c, from, to) ==
  Fill(h, h.cell[c].block, h.cell[c].words + 1 + from, h.cell[c].words + 1 + to, Zero)

\* Cell `gone` becomes a part of cell `into`, which starts at word `words`.
MergeCells(h, into, gone, words) ==
  LET h1 == [Forget(Forget(h, into), gone) EXCEPT
               !.cell[into].n_words = @ + h.cell[gone].n_words,
               !.cell[into].words = words]
  IN  WriteGuards(DropCell(h1, gone), into)

SecFree(h, c) ==
  LET h1 == [Clear(h, c, 0, h.cell[c].requested) EXCEPT !.used = @ \ {c}]
      before == NeighborBefore(h1, c)
      joins == IsUnused(h1, before)
      h2 == IF joins THEN MergeCells(h1, before, c, h1.cell[before].words) ELSE h1
      c2 == IF joins THEN before ELSE c
      after == NeighborAfter(h2, c2)
      h3 == IF IsUnused(h2, after)
            THEN MergeCells(h2, after, c2, h2.cell[c2].words) ELSE h2
      c3 == IF IsUnused(h2, after) THEN after ELSE c2
  IN  [h3 EXCEPT !.unused = @ \cup {c3}, !.cell[c3].requested = 0,
                 !.block[h.cell[c].block].n_used = @ - 1]

---------------------------------------------------------------------------
(* sec_realloc                                                              *)

\* Cell c takes n words from the front of the cell behind it.
Steal(h, c, other, n) ==
  WriteGuards(WriteGuards(
    [Forget(Forget(h, c), other) EXCEPT
       !.cell[other].words = @ + n, !.cell[other].n_words = @ - n,
       !.cell[c].n_words = @ + n], other), c)

\* The unused neighbour gives the words that are missing, or all it has when too
\* little of it would be left.
Grow(h, c, n) ==
  LET other == NeighborAfter(h, c)
      missing == n - h.cell[c].n_words
  IN  IF missing <= 0 \/ ~IsUnused(h, other) THEN h
      ELSE IF missing + WASTE >= h.cell[other].n_words
      THEN MergeCells(h, c, other, h.cell[c].words)
      ELSE Steal(h, c, other, missing)

\* The loop stops at the first neighbour that is in use; two unused cells are never
\* side by side (Coalesced), so a third round would change nothing.
GrowCell(h, c, n) == Grow(Grow(h, c, n), c, n)

SecRealloc(h, c, length) ==
  LET valid == h.cell[c].requested
      n == length + 2
      Resized(g) == [g EXCEPT !.cell[c].requested = length]
      g == GrowCell(h, c, n)
      Moved(r) ==
        IF r.cell = None THEN r
        ELSE [heap |-> SecFree(Copy(r.heap, Address(r.heap, c), Address(r.heap, r.cell), valid), c),
              cell |-> r.cell]
  IN  IF n <= h.cell[c].n_words
      THEN {[heap |-> IF length < valid THEN Clear(Resized(h), c, length, valid)
                                        ELSE Resized(h),
             cell |-> c]}
      ELSE IF n <= g.cell[c].n_words
      THEN {[heap |-> Clear(Resized(g), c, valid, length), cell |-> c]}
      ELSE {Moved(r) : r \in SecAlloc(g, h.cell[c].block, length)}

---------------------------------------------------------------------------
(* Blocks                                                                   *)

RoundUp(n) == ((n + PageWords - 1) \div PageWords) * PageWords
BlockWords(length) == RoundUp(IF length < DefaultWords THEN DefaultWords ELSE length)

Locked(h) == MapThenSumSet(LAMBDA b : h.block[b].n_words, DOMAIN h.block)

\* mmap or mlock fails past the limit, pool_alloc when the items are used up.
CanCreate(h, length) ==
  /\ Cardinality(PoolFree(h)) >= 2
  /\ Locked(h) + BlockWords(length) <= LockLimit

\* One cell over all of the words.  `length` is what the caller asked for: the two
\* guard words are not in it.
SecBlockCreate(h, length) ==
  LET b == PoolAlloc(h)
      n == BlockWords(length)
      h1 == [h EXCEPT !.block = With(@, b, [n_words |-> n, n_used |-> 0]),
                      !.mem = With(@, b, [w \in 0..(n - 1) |-> Zero])]
      c == PoolAlloc(h1)
      k == [block |-> b, words |-> 0, n_words |-> n, requested |-> 0]
  IN  WriteGuards([h1 EXCEPT !.cell = With(@, c, k), !.unused = @ \cup {c}], c)

Slip_KeepIdleBlock(h, b) == h

\* sec_block_destroy, for a block no cell of which is used any more
SecBlockRelease(h, b) ==
  IF h.block[b].n_used # 0 THEN h
  ELSE [h EXCEPT !.block = Without(@, {b}), !.mem = Without(@, {b}),
                 !.cell = Without(@, CellsOf(h, b)),
                 !.unused = @ \ CellsOf(h, b)]

\* The section of egg_secure_alloc_full under the lock: every block is tried, then a
\* new one.
Allocate(h, length) ==
  LET tries == UNION {SecAlloc(h, b, length) : b \in DOMAIN h.block}
      missed == \A b \in DOMAIN h.block : \E r \in SecAlloc(h, b, length) : r.cell = None
      fresh == SecBlockCreate(h, length)
  IN  {r \in tries : r.cell # None} \cup
      IF ~missed THEN {}
      ELSE IF CanCreate(h, length) THEN SecAlloc(fresh, PoolAlloc(h), length)
      ELSE {[heap |-> h, cell |-> None]}

---------------------------------------------------------------------------
(* The public functions.  A buffer is the address of its first word; those  *)
(* from the fallback allocator have no block and live in pageable memory.   *)

VARIABLES
  heap,      \* all_blocks and what hangs off it
  pageable,  \* the words of the fallback buffers
  buf,       \* the buffers: owner, length, and why they are where they are
  call,      \* where a thread stands in egg_secure_realloc_full
  starved    \* history: an allocation has found the meta data pool empty

vars == <<heap, pageable, buf, call, starved>>

Null == [block |-> None, word |-> None]
Idle == [at |-> "idle", ptr |-> Null, length |-> 0, new |-> Null, cause |-> "none"]

Init ==
  /\ heap = EmptyHeap
  /\ pageable = << >>
  /\ buf = << >>
  /\ call = [t \in Threads |-> Idle]
  /\ starved = FALSE

NewHandle == CHOOSE i \in 1..(Cardinality(DOMAIN pageable) + 1) : i \notin DOMAIN pageable
IsLocked(p) == p.block # None
CellOf(h, p) == h.mem[p.block][p.word - 1][2]

Contents(p, length) ==
  IF IsLocked(p) THEN [i \in 1..length |-> heap.mem[p.block][p.word + i - 1]]
  ELSE pageable[p.word]

Zeros(length) == [i \in 1..length |-> Zero]

\* egg_secure_alloc_full.  Without memory from a block the caller gets pageable
\* memory if it passed EGG_SECURE_USE_FALLBACK, and NULL otherwise.
Outcomes(length) ==
  LET rs == Allocate(heap, length)
      cause == IF CanCreate(heap, length) THEN "misfit" ELSE "refused"
  IN  {[heap |-> r.heap, ptr |-> Address(r.heap, r.cell), cause |-> "locked",
        starved |-> FALSE] :
         r \in {x \in rs : x.cell # None}}
      \cup
      {[heap |-> r.heap, ptr |-> p, cause |-> cause, starved |-> PoolFree(r.heap) = {}] :
         r \in {x \in rs : x.cell = None},
         p \in {Null, [block |-> None, word |-> NewHandle]}}

Receive(o, length) ==
  /\ heap' = o.heap
  /\ pageable' = IF o.ptr # Null /\ ~IsLocked(o.ptr)
                 THEN With(pageable, o.ptr.word, Zeros(length)) ELSE pageable
  /\ starved' = (starved \/ o.starved)

Alloc(t) ==
  /\ call[t] = Idle
  /\ Cardinality(DOMAIN buf) < MaxBuffers
  /\ \E length \in Lengths : \E o \in Outcomes(length) :
       /\ Receive(o, length)
       /\ buf' = IF o.ptr = Null THEN buf
                 ELSE With(buf, o.ptr, [owner |-> t, length |-> length, cause |-> o.cause])
  /\ UNCHANGED call

Mine(t) == {p \in DOMAIN buf : buf[p].owner = t}

\* The program fills its buffer.
Write(t) ==
  /\ call[t] = Idle
  /\ \E p \in Mine(t) :
       IF IsLocked(p)
       THEN /\ heap' = Fill(heap, p.block, p.word, p.word + buf[p].length, Data(t))
            /\ UNCHANGED pageable
       ELSE /\ pageable' = [pageable EXCEPT ![p.word] = [i \in DOMAIN @ |-> Data(t)]]
            /\ UNCHANGED heap
  /\ UNCHANGED <<buf, call, starved>>

Release(h, p) == SecBlockRelease(SecFree(h, CellOf(h, p)), p.block)

Slip_FreeNothing(p) == UNCHANGED <<heap, pageable>>

\* egg_secure_free_full
FreeMemory(p) ==
  IF IsLocked(p) THEN heap' = Release(heap, p) /\ UNCHANGED pageable
  ELSE pageable' = Without(pageable, {p.word}) /\ UNCHANGED heap

Free(t) ==
  /\ call[t] = Idle
  /\ \E p \in Mine(t) :
       /\ FreeMemory(p)
       /\ buf' = Without(buf, {p})
  /\ UNCHANGED <<call, starved>>

Replace(p, q, length, cause) ==
  buf' = With(Without(buf, {p}), q,
              [owner |-> buf[p].owner, length |-> length, cause |-> cause])

\* egg_secure_realloc_full: the block of the buffer is tried under the lock.
Realloc(t) ==
  /\ call[t] = Idle
  /\ \E p \in Mine(t), length \in Lengths :
       /\ IsLocked(p)
       /\ length # buf[p].length
       /\ \E r \in SecRealloc(heap, CellOf(heap, p), length) :
            /\ heap' = SecBlockRelease(r.heap, p.block)
            /\ IF r.cell # None
               THEN Replace(p, Address(r.heap, r.cell), length, "locked") /\ UNCHANGED call
               ELSE /\ call' = [call EXCEPT ![t] = [Idle EXCEPT
                                   !.at = "alloc", !.ptr = p, !.length = length]]
                    /\ UNCHANGED buf
  /\ UNCHANGED <<pageable, starved>>

\* A buffer of no block is handed to the fallback allocator.
ReallocFallback(t) ==
  /\ call[t] = Idle
  /\ \E p \in Mine(t), length \in Lengths :
       /\ ~IsLocked(p)
       /\ length # buf[p].length
       /\ pageable' = [pageable EXCEPT ![p.word] =
                          [i \in 1..length |-> IF i \in DOMAIN @ THEN @[i] ELSE Zero]]
       /\ Replace(p, p, length, buf[p].cause)
  /\ UNCHANGED <<heap, call, starved>>

\* donew: allocate, copy and free, each under a lock of its own and the copy without.
ReallocAlloc(t) ==
  /\ call[t].at = "alloc"
  /\ \E o \in Outcomes(call[t].length) :
       /\ Receive(o, call[t].length)
       /\ call' = [call EXCEPT ![t] = IF o.ptr = Null THEN Idle
                     ELSE [@ EXCEPT !.at = "copy", !.new = o.ptr, !.cause = o.cause]]
  /\ UNCHANGED buf

ReallocCopy(t) ==
  LET p == call[t].ptr
      q == call[t].new
      n == buf[p].length
  IN
  /\ call[t].at = "copy"
  /\ IF IsLocked(q)
     THEN heap' = Copy(heap, p, q, n) /\ UNCHANGED pageable
     ELSE /\ pageable' = [pageable EXCEPT ![q.word] =
                  [i \in DOMAIN @ |-> IF i <= n THEN heap.mem[p.block][p.word + i - 1] ELSE @[i]]]
          /\ UNCHANGED heap
  /\ call' = [call EXCEPT ![t].at = "free"]
  /\ UNCHANGED <<buf, starved>>

ReallocFree(t) ==
  /\ call[t].at = "free"
  /\ FreeMemory(call[t].ptr)
  /\ Replace(call[t].ptr, call[t].new, call[t].length, call[t].cause)
  /\ call' = [call EXCEPT ![t] = Idle]
  /\ UNCHANGED starved

Next ==
  \E t \in Threads :
    \/ Alloc(t) \/ Write(t) \/ Free(t) \/ Realloc(t) \/ ReallocFallback(t)
    \/ ReallocAlloc(t) \/ ReallocCopy(t) \/ ReallocFree(t)

Spec == Init /\ [][Next]_vars

---------------------------------------------------------------------------
(* Properties                                                               *)

WordsOf(c) == heap.cell[c].words..(heap.cell[c].words + heap.cell[c].n_words - 1)
InFlight(t) == IF call[t].at \in {"copy", "free"} THEN {call[t].new} ELSE {}
Live == DOMAIN buf \cup UNION {InFlight(t) : t \in Threads}
LengthOf(p) ==
  IF p \in DOMAIN buf THEN buf[p].length
  ELSE call[CHOOSE t \in Threads : p \in InFlight(t)].length

\* The type of the state.
TypeOK ==
  /\ DOMAIN heap.block \cup DOMAIN heap.cell \subseteq Items
  /\ DOMAIN heap.block \cap DOMAIN heap.cell = {}
  /\ \A c \in DOMAIN heap.cell :
       heap.cell[c] \in [block : DOMAIN heap.block, words : Nat, n_words : Nat,
                         requested : Nat]
  /\ \A b \in DOMAIN heap.block : heap.block[b] \in [n_words : Nat, n_used : Nat]
  /\ DOMAIN heap.mem = DOMAIN heap.block
  /\ Cardinality(DOMAIN buf) <= MaxBuffers
  /\ \A t \in Threads : call[t].at \in {"idle", "alloc", "copy", "free"}

\* What sec_validate and egg_secure_records assert of every block, between any two
\* sections under the lock (parts of HeapConsistent): the cells account for each word exactly once, both
\* guards of a cell lead back to it, and a cell is on the ring it belongs to.
CellsTileTheirBlock ==
  \A b \in DOMAIN heap.block :
    /\ \A c \in CellsOf(heap, b) : WordsOf(c) \subseteq DOMAIN heap.mem[b]
    /\ \A w \in DOMAIN heap.mem[b] :
         Cardinality({c \in CellsOf(heap, b) : w \in WordsOf(c)}) = 1
GuardsLeadBack ==
  \A c \in DOMAIN heap.cell :
    /\ heap.cell[c].n_words >= 2
    /\ \A w \in Ends(heap, c) : heap.mem[heap.cell[c].block][w] = Guard(c)
RingsMatch ==
  /\ heap.unused = {c \in DOMAIN heap.cell : heap.cell[c].requested = 0}
  /\ heap.used = DOMAIN heap.cell \ heap.unused
  /\ \A b \in DOMAIN heap.block :
       heap.block[b].n_used = Cardinality(CellsOf(heap, b) \cap heap.used)
\* Two unused cells are never neighbours, whatever the order in which buffers are
\* freed and grown: otherwise a request could miss room that is there.
Coalesced == \A c \in heap.unused : ~IsUnused(heap, NeighborAfter(heap, c))

\* The state has its type, and what the three parts above and Coalesced say of it holds
\* together: a guard that is not written, or a neighbour that is not found, breaks it at
\* some later split, steal or merge.
HeapConsistent ==
  TypeOK /\ CellsTileTheirBlock /\ GuardsLeadBack /\ RingsMatch /\ Coalesced

\* The used cells are exactly the live buffers, each with the length its owner
\* asked for: a reallocation that fails half way, or that another thread
\* interrupts, neither loses a cell nor gives one to two buffers.
UsedCellsAreBuffers ==
  /\ {Address(heap, c) : c \in heap.used} = {p \in Live : IsLocked(p)}
  /\ \A c \in heap.used :
       /\ heap.cell[c].requested = LengthOf(Address(heap, c))
       /\ heap.cell[c].requested <= heap.cell[c].n_words - 2

\* What a thread wrote is found in locked memory only inside a buffer of that thread:
\* freed, shrunk and moved buffers leave nothing behind.
Scrubbed ==
  \A b \in DOMAIN heap.block, t \in Threads : \A w \in DOMAIN heap.mem[b] :
    heap.mem[b][w] = Data(t) =>
      \E p \in Mine(t) \cup InFlight(t) :
        p.block = b /\ w \in p.word..(p.word + LengthOf(p) - 1)

\* A block that is still mapped holds a buffer, and a buffer is in pageable memory
\* because the system refused locked pages: with two exceptions.  A block made for a
\* request that fills its pages to the last words has no room for the two guards, and one
\* made with the last two items of the pool cannot be split.
Misfit(length) == BlockWords(length) < length + 2
NoIdleBlocks ==
  /\ \A b \in DOMAIN heap.block :
       heap.block[b].n_used = 0 =>
         \/ \E length \in Lengths : Misfit(length) /\ heap.block[b].n_words = BlockWords(length)
         \/ starved
  /\ \A p \in DOMAIN buf :
       \/ IsLocked(p) \/ buf[p].cause = "refused"
       \/ \E length \in Lengths : Misfit(length)
       \/ starved

\* The buffers behave as those of SecureHeap.
Heap == INSTANCE SecureHeap WITH
          objs <- [p \in DOMAIN buf |-> Contents(p, buf[p].length)]
ImplementsHeap == Heap!Spec
=============================================================================
