------------------------------ MODULE EntryBuffer ------------------------------
(***************************************************************************)
(* EggSecureEntryBuffer (egg/egg-secure-entry-buffer.c), the buffer behind  *)
(* the password entries: UTF-8 text in one allocation of the secure         *)
(* allocator that doubles up to a maximum, edited in place.  The memory is  *)
(* locked, and then cleared when it is freed, or comes from the fallback,   *)
(* which is pageable and clears nothing.                                    *)
(*                                                                          *)
(* One step is one call of GTK, which passes positions within the text.     *)
(***************************************************************************)
EXTENDS Integers, Sequences, SequencesExt, FiniteSetsExt

CONSTANTS
  Chars, Width,   \* characters and the bytes each is encoded in
  MinSize,        \* MIN_SIZE
  MaxSize,        \* GTK_ENTRY_BUFFER_MAX_SIZE
  MaxInsert       \* bound: characters inserted at a time

ASSUME EntryBufferAssumption ==
  /\ Width \in [Chars -> Nat \ {0}]
  /\ {MinSize, MaxSize, MaxInsert} \subseteq Nat
  /\ 0 < MinSize /\ MinSize < MaxSize

Nul == <<"nul", 0>>
Junk == <<"junk", 0>>     \* a byte nobody has written

VARIABLES
  text,        \* the allocation, a sequence of text_size bytes; << >> for NULL
  text_bytes, text_chars,
  refused,     \* << >>, or the first character the last insertion did not take
  memory,      \* "none", "locked" or "fallback"
  left,        \* bytes of what was typed in pageable memory that has been freed
  loose        \* what has happened to the text: "moved" in the fallback, "shrunk"

entryVars == <<text, text_bytes, text_chars, refused, memory, left, loose>>
text_size == Len(text)

EntryInit ==
  /\ text = << >> /\ text_bytes = 0 /\ text_chars = 0 /\ refused = << >>
  /\ memory = "none"
  /\ left = {} /\ loose = {}

---------------------------------------------------------------------------
(* UTF-8.  The bytes of c are <<c, 1>>, ..., <<c, Width[c]>>.               *)

Encode(s) == FlattenSeq([i \in DOMAIN s |-> [j \in 1..Width[s[i]] |-> <<s[i], j>>]])

\* g_utf8_offset_to_pointer: steps over n characters, each by what its first byte says.
Skip(b) == IF b[1] \in Chars /\ b[2] = 1 THEN Width[b[1]] ELSE 1
OffsetToPointer(bytes, n) ==
  LET at[i \in 0..n] == IF i = 0 THEN 0 ELSE at[i - 1] + Skip(bytes[at[i - 1] + 1])
  IN at[n]

\* g_utf8_find_prev_char of the byte after the first n: where the last character starts that
\* begins at offset n or before.
StartOf(bytes, i) == bytes[i + 1][2] = 1
Slip_PrevCharBefore(bytes, n) ==
  IF n = 0 THEN 0 ELSE CHOOSE i \in 0..(n - 1) : StartOf(bytes, i) /\ \A j \in (i + 1)..(n - 1) : ~StartOf(bytes, j)
FindPrevChar(bytes, n) ==
  CHOOSE i \in 0..n : StartOf(bytes, i) /\ \A j \in (i + 1)..n : ~StartOf(bytes, j)

\* The characters the first n bytes stand for.
CharsOf(bytes, n) ==
  LET chars[i \in 0..n] ==
        IF i = 0 THEN << >>
        ELSE IF StartOf(bytes, i - 1) THEN Append(chars[i - 1], bytes[i][1]) ELSE chars[i - 1]
  IN chars[n]

Utf8Strlen(bytes, n) == Cardinality({i \in 0..(n - 1) : StartOf(bytes, i)})

---------------------------------------------------------------------------
(* Memory.                                                                  *)

\* The loop: MIN_SIZE, doubled while that stays below the maximum, then the maximum.
Sizes == {MinSize * 2^k : k \in 0..MaxSize} \cap (1..(MaxSize - 1))
GrownSize(need) ==
  LET enough == {n \in Sizes : n >= text_size /\ n >= need}
  IN IF enough = {} THEN MaxSize ELSE Min(enough)

\* egg_secure_realloc: locked memory may move to the fallback and is cleared; memory of
\* the fallback stays there, and what g_realloc moves it from is not cleared.
Secrets(bytes) == {bytes[i] : i \in DOMAIN bytes} \ {Nul, Junk}
Grown(size) == [i \in 1..size |-> IF i <= text_size THEN text[i] ELSE Junk]
Realloc(size) ==
  /\ memory' \in (IF memory = "fallback" THEN {"fallback"} ELSE {"locked", "fallback"})
  /\ \/ UNCHANGED <<left, loose>>
     \/ /\ memory = "fallback"
        /\ left' = left \cup Secrets(text)
        /\ loose' = loose \cup {"moved"}

\* memmove within the allocation.
Move(bytes, to, from, n) ==
  [i \in DOMAIN bytes |-> IF i \in (to + 1)..(to + n) THEN bytes[i - to + from] ELSE bytes[i]]
Write(bytes, at, new) ==
  [i \in DOMAIN bytes |-> IF i \in (at + 1)..(at + Len(new)) THEN new[i - at] ELSE bytes[i]]

---------------------------------------------------------------------------
(* The virtual functions.                                                   *)

\* At the maximum size only whole characters are taken, as many as there is room for.
Slip_TruncateBytes(bytes, size) == Min({Len(bytes), size - text_bytes - 1})
Truncate(bytes, size) ==
  LET space == size - text_bytes - 1
  IN IF Len(bytes) > space THEN FindPrevChar(bytes, space) ELSE Len(bytes)

Insert(position, chars) ==
  LET bytes == Encode(chars)
      need == text_bytes + Len(bytes) + 1
      size == IF need > text_size THEN GrownSize(need) ELSE text_size
      n_bytes == Truncate(bytes, size)
      old == Grown(size)
      at == OffsetToPointer(old, position)
      moved == Move(old, at + n_bytes, at, text_bytes - at)
  IN /\ IF need > text_size THEN Realloc(size) ELSE UNCHANGED <<memory, left, loose>>
     /\ text' = Write(Write(moved, at, SubSeq(bytes, 1, n_bytes)), text_bytes + n_bytes, <<Nul>>)
     /\ text_bytes' = text_bytes + n_bytes
     /\ text_chars' = text_chars + Utf8Strlen(bytes, n_bytes)
     /\ refused' = IF n_bytes < Len(bytes) THEN <<bytes[n_bytes + 1][1]>> ELSE << >>

Delete(position, n_chars) ==
  LET from == IF position > text_chars THEN text_chars ELSE position
      n == IF from + n_chars > text_chars THEN text_chars - from ELSE n_chars
      start == OffsetToPointer(text, from)
      end == OffsetToPointer(text, from + n)
  IN IF n = 0
     THEN UNCHANGED <<text, text_bytes, text_chars, loose>>
     ELSE /\ text' = Move(text, start, end, text_bytes + 1 - end)
          /\ text_bytes' = text_bytes - (end - start)
          /\ text_chars' = text_chars - n
          /\ loose' = loose \cup {"shrunk"}

InsertText(position, chars) == Insert(position, chars)
DeleteText(position, n_chars) ==
  Delete(position, n_chars) /\ refused' = << >> /\ UNCHANGED <<memory, left>>

\* egg_secure_strfree: the bytes up to the NUL are overwritten, then the memory is freed,
\* which clears it if it is locked.  Another entry comes with another buffer.
Strlen(bytes) == Min({i \in DOMAIN bytes : bytes[i] = Nul}) - 1
Slip_Strclear(bytes) == bytes
Strclear(bytes) == [i \in DOMAIN bytes |-> IF i <= Strlen(bytes) THEN Junk ELSE bytes[i]]
Finalize ==
  /\ memory # "none"
  /\ left' = IF memory = "fallback" THEN left \cup Secrets(Strclear(text)) ELSE left
  /\ text' = << >> /\ text_bytes' = 0 /\ text_chars' = 0 /\ refused' = << >>
  /\ memory' = "none"
  /\ UNCHANGED loose

Inputs == UNION {[1..n -> Chars] : n \in 0..MaxInsert}
EntryNext ==
  \/ \E position \in 0..text_chars, chars \in Inputs : InsertText(position, chars)
  \/ \E position, n_chars \in 0..(text_chars + 1) : DeleteText(position, n_chars)
  \/ Finalize

EntrySpec == EntryInit /\ [][EntryNext]_entryVars

---------------------------------------------------------------------------
(* Properties.                                                              *)

\* The characters a reader of the text finds.
Shown == CharsOf(text, text_bytes)

\* The counters and the bytes agree after any sequence of edits: text_bytes bytes are exactly
\* text_chars whole characters, the NUL follows them within the allocation, and the
\* allocation has a size of the doubling sequence.
BufferIsSound ==
  \/ text = << >> /\ text_bytes = 0 /\ text_chars = 0 /\ memory = "none"
  \/ /\ text_bytes < text_size /\ text[text_bytes + 1] = Nul
     /\ SubSeq(text, 1, text_bytes) = Encode(Shown)
     /\ Len(Shown) = text_chars
     /\ Nul \notin ToSet(SubSeq(text, 1, text_bytes))
     /\ text_size \in Sizes \cup {MaxSize} /\ memory # "none"

\* Insertion and deletion in the middle, growth and truncation never change another
\* character: the buffer implements the text of a GtkEntryBuffer.
Text == INSTANCE EntryText WITH text <- Shown
ImplementsText == Text!Spec

\* Text in pageable memory is overwritten before the memory is freed (egg_secure_strfree), with
\* two exceptions: what g_realloc moved, and what a deletion left behind the NUL.
FreedTextIsCleared == loose = {} => left = {}
=============================================================================
