------------------------------- MODULE EntryText -------------------------------
(***************************************************************************)
(* What a GtkEntryBuffer promises to its entry: the text is a sequence of   *)
(* characters, an insertion puts whole characters where it was asked to and *)
(* drops only those at its end for which there is no room, and a deletion   *)
(* takes out the characters of a range.                                     *)
(***************************************************************************)
EXTENDS Integers, Sequences, SequencesExt, FiniteSetsExt

CONSTANTS
  Chars, Width,   \* characters and the bytes each takes
  MaxSize,        \* bytes a text and its end mark can take
  Inputs          \* sequences of characters that can be inserted

VARIABLES
  text,
  refused   \* << >>, or the first character the last insertion had no room for

Init == text = << >> /\ refused = << >>

Bytes(s) ==
  LET bytes[n \in 0..Len(s)] == IF n = 0 THEN 0 ELSE bytes[n - 1] + Width[s[n]]
  IN bytes[Len(s)]

Splice(pos, s) == SubSeq(text, 1, pos) \o s \o SubSeq(text, pos + 1, Len(text))

\* When characters are dropped there is no room for the first of them.
Insert(pos, chars) ==
  \E n \in 0..Len(chars) :
    /\ text' = Splice(pos, SubSeq(chars, 1, n))
    /\ refused' = SubSeq(chars, n + 1, Min({n + 1, Len(chars)}))
    /\ Bytes(text') < MaxSize
    /\ n < Len(chars) => Bytes(text') + Width[chars[n + 1]] >= MaxSize

Delete(pos, n) ==
  /\ text' = SubSeq(text, 1, pos) \o SubSeq(text, pos + n + 1, Len(text))
  /\ refused' = << >>

Clear == text' = << >> /\ refused' = << >>

Next ==
  \/ \E pos \in 0..Len(text), chars \in Inputs : Insert(pos, chars)
  \/ \E pos \in 0..Len(text) : \E n \in 0..(Len(text) - pos) : Delete(pos, n)
  \/ Clear

Spec == Init /\ [][Next]_<<text, refused>>
=============================================================================
