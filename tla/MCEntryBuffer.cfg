SPECIFICATION EntrySpec
CONSTANTS
  Chars <- MCChars
  Width <- MCWidth
  MinSize <- MCMinSize
  MaxSize <- MCMaxSize
  MaxInsert <- MCMaxInsert
INVARIANTS
  BufferIsSound
  FreedTextIsCleared
PROPERTIES
  ImplementsText
