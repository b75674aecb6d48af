SPECIFICATION Spec
CONSTANTS
  Collections <- MCCollections
  Session = {"session"}
  Items <- MCItems
  Home <- MCHome
  Known = {"password", "new"}
  New = {"new"}
  MaxCalls = 1
  MaxActs = 2
  Edited = "password"
  Shown <- MCShown
  Hidden <- MCHidden
  Format <- MCFormat
  Initial <- MCInitial
  Typed <- MCTyped
  Theirs = {"two"}
CHECK_DEADLOCK FALSE
INVARIANTS
  ShowsTheKeyring
  EditsAreSaved
  RowShowsTheItem
PROPERTIES
  EditsLeaveTheRest
  QuestionsEnd
