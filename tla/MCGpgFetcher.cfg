SPECIFICATION Spec
CONSTANTS
  MaxSearches <- MCMaxSearches
  MaxKeys <- MCMaxKeys
CHECK_DEADLOCK FALSE
INVARIANTS
  MatchesAreOfTheLastSearch
  MatchesAreShown
PROPERTY
  SearchesComeToRest
