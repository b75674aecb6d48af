SPECIFICATION FairSpec
CONSTANTS
  NUids <- MCNUids
  NKeys <- MCNKeys
  MaxTrouble <- MCMaxTrouble
INVARIANTS
  SavedIsAllowed
  SmoothSessionSaves
PROPERTIES
  BogusChangeFails
  SessionEnds
  ImplementsTransaction
