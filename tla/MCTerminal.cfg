CONSTANTS
  NumTerm = 2
  BUFFER_SIZE = 3
  MaxCount = 3
SPECIFICATION FairSpec
INVARIANTS
  TypedLineHasNoHole
  FullLineIsAnnounced
PROPERTY ReaderNotStarved
