SPECIFICATION CacheSpec
CHECK_DEADLOCK FALSE
CONSTANTS
  Literal <- Literals
  Root = 0
  Inner <- InnerOf
  NameOf <- Names
  NoName = 0
  GlobalName = {1, 2, 4}
  ContextName <- ContextNames
  ConstantId = {1, 2, 3}
  MaximumValueID = 4
  Hoisted = {1, 2}
  Chunk <- Chunks
  NoChunk = NoChunk
  Position = {1, 6}
  Code <- Codes
  NoCode = NoCode
  MaxBlocks = 2
INVARIANTS
  ReadInBounds
  LoadedAsSaved
  EveryConstantLoaded
PROPERTIES
  
  ImplementsMap
