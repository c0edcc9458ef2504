SPECIFICATION Spec
CONSTANTS
  Packs <- MCPacks
  Missing = Missing
  OwnVersions <- MCOwnVersions
  Descriptor <- MCDescriptor
  Template <- MCTemplate
  MappedTo <- MCMappedTo
  MAX_CODE_POINT = 5
  Surrogates = {3}
  Fields <- MCFields
  Definitions <- MCDefinitions
  MaxTokens = 6
  MaxGroups = 2
  Lower <- MCLower
  Upper <- MCUpper
  Decomposed <- MCDecomposed
  CodePoint <- MCCodePoint
  Processors <- MCProcessors
  Inputs <- MCInputs
  MAX_PATTERN_REPEATS = 2
  Limits = {2, 3, 6}
INVARIANTS
  MergedOnce
  ClassesMeanSets
  PatternsMatchAlike
  EachVariantOnce
  MarkersResolve
PROPERTIES
  HandWorkKept
  KeepsPartOfSpeech
CHECK_DEADLOCK FALSE
