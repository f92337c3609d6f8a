CONSTANTS
  Symbols <- MCSymbols
  ChoiceSyms = {"<mode>"}
  StringValid <- MCValid
  Number <- MCNumber
  Text <- MCText
  Order <- MCOrder
  MenuFiles <- Menus
  Successor <- Next1
  Configs <- MCConfigs
  Lines <- MCLines
  MaxRuns <- MCRuns
  MaxEdits <- MCEdits
  Places = {1, 2, 3}
  Picks <- MCPicks
SPECIFICATION FairSpec
INVARIANTS
  VisibilityAsWritten
  ChoiceExclusive
  EveryNewAsked
  SavedIsStable
PROPERTIES
  ConfigKept
  BuiltAsSaved
  TouchedCovers
  ConfEnds
