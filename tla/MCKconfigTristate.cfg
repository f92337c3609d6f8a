CONSTANTS
  Symbols <- MCSymbols
  ChoiceSyms = {"<mode>"}
  StringValid <- MCValid
  Number <- MCNumber
  Text <- MCText
  Order <- MCOrder
  MenuFiles <- TristateMenus
  Successor <- NoSuccessor
  Configs <- MCConfigs
  Lines <- MCLines
  MaxRuns <- MCRuns
  MaxEdits <- TristateEdits
  Places = {1, 2, 3}
  Picks <- MCPicks
SPECIFICATION Spec
INVARIANT VisibilityAsWritten
