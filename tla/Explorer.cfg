SPECIFICATION Spec
CONSTANTS
  Root = Root
  Folders = {f1}
  Query = Query
  None = None
  NumPages = 2
  Handlers = {h1, h2}
  MaxDepth = 2
  MaxPresses = 4
  MaxFaults = 1
  MaxCrashes = 1
INVARIANTS TypeOK CrumbsLeadToFolder PageShownIsListed ViewFollowsState
PROPERTIES PromptFiresOnce RefreshOffersNext
SYMMETRY Symmetry
