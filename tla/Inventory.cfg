SPECIFICATION ListingSpec
CONSTANTS
  p1 = p1  p2 = p2  x1 = x1  x2 = x2  g1 = g1  g2 = g2  k1 = k1  k2 = k2
  shed = shed  box = box  main = main  other = other  d1 = d1  d2 = d2
  Clients <- MCClients
  Items <- MCItems
  Images <- MCImages
  Containers <- MCContainers
  Drafts <- MCDrafts
  Cleaner = Cleaner
  Places <- MCPlaces
  KindOf <- MCKindOf
  DefaultGroup = main
  Dispositions = {"stored", "for_sale", "sold"}
  Current = {"stored", "for_sale"}
  Stored = "stored"
  MaxImages = 1
  None = None
  Keep = Keep
  Scenarios <- MCScenarios
INVARIANTS ItemsAreSound ItemsKeepFiles
PROPERTIES AdditionsWithinLimit ExportsExpire
CHECK_DEADLOCK FALSE
