SPECIFICATION Spec
CONSTANTS
  Release = {6, 7, 9, 14}
  Deploy = {d1, d2}
  MaxMishaps = 2
  MaxRows = 3

  Slug = {"starter", "growth", "team"}
  Price = {"p1", "p2", "p4"}
  List <- MCList
  Script = {c1, c2}
  Reader = {r1}
  NoRow = NoRow
  MaxRuns = 3
  MaxReads = 1

  Version = {1, 2}
  Vendored <- MCVendored
  Categories <- MCCategories
  Overrides <- MCOverrides
  Task = {"t1", "t2", "c1"}
  Process = {"worker", "script"}
  CatalogScript = {"script"}
  ProcessOf <- MCProcessOf
  Html <- MCHtml
  None = None
  MaxFaults = 2

  Store = {1, 2, 3}
  IdRank <- MCIdRank
  Name = {"klaviyo", "shopify"}
  NameRank <- MCNameRank
  Query <- MCQuery
  Contents <- MCContents
  Page <- MCPage
  Read = {r1}
  Limit = 2
  Null = Null
  MaxWrites = 2
INVARIANTS
  SchemaMatchesTypes
  RunningCodeFitsSchema
  HolesAreBounded
  CompletedSyncIsExact
  MatchesAreWhole
  SearchFindsTheStores
  ProfilesAreCoherent
PROPERTY EventLogKeepsPresence
CHECK_DEADLOCK FALSE
