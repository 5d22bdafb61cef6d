SPECIFICATION SerialSpec
CONSTANTS
  s1 = s1
  s2 = s2
  shopify = shopify
  klaviyo = klaviyo
  w1 = w1
  w2 = w2
  w3 = w3
  NoPage = NoPage
  Store = {s1, s2}
  Tech = {shopify}
  Shopify = shopify
  Response <- ToggleResponse
  Worker = {w1, w2}
  MaxCrawls = 3
  MaxAborts = 1
INVARIANTS
  MetadataGrowsOnChange
  ViewIsLastPage
PROPERTY ImplementsStoreHistory
\* the crawls of every store may be used up
CHECK_DEADLOCK FALSE
