SPECIFICATION Spec
CONSTANTS
  s1 = s1
  s2 = s2
  shopify = shopify
  klaviyo = klaviyo
  w1 = w1
  w2 = w2
  w3 = w3
  NoPage = NoPage
  Store = {s1}
  Tech = {klaviyo}
  Shopify = shopify
  Response <- SmallResponse
  Worker = {w1, w2}
  MaxCrawls = 4
  MaxAborts = 1
INVARIANTS
  EventsAreWitnessed
  OnlyRecordedEventsArePublished
  EventsAreAccountedFor
  RepeatsAreBounded
\* the crawls of every store may be used up
CHECK_DEADLOCK FALSE
