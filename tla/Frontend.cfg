SPECIFICATION Spec
CONSTANTS
  Word = {"shoes", "hats"}
  Blank = ""
  Shop = {"a", "b"}
  Hits <- MCHits
  NoOne = NoOne
  MaxEdits = 2
  MaxClicks = 2
  MaxToggles = 1
  MaxFailures = 1

  NoLoad = NoLoad
  MaxAttempts = 2
  MaxVisits = 4
  MaxFaults = 1
  MaxEnds = 1
  MaxPayments = 2
INVARIANTS
  QuietScreenIsCurrent
  IdleButtonTellsTheTruth
  RedirectsAreBounded
  SecondPaymentIsBlind
PROPERTIES
  SearchSettles
  CheckoutSettles
CHECK_DEADLOCK FALSE
