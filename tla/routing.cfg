SPECIFICATION Spec
CONSTANTS
  c1 = c1
  c2 = c2
  cheap = cheap
  dear = dear
  Client = {c1, c2}
  Model = {cheap, dear}
  Nobody = Nobody
  Preferred <- MCPreferred
  Fallback <- MCFallback
  Cheapest <- MCCheapest
  Budget = 2
  MaxCost = 2
  Durations = {1}
  MaxNow = 2
  MaxDay = 2
  MaxEvents = 3
INVARIANTS
  TypeOK
  SpendIsOfItsDay
  PremiumStopsNearBudget
PROPERTY
  CascadeEndsOnTime
