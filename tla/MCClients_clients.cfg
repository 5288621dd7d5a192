CONSTANTS
  MaxCheckouts = 2  MaxPerOrder = 1  Available = 1
  Words = {"sao", "rio"}  MaxFound = 1  MaxEdits = 3
  Ceps = {"c1", "c2"}  WithStreet = {"c1"}  MaxActs = 3
  Tickets = {"t1", "t2", "t3"}  Issued = {"t1", "t2"}  MaxReaders = 2  MaxScans = 4
  Filters = {"f", "g", "h"}  Pages <- PagesOf  MaxAsked = 4
  MaxFeatured = 8
  Capacity = 2  PaymentProviders = {"simulated", "stripe_test"}  MaxCrashes = 1  MaxMeddling = 1
  Keys = {"a", "b"}  Limit = 2  TTL = 2  MaxBuckets = 1  Horizon = 4  MaxAttempts = 3
  EventId = {"e1", "e2"}  Main = "e1"  CheckoutId = {"k1", "k2"}  Top = 1
  Update = {"w1"}  Initial = 1  MaxSequence = 2
SPECIFICATION ClientsSpec
INVARIANTS SuggestionsFitText AddressFitsCep AnswerFitsCode SlidesAroundFront CoverStored LimitHolds 
PROPERTIES NoCancelWhileCharging ProgressEnds  SeedEnds
\* A page may be left alone, and the bounds stop every program.
CHECK_DEADLOCK FALSE
