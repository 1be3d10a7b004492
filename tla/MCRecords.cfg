SPECIFICATION RecordsSpec
CONSTANTS
  Parts = {"conflict", "reveal", "index", "intake", "match", "krisp", "legacy"}
  Holders = {"a", "b", "c"}  Values = {"p1", "p2", "e1"}  Callers = {1, 2}  Passes = 2  MaxMisses = 1
  Numbers = {"m1", "h1", "o1"}  Excluded = {"w1"}  Unreadable = {}  Reveals = {1, 2}  MaxAdded = 2  MaxBroken = 2
  Namesakes = {"a", "b"}  Addresses = {"y"}  Caches = {1}  Bookings = {12}  Life = 2  MaxIndexFaults = 1
  Adds = {"a1", "a2", "a3"}  Cooldown = 1  MaxCallFaults = 1
  People = {"p1", "p2", "p3", "p4", "p5"}  SearchCap = 2  MaxResults = 3
  Staff = {"joel", "ana"}  Guests = {"gus"}  Owner = "joel"  Isolates = {"i"}  Deliveries = {1, 2}  MaxKrispFaults = 1
  Persons = {"a", "b", "c"}  Recent = {"a", "b"}  Tails = {"tail"}  Rebuilds = {"rebuild"}
  HardCap = 2  Patience = 1  DayTicks = 2  MaxUpdates = 1  MaxLegacyTime = 4
  Field <- KindOf  Rank <- RankOf  Brings <- BroughtBy
  Attendee <- Booker  Address <- BookedWith  GivesProfile <- WithProfile  Chunk <- ChunkOf
  FirstName <- FirstOfName  LastName <- LastOfName  Org <- Employer  Same <- Agreeing
  Stripped <- NoInitial  Letter <- Initial  IsLetter <- InitialOnly  Normalized <- PlainOrg
  Profiles <- SomeProfiles
INVARIANT RecordTypesOK
INVARIANT LostOnlyInHandover
INVARIANT RevealsMerge
INVARIANT CachedIsTrue
INVARIANT IntakeHolds
INVARIANT NoStrangerRevealed
INVARIANT KrispNotesHold
CHECK_DEADLOCK FALSE
