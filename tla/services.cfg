SPECIFICATION Spec
CONSTANTS
  Parts = {"limiter", "registry", "stats", "body", "sources", "declarations"}
  r1 = r1
  r2 = r2
  Requests = {r1, r2}
  Clients = {"c1", "c2"}
  CallsOf <- FirstOrBoth
  Anonymous = ""
  BucketSize = 1
  MaxAge = 0
  MaxCalls = 3
  MaxTicks = 1
  Calls = {r1, r2}
  Names = {"amqp091", "other"}
  Linked = {"amqp091"}
  MaxProviders = 3
  k1 = k1
  k2 = k2
  k3 = k3
  a1 = a1
  a2 = a2
  Checks = {k1, k2, k3}
  Addrs = {a1, a2}
  AddrOf <- TwoOfOne
  MaxReplicas = 2
  MaxEvents = 2
  NoCheck = NoCheck
  Window = 2
  Limit = 10
  Usages = {0, 9, 10}
  MaxSamples = 4
  BodyLimit = 2
  BodySizes = {1, 2, 3}
  MaxPublished = 1
  Askers = {r1, r2}
  MaxLength = 2
  d1 = d1
  d2 = d2
  Declarers = {d1, d2}
  DeadLetter = {d2}
  AutoDelete = {d1}
  HasParent = {d1}
  SubjectsOf <- OneShared
  OldSubjects = {"old"}
  Address = "address"
  Parent = "parent"
  MaxLosses = 1
INVARIANTS OwnBucket ProviderUsable StatusFollowsWindow BodyUnchanged StatsWithinStream KnownAddressExists BindingsSettled
CHECK_DEADLOCK FALSE
