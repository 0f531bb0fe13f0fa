SPECIFICATION PlatformSpec
CONSTANTS
  p1 = p1  p2 = p2  m1 = m1  m2 = m2  r1 = r1
  s1 = s1  s2 = s2  k1 = k1  k2 = k2  seed = seed  up = up  n1 = n1  n2 = n2
  None = None
  Missing = Missing
  Names = {p1, p2}
  Models = {m1, m2}
  ModelLists = {{m1}, {m2}}
  Requests = {r1}
  Bundled = p1
  Installed = Installed
  Edited = Edited
  MaxFaults = 1
  Skills = {s1, s2}
  Contents = {k1, k2}
  Publishes = {seed, up}
  Seed = seed
  Shipped = s1
  Preset = k1
  Own = Own
  Nothing = Nothing
  MaxUpsets = 2
  Instances = {n1, n2}
  MaxCreates = 2
  MaxMishaps = 1
INVARIANTS BootsConfigured VouchedContent Fetchable OwnData
PROPERTIES SelectionSpared KeysStayWhole KeysDelivered PodRunFollows SkillsRunFollow PodsSpared InstancesRunSettle
CHECK_DEADLOCK FALSE
