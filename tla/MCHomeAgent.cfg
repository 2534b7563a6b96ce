SPECIFICATION Spec
CONSTANTS
  Byte = 4
  h1 = h1
  h2 = h2
  c1 = c1
  c2 = c2
  ha = ha
  Broadcast = Broadcast
  Nothing = Nothing
  HomeAddress <- MCHomeAddress
  CareOfAddress <- MCCareOfAddress
  Sender <- MCSender
  Agent <- MCAgent
  Flags <- MCFlags
  Lifetime = {6}
  Id = {0}
  MaxBindings = 3
INVARIANT TypeOK
PROPERTIES ReplyIsTruthful CacheSpec
