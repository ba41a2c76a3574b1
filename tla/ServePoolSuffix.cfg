SPECIFICATION Spec
CONSTANTS
  Clients = {c1, c2}
  Kinds = {"sized", "suffixed"}
  Panicky = {}
  Workers = 1
  MaxStreams = 1
  ChannelSize = 1
INVARIANT StreamsOffPool
