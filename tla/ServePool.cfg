SPECIFICATION FairSpec
CONSTANTS
  Clients = {c1, c2, c3}
  Kinds = {"sized", "stream", "guarded"}
  Panicky = {"sized"}
  Workers = 1
  MaxStreams = 1
  ChannelSize = 1
 
PROPERTIES SizedAnswered DisconnectEndsJob
