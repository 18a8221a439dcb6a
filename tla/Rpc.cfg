CONSTANTS
  Clients = {c1, c2, c3}
  Asked = {"sleep"}
  MAX_REPEAT = 2
  CRASHES = 1
SPECIFICATION FairSpec
INVARIANTS Synchronous OnePhantom ServerOutlivesOrderlyClients
PROPERTIES ClientsEnd
