CONSTANTS
  loader = loader
  mcp = mcp
  observability = observability
  Servers <- MCServers
  Streaming = {mcp}
  Grace = 2
  MaxActive = 1
SPECIFICATION LiveSpec
INVARIANTS CleanExit DrainAnnounced
PROPERTY Exits
