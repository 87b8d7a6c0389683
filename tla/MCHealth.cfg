CONSTANTS
  crawl4ai = crawl4ai
  searxng = searxng
  Prober = {p1, p2}
  Upstreams <- MCUpstreams
  TTL = 2
  CheckMax = 1
SPECIFICATION Spec
SYMMETRY Symmetry
PROPERTIES ReadyIsRecent NotReadyExplained
