\* DNS off: apart from the DNS rule the filter is the design's.
CONSTANTS
  FiltersPackets = TRUE
  UseLLMNR = TRUE
  UseNBNS = TRUE
  UseDNS = FALSE
  BoundPorts = {1000}
  Headers <- MCHeaders
SPECIFICATION FilterSpec
INVARIANT AcceptMatchesDesign
