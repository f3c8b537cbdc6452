\* All options on: the DNS source-port rule differs from the design.
CONSTANTS
  FiltersPackets = TRUE
  UseLLMNR = TRUE
  UseNBNS = TRUE
  UseDNS = TRUE
  BoundPorts = {1000}
  Headers <- MCHeaders
SPECIFICATION FilterSpec
INVARIANT AcceptMatchesDesign
