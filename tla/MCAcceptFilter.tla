---------------------------- MODULE MCAcceptFilter ----------------------------
(* Headers for checking AcceptFilter: every EtherType branch, fragment    *)
(* words with no flag, DF, MF and a non-zero offset, version/IHL bytes on *)
(* both sides of both limits, UDP and TCP, and ports that are bound,       *)
(* well-known or neither.                                                  *)
EXTENDS AcceptFilter

MCPorts == {7, 1000, ipDNS_PORT, ipNBNS_PORT, ipLLMNR_PORT}

MCHeaders ==
  [frameType : {ipARP_FRAME_TYPE, ipIPv4_FRAME_TYPE, ipIPv6_FRAME_TYPE, 33024},
   fragment : {0, 16384, 8192, 1},
   vhl : {68, 69, 79, 80},
   protocol : {6, ipPROTOCOL_UDP},
   srcPort : MCPorts,
   dstPort : MCPorts]
=============================================================================
