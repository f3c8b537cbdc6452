-------------------------- MODULE AcceptFilterProofs --------------------------
(***************************************************************************)
(* xMayAcceptPacket agrees with the design's accept filter for every      *)
(* header and every set of bound ports, not only the headers MCAcceptFilter *)
(* enumerates, in a build that filters packets and does not use DNS.       *)
(***************************************************************************)
EXTENDS AcceptFilter, TLAPS

USE FilterOptionsAssumption

(* With the DNS rule off, the UDP tests agree: the code's separate tests  *)
(* of the source and destination port against LLMNR and NBNS are the       *)
(* design's "either port is a well-known one".                             *)
LEMMA UdpAgrees ==
  ASSUME UseDNS = FALSE, NEW h
  PROVE  UdpWanted(h) <=> SpecUdpWanted(h)
BY Zenon DEF UdpWanted, SpecUdpWanted

(* xMayAcceptPacket, compiled with ipconfigETHERNET_DRIVER_FILTERS_PACKETS *)
(* and without ipconfigUSE_DNS, accepts exactly the frames the design's    *)
(* accept filter accepts, whatever the header and the bound ports.         *)
THEOREM AcceptMatchesDesignThm ==
  ASSUME FiltersPackets = TRUE, UseDNS = FALSE
  PROVE  FilterSpec => []AcceptMatchesDesign
<1>1. \A h : MayAcceptPacket(h) <=> SpecMayAccept(h)
  <2> SUFFICES ASSUME NEW h PROVE MayAcceptPacket(h) <=> SpecMayAccept(h)
    OBVIOUS
  <2>1. UdpWanted(h) <=> SpecUdpWanted(h)
    BY UdpAgrees
  <2>2. CASE h.frameType \in {ipARP_FRAME_TYPE, ipIPv6_FRAME_TYPE}
    <3>0. h.frameType # ipIPv4_FRAME_TYPE
      BY <2>2 DEF ipARP_FRAME_TYPE, ipIPv6_FRAME_TYPE, ipIPv4_FRAME_TYPE
    <3>1. MayAcceptPacket(h)
      BY <2>2, <3>0, Zenon DEF MayAcceptPacket
    <3>2. SpecMayAccept(h)
      BY <2>2 DEF SpecMayAccept
    <3>3. QED
      BY <3>1, <3>2
  <2>3. CASE h.frameType = ipIPv4_FRAME_TYPE
    <3>1. h.frameType \notin {ipARP_FRAME_TYPE, ipIPv6_FRAME_TYPE}
      BY <2>3 DEF ipARP_FRAME_TYPE, ipIPv6_FRAME_TYPE, ipIPv4_FRAME_TYPE
    <3>2. MayAcceptPacket(h) <=> IPv4Passes(h)
      BY <2>3, <3>1 DEF MayAcceptPacket
    <3>3. QED
      BY <2>1, <2>3, <3>1, <3>2 DEF IPv4Passes, Fragmented, SpecMayAccept
  <2>4. CASE h.frameType \notin {ipARP_FRAME_TYPE, ipIPv6_FRAME_TYPE,
                                 ipIPv4_FRAME_TYPE}
    BY <2>4 DEF MayAcceptPacket, SpecMayAccept
  <2>5. QED
    BY <2>2, <2>3, <2>4
<1>2. QED
  <2>1. AcceptMatchesDesign
    BY <1>1 DEF AcceptMatchesDesign
  <2>2. QED
    BY <2>1, PTL
=============================================================================
