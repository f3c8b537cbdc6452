----------------------------- MODULE AcceptFilter -----------------------------
(***************************************************************************)
(* xMayAcceptPacket, the filter emacps_check_rx runs on every received     *)
(* frame before it takes a replacement buffer.  A frame is reduced to the  *)
(* header fields the filter reads, as host-order numbers: the EtherType,   *)
(* the IPv4 flags/fragment-offset word, the version/IHL byte, the IPv4     *)
(* protocol and the UDP ports.  The driver tests the raw word against      *)
(* ipFRAGMENT_OFFSET_BIT_MASK, the host-order 0x1FFF stored in network     *)
(* order, which is the same as testing the low 13 bits of the host-order   *)
(* value; xPortHasUDPSocket is given the port in the byte order the bound  *)
(* socket list uses, so the order of the comparison does not matter.       *)
(***************************************************************************)
EXTENDS Naturals

CONSTANTS
  FiltersPackets,  \* ipconfigETHERNET_DRIVER_FILTERS_PACKETS == 1
  UseLLMNR,        \* ipconfigUSE_LLMNR == 1
  UseNBNS,         \* ipconfigUSE_NBNS == 1
  UseDNS,          \* ipconfigUSE_DNS == 1
  BoundPorts,      \* the UDP ports xPortHasUDPSocket finds a socket for
  Headers          \* the headers a frame may carry

ASSUME FilterOptionsAssumption ==
  {FiltersPackets, UseLLMNR, UseNBNS, UseDNS} \subseteq BOOLEAN

VARIABLE frame  \* the frame at rxHead that xMayAcceptPacket examines

ipARP_FRAME_TYPE == 2054   \* 0x0806
ipIPv4_FRAME_TYPE == 2048  \* 0x0800
ipIPv6_FRAME_TYPE == 34525 \* 0x86DD
ipPROTOCOL_UDP == 17
ipLLMNR_PORT == 5355
ipNBNS_PORT == 137
ipDNS_PORT == 53

\* Mutant: the whole flags/offset word is tested, so DF frames are refused.
FragmentedWholeWord(h) == h.fragment # 0

\* (usFragmentOffset & ipFRAGMENT_OFFSET_BIT_MASK) != 0: the low 13 bits.
Fragmented(h) == h.fragment % 8192 # 0

\* The UDP test: a bound destination port, or one of the well-known ports
\* the build enables (LLMNR and NBNS either way, DNS as source only).
UdpWanted(h) ==
  \/ h.dstPort \in BoundPorts
  \/ UseLLMNR /\ (h.dstPort = ipLLMNR_PORT \/ h.srcPort = ipLLMNR_PORT)
  \/ UseNBNS /\ (h.dstPort = ipNBNS_PORT \/ h.srcPort = ipNBNS_PORT)
  \/ UseDNS /\ h.srcPort = ipDNS_PORT

\* The checks made on an IPv4 frame when the driver filters packets.
IPv4Passes(h) ==
  /\ ~Fragmented(h)
  /\ h.vhl \in 69 .. 79   \* 0x45 .. 0x4F
  /\ h.protocol = ipPROTOCOL_UDP => UdpWanted(h)

\* ARP and IPv6 are left to the stack, other EtherTypes are refused.
MayAcceptPacket(h) ==
  CASE h.frameType \in {ipARP_FRAME_TYPE, ipIPv6_FRAME_TYPE} -> TRUE
    [] h.frameType = ipIPv4_FRAME_TYPE -> ~FiltersPackets \/ IPv4Passes(h)
    [] OTHER -> FALSE

(* The accept filter as the design (section 4.3.1) states it: for UDP, a  *)
(* bound destination port, or a source or destination port equal to one   *)
(* of the enabled well-known ports, LLMNR, NBNS or DNS.                    *)
SpecUdpWanted(h) ==
  \/ h.dstPort \in BoundPorts
  \/ \E p \in {h.srcPort, h.dstPort} :
       \/ UseLLMNR /\ p = ipLLMNR_PORT
       \/ UseNBNS /\ p = ipNBNS_PORT
       \/ UseDNS /\ p = ipDNS_PORT

SpecMayAccept(h) ==
  \/ h.frameType \in {ipARP_FRAME_TYPE, ipIPv6_FRAME_TYPE}
  \/ /\ h.frameType = ipIPv4_FRAME_TYPE
     /\ h.fragment % 8192 = 0   \* the low 13 bits: the fragment offset
     /\ h.vhl \in 69 .. 79
     /\ h.protocol = ipPROTOCOL_UDP => SpecUdpWanted(h)

(* Frames arrive one after another, each with any header.                 *)
FilterInit == frame \in Headers

FilterNext == \E h \in Headers : frame' = h

FilterSpec == FilterInit /\ [][FilterNext]_frame

(* xMayAcceptPacket accepts exactly the frames the design's accept filter *)
(* accepts.                                                                *)
AcceptMatchesDesign == MayAcceptPacket(frame) <=> SpecMayAccept(frame)

=============================================================================
