---------------------------- MODULE MCSipfwProc -----------------------------
EXTENDS SipfwProc

AnyPacket == [in |-> "eth0", out |-> "eth1", saddr |-> "a", daddr |-> "b", protocol |-> "udp",
              source |-> "1024", dest |-> "53", addtion |-> "none", whole |-> TRUE]
FromA == [source |-> "a", dest |-> Wild, protocol |-> Wild, sport |-> Wild, dport |-> Wild,
          ifname |-> Wild, addtion |-> Wild, action |-> Drop]

MCPacket == {AnyPacket, [AnyPacket EXCEPT !.saddr = "b"]}
MCRules == [c \in Chain |-> IF c = Input THEN <<FromA>> ELSE <<>>]

=============================================================================
