------------------------------ MODULE MCPackets ------------------------------
(***************************************************************************)
(* The packets of PacketPath: well-formed requests, requests whose header  *)
(* declares other lengths than the packet has, and probes.                 *)
(***************************************************************************)
EXTENDS PacketPath

CONSTANTS Room, SomeBytes, MaxLen

Key1     == <<0, 0, 0, 1>>
Key1Far  == <<0, 48, 0, 1>>    \* another prefix, the same 20 bits
Key2     == <<0, 0, 0, 2>>
Own      == <<4, 4>>
Client   == <<2, 2>>
AllHosts == <<255, 255>>

Request(magic, opcode, extlen, keylen, bodylen, bytes) ==
    [magic |-> magic, opcode |-> opcode, keylen |-> keylen, extlen |-> extlen,
     datatype |-> 0, status |-> 0, bodylen |-> bodylen, opaque |-> 7,
     body |-> [i \in 1..Room |-> IF i \in DOMAIN bytes THEN bytes[i] ELSE Stale]]

Whole(opcode, extlen, keylen, bytes) ==
    Request(MAGIC_REQUEST, opcode, extlen, keylen, Len(bytes), bytes)

SomeValues == UNION {[1..n -> SomeBytes] : n \in 1..MaxLen}

\* As OnRecv reads them: as long as the header says.
Read == {Whole(OPCODE_GET, 0, 4, key) : key \in {Key1, Key1Far, Key2}}
        \cup {Whole(OPCODE_SET, 1, 4, <<0>> \o Key1 \o v) : v \in SomeValues}
        \cup {Whole(OPCODE_SET, e, k, <<0, 0>> \o key \o <<16>>) :
                e \in {0, 1, 2, 3, 8}, k \in {0, 2, 4}, key \in {Key1Far, Key2}}
        \cup {Whole(2, 0, 4, Key1),
              [Whole(OPCODE_GET, 0, 4, Key1) EXCEPT !.magic = MAGIC_RESPONSE]}
Datagrams == {[link |-> "socket", l4 |-> p, len |-> HeaderLen + p.bodylen] : p \in Read}

Ip(v, hl, proto, ttl, net) ==
    [v |-> v, hl |-> hl, proto |-> proto, ttl |-> ttl,
     src |-> [net |-> IF v = 4 THEN 1 ELSE net, host |-> 1],
     dst |-> [net |-> net, host |-> 2]]

Frame(tags, type, ip, l4, len) ==
    [link |-> "netmap", dhost |-> IF type = ETHERTYPE_ARP THEN AllHosts ELSE OwnMac,
     shost |-> Client, tags |-> tags, type |-> type, ip |-> ip, l4 |-> l4, len |-> len]

TagSets == {<<>>, <<5>>, <<5, 6>>, <<5, ETHERTYPE_IP>>, <<5, ETHERTYPE_ARP>>}
EtherOf(v) == IF v = 4 THEN ETHERTYPE_IP ELSE ETHERTYPE_IPV6

\* A GET, a SET of one byte, and the same requests with a bodylen that counts the
\* headers of the frame, which is what gets through. The hash of <<5, 0, 0, 0>> is a
\* multiple of 12: that one is spread to an address that answers.
SetBytes == <<0>> \o Key1 \o <<16>>
UdpFrame(v, tags, net, req) ==
    LET ip == Ip(v, 5, IPPROTO_UDP, 1, net)
    IN  Frame(tags, EtherOf(v), ip, req, 0)
Sized(f, bytes, extra) ==
    [f EXCEPT !.len = PayloadAt(f) + HeaderLen + bytes,
              !.l4.bodylen = bytes + (IF extra THEN PayloadAt(f) ELSE 0)]
UdpFrames ==
    UNION {{Sized(UdpFrame(v, tags, net, Whole(OPCODE_GET, 0, 4, Key1)), 4, extra),
            Sized(UdpFrame(v, tags, net, Whole(OPCODE_SET, 1, 4, SetBytes)), 6, extra),
            Sized(UdpFrame(v, tags, net, Whole(OPCODE_SET, 1, 4, <<5>> \o Tail(SetBytes))), 6, extra)} :
              v \in {4, 6}, tags \in {<<>>, <<5>>, <<5, 6>>}, extra \in BOOLEAN,
              net \in {EXTERNAL_IP_OCT3, INTERNAL_IP_OCT3, INTERNAL_IP_OCT3 + 1}}

Icmp(msg, behind) == [msg |-> msg, behind |-> behind]
Echoes(type) == {Icmp(<<type, 0, 9, 9>> \o rest, behind) :
                   rest \in UNION {[1..n -> {1, 255}] : n \in 0..3}, behind \in {0, 3}}
Solicits == {Icmp(<<ND_NEIGHBOR_SOLICIT, 0, 9, 9, 1, 1, 1, 1, 1, 1>> \o mac, 0) :
               mac \in {Client, <<OwnMac[1] + 1, OwnMac[2]>>}}
Arps == {[op |-> op, sha |-> Client, spa |-> 1, tha |-> <<0, 0>>, tpa |-> t] :
           op \in {1, 2}, t \in {2, 3}}
Probes ==
    {Frame(tags, ETHERTYPE_ARP, Ip(0, 0, 0, 0, 0), arp, 60) : tags \in TagSets, arp \in Arps}
    \cup {Frame(tags, ETHERTYPE_IP, Ip(4, hl, IPPROTO_ICMP, 1, 16), m, 60) :
            tags \in TagSets \ {<<5, ETHERTYPE_ARP>>}, hl \in {5, 6}, m \in Echoes(8)}
    \cup {Frame(tags, ETHERTYPE_IPV6, Ip(6, 0, IPPROTO_ICMPV6, 1, 16), m, 60) :
            tags \in {<<>>, <<5>>}, m \in Echoes(ICMP6_ECHO_REQUEST) \cup Solicits}
Others ==
    {Frame(<<>>, EtherOf(v), Ip(v, 5, proto, ttl, 16), Icmp(<<8, 0, 9, 9>>, 0), 60) :
       v \in {4, 6}, proto \in {6, IPPROTO_ICMP, IPPROTO_ICMPV6}, ttl \in {0, 1}}

AllPackets == Datagrams \cup UdpFrames \cup Probes \cup Others
=============================================================================
