-------------------------------- MODULE Frames --------------------------------
(***************************************************************************)
(* What a netmap worker does with one frame: Packet (nmmc_packet.cc) tells *)
(* what it is, OnArp, OnIcmp and OnUdp (nmmc_arch_impl_netmap.cc) turn it  *)
(* into what is sent back, in place.                                       *)
(*                                                                         *)
(* A frame is [dhost, shost, tags, type, ip, l4, len]: tags has the TCI of *)
(* every VLAN tag, l4 is a request, an ARP message or [msg, behind] of     *)
(* ICMP. An address is [net, host], net being the octet OnUdp looks at: in *)
(* IPv4 the second one.                                                    *)
(***************************************************************************)
EXTENDS Requests, Checksums

CONSTANTS
    OwnMac,    \* dmac_, the address of the interface, as a sequence of bytes
    NaHeader   \* sizeof(struct nd_neighbor_advert), where its option begins (24)

ETHERTYPE_IP   == 2048
ETHERTYPE_ARP  == 2054
ETHERTYPE_IPV6 == 34525

IPPROTO_UDP    == 17
IPPROTO_ICMP   == 1
IPPROTO_ICMPV6 == 58

ICMP_ECHOREPLY      == 0
ICMP6_ECHO_REQUEST  == 128
ICMP6_ECHO_REPLY    == 129
ND_NEIGHBOR_SOLICIT == 135
ND_NEIGHBOR_ADVERT  == 136
NA_FLAGS            == 96   \* solicited and override, first of four bytes

USECORE_COUNT    == 12
EXTERNAL_IP_OCT3 == 16
INTERNAL_IP_OCT3 == 128

ASSUME FrameAssumption ==
    /\ OwnMac \in Seq(Bytes)
    /\ NaHeader \in Nat /\ NaHeader % 2 = 0 /\ NaHeader >= 8

Mac == Seq(Bytes)
Address == [net: Bytes, host: Nat]
IpHeader ==
    [v: 0..15, hl: 0..15, proto: Bytes, ttl: Bytes, src: Address, dst: Address]
ArpMessage == [op: Nat, sha: Mac, spa: Nat, tha: Mac, tpa: Nat]
IcmpMessage ==
    [msg: {m \in Seq(Bytes) : Len(m) >= 4 /\ Len(m) <= 65535}, behind: Bytes]
FrameWith(l4s) ==
    [link: {"netmap"}, dhost: Mac, shost: Mac, tags: Seq(Nat), type: Nat,
     ip: IpHeader, l4: l4s, len: Nat]

\* CHK_ETHERTYPE: behind two tags it compares the TCI of the second one.
TypeSeen(f) == IF Len(f.tags) = 2 THEN f.tags[2] ELSE f.type

Type(f) ==
    LET seen == TypeSeen(f)
        probe(proto) == f.ip.proto = proto /\ f.ip.ttl # 0
    IN  CASE seen = ETHERTYPE_ARP -> "ARP"
          [] seen \in {ETHERTYPE_IP, ETHERTYPE_IPV6} /\ f.ip.proto = IPPROTO_UDP -> "UDP"
          [] seen = ETHERTYPE_IP /\ probe(IPPROTO_ICMP) -> "ICMP"
          [] seen = ETHERTYPE_IPV6 /\ probe(IPPROTO_ICMPV6) -> "ICMP"
          [] OTHER -> "DC"

\* sizeof(ether_header), LEN_VLAN, LengthIp and sizeof(udphdr): where the payload is.
PayloadAt(f) == 14 + 4 * Len(f.tags) + (IF f.ip.v = 4 THEN 4 * f.ip.hl ELSE 40) + 8

Dropped(f) == [ret |-> 0, frame |-> f, writes |-> {}]
Reflect(f) == [ret |-> 1, frame |-> f, writes |-> {}]

SwapMac(f) == [f EXCEPT !.dhost = f.shost, !.shost = f.dhost]

-----------------------------------------------------------------------------

\* Mutant: the addresses exchanged without the copy.
OnArpInPlace(f) ==
    Reflect([SwapMac(f) EXCEPT !.shost = OwnMac,
               !.l4 = [op |-> 2, sha |-> OwnMac, spa |-> f.l4.spa,
                       tha |-> f.l4.sha, tpa |-> f.l4.spa]])

\* Any ARP message is answered, for whatever address it asks.
OnArp(f) ==
    Reflect([SwapMac(f) EXCEPT !.shost = OwnMac,
               !.l4 = [op |-> 2, sha |-> OwnMac, spa |-> f.l4.tpa,
                       tha |-> f.l4.sha, tpa |-> f.l4.spa]])

\* The two bytes of icmp_cksum, over the whole message with zeros in their place.
Summed(l4) ==
    LET blank == [l4.msg EXCEPT ![3] = 0, ![4] = 0]
        sum   == CheckSum(blank, l4.behind)
    IN  [l4 EXCEPT !.msg = [blank EXCEPT ![3] = sum[1], ![4] = sum[2]]]

\* The advertisement: flags, type and checksum first, then the option.
Advertise(l4) ==
    LET flagged == Copy(l4.msg, 5, <<NA_FLAGS, 0, 0, 0>>)
        na == Summed([l4 EXCEPT !.msg =
                        [flagged EXCEPT ![1] = ND_NEIGHBOR_ADVERT, ![2] = 0]])
    IN  [na EXCEPT !.msg = Copy(@, NaHeader + 1, <<2, 1>> \o OwnMac)]

\* Any ICMP message over IPv4 becomes an echo reply. Over IPv6 other types than
\* these two are sent back as they are.
OnIcmp(f) ==
    LET swapped == [SwapMac(f) EXCEPT !.ip.src = f.ip.dst, !.ip.dst = f.ip.src]
        retype(t) == Summed([f.l4 EXCEPT !.msg[1] = t])
    IN  Reflect([swapped EXCEPT !.l4 =
            IF TypeSeen(f) = ETHERTYPE_IP THEN retype(ICMP_ECHOREPLY)
            ELSE CASE @.msg[1] = ICMP6_ECHO_REQUEST  -> retype(ICMP6_ECHO_REPLY)
                   [] @.msg[1] = ND_NEIGHBOR_SOLICIT -> Advertise(@)
                   [] OTHER -> @])

-----------------------------------------------------------------------------

\* Mutant: the length of the payload, which is what Requests expects.
LengthOfPayload(f) == f.len - PayloadAt(f)

\* Packet::Length: the length of the whole frame.
Length(f) == f.len

\* Mutant of Route: counted from the external octet.
RouteOutside(p) ==
    EXTERNAL_IP_OCT3 + HashMod(Hash32(SubSeq(p.body, 1, p.keylen)), USECORE_COUNT)

\* The route: the hash of the first keylen bytes behind the header, which in a
\* SET are the extras.
Route(p) == INTERNAL_IP_OCT3 + HashMod(Hash32(SubSeq(p.body, 1, p.keylen)), USECORE_COUNT)

\* ip_dst of an IPv4 header; over IPv6 a piece of the source address is there.
DstNet(f) == IF f.ip.v = 4 THEN f.ip.dst.net ELSE f.ip.src.net
SetDstNet(f, net) ==
    IF f.ip.v = 4 THEN [f EXCEPT !.ip.dst.net = net] ELSE [f EXCEPT !.ip.src.net = net]

Answered(f, r) ==
    [ret |-> r.ret, frame |-> [SwapMac(f) EXCEPT !.l4 = r.pkt, !.len = r.len],
     writes |-> r.writes]

OnUdp(f, held, dbOk) ==
    CASE /\ DstNet(f) = EXTERNAL_IP_OCT3
         /\ Length(f) > HeaderLen
         /\ f.l4.bodylen + HeaderLen = Length(f)
            -> Reflect(SetDstNet(SwapMac(f), Route(f.l4)))
      [] DstNet(f) = INTERNAL_IP_OCT3 -> Answered(f, OnRecieve(f.l4, Length(f), held, dbOk))
      [] OTHER -> Dropped(f)

\* ProcessRing's part for one slot.
Process(f, held, dbOk) ==
    CASE Type(f) = "UDP"  -> OnUdp(f, held, dbOk)
      [] Type(f) = "ARP"  -> OnArp(f)
      [] Type(f) = "ICMP" -> OnIcmp(f)
      [] OTHER -> Dropped(f)
=============================================================================
