------------------------------ MODULE PacketPath ------------------------------
(***************************************************************************)
(* One packet at a time on its way from a client through the workers and,  *)
(* when it is a SET, through the database into the table. A packet is a    *)
(* frame a netmap worker takes from its ring, or a datagram OnRecv has     *)
(* read from the socket as a whole (what it does otherwise is the subject  *)
(* of SocketMode).                                                         *)
(***************************************************************************)
EXTENDS Frames, FiniteSets

CONSTANTS
    Packets,   \* what clients send
    TheKey,    \* the key, as its four bytes, whose slot of the table is modelled
    MaxHops    \* bound of this model on the workers one packet goes through

VARIABLES
    asked,   \* history: the packet the client sent, while it is under way
    flight,  \* the packet in its present form, {} when there is none
    hops,    \* workers it has been through
    rows,    \* what the last SET made the database write
    held     \* the item of the table under TheKey, with what a client sent for it

vars == <<asked, flight, hops, rows, held>>

-----------------------------------------------------------------------------
\* A packet has `own' bytes behind the header, and is followed by whatever the memory
\* holds, of which `body' has as much as a handler may read or write.
InMemory(p, ln, own) ==
    /\ \A i \in DOMAIN p.body : p.body[i] = Stale <=> i > own
    /\ \A n \in {p.keylen, ln - HeaderLen, DatalenMod + 4, Len(NotFound)} : Len(p.body) >= n

IsDatagram(a) ==
    /\ a \in [link: {"socket"}, l4: AnyRequest, len: Nat]
    /\ InMemory(a.l4, a.len, a.len - HeaderLen)

\* What is behind the headers of a frame is what Packet takes it for.
IsFrame(a) ==
    /\ a \in FrameWith({a.l4}) /\ Len(a.tags) <= 2
    /\ Type(a) = "UDP" => /\ a.l4 \in AnyRequest
                          /\ InMemory(a.l4, a.len, a.len - PayloadAt(a) - HeaderLen)
    /\ Type(a) = "ARP" => a.l4 \in ArpMessage
    /\ Type(a) = "ICMP" => a.l4 \in IcmpMessage

IsPacket(a) == IsDatagram(a) \/ IsFrame(a)

ASSUME PacketAssumption ==
    /\ \A a \in Packets : IsPacket(a)
    /\ TheKey \in [1..4 -> Bytes]
    /\ MaxHops \in Nat

-----------------------------------------------------------------------------
IdOf(key) == (key[2] % 16) * 65536 + key[3] * 256 + key[4]

Item == [len: 0..(DatalenMod - 1), data: {d \in Seq(Nat) : Len(d) <= ItemLen}]

TypeOK ==
    /\ \A a, b \in asked : IsPacket(a) /\ a = b
    /\ \A f, g \in flight : f = g
    /\ asked = {} => flight = {} /\ hops = 0
    /\ hops \in 0..MaxHops
    /\ rows \in SUBSET [key: Nat, sent: Seq(Content)]
    /\ held \in SUBSET [key: {IdOf(TheKey)}, item: Item, sent: Seq(Content)]
    /\ \A g, h \in held : g = h

Init ==
    /\ asked = {} /\ flight = {} /\ hops = 0 /\ rows = {}
    /\ held = {[key |-> IdOf(TheKey), item |-> ZeroBody, sent |-> <<>>]}

\* The client sends; its SETs wait for the row event of the one before.
Launch(packet) ==
    /\ asked = {} /\ rows = {}
    /\ asked' = {packet} /\ flight' = {packet}
    /\ UNCHANGED <<hops, rows, held>>

\* A datagram in OnRecv, whole: Packet is the payload alone.
OnRecv(d, dbOk) ==
    LET r == OnRecieve(d.l4, d.len, held, dbOk)
    IN  [ret |-> r.ret, frame |-> [d EXCEPT !.l4 = r.pkt, !.len = r.len],
         writes |-> r.writes]

\* A reply over the socket and answers to probes go to who asked. Other frames keep
\* their IP addresses, or get one of another worker, and are routed to a worker.
ToWorker(f) == hops = 0 \/ (f.link = "netmap" /\ Type(f) = "UDP")

Handle(f, dbOk) == IF f.link = "socket" THEN OnRecv(f, dbOk) ELSE Process(f, held, dbOk)

Work(dbOk) ==
    \E f \in flight :
       LET r == Handle(f, dbOk)
       IN  /\ ToWorker(f) /\ hops < MaxHops
           /\ flight' = IF r.ret = 1 THEN {r.frame} ELSE {}
           /\ rows' = rows \cup r.writes
           /\ hops' = hops + 1
           /\ UNCHANGED <<asked, held>>

Finish ==
    /\ asked # {} /\ \A f \in flight : ~ToWorker(f)
    /\ asked' = {} /\ flight' = {} /\ hops' = 0
    /\ UNCHANGED <<rows, held>>

\* The binlog thread: the event of a new row puts the item, that of a changed one
\* removes it (Replication).
RowEvent ==
    \E row \in rows :
       /\ asked = {}
       /\ rows' = {}
       /\ \/ row.key = IdOf(TheKey) /\ held' = {}
          \/ /\ row.key = IdOf(TheKey)
             /\ held' = {[key |-> row.key, item |-> RowBody(Stored(row.sent)),
                          sent |-> row.sent]}
          \/ row.key # IdOf(TheKey) /\ UNCHANGED held
       /\ UNCHANGED <<asked, flight, hops>>

Next ==
    \/ \E packet \in Packets : Launch(packet)
    \/ \E dbOk \in BOOLEAN : Work(dbOk)
    \/ Finish
    \/ RowEvent

Spec == Init /\ [][Next]_vars

-----------------------------------------------------------------------------
(* Properties.                                                             *)

IsReply(f) == f.link = "socket" /\ hops = 1

\* Which values come back from a GET as they were SET (server.cc:103-122 and 149-157,
\* Bin2Hex, and the item's two lengths): exactly those that fit an item and have no
\* byte below 16 behind the first one.
SurvivesExactlyIf ==
    \A f \in flight, a \in asked, h \in held :
       IsReply(f) /\ a.l4.opcode = OPCODE_GET /\ KeyId(a.l4) = h.key /\ h.sent # <<>>
       => ( f.l4.status = STATUS_OK /\ Value(f.l4) = h.sent
            <=> Len(h.sent) <= ItemLen /\ \A i \in 2..Len(h.sent) : h.sent[i] >= 16 )

\* A reply, rewritten in the buffer of its request, is a complete packet that says
\* what the table or the database says (server.cc:96-184): a hit exactly if there
\* is a value of some length, a SET done exactly if there is a row.
RepliesTellTheRow ==
    \A f \in flight, a \in asked :
       IsReply(f) =>
          /\ f.len = HeaderLen + f.l4.bodylen /\ f.l4.opcode = a.l4.opcode
          /\ f.l4.opcode = OPCODE_SET =>
                (f.l4.status = STATUS_OK <=> \E row \in rows : row.key = KeyId(a.l4))
          /\ f.l4.opcode = OPCODE_GET =>
                LET found == {h \in held : h.key = KeyId(a.l4) /\ h.item.len > 0}
                IN  IF found = {}
                    THEN f.l4.status = STATUS_ERR /\ Value(f.l4) = NotFound
                    ELSE f.l4.status = STATUS_OK /\ f.l4.opaque = a.l4.opaque
                         /\ \A h \in found : Value(f.l4) = ReplyData(h.item)

\* Whatever lengths a request declares, a SET over the socket takes its key and its
\* value from the bytes of its own datagram (KEY, REQ_VAL and REQ_VALL, server.cc:66-69).
\* A SET that gets through in netmap mode declares a body longer than the frame, by the
\* headers of the frame, and as many bytes of the row, or all of it if it is shorter, are
\* from the buffer behind it.
OwnBytesExactlyIf ==
    \A row \in rows, a \in asked :
       LET others == {i \in DOMAIN row.sent : row.sent[i] = Stale}
       IN  IF a.link = "socket"
           THEN others = {} /\ KeyAt(a.l4) + 3 <= a.len - HeaderLen
           ELSE Cardinality(others) = IF PayloadAt(a) < Len(row.sent) THEN PayloadAt(a)
                                                                     ELSE Len(row.sent)

\* In netmap mode the length test compares the length of the frame with that of the
\* payload: a frame that carries exactly one request is neither spread over the
\* internal addresses nor answered (server.cc:78, netmap.cc:286).
WholeRequestsAreDropped ==
    \A a \in asked, f \in flight :
       a.link = "netmap" /\ Type(a) = "UDP" /\ a.len = PayloadAt(a) + HeaderLen + a.l4.bodylen
       => hops = 0

\* What the code means to do with them, and does not: a GET or SET of the form the client
\* of the repository sends (nmmc_test.cc:124-137 and 219-235), alone in a frame to an
\* address the program knows, is spread or answered by its first worker, as the comments
\* say ("ヘッダ長が有効 -> キーからハッシュ値を計算", netmap.cc:287; 282 and 289).
WholeRequestsPass ==
    \A a \in asked :
       /\ hops = 1 /\ a.link = "netmap" /\ Type(a) = "UDP" /\ a.ip.v = 4
       /\ DstNet(a) \in {EXTERNAL_IP_OCT3, INTERNAL_IP_OCT3}
       /\ a.l4.keylen = KeyLen /\ validate_header(a.l4, HeaderLen + a.l4.bodylen)
       /\ a.len = PayloadAt(a) + HeaderLen + a.l4.bodylen
       => flight # {}

\* A UDP frame is spread at most once and answered at most once, and the answer,
\* which goes to the address that was asked, is not taken for a request.
FramesDieOut == \A f \in flight : f.link = "netmap" /\ Type(f) = "UDP" => hops <= 2

IsProbe(a) ==
    /\ a.link = "netmap"
    /\ \/ a.type = ETHERTYPE_ARP
       \/ /\ a.ip.ttl # 0
          /\ <<a.type, a.ip.proto>> \in {<<ETHERTYPE_IP, IPPROTO_ICMP>>,
                                        <<ETHERTYPE_IPV6, IPPROTO_ICMPV6>>}

\* A live ARP, echo or neighbour request is answered to who sent it, in the name of the
\* address it asked for. With two VLAN tags it is not if CHK_ETHERTYPE (nmmc.inl:29-31)
\* finds no protocol in the second tag (if it finds another one there, the frame is
\* taken for that).
ProbesAnswered ==
    \A a \in asked :
       IsProbe(a) /\ hops = 1 =>
          /\ TypeSeen(a) \notin {ETHERTYPE_ARP, ETHERTYPE_IP, ETHERTYPE_IPV6} => flight = {}
          /\ TypeSeen(a) = a.type =>
                \E f \in flight :
                   /\ f.dhost = a.shost
                   /\ f.type = ETHERTYPE_ARP =>
                         /\ f.l4.sha = f.shost /\ f.l4.spa = a.l4.tpa
                         /\ f.l4.tha = a.l4.sha /\ f.l4.tpa = a.l4.spa
                   /\ f.type # ETHERTYPE_ARP => f.ip.dst = a.ip.src /\ f.ip.src = a.ip.dst

\* The checksum of an ICMP answer is right exactly if two errors cancel: the byte behind
\* an odd message, which was added to the sum (nmmc.inl:53-55), and, for a neighbour
\* advertisement, the option, which is written after the sum was taken
\* (netmap.cc:269-272). The pseudo header of ICMPv6 is left aside.
ChecksumsExactlyIf ==
    \A a \in asked, f \in flight :
       IsProbe(a) /\ TypeSeen(a) = a.type /\ hops = 1
         /\ f.type # ETHERTYPE_ARP /\ f.l4 # a.l4 =>
          LET option(l4) == BytesSum(SubSeq(l4.msg, NaHeader + 1, Len(l4.msg)))
              added == IF Len(a.l4.msg) % 2 = 1 THEN a.l4.behind ELSE 0
              left  == IF f.l4.msg[1] = ND_NEIGHBOR_ADVERT
                       THEN option(f.l4) - option(a.l4) ELSE 0
          IN  Verifies(f.l4.msg) <=> (left - added) % (HalfMod - 1) = 0
=============================================================================
