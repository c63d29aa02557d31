------------------------------- MODULE Requests -------------------------------
(***************************************************************************)
(* One request of the memcached binary protocol on its way through a       *)
(* server: validate_header (inc/nmmc_def.h), OnRecieve, OnRecieveGet and   *)
(* OnRecieveSet (nmmc_server.cc), which turn it into its reply in place.   *)
(*                                                                         *)
(* A packet is the header's fields and `body', the bytes of the buffer     *)
(* behind the header: those of the datagram and, after them, whatever an   *)
(* earlier one left there. The cas field, always zeroed, is left out.      *)
(***************************************************************************)
EXTENDS ValueCodec

HeaderLen == 24   \* sizeof(protocol_binary_request_header)
KeyLen    == 4    \* sizeof(uint32_t)

MAGIC_REQUEST  == 128
MAGIC_RESPONSE == 129
OPCODE_GET == 0
OPCODE_SET == 1
STATUS_OK  == 0
STATUS_ERR == 256

NotFound == <<110, 111, 116, 32, 102, 111, 117, 110, 100>>

\* In what a client sends: a byte of the buffer behind the end of the packet.
Stale == 257
Content == Bytes \cup {Stale}
Halves == {n \in Nat : n <= 65535}

AnyRequest ==
    [magic: Bytes, opcode: Bytes, keylen: Halves, extlen: Bytes, datatype: Bytes,
     status: Halves, bodylen: Nat, opaque: Nat, body: Seq(Content)]

validate_header(p, ln) ==
    /\ p.magic = MAGIC_REQUEST
    /\ p.datatype = 0
    /\ \/ p.opcode = OPCODE_GET /\ p.extlen = 0 /\ p.keylen # 0 /\ p.bodylen = p.keylen
       \/ p.opcode = OPCODE_SET /\ p.extlen # 0 /\ p.keylen # 0 /\ p.bodylen # 0
    /\ p.bodylen + HeaderLen = ln

\* Mutant of ValueLen: the extras counted in.
ValueLenWithExtras(p) == p.bodylen - p.keylen

\* KEY, REQ_VAL and REQ_VALL. The length is negative when the extras and the key
\* are longer than the body.
KeyAt(p) == p.extlen + 1
ValueAt(p) == p.extlen + p.keylen + 1
ValueLen(p) == p.bodylen - p.extlen - p.keylen
Value(p) == SubSeq(p.body, ValueAt(p), ValueAt(p) + ValueLen(p) - 1)

\* nmmc_key: the low 20 bits. The prefix above them is looked at by nobody.
KeyId(p) ==
    LET key(i) == p.body[KeyAt(p) + i]
    IN  (key(1) % 16) * 65536 + key(2) * 256 + key(3)

\* memcpy into the buffer.
Copy(body, at, bytes) ==
    [i \in DOMAIN body |-> IF i \in at..(at + Len(bytes) - 1) THEN bytes[i - at + 1]
                                                              ELSE body[i]]

-----------------------------------------------------------------------------
(* A result: ret tells whether the packet, of the new length, is to be     *)
(* sent; writes has the row a SET hands to the database.                   *)

Ignored(p, ln) == [ret |-> 0, pkt |-> p, len |-> ln, writes |-> {}]
Send(p, ln, writes) == [ret |-> 1, pkt |-> p, len |-> ln, writes |-> writes]

\* The fields every reply sets. The opcode is the request's.
Response(p, extlen, status, bodylen) ==
    [p EXCEPT !.magic = MAGIC_RESPONSE, !.keylen = 0, !.extlen = extlen,
              !.datatype = 0, !.status = status, !.bodylen = bodylen]

\* Extras, which are the expire of the item (no row event sets it), and data. The
\* place of the data comes from the new fields.
HitReply(p, item) ==
    LET data == ReplyData(item)
        r    == Response(p, 4, STATUS_OK, item.len + 4)
    IN  Send([r EXCEPT !.body = Copy(Copy(@, 1, <<0, 0, 0, 0>>), ValueAt(r), data)],
             HeaderLen + item.len + 4, {})

\* Mutant of MissReply: the text copied before the fields that say where it goes.
MissReplyEarlyCopy(p) ==
    Send([Response([p EXCEPT !.opaque = 0], 0, STATUS_ERR, Len(NotFound))
            EXCEPT !.body = Copy(@, ValueAt(p), NotFound)],
         HeaderLen + Len(NotFound), {})

\* This is the one reply that does not keep opaque.
MissReply(p) ==
    LET r == Response([p EXCEPT !.opaque = 0], 0, STATUS_ERR, Len(NotFound))
    IN  Send([r EXCEPT !.body = Copy(@, ValueAt(r), NotFound)],
             HeaderLen + Len(NotFound), {})

\* found: the item Find returned, or {}. An item of no length is a miss as well.
OnRecieveGet(p, found) ==
    IF \E item \in found : item.len # 0
    THEN HitReply(p, CHOOSE item \in found : TRUE)
    ELSE MissReply(p)

\* `0x' with no digit is an error of syntax; otherwise the statement succeeds if
\* the database does.
OnRecieveSet(p, id, dbOk) ==
    LET done == ValueLen(p) > 0 /\ dbOk
    IN  Send(Response(p, 0, IF done THEN STATUS_OK ELSE STATUS_ERR, 0), HeaderLen,
             IF done THEN {[key |-> id, sent |-> Value(p)]} ELSE {})

\* held: the items of the server's table, with their keys.
OnRecieve(p, ln, held, dbOk) ==
    IF ~validate_header(p, ln) \/ p.keylen # KeyLen THEN Ignored(p, ln)
    ELSE IF p.opcode = OPCODE_GET
         THEN OnRecieveGet(p, {h.item : h \in {x \in held : x.key = KeyId(p)}})
         ELSE OnRecieveSet(p, KeyId(p), dbOk)
=============================================================================
