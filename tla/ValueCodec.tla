------------------------------ MODULE ValueCodec ------------------------------
(***************************************************************************)
(* What happens to the bytes of a value between the SET that carries it    *)
(* and the GET that returns it: hexadecimal into an SQL statement (Bin2Hex *)
(* in nmmc.inl), the literal 0x... back to bytes in the database, the      *)
(* fixed-size item of the table, and the reply cut out of the item.        *)
(*                                                                         *)
(* A value is a sequence of bytes, a hexadecimal text a sequence of digits.*)
(***************************************************************************)
EXTENDS Integers, Sequences

CONSTANTS
    ItemLen,     \* ITEM_LEN, the bytes of data in an item (1024)
    DatalenMod   \* 2^11: datalen is a bit field of 11 bits

ASSUME LengthAssumption == ItemLen \in Nat /\ DatalenMod \in Nat /\ ItemLen < DatalenMod

Bytes   == 0..255
Nibbles == 0..15

\* Mutant: two digits for every byte, in the wrong order.
HexOfByteSwapped(p) == <<p % 16, p \div 16>>

\* ss << std::hex << (int)p: no fixed width, so one digit below 16.
HexOfByte(p) == IF p < 16 THEN <<p>> ELSE <<p \div 16, p % 16>>

\* ret[n]: after n rounds of the loop.
Bin2Hex(val) ==
    LET ret[n \in 0..Len(val)] == IF n = 0 THEN <<>> ELSE ret[n - 1] \o HexOfByte(val[n])
    IN  ret[Len(val)]

\* The database reads the literal 0x...: two digits to a byte from the right.
HexLiteral(digits) ==
    LET even == IF Len(digits) % 2 = 0 THEN digits ELSE <<0>> \o digits
    IN  [i \in 1..(Len(even) \div 2) |-> 16 * even[2 * i - 1] + even[2 * i]]

\* What a SET of val leaves in the column. (`0x' alone is a syntax error: a SET
\* of the empty value is answered with STATUS_ERR.)
Stored(val) == HexLiteral(Bin2Hex(val))

\* stat.datalen = (uint32_t)itm_len keeps 11 bits of the length ...
Datalen(n) == n % DatalenMod

\* Mutant: the data is not clipped.
RowBodyUnclipped(val) == [len |-> Datalen(Len(val)), data |-> val]

\* ... while the data is clipped to the item; the rest of it stays zero.
RowBody(val) ==
    [len  |-> Datalen(Len(val)),
     data |-> SubSeq(val, 1, IF Len(val) < ItemLen THEN Len(val) ELSE ItemLen)]

\* memset and bzero.
ZeroBody == [len |-> 0, data |-> <<>>]

\* GET: datalen bytes from data on. Those behind the item are not the value's.
BehindItem == 256
ReplyData(body) ==
    [i \in 1..body.len |-> CASE i <= Len(body.data) -> body.data[i]
                             [] i \in (Len(body.data) + 1)..ItemLen -> 0
                             [] OTHER -> BehindItem]
=============================================================================
