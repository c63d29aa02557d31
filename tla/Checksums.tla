------------------------------- MODULE Checksums -------------------------------
(***************************************************************************)
(* CheckSum, Wrapsum and Hash32 of inc/nmmc.inl. A message is a sequence   *)
(* of bytes; `behind' is the byte that follows it in the buffer. The 32    *)
(* bits of a hash are kept as two halves, which TLC's integers can hold.   *)
(***************************************************************************)
EXTENDS Integers, Sequences

HalfMod == 65536

\* The sum of the first n members.
SumTo(seq, n) ==
    LET sum[i \in 0..n] == IF i = 0 THEN 0 ELSE sum[i - 1] + seq[i]
    IN  sum[n]

\* Mutant: the odd last byte is the low half of its word.
WordsOddLow(msg, behind) ==
    [i \in 1..((Len(msg) + 1) \div 2) |->
        IF 2 * i <= Len(msg) THEN 256 * msg[2 * i - 1] + msg[2 * i] ELSE msg[2 * i - 1]]

\* The 16-bit words the loop adds: an odd last byte is read together with the
\* byte behind it.
Words(msg, behind) ==
    [i \in 1..((Len(msg) + 1) \div 2) |->
        256 * msg[2 * i - 1] + (IF 2 * i <= Len(msg) THEN msg[2 * i] ELSE behind)]

\* while (_sum>>16): a sum of fewer than 2^16 words is below 2^16 after two rounds.
FoldCarry(sum) == (sum % HalfMod) + (sum \div HalfMod)
OnesSum(words) == FoldCarry(FoldCarry(SumTo(words, Len(words))))

\* ~_sum, cut to 16 bits by Wrapsum, as the two bytes that are stored.
CheckSum(msg, behind) ==
    LET sum == HalfMod - 1 - OnesSum(Words(msg, behind))
    IN  <<sum \div 256, sum % 256>>

\* What a receiver checks, RFC 1071, with a zero behind an odd message: bytes at odd
\* places are the high halves of the words.
Weighted(msg) == [i \in 1..Len(msg) |-> IF i % 2 = 1 THEN 256 * msg[i] ELSE msg[i]]
BytesSum(msg) == SumTo(Weighted(msg), Len(msg))
Verifies(msg) == FoldCarry(FoldCarry(BytesSum(msg))) = HalfMod - 1

-----------------------------------------------------------------------------
\* Bit by bit.
Powers == <<1, 2, 4, 8, 16, 32, 64, 128>>
XorByte(a, b) ==
    SumTo([i \in 1..8 |-> Powers[i] * (((a \div Powers[i]) + (b \div Powers[i])) % 2)], 8)

\* hash = ((hash << 5) + hash) ^ byte
HashByte(byte, hash) ==
    LET low == 33 * hash.low
    IN  [high |-> (33 * hash.high + (low \div HalfMod)) % HalfMod,
        low  |-> 256 * ((low % HalfMod) \div 256) + XorByte(low % 256, byte)]

\* From the last byte of the key to the first.
Hash32(key) ==
    LET hash[n \in 0..Len(key)] ==
            IF n = 0 THEN [high |-> 0, low |-> 5381]
                     ELSE HashByte(key[Len(key) + 1 - n], hash[n - 1])
    IN  hash[Len(key)]

\* hash % n
HashMod(hash, n) == ((hash.high % n) * (HalfMod % n) + hash.low) % n
=============================================================================
