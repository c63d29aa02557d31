----------------------------- MODULE SharedTable -----------------------------
(***************************************************************************)
(* One slot of a server's table while two threads use it without a lock:   *)
(* the binlog thread (BinLogLoop) runs Add and Del, the thread of the      *)
(* server answers GETs (OnRecieveGet). Every step is one access to memory  *)
(* that the other thread can see; the stores and loads of a memcpy come in *)
(* any order. The table belongs to one server, so there is exactly one     *)
(* thread of each kind, and an update of another slot touches this one     *)
(* only through bits of the bitmap words that it leaves as they are.       *)
(***************************************************************************)
EXTENDS Integers

CONSTANTS
    NChunks,   \* the data of an item is copied in this many units
    Contents   \* what the bytes of an update's unit may be

ASSUME ChunkAssumption == NChunks \in Nat
ASSUME ContentAssumption == 0 \in Contents   \* the byte memset leaves

Sides  == {"a", "b"}
Other(s) == IF s = "a" THEN "b" ELSE "a"

\* The word stat (valid and datalen) is one unit, the data is NChunks more. A
\* length counts units.
StatCell == 0
Chunks   == 1..NChunks
Cells    == 0..NChunks
Lengths  == 0..NChunks

STAT_ON  == 0
STAT_OFF == 1

Items == [valid : {STAT_ON, STAT_OFF}, len : Lengths, data : [Chunks -> Contents]]

ZeroItem == [valid |-> STAT_ON, len |-> 0, data |-> [c \in Chunks |-> 0]]

\* The items BinLogLoop builds for a row: bzero'd, then data and length filled
\* in. One content stands for all the bytes of a value.
RowItemTooLong(n, v) ==   \* mutant: one unit counted too many
    [valid |-> STAT_ON, len |-> n + 1,
     data |-> [c \in Chunks |-> IF c <= n THEN v ELSE 0]]

RowItem(n, v) == [valid |-> STAT_ON, len |-> n,
                  data |-> [c \in Chunks |-> IF c <= n THEN v ELSE 0]]
RowItems == {RowItem(n, v) : n \in Lengths, v \in Contents}

VARIABLES
    buf,      \* the item on each side of the slot
    side,     \* the valid side, the slot's bit in data_side_bmp_
    wpc,      \* where the binlog thread is in Add or Del
    witr,     \* its iterator, the result of Find(gcnt, 1)
    witm,     \* the item it adds
    wleft,    \* the units its memcpy has still to store
    rpc,      \* where the GET is
    ritr,     \* its iterator `it', the result of Find(key, 0)
    rlen,     \* the datalen it loaded last
    rleft,    \* the units its memcpy has still to load
    reply,    \* the reply in the packet
    snap,     \* history: the valid item when the GET looked its side up
    overlap   \* history: updates that overlapped the GET so far, 2 for more

writerVars == <<wpc, witr, witm, wleft>>
readerVars == <<rpc, ritr, rlen, rleft, reply, snap>>
vars == <<buf, side, writerVars, readerVars, overlap>>

\* A reply: `not found', or the two lengths of it and the data.
Miss == [kind |-> "miss", bodylen |-> 0, pktlen |-> 0, data |-> [c \in Chunks |-> 0]]
Replies == [kind : {"miss", "hit"}, bodylen : Lengths, pktlen : Lengths,
            data : [Chunks -> Contents]]

\* The reply a GET alone in the table gives for an item.
ReplyFor(item) ==
    IF item.valid = STAT_ON /\ item.len # 0
    THEN [kind |-> "hit", bodylen |-> item.len, pktlen |-> item.len,
          data |-> [c \in Chunks |-> IF c <= item.len THEN item.data[c] ELSE 0]]
    ELSE Miss

Writing == wpc # "idle"
Reading == rpc \notin {"idle", "done"}

TypeOK ==
    /\ buf \in [Sides -> Items]
    /\ side \in Sides
    /\ wpc \in {"idle", "copy", "mark", "swap"}
    /\ witr \in Sides
    /\ witm \in Items
    /\ wleft \in SUBSET Cells
    /\ rpc \in {"idle", "valid", "test", "body", "size", "copy", "length", "done"}
    /\ ritr \in Sides
    /\ rlen \in Lengths
    /\ rleft \in SUBSET Chunks
    /\ reply \in Replies
    /\ snap \in Items
    /\ overlap \in 0..2

Init ==
    /\ buf = [s \in Sides |-> ZeroItem]
    /\ side = "b"                        \* a clear bit: side b is the valid one
    /\ wpc = "idle" /\ witr = "a" /\ witm = ZeroItem /\ wleft = {}
    /\ rpc = "idle" /\ ritr = "b" /\ rlen = 0 /\ rleft = {}
    /\ reply = Miss /\ snap = ZeroItem /\ overlap = 0

-----------------------------------------------------------------------------
(* The binlog thread.                                                      *)

\* Mutant: the update through Find(gcnt, 0), the valid side.
BeginOnFront(pc) ==
    /\ wpc = "idle"
    /\ wpc' = pc
    /\ witr' = side
    /\ overlap' = IF Reading /\ overlap < 2 THEN overlap + 1 ELSE overlap
    /\ UNCHANGED <<buf, side, readerVars>>

\* An update begins: find the back side. It overlaps the GET under way, if any.
Begin(pc) ==
    /\ wpc = "idle"
    /\ wpc' = pc
    /\ witr' = Other(side)
    /\ overlap' = IF Reading /\ overlap < 2 THEN overlap + 1 ELSE overlap
    /\ UNCHANGED <<buf, side, readerVars>>

BeginAdd(itm) == Begin("copy") /\ witm' = itm /\ wleft' = Cells
BeginDel      == Begin("mark") /\ UNCHANGED <<witm, wleft>>

\* Mutant: the bit is flipped before the last unit is stored.
CopyCellSwapsEarly(c) ==
    /\ wpc = "copy"
    /\ c \in wleft
    /\ buf' = [buf EXCEPT ![witr] =
                 IF c = StatCell
                 THEN [@ EXCEPT !.valid = witm.valid, !.len = witm.len]
                 ELSE [@ EXCEPT !.data[c] = witm.data[c]]]
    /\ wleft' = wleft \ {c}
    /\ wpc' \in {"copy", "swap"}
    /\ UNCHANGED <<side, witr, witm, readerVars, overlap>>

\* memcpy(&(*itr), itm, sizeof(*itm)), one unit.
CopyCell(c) ==
    /\ wpc = "copy"
    /\ c \in wleft
    /\ buf' = [buf EXCEPT ![witr] =
                 IF c = StatCell
                 THEN [@ EXCEPT !.valid = witm.valid, !.len = witm.len]
                 ELSE [@ EXCEPT !.data[c] = witm.data[c]]]
    /\ wleft' = wleft \ {c}
    /\ wpc' = IF wleft = {c} THEN "swap" ELSE "copy"
    /\ UNCHANGED <<side, witr, witm, readerVars, overlap>>

Mark ==
    /\ wpc = "mark"
    /\ buf' = [buf EXCEPT ![witr].valid = STAT_OFF]
    /\ wpc' = "swap"
    /\ UNCHANGED <<side, witr, witm, wleft, readerVars, overlap>>

\* SwapSide. NotifyChange follows; no one in the program reads its bitmap.
Swap ==
    /\ wpc = "swap"
    /\ side' = Other(side)
    /\ wpc' = "idle"
    /\ witm' = ZeroItem                  \* the row's item goes out of scope
    /\ UNCHANGED <<buf, witr, wleft, readerVars, overlap>>

WriterStep ==
    \/ \E itm \in RowItems : BeginAdd(itm)
    \/ BeginDel
    \/ \E c \in Cells : CopyCell(c)
    \/ Mark
    \/ Swap

-----------------------------------------------------------------------------
(* The GET.                                                                *)

\* Find loads the bit that tells which side is valid.
Lookup ==
    /\ ~Reading
    /\ rpc' = "valid"
    /\ ritr' = side
    /\ snap' = buf[side]
    /\ overlap' = IF Writing THEN 1 ELSE 0
    /\ rlen' = 0 /\ rleft' = {} /\ reply' = Miss
    /\ UNCHANGED <<buf, side, writerVars>>

ReaderMoves(pc) ==
    /\ rpc' = pc
    /\ UNCHANGED <<buf, side, writerVars, ritr, snap, overlap>>

\* ... and then stat.valid of the item on that side.
TestValid ==
    /\ rpc = "valid"
    /\ ReaderMoves(IF buf[ritr].valid = STAT_ON THEN "test" ELSE "done")
    /\ UNCHANGED <<rlen, rleft, reply>>

\* datalen 0 is `not found'.
TestLength ==
    /\ rpc = "test"
    /\ rlen' = buf[ritr].len
    /\ ReaderMoves(IF buf[ritr].len = 0 THEN "done" ELSE "body")
    /\ UNCHANGED <<rleft, reply>>

\* it->stat.datalen again: the build loads it anew or still has it in a register.
Reload == {buf[ritr].len, rlen}

SetBodyLength ==
    /\ rpc = "body"
    /\ \E n \in Reload : rlen' = n /\ reply' = [reply EXCEPT !.kind = "hit", !.bodylen = n]
    /\ ReaderMoves("size")
    /\ UNCHANGED rleft

\* The third argument of the memcpy.
BeginCopy ==
    /\ rpc = "size"
    /\ \E n \in Reload :
          /\ rlen' = n
          /\ rleft' = 1..n
          /\ ReaderMoves(IF n = 0 THEN "length" ELSE "copy")
    /\ UNCHANGED reply

\* Mutant: Find again for every access instead of keeping the iterator.
CopyChunkRefind(c) ==
    /\ rpc = "copy"
    /\ c \in rleft
    /\ reply' = [reply EXCEPT !.data[c] = buf[side].data[c]]
    /\ rleft' = rleft \ {c}
    /\ ReaderMoves(IF rleft = {c} THEN "length" ELSE "copy")
    /\ UNCHANGED rlen

CopyChunk(c) ==
    /\ rpc = "copy"
    /\ c \in rleft
    /\ reply' = [reply EXCEPT !.data[c] = buf[ritr].data[c]]
    /\ rleft' = rleft \ {c}
    /\ ReaderMoves(IF rleft = {c} THEN "length" ELSE "copy")
    /\ UNCHANGED rlen

SetPacketLength ==
    /\ rpc = "length"
    /\ \E n \in Reload : rlen' = n /\ reply' = [reply EXCEPT !.pktlen = n]
    /\ ReaderMoves("done")
    /\ UNCHANGED rleft

\* What the GET does once its packet is there; requests come as they may.
GetStep ==
    \/ TestValid \/ TestLength \/ SetBodyLength \/ BeginCopy
    \/ \E c \in Chunks : CopyChunk(c)
    \/ SetPacketLength

-----------------------------------------------------------------------------

Next == WriterStep \/ Lookup \/ GetStep

Spec == Init /\ [][Next]_vars

-----------------------------------------------------------------------------
(* Properties.                                                             *)

\* What double buffering buys without a lock: a GET that at most one update
\* overlaps, wherever either of them was when the other began, answers exactly
\* for the item that was valid when it looked its side up.
OneOverlapIsSnapshot ==
    rpc = "done" /\ overlap <= 1 => reply = ReplyFor(snap)

\* The valid side is at all times a whole item: one that some row asked for, or
\* one that is switched off. No half-copied item is ever published.
ValidSideIsWhole == buf[side].valid = STAT_OFF \/ buf[side] \in RowItems \cup {ZeroItem}

\* An update takes effect at the flip of the bit and at no other step: until
\* then a new Find returns the old item, from then on the new one, complete.
PublishedAtSwap ==
    [][buf'[side'] # buf[side] => Swap /\ buf'[side'] = buf[witr]]_vars

\* nmmc_tpl.hh:85-88, of Find: `1. determine side of valid 2. return valid side
\* data'. Then every hit is the data of an item some row asked for.
HitIsValidSideData ==
    rpc = "done" /\ reply.kind = "hit" => \E itm \in RowItems : reply = ReplyFor(itm)
=============================================================================
