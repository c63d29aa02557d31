-------------------------- MODULE SharedTable_proofs --------------------------
(***************************************************************************)
(* The double buffer under two unsynchronised threads, for items of any    *)
(* size and content. The inductive invariant is IInv: it says which side   *)
(* the writer is on, how the iterator of the GET relates to it while at    *)
(* most one update has overlapped, and how much of the reply is there.     *)
(***************************************************************************)
EXTENDS SharedTable, TLAPS

\* The writer stores into the back side only.
WriterOnBack == Writing => witr = Other(side)

\* The memcpy of Add has stored all the units that are not in wleft.
Copied ==
    wpc = "copy" =>
      /\ witm \in RowItems
      /\ StatCell \notin wleft =>
           buf[witr].valid = witm.valid /\ buf[witr].len = witm.len
      /\ \A c \in Chunks \ wleft : buf[witr].data[c] = witm.data[c]

Whole(item) == item.valid = STAT_OFF \/ item \in RowItems \cup {ZeroItem}
SidesWhole  == Whole(buf[side]) /\ (wpc = "swap" => Whole(buf[witr]))

\* While at most one update has overlapped the GET, its item is what it was at
\* the lookup, and the writer is on the other side.
ItemHeld ==
    Reading =>
      /\ overlap = 0 => ~Writing /\ ritr = side
      /\ overlap <= 1 => buf[ritr] = snap /\ (Writing => witr # ritr)

\* The units of the data not yet in the packet.
Pending == IF rpc = "size" THEN Chunks ELSE rleft

ReadSoFar ==
    overlap <= 1 =>
      /\ rpc \in {"test", "body", "size", "copy", "length"} => snap.valid = STAT_ON
      /\ rpc \in {"body", "size", "copy", "length"} => snap.len # 0 /\ rlen = snap.len
      /\ rpc \in {"size", "copy", "length"} =>
           reply = [kind |-> "hit", bodylen |-> snap.len, pktlen |-> 0,
                    data |-> [c \in Chunks |-> IF c <= snap.len /\ c \notin Pending
                                               THEN snap.data[c] ELSE 0]]
      /\ rpc = "copy" => rleft \subseteq 1..snap.len
      /\ rpc = "done" => reply = ReplyFor(snap)

BeforeReply ==
    /\ rpc \in {"valid", "test", "body"} => reply = Miss
    /\ rpc = "length" => rleft = {}

IInv == TypeOK /\ WriterOnBack /\ Copied /\ SidesWhole /\ ItemHeld /\ ReadSoFar /\ BeforeReply

-----------------------------------------------------------------------------

LEMMA ZeroItemTyped == ZeroItem \in Items
BY ChunkAssumption, ContentAssumption DEF ZeroItem, Items, Lengths, Chunks

LEMMA RowItemsTyped == RowItems \subseteq Items
<1>1. ASSUME NEW n \in Lengths, NEW v \in Contents
      PROVE  RowItem(n, v) \in Items
  BY ContentAssumption DEF RowItem, Items, Chunks, Lengths
<1>2. QED  BY <1>1 DEF RowItems

LEMMA MissTyped == Miss \in Replies
BY ChunkAssumption, ContentAssumption DEF Miss, Replies, Lengths, Chunks

LEMMA OtherSide == \A s \in Sides : Other(s) \in Sides /\ Other(s) # s /\ Other(Other(s)) = s
BY DEF Sides, Other

LEMMA InitIInv == Init => IInv
<1> SUFFICES ASSUME Init PROVE IInv
  OBVIOUS
<1>1. TypeOK
  BY ZeroItemTyped, MissTyped, ChunkAssumption DEF Init, TypeOK, Sides, Lengths
<1>2. SidesWhole
  BY DEF Init, SidesWhole, Whole, Sides
<1>3. QED
  BY <1>1, <1>2 DEF Init, IInv, WriterOnBack, Copied, ItemHeld, ReadSoFar,
     BeforeReply, Writing, Reading

LEMMA TypeStep == TypeOK /\ [Next]_vars => TypeOK'
<1> SUFFICES ASSUME TypeOK, [Next]_vars PROVE TypeOK'
  OBVIOUS
<1> USE DEF TypeOK
<1>1. ASSUME NEW itm \in RowItems, BeginAdd(itm)  PROVE TypeOK'
  BY <1>1, RowItemsTyped, OtherSide DEF BeginAdd, Begin, readerVars
<1>2. CASE BeginDel
  BY <1>2, OtherSide DEF BeginDel, Begin, readerVars
<1>3. ASSUME NEW c \in Cells, CopyCell(c)  PROVE TypeOK'
  <2>1. CASE c = StatCell
    BY <1>3, <2>1 DEF CopyCell, readerVars, Items
  <2>2. CASE c # StatCell
    <3>1. c \in Chunks
      BY <2>2, ChunkAssumption DEF Cells, Chunks, StatCell
    <3>2. [buf[witr] EXCEPT !.data[c] = witm.data[c]] \in Items
      BY <3>1 DEF Items
    <3>3. QED  BY <1>3, <2>2, <3>2 DEF CopyCell, readerVars
  <2>3. QED  BY <2>1, <2>2
<1>4. CASE Mark
  <2>1. [buf[witr] EXCEPT !.valid = STAT_OFF] \in Items
    BY DEF Items
  <2>2. QED  BY <1>4, <2>1 DEF Mark, readerVars
<1>5. CASE Swap
  BY <1>5, OtherSide, ZeroItemTyped DEF Swap, readerVars
<1>6. CASE Lookup
  BY <1>6, MissTyped, ChunkAssumption DEF Lookup, writerVars, Lengths
<1>7. CASE TestValid
  BY <1>7 DEF TestValid, ReaderMoves, writerVars
<1>8. CASE TestLength
  BY <1>8 DEF TestLength, ReaderMoves, writerVars, Items
<1> DEFINE InRange == \A n \in Reload : n \in Lengths
<1>9. InRange
  BY DEF Reload, Items
<1>10. CASE SetBodyLength
  BY <1>9, <1>10 DEF SetBodyLength, ReaderMoves, writerVars, Replies
<1>11. CASE BeginCopy
  <2>1. \A n \in Lengths : 1..n \subseteq Chunks
    BY ChunkAssumption DEF Lengths, Chunks
  <2>2. QED  BY <1>9, <1>11, <2>1 DEF BeginCopy, ReaderMoves, writerVars
<1>12. ASSUME NEW c \in Chunks, CopyChunk(c)  PROVE TypeOK'
  <2>1. [reply EXCEPT !.data[c] = buf[ritr].data[c]] \in Replies
    <3>1. buf[ritr].data[c] \in Contents
      BY DEF Items
    <3>2. [reply.data EXCEPT ![c] = buf[ritr].data[c]] \in [Chunks -> Contents]
      BY <3>1 DEF Replies
    <3>3. QED  BY <3>2 DEF Replies
  <2>2. QED  BY <1>12, <2>1 DEF CopyChunk, ReaderMoves, writerVars
<1>13. CASE SetPacketLength
  BY <1>9, <1>13 DEF SetPacketLength, ReaderMoves, writerVars, Replies
<1>14. CASE UNCHANGED vars
  BY <1>14 DEF vars, writerVars, readerVars
<1>15. QED
  BY <1>1, <1>2, <1>3, <1>4, <1>5, <1>6, <1>7, <1>8, <1>10, <1>11, <1>12, <1>13, <1>14
     DEF Next, WriterStep, GetStep

\* Types are preserved, so every state is well-formed whatever the two threads do.
THEOREM TypeCorrect == Spec => []TypeOK
<1>1. Init => TypeOK
  BY InitIInv DEF IInv
<1>2. QED  BY <1>1, TypeStep, PTL DEF Spec
-----------------------------------------------------------------------------
(* The writer.                                                             *)

\* The GET changes nothing the writer relies on.
LEMMA GetReadsOnly ==
    ASSUME Lookup \/ GetStep
    PROVE  UNCHANGED <<buf, side, wpc, witr, witm, wleft>>
BY DEF Lookup, GetStep, TestValid, TestLength, SetBodyLength, BeginCopy, CopyChunk,
   SetPacketLength, ReaderMoves, writerVars

LEMMA WriterOnBackStep == IInv /\ [Next]_vars => WriterOnBack'
<1> SUFFICES ASSUME IInv, [Next]_vars PROVE WriterOnBack'
  OBVIOUS
<1> USE DEF WriterOnBack, Writing, IInv
<1>1. ASSUME NEW itm \in RowItems, BeginAdd(itm)  PROVE WriterOnBack'
  BY <1>1 DEF BeginAdd, Begin
<1>2. CASE BeginDel
  BY <1>2 DEF BeginDel, Begin
<1>3. ASSUME NEW c \in Cells, CopyCell(c)  PROVE WriterOnBack'
  BY <1>3 DEF CopyCell
<1>4. CASE Mark
  BY <1>4 DEF Mark
<1>5. CASE Swap
  BY <1>5 DEF Swap
<1>6. CASE Lookup \/ GetStep
  BY <1>6, GetReadsOnly
<1>7. CASE UNCHANGED vars
  BY <1>7 DEF vars, writerVars
<1>8. QED  BY <1>1, <1>2, <1>3, <1>4, <1>5, <1>6, <1>7 DEF Next, WriterStep

LEMMA CopiedStep == IInv /\ [Next]_vars => Copied'
<1> SUFFICES ASSUME IInv, [Next]_vars PROVE Copied'
  OBVIOUS
<1> USE DEF Copied, IInv
<1>1. ASSUME NEW itm \in RowItems, BeginAdd(itm)  PROVE Copied'
  BY <1>1, ChunkAssumption DEF BeginAdd, Begin, Cells, Chunks, StatCell
<1>2. CASE BeginDel
  BY <1>2 DEF BeginDel, Begin
<1>3. ASSUME NEW c \in Cells, CopyCell(c)  PROVE Copied'
  <2>1. CASE c = StatCell
    <3>1. buf'[witr] = [buf[witr] EXCEPT !.valid = witm.valid, !.len = witm.len]
      BY <1>3, <2>1 DEF CopyCell, TypeOK
    <3>2. /\ buf'[witr].valid = witm.valid /\ buf'[witr].len = witm.len
          /\ buf'[witr].data = buf[witr].data
      BY <3>1 DEF TypeOK, Items
    <3>3. \A d \in Chunks : d # StatCell
      BY DEF Chunks, StatCell
    <3>4. QED  BY <1>3, <2>1, <3>2, <3>3 DEF CopyCell
  <2>2. CASE c # StatCell
    <3>1. c \in Chunks
      BY <2>2, ChunkAssumption DEF Cells, Chunks, StatCell
    <3>2. buf'[witr] = [buf[witr] EXCEPT !.data[c] = witm.data[c]]
      BY <1>3, <2>2 DEF CopyCell, TypeOK
    <3>3. /\ buf'[witr].valid = buf[witr].valid /\ buf'[witr].len = buf[witr].len
          /\ buf'[witr].data = [buf[witr].data EXCEPT ![c] = witm.data[c]]
      BY <3>2 DEF TypeOK, Items
    <3>4. buf[witr].data \in [Chunks -> Contents]
      BY DEF TypeOK, Items
    <3>5. wpc = "copy" /\ wleft' = wleft \ {c} /\ witr' = witr /\ witm' = witm
      BY <1>3 DEF CopyCell
    <3>6. \A d \in Chunks \ wleft' : buf'[witr].data[d] = witm.data[d]
      BY <3>1, <3>3, <3>4, <3>5
    <3>7. QED  BY <2>2, <3>3, <3>5, <3>6
  <2>3. QED  BY <2>1, <2>2
<1>4. CASE Mark
  BY <1>4 DEF Mark
<1>5. CASE Swap
  BY <1>5 DEF Swap
<1>6. CASE Lookup \/ GetStep
  BY <1>6, GetReadsOnly
<1>7. CASE UNCHANGED vars
  BY <1>7 DEF vars, writerVars
<1>8. QED  BY <1>1, <1>2, <1>3, <1>4, <1>5, <1>6, <1>7 DEF Next, WriterStep

\* When its last unit is stored, the copy is the item that was to be added.
LEMMA LastUnitCompletes ==
    ASSUME IInv, NEW c \in Cells, CopyCell(c), wleft = {c}
    PROVE  buf'[witr] = witm
<1>1. wpc' = "swap" /\ wpc = "copy" /\ witm \in RowItems
  BY DEF CopyCell, IInv, Copied
<1>2. witm \in Items /\ buf[witr] \in Items
  BY DEF IInv, TypeOK
<1>3. \A d \in Chunks : d # StatCell
  BY DEF Chunks, StatCell
<1>4. CASE c = StatCell
  <2>1. buf'[witr] = [buf[witr] EXCEPT !.valid = witm.valid, !.len = witm.len]
    BY <1>4 DEF CopyCell, IInv, TypeOK
  <2>2. \A d \in Chunks : buf[witr].data[d] = witm.data[d]
    BY <1>1, <1>3, <1>4 DEF IInv, Copied
  <2>3. buf[witr].data = witm.data
    BY <1>2, <2>2 DEF Items
  <2>4. QED  BY <1>2, <2>1, <2>3 DEF Items
<1>5. CASE c # StatCell
  <2>1. c \in Chunks
    BY <1>5, ChunkAssumption DEF Cells, Chunks, StatCell
  <2>2. buf'[witr] = [buf[witr] EXCEPT !.data[c] = witm.data[c]]
    BY <1>5 DEF CopyCell, IInv, TypeOK
  <2>3. buf[witr].valid = witm.valid /\ buf[witr].len = witm.len
    BY <1>1, <1>5 DEF IInv, Copied
  <2>4. \A d \in Chunks \ {c} : buf[witr].data[d] = witm.data[d]
    BY <1>1 DEF IInv, Copied
  <2>5. [buf[witr].data EXCEPT ![c] = witm.data[c]] = witm.data
    BY <1>2, <2>1, <2>4 DEF Items
  <2>6. QED  BY <1>2, <2>2, <2>3, <2>5 DEF Items
<1>6. QED  BY <1>4, <1>5

LEMMA SidesWholeStep == IInv /\ [Next]_vars => SidesWhole'
<1> SUFFICES ASSUME IInv, [Next]_vars PROVE SidesWhole'
  OBVIOUS
<1> USE DEF SidesWhole, IInv
<1>1. ASSUME NEW itm \in RowItems, BeginAdd(itm)  PROVE SidesWhole'
  BY <1>1 DEF BeginAdd, Begin, Whole
<1>2. CASE BeginDel
  BY <1>2 DEF BeginDel, Begin, Whole
<1>3. ASSUME NEW c \in Cells, CopyCell(c)  PROVE SidesWhole'
  <2>1. witr # side /\ witr' = witr /\ side' = side
    BY <1>3, OtherSide DEF CopyCell, WriterOnBack, Writing, TypeOK
  <2>2. buf'[side] = buf[side]
    BY <1>3, <2>1 DEF CopyCell, TypeOK
  <2>3. wpc' = "swap" => wleft = {c}
    BY <1>3 DEF CopyCell
  <2>4. witm \in RowItems
    BY <1>3 DEF CopyCell, Copied
  <2>5. wpc' = "swap" => Whole(buf'[witr])
    BY <1>3, <2>3, <2>4, LastUnitCompletes DEF Whole
  <2>6. QED  BY <2>1, <2>2, <2>5 DEF Whole
<1>4. CASE Mark
  <2>1. witr # side /\ witr' = witr /\ side' = side
    BY <1>4, OtherSide DEF Mark, WriterOnBack, Writing, TypeOK
  <2>2. buf'[side] = buf[side] /\ buf'[witr].valid = STAT_OFF
    BY <1>4, <2>1 DEF Mark, TypeOK, Items
  <2>3. QED  BY <2>1, <2>2 DEF Whole
<1>5. CASE Swap
  <2>1. side' = witr /\ buf' = buf /\ wpc' = "idle" /\ wpc = "swap"
    BY <1>5 DEF Swap, WriterOnBack, Writing
  <2>2. QED  BY <2>1 DEF Whole
<1>6. CASE Lookup \/ GetStep
  BY <1>6, GetReadsOnly DEF Whole
<1>7. CASE UNCHANGED vars
  BY <1>7 DEF vars, writerVars, Whole
<1>8. QED  BY <1>1, <1>2, <1>3, <1>4, <1>5, <1>6, <1>7 DEF Next, WriterStep
-----------------------------------------------------------------------------
(* The GET.                                                                *)

\* A step of a GET moves its own variables; its iterator and the history stay.
LEMMA GetStepFrame ==
    ASSUME GetStep
    PROVE  UNCHANGED <<buf, side, wpc, witr, witm, wleft, ritr, snap, overlap>> /\ Reading
BY DEF GetStep, TestValid, TestLength, SetBodyLength, BeginCopy, CopyChunk,
   SetPacketLength, ReaderMoves, writerVars, Reading

LEMMA WriterStepFrame ==
    ASSUME WriterStep
    PROVE  UNCHANGED <<rpc, ritr, rlen, rleft, reply, snap>>
BY DEF WriterStep, BeginAdd, BeginDel, Begin, CopyCell, Mark, Swap, readerVars

LEMMA ItemHeldStep == IInv /\ [Next]_vars => ItemHeld'
<1> SUFFICES ASSUME IInv, [Next]_vars PROVE ItemHeld'
  OBVIOUS
<1> USE DEF ItemHeld, IInv
<1>1. ASSUME NEW pc \in {"copy", "mark"}, Begin(pc)  PROVE ItemHeld'
  <2>1. /\ buf' = buf /\ side' = side /\ ritr' = ritr /\ snap' = snap /\ rpc' = rpc
        /\ witr' = Other(side) /\ ~Writing
        /\ overlap' = IF Reading /\ overlap < 2 THEN overlap + 1 ELSE overlap
    BY <1>1 DEF Begin, readerVars, Writing
  <2>2. CASE Reading
    <3>1. overlap' # 0 /\ (overlap' <= 1 => overlap = 0)
      BY <2>1, <2>2 DEF TypeOK
    <3>2. overlap = 0 => buf[ritr] = snap /\ ritr = side
      BY <2>2
    <3>3. QED  BY <2>1, <3>1, <3>2, OtherSide DEF TypeOK
  <2>3. CASE ~Reading
    BY <2>1, <2>3 DEF Reading
  <2>4. QED  BY <2>2, <2>3
<1>2. ASSUME NEW c \in Cells, CopyCell(c)  PROVE ItemHeld'
  <2>1. Writing /\ side' = side /\ witr' = witr /\ overlap' = overlap
    BY <1>2 DEF CopyCell, Writing
  <2>2. witr # ritr => buf'[ritr] = buf[ritr]
    BY <1>2 DEF CopyCell, TypeOK
  <2>3. rpc' = rpc /\ ritr' = ritr /\ snap' = snap
    BY <1>2 DEF CopyCell, readerVars
  <2>4. QED  BY <2>1, <2>2, <2>3 DEF Reading, TypeOK
<1>3. CASE Mark
  <2>1. Writing /\ side' = side /\ witr' = witr /\ overlap' = overlap
    BY <1>3 DEF Mark, Writing
  <2>2. witr # ritr => buf'[ritr] = buf[ritr]
    BY <1>3 DEF Mark, TypeOK
  <2>3. rpc' = rpc /\ ritr' = ritr /\ snap' = snap
    BY <1>3 DEF Mark, readerVars
  <2>4. QED  BY <2>1, <2>2, <2>3 DEF Reading, TypeOK
<1>4. CASE Swap
  BY <1>4 DEF Swap, readerVars, Reading, Writing, TypeOK
<1>5. CASE Lookup
  <2>1. /\ ritr' = side /\ side' = side /\ snap' = buf[side] /\ buf' = buf
        /\ wpc' = wpc /\ witr' = witr /\ overlap' = IF Writing THEN 1 ELSE 0
    BY <1>5 DEF Lookup, writerVars
  <2>2. Writing => witr # side
    BY OtherSide DEF WriterOnBack, TypeOK
  <2>3. QED  BY <2>1, <2>2 DEF Writing
<1>6. CASE GetStep
  BY <1>6, GetStepFrame DEF Reading, Writing
<1>7. CASE UNCHANGED vars
  BY <1>7 DEF vars, writerVars, readerVars, Reading, Writing
<1>8. QED
  BY <1>1, <1>2, <1>3, <1>4, <1>5, <1>6, <1>7 DEF Next, WriterStep, BeginAdd, BeginDel

LEMMA BeforeReplyStep == IInv /\ [Next]_vars => BeforeReply'
<1> SUFFICES ASSUME IInv, [Next]_vars PROVE BeforeReply'
  OBVIOUS
<1> USE DEF BeforeReply, IInv
<1>1. CASE WriterStep
  BY <1>1, WriterStepFrame
<1>2. CASE Lookup
  BY <1>2 DEF Lookup
<1>3. CASE TestValid \/ TestLength
  BY <1>3 DEF TestValid, TestLength, ReaderMoves
<1>4. CASE SetBodyLength
  BY <1>4 DEF SetBodyLength, ReaderMoves
<1>5. CASE BeginCopy
  BY <1>5 DEF BeginCopy, ReaderMoves, Reload, TypeOK, Items, Lengths
<1>6. ASSUME NEW c \in Chunks, CopyChunk(c)  PROVE BeforeReply'
  BY <1>6 DEF CopyChunk, ReaderMoves
<1>7. CASE SetPacketLength
  BY <1>7 DEF SetPacketLength, ReaderMoves
<1>8. CASE UNCHANGED vars
  BY <1>8 DEF vars, readerVars
<1>9. QED  BY <1>1, <1>2, <1>3, <1>4, <1>5, <1>6, <1>7, <1>8 DEF Next, GetStep

\* With at most one overlapping update a GET loads what was there at its lookup.
LEMMA LoadsAreSnapshot ==
    ASSUME IInv, Reading, overlap <= 1
    PROVE  buf[ritr] = snap /\ (rlen = snap.len => \A n \in Reload : n = snap.len)
BY DEF IInv, ItemHeld, Reload

LEMMA ReadSoFarStep == IInv /\ [Next]_vars => ReadSoFar'
<1> SUFFICES ASSUME IInv, [Next]_vars, overlap' <= 1 PROVE ReadSoFar'
  BY DEF ReadSoFar
<1> USE DEF IInv
<1>1. CASE WriterStep
  <2>1. overlap <= 1 \/ (rpc = "idle")
    BY <1>1 DEF WriterStep, BeginAdd, BeginDel, Begin, CopyCell, Mark, Swap, TypeOK
  <2>2. UNCHANGED <<rpc, ritr, rlen, rleft, reply, snap>>
    BY <1>1, WriterStepFrame
  <2>3. QED  BY <2>1, <2>2 DEF ReadSoFar, Pending
<1>2. CASE Lookup
  BY <1>2 DEF Lookup, ReadSoFar
<1>3. CASE UNCHANGED vars
  BY <1>3 DEF vars, readerVars, ReadSoFar, Pending
<1>4. CASE GetStep
  <2>1. /\ Reading /\ overlap <= 1 /\ snap' = snap
        /\ buf[ritr] = snap /\ (rlen = snap.len => \A n \in Reload : n = snap.len)
    BY <1>4, GetStepFrame, LoadsAreSnapshot
  <2>2. snap \in Items /\ snap.len \in Lengths /\ snap.data \in [Chunks -> Contents]
    BY DEF TypeOK, Items
  <2>3. ReadSoFar
    OBVIOUS
  <2>4. CASE TestValid
    <3>1. reply' = Miss /\ (rpc' = "test" => snap.valid = STAT_ON)
          /\ (rpc' = "done" => snap.valid # STAT_ON) /\ rpc' \in {"test", "done"}
      BY <2>1, <2>4 DEF TestValid, ReaderMoves, BeforeReply
    <3>2. QED  BY <2>1, <3>1 DEF ReadSoFar, ReplyFor
  <2>5. CASE TestLength
    <3>1. /\ reply' = Miss /\ snap.valid = STAT_ON /\ rlen' = snap.len
          /\ rpc' = "body" => snap.len # 0
          /\ rpc' = "done" => snap.len = 0
          /\ rpc' \in {"body", "done"}
      BY <2>1, <2>3, <2>5 DEF TestLength, ReaderMoves, BeforeReply, ReadSoFar
    <3>2. QED  BY <2>1, <3>1 DEF ReadSoFar, ReplyFor
  <2>6. CASE SetBodyLength
    <3>1. snap.valid = STAT_ON /\ snap.len # 0 /\ rlen = snap.len /\ reply = Miss
      BY <2>1, <2>3, <2>6 DEF SetBodyLength, BeforeReply, ReadSoFar
    <3>2. /\ rpc' = "size" /\ rlen' = snap.len
          /\ reply' = [reply EXCEPT !.kind = "hit", !.bodylen = snap.len]
      BY <2>1, <2>6, <3>1 DEF SetBodyLength, ReaderMoves
    <3>3. reply' = [kind |-> "hit", bodylen |-> snap.len, pktlen |-> 0,
                    data |-> [c \in Chunks |-> 0]]
      BY <3>1, <3>2 DEF Miss
    <3>4. Pending' = Chunks
      BY <3>2 DEF Pending
    <3>5. QED  BY <2>1, <3>1, <3>2, <3>3, <3>4 DEF ReadSoFar
  <2>7. CASE BeginCopy
    <3>1. /\ snap.valid = STAT_ON /\ snap.len # 0 /\ rlen = snap.len
          /\ reply = [kind |-> "hit", bodylen |-> snap.len, pktlen |-> 0,
                      data |-> [c \in Chunks |-> 0]]
      BY <2>1, <2>3, <2>7 DEF BeginCopy, ReadSoFar, Pending
    <3>2. rpc' = "copy" /\ rlen' = snap.len /\ rleft' = 1..snap.len /\ reply' = reply
      BY <2>1, <2>7, <3>1 DEF BeginCopy, ReaderMoves
    <3>3. \A c \in Chunks : ~(c <= snap.len /\ c \notin 1..snap.len)
      BY <2>2, ChunkAssumption DEF Chunks, Lengths
    <3>4. Pending' = 1..snap.len
      BY <3>2 DEF Pending
    <3>5. [c \in Chunks |-> 0] = [c \in Chunks |-> IF c <= snap.len /\ c \notin Pending'
                                                 THEN snap.data[c] ELSE 0]
      BY <3>3, <3>4
    <3>6. QED  BY <2>1, <3>1, <3>2, <3>5 DEF ReadSoFar
  <2>8. ASSUME NEW c \in Chunks, CopyChunk(c)  PROVE ReadSoFar'
    <3> DEFINE got(left) == [d \in Chunks |-> IF d <= snap.len /\ d \notin left
                                            THEN snap.data[d] ELSE 0]
    <3>1. /\ snap.valid = STAT_ON /\ snap.len # 0 /\ rlen = snap.len
          /\ reply = [kind |-> "hit", bodylen |-> snap.len, pktlen |-> 0, data |-> got(rleft)]
          /\ rleft \subseteq 1..snap.len
      BY <2>1, <2>3, <2>8 DEF CopyChunk, ReadSoFar, Pending
    <3>2. /\ rpc' \in {"copy", "length"} /\ rlen' = rlen /\ rleft' = rleft \ {c}
          /\ reply' = [reply EXCEPT !.data[c] = snap.data[c]]
          /\ c \in rleft
      BY <2>1, <2>8 DEF CopyChunk, ReaderMoves
    <3>3. [got(rleft) EXCEPT ![c] = snap.data[c]] = got(rleft')
      <4>1. c <= snap.len
        BY <3>1, <3>2, <2>2, ChunkAssumption DEF Chunks, Lengths
      <4>2. rleft' = rleft \ {c}
        BY <3>2
      <4>3. ASSUME NEW d \in Chunks
            PROVE  [got(rleft) EXCEPT ![c] = snap.data[c]][d] = got(rleft')[d]
        <5>1. CASE d = c
          BY <4>1, <4>2, <5>1
        <5>2. CASE d # c
          <6>1. d \notin rleft <=> d \notin rleft'
            BY <4>2, <5>2
          <6>2. QED  BY <5>2, <6>1
        <5>3. QED  BY <5>1, <5>2
      <4>4. QED  BY <4>3
    <3> HIDE DEF got
    <3>4. reply' = [kind |-> "hit", bodylen |-> snap.len, pktlen |-> 0, data |-> got(rleft')]
      BY <3>1, <3>2, <3>3
    <3>5. Pending' = rleft'
      BY <3>2 DEF Pending
    <3>6. QED  BY <2>1, <3>1, <3>2, <3>4, <3>5 DEF ReadSoFar, got
  <2>9. CASE SetPacketLength
    <3>1. /\ snap.valid = STAT_ON /\ snap.len # 0 /\ rlen = snap.len /\ rleft = {}
          /\ reply = [kind |-> "hit", bodylen |-> snap.len, pktlen |-> 0,
                      data |-> [c \in Chunks |-> IF c <= snap.len
                                                 THEN snap.data[c] ELSE 0]]
      BY <2>1, <2>3, <2>9 DEF SetPacketLength, ReadSoFar, Pending, BeforeReply
    <3>2. rpc' = "done" /\ reply' = [reply EXCEPT !.pktlen = snap.len]
      BY <2>1, <2>9, <3>1 DEF SetPacketLength, ReaderMoves
    <3>3. reply' = ReplyFor(snap)
      BY <3>1, <3>2 DEF ReplyFor
    <3>4. QED  BY <2>1, <3>2, <3>3 DEF ReadSoFar
  <2>10. QED  BY <1>4, <2>4, <2>5, <2>6, <2>7, <2>8, <2>9 DEF GetStep
<1>5. QED  BY <1>1, <1>2, <1>3, <1>4 DEF Next

-----------------------------------------------------------------------------

LEMMA IInvInvariant == Spec => []IInv
<1>1. IInv /\ [Next]_vars => IInv'
  BY TypeStep, WriterOnBackStep, CopiedStep, SidesWholeStep, ItemHeldStep,
     ReadSoFarStep, BeforeReplyStep DEF IInv
<1>2. QED  BY <1>1, InitIInv, PTL DEF Spec

\* A GET that at most one update overlaps answers for the item that was valid
\* when it looked its side up, for items of any size and any order of the
\* stores and loads of the two memcpys.
THEOREM ReadsAreSnapshots == Spec => []OneOverlapIsSnapshot
<1>1. IInv => OneOverlapIsSnapshot
  BY DEF IInv, ReadSoFar, OneOverlapIsSnapshot
<1>2. QED  BY <1>1, IInvInvariant, PTL

\* No item that Add has half copied is ever on the valid side.
THEOREM NothingHalfPublished == Spec => []ValidSideIsWhole
<1>1. IInv => ValidSideIsWhole
  BY DEF IInv, SidesWhole, Whole, ValidSideIsWhole
<1>2. QED  BY <1>1, IInvInvariant, PTL

\* The item a new Find returns changes at the flip of the bit (SwapSide in Add and Del),
\* and only there.
THEOREM UpdatesAppearAtSwap == Spec => PublishedAtSwap
<1>1. IInv /\ [Next]_vars => [buf'[side'] # buf[side] => Swap /\ buf'[side'] = buf[witr]]_vars
  <2> SUFFICES ASSUME IInv, Next, buf'[side'] # buf[side]
               PROVE  Swap /\ buf'[side'] = buf[witr]
    OBVIOUS
  <2> USE DEF IInv
  <2>1. CASE \E itm \in RowItems : BeginAdd(itm)
    BY <2>1 DEF BeginAdd, Begin
  <2>2. CASE BeginDel
    BY <2>2 DEF BeginDel, Begin
  <2>3. ASSUME NEW c \in Cells, CopyCell(c)  PROVE FALSE
    <3>1. witr # side /\ side' = side
      BY <2>3, OtherSide DEF CopyCell, WriterOnBack, Writing, TypeOK
    <3>2. QED  BY <2>3, <3>1 DEF CopyCell, TypeOK
  <2>4. CASE Mark
    <3>1. witr # side /\ side' = side
      BY <2>4, OtherSide DEF Mark, WriterOnBack, Writing, TypeOK
    <3>2. QED  BY <2>4, <3>1 DEF Mark, TypeOK
  <2>5. CASE Swap
    BY <2>5 DEF Swap, WriterOnBack, Writing
  <2>6. CASE Lookup \/ GetStep
    BY <2>6, GetReadsOnly
  <2>7. QED  BY <2>1, <2>2, <2>3, <2>4, <2>5, <2>6 DEF Next, WriterStep
<1>2. QED  BY <1>1, IInvInvariant, PTL DEF Spec, PublishedAtSwap
=============================================================================
