-------------------------- MODULE NetmapRings_proofs --------------------------
(***************************************************************************)
(* Proofs about NetmapRings, for any number of rings of any size: the      *)
(* loop never mixes up buffers, swaps only those it owns, keeps the        *)
(* replies in the order of the frames, and answers each frame once.        *)
(***************************************************************************)
EXTENDS NetmapRings, FiniteSetTheorems, TLAPS

\* The type invariant, with what the frames' numbers rest on.
TypeInv == TypeOK /\ IsFiniteSet(arrived)

\* How many steps it is from one slot to the other.
Distance(s, t) == IF s <= t THEN t - s ELSE t - s + R

\* The loop of ProcessRing works between head and tail of both its rings, and
\* the frames left to handle fit before either tail.
LoopOK ==
    pc = "ring" =>
        /\ limit <= Distance(rxcur, rx[rxi].tail)
        /\ limit <= Distance(txcur, tx[txi].tail)
        /\ Distance(rx[rxi].head, rxcur) + Distance(rxcur, rx[rxi].tail)
               = Distance(rx[rxi].head, rx[rxi].tail)
        /\ Distance(tx[txi].head, txcur) + Distance(txcur, tx[txi].tail)
               = Distance(tx[txi].head, tx[txi].tail)

LEMMA NextSlotType == \A s \in SlotIds : NextSlot(s) \in SlotIds
  BY RingAssumption DEF NextSlot, SlotIds

LEMMA RingFields ==
  ASSUME TypeOK
  PROVE  /\ \A i \in RxRings : /\ rx[i].buf \in [SlotIds -> Buffers]
                               /\ rx[i].head \in SlotIds
                               /\ rx[i].tail \in SlotIds
         /\ \A i \in TxRings : /\ tx[i].buf \in [SlotIds -> Buffers]
                               /\ tx[i].head \in SlotIds
                               /\ tx[i].tail \in SlotIds
  BY DEF TypeOK, Ring

\* A ring is one with another buffer in a slot of it.
LEMMA BufferPut ==
  ASSUME NEW I, NEW r \in [I -> Ring], NEW i \in I, NEW s \in SlotIds, NEW b \in Buffers
  PROVE  [r EXCEPT ![i].buf[s] = b] \in [I -> Ring]
  BY DEF Ring

\* A frame in a buffer is one as a reply too.
LEMMA ReplyPut ==
  ASSUME NEW m \in [Buffers -> Frame], NEW b \in Buffers
  PROVE  [m EXCEPT ![b].replied = TRUE] \in [Buffers -> Frame]
  BY DEF Frame

\* The rings ProcessRing works on.
LEMMA CurrentRings ==
  ASSUME TypeOK
  PROVE  /\ pc = "ring" => rxi \in RxRings /\ txi \in TxRings
         /\ Searching => rxi \in RxRings /\ txi \in TxRings
  BY RingAssumption DEF TypeOK, RxRings, TxRings, Searching

LEMMA DistanceType ==
  ASSUME NEW a \in SlotIds, NEW b \in SlotIds
  PROVE  Distance(a, b) \in 0..(R - 1) /\ Distance(a, a) = 0
  BY RingAssumption DEF Distance, SlotIds

\* The next slot is one nearer, unless b was reached.
LEMMA DistanceOfNext ==
  ASSUME NEW a \in SlotIds, NEW s \in SlotIds, NEW b \in SlotIds,
         Distance(s, b) > 0,
         Distance(a, s) + Distance(s, b) = Distance(a, b)
  PROVE  /\ Distance(NextSlot(s), b) = Distance(s, b) - 1
         /\ Distance(a, NextSlot(s)) + Distance(NextSlot(s), b) = Distance(a, b)
         /\ s \in Between(a, b)
  BY RingAssumption DEF Distance, NextSlot, Between, SlotIds

LEMMA LimitFits ==
  ASSUME NEW r, NEW t, r.head \in SlotIds, r.tail \in SlotIds,
         t.head \in SlotIds, t.tail \in SlotIds
  PROVE  /\ Limit(r, t) \in 0..(R - 1)
         /\ Limit(r, t) <= Distance(r.head, r.tail)
         /\ Limit(r, t) <= Distance(t.head, t.tail)
  <1>1. Space(r) = Distance(r.head, r.tail) /\ Space(t) = Distance(t.head, t.tail)
    BY DEF Space, Distance
  <1>2. /\ Distance(r.head, r.tail) \in 0..(R - 1)
        /\ Distance(t.head, t.tail) \in 0..(R - 1)
    BY DistanceType
  <1> QED BY <1>1, <1>2, RingAssumption DEF Limit

LEMMA InitTypeInv == Init => TypeInv
  <1> SUFFICES ASSUME Init PROVE TypeInv
    OBVIOUS
  <1>0. 0 \in SlotIds /\ R - 1 \in SlotIds /\ 0 \in RxRings /\ 0 \in 0..MaxFrames
    BY RingAssumption DEF SlotIds, RxRings
  <1>1. rx \in [RxRings -> Ring]
    BY <1>0 DEF Init, Ring, Buffers
  <1>2. tx \in [TxRings -> Ring]
    BY <1>0 DEF Init, Ring, Buffers
  <1>3. mem \in [Buffers -> Frame]
    BY <1>0 DEF Init, Frame
  <1>4. IsFiniteSet(arrived)
    BY FS_EmptySet DEF Init
  <1>5. wire \in [TxRings -> Seq(Frame)]
    BY DEF Init
  <1>6. /\ pc = "sync" /\ rxi \in 0..NRx /\ txi \in 0..NTx
        /\ rxcur \in SlotIds /\ txcur \in SlotIds
        /\ limit \in 0..(R - 1) /\ arrived \in SUBSET Frame
    BY RingAssumption DEF Init, SlotIds
  <1> QED BY <1>1, <1>2, <1>3, <1>4, <1>5, <1>6 DEF TypeInv, TypeOK

LEMMA NextTypeInv == TypeInv /\ [Next]_vars => TypeInv'
  <1> SUFFICES ASSUME TypeInv, [Next]_vars PROVE TypeInv'
    OBVIOUS
  <1> USE NextSlotType DEF TypeInv, TypeOK
  <1>1. CASE UNCHANGED vars
    BY <1>1 DEF vars
  <1>2. ASSUME NEW i \in RxRings, NEW answers \in BOOLEAN, Receive(i, answers)
        PROVE  TypeInv'
    <2> DEFINE frame == [id |-> Cardinality(arrived) + 1, from |-> i,
                         answers |-> answers, replied |-> FALSE]
    <2>1. frame \in Frame
      <3>1. Cardinality(arrived) \in Nat
        BY FS_CardinalityType
      <3> QED BY <1>2, <3>1, RingAssumption DEF Receive, Frame
    <2>2. IsFiniteSet(arrived')
      BY <1>2, FS_AddElement DEF Receive
    <2>3. mem' \in [Buffers -> Frame]
      BY <1>2, <2>1, RingFields DEF Receive
    <2>4. arrived' \in SUBSET Frame
      BY <1>2, <2>1 DEF Receive
    <2>5. rx' \in [RxRings -> Ring]
      BY <1>2 DEF Receive, Ring
    <2> QED BY <1>2, <2>2, <2>3, <2>4, <2>5 DEF Receive
  <1>3. ASSUME NEW i \in TxRings, Transmit(i)
        PROVE  TypeInv'
    <2>1. mem[tx[i].buf[NextSlot(tx[i].tail)]] \in Frame
      BY RingFields
    <2>2. wire' \in [TxRings -> Seq(Frame)]
      BY <1>3, <2>1 DEF Transmit
    <2>3. tx' \in [TxRings -> Ring]
      BY <1>3 DEF Transmit, Ring
    <2> QED BY <1>3, <2>2, <2>3 DEF Transmit
  <1>4. CASE Poll
    BY <1>4, RingAssumption DEF Poll
  <1>5. CASE SkipRx
    BY <1>5, RingAssumption DEF SkipRx, Searching
  <1>6. CASE SkipTx
    BY <1>6, RingAssumption DEF SkipTx, Searching
  <1>7. CASE EndSearch
    BY <1>7 DEF EndSearch
  <1>8. CASE BeginRing
    <2>1. rxi \in RxRings /\ txi \in TxRings
      BY <1>8, CurrentRings DEF BeginRing
    <2>2. Limit(rx[rxi], tx[txi]) \in 0..(R - 1)
      BY <2>1, RingFields, LimitFits
    <2>3. rx[rxi].head \in SlotIds /\ tx[txi].head \in SlotIds
      BY <2>1, RingFields
    <2> QED BY <1>8, <2>2, <2>3 DEF BeginRing, Searching
  <1>9. CASE AnswerSlot
    <2>1. rxi \in RxRings /\ txi \in TxRings
      BY <1>9, CurrentRings DEF AnswerSlot
    <2>2. rx[rxi].buf[rxcur] \in Buffers /\ tx[txi].buf[txcur] \in Buffers
      BY <2>1, RingFields
    <2>3. /\ rx \in [RxRings -> Ring] /\ tx \in [TxRings -> Ring]
          /\ mem \in [Buffers -> Frame] /\ rxcur \in SlotIds /\ txcur \in SlotIds
      OBVIOUS
    <2>4. /\ rx' = [rx EXCEPT ![rxi].buf[rxcur] = tx[txi].buf[txcur]]
          /\ tx' = [tx EXCEPT ![txi].buf[txcur] = rx[rxi].buf[rxcur]]
          /\ mem' = [mem EXCEPT ![rx[rxi].buf[rxcur]].replied = TRUE]
      BY <1>9 DEF AnswerSlot
    <2>5. limit' \in 0..(R - 1)
      BY <1>9, RingAssumption DEF AnswerSlot
    <2> HIDE DEF TypeInv, TypeOK
    <2>6. rx' \in [RxRings -> Ring] /\ tx' \in [TxRings -> Ring]
      <3>1. PICK a, b : a = rx[rxi].buf[rxcur] /\ b = tx[txi].buf[txcur]
        OBVIOUS
      <3>2. a \in Buffers /\ b \in Buffers
        BY <2>2, <3>1
      <3>3. [rx EXCEPT ![rxi].buf[rxcur] = b] \in [RxRings -> Ring]
        BY <2>1, <2>3, <3>2, BufferPut
      <3>4. [tx EXCEPT ![txi].buf[txcur] = a] \in [TxRings -> Ring]
        BY <2>1, <2>3, <3>2, BufferPut
      <3> QED BY <2>4, <3>1, <3>3, <3>4
    <2>7. mem' \in [Buffers -> Frame]
      BY <2>2, <2>3, <2>4, ReplyPut
    <2> USE DEF TypeInv, TypeOK
    <2> QED BY <1>9, <2>5, <2>6, <2>7 DEF AnswerSlot
  <1>10. CASE DropSlot
    <2>1. limit' \in 0..(R - 1)
      BY <1>10, RingAssumption DEF DropSlot
    <2> QED BY <1>10, <2>1 DEF DropSlot
  <1>11. CASE EndRing
    <2>1. rx' \in [RxRings -> Ring]
      BY <1>11 DEF EndRing, Ring
    <2>2. tx' \in [TxRings -> Ring]
      BY <1>11 DEF EndRing, Ring
    <2> QED BY <1>11, <2>1, <2>2 DEF EndRing
  <1> QED BY <1>1, <1>2, <1>3, <1>4, <1>5, <1>6, <1>7, <1>8, <1>9, <1>10, <1>11
          DEF Next, WorkerStep

\* The cursors of ProcessRing stay in their rings, for any rings: SearchValidRing
\* never hands it a ring number that is none.
THEOREM TypeCorrect == Spec => []TypeOK
  <1>1. Spec => []TypeInv
    BY InitTypeInv, NextTypeInv, PTL DEF Spec
  <1> QED BY <1>1, PTL DEF TypeInv

-----------------------------------------------------------------------------
LEMMA OnlyAnswersSwap ==
  ASSUME TypeOK, [Next]_vars, ~AnswerSlot
  PROVE  /\ \A i \in RxRings : rx'[i].buf = rx[i].buf
         /\ \A i \in TxRings : tx'[i].buf = tx[i].buf
  <1> USE DEF TypeOK, Ring
  <1>1. CASE UNCHANGED vars
    BY <1>1 DEF vars
  <1>2. ASSUME NEW i \in RxRings, NEW answers \in BOOLEAN, Receive(i, answers)
        PROVE  rx'[i].buf = rx[i].buf /\ tx' = tx
               /\ \A j \in RxRings \ {i} : rx'[j] = rx[j]
    BY <1>2 DEF Receive
  <1>3. ASSUME NEW i \in TxRings, Transmit(i)
        PROVE  tx'[i].buf = tx[i].buf /\ rx' = rx
               /\ \A j \in TxRings \ {i} : tx'[j] = tx[j]
    BY <1>3 DEF Transmit
  <1>4. CASE EndRing
    BY <1>4 DEF EndRing
  <1>5. CASE Poll \/ SkipRx \/ SkipTx \/ EndSearch \/ BeginRing \/ DropSlot
    BY <1>5 DEF Poll, SkipRx, SkipTx, EndSearch, BeginRing, DropSlot
  <1> QED BY <1>1, <1>2, <1>3, <1>4, <1>5 DEF Next, WorkerStep

\* BuffersDistinct: a swap (Send) permutes the buffers of the slots and loses none.
THEOREM BuffersStayDistinct == Spec => []BuffersDistinct
  <1>1. Init => BuffersDistinct
    BY DEF Init, BuffersDistinct
  <1>2. TypeInv /\ BuffersDistinct /\ [Next]_vars => BuffersDistinct'
    <2> SUFFICES ASSUME TypeInv, BuffersDistinct, [Next]_vars
                 PROVE  BuffersDistinct'
      OBVIOUS
    <2> DEFINE SameBuffers ==
          /\ \A i \in RxRings : rx'[i].buf = rx[i].buf
          /\ \A i \in TxRings : tx'[i].buf = tx[i].buf
    <2>1. ASSUME SameBuffers PROVE BuffersDistinct'
      BY <2>1 DEF BuffersDistinct
    <2>2. CASE AnswerSlot
      <3>1. /\ rxi \in RxRings /\ txi \in TxRings
            /\ rxcur \in SlotIds /\ txcur \in SlotIds
        BY <2>2, CurrentRings DEF AnswerSlot, TypeInv, TypeOK
      <3>2. \A i \in RxRings, s \in SlotIds :
              rx'[i].buf[s] = IF i = rxi /\ s = rxcur THEN tx[txi].buf[txcur]
                                                      ELSE rx[i].buf[s]
        BY <2>2, <3>1, RingFields DEF AnswerSlot, TypeInv, TypeOK
      <3>3. \A i \in TxRings, s \in SlotIds :
              tx'[i].buf[s] = IF i = txi /\ s = txcur THEN rx[rxi].buf[rxcur]
                                                      ELSE tx[i].buf[s]
        BY <2>2, <3>1, RingFields DEF AnswerSlot, TypeInv, TypeOK
      <3> QED BY <3>1, <3>2, <3>3 DEF BuffersDistinct
    <2>3. CASE ~AnswerSlot
      <3>1. SameBuffers
        BY <2>3, OnlyAnswersSwap DEF TypeInv
      <3> QED BY <3>1, <2>1
    <2> QED BY <2>2, <2>3
  <1> QED BY <1>1, <1>2, InitTypeInv, NextTypeInv, PTL DEF Spec

-----------------------------------------------------------------------------
\* A frame is left to handle, so the slot at cur is the program's, and the loop
\* invariant holds at the next slot for one frame less (and at cur too).
RingAdvances(r, cur) ==
    /\ limit - 1 <= Distance(cur, r.tail)
    /\ limit - 1 <= Distance(NextSlot(cur), r.tail)
    /\ Distance(r.head, NextSlot(cur)) + Distance(NextSlot(cur), r.tail)
           = Distance(r.head, r.tail)
    /\ cur \in Between(r.head, r.tail)

LEMMA LoopAdvances ==
  ASSUME TypeOK, LoopOK, pc = "ring", limit > 0
  PROVE  RingAdvances(rx[rxi], rxcur) /\ RingAdvances(tx[txi], txcur)
  <1> DEFINE OneNearer(r, cur) ==
        /\ r.head \in SlotIds /\ r.tail \in SlotIds /\ cur \in SlotIds
        /\ limit <= Distance(cur, r.tail)
        /\ Distance(r.head, cur) + Distance(cur, r.tail) = Distance(r.head, r.tail)
  <1>1. ASSUME NEW r, NEW cur, OneNearer(r, cur)
        PROVE  RingAdvances(r, cur)
    <2>1. limit \in Nat /\ Distance(cur, r.tail) \in 0..(R - 1)
      BY <1>1, DistanceType, RingAssumption DEF TypeOK
    <2>2. Distance(cur, r.tail) > 0
      BY <1>1, <2>1, RingAssumption
    <2>3. /\ Distance(NextSlot(cur), r.tail) = Distance(cur, r.tail) - 1
          /\ Distance(r.head, NextSlot(cur)) + Distance(NextSlot(cur), r.tail)
                 = Distance(r.head, r.tail)
          /\ cur \in Between(r.head, r.tail)
      BY <1>1, <2>2, DistanceOfNext
    <2> QED BY <1>1, <2>1, <2>3, RingAssumption DEF RingAdvances
  <1>2. OneNearer(rx[rxi], rxcur) /\ OneNearer(tx[txi], txcur)
    BY CurrentRings, RingFields DEF LoopOK, TypeOK
  <1> QED BY <1>1, <1>2

LEMMA NextLoopOK == TypeInv /\ LoopOK /\ [Next]_vars => LoopOK'
  <1> SUFFICES ASSUME TypeInv, LoopOK, [Next]_vars, pc' = "ring"
               PROVE  LoopOK'
    BY DEF LoopOK
  <1>1. CASE UNCHANGED vars
    BY <1>1 DEF vars, LoopOK
  <1>2. CASE BeginRing
    <2>1. rxi \in RxRings /\ txi \in TxRings
      BY <1>2, CurrentRings DEF BeginRing, TypeInv
    <2>2. /\ rx[rxi].head \in SlotIds /\ rx[rxi].tail \in SlotIds
          /\ tx[txi].head \in SlotIds /\ tx[txi].tail \in SlotIds
      BY <2>1, RingFields DEF TypeInv
    <2>3. /\ Limit(rx[rxi], tx[txi]) <= Distance(rx[rxi].head, rx[rxi].tail)
          /\ Limit(rx[rxi], tx[txi]) <= Distance(tx[txi].head, tx[txi].tail)
      BY <2>2, LimitFits
    <2>4. /\ Distance(rx[rxi].head, rx[rxi].tail) \in 0..(R - 1)
          /\ Distance(tx[txi].head, tx[txi].tail) \in 0..(R - 1)
          /\ Distance(rx[rxi].head, rx[rxi].head) = 0
          /\ Distance(tx[txi].head, tx[txi].head) = 0
      BY <2>2, DistanceType
    <2>5. /\ rx' = rx /\ tx' = tx /\ rxi' = rxi /\ txi' = txi
          /\ rxcur' = rx[rxi].head /\ txcur' = tx[txi].head
          /\ limit' = Limit(rx[rxi], tx[txi])
      BY <1>2 DEF BeginRing
    <2> QED BY <2>3, <2>4, <2>5, RingAssumption DEF LoopOK
  <1>3. CASE AnswerSlot
    <2>1. rxi \in RxRings /\ txi \in TxRings
      BY <1>3, CurrentRings DEF AnswerSlot, TypeInv
    <2>2. /\ rx'[rxi].head = rx[rxi].head /\ rx'[rxi].tail = rx[rxi].tail
          /\ tx'[txi].head = tx[txi].head /\ tx'[txi].tail = tx[txi].tail
      BY <1>3, <2>1 DEF AnswerSlot, Ring, TypeInv, TypeOK
    <2>3. RingAdvances(rx[rxi], rxcur) /\ RingAdvances(tx[txi], txcur)
      BY <1>3, <2>1, LoopAdvances DEF AnswerSlot, TypeInv
    <2>4. /\ rxi' = rxi /\ txi' = txi /\ limit' = limit - 1
          /\ rxcur' = NextSlot(rxcur) /\ txcur' = NextSlot(txcur)
      BY <1>3 DEF AnswerSlot
    <2> QED BY <2>2, <2>3, <2>4 DEF LoopOK, RingAdvances
  <1>4. CASE DropSlot
    <2>1. rxi \in RxRings /\ txi \in TxRings
      BY <1>4, CurrentRings DEF DropSlot, TypeInv
    <2>2. RingAdvances(rx[rxi], rxcur) /\ RingAdvances(tx[txi], txcur)
      BY <1>4, <2>1, LoopAdvances DEF DropSlot, TypeInv
    <2>3. /\ rx' = rx /\ tx' = tx /\ rxi' = rxi /\ txi' = txi
          /\ rxcur' = NextSlot(rxcur) /\ txcur' = txcur /\ limit' = limit - 1
          /\ pc = "ring"
      BY <1>4 DEF DropSlot
    <2> QED BY <2>2, <2>3 DEF LoopOK, RingAdvances
  <1>5. ASSUME NEW i \in RxRings, NEW answers \in BOOLEAN, Receive(i, answers)
        PROVE  FALSE
    BY <1>5 DEF Receive
  <1>6. ASSUME NEW i \in TxRings, Transmit(i)
        PROVE  FALSE
    BY <1>6 DEF Transmit
  <1>7. ~(Poll \/ SkipRx \/ SkipTx \/ EndSearch \/ EndRing)
    BY DEF Poll, SkipRx, SkipTx, Searching, EndSearch, EndRing
  <1> QED BY <1>1, <1>2, <1>3, <1>4, <1>5, <1>6, <1>7 DEF Next, WorkerStep

\* OnlyOwnSlots: the swaps stay between head and tail, because the loop is
\* limited by the room in both rings.
THEOREM SwapsOwnSlots == Spec => OnlyOwnSlots
  <1> DEFINE Owned ==
        /\ \A i \in RxRings, s \in SlotIds :
               rx[i].buf[s] # rx'[i].buf[s] => s \in Between(rx[i].head, rx[i].tail)
        /\ \A i \in TxRings, s \in SlotIds :
               tx[i].buf[s] # tx'[i].buf[s] => s \in Between(tx[i].head, tx[i].tail)
  <1>1. TypeInv /\ LoopOK /\ [Next]_vars => [Owned]_vars
    <2> SUFFICES ASSUME TypeInv, LoopOK, Next PROVE Owned
      BY DEF vars
    <2>1. CASE AnswerSlot
      <3>1. /\ rxi \in RxRings /\ txi \in TxRings
            /\ rxcur \in SlotIds /\ txcur \in SlotIds
        BY <2>1, CurrentRings DEF AnswerSlot, TypeInv, TypeOK
      <3>2. /\ rxcur \in Between(rx[rxi].head, rx[rxi].tail)
            /\ txcur \in Between(tx[txi].head, tx[txi].tail)
        BY <2>1, LoopAdvances DEF AnswerSlot, TypeInv, RingAdvances
      <3>3. \A i \in RxRings, s \in SlotIds :
              rx[i].buf[s] # rx'[i].buf[s] => i = rxi /\ s = rxcur
        BY <2>1, <3>1, RingFields DEF AnswerSlot, TypeInv, TypeOK
      <3>4. \A i \in TxRings, s \in SlotIds :
              tx[i].buf[s] # tx'[i].buf[s] => i = txi /\ s = txcur
        BY <2>1, <3>1, RingFields DEF AnswerSlot, TypeInv, TypeOK
      <3> QED BY <3>2, <3>3, <3>4
    <2>2. CASE ~AnswerSlot
      BY <2>2, OnlyAnswersSwap DEF TypeInv
    <2> QED BY <2>1, <2>2
  <1>2. Init => LoopOK
    BY DEF Init, LoopOK
  <1> QED BY <1>1, <1>2, InitTypeInv, NextTypeInv, NextLoopOK, PTL
          DEF Spec, OnlyOwnSlots

-----------------------------------------------------------------------------
(* RepliesInOrder. The frames that wait in a receive ring and those queued *)
(* in a transmit ring are numbered from the oldest on; what the wire has   *)
(* got, what is queued and what waits, one after the other, is in order.   *)

\* The slot n steps after s.
SlotAfter(s, n) == IF s + n < R THEN s + n ELSE s + n - R

WaitLen(j)   == Distance(RxCursor(j), rx[j].tail)
Waits(j, n)  == mem[rx[j].buf[SlotAfter(RxCursor(j), n)]]
QueueLen(i)  == Distance(NextSlot(tx[i].tail), TxCursor(i))
Queues(i, n) == mem[tx[i].buf[SlotAfter(NextSlot(tx[i].tail), n)]]

\* f came before g, if they came in one ring.
Older(f, g) == f.from = g.from => f.id < g.id
Known(f) == f.id <= Cardinality(arrived)

WaitOK ==
    \A j \in RxRings : \A n \in 0..(WaitLen(j) - 1) :
        /\ Waits(j, n).from = j /\ Known(Waits(j, n))
        /\ \A m \in 0..(n - 1) : Older(Waits(j, m), Waits(j, n))
OlderThanWaiting(f) ==
    \A j \in RxRings : \A n \in 0..(WaitLen(j) - 1) : Older(f, Waits(j, n))
QueueInOrder ==
    \A i \in TxRings : \A n \in 0..(QueueLen(i) - 1) :
        /\ Known(Queues(i, n)) /\ OlderThanWaiting(Queues(i, n))
        /\ \A m \in 0..(n - 1) : Older(Queues(i, m), Queues(i, n))
WireInOrder ==
    \A i \in TxRings : \A n \in 1..Len(wire[i]) :
        /\ Known(wire[i][n]) /\ OlderThanWaiting(wire[i][n])
        /\ \A m \in 0..(QueueLen(i) - 1) : Older(wire[i][n], Queues(i, m))
        /\ \A m \in 1..(n - 1) : Older(wire[i][m], wire[i][n])
OrderOK ==
    /\ \A f \in arrived : Known(f)
    /\ WaitOK /\ QueueInOrder /\ WireInOrder

LEMMA SlotAfterFacts ==
  ASSUME NEW s \in SlotIds
  PROVE  /\ \A n \in 0..(R - 1) : SlotAfter(s, n) \in SlotIds
         /\ SlotAfter(s, 0) = s
         /\ \A n \in 0..(R - 2) : SlotAfter(NextSlot(s), n) = SlotAfter(s, n + 1)
         /\ \A m, n \in 0..(R - 1) : SlotAfter(s, m) = SlotAfter(s, n) => m = n
         /\ \A t \in SlotIds : SlotAfter(s, Distance(s, t)) = t
  BY RingAssumption DEF SlotAfter, SlotIds, NextSlot, Distance

LEMMA DistanceSteps ==
  ASSUME NEW s \in SlotIds, NEW t \in SlotIds
  PROVE  /\ s # t => /\ Distance(s, t) > 0
                     /\ Distance(NextSlot(s), t) = Distance(s, t) - 1
         /\ NextSlot(t) # s => Distance(s, NextSlot(t)) = Distance(s, t) + 1
         /\ NextSlot(s) = NextSlot(t) => s = t
  BY RingAssumption DEF Distance, SlotIds, NextSlot

\* The cursors are slots, and the two lengths are less than R.
LEMMA ViewTypes ==
  ASSUME TypeOK
  PROVE  /\ \A j \in RxRings : RxCursor(j) \in SlotIds /\ WaitLen(j) \in 0..(R - 1)
         /\ \A i \in TxRings : TxCursor(i) \in SlotIds /\ QueueLen(i) \in 0..(R - 1)
  BY RingFields, DistanceType, NextSlotType
     DEF RxCursor, TxCursor, WaitLen, QueueLen, TypeOK

\* What happens to the frames that wait in ring j, and to those queued in ring i.
WaitsKept(j) ==
    /\ WaitLen(j)' = WaitLen(j)
    /\ \A n \in 0..(WaitLen(j) - 1) : Waits(j, n)' = Waits(j, n)
FirstWaitLeaves(j) ==
    /\ WaitLen(j) > 0 /\ WaitLen(j)' = WaitLen(j) - 1
    /\ \A n \in 0..(WaitLen(j) - 2) : Waits(j, n)' = Waits(j, n + 1)
WaitAdded(j, f) ==
    /\ WaitLen(j)' = WaitLen(j) + 1
    /\ \A n \in {WaitLen(j)} : Waits(j, n)' = f
    /\ \A n \in 0..(WaitLen(j) - 1) : Waits(j, n)' = Waits(j, n)
QueueKept(i) ==
    /\ QueueLen(i)' = QueueLen(i)
    /\ \A n \in 0..(QueueLen(i) - 1) : Queues(i, n)' = Queues(i, n)
FirstQueueLeaves(i) ==
    /\ QueueLen(i) > 0 /\ QueueLen(i)' = QueueLen(i) - 1
    /\ \A n \in 0..(QueueLen(i) - 2) : Queues(i, n)' = Queues(i, n + 1)
QueueAdded(i, f) ==
    /\ QueueLen(i)' = QueueLen(i) + 1
    /\ \A n \in {QueueLen(i)} : Queues(i, n)' = f
    /\ \A n \in 0..(QueueLen(i) - 1) : Queues(i, n)' = Queues(i, n)
HistoryKept == arrived' = arrived /\ wire' = wire

\* The steps that only move cursors the views do not depend on.
LEMMA QuietViews ==
  ASSUME TypeOK, \/ UNCHANGED vars \/ Poll \/ SkipRx \/ SkipTx \/ EndSearch
                 \/ BeginRing \/ EndRing
  PROVE  /\ \A j \in RxRings : WaitsKept(j)
         /\ \A i \in TxRings : QueueKept(i)
         /\ HistoryKept
  <1>1. /\ \A j \in RxRings : rx'[j].buf = rx[j].buf /\ rx'[j].tail = rx[j].tail
        /\ \A i \in TxRings : tx'[i].buf = tx[i].buf /\ tx'[i].tail = tx[i].tail
        /\ mem' = mem /\ HistoryKept
    <2>1. CASE EndRing
      <3>1. rx' = [rx EXCEPT ![rxi].head = rxcur] /\ tx' = [tx EXCEPT ![txi].head = txcur]
        BY <2>1 DEF EndRing
      <3> QED BY <2>1, <3>1 DEF EndRing, HistoryKept, TypeOK, Ring
    <2>2. CASE UNCHANGED vars \/ Poll \/ SkipRx \/ SkipTx \/ EndSearch \/ BeginRing
      BY <2>2 DEF vars, Poll, SkipRx, SkipTx, EndSearch, BeginRing, HistoryKept
    <2> QED BY <2>1, <2>2
  <1>2. /\ \A j \in RxRings : RxCursor(j)' = RxCursor(j)
        /\ \A i \in TxRings : TxCursor(i)' = TxCursor(i)
    <2>1. CASE EndRing
      BY <2>1 DEF EndRing, RxCursor, TxCursor, TypeOK, Ring
    <2>2. CASE BeginRing
      BY <2>2 DEF BeginRing, Searching, RxCursor, TxCursor
    <2>3. CASE UNCHANGED vars \/ Poll \/ SkipRx \/ SkipTx \/ EndSearch
      BY <2>3 DEF vars, Poll, SkipRx, SkipTx, EndSearch, Searching, RxCursor, TxCursor
    <2> QED BY <2>1, <2>2, <2>3
  <1> QED BY <1>1, <1>2 DEF WaitsKept, QueueKept, WaitLen, QueueLen, Waits, Queues

LEMMA TransmitView ==
  ASSUME TypeOK, NEW k \in TxRings, Transmit(k)
  PROVE  /\ \A j \in RxRings : WaitsKept(j)
         /\ \A i \in TxRings \ {k} : QueueKept(i)
         /\ FirstQueueLeaves(k)
         /\ arrived' = arrived
         /\ wire' = [wire EXCEPT ![k] = Append(@, Queues(k, 0))]
  <1>1. /\ pc = "sync" /\ pc' = pc /\ rx' = rx /\ mem' = mem /\ arrived' = arrived
        /\ NextSlot(tx[k].tail) # tx[k].head
        /\ \A i \in TxRings : tx'[i].buf = tx[i].buf /\ tx'[i].head = tx[i].head
        /\ \A i \in TxRings \ {k} : tx'[i].tail = tx[i].tail
        /\ tx'[k].tail = NextSlot(tx[k].tail)
    BY DEF Transmit, TypeOK, Ring
  <1>2. /\ \A j \in RxRings : RxCursor(j) = rx[j].head /\ RxCursor(j)' = rx[j].head
        /\ \A i \in TxRings : TxCursor(i) = tx[i].head /\ TxCursor(i)' = tx[i].head
    BY <1>1 DEF RxCursor, TxCursor
  <1>3. /\ \A j \in RxRings : WaitsKept(j)
        /\ \A i \in TxRings \ {k} : QueueKept(i)
    BY <1>1, <1>2 DEF WaitsKept, QueueKept, WaitLen, QueueLen, Waits, Queues
  <1> DEFINE first == NextSlot(tx[k].tail)
  <1>4. first \in SlotIds /\ tx[k].head \in SlotIds
    BY RingFields, NextSlotType
  <1>5. /\ QueueLen(k) = Distance(first, tx[k].head)
        /\ QueueLen(k)' = Distance(NextSlot(first), tx[k].head)
    BY <1>1, <1>2 DEF QueueLen
  <1>6. QueueLen(k) > 0 /\ QueueLen(k)' = QueueLen(k) - 1 /\ QueueLen(k) \in 0..(R - 1)
    BY <1>1, <1>4, <1>5, DistanceSteps, ViewTypes
  <1>7. ASSUME NEW n \in 0..(QueueLen(k) - 2)
        PROVE  Queues(k, n)' = Queues(k, n + 1)
    <2>1. n \in 0..(R - 2)
      BY <1>6, RingAssumption
    <2>2. SlotAfter(NextSlot(first), n) = SlotAfter(first, n + 1)
      BY <2>1, <1>4, SlotAfterFacts
    <2>3. Queues(k, n)' = mem[tx[k].buf[SlotAfter(NextSlot(first), n)]]
      BY <1>1 DEF Queues
    <2> QED BY <2>2, <2>3 DEF Queues
  <1>8. Queues(k, 0) = mem[tx[k].buf[first]]
    BY <1>4, SlotAfterFacts DEF Queues
  <1> QED BY <1>1, <1>3, <1>6, <1>7, <1>8 DEF FirstQueueLeaves, Transmit

LEMMA ReceiveView ==
  ASSUME TypeOK, BuffersDistinct, NEW k \in RxRings, NEW answers \in BOOLEAN,
         Receive(k, answers)
  PROVE  \E f \in arrived' :
           /\ f.id = Cardinality(arrived) + 1 /\ f.from = k
           /\ arrived' = arrived \cup {f}
           /\ \A j \in RxRings \ {k} : WaitsKept(j)
           /\ WaitAdded(k, f)
           /\ \A i \in TxRings : QueueKept(i)
           /\ wire' = wire
  <1> DEFINE f == [id |-> Cardinality(arrived) + 1, from |-> k,
                   answers |-> answers, replied |-> FALSE]
             new == rx[k].tail
  <1>1. /\ pc = "sync" /\ pc' = pc /\ tx' = tx /\ wire' = wire
        /\ arrived' = arrived \cup {f}
        /\ mem' = [mem EXCEPT ![rx[k].buf[new]] = f]
        /\ NextSlot(new) # rx[k].head
        /\ \A j \in RxRings : rx'[j].buf = rx[j].buf /\ rx'[j].head = rx[j].head
        /\ \A j \in RxRings \ {k} : rx'[j].tail = rx[j].tail
        /\ rx'[k].tail = NextSlot(new)
    BY DEF Receive, TypeOK, Ring
  <1>2. /\ \A j \in RxRings : RxCursor(j) = rx[j].head /\ RxCursor(j)' = rx[j].head
        /\ \A i \in TxRings : TxCursor(i) = tx[i].head /\ TxCursor(i)' = tx[i].head
    BY <1>1 DEF RxCursor, TxCursor
  <1>3. /\ new \in SlotIds /\ rx[k].head \in SlotIds /\ rx[k].buf[new] \in Buffers
        /\ mem \in [Buffers -> Frame]
    BY RingFields DEF TypeOK
  <1>4. /\ \A j \in RxRings, s \in SlotIds :
              j # k \/ s # new => mem'[rx[j].buf[s]] = mem[rx[j].buf[s]]
        /\ \A i \in TxRings, s \in SlotIds : mem'[tx[i].buf[s]] = mem[tx[i].buf[s]]
        /\ mem'[rx[k].buf[new]] = f
    BY <1>1, <1>3, RingFields DEF BuffersDistinct
  <1>5. ASSUME NEW j \in RxRings \ {k} PROVE WaitsKept(j)
    <2>1. \A n \in 0..(WaitLen(j) - 1) : SlotAfter(RxCursor(j), n) \in SlotIds
      BY ViewTypes, SlotAfterFacts, RingAssumption
    <2>2. WaitLen(j)' = WaitLen(j)
      BY <1>1, <1>2 DEF WaitLen
    <2>3. ASSUME NEW n \in 0..(WaitLen(j) - 1) PROVE Waits(j, n)' = Waits(j, n)
      <3>1. SlotAfter(RxCursor(j), n) \in SlotIds
        BY <2>1
      <3>2. mem'[rx[j].buf[SlotAfter(RxCursor(j), n)]]
              = mem[rx[j].buf[SlotAfter(RxCursor(j), n)]]
        BY <1>4, <3>1
      <3>3. Waits(j, n)' = mem'[rx[j].buf[SlotAfter(RxCursor(j), n)]]
        BY <1>1, <1>2 DEF Waits
      <3> QED BY <3>2, <3>3 DEF Waits
    <2> QED BY <2>2, <2>3 DEF WaitsKept
  <1>6. ASSUME NEW i \in TxRings PROVE QueueKept(i)
    <2>1. \A n \in 0..(QueueLen(i) - 1) : SlotAfter(NextSlot(tx[i].tail), n) \in SlotIds
      <3>1. NextSlot(tx[i].tail) \in SlotIds
        BY RingFields, NextSlotType
      <3>2. QueueLen(i) \in 0..(R - 1)
        BY ViewTypes
      <3> QED BY <3>1, <3>2, SlotAfterFacts, RingAssumption
    <2>2. QueueLen(i)' = QueueLen(i)
      BY <1>1, <1>2 DEF QueueLen
    <2>3. ASSUME NEW n \in 0..(QueueLen(i) - 1) PROVE Queues(i, n)' = Queues(i, n)
      <3>1. Queues(i, n)' = mem'[tx[i].buf[SlotAfter(NextSlot(tx[i].tail), n)]]
        BY <1>1 DEF Queues
      <3> QED BY <1>4, <2>1, <3>1 DEF Queues
    <2> QED BY <2>2, <2>3 DEF QueueKept
  <1>7. WaitAdded(k, f)
    <2>1. WaitLen(k) = Distance(rx[k].head, new) /\ WaitLen(k) \in 0..(R - 1)
      BY <1>2, ViewTypes DEF WaitLen
    <2>2. WaitLen(k)' = WaitLen(k) + 1
      BY <1>1, <1>2, <1>3, <2>1, DistanceSteps DEF WaitLen
    <2>3. SlotAfter(rx[k].head, WaitLen(k)) = new
      BY <1>3, <2>1, SlotAfterFacts
    <2>4. \A n \in 0..(WaitLen(k) - 1) :
             SlotAfter(rx[k].head, n) \in SlotIds /\ SlotAfter(rx[k].head, n) # new
      BY <1>3, <2>1, <2>3, SlotAfterFacts, RingAssumption
    <2>5. \A n \in Nat : Waits(k, n)' = mem'[rx[k].buf[SlotAfter(rx[k].head, n)]]
      BY <1>1, <1>2 DEF Waits
    <2>6. \A n \in Nat : Waits(k, n) = mem[rx[k].buf[SlotAfter(rx[k].head, n)]]
      BY <1>2 DEF Waits
    <2> QED BY <1>4, <2>1, <2>2, <2>3, <2>4, <2>5, <2>6, RingAssumption DEF WaitAdded
  <1> HIDE DEF f
  <1>8. f.id = Cardinality(arrived) + 1 /\ f.from = k
    BY DEF f
  <1> QED BY <1>1, <1>5, <1>6, <1>7, <1>8

LEMMA DropView ==
  ASSUME TypeInv, LoopOK, DropSlot
  PROVE  /\ \A j \in RxRings : IF j = rxi THEN FirstWaitLeaves(j) ELSE WaitsKept(j)
         /\ \A i \in TxRings : QueueKept(i)
         /\ HistoryKept
         /\ ~Waits(rxi, 0).answers
  <1>1. /\ pc = "ring" /\ pc' = pc /\ rx' = rx /\ tx' = tx /\ mem' = mem
        /\ rxi' = rxi /\ txi' = txi /\ txcur' = txcur /\ rxcur' = NextSlot(rxcur)
        /\ HistoryKept
    BY DEF DropSlot, HistoryKept
  <1>2. /\ \A j \in RxRings \ {rxi} : RxCursor(j)' = RxCursor(j)
        /\ \A i \in TxRings : TxCursor(i)' = TxCursor(i)
        /\ RxCursor(rxi) = rxcur /\ RxCursor(rxi)' = NextSlot(rxcur)
    BY <1>1 DEF RxCursor, TxCursor
  <1>3. FirstWaitLeaves(rxi)
    <2>1. rxi \in RxRings /\ rxcur \in SlotIds /\ rx[rxi].tail \in SlotIds
      BY <1>1, CurrentRings, RingFields DEF TypeInv, TypeOK
    <2>2. Distance(rxcur, rx[rxi].tail) \in 0..(R - 1) /\ limit \in 0..(R - 1)
      BY <2>1, DistanceType DEF TypeInv, TypeOK
    <2>3. Distance(rxcur, rx[rxi].tail) > 0
      BY <1>1, <2>2, RingAssumption DEF LoopOK, DropSlot
    <2>4. Distance(NextSlot(rxcur), rx[rxi].tail) = Distance(rxcur, rx[rxi].tail) - 1
      BY <2>1, <2>3, DistanceType, DistanceSteps
    <2>5. \A n \in 0..(Distance(rxcur, rx[rxi].tail) - 2) :
             SlotAfter(NextSlot(rxcur), n) = SlotAfter(rxcur, n + 1)
      BY <2>1, <2>2, SlotAfterFacts, RingAssumption
    <2> QED BY <1>1, <1>2, <2>3, <2>4, <2>5 DEF FirstWaitLeaves, WaitLen, Waits
  <1>4. \A j \in RxRings : j = rxi => FirstWaitLeaves(j)
    BY <1>1, <1>3 DEF FirstWaitLeaves, WaitLen, Waits, RxCursor
  <1>5. /\ \A j \in RxRings \ {rxi} : WaitsKept(j)
        /\ \A i \in TxRings : QueueKept(i)
    BY <1>1, <1>2 DEF WaitsKept, QueueKept, WaitLen, QueueLen, Waits, Queues
  <1>6. Waits(rxi, 0) = mem[rx[rxi].buf[rxcur]]
    BY <1>2, SlotAfterFacts DEF Waits, TypeInv, TypeOK
  <1>7. ~Waits(rxi, 0).answers
    BY <1>6 DEF DropSlot
  <1> QED BY <1>1, <1>4, <1>5, <1>7

LEMMA AnswerView ==
  ASSUME TypeInv, LoopOK, BuffersDistinct, AnswerSlot
  PROVE  /\ \A j \in RxRings : IF j = rxi THEN FirstWaitLeaves(j) ELSE WaitsKept(j)
         /\ \E f \in Frame :
               /\ f.id = Waits(rxi, 0).id /\ f.from = Waits(rxi, 0).from
               /\ f.answers /\ f.replied
               /\ \A i \in TxRings : IF i = txi THEN QueueAdded(i, f) ELSE QueueKept(i)
         /\ HistoryKept
  <1> DEFINE received == rx[rxi].buf[rxcur]
             first == NextSlot(tx[txi].tail)
             f == [mem[received] EXCEPT !.replied = TRUE]
  <1>1. /\ pc = "ring" /\ pc' = pc /\ rxi' = rxi /\ txi' = txi
        /\ rxcur' = NextSlot(rxcur) /\ txcur' = NextSlot(txcur)
        /\ limit > 0 /\ HistoryKept
    BY DEF AnswerSlot, HistoryKept
  <1>2. /\ rxi \in RxRings /\ rxcur \in SlotIds /\ rx[rxi].tail \in SlotIds
        /\ txi \in TxRings /\ txcur \in SlotIds /\ tx[txi].tail \in SlotIds
        /\ first \in SlotIds /\ limit \in 0..(R - 1)
    BY <1>1, CurrentRings, RingFields, NextSlotType DEF TypeInv, TypeOK
  <1>3. /\ received \in Buffers /\ mem[received] \in Frame
        /\ mem' = [mem EXCEPT ![received].replied = TRUE]
    BY <1>2, RingFields DEF AnswerSlot, TypeInv, TypeOK
  <1>4. /\ f \in Frame /\ f.id = mem[received].id /\ f.from = mem[received].from
        /\ f.answers /\ f.replied
    BY <1>3 DEF Frame, AnswerSlot
  <1>5. /\ \A j \in RxRings : rx'[j].tail = rx[j].tail /\ rx'[j].head = rx[j].head
        /\ \A j \in RxRings, s \in SlotIds : j # rxi \/ s # rxcur =>
              rx'[j].buf[s] = rx[j].buf[s] /\ mem'[rx[j].buf[s]] = mem[rx[j].buf[s]]
    <2>1. rx' = [rx EXCEPT ![rxi].buf[rxcur] = tx[txi].buf[txcur]]
      BY DEF AnswerSlot
    <2>2. \A j \in RxRings : rx'[j].tail = rx[j].tail /\ rx'[j].head = rx[j].head
      BY <2>1, <1>2 DEF TypeInv, TypeOK, Ring
    <2>3. ASSUME NEW j \in RxRings, NEW s \in SlotIds, j # rxi \/ s # rxcur
          PROVE  rx'[j].buf[s] = rx[j].buf[s] /\ mem'[rx[j].buf[s]] = mem[rx[j].buf[s]]
      <3>1. rx[j].buf[s] # received
        BY <1>2, <2>3 DEF BuffersDistinct
      <3>2. rx[j].buf[s] \in Buffers
        BY RingFields DEF TypeInv
      <3>3. rx'[j].buf[s] = rx[j].buf[s]
        BY <1>2, <2>1, <2>3, RingFields DEF TypeInv, TypeOK
      <3> QED BY <1>3, <3>1, <3>2, <3>3 DEF TypeInv, TypeOK
    <2> QED BY <2>2, <2>3
  <1>6. /\ \A i \in TxRings : tx'[i].tail = tx[i].tail /\ tx'[i].head = tx[i].head
        /\ tx'[txi].buf[txcur] = received /\ mem'[received] = f
        /\ \A i \in TxRings, s \in SlotIds : i # txi \/ s # txcur =>
              tx'[i].buf[s] = tx[i].buf[s] /\ mem'[tx[i].buf[s]] = mem[tx[i].buf[s]]
    <2>1. tx' = [tx EXCEPT ![txi].buf[txcur] = received]
      BY DEF AnswerSlot
    <2>2. /\ \A i \in TxRings : tx'[i].tail = tx[i].tail /\ tx'[i].head = tx[i].head
          /\ tx'[txi].buf[txcur] = received
      BY <2>1, <1>2, RingFields DEF TypeInv, TypeOK, Ring
    <2>3. ASSUME NEW i \in TxRings, NEW s \in SlotIds, i # txi \/ s # txcur
          PROVE  tx'[i].buf[s] = tx[i].buf[s] /\ mem'[tx[i].buf[s]] = mem[tx[i].buf[s]]
      <3>1. tx[i].buf[s] # received
        BY <1>2 DEF BuffersDistinct
      <3>2. tx[i].buf[s] \in Buffers
        BY RingFields DEF TypeInv
      <3>3. tx'[i].buf[s] = tx[i].buf[s]
        BY <1>2, <2>1, <2>3, RingFields DEF TypeInv, TypeOK
      <3> QED BY <1>3, <3>1, <3>2, <3>3 DEF TypeInv, TypeOK
    <2>4. mem'[received] = f
      BY <1>3 DEF TypeInv, TypeOK
    <2> QED BY <2>2, <2>3, <2>4
  <1>7. /\ \A j \in RxRings \ {rxi} : RxCursor(j)' = RxCursor(j)
        /\ \A i \in TxRings \ {txi} : TxCursor(i)' = TxCursor(i)
        /\ RxCursor(rxi) = rxcur /\ RxCursor(rxi)' = NextSlot(rxcur)
        /\ TxCursor(txi) = txcur /\ TxCursor(txi)' = NextSlot(txcur)
    BY <1>1, <1>5, <1>6 DEF RxCursor, TxCursor
  <1> HIDE DEF f, received, first
  <1>8. ASSUME NEW j \in RxRings \ {rxi} PROVE WaitsKept(j)
    <2>1. WaitLen(j)' = WaitLen(j)
      BY <1>5, <1>7 DEF WaitLen
    <2>2. ASSUME NEW n \in 0..(WaitLen(j) - 1) PROVE Waits(j, n)' = Waits(j, n)
      <3>1. SlotAfter(RxCursor(j), n) \in SlotIds
        BY ViewTypes, SlotAfterFacts, RingAssumption DEF TypeInv
      <3>2. Waits(j, n)' = mem'[rx'[j].buf[SlotAfter(RxCursor(j), n)]]
        BY <1>7 DEF Waits
      <3> QED BY <1>5, <3>1, <3>2 DEF Waits
    <2> QED BY <2>1, <2>2 DEF WaitsKept
  <1>9. FirstWaitLeaves(rxi)
    <2>1. WaitLen(rxi) = Distance(rxcur, rx[rxi].tail) /\ WaitLen(rxi) \in 0..(R - 1)
      BY <1>2, <1>7, ViewTypes DEF WaitLen, TypeInv
    <2>2. WaitLen(rxi) > 0
      BY <1>1, <1>2, <2>1, RingAssumption DEF LoopOK
    <2>3. WaitLen(rxi)' = WaitLen(rxi) - 1
      BY <1>1, <1>2, <1>5, <1>7, <2>1, <2>2, DistanceType, DistanceSteps DEF WaitLen
    <2>4. ASSUME NEW n \in 0..(WaitLen(rxi) - 2)
          PROVE  Waits(rxi, n)' = Waits(rxi, n + 1)
      <3>1. n \in 0..(R - 2) /\ n + 1 \in 0..(R - 1) /\ n + 1 # 0 /\ 0 \in 0..(R - 1)
        BY <2>1, RingAssumption
      <3> DEFINE s == SlotAfter(rxcur, n + 1)
      <3>2. s \in SlotIds /\ s # rxcur /\ SlotAfter(NextSlot(rxcur), n) = s
        BY <1>2, <3>1, SlotAfterFacts
      <3>3. Waits(rxi, n)' = mem'[rx'[rxi].buf[s]]
        BY <1>1, <1>7, <3>2 DEF Waits
      <3> QED BY <1>2, <1>5, <1>7, <3>2, <3>3 DEF Waits
    <2> QED BY <2>2, <2>3, <2>4 DEF FirstWaitLeaves
  <1>10. ASSUME NEW i \in TxRings \ {txi} PROVE QueueKept(i)
    <2>1. QueueLen(i)' = QueueLen(i)
      BY <1>6, <1>7 DEF QueueLen
    <2>2. ASSUME NEW n \in 0..(QueueLen(i) - 1) PROVE Queues(i, n)' = Queues(i, n)
      <3>1. NextSlot(tx[i].tail) \in SlotIds /\ QueueLen(i) \in 0..(R - 1)
        BY RingFields, NextSlotType, ViewTypes DEF TypeInv
      <3>2. SlotAfter(NextSlot(tx[i].tail), n) \in SlotIds
        BY <3>1, SlotAfterFacts, RingAssumption
      <3>3. Queues(i, n)' = mem'[tx'[i].buf[SlotAfter(NextSlot(tx[i].tail), n)]]
        BY <1>6 DEF Queues
      <3> QED BY <1>6, <3>2, <3>3 DEF Queues
    <2> QED BY <2>1, <2>2 DEF QueueKept
  <1>11. QueueAdded(txi, f)
    <2>1. QueueLen(txi) = Distance(first, txcur) /\ QueueLen(txi) \in 0..(R - 1)
      BY <1>2, <1>7, ViewTypes DEF QueueLen, TypeInv, first
    <2>2. NextSlot(txcur) # first
      <3>1. Distance(txcur, tx[txi].tail) > 0
        BY <1>1, <1>2, DistanceType, RingAssumption DEF LoopOK
      <3> QED BY <1>2, <3>1, DistanceType, DistanceSteps DEF first
    <2>3. QueueLen(txi)' = QueueLen(txi) + 1
      <3>1. QueueLen(txi)' = Distance(first, NextSlot(txcur))
        BY <1>1, <1>2, <1>6, <1>7 DEF QueueLen, first
      <3> QED BY <1>2, <2>1, <2>2, <3>1, DistanceSteps
    <2>4. \A n \in Nat : /\ Queues(txi, n)' = mem'[tx'[txi].buf[SlotAfter(first, n)]]
                         /\ Queues(txi, n) = mem[tx[txi].buf[SlotAfter(first, n)]]
      BY <1>1, <1>2, <1>6 DEF Queues, first
    <2>5. SlotAfter(first, QueueLen(txi)) = txcur
      BY <1>2, <2>1, SlotAfterFacts
    <2>6. ASSUME NEW n \in 0..(QueueLen(txi) - 1)
          PROVE  SlotAfter(first, n) \in SlotIds /\ SlotAfter(first, n) # txcur
      <3>1. n \in 0..(R - 1) /\ n # QueueLen(txi)
        BY <2>1, RingAssumption
      <3> QED BY <1>2, <2>1, <2>5, <3>1, SlotAfterFacts
    <2>7. \A n \in 0..(QueueLen(txi) - 1) : Queues(txi, n)' = Queues(txi, n)
      BY <1>2, <1>6, <2>4, <2>6
    <2>8. \A n \in {QueueLen(txi)} : Queues(txi, n)' = f
      BY <1>6, <2>1, <2>4, <2>5
    <2> QED BY <2>3, <2>7, <2>8 DEF QueueAdded
  <1>12. Waits(rxi, 0) = mem[received]
    BY <1>2, <1>7, SlotAfterFacts DEF Waits, received
  <1>13. /\ \A j \in RxRings : j = rxi => FirstWaitLeaves(j)
         /\ \A i \in TxRings : i = txi => QueueAdded(i, f)
    BY <1>1, <1>9, <1>11
       DEF FirstWaitLeaves, WaitLen, Waits, RxCursor, QueueAdded, QueueLen, Queues, TxCursor
  <1> QED BY <1>1, <1>4, <1>8, <1>10, <1>12, <1>13

\* OrderOK', from what happened to the views.
LEMMA FramesKept ==
  ASSUME OrderOK, TypeOK, HistoryKept, \A j \in RxRings : WaitsKept(j),
         \A i \in TxRings : QueueKept(i)
  PROVE  OrderOK'
  <1> USE DEF OrderOK, HistoryKept, WaitsKept, QueueKept, Known, Older
  <1>1. WaitOK'
    BY ViewTypes DEF WaitOK
  <1>2. QueueInOrder'
    BY ViewTypes DEF QueueInOrder, OlderThanWaiting
  <1>3. WireInOrder'
    BY ViewTypes DEF WireInOrder, OlderThanWaiting
  <1> QED BY <1>1, <1>2, <1>3


\* What is to be shown of each frame that is queued or sent, after a step.
QueuedInOrder(i, n) ==
    /\ Known(Queues(i, n)) /\ OlderThanWaiting(Queues(i, n))
    /\ \A m \in 0..(n - 1) : Older(Queues(i, m), Queues(i, n))
SentInOrder(i, n) ==
    /\ Known(wire[i][n]) /\ OlderThanWaiting(wire[i][n])
    /\ \A m \in 0..(QueueLen(i) - 1) : Older(wire[i][n], Queues(i, m))
    /\ \A m \in 1..(n - 1) : Older(wire[i][m], wire[i][n])

\* If fewer frames wait than before, what was older than all of them still is.
LEMMA StillOlder ==
  ASSUME NEW g, OlderThanWaiting(g), TypeOK, NEW k \in RxRings,
         \A j \in RxRings : IF j = k THEN FirstWaitLeaves(j) ELSE WaitsKept(j)
  PROVE  OlderThanWaiting(g)'
  BY ViewTypes DEF OlderThanWaiting, FirstWaitLeaves, WaitsKept, Older

\* A frame that leaves a receive ring, unanswered ...
LEMMA FrameDropped ==
  ASSUME OrderOK, TypeOK, HistoryKept, NEW k \in RxRings,
         \A j \in RxRings : IF j = k THEN FirstWaitLeaves(j) ELSE WaitsKept(j),
         \A i \in TxRings : QueueKept(i)
  PROVE  OrderOK'
  <1>1. WaitOK'
    BY ViewTypes DEF OrderOK, HistoryKept, FirstWaitLeaves, WaitsKept, Known, Older, WaitOK
  <1>2. ASSUME NEW i \in TxRings, NEW n \in 0..(QueueLen(i)' - 1)
        PROVE  QueuedInOrder(i, n)'
    <2>1. n \in 0..(QueueLen(i) - 1) /\ \A m \in 0..n : Queues(i, m)' = Queues(i, m)
      BY <1>2, ViewTypes DEF QueueKept
    <2>2. QueuedInOrder(i, n)
      BY <2>1 DEF OrderOK, QueueInOrder, QueuedInOrder
    <2>3. PICK g : g = Queues(i, n)
      OBVIOUS
    <2>4. OlderThanWaiting(g)'
      BY <2>2, <2>3, StillOlder DEF QueuedInOrder
    <2> QED BY <2>1, <2>2, <2>3, <2>4 DEF QueuedInOrder, HistoryKept, Known, OlderThanWaiting
  <1>3. QueueInOrder'
    BY <1>2 DEF QueueInOrder, QueuedInOrder
  <1>4. ASSUME NEW i \in TxRings, NEW n \in 1..Len(wire'[i])
        PROVE  SentInOrder(i, n)'
    <2>1. wire' = wire /\ n \in 1..Len(wire[i])
      BY <1>4 DEF HistoryKept
    <2>2. SentInOrder(i, n)
      BY <2>1 DEF OrderOK, WireInOrder, SentInOrder
    <2>3. PICK g : g = wire[i][n]
      OBVIOUS
    <2>4. OlderThanWaiting(g)'
      BY <2>2, <2>3, StillOlder DEF SentInOrder
    <2>5. \A m \in 0..(QueueLen(i)' - 1) : Older(g, Queues(i, m)')
      BY <2>2, <2>3 DEF SentInOrder, QueueKept
    <2> QED BY <2>1, <2>2, <2>3, <2>4, <2>5
            DEF SentInOrder, HistoryKept, Known, Older, OlderThanWaiting
  <1>5. WireInOrder'
    BY <1>4 DEF WireInOrder, SentInOrder
  <1> QED BY <1>1, <1>3, <1>5 DEF OrderOK, HistoryKept, Known

\* ... or with its reply, which is younger than what is queued already and older than
\* what waits behind it.
LEMMA FrameAnswered ==
  ASSUME OrderOK, TypeOK, HistoryKept, NEW k \in RxRings, NEW l \in TxRings, NEW f,
         f.id = Waits(k, 0).id, f.from = Waits(k, 0).from,
         \A j \in RxRings : IF j = k THEN FirstWaitLeaves(j) ELSE WaitsKept(j),
         \A i \in TxRings : IF i = l THEN QueueAdded(i, f) ELSE QueueKept(i)
  PROVE  OrderOK'
  <1>1. WaitOK'
    BY ViewTypes DEF OrderOK, HistoryKept, FirstWaitLeaves, WaitsKept, Known, Older, WaitOK
  <1>2. 0 \in 0..(WaitLen(k) - 1) /\ WaitLen(k) \in 0..(R - 1)
    BY ViewTypes DEF FirstWaitLeaves
  <1>3. f.from = k /\ Known(f)' /\ OlderThanWaiting(f)'
    <2>1. f.from = k /\ Known(f)
      BY <1>2 DEF OrderOK, WaitOK, Known
    <2>2. ASSUME NEW j \in RxRings, NEW n \in 0..(WaitLen(j)' - 1)
          PROVE  Older(f, Waits(j, n)')
      <3>1. CASE j = k
        <4>1. n + 1 \in 1..(WaitLen(k) - 1) /\ Waits(k, n)' = Waits(k, n + 1)
          BY <1>2, <2>2, <3>1 DEF FirstWaitLeaves
        <4> QED BY <1>2, <3>1, <4>1 DEF OrderOK, WaitOK, Older
      <3>2. CASE j # k
        <4>1. Waits(j, n)'.from = j
          BY <2>2, <3>2 DEF WaitOK, OrderOK, WaitsKept
        <4> QED BY <2>1, <3>2, <4>1 DEF Older
      <3> QED BY <3>1, <3>2
    <2> QED BY <2>1, <2>2 DEF OlderThanWaiting, Known, HistoryKept, Older
  <1>4. ASSUME NEW i \in TxRings, NEW n \in 0..(QueueLen(i)' - 1)
        PROVE  QueuedInOrder(i, n)'
    <2>1. \A m \in 0..(n - 1) : m \in 0..(QueueLen(i) - 1) /\ Queues(i, m)' = Queues(i, m)
      BY <1>4, ViewTypes DEF QueueAdded, QueueKept
    <2>2. CASE n \in 0..(QueueLen(i) - 1) /\ Queues(i, n)' = Queues(i, n)
      <3>1. QueuedInOrder(i, n)
        BY <2>2 DEF OrderOK, QueueInOrder, QueuedInOrder
      <3>2. PICK g : g = Queues(i, n)
        OBVIOUS
      <3>3. OlderThanWaiting(g)'
        BY <3>1, <3>2, StillOlder DEF QueuedInOrder
      <3> QED BY <2>1, <2>2, <3>1, <3>2, <3>3
              DEF QueuedInOrder, HistoryKept, Known, OlderThanWaiting
    <2>3. CASE Queues(i, n)' = f
      <3>1. \A m \in 0..(n - 1) : Older(Queues(i, m)', f)
        BY <1>2, <2>1 DEF OrderOK, QueueInOrder, OlderThanWaiting, Older
      <3> QED BY <1>3, <2>3, <3>1 DEF QueuedInOrder, Known, OlderThanWaiting
    <2>4. \/ n \in 0..(QueueLen(i) - 1) /\ Queues(i, n)' = Queues(i, n)
          \/ Queues(i, n)' = f
      BY <1>4, ViewTypes DEF QueueAdded, QueueKept
    <2> QED BY <2>2, <2>3, <2>4
  <1>5. QueueInOrder'
    BY <1>4 DEF QueueInOrder, QueuedInOrder
  <1>6. ASSUME NEW i \in TxRings, NEW n \in 1..Len(wire'[i])
        PROVE  SentInOrder(i, n)'
    <2>1. wire' = wire /\ n \in 1..Len(wire[i])
      BY <1>6 DEF HistoryKept
    <2>2. SentInOrder(i, n)
      BY <2>1 DEF OrderOK, WireInOrder, SentInOrder
    <2>3. PICK g : g = wire[i][n]
      OBVIOUS
    <2>4. OlderThanWaiting(g)' /\ Older(g, f)
      BY <1>2, <2>2, <2>3, StillOlder DEF SentInOrder, OlderThanWaiting, Older
    <2>5. ASSUME NEW m \in 0..(QueueLen(i)' - 1) PROVE Older(g, Queues(i, m)')
      <3>1. \/ m \in 0..(QueueLen(i) - 1) /\ Queues(i, m)' = Queues(i, m)
            \/ Queues(i, m)' = f
        BY <2>5, ViewTypes DEF QueueAdded, QueueKept
      <3> QED BY <2>2, <2>3, <2>4, <3>1 DEF SentInOrder
    <2> QED BY <2>1, <2>2, <2>3, <2>4, <2>5
            DEF SentInOrder, HistoryKept, Known, Older, OlderThanWaiting
  <1>7. WireInOrder'
    BY <1>6 DEF WireInOrder, SentInOrder
  <1> QED BY <1>1, <1>5, <1>7 DEF OrderOK, HistoryKept, Known

\* The oldest reply goes to the wire.
LEMMA ReplySent ==
  ASSUME OrderOK, TypeOK, arrived' = arrived, NEW k \in TxRings,
         wire' = [wire EXCEPT ![k] = Append(@, Queues(k, 0))],
         \A j \in RxRings : WaitsKept(j),
         \A i \in TxRings : IF i = k THEN FirstQueueLeaves(i) ELSE QueueKept(i)
  PROVE  OrderOK'
  <1>1. WaitOK'
    BY ViewTypes DEF OrderOK, WaitsKept, Known, Older, WaitOK
  <1>2. ASSUME NEW g, OlderThanWaiting(g) PROVE OlderThanWaiting(g)'
    BY <1>2 DEF OlderThanWaiting, WaitsKept, Older
  <1>3. 0 \in 0..(QueueLen(k) - 1) /\ QueueLen(k) \in 0..(R - 1)
    BY ViewTypes DEF FirstQueueLeaves
  \* Where a frame of the queue was before.
  <1>4. ASSUME NEW i \in TxRings
        PROVE  QueueLen(i)' \in Nat /\ \E d \in {0, 1} :
                 /\ i # k => d = 0
                 /\ i = k => d = 1
                 /\ \A n \in 0..(QueueLen(i)' - 1) :
                       n + d \in d..(QueueLen(i) - 1) /\ Queues(i, n)' = Queues(i, n + d)
    <2>1. CASE i = k
      BY <1>3, <2>1 DEF FirstQueueLeaves
    <2>2. CASE i # k
      BY <2>2, ViewTypes DEF QueueKept
    <2> QED BY <2>1, <2>2
  <1>5. ASSUME NEW i \in TxRings, NEW n \in 0..(QueueLen(i)' - 1)
        PROVE  QueuedInOrder(i, n)'
    <2>1. PICK d \in {0, 1} : \A m \in 0..(QueueLen(i)' - 1) :
            m + d \in d..(QueueLen(i) - 1) /\ Queues(i, m)' = Queues(i, m + d)
      BY <1>4
    <2>2. n + d \in 0..(QueueLen(i) - 1) /\ Queues(i, n)' = Queues(i, n + d)
      BY <1>5, <2>1
    <2>3. QueuedInOrder(i, n + d)
      BY <2>2 DEF OrderOK, QueueInOrder, QueuedInOrder
    <2>4. PICK g : g = Queues(i, n + d)
      OBVIOUS
    <2>5. OlderThanWaiting(g)'
      BY <1>2, <2>3, <2>4 DEF QueuedInOrder
    <2>6. ASSUME NEW m \in 0..(n - 1) PROVE Older(Queues(i, m)', g)
      <3>1. QueueLen(i)' \in Nat
        BY <1>4
      <3>2. m \in 0..(QueueLen(i)' - 1) /\ m + d \in 0..(n + d - 1)
        BY <1>5, <2>6, <3>1
      <3> QED BY <2>1, <2>3, <2>4, <3>2 DEF QueuedInOrder
    <2> QED BY <2>2, <2>3, <2>4, <2>5, <2>6 DEF QueuedInOrder, Known, OlderThanWaiting, Older
  <1>6. QueueInOrder'
    BY <1>5 DEF QueueInOrder, QueuedInOrder
  <1>7. ASSUME NEW i \in TxRings, NEW n \in 1..Len(wire'[i])
        PROVE  /\ \A m \in 1..(n - 1) :
                     m \in 1..Len(wire[i]) /\ wire'[i][m] = wire[i][m]
               /\ \/ n \in 1..Len(wire[i]) /\ wire'[i][n] = wire[i][n]
                  \/ i = k /\ n = Len(wire[i]) + 1 /\ wire'[i][n] = Queues(k, 0)
    BY <1>7 DEF TypeOK
  <1>8. ASSUME NEW i \in TxRings, NEW n \in 1..Len(wire'[i])
        PROVE  SentInOrder(i, n)'
    <2>1. CASE n \in 1..Len(wire[i]) /\ wire'[i][n] = wire[i][n]
      <3>1. SentInOrder(i, n)
        BY <2>1 DEF OrderOK, WireInOrder, SentInOrder
      <3>2. PICK g : g = wire[i][n]
        OBVIOUS
      <3>3. OlderThanWaiting(g)'
        BY <1>2, <3>1, <3>2 DEF SentInOrder
      <3>4. ASSUME NEW m \in 0..(QueueLen(i)' - 1) PROVE Older(g, Queues(i, m)')
        <4>1. PICK d \in {0, 1} :
                m + d \in d..(QueueLen(i) - 1) /\ Queues(i, m)' = Queues(i, m + d)
          BY <1>4, <3>4
        <4> QED BY <3>1, <3>2, <4>1 DEF SentInOrder
      <3> QED BY <1>7, <2>1, <3>1, <3>2, <3>3, <3>4
              DEF SentInOrder, Known, Older, OlderThanWaiting
    <2>2. CASE i = k /\ n = Len(wire[i]) + 1 /\ wire'[i][n] = Queues(k, 0)
      <3>1. QueuedInOrder(k, 0)
        BY <1>3 DEF OrderOK, QueueInOrder, QueuedInOrder
      <3>2. PICK g : g = Queues(k, 0)
        OBVIOUS
      <3>3. OlderThanWaiting(g)'
        BY <1>2, <3>1, <3>2 DEF QueuedInOrder
      <3>4. ASSUME NEW m \in 0..(QueueLen(i)' - 1) PROVE Older(g, Queues(i, m)')
        <4>1. m + 1 \in 1..(QueueLen(k) - 1) /\ Queues(i, m)' = Queues(k, m + 1)
          BY <1>4, <2>2, <3>4
        <4> QED BY <1>3, <3>2, <4>1 DEF OrderOK, QueueInOrder
      <3>5. \A m \in 1..(n - 1) : Older(wire'[i][m], g)
        BY <1>3, <1>7, <2>2, <3>2 DEF OrderOK, WireInOrder
      <3> QED BY <2>2, <3>1, <3>2, <3>3, <3>4, <3>5
              DEF QueuedInOrder, SentInOrder, Known, Older, OlderThanWaiting
    <2> QED BY <1>7, <2>1, <2>2
  <1>9. WireInOrder'
    BY <1>8 DEF WireInOrder, SentInOrder
  <1> QED BY <1>1, <1>6, <1>9 DEF OrderOK, Known

\* A frame that comes in has the highest number so far.
LEMMA FrameReceived ==
  ASSUME OrderOK, TypeOK, IsFiniteSet(arrived), NEW k \in RxRings, NEW f,
         f.id = Cardinality(arrived) + 1, f.from = k, arrived' = arrived \cup {f},
         \A j \in RxRings : IF j = k THEN WaitAdded(j, f) ELSE WaitsKept(j),
         \A i \in TxRings : QueueKept(i), wire' = wire
  PROVE  OrderOK'
  <1>1. Cardinality(arrived) \in Nat
    BY FS_CardinalityType
  <1>2. f \notin arrived
    BY <1>1 DEF OrderOK, Known
  <1>3. Cardinality(arrived') = Cardinality(arrived) + 1
    BY <1>2, FS_AddElement
  <1>4. ASSUME NEW g, g.id \in Nat, Known(g)
        PROVE  Known(g)' /\ Older(g, f)
    BY <1>1, <1>3, <1>4 DEF Known, Older
  <1>5. ASSUME NEW j \in RxRings, NEW n \in 0..(WaitLen(j)' - 1)
        PROVE  /\ \A m \in 0..(n - 1) :
                     m \in 0..(WaitLen(j) - 1) /\ Waits(j, m)' = Waits(j, m)
               /\ \/ n \in 0..(WaitLen(j) - 1) /\ Waits(j, n)' = Waits(j, n)
                  \/ j = k /\ Waits(j, n)' = f
    BY <1>5, ViewTypes DEF WaitAdded, WaitsKept
  <1>6. /\ \A j \in RxRings : \A n \in 0..(WaitLen(j) - 1) : Waits(j, n) \in Frame
        /\ \A i \in TxRings : \A n \in 0..(QueueLen(i) - 1) : Queues(i, n) \in Frame
        /\ \A i \in TxRings : \A n \in 1..Len(wire[i]) : wire[i][n] \in Frame
    <2>1. ASSUME NEW j \in RxRings, NEW n \in 0..(WaitLen(j) - 1)
          PROVE  Waits(j, n) \in Frame
      <3>1. SlotAfter(RxCursor(j), n) \in SlotIds
        BY <2>1, ViewTypes, SlotAfterFacts, RingAssumption
      <3> QED BY <3>1, RingFields DEF Waits, TypeOK
    <2>2. ASSUME NEW i \in TxRings, NEW n \in 0..(QueueLen(i) - 1)
          PROVE  Queues(i, n) \in Frame
      <3>1. NextSlot(tx[i].tail) \in SlotIds /\ QueueLen(i) \in 0..(R - 1)
        BY RingFields, NextSlotType, ViewTypes
      <3>2. SlotAfter(NextSlot(tx[i].tail), n) \in SlotIds
        BY <2>2, <3>1, SlotAfterFacts, RingAssumption
      <3> QED BY <3>2, RingFields DEF Queues, TypeOK
    <2> QED BY <2>1, <2>2 DEF TypeOK
  <1>7. ASSUME NEW g \in Frame, Known(g), OlderThanWaiting(g)
        PROVE  Known(g)' /\ OlderThanWaiting(g)'
    <2>1. Known(g)' /\ Older(g, f)
      BY <1>4, <1>7 DEF Frame
    <2> QED BY <1>5, <1>7, <2>1 DEF OlderThanWaiting, Older
  <1>8. WaitOK'
    <2> SUFFICES ASSUME NEW j \in RxRings, NEW n \in 0..(WaitLen(j)' - 1)
                 PROVE  /\ Waits(j, n)'.from = j /\ Known(Waits(j, n))'
                        /\ \A m \in 0..(n - 1) : Older(Waits(j, m)', Waits(j, n)')
      BY DEF WaitOK, Older
    <2>1. CASE n \in 0..(WaitLen(j) - 1) /\ Waits(j, n)' = Waits(j, n)
      <3>1. Waits(j, n) \in Frame /\ Known(Waits(j, n)) /\ Waits(j, n).from = j
        BY <1>6, <2>1 DEF OrderOK, WaitOK
      <3>2. Waits(j, n).id <= Cardinality(arrived')
        BY <1>1, <1>3, <3>1 DEF Known, Frame
      <3> QED BY <1>5, <2>1, <3>1, <3>2 DEF OrderOK, WaitOK, Known
    <2>2. CASE j = k /\ Waits(j, n)' = f
      <3>1. \A m \in 0..(n - 1) : Waits(j, m) \in Frame /\ Known(Waits(j, m))
        BY <1>5, <1>6 DEF OrderOK, WaitOK
      <3> QED BY <1>1, <1>3, <1>5, <2>2, <3>1 DEF Known, Older, Frame
    <2> QED BY <1>5, <2>1, <2>2
  <1>9. ASSUME NEW i \in TxRings, NEW n \in 0..(QueueLen(i)' - 1)
        PROVE  QueuedInOrder(i, n)'
    <2>1. n \in 0..(QueueLen(i) - 1) /\ \A m \in 0..n : Queues(i, m)' = Queues(i, m)
      BY <1>9, ViewTypes DEF QueueKept
    <2>2. QueuedInOrder(i, n) /\ Queues(i, n) \in Frame
      BY <1>6, <2>1 DEF OrderOK, QueueInOrder, QueuedInOrder
    <2>3. PICK g \in Frame : g = Queues(i, n)
      BY <2>2
    <2>4. Known(g)' /\ OlderThanWaiting(g)'
      BY <1>7, <2>2, <2>3 DEF QueuedInOrder
    <2> QED BY <2>1, <2>2, <2>3, <2>4 DEF QueuedInOrder, Known, OlderThanWaiting
  <1>10. QueueInOrder'
    BY <1>9 DEF QueueInOrder, QueuedInOrder
  <1>11. ASSUME NEW i \in TxRings, NEW n \in 1..Len(wire'[i])
         PROVE  SentInOrder(i, n)'
    <2>1. SentInOrder(i, n) /\ wire[i][n] \in Frame
      BY <1>6, <1>11 DEF OrderOK, WireInOrder, SentInOrder
    <2>2. PICK g \in Frame : g = wire[i][n]
      BY <2>1
    <2>3. Known(g)' /\ OlderThanWaiting(g)'
      BY <1>7, <2>1, <2>2 DEF SentInOrder
    <2>4. \A m \in 0..(QueueLen(i)' - 1) : Older(g, Queues(i, m)')
      BY <2>1, <2>2 DEF SentInOrder, QueueKept
    <2> QED BY <2>1, <2>2, <2>3, <2>4 DEF SentInOrder, Known, Older, OlderThanWaiting
  <1>12. WireInOrder'
    BY <1>11 DEF WireInOrder, SentInOrder
  <1>13. \A g \in arrived' : Known(g)'
    BY <1>1, <1>3 DEF OrderOK, Known, TypeOK, Frame
  <1> QED BY <1>8, <1>10, <1>12, <1>13 DEF OrderOK

LEMMA InitOrderOK == Init => OrderOK
  <1> SUFFICES ASSUME Init PROVE OrderOK
    OBVIOUS
  <1>1. \A j \in RxRings : WaitLen(j) = 0
    BY RingAssumption DEF Init, WaitLen, RxCursor, Distance
  <1>2. \A i \in TxRings : QueueLen(i) = 0 /\ wire[i] = << >>
    BY RingAssumption DEF Init, QueueLen, TxCursor, NextSlot, Distance
  <1> QED BY <1>1, <1>2 DEF Init, OrderOK, WaitOK, QueueInOrder, WireInOrder

LEMMA NextOrderOK ==
  TypeInv /\ LoopOK /\ BuffersDistinct /\ OrderOK /\ [Next]_vars => OrderOK'
  <1> SUFFICES ASSUME TypeInv, LoopOK, BuffersDistinct, OrderOK, [Next]_vars
               PROVE  OrderOK'
    OBVIOUS
  <1>1. TypeOK /\ IsFiniteSet(arrived)
    BY DEF TypeInv
  <1>2. CASE \/ UNCHANGED vars \/ Poll \/ SkipRx \/ SkipTx \/ EndSearch
             \/ BeginRing \/ EndRing
    BY <1>1, <1>2, QuietViews, FramesKept
  <1>3. ASSUME NEW k \in RxRings, NEW answers \in BOOLEAN, Receive(k, answers)
        PROVE  OrderOK'
    <2>1. PICK f \in arrived' :
            /\ f.id = Cardinality(arrived) + 1 /\ f.from = k
            /\ arrived' = arrived \cup {f}
            /\ \A j \in RxRings \ {k} : WaitsKept(j)
            /\ WaitAdded(k, f)
            /\ \A i \in TxRings : QueueKept(i)
            /\ wire' = wire
      BY <1>1, <1>3, ReceiveView
    <2>2. \A j \in RxRings : IF j = k THEN WaitAdded(j, f) ELSE WaitsKept(j)
      BY <2>1
    <2> QED BY <1>1, <2>1, <2>2, FrameReceived
  <1>4. ASSUME NEW k \in TxRings, Transmit(k)
        PROVE  OrderOK'
    <2>1. /\ \A j \in RxRings : WaitsKept(j)
          /\ \A i \in TxRings \ {k} : QueueKept(i)
          /\ FirstQueueLeaves(k)
          /\ arrived' = arrived
          /\ wire' = [wire EXCEPT ![k] = Append(@, Queues(k, 0))]
      BY <1>1, <1>4, TransmitView
    <2>2. \A i \in TxRings : IF i = k THEN FirstQueueLeaves(i) ELSE QueueKept(i)
      BY <2>1
    <2> QED BY <1>1, <2>1, <2>2, ReplySent
  <1>5. CASE DropSlot
    <2>1. /\ \A j \in RxRings : IF j = rxi THEN FirstWaitLeaves(j) ELSE WaitsKept(j)
          /\ \A i \in TxRings : QueueKept(i)
          /\ HistoryKept
      BY <1>5, DropView
    <2>2. PICK k \in RxRings : k = rxi
      BY <1>1, <1>5, CurrentRings DEF DropSlot
    <2>3. \A j \in RxRings : IF j = k THEN FirstWaitLeaves(j) ELSE WaitsKept(j)
      BY <2>1, <2>2
    <2> QED BY <1>1, <2>1, <2>3, FrameDropped
  <1>6. CASE AnswerSlot
    <2>1. /\ \A j \in RxRings : IF j = rxi THEN FirstWaitLeaves(j) ELSE WaitsKept(j)
          /\ HistoryKept
      BY <1>6, AnswerView
    <2>2. PICK f \in Frame :
            /\ f.id = Waits(rxi, 0).id /\ f.from = Waits(rxi, 0).from
            /\ \A i \in TxRings : IF i = txi THEN QueueAdded(i, f) ELSE QueueKept(i)
      BY <1>6, AnswerView
    <2>3. PICK k \in RxRings, l \in TxRings : k = rxi /\ l = txi
      BY <1>1, <1>6, CurrentRings DEF AnswerSlot
    <2>4. /\ \A j \in RxRings : IF j = k THEN FirstWaitLeaves(j) ELSE WaitsKept(j)
          /\ \A i \in TxRings : IF i = l THEN QueueAdded(i, f) ELSE QueueKept(i)
          /\ f.id = Waits(k, 0).id /\ f.from = Waits(k, 0).from
      BY <2>1, <2>2, <2>3
    <2> QED BY <1>1, <2>1, <2>4, FrameAnswered
  <1> QED BY <1>2, <1>3, <1>4, <1>5, <1>6 DEF Next, WorkerStep

\* RepliesInOrder, for any rings: receive rings are read and transmit rings filled from
\* the oldest slot on (ProcessRing), so no reply overtakes another one of its ring.
THEOREM RepliesStayInOrder == Spec => []RepliesInOrder
  <1>1. Init => LoopOK
    BY DEF Init, LoopOK
  <1>2. Spec => [](TypeInv /\ LoopOK)
    BY <1>1, InitTypeInv, NextTypeInv, NextLoopOK, PTL DEF Spec
  <1>3. Spec => []OrderOK
    BY <1>2, InitOrderOK, BuffersStayDistinct, NextOrderOK, PTL DEF Spec
  <1>4. TypeInv /\ OrderOK => RepliesInOrder
    <2> SUFFICES ASSUME TypeInv, OrderOK,
                        NEW i \in TxRings, NEW m \in 1..Len(wire[i]),
                        NEW n \in 1..Len(wire[i]),
                        m < n, wire[i][m].from = wire[i][n].from
                 PROVE  wire[i][m].id < wire[i][n].id
      BY DEF RepliesInOrder
    <2>1. m \in 1..(n - 1)
      BY DEF TypeInv, TypeOK
    <2> QED BY <2>1 DEF OrderOK, WireInOrder, Older
  <1> QED BY <1>2, <1>3, <1>4, PTL
-----------------------------------------------------------------------------
(* OneReplyEach. The rings and the wires are taken for lists of frames'    *)
(* numbers. A step takes a number off the front of a list, or puts one at  *)
(* the end of one, or both, and no number is ever in two places.           *)

Lists == {"rx"} \X RxRings \cup {"tx", "wire"} \X TxRings
ListOf(l) ==
    CASE l[1] = "rx"   -> [n \in 1..WaitLen(l[2]) |-> Waits(l[2], n - 1).id]
      [] l[1] = "tx"   -> [n \in 1..QueueLen(l[2]) |-> Queues(l[2], n - 1).id]
      [] l[1] = "wire" -> [n \in 1..Len(wire[l[2]]) |-> wire[l[2]][n].id]
lists == [l \in Lists |-> ListOf(l)]

Distinct(ls) ==
    \A k, l \in Lists : \A m \in 1..Len(ls[k]), n \in 1..Len(ls[l]) :
        ls[k][m] = ls[l][n] => k = l /\ m = n
IsIn(id, ls) == \E l \in Lists : \E n \in 1..Len(ls[l]) : ls[l][n] = id

IsReply(f) == f.answers /\ f.replied /\ f.id # 0

\* Frames have numbers of their own, wait as they came, and are replies later.
FramesOK ==
    /\ \A f \in arrived : f.id # 0
    /\ \A f, g \in arrived : f.id = g.id => f = g
    /\ \A j \in RxRings : \A n \in 0..(WaitLen(j) - 1) : Waits(j, n) \in arrived
    /\ \A i \in TxRings : \A n \in 0..(QueueLen(i) - 1) : IsReply(Queues(i, n))
    /\ \A i \in TxRings : \A n \in 1..Len(wire[i]) : IsReply(wire[i][n])

\* Every number is in one place at most, and that of a frame to be answered in one.
ListsOK ==
    /\ Distinct(lists)
    /\ \A f \in arrived : f.answers => IsIn(f.id, lists)

\* What happens to a list.
Finite(ls) == \A l \in Lists : Len(ls[l]) \in Nat
ListKept(ls, new, l) ==
    Len(new[l]) = Len(ls[l]) /\ \A n \in 1..Len(ls[l]) : new[l][n] = ls[l][n]
FrontLeaves(ls, new, l) ==
    /\ Len(ls[l]) > 0 /\ Len(new[l]) = Len(ls[l]) - 1
    /\ \A n \in 1..Len(new[l]) : new[l][n] = ls[l][n + 1]
EndGets(ls, new, l, id) ==
    /\ Len(new[l]) = Len(ls[l]) + 1 /\ new[l][Len(ls[l]) + 1] = id
    /\ \A n \in 1..Len(ls[l]) : new[l][n] = ls[l][n]

\* Number id is the n-th of list l.
IsAt(id, ls, l, n) == l \in Lists /\ n \in 1..Len(ls[l]) /\ ls[l][n] = id

LEMMA PlacesDiffer ==
  ASSUME NEW ls, Distinct(ls), NEW id, NEW k, NEW l, NEW m, NEW n,
         IsAt(id, ls, k, m), IsAt(id, ls, l, n)
  PROVE  k = l /\ m = n
  BY DEF Distinct, IsAt

LEMMA NumberDropped ==
  ASSUME NEW ls, NEW new, NEW a \in Lists, Finite(ls), Finite(new), Distinct(ls),
         \A l \in Lists : IF l = a THEN FrontLeaves(ls, new, l) ELSE ListKept(ls, new, l)
  PROVE  /\ Distinct(new) /\ ~IsIn(ls[a][1], new)
         /\ \A id : IsIn(id, ls) => id = ls[a][1] \/ IsIn(id, new)
  <1> DEFINE d(l) == IF l = a THEN 1 ELSE 0
             Shifted(l) ==
               /\ Len(ls[l]) \in Nat /\ Len(new[l]) \in Nat
               /\ Len(new[l]) = Len(ls[l]) - d(l)
               /\ \A n \in 1..Len(new[l]) : new[l][n] = ls[l][n + d(l)]
  <1>1. d(a) = 1 /\ \A l \in Lists : d(l) \in {0, 1} /\ (l # a => d(l) = 0)
    OBVIOUS
  <1>2. ASSUME NEW l \in Lists PROVE Shifted(l)
    <2>1. CASE l = a
      BY <2>1 DEF FrontLeaves, Finite
    <2>2. CASE l # a
      BY <2>2 DEF ListKept, Finite
    <2> QED BY <2>1, <2>2
  <1>3. 1 \in 1..Len(ls[a])
    BY DEF FrontLeaves, Finite
  <1> HIDE DEF d
  <1>4. ASSUME NEW l \in Lists, NEW n \in 1..Len(new[l])
        PROVE  n + d(l) \in 1..Len(ls[l]) /\ new[l][n] = ls[l][n + d(l)]
    BY <1>1, <1>2
  <1>5. Distinct(new)
    <2> SUFFICES ASSUME NEW k \in Lists, NEW l \in Lists, NEW m \in 1..Len(new[k]),
                        NEW n \in 1..Len(new[l]), new[k][m] = new[l][n]
                 PROVE  k = l /\ m = n
      BY DEF Distinct
    <2>1. PICK id, x, y : id = new[k][m] /\ x = m + d(k) /\ y = n + d(l)
      OBVIOUS
    <2>2. IsAt(id, ls, k, x) /\ IsAt(id, ls, l, y)
      BY <1>4, <2>1 DEF IsAt
    <2>3. k = l /\ x = y
      BY <2>2, PlacesDiffer
    <2> QED BY <1>1, <2>1, <2>3
  <1>6. ASSUME IsIn(ls[a][1], new) PROVE FALSE
    <2>1. PICK l \in Lists : \E n \in 1..Len(new[l]) : new[l][n] = ls[a][1]
      BY <1>6 DEF IsIn
    <2>2. PICK n \in 1..Len(new[l]) : new[l][n] = ls[a][1]
      BY <2>1
    <2>3. l = a /\ n + d(l) = 1
      BY <1>3, <1>4, <2>2 DEF Distinct
    <2> QED BY <1>1, <2>2, <2>3
  <1>7. ASSUME NEW id, IsIn(id, ls), id # ls[a][1] PROVE IsIn(id, new)
    <2>1. PICK l \in Lists : \E n \in 1..Len(ls[l]) : ls[l][n] = id
      BY <1>7 DEF IsIn
    <2>2. PICK n \in 1..Len(ls[l]) : ls[l][n] = id
      BY <2>1
    <2>3. l = a => n # 1
      BY <1>7, <2>2
    <2>4. n - d(l) \in 1..Len(new[l]) /\ (n - d(l)) + d(l) = n
      BY <1>1, <1>2, <2>2, <2>3
    <2>5. new[l][n - d(l)] = id
      BY <1>4, <2>2, <2>4
    <2> QED BY <2>4, <2>5 DEF IsIn
  <1> QED BY <1>5, <1>6, <1>7

LEMMA NumberAdded ==
  ASSUME NEW ls, NEW new, NEW b \in Lists, NEW f, Finite(ls), Finite(new),
         \A l \in Lists : IF l = b THEN EndGets(ls, new, l, f) ELSE ListKept(ls, new, l),
         Distinct(ls), ~IsIn(f, ls)
  PROVE  Distinct(new) /\ \A id : IsIn(id, ls) \/ id = f => IsIn(id, new)
  <1> DEFINE Last(l, n) == l = b /\ n = Len(ls[b]) + 1 /\ new[l][n] = f
             Old(l, n) == n \in 1..Len(ls[l]) /\ new[l][n] = ls[l][n]
  <1>1. ASSUME NEW l \in Lists, NEW n \in 1..Len(new[l])
        PROVE  Last(l, n) \/ Old(l, n)
    <2>1. CASE l = b
      BY <2>1 DEF EndGets, Finite
    <2>2. CASE l # b
      BY <2>2 DEF ListKept, Finite
    <2> QED BY <2>1, <2>2
  <1>2. ASSUME NEW l \in Lists, NEW n \in 1..Len(ls[l])
        PROVE  n \in 1..Len(new[l]) /\ new[l][n] = ls[l][n]
    <2>1. CASE l = b
      BY <2>1 DEF EndGets, Finite
    <2>2. CASE l # b
      BY <2>2 DEF ListKept, Finite
    <2> QED BY <2>1, <2>2
  <1>3. Len(ls[b]) + 1 \in 1..Len(new[b]) /\ new[b][Len(ls[b]) + 1] = f
    BY DEF EndGets, Finite
  <1>4. Distinct(new)
    <2> SUFFICES ASSUME NEW k \in Lists, NEW l \in Lists, NEW m \in 1..Len(new[k]),
                        NEW n \in 1..Len(new[l]), new[k][m] = new[l][n]
                 PROVE  k = l /\ m = n
      BY DEF Distinct
    <2>1. CASE Last(k, m) /\ Last(l, n)
      BY <2>1
    <2>2. CASE Old(k, m) /\ Old(l, n)
      <3>1. PICK id : id = new[k][m]
        OBVIOUS
      <3>2. IsAt(id, ls, k, m) /\ IsAt(id, ls, l, n)
        BY <2>2, <3>1 DEF IsAt
      <3> QED BY <3>2, PlacesDiffer
    <2>3. CASE Last(k, m) /\ Old(l, n)
      BY <2>3 DEF IsIn
    <2>4. CASE Old(k, m) /\ Last(l, n)
      BY <2>4 DEF IsIn
    <2> HIDE DEF Last, Old
    <2> QED BY <1>1, <2>1, <2>2, <2>3, <2>4
  <1>5. ASSUME NEW id, IsIn(id, ls) PROVE IsIn(id, new)
    BY <1>2, <1>5 DEF IsIn
  <1>6. IsIn(f, new)
    BY <1>3 DEF IsIn
  <1> QED BY <1>4, <1>5, <1>6

\* From the front of one list to the end of another.
LEMMA NumberMoved ==
  ASSUME NEW ls, NEW new, NEW a \in Lists, NEW b \in Lists, a # b,
         Finite(ls), Finite(new), Distinct(ls), FrontLeaves(ls, new, a),
         \A l \in Lists \ {a} :
            IF l = b THEN EndGets(ls, new, l, ls[a][1]) ELSE ListKept(ls, new, l)
  PROVE  Distinct(new) /\ \A id : IsIn(id, ls) => IsIn(id, new)
  <1>1. PICK mid : mid = [l \in Lists |-> IF l = a THEN new[l] ELSE ls[l]]
    OBVIOUS
  <1>2. mid[a] = new[a] /\ \A l \in Lists \ {a} : mid[l] = ls[l]
    BY <1>1
  <1>3. Finite(mid)
    BY <1>2 DEF Finite
  <1>4. \A l \in Lists : IF l = a THEN FrontLeaves(ls, mid, l) ELSE ListKept(ls, mid, l)
    BY <1>2 DEF FrontLeaves, ListKept
  <1>5. /\ Distinct(mid) /\ ~IsIn(ls[a][1], mid)
        /\ \A id : IsIn(id, ls) => id = ls[a][1] \/ IsIn(id, mid)
    BY <1>3, <1>4, NumberDropped
  <1>6. ASSUME NEW l \in Lists
        PROVE  IF l = b THEN EndGets(mid, new, l, ls[a][1]) ELSE ListKept(mid, new, l)
    BY <1>2 DEF EndGets, ListKept
  <1>7. Distinct(new) /\ \A id : IsIn(id, mid) \/ id = ls[a][1] => IsIn(id, new)
    BY <1>3, <1>5, <1>6, NumberAdded
  <1> QED BY <1>5, <1>7

-----------------------------------------------------------------------------
\* The lists of the three kinds.
ListsFit ==
    /\ Finite(lists)
    /\ \A j \in RxRings :
          /\ <<"rx", j>> \in Lists /\ Len(lists[<<"rx", j>>]) = WaitLen(j)
          /\ \A n \in 0..(WaitLen(j) - 1) :
                lists[<<"rx", j>>][n + 1] = Waits(j, n).id
    /\ \A i \in TxRings :
          /\ <<"tx", i>> \in Lists /\ Len(lists[<<"tx", i>>]) = QueueLen(i)
          /\ \A n \in 0..(QueueLen(i) - 1) :
                lists[<<"tx", i>>][n + 1] = Queues(i, n).id
          /\ <<"wire", i>> \in Lists /\ Len(lists[<<"wire", i>>]) = Len(wire[i])
          /\ \A n \in 1..Len(wire[i]) : lists[<<"wire", i>>][n] = wire[i][n].id

LEMMA ListsAreRings == TypeOK => ListsFit
  <1> SUFFICES ASSUME TypeOK PROVE ListsFit
    OBVIOUS
  <1>1. /\ \A j \in RxRings : WaitLen(j) \in Nat
        /\ \A i \in TxRings : QueueLen(i) \in Nat /\ Len(wire[i]) \in Nat
    BY ViewTypes, RingAssumption DEF TypeOK
  <1>2. ASSUME NEW j \in RxRings
        PROVE  /\ <<"rx", j>> \in Lists
               /\ lists[<<"rx", j>>] = [n \in 1..WaitLen(j) |-> Waits(j, n - 1).id]
    BY DEF lists, Lists, ListOf
  <1>3. ASSUME NEW i \in TxRings
        PROVE  /\ <<"tx", i>> \in Lists
               /\ lists[<<"tx", i>>] = [n \in 1..QueueLen(i) |-> Queues(i, n - 1).id]
    BY DEF lists, Lists, ListOf
  <1>4. ASSUME NEW i \in TxRings
        PROVE  /\ <<"wire", i>> \in Lists
               /\ lists[<<"wire", i>>] = [n \in 1..Len(wire[i]) |-> wire[i][n].id]
    BY DEF lists, Lists, ListOf
  <1>5. ASSUME NEW len \in Nat, NEW f, NEW s, f = [n \in 1..len |-> f[n]], s = f
        PROVE  Len(s) = len /\ \A n \in 1..len : s[n] = f[n]
    BY <1>5
  <1>6. ASSUME NEW j \in RxRings
        PROVE  /\ Len(lists[<<"rx", j>>]) = WaitLen(j)
               /\ \A n \in 0..(WaitLen(j) - 1) :
                     lists[<<"rx", j>>][n + 1] = Waits(j, n).id
    <2>1. PICK f : f = [n \in 1..WaitLen(j) |-> Waits(j, n - 1).id]
      OBVIOUS
    <2>2. f = [n \in 1..WaitLen(j) |-> f[n]]
      BY <2>1
    <2>3. lists[<<"rx", j>>] = f /\ WaitLen(j) \in Nat
      BY <1>1, <1>2, <2>1
    <2>4. /\ Len(lists[<<"rx", j>>]) = WaitLen(j)
          /\ \A n \in 1..WaitLen(j) : lists[<<"rx", j>>][n] = f[n]
      BY <1>5, <2>2, <2>3
    <2>5. ASSUME NEW n \in 0..(WaitLen(j) - 1) PROVE f[n + 1] = Waits(j, n).id
      <3>1. n + 1 \in 1..WaitLen(j) /\ (n + 1) - 1 = n
        BY <1>1
      <3> QED BY <2>1, <3>1
    <2> QED BY <1>1, <2>4, <2>5
  <1>7. ASSUME NEW i \in TxRings
        PROVE  /\ Len(lists[<<"tx", i>>]) = QueueLen(i)
               /\ \A n \in 0..(QueueLen(i) - 1) :
                     lists[<<"tx", i>>][n + 1] = Queues(i, n).id
    <2>1. PICK f : f = [n \in 1..QueueLen(i) |-> Queues(i, n - 1).id]
      OBVIOUS
    <2>2. f = [n \in 1..QueueLen(i) |-> f[n]]
      BY <2>1
    <2>3. lists[<<"tx", i>>] = f /\ QueueLen(i) \in Nat
      BY <1>1, <1>3, <2>1
    <2>4. /\ Len(lists[<<"tx", i>>]) = QueueLen(i)
          /\ \A n \in 1..QueueLen(i) : lists[<<"tx", i>>][n] = f[n]
      BY <1>5, <2>2, <2>3
    <2>5. ASSUME NEW n \in 0..(QueueLen(i) - 1) PROVE f[n + 1] = Queues(i, n).id
      <3>1. n + 1 \in 1..QueueLen(i) /\ (n + 1) - 1 = n
        BY <1>1
      <3> QED BY <2>1, <3>1
    <2> QED BY <1>1, <2>4, <2>5
  <1>8. ASSUME NEW i \in TxRings
        PROVE  /\ Len(lists[<<"wire", i>>]) = Len(wire[i])
               /\ \A n \in 1..Len(wire[i]) : lists[<<"wire", i>>][n] = wire[i][n].id
    <2>1. PICK f : f = [n \in 1..Len(wire[i]) |-> wire[i][n].id]
      OBVIOUS
    <2>2. f = [n \in 1..Len(wire[i]) |-> f[n]] /\ \A n \in 1..Len(wire[i]) : f[n] = wire[i][n].id
      BY <2>1
    <2>3. lists[<<"wire", i>>] = f /\ Len(wire[i]) \in Nat
      BY <1>1, <1>4, <2>1
    <2>4. /\ Len(lists[<<"wire", i>>]) = Len(wire[i])
          /\ \A n \in 1..Len(wire[i]) : lists[<<"wire", i>>][n] = f[n]
      BY <1>5, <2>2, <2>3
    <2> QED BY <2>2, <2>4
  <1>9. \A l \in Lists : \/ \E j \in RxRings : l = <<"rx", j>>
                         \/ \E i \in TxRings : l = <<"tx", i>> \/ l = <<"wire", i>>
    BY DEF Lists
  <1>10. Finite(lists)
    BY <1>1, <1>6, <1>7, <1>8, <1>9 DEF Finite
  <1> QED BY <1>2, <1>3, <1>4, <1>6, <1>7, <1>8, <1>10 DEF ListsFit

LEMMA ListsAreRingsNext == TypeOK' => ListsFit'
  BY ListsAreRings, PTL

\* What happens to the rings happens to the lists.
LEMMA ListsFollow ==
  ASSUME TypeOK, TypeOK'
  PROVE  /\ \A j \in RxRings :
               /\ WaitsKept(j) => ListKept(lists, lists', <<"rx", j>>)
               /\ FirstWaitLeaves(j) =>
                     /\ FrontLeaves(lists, lists', <<"rx", j>>)
                     /\ lists[<<"rx", j>>][1] = Waits(j, 0).id
               /\ \A f : WaitAdded(j, f) => EndGets(lists, lists', <<"rx", j>>, f.id)
         /\ \A i \in TxRings :
               /\ QueueKept(i) => ListKept(lists, lists', <<"tx", i>>)
               /\ FirstQueueLeaves(i) =>
                     /\ FrontLeaves(lists, lists', <<"tx", i>>)
                     /\ lists[<<"tx", i>>][1] = Queues(i, 0).id
               /\ \A f : QueueAdded(i, f) => EndGets(lists, lists', <<"tx", i>>, f.id)
               /\ wire'[i] = wire[i] => ListKept(lists, lists', <<"wire", i>>)
               /\ \A f \in Frame : wire'[i] = Append(wire[i], f) =>
                     EndGets(lists, lists', <<"wire", i>>, f.id)
  <1>1. ListsFit /\ ListsFit'
    BY ListsAreRings, ListsAreRingsNext
  <1>2. ASSUME NEW j \in RxRings
        PROVE  /\ WaitsKept(j) => ListKept(lists, lists', <<"rx", j>>)
               /\ FirstWaitLeaves(j) =>
                     /\ FrontLeaves(lists, lists', <<"rx", j>>)
                     /\ lists[<<"rx", j>>][1] = Waits(j, 0).id
               /\ \A f : WaitAdded(j, f) => EndGets(lists, lists', <<"rx", j>>, f.id)
    <2>1. WaitLen(j) \in Nat
      BY ViewTypes, RingAssumption
    <2>2. PICK s, t : s = lists[<<"rx", j>>] /\ t = lists'[<<"rx", j>>]
      OBVIOUS
    <2>3. /\ Len(s) = WaitLen(j) /\ Len(t) = WaitLen(j)'
          /\ \A n \in 0..(WaitLen(j) - 1) : s[n + 1] = Waits(j, n).id
          /\ \A n \in 0..(WaitLen(j)' - 1) : t[n + 1] = Waits(j, n)'.id
      BY <1>1, <2>2 DEF ListsFit
    <2>4. ASSUME WaitsKept(j) PROVE ListKept(lists, lists', <<"rx", j>>)
      <3>1. \A n \in 0..(WaitLen(j) - 1) : t[n + 1] = s[n + 1]
        BY <2>1, <2>3, <2>4 DEF WaitsKept
      <3>2. Len(s) = WaitLen(j) /\ Len(t) = WaitLen(j)
        BY <2>3, <2>4 DEF WaitsKept
      <3>3. ASSUME NEW n \in 1..WaitLen(j) PROVE t[n] = s[n]
        <4>1. n - 1 \in 0..(WaitLen(j) - 1) /\ (n - 1) + 1 = n
          BY <2>1
        <4> QED BY <3>1, <4>1
      <3> QED BY <2>2, <3>2, <3>3 DEF ListKept
    <2>5. ASSUME FirstWaitLeaves(j)
          PROVE  FrontLeaves(lists, lists', <<"rx", j>>) /\ s[1] = Waits(j, 0).id
      <3>1. WaitLen(j) > 0 /\ Len(s) = WaitLen(j) /\ Len(t) = WaitLen(j) - 1
        BY <2>3, <2>5 DEF FirstWaitLeaves
      <3>2. ASSUME NEW n \in 1..(WaitLen(j) - 1) PROVE t[n] = s[n + 1]
        <4>1. n - 1 \in 0..(WaitLen(j) - 2) /\ (n - 1) + 1 = n /\ n \in 0..(WaitLen(j) - 1)
              /\ n - 1 \in 0..(WaitLen(j)' - 1)
          BY <2>1, <2>5 DEF FirstWaitLeaves
        <4>2. Waits(j, n - 1)' = Waits(j, n)
          BY <2>5, <4>1 DEF FirstWaitLeaves
        <4> QED BY <2>3, <4>1, <4>2
      <3>3. 0 \in 0..(WaitLen(j) - 1) /\ 0 + 1 = 1
        BY <2>1, <3>1
      <3>4. s[1] = Waits(j, 0).id
        BY <2>3, <3>3
      <3> QED BY <2>2, <3>1, <3>2, <3>4 DEF FrontLeaves
    <2>6. ASSUME NEW f, WaitAdded(j, f) PROVE EndGets(lists, lists', <<"rx", j>>, f.id)
      <3>1. Len(s) = WaitLen(j) /\ Len(t) = WaitLen(j) + 1 /\ WaitLen(j)' = WaitLen(j) + 1
        BY <2>3, <2>6 DEF WaitAdded
      <3>2. t[WaitLen(j) + 1] = f.id
        <4>1. PICK m : m = WaitLen(j)
          OBVIOUS
        <4> QED BY <2>1, <2>3, <2>6, <3>1, <4>1 DEF WaitAdded
      <3>3. ASSUME NEW n \in 1..WaitLen(j) PROVE t[n] = s[n]
        <4>1. n - 1 \in 0..(WaitLen(j) - 1) /\ (n - 1) + 1 = n /\ n - 1 \in 0..(WaitLen(j)' - 1)
          BY <2>1, <3>1
        <4>2. Waits(j, n - 1)' = Waits(j, n - 1)
          BY <2>6, <4>1 DEF WaitAdded
        <4> QED BY <2>3, <4>1, <4>2
      <3> QED BY <2>2, <3>1, <3>2, <3>3 DEF EndGets
    <2> QED BY <2>2, <2>4, <2>5, <2>6
  <1>3. ASSUME NEW i \in TxRings
        PROVE  /\ QueueKept(i) => ListKept(lists, lists', <<"tx", i>>)
               /\ FirstQueueLeaves(i) =>
                     /\ FrontLeaves(lists, lists', <<"tx", i>>)
                     /\ lists[<<"tx", i>>][1] = Queues(i, 0).id
               /\ \A f : QueueAdded(i, f) => EndGets(lists, lists', <<"tx", i>>, f.id)
    <2>1. QueueLen(i) \in Nat
      BY ViewTypes, RingAssumption
    <2>2. PICK s, t : s = lists[<<"tx", i>>] /\ t = lists'[<<"tx", i>>]
      OBVIOUS
    <2>3. /\ Len(s) = QueueLen(i) /\ Len(t) = QueueLen(i)'
          /\ \A n \in 0..(QueueLen(i) - 1) : s[n + 1] = Queues(i, n).id
          /\ \A n \in 0..(QueueLen(i)' - 1) : t[n + 1] = Queues(i, n)'.id
      BY <1>1, <2>2 DEF ListsFit
    <2>4. ASSUME QueueKept(i) PROVE ListKept(lists, lists', <<"tx", i>>)
      <3>1. \A n \in 0..(QueueLen(i) - 1) : t[n + 1] = s[n + 1]
        BY <2>1, <2>3, <2>4 DEF QueueKept
      <3>2. Len(s) = QueueLen(i) /\ Len(t) = QueueLen(i)
        BY <2>3, <2>4 DEF QueueKept
      <3>3. ASSUME NEW n \in 1..QueueLen(i) PROVE t[n] = s[n]
        <4>1. n - 1 \in 0..(QueueLen(i) - 1) /\ (n - 1) + 1 = n
          BY <2>1
        <4> QED BY <3>1, <4>1
      <3> QED BY <2>2, <3>2, <3>3 DEF ListKept
    <2>5. ASSUME FirstQueueLeaves(i)
          PROVE  FrontLeaves(lists, lists', <<"tx", i>>) /\ s[1] = Queues(i, 0).id
      <3>1. QueueLen(i) > 0 /\ Len(s) = QueueLen(i) /\ Len(t) = QueueLen(i) - 1
        BY <2>3, <2>5 DEF FirstQueueLeaves
      <3>2. ASSUME NEW n \in 1..(QueueLen(i) - 1) PROVE t[n] = s[n + 1]
        <4>1. n - 1 \in 0..(QueueLen(i) - 2) /\ (n - 1) + 1 = n /\ n \in 0..(QueueLen(i) - 1)
              /\ n - 1 \in 0..(QueueLen(i)' - 1)
          BY <2>1, <2>5 DEF FirstQueueLeaves
        <4>2. Queues(i, n - 1)' = Queues(i, n)
          BY <2>5, <4>1 DEF FirstQueueLeaves
        <4> QED BY <2>3, <4>1, <4>2
      <3>3. 0 \in 0..(QueueLen(i) - 1) /\ 0 + 1 = 1
        BY <2>1, <3>1
      <3>4. s[1] = Queues(i, 0).id
        BY <2>3, <3>3
      <3> QED BY <2>2, <3>1, <3>2, <3>4 DEF FrontLeaves
    <2>6. ASSUME NEW f, QueueAdded(i, f) PROVE EndGets(lists, lists', <<"tx", i>>, f.id)
      <3>1. Len(s) = QueueLen(i) /\ Len(t) = QueueLen(i) + 1 /\ QueueLen(i)' = QueueLen(i) + 1
        BY <2>3, <2>6 DEF QueueAdded
      <3>2. t[QueueLen(i) + 1] = f.id
        <4>1. PICK m : m = QueueLen(i)
          OBVIOUS
        <4> QED BY <2>1, <2>3, <2>6, <3>1, <4>1 DEF QueueAdded
      <3>3. ASSUME NEW n \in 1..QueueLen(i) PROVE t[n] = s[n]
        <4>1. n - 1 \in 0..(QueueLen(i) - 1) /\ (n - 1) + 1 = n /\ n - 1 \in 0..(QueueLen(i)' - 1)
          BY <2>1, <3>1
        <4>2. Queues(i, n - 1)' = Queues(i, n - 1)
          BY <2>6, <4>1 DEF QueueAdded
        <4> QED BY <2>3, <4>1, <4>2
      <3> QED BY <2>2, <3>1, <3>2, <3>3 DEF EndGets
    <2> QED BY <2>2, <2>4, <2>5, <2>6
  <1>4. ASSUME NEW i \in TxRings
        PROVE  /\ wire'[i] = wire[i] => ListKept(lists, lists', <<"wire", i>>)
               /\ \A f \in Frame : wire'[i] = Append(wire[i], f) =>
                     EndGets(lists, lists', <<"wire", i>>, f.id)
    <2>1. wire[i] \in Seq(Frame)
      BY DEF TypeOK
    <2>2. PICK s, t : s = lists[<<"wire", i>>] /\ t = lists'[<<"wire", i>>]
      OBVIOUS
    <2>3. /\ Len(s) = Len(wire[i]) /\ Len(t) = Len(wire'[i])
          /\ \A n \in 1..Len(wire[i]) : s[n] = wire[i][n].id
          /\ \A n \in 1..Len(wire'[i]) : t[n] = wire'[i][n].id
      BY <1>1, <2>2 DEF ListsFit
    <2>4. ASSUME wire'[i] = wire[i] PROVE ListKept(lists, lists', <<"wire", i>>)
      BY <2>2, <2>3, <2>4 DEF ListKept
    <2>5. ASSUME NEW f \in Frame, wire'[i] = Append(wire[i], f)
          PROVE  EndGets(lists, lists', <<"wire", i>>, f.id)
      <3>1. /\ Len(wire[i]) \in Nat /\ Len(wire'[i]) = Len(wire[i]) + 1
            /\ wire'[i][Len(wire[i]) + 1] = f
            /\ \A n \in 1..Len(wire[i]) : wire'[i][n] = wire[i][n]
        BY <2>1, <2>5
      <3>2. t[Len(wire[i]) + 1] = f.id
        BY <2>3, <3>1
      <3>3. \A n \in 1..Len(wire[i]) : t[n] = s[n]
        BY <2>3, <3>1
      <3> QED BY <2>2, <2>3, <3>1, <3>2, <3>3 DEF EndGets
    <2> QED BY <2>4, <2>5
  <1> QED BY <1>2, <1>3, <1>4

-----------------------------------------------------------------------------
\* The step lemmas for the numbers. Nothing moves:
LEMMA ListsKept ==
  ASSUME Finite(lists), Finite(lists'), ListsOK, arrived' = arrived,
         \A l \in Lists : ListKept(lists, lists', l)
  PROVE  ListsOK'
  <1>1. PICK ls, new : ls = lists /\ new = lists'
    OBVIOUS
  <1>2. /\ Distinct(ls) /\ \A l \in Lists : ListKept(ls, new, l)
        /\ Finite(ls) /\ Finite(new)
    BY <1>1 DEF ListsOK
  <1>3. Distinct(new) /\ \A id : IsIn(id, ls) => IsIn(id, new)
    BY <1>2 DEF Distinct, IsIn, ListKept
  <1> QED BY <1>1, <1>3 DEF ListsOK

LEMMA FramesStayOK ==
  ASSUME TypeOK, FramesOK, arrived \subseteq arrived',
         \A f \in arrived' : f.id # 0,
         \A f, g \in arrived' : f.id = g.id => f = g,
         \A j \in RxRings : \/ WaitsKept(j) \/ FirstWaitLeaves(j)
                            \/ \E f \in arrived' : WaitAdded(j, f),
         \A i \in TxRings : \/ QueueKept(i) \/ FirstQueueLeaves(i)
                            \/ \E f \in Frame : IsReply(f) /\ QueueAdded(i, f),
         \A i \in TxRings : \/ wire'[i] = wire[i]
                            \/ \E f \in Frame : IsReply(f) /\ wire'[i] = Append(wire[i], f)
  PROVE  FramesOK'
  <1>1. ASSUME NEW j \in RxRings, NEW n \in 0..(WaitLen(j)' - 1)
        PROVE  Waits(j, n)' \in arrived'
    <2>1. WaitLen(j) \in Nat
      BY ViewTypes, RingAssumption
    <2>2. \A m \in 0..(WaitLen(j) - 1) : Waits(j, m) \in arrived'
      BY DEF FramesOK
    <2>3. CASE WaitsKept(j)
      BY <1>1, <2>1, <2>2, <2>3 DEF WaitsKept
    <2>4. CASE FirstWaitLeaves(j)
      <3>1. n \in 0..(WaitLen(j) - 2) /\ n + 1 \in 0..(WaitLen(j) - 1)
        BY <1>1, <2>1, <2>4 DEF FirstWaitLeaves
      <3>2. Waits(j, n)' = Waits(j, n + 1)
        BY <2>4, <3>1 DEF FirstWaitLeaves
      <3> QED BY <2>2, <3>1, <3>2
    <2>5. ASSUME NEW f \in arrived', WaitAdded(j, f) PROVE Waits(j, n)' \in arrived'
      <3>1. n \in {WaitLen(j)} \/ n \in 0..(WaitLen(j) - 1)
        BY <1>1, <2>1, <2>5 DEF WaitAdded
      <3> QED BY <2>2, <2>5, <3>1 DEF WaitAdded
    <2> QED BY <2>3, <2>4, <2>5
  <1>2. ASSUME NEW i \in TxRings, NEW n \in 0..(QueueLen(i)' - 1)
        PROVE  IsReply(Queues(i, n)')
    <2>1. QueueLen(i) \in Nat
      BY ViewTypes, RingAssumption
    <2>2. \A m \in 0..(QueueLen(i) - 1) : IsReply(Queues(i, m))
      BY DEF FramesOK
    <2>3. CASE QueueKept(i)
      <3>1. n \in 0..(QueueLen(i) - 1)
        BY <1>2, <2>3 DEF QueueKept
      <3>2. Queues(i, n)' = Queues(i, n)
        BY <2>3, <3>1 DEF QueueKept
      <3> QED BY <2>2, <3>1, <3>2
    <2>4. CASE FirstQueueLeaves(i)
      <3>1. n \in 0..(QueueLen(i) - 2) /\ n + 1 \in 0..(QueueLen(i) - 1)
        BY <1>2, <2>1, <2>4 DEF FirstQueueLeaves
      <3>2. Queues(i, n)' = Queues(i, n + 1)
        BY <2>4, <3>1 DEF FirstQueueLeaves
      <3> QED BY <2>2, <3>1, <3>2
    <2>5. ASSUME NEW f \in Frame, IsReply(f), QueueAdded(i, f) PROVE IsReply(Queues(i, n)')
      <3>1. n \in {QueueLen(i)} \/ n \in 0..(QueueLen(i) - 1)
        BY <1>2, <2>1, <2>5 DEF QueueAdded
      <3>2. Queues(i, n)' = f \/ (n \in 0..(QueueLen(i) - 1) /\ Queues(i, n)' = Queues(i, n))
        BY <2>5, <3>1 DEF QueueAdded
      <3>3. CASE Queues(i, n)' = f
        BY <2>5, <3>3
      <3> QED BY <2>2, <3>2, <3>3
    <2> QED BY <2>3, <2>4, <2>5
  <1>3. ASSUME NEW i \in TxRings, NEW n \in 1..Len(wire'[i])
        PROVE  IsReply(wire'[i][n])
    <2>1. wire[i] \in Seq(Frame) /\ \A m \in 1..Len(wire[i]) : IsReply(wire[i][m])
      BY DEF TypeOK, FramesOK
    <2>2. CASE wire'[i] = wire[i]
      BY <1>3, <2>1, <2>2
    <2>3. ASSUME NEW f \in Frame, IsReply(f), wire'[i] = Append(wire[i], f)
          PROVE  IsReply(wire'[i][n])
      <3>1. \/ wire'[i][n] = f
            \/ n \in 1..Len(wire[i]) /\ wire'[i][n] = wire[i][n]
        BY <1>3, <2>1, <2>3
      <3> QED BY <2>1, <2>3, <3>1
    <2> QED BY <2>2, <2>3
  <1> QED BY <1>1, <1>2, <1>3 DEF FramesOK, IsReply

-----------------------------------------------------------------------------
\* The numbers in the lists are those of frames that have arrived.
LEMMA NumbersKnown ==
  ASSUME TypeOK, OrderOK, NEW id, IsIn(id, lists)
  PROVE  id <= Cardinality(arrived)
  <1>1. PICK l \in Lists : \E n \in 1..Len(lists[l]) : lists[l][n] = id
    BY DEF IsIn
  <1>2. PICK n \in 1..Len(lists[l]) : lists[l][n] = id
    BY <1>1
  <1>3. ListsFit
    BY ListsAreRings
  <1>4. ASSUME NEW j \in RxRings, l = <<"rx", j>> PROVE id <= Cardinality(arrived)
    <2>1. Len(lists[l]) = WaitLen(j)
      BY <1>3, <1>4 DEF ListsFit
    <2>2. n - 1 \in 0..(WaitLen(j) - 1) /\ (n - 1) + 1 = n
      <3>1. WaitLen(j) \in Nat
        BY ViewTypes, RingAssumption
      <3> QED BY <1>2, <2>1, <3>1
    <2>3. id = Waits(j, n - 1).id
      BY <1>2, <1>3, <1>4, <2>2 DEF ListsFit
    <2> QED BY <2>2, <2>3 DEF OrderOK, WaitOK, Known
  <1>5. ASSUME NEW i \in TxRings, l = <<"tx", i>> PROVE id <= Cardinality(arrived)
    <2>1. Len(lists[l]) = QueueLen(i)
      BY <1>3, <1>5 DEF ListsFit
    <2>2. n - 1 \in 0..(QueueLen(i) - 1) /\ (n - 1) + 1 = n
      <3>1. QueueLen(i) \in Nat
        BY ViewTypes, RingAssumption
      <3> QED BY <1>2, <2>1, <3>1
    <2>3. id = Queues(i, n - 1).id
      BY <1>2, <1>3, <1>5, <2>2 DEF ListsFit
    <2> QED BY <2>2, <2>3 DEF OrderOK, QueueInOrder, Known
  <1>6. ASSUME NEW i \in TxRings, l = <<"wire", i>> PROVE id <= Cardinality(arrived)
    BY <1>2, <1>3, <1>6 DEF ListsFit, OrderOK, WireInOrder, Known
  <1> QED BY <1>4, <1>5, <1>6 DEF Lists

LEMMA KindsOfLists ==
  /\ \A l \in Lists : \/ \E j \in RxRings : l = <<"rx", j>>
                      \/ \E i \in TxRings : l = <<"tx", i>> \/ l = <<"wire", i>>
  /\ \A j \in RxRings : <<"rx", j>> \in Lists
  /\ \A i \in TxRings : <<"tx", i>> \in Lists /\ <<"wire", i>> \in Lists
  BY DEF Lists

LEMMA FiniteBoth ==
  ASSUME TypeOK, TypeOK'
  PROVE  Finite(lists) /\ Finite(lists')
  <1>1. ListsFit /\ ListsFit'
    BY ListsAreRings, ListsAreRingsNext
  <1> QED BY <1>1 DEF ListsFit, Finite

\* A frame comes in, with a number of its own.
LEMMA NumberReceived ==
  ASSUME TypeInv, TypeOK', OrderOK, FramesOK, ListsOK,
         NEW k \in RxRings, NEW answers \in BOOLEAN, BuffersDistinct, Receive(k, answers)
  PROVE  FramesOK' /\ ListsOK'
  <1>1. TypeOK /\ IsFiniteSet(arrived) /\ Cardinality(arrived) \in Nat
    BY FS_CardinalityType DEF TypeInv
  <1>2. PICK f \in arrived' :
          /\ f.id = Cardinality(arrived) + 1 /\ f.from = k
          /\ arrived' = arrived \cup {f}
          /\ \A j \in RxRings \ {k} : WaitsKept(j)
          /\ WaitAdded(k, f)
          /\ \A i \in TxRings : QueueKept(i)
          /\ wire' = wire
    BY <1>1, ReceiveView
  <1>3. f.id # 0 /\ \A g \in arrived : g.id # f.id
    BY <1>1, <1>2 DEF OrderOK, Known
  <1>4. FramesOK'
    <2>1. \A g \in arrived' : g.id # 0
      BY <1>2, <1>3 DEF FramesOK
    <2>2. \A g, h \in arrived' : g.id = h.id => g = h
      BY <1>2, <1>3 DEF FramesOK
    <2>3. \A j \in RxRings : WaitsKept(j) \/ WaitAdded(j, f)
      BY <1>2
    <2>4. \A i \in TxRings : QueueKept(i) /\ wire'[i] = wire[i]
      BY <1>2
    <2>5. arrived \subseteq arrived'
      BY <1>2
    <2> QED BY <1>1, <1>2, <2>1, <2>2, <2>3, <2>4, <2>5, FramesStayOK
  <1>5. PICK ls, new, b : ls = lists /\ new = lists' /\ b = <<"rx", k>>
    OBVIOUS
  <1>6. \A l \in Lists : IF l = b THEN EndGets(ls, new, l, f.id) ELSE ListKept(ls, new, l)
    <2>1. EndGets(ls, new, b, f.id)
      BY <1>1, <1>2, <1>5, ListsFollow
    <2>2. \A j \in RxRings : j # k => ListKept(ls, new, <<"rx", j>>)
      BY <1>1, <1>2, <1>5, ListsFollow
    <2>3. \A i \in TxRings : /\ ListKept(ls, new, <<"tx", i>>)
                             /\ ListKept(ls, new, <<"wire", i>>)
      BY <1>1, <1>2, <1>5, ListsFollow
    <2> QED BY <1>5, <2>1, <2>2, <2>3, KindsOfLists
  <1>7. /\ b \in Lists /\ Distinct(ls) /\ ~IsIn(f.id, ls)
        /\ Finite(ls) /\ Finite(new)
    BY <1>1, <1>2, <1>5, NumbersKnown, FiniteBoth, KindsOfLists DEF ListsOK
  <1>8. Distinct(new) /\ \A id : IsIn(id, ls) \/ id = f.id => IsIn(id, new)
    BY <1>6, <1>7, NumberAdded
  <1>9. \A g \in arrived' : g.answers => IsIn(g.id, new)
    BY <1>2, <1>5, <1>8 DEF ListsOK
  <1> QED BY <1>4, <1>5, <1>8, <1>9 DEF ListsOK

\* The oldest reply goes from its ring to the wire.
LEMMA NumberSent ==
  ASSUME TypeOK, TypeOK', FramesOK, ListsOK, NEW k \in TxRings, Transmit(k)
  PROVE  FramesOK' /\ ListsOK'
  <1>1. /\ \A j \in RxRings : WaitsKept(j)
        /\ \A i \in TxRings \ {k} : QueueKept(i)
        /\ FirstQueueLeaves(k)
        /\ arrived' = arrived
        /\ wire' = [wire EXCEPT ![k] = Append(@, Queues(k, 0))]
    BY TransmitView
  <1>2. PICK f \in Frame : f = Queues(k, 0) /\ IsReply(f)
    <2>1. 0 \in 0..(QueueLen(k) - 1)
      BY <1>1, ViewTypes DEF FirstQueueLeaves
    <2>2. Queues(k, 0) \in Frame
      <3>1. NextSlot(tx[k].tail) \in SlotIds
        BY RingFields, NextSlotType
      <3>2. SlotAfter(NextSlot(tx[k].tail), 0) \in SlotIds
        BY <3>1, SlotAfterFacts
      <3> QED BY <3>2, RingFields DEF Queues, TypeOK
    <2> QED BY <2>1, <2>2 DEF FramesOK
  <1>3. /\ wire'[k] = Append(wire[k], f)
        /\ \A i \in TxRings \ {k} : wire'[i] = wire[i]
    BY <1>1, <1>2 DEF TypeOK
  <1>4. FramesOK'
    <2>1. \A g \in arrived' : g.id # 0
      BY <1>1 DEF FramesOK
    <2>2. \A g, h \in arrived' : g.id = h.id => g = h
      BY <1>1 DEF FramesOK
    <2>3. \A i \in TxRings : QueueKept(i) \/ FirstQueueLeaves(i)
      BY <1>1
    <2>4. \A i \in TxRings : wire'[i] = wire[i] \/ wire'[i] = Append(wire[i], f)
      BY <1>3
    <2>5. arrived \subseteq arrived'
      BY <1>1
    <2> QED BY <1>1, <1>2, <2>1, <2>2, <2>3, <2>4, <2>5, FramesStayOK
  <1>5. PICK ls, new, a, b :
          ls = lists /\ new = lists' /\ a = <<"tx", k>> /\ b = <<"wire", k>>
    OBVIOUS
  <1>6. a \in Lists /\ b \in Lists /\ a # b
    BY <1>5, KindsOfLists
  <1>7. FrontLeaves(ls, new, a) /\ ls[a][1] = f.id
    BY <1>1, <1>2, <1>5, ListsFollow
  <1>8. \A l \in Lists \ {a} :
          IF l = b THEN EndGets(ls, new, l, ls[a][1]) ELSE ListKept(ls, new, l)
    <2>1. EndGets(ls, new, b, ls[a][1])
      BY <1>3, <1>5, <1>7, ListsFollow
    <2>2. \A i \in TxRings : i # k => /\ ListKept(ls, new, <<"tx", i>>)
                                      /\ ListKept(ls, new, <<"wire", i>>)
      BY <1>1, <1>3, <1>5, ListsFollow
    <2>3. \A j \in RxRings : ListKept(ls, new, <<"rx", j>>)
      BY <1>1, <1>5, ListsFollow
    <2> QED BY <1>5, <2>1, <2>2, <2>3, KindsOfLists
  <1>9. Distinct(ls) /\ Finite(ls) /\ Finite(new)
    BY <1>5, FiniteBoth DEF ListsOK
  <1>10. Distinct(new) /\ \A id : IsIn(id, ls) => IsIn(id, new)
    BY <1>6, <1>7, <1>8, <1>9, NumberMoved
  <1> QED BY <1>1, <1>4, <1>5, <1>10 DEF ListsOK

\* The oldest frame leaves its ring without an answer ...
LEMMA NumberUnanswered ==
  ASSUME TypeInv, TypeOK', LoopOK, FramesOK, ListsOK, DropSlot
  PROVE  FramesOK' /\ ListsOK'
  <1>1. TypeOK
    BY DEF TypeInv
  <1>2. PICK k \in RxRings : k = rxi
    BY <1>1, CurrentRings DEF DropSlot
  <1>3. /\ FirstWaitLeaves(k) /\ \A j \in RxRings : j # k => WaitsKept(j)
        /\ \A i \in TxRings : QueueKept(i)
        /\ arrived' = arrived /\ wire' = wire
    BY <1>2, DropView DEF HistoryKept
  <1>4. PICK g \in arrived : g = Waits(k, 0) /\ ~g.answers
    <2>1. ~Waits(k, 0).answers
      BY <1>2, DropView
    <2>2. 0 \in 0..(WaitLen(k) - 1)
      BY <1>1, <1>3, ViewTypes DEF FirstWaitLeaves
    <2> QED BY <2>1, <2>2 DEF FramesOK
  <1>5. FramesOK'
    <2>1. \A f \in arrived' : f.id # 0
      BY <1>3 DEF FramesOK
    <2>2. \A f, h \in arrived' : f.id = h.id => f = h
      BY <1>3 DEF FramesOK
    <2>3. \A j \in RxRings : WaitsKept(j) \/ FirstWaitLeaves(j)
      BY <1>3
    <2>4. \A i \in TxRings : QueueKept(i) /\ wire'[i] = wire[i]
      BY <1>3
    <2>5. arrived \subseteq arrived'
      BY <1>3
    <2> QED BY <1>1, <2>1, <2>2, <2>3, <2>4, <2>5, FramesStayOK
  <1>6. PICK ls, new, a : ls = lists /\ new = lists' /\ a = <<"rx", k>>
    OBVIOUS
  <1>7. \A l \in Lists : IF l = a THEN FrontLeaves(ls, new, l) ELSE ListKept(ls, new, l)
    <2>1. FrontLeaves(ls, new, a)
      BY <1>1, <1>3, <1>6, ListsFollow
    <2>2. \A j \in RxRings : j # k => ListKept(ls, new, <<"rx", j>>)
      BY <1>1, <1>3, <1>6, ListsFollow
    <2>3. \A i \in TxRings : /\ ListKept(ls, new, <<"tx", i>>)
                             /\ ListKept(ls, new, <<"wire", i>>)
      BY <1>1, <1>3, <1>6, ListsFollow
    <2> QED BY <1>6, <2>1, <2>2, <2>3, KindsOfLists
  <1>8. a \in Lists /\ Distinct(ls) /\ Finite(ls) /\ Finite(new) /\ ls[a][1] = g.id
    BY <1>1, <1>3, <1>4, <1>6, FiniteBoth, KindsOfLists, ListsFollow DEF ListsOK
  <1>9. /\ Distinct(new)
        /\ \A id : IsIn(id, ls) => id = g.id \/ IsIn(id, new)
    BY <1>7, <1>8, NumberDropped
  <1>10. \A f \in arrived : f.answers => f.id # g.id
    BY <1>4 DEF FramesOK
  <1> QED BY <1>3, <1>5, <1>6, <1>9, <1>10 DEF ListsOK

\* ... or for a transmit ring, as its reply.
LEMMA NumberAnswered ==
  ASSUME TypeInv, TypeOK', LoopOK, BuffersDistinct, FramesOK, ListsOK, AnswerSlot
  PROVE  FramesOK' /\ ListsOK'
  <1>1. TypeOK
    BY DEF TypeInv
  <1>2. PICK k \in RxRings, m \in TxRings : k = rxi /\ m = txi
    BY <1>1, CurrentRings DEF AnswerSlot
  <1>3. /\ FirstWaitLeaves(k) /\ \A j \in RxRings : j # k => WaitsKept(j)
        /\ arrived' = arrived /\ wire' = wire
    BY <1>2, AnswerView DEF HistoryKept
  <1>4. PICK f \in Frame :
          /\ f.id = Waits(k, 0).id /\ f.answers /\ f.replied
          /\ QueueAdded(m, f) /\ \A i \in TxRings : i # m => QueueKept(i)
    <2>1. PICK f \in Frame :
            /\ f.id = Waits(rxi, 0).id /\ f.answers /\ f.replied
            /\ \A i \in TxRings : IF i = txi THEN QueueAdded(i, f) ELSE QueueKept(i)
      BY AnswerView
    <2> QED BY <1>2, <2>1
  <1>5. IsReply(f)
    <2>1. 0 \in 0..(WaitLen(k) - 1)
      BY <1>1, <1>3, ViewTypes DEF FirstWaitLeaves
    <2>2. Waits(k, 0) \in arrived
      BY <2>1 DEF FramesOK
    <2>3. Waits(k, 0).id # 0
      BY <2>2 DEF FramesOK
    <2> QED BY <1>4, <2>3 DEF IsReply
  <1>6. FramesOK'
    <2>1. \A g \in arrived' : g.id # 0
      BY <1>3 DEF FramesOK
    <2>2. \A g, h \in arrived' : g.id = h.id => g = h
      BY <1>3 DEF FramesOK
    <2>3. \A j \in RxRings : WaitsKept(j) \/ FirstWaitLeaves(j)
      BY <1>3
    <2>4. \A i \in TxRings : /\ QueueKept(i) \/ QueueAdded(i, f)
                             /\ wire'[i] = wire[i]
      BY <1>3, <1>4
    <2>5. arrived \subseteq arrived'
      BY <1>3
    <2> QED BY <1>1, <1>5, <2>1, <2>2, <2>3, <2>4, <2>5, FramesStayOK
  <1>7. PICK ls, new, a, b :
          ls = lists /\ new = lists' /\ a = <<"rx", k>> /\ b = <<"tx", m>>
    OBVIOUS
  <1>8. a \in Lists /\ b \in Lists /\ a # b
    BY <1>7, KindsOfLists
  <1>9. FrontLeaves(ls, new, a) /\ ls[a][1] = f.id
    BY <1>1, <1>3, <1>4, <1>7, ListsFollow
  <1>10. \A l \in Lists \ {a} :
           IF l = b THEN EndGets(ls, new, l, ls[a][1]) ELSE ListKept(ls, new, l)
    <2>1. EndGets(ls, new, b, ls[a][1])
      BY <1>1, <1>4, <1>7, <1>9, ListsFollow
    <2>2. \A j \in RxRings : j # k => ListKept(ls, new, <<"rx", j>>)
      BY <1>1, <1>3, <1>7, ListsFollow
    <2>3. \A i \in TxRings : i # m => ListKept(ls, new, <<"tx", i>>)
      BY <1>1, <1>4, <1>7, ListsFollow
    <2>4. \A i \in TxRings : ListKept(ls, new, <<"wire", i>>)
      BY <1>1, <1>3, <1>7, ListsFollow
    <2> QED BY <1>7, <2>1, <2>2, <2>3, <2>4, KindsOfLists
  <1>11. Distinct(ls) /\ Finite(ls) /\ Finite(new)
    BY <1>1, <1>7, FiniteBoth DEF ListsOK
  <1>12. Distinct(new) /\ \A id : IsIn(id, ls) => IsIn(id, new)
    BY <1>8, <1>9, <1>10, <1>11, NumberMoved
  <1> QED BY <1>3, <1>6, <1>7, <1>12 DEF ListsOK

LEMMA InitOnceOK == Init => FramesOK /\ ListsOK
  <1> SUFFICES ASSUME Init PROVE FramesOK /\ ListsOK
    OBVIOUS
  <1>1. /\ \A j \in RxRings : WaitLen(j) = 0
        /\ \A i \in TxRings : QueueLen(i) = 0 /\ Len(wire[i]) = 0
    <2>1. \A j \in RxRings : WaitLen(j) = 0
      BY RingAssumption DEF Init, WaitLen, RxCursor, Distance
    <2>2. \A i \in TxRings : QueueLen(i) = 0 /\ wire[i] = << >>
      BY RingAssumption DEF Init, QueueLen, TxCursor, NextSlot, Distance
    <2> QED BY <2>1, <2>2
  <1>2. arrived = {}
    BY DEF Init
  <1>3. FramesOK
    BY <1>1, <1>2 DEF FramesOK
  <1>4. ListsFit
    BY InitTypeInv, ListsAreRings DEF TypeInv
  <1>5. \A l \in Lists : Len(lists[l]) = 0
    <2>1. /\ \A j \in RxRings : Len(lists[<<"rx", j>>]) = 0
          /\ \A i \in TxRings : /\ Len(lists[<<"tx", i>>]) = 0
                               /\ Len(lists[<<"wire", i>>]) = 0
      BY <1>1, <1>4 DEF ListsFit
    <2> QED BY <2>1, KindsOfLists
  <1> QED BY <1>2, <1>3, <1>5 DEF ListsOK, Distinct

LEMMA NextOnceOK ==
  ASSUME TypeInv, TypeOK', LoopOK, BuffersDistinct, OrderOK, FramesOK, ListsOK, [Next]_vars
  PROVE  FramesOK' /\ ListsOK'
  <1>1. TypeOK
    BY DEF TypeInv
  <1>2. CASE \/ UNCHANGED vars \/ Poll \/ SkipRx \/ SkipTx \/ EndSearch
             \/ BeginRing \/ EndRing
    <2>1. /\ \A j \in RxRings : WaitsKept(j)
          /\ \A i \in TxRings : QueueKept(i)
          /\ arrived' = arrived /\ wire' = wire
      BY <1>1, <1>2, QuietViews DEF HistoryKept
    <2>2. FramesOK'
      <3>1. \A f \in arrived' : f.id # 0
        BY <2>1 DEF FramesOK
      <3>2. \A f, g \in arrived' : f.id = g.id => f = g
        BY <2>1 DEF FramesOK
      <3> QED BY <1>1, <2>1, <3>1, <3>2, FramesStayOK
    <2>3. \A l \in Lists : ListKept(lists, lists', l)
      <3>1. \A j \in RxRings : ListKept(lists, lists', <<"rx", j>>)
        BY <1>1, <2>1, ListsFollow
      <3>2. \A i \in TxRings : /\ ListKept(lists, lists', <<"tx", i>>)
                               /\ ListKept(lists, lists', <<"wire", i>>)
        BY <1>1, <2>1, ListsFollow
      <3> QED BY <3>1, <3>2, KindsOfLists
    <2> QED BY <1>1, <2>1, <2>2, <2>3, FiniteBoth, ListsKept
  <1>3. ASSUME NEW k \in RxRings, NEW answers \in BOOLEAN, Receive(k, answers)
        PROVE  FramesOK' /\ ListsOK'
    BY <1>3, NumberReceived
  <1>4. ASSUME NEW k \in TxRings, Transmit(k)
        PROVE  FramesOK' /\ ListsOK'
    BY <1>1, <1>4, NumberSent
  <1>5. CASE DropSlot
    BY <1>5, NumberUnanswered
  <1>6. CASE AnswerSlot
    BY <1>6, NumberAnswered
  <1> QED BY <1>2, <1>3, <1>4, <1>5, <1>6 DEF Next, WorkerStep

-----------------------------------------------------------------------------
\* The sets Waiting, Queued and Sent, from the lists.
LEMMA SlotsBetween ==
  ASSUME NEW a \in SlotIds, NEW b \in SlotIds, NEW s \in SlotIds
  PROVE  s \in Between(a, b) <=> \E n \in 1..Distance(a, b) : s = SlotAfter(a, n - 1)
  <1>1. ASSUME s \in Between(a, b)
        PROVE  \E n \in 1..Distance(a, b) : s = SlotAfter(a, n - 1)
    <2>1. Distance(a, s) + 1 \in 1..Distance(a, b)
      BY <1>1, RingAssumption DEF Between, Distance, SlotIds
    <2>2. (Distance(a, s) + 1) - 1 = Distance(a, s)
      BY DistanceType, RingAssumption
    <2> QED BY <2>1, <2>2, SlotAfterFacts
  <1>2. ASSUME NEW n \in 1..Distance(a, b), s = SlotAfter(a, n - 1)
        PROVE  s \in Between(a, b)
    BY <1>2, RingAssumption DEF Between, Distance, SlotIds, SlotAfter
  <1> QED BY <1>1, <1>2

\* No wire has had more frames than there are numbers.
LEMMA WireFits ==
  ASSUME TypeOK, FramesOK, ListsOK, NEW i \in TxRings
  PROVE  Len(wire[i]) <= MaxFrames
  <1> SUFFICES ASSUME Len(wire[i]) > MaxFrames PROVE FALSE
    BY RingAssumption DEF TypeOK
  <1> DEFINE S == 1..Len(wire[i])
             T == 1..MaxFrames
             number == [n \in S |-> wire[i][n].id]
  <1>1. wire[i] \in Seq(Frame) /\ Len(wire[i]) \in Nat /\ MaxFrames \in Nat
    BY RingAssumption DEF TypeOK
  <1>2. number \in [S -> T]
    <2>1. ASSUME NEW n \in S PROVE wire[i][n].id \in T
      <3>1. wire[i][n] \in Frame /\ wire[i][n].id # 0
        BY <1>1 DEF FramesOK, IsReply
      <3> QED BY <1>1, <3>1 DEF Frame
    <2> QED BY <2>1
  <1>3. /\ IsFiniteSet(S) /\ Cardinality(S) = Len(wire[i])
        /\ IsFiniteSet(T) /\ Cardinality(T) = MaxFrames
    BY <1>1, FS_Interval
  <1>4. PICK m \in S, n \in S : m # n /\ number[m] = number[n]
    <2>1. Cardinality(T) < Cardinality(S)
      BY <1>1, <1>3
    <2> HIDE DEF number, S, T
    <2> QED BY <1>2, <1>3, <2>1, FS_PigeonHole
  <1>5. /\ IsAt(number[m], lists, <<"wire", i>>, m)
        /\ IsAt(number[m], lists, <<"wire", i>>, n)
    <2>1. ListsFit
      BY ListsAreRings
    <2>2. lists[<<"wire", i>>][m] = number[m] /\ lists[<<"wire", i>>][n] = number[m]
      BY <1>4, <2>1 DEF ListsFit
    <2>3. <<"wire", i>> \in Lists /\ Len(lists[<<"wire", i>>]) = Len(wire[i])
      BY <2>1 DEF ListsFit
    <2> QED BY <2>2, <2>3 DEF IsAt
  <1> QED BY <1>4, <1>5, PlacesDiffer DEF ListsOK

\* Where the n-th number of list l is in the rings.
PlaceOf(l, n) ==
    CASE l[1] = "rx"   -> <<l[2], SlotAfter(RxCursor(l[2]), n - 1)>>
      [] l[1] = "tx"   -> <<l[2], SlotAfter(NextSlot(tx[l[2]].tail), n - 1)>>
      [] l[1] = "wire" -> <<l[2], n>>
LiesIn(p, id, kind) ==
    \E l \in Lists : \E n \in 1..Len(lists[l]) :
        l[1] = kind /\ IsAt(id, lists, l, n) /\ p = PlaceOf(l, n)

LEMMA PlacesLie ==
  ASSUME TypeOK, FramesOK, ListsOK, NEW id
  PROVE  /\ \A p : p \in Waiting(id) <=> LiesIn(p, id, "rx")
         /\ \A p : p \in Queued(id) <=> LiesIn(p, id, "tx")
         /\ \A p : p \in Sent(id) <=> LiesIn(p, id, "wire")
  <1>1. ListsFit
    BY ListsAreRings
  <1>2. ASSUME NEW j \in RxRings
        PROVE  /\ <<"rx", j>> \in Lists /\ Len(lists[<<"rx", j>>]) = WaitLen(j)
               /\ WaitLen(j) \in Nat /\ WaitLen(j) < R
               /\ \A n \in 1..WaitLen(j) :
                     /\ SlotAfter(RxCursor(j), n - 1) \in SlotIds
                     /\ lists[<<"rx", j>>][n]
                            = mem[rx[j].buf[SlotAfter(RxCursor(j), n - 1)]].id
                     /\ PlaceOf(<<"rx", j>>, n) = <<j, SlotAfter(RxCursor(j), n - 1)>>
    <2>1. /\ WaitLen(j) \in 0..(R - 1) /\ WaitLen(j) \in Nat /\ WaitLen(j) < R
          /\ RxCursor(j) \in SlotIds
      BY ViewTypes, RingAssumption
    <2>2. <<"rx", j>> \in Lists /\ Len(lists[<<"rx", j>>]) = WaitLen(j)
      BY <1>1 DEF ListsFit
    <2>3. ASSUME NEW n \in 1..WaitLen(j)
          PROVE  /\ SlotAfter(RxCursor(j), n - 1) \in SlotIds
                 /\ lists[<<"rx", j>>][n]
                        = mem[rx[j].buf[SlotAfter(RxCursor(j), n - 1)]].id
      <3>1. n - 1 \in 0..(WaitLen(j) - 1) /\ (n - 1) + 1 = n /\ n - 1 \in 0..(R - 1)
        BY <2>1, RingAssumption
      <3>2. lists[<<"rx", j>>][n] = Waits(j, n - 1).id
        BY <1>1, <3>1 DEF ListsFit
      <3> QED BY <2>1, <3>1, <3>2, SlotAfterFacts DEF Waits
    <2> QED BY <2>1, <2>2, <2>3 DEF PlaceOf
  <1>3. ASSUME NEW i \in TxRings
        PROVE  /\ <<"tx", i>> \in Lists /\ Len(lists[<<"tx", i>>]) = QueueLen(i)
               /\ QueueLen(i) \in Nat /\ QueueLen(i) < R
               /\ \A n \in 1..QueueLen(i) :
                     /\ SlotAfter(NextSlot(tx[i].tail), n - 1) \in SlotIds
                     /\ lists[<<"tx", i>>][n]
                            = mem[tx[i].buf[SlotAfter(NextSlot(tx[i].tail), n - 1)]].id
                     /\ PlaceOf(<<"tx", i>>, n)
                            = <<i, SlotAfter(NextSlot(tx[i].tail), n - 1)>>
    <2>1. /\ QueueLen(i) \in 0..(R - 1) /\ QueueLen(i) \in Nat /\ QueueLen(i) < R
          /\ NextSlot(tx[i].tail) \in SlotIds
      BY ViewTypes, RingAssumption, RingFields, NextSlotType
    <2>2. <<"tx", i>> \in Lists /\ Len(lists[<<"tx", i>>]) = QueueLen(i)
      BY <1>1 DEF ListsFit
    <2>3. ASSUME NEW n \in 1..QueueLen(i)
          PROVE  /\ SlotAfter(NextSlot(tx[i].tail), n - 1) \in SlotIds
                 /\ lists[<<"tx", i>>][n]
                        = mem[tx[i].buf[SlotAfter(NextSlot(tx[i].tail), n - 1)]].id
      <3>1. n - 1 \in 0..(QueueLen(i) - 1) /\ (n - 1) + 1 = n /\ n - 1 \in 0..(R - 1)
        BY <2>1, RingAssumption
      <3>2. lists[<<"tx", i>>][n] = Queues(i, n - 1).id
        BY <1>1, <3>1 DEF ListsFit
      <3> QED BY <2>1, <3>1, <3>2, SlotAfterFacts DEF Queues
    <2> QED BY <2>1, <2>2, <2>3 DEF PlaceOf
  <1>4. ASSUME NEW i \in TxRings
        PROVE  /\ <<"wire", i>> \in Lists /\ Len(lists[<<"wire", i>>]) = Len(wire[i])
               /\ Len(wire[i]) \in Nat /\ Len(wire[i]) <= MaxFrames
               /\ \A n \in 1..Len(wire[i]) :
                     /\ lists[<<"wire", i>>][n] = wire[i][n].id
                     /\ PlaceOf(<<"wire", i>>, n) = <<i, n>>
    <2>1. Len(wire[i]) \in Nat
      BY DEF TypeOK
    <2>2. \A n \in 1..Len(wire[i]) : PlaceOf(<<"wire", i>>, n) = <<i, n>>
      BY DEF PlaceOf
    <2>3. /\ <<"wire", i>> \in Lists /\ Len(lists[<<"wire", i>>]) = Len(wire[i])
          /\ \A n \in 1..Len(wire[i]) : lists[<<"wire", i>>][n] = wire[i][n].id
      BY <1>1 DEF ListsFit
    <2> QED BY <2>1, <2>2, <2>3, WireFits
  <1>5. /\ \A l \in Lists : l[1] = "rx" => \E j \in RxRings : l = <<"rx", j>>
        /\ \A l \in Lists : l[1] = "tx" => \E i \in TxRings : l = <<"tx", i>>
        /\ \A l \in Lists : l[1] = "wire" => \E i \in TxRings : l = <<"wire", i>>
    BY KindsOfLists
  <1>6. ASSUME NEW p PROVE p \in Waiting(id) <=> LiesIn(p, id, "rx")
    <2>1. ASSUME p \in Waiting(id) PROVE LiesIn(p, id, "rx")
      <3>1. PICK j \in RxRings, s \in SlotIds :
              /\ p = <<j, s>> /\ s \in Between(RxCursor(j), rx[j].tail)
              /\ mem[rx[j].buf[s]].id = id
        BY <2>1 DEF Waiting
      <3>2. PICK n \in 1..WaitLen(j) : s = SlotAfter(RxCursor(j), n - 1)
        BY <3>1, SlotsBetween, ViewTypes, RingFields DEF WaitLen
      <3>3. IsAt(id, lists, <<"rx", j>>, n) /\ p = PlaceOf(<<"rx", j>>, n)
        BY <1>2, <3>1, <3>2 DEF IsAt
      <3>4. <<"rx", j>>[1] = "rx" /\ n \in 1..Len(lists[<<"rx", j>>])
        BY <1>2, <3>2
      <3> QED BY <1>2, <3>3, <3>4 DEF LiesIn
    <2>2. ASSUME LiesIn(p, id, "rx") PROVE p \in Waiting(id)
      <3>1. PICK l \in Lists : \E n \in 1..Len(lists[l]) :
              l[1] = "rx" /\ IsAt(id, lists, l, n) /\ p = PlaceOf(l, n)
        BY <2>2 DEF LiesIn
      <3>2. PICK j \in RxRings : l = <<"rx", j>>
        BY <1>5, <3>1
      <3>3. PICK n \in 1..WaitLen(j) :
              IsAt(id, lists, <<"rx", j>>, n) /\ p = PlaceOf(<<"rx", j>>, n)
        BY <1>2, <3>1, <3>2
      <3>4. PICK s \in SlotIds : s = SlotAfter(RxCursor(j), n - 1)
        BY <1>2, <3>3
      <3>5. p = <<j, s>> /\ mem[rx[j].buf[s]].id = id
        BY <1>2, <3>3, <3>4 DEF IsAt
      <3>6. s \in Between(RxCursor(j), rx[j].tail)
        BY <3>3, <3>4, SlotsBetween, ViewTypes, RingFields DEF WaitLen
      <3> QED BY <3>5, <3>6 DEF Waiting
    <2> QED BY <2>1, <2>2
  <1>7. ASSUME NEW p PROVE p \in Queued(id) <=> LiesIn(p, id, "tx")
    <2>1. ASSUME p \in Queued(id) PROVE LiesIn(p, id, "tx")
      <3>1. PICK i \in TxRings, s \in SlotIds :
              /\ p = <<i, s>> /\ s \in Between(NextSlot(tx[i].tail), TxCursor(i))
              /\ mem[tx[i].buf[s]].id = id
        BY <2>1 DEF Queued
      <3>2. PICK n \in 1..QueueLen(i) : s = SlotAfter(NextSlot(tx[i].tail), n - 1)
        BY <3>1, SlotsBetween, ViewTypes, RingFields, NextSlotType DEF QueueLen
      <3>3. IsAt(id, lists, <<"tx", i>>, n) /\ p = PlaceOf(<<"tx", i>>, n)
        BY <1>3, <3>1, <3>2 DEF IsAt
      <3>4. <<"tx", i>>[1] = "tx" /\ n \in 1..Len(lists[<<"tx", i>>])
        BY <1>3, <3>2
      <3> QED BY <1>3, <3>3, <3>4 DEF LiesIn
    <2>2. ASSUME LiesIn(p, id, "tx") PROVE p \in Queued(id)
      <3>1. PICK l \in Lists : \E n \in 1..Len(lists[l]) :
              l[1] = "tx" /\ IsAt(id, lists, l, n) /\ p = PlaceOf(l, n)
        BY <2>2 DEF LiesIn
      <3>2. PICK i \in TxRings : l = <<"tx", i>>
        BY <1>5, <3>1
      <3>3. PICK n \in 1..QueueLen(i) :
              IsAt(id, lists, <<"tx", i>>, n) /\ p = PlaceOf(<<"tx", i>>, n)
        BY <1>3, <3>1, <3>2
      <3>4. PICK s \in SlotIds : s = SlotAfter(NextSlot(tx[i].tail), n - 1)
        BY <1>3, <3>3
      <3>5. p = <<i, s>> /\ mem[tx[i].buf[s]].id = id
        BY <1>3, <3>3, <3>4 DEF IsAt
      <3>6. s \in Between(NextSlot(tx[i].tail), TxCursor(i))
        BY <3>3, <3>4, SlotsBetween, ViewTypes, RingFields, NextSlotType DEF QueueLen
      <3> QED BY <3>5, <3>6 DEF Queued
    <2> QED BY <2>1, <2>2
  <1>8. ASSUME NEW p PROVE p \in Sent(id) <=> LiesIn(p, id, "wire")
    <2>1. ASSUME p \in Sent(id) PROVE LiesIn(p, id, "wire")
      <3>1. PICK i \in TxRings, n \in 1..MaxFrames :
              p = <<i, n>> /\ n <= Len(wire[i]) /\ wire[i][n].id = id
        BY <2>1 DEF Sent
      <3>2. n \in 1..Len(wire[i])
        BY <1>4, <3>1, RingAssumption
      <3>3. IsAt(id, lists, <<"wire", i>>, n) /\ p = PlaceOf(<<"wire", i>>, n)
        BY <1>4, <3>1, <3>2 DEF IsAt
      <3>4. <<"wire", i>>[1] = "wire" /\ n \in 1..Len(lists[<<"wire", i>>])
        BY <1>4, <3>2
      <3> QED BY <1>4, <3>3, <3>4 DEF LiesIn
    <2>2. ASSUME LiesIn(p, id, "wire") PROVE p \in Sent(id)
      <3>1. PICK l \in Lists : \E n \in 1..Len(lists[l]) :
              l[1] = "wire" /\ IsAt(id, lists, l, n) /\ p = PlaceOf(l, n)
        BY <2>2 DEF LiesIn
      <3>2. PICK i \in TxRings : l = <<"wire", i>>
        BY <1>5, <3>1
      <3>3. PICK n \in 1..Len(wire[i]) :
              IsAt(id, lists, <<"wire", i>>, n) /\ p = PlaceOf(<<"wire", i>>, n)
        BY <1>4, <3>1, <3>2
      <3>4. n \in 1..MaxFrames /\ n <= Len(wire[i])
        BY <1>4, <3>3, RingAssumption
      <3>5. p = <<i, n>> /\ wire[i][n].id = id
        BY <1>4, <3>3 DEF IsAt
      <3> QED BY <3>4, <3>5 DEF Sent
    <2> QED BY <2>1, <2>2
  <1> QED BY <1>6, <1>7, <1>8

\* A number that is in the lists has one place.
LEMMA OnePlace ==
  ASSUME TypeOK, FramesOK, ListsOK, NEW id, IsIn(id, lists)
  PROVE  Places(id) = 1
  <1>1. PICK l \in Lists : \E n \in 1..Len(lists[l]) : lists[l][n] = id
    BY DEF IsIn
  <1>2. PICK n \in 1..Len(lists[l]) : IsAt(id, lists, l, n)
    BY <1>1 DEF IsAt
  <1>3. ASSUME NEW kind, NEW p
        PROVE  LiesIn(p, id, kind) <=> kind = l[1] /\ p = PlaceOf(l, n)
    <2>1. ASSUME LiesIn(p, id, kind) PROVE kind = l[1] /\ p = PlaceOf(l, n)
      <3>1. PICK k \in Lists : \E m \in 1..Len(lists[k]) :
              k[1] = kind /\ IsAt(id, lists, k, m) /\ p = PlaceOf(k, m)
        BY <2>1 DEF LiesIn
      <3>2. PICK m : k[1] = kind /\ IsAt(id, lists, k, m) /\ p = PlaceOf(k, m)
        BY <3>1
      <3>3. k = l /\ m = n
        BY <1>2, <3>2, PlacesDiffer DEF ListsOK
      <3> QED BY <3>2, <3>3
    <2> QED BY <1>2, <2>1 DEF LiesIn
  <1> DEFINE place == PlaceOf(l, n)
             Is(S, kind) == IF l[1] = kind THEN S = {place} ELSE S = {}
  <1>4. Is(Waiting(id), "rx") /\ Is(Queued(id), "tx") /\ Is(Sent(id), "wire")
    <2> HIDE DEF place
    <2>1. /\ \A p : p \in Waiting(id) <=> "rx" = l[1] /\ p = place
          /\ \A p : p \in Queued(id) <=> "tx" = l[1] /\ p = place
          /\ \A p : p \in Sent(id) <=> "wire" = l[1] /\ p = place
      BY <1>3, PlacesLie DEF place
    <2> QED BY <2>1
  <1>5. l[1] \in {"rx", "tx", "wire"}
    BY KindsOfLists
  <1> HIDE DEF place
  <1>6. Cardinality({}) = 0 /\ Cardinality({place}) = 1
    BY FS_EmptySet, FS_Singleton
  <1>7. CASE l[1] = "rx"
    <2>1. Waiting(id) = {place} /\ Queued(id) = {} /\ Sent(id) = {}
      BY <1>4, <1>7
    <2> QED BY <1>6, <2>1 DEF Places
  <1>8. CASE l[1] = "tx"
    <2>1. Waiting(id) = {} /\ Queued(id) = {place} /\ Sent(id) = {}
      BY <1>4, <1>8
    <2> QED BY <1>6, <2>1 DEF Places
  <1>9. CASE l[1] = "wire"
    <2>1. Waiting(id) = {} /\ Queued(id) = {} /\ Sent(id) = {place}
      BY <1>4, <1>9
    <2> QED BY <1>6, <2>1 DEF Places
  <1> QED BY <1>5, <1>7, <1>8, <1>9

\* OneReplyEach, for any rings: a step of SearchValidRing, of ProcessRing or of the card
\* moves a number from one list to the next and never doubles it, and only a frame that
\* wants no answer is dropped.
THEOREM EachIsAnsweredOnce == Spec => []OneReplyEach
  <1>1. Init => LoopOK
    BY DEF Init, LoopOK
  <1>2. Spec => [](TypeInv /\ LoopOK)
    BY <1>1, InitTypeInv, NextTypeInv, NextLoopOK, PTL DEF Spec
  <1>3. Spec => []OrderOK
    BY <1>2, InitOrderOK, BuffersStayDistinct, NextOrderOK, PTL DEF Spec
  <1>4. TypeInv /\ TypeInv' /\ LoopOK /\ BuffersDistinct /\ OrderOK
          /\ (FramesOK /\ ListsOK) /\ [Next]_vars => (FramesOK /\ ListsOK)'
    <2>1. TypeInv' => TypeOK'
      BY DEF TypeInv
    <2> QED BY <2>1, NextOnceOK
  <1>5. Spec => [](FramesOK /\ ListsOK)
    BY <1>2, <1>3, <1>4, InitOnceOK, BuffersStayDistinct, PTL DEF Spec
  <1>6. TypeInv /\ (FramesOK /\ ListsOK) => OneReplyEach
    <2> SUFFICES ASSUME TypeInv, FramesOK, ListsOK PROVE OneReplyEach
      OBVIOUS
    <2>1. ASSUME NEW f \in arrived, f.answers PROVE Places(f.id) = 1
      BY <2>1, OnePlace DEF TypeInv, ListsOK
    <2> QED BY <2>1 DEF OneReplyEach, FramesOK, IsReply
  <1> QED BY <1>2, <1>5, <1>6, PTL
=============================================================================
