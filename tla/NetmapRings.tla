----------------------------- MODULE NetmapRings -----------------------------
(***************************************************************************)
(* The loop of a worker over its netmap rings: Poll lets the kernel bring  *)
(* the rings up to date, SearchValidRing pairs a receive ring that has     *)
(* frames with a transmit ring that has room, and ProcessRing handles the  *)
(* frames one by one. A frame is answered in place: its handler turns it   *)
(* into the reply in its buffer, and Send swaps the buffers of the two     *)
(* slots, so that nothing is copied.                                       *)
(*                                                                         *)
(* A ring is a cycle of R slots. The program owns those from head up to    *)
(* tail, the kernel all others, so the kernel never has more than R - 1 to *)
(* give. The kernel is outside src/: Receive and Transmit say what the     *)
(* code relies on, and happen inside the ioctl and poll calls of Poll.     *)
(***************************************************************************)
EXTENDS Integers, Sequences, FiniteSets

CONSTANTS
    NRx,        \* receive rings, first_rx_ring..last_rx_ring
    NTx,        \* transmit rings
    R,          \* num_slots
    MaxFrames   \* bound: frames that arrive

ASSUME RingAssumption ==
    /\ NRx \in Nat \ {0}
    /\ NTx \in Nat \ {0}
    /\ R \in Nat \ {0, 1}
    /\ MaxFrames \in Nat

RxRings == 0..(NRx - 1)
TxRings == 0..(NTx - 1)
SlotIds == 0..(R - 1)

\* A buffer (buf_idx), by the slot it is in when the rings are opened.
Buffers == ({"rx"} \X RxRings \X SlotIds) \cup ({"tx"} \X TxRings \X SlotIds)

\* What a buffer holds: the frame's number and ring (0 and 0 for none), whether
\* its handler returns NEED_SEND for it, whether it has been turned into a reply.
Frame == [id: 0..MaxFrames, from: RxRings, answers: BOOLEAN, replied: BOOLEAN]

VARIABLES
    rx, tx,     \* the rings: the buffer of each slot, head (= cur) and tail
    mem,        \* the frame in each buffer
    pc,         \* "sync": in Poll's system calls; "search", "ring"
    rxi, txi,   \* rxringidx, txringidx
    rxcur,      \* rxring_cur_work
    txcur,      \* txring_cur_work
    limit,      \* of ProcessRing
    arrived,    \* history: the frames that have arrived
    wire        \* history: the frames each transmit ring has sent

vars == <<rx, tx, mem, pc, rxi, txi, rxcur, txcur, limit, arrived, wire>>

Ring == [buf: [SlotIds -> Buffers], head: SlotIds, tail: SlotIds]

TypeOK ==
    /\ rx \in [RxRings -> Ring]
    /\ tx \in [TxRings -> Ring]
    /\ mem \in [Buffers -> Frame]
    /\ pc \in {"sync", "search", "ring"}
    /\ rxi \in 0..NRx
    /\ txi \in 0..NTx
    /\ pc = "ring" => rxi < NRx /\ txi < NTx
    /\ rxcur \in SlotIds
    /\ txcur \in SlotIds
    /\ limit \in 0..(R - 1)
    /\ arrived \in SUBSET Frame
    /\ wire \in [TxRings -> Seq(Frame)]

\* After nm_open: nothing received, nothing to send, a buffer in every slot.
Init ==
    /\ rx = [i \in RxRings |-> [buf |-> [s \in SlotIds |-> <<"rx", i, s>>],
                                head |-> 0, tail |-> 0]]
    /\ tx = [i \in TxRings |-> [buf |-> [s \in SlotIds |-> <<"tx", i, s>>],
                                head |-> 0, tail |-> R - 1]]
    /\ mem = [b \in Buffers |-> [id |-> 0, from |-> 0,
                                 answers |-> FALSE, replied |-> FALSE]]
    /\ pc = "sync" /\ rxi = 0 /\ txi = 0
    /\ rxcur = 0 /\ txcur = 0 /\ limit = 0
    /\ arrived = {}
    /\ wire = [i \in TxRings |-> << >>]

-----------------------------------------------------------------------------
(* The ring helpers of netmap_user.h, as the code uses them. *)

NextSlot(s) == IF s + 1 = R THEN 0 ELSE s + 1

\* Mutant: a negative difference is not corrected.
SpaceUnwrapped(r) == r.tail - r.head

\* nm_ring_space: the slots from cur up to tail.
Space(r) == IF r.head <= r.tail THEN r.tail - r.head ELSE r.tail - r.head + R

RingEmpty(r) == r.head = r.tail

-----------------------------------------------------------------------------
(* The kernel, during NIOCRXSYNC, NIOCTXSYNC and poll. *)

Receive(i, answers) ==
    /\ pc = "sync"
    /\ Cardinality(arrived) < MaxFrames
    /\ NextSlot(rx[i].tail) # rx[i].head
    /\ LET frame == [id |-> Cardinality(arrived) + 1, from |-> i,
                     answers |-> answers, replied |-> FALSE]
       IN  /\ mem' = [mem EXCEPT ![rx[i].buf[rx[i].tail]] = frame]
           /\ arrived' = arrived \cup {frame}
    /\ rx' = [rx EXCEPT ![i].tail = NextSlot(@)]
    /\ UNCHANGED <<tx, pc, rxi, txi, rxcur, txcur, limit, wire>>

\* The oldest queued slot is sent, and is the program's again.
Transmit(i) ==
    /\ pc = "sync"
    /\ NextSlot(tx[i].tail) # tx[i].head
    /\ wire' = [wire EXCEPT ![i] =
                    Append(@, mem[tx[i].buf[NextSlot(tx[i].tail)]])]
    /\ tx' = [tx EXCEPT ![i].tail = NextSlot(@)]
    /\ UNCHANGED <<rx, mem, pc, rxi, txi, rxcur, txcur, limit, arrived>>

-----------------------------------------------------------------------------
(* Netmap::Poll, SearchValidRing and ProcessRing. *)

\* poll() reports POLLIN; otherwise it times out and Poll is called again.
Poll ==
    /\ pc = "sync"
    /\ \E i \in RxRings : ~RingEmpty(rx[i])
    /\ pc' = "search" /\ rxi' = 0 /\ txi' = 0
    /\ UNCHANGED <<rx, tx, mem, rxcur, txcur, limit, arrived, wire>>

Searching == pc = "search" /\ rxi < NRx /\ txi < NTx

SkipRx ==
    /\ Searching
    /\ RingEmpty(rx[rxi])
    /\ rxi' = rxi + 1
    /\ UNCHANGED <<rx, tx, mem, pc, txi, rxcur, txcur, limit, arrived, wire>>

\* Mutant: frames that cannot be answered now are given up.
SkipTxAndFrames ==
    /\ Searching
    /\ ~RingEmpty(rx[rxi])
    /\ RingEmpty(tx[txi])
    /\ txi' = txi + 1
    /\ rx' = [rx EXCEPT ![rxi].head = rx[rxi].tail]
    /\ UNCHANGED <<tx, mem, pc, rxi, rxcur, txcur, limit, arrived, wire>>

SkipTx ==
    /\ Searching
    /\ ~RingEmpty(rx[rxi])
    /\ RingEmpty(tx[txi])
    /\ txi' = txi + 1
    /\ UNCHANGED <<rx, tx, mem, pc, rxi, rxcur, txcur, limit, arrived, wire>>

EndSearch ==
    /\ pc = "search"
    /\ rxi = NRx \/ txi = NTx
    /\ pc' = "sync"
    /\ UNCHANGED <<rx, tx, mem, rxi, txi, rxcur, txcur, limit, arrived, wire>>

\* Mutant: the room to answer is not asked for.
LimitByRx(r, t) == Space(r)

\* As many frames as were received and could all be answered.
Limit(r, t) == IF Space(t) < Space(r) THEN Space(t) ELSE Space(r)

BeginRing ==
    /\ Searching
    /\ ~RingEmpty(rx[rxi])
    /\ ~RingEmpty(tx[txi])
    /\ pc' = "ring"
    /\ rxcur' = rx[rxi].head
    /\ txcur' = tx[txi].head
    /\ limit' = Limit(rx[rxi], tx[txi])
    /\ UNCHANGED <<rx, tx, mem, rxi, txi, arrived, wire>>

\* Mutant: Send gives the transmit slot the received buffer and leaves it to the
\* receive slot as well.
SendUnswapped ==
    LET received == rx[rxi].buf[rxcur]
    IN  /\ pc = "ring" /\ limit > 0
        /\ mem[received].answers
        /\ mem' = [mem EXCEPT ![received].replied = TRUE]
        /\ tx' = [tx EXCEPT ![txi].buf[txcur] = received]
        /\ rxcur' = NextSlot(rxcur)
        /\ txcur' = NextSlot(txcur)
        /\ limit' = limit - 1
        /\ UNCHANGED <<rx, pc, rxi, txi, arrived, wire>>

\* ARP, ICMP, or a datagram OnUdp returns NEED_SEND for. (SwapMac changes the
\* other frames too, which nobody looks at again.)
AnswerSlot ==
    LET received == rx[rxi].buf[rxcur]
        spare    == tx[txi].buf[txcur]
    IN  /\ pc = "ring" /\ limit > 0
        /\ mem[received].answers
        /\ mem' = [mem EXCEPT ![received].replied = TRUE]
        /\ tx' = [tx EXCEPT ![txi].buf[txcur] = received]    \* Send
        /\ rx' = [rx EXCEPT ![rxi].buf[rxcur] = spare]
        /\ rxcur' = NextSlot(rxcur)
        /\ txcur' = NextSlot(txcur)
        /\ limit' = limit - 1
        /\ UNCHANGED <<pc, rxi, txi, arrived, wire>>

\* Mutant: the transmit slot moves on for a frame that is not answered too.
DropSlotMovesTx ==
    /\ pc = "ring" /\ limit > 0
    /\ ~mem[rx[rxi].buf[rxcur]].answers
    /\ rxcur' = NextSlot(rxcur)
    /\ txcur' = NextSlot(txcur)
    /\ limit' = limit - 1
    /\ UNCHANGED <<rx, tx, mem, pc, rxi, txi, arrived, wire>>

DropSlot ==
    /\ pc = "ring" /\ limit > 0
    /\ ~mem[rx[rxi].buf[rxcur]].answers
    /\ rxcur' = NextSlot(rxcur)
    /\ limit' = limit - 1
    /\ UNCHANGED <<rx, tx, mem, pc, rxi, txi, txcur, arrived, wire>>

\* Mutant: the transmit ring is not handed back.
EndRingKeepsTx ==
    /\ pc = "ring" /\ limit = 0
    /\ rx' = [rx EXCEPT ![rxi].head = rxcur]
    /\ pc' = "search"
    /\ UNCHANGED <<tx, mem, rxi, txi, rxcur, txcur, limit, arrived, wire>>

\* Both rings are handed back to the kernel up to where the loop came.
EndRing ==
    /\ pc = "ring" /\ limit = 0
    /\ rx' = [rx EXCEPT ![rxi].head = rxcur]
    /\ tx' = [tx EXCEPT ![txi].head = txcur]
    /\ pc' = "search"
    /\ UNCHANGED <<mem, rxi, txi, rxcur, txcur, limit, arrived, wire>>

-----------------------------------------------------------------------------
WorkerStep ==
    \/ Poll \/ SkipRx \/ SkipTx \/ EndSearch
    \/ BeginRing \/ AnswerSlot \/ DropSlot \/ EndRing

Next ==
    \/ \E i \in RxRings, answers \in BOOLEAN : Receive(i, answers)
    \/ \E i \in TxRings : Transmit(i)
    \/ WorkerStep

Spec == Init /\ [][Next]_vars

\* The thread runs on, and every system call lets the card send.
FairSpec ==
    /\ Spec
    /\ WF_vars(WorkerStep)
    /\ \A i \in TxRings : SF_vars(Transmit(i))

-----------------------------------------------------------------------------
(* Properties *)

\* How far the program has come in a ring.
RxCursor(i) == IF pc = "ring" /\ i = rxi THEN rxcur ELSE rx[i].head
TxCursor(i) == IF pc = "ring" /\ i = txi THEN txcur ELSE tx[i].head

\* The slots from s up to t.
Between(s, t) == IF s <= t THEN s..(t - 1) ELSE (s..(R - 1)) \cup (0..(t - 1))

\* Zero-copy sending never leaves a buffer in two slots, where a frame
\* coming in would overwrite a reply going out, and never loses one (Send).
BuffersDistinct ==
    /\ \A i, j \in RxRings, s, t \in SlotIds :
           rx[i].buf[s] = rx[j].buf[t] => i = j /\ s = t
    /\ \A i, j \in TxRings, s, t \in SlotIds :
           tx[i].buf[s] = tx[j].buf[t] => i = j /\ s = t
    /\ \A i \in RxRings, j \in TxRings, s, t \in SlotIds :
           rx[i].buf[s] # tx[j].buf[t]

\* Where the frame with that number is: still to be handled, its reply still to
\* be sent, its reply sent.
Waiting(id) == {p \in RxRings \X SlotIds :
                    /\ p[2] \in Between(RxCursor(p[1]), rx[p[1]].tail)
                    /\ mem[rx[p[1]].buf[p[2]]].id = id}
Queued(id) == {p \in TxRings \X SlotIds :
                   /\ p[2] \in Between(NextSlot(tx[p[1]].tail), TxCursor(p[1]))
                   /\ mem[tx[p[1]].buf[p[2]]].id = id}
Sent(id) == {p \in TxRings \X (1..MaxFrames) :
                 p[2] <= Len(wire[p[1]]) /\ wire[p[1]][p[2]].id = id}
Places(id) ==
    Cardinality(Waiting(id)) + Cardinality(Queued(id)) + Cardinality(Sent(id))

\* A frame that wants an answer is waiting, or its one reply is queued or
\* sent: a full transmit ring holds frames back and loses none, and no frame is
\* answered twice. Nothing but the replies goes out (SearchValidRing, ProcessRing).
OneReplyEach ==
    /\ \A f \in arrived : f.answers => Places(f.id) = 1
    /\ \A i \in TxRings : \A n \in 1..Len(wire[i]) :
           wire[i][n].answers /\ wire[i][n].replied

\* Replies to the frames of one receive ring leave a transmit ring in the order
\* in which the frames came.
RepliesInOrder ==
    \A i \in TxRings : \A m, n \in 1..Len(wire[i]) :
        m < n /\ wire[i][m].from = wire[i][n].from
            => wire[i][m].id < wire[i][n].id

\* ProcessRing gives another buffer only to slots that are the program's,
\* never to one the kernel is receiving into or sending from.
OnlyOwnSlots ==
    [][ /\ \A i \in RxRings, s \in SlotIds :
               rx[i].buf[s] # rx'[i].buf[s] => s \in Between(rx[i].head, rx[i].tail)
        /\ \A i \in TxRings, s \in SlotIds :
               tx[i].buf[s] # tx'[i].buf[s] => s \in Between(tx[i].head, tx[i].tail)
      ]_vars

\* A frame that wants an answer gets it, however full the transmit rings were.
EachIsAnswered ==
    \A id \in 1..MaxFrames :
        (\E f \in arrived : f.id = id /\ f.answers) ~> Sent(id) # {}
=============================================================================
