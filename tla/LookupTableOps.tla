--------------------------- MODULE LookupTableOps ---------------------------
(***************************************************************************)
(* The double-buffered table of inc/nmmc_tpl.hh as pure operators on one   *)
(* table value: every slot has an item on side a and one on side b, a bit  *)
(* of data_side_bmp_ says which of the two is valid (set: a, clear: b),    *)
(* and an update writes the other one and flips the bit.                   *)
(*                                                                         *)
(* What an item carries besides stat.valid (datalen, expire, data) is its  *)
(* `body', and the operators never look into it.                           *)
(***************************************************************************)
EXTENDS Integers

CONSTANTS
    S,        \* number of slots, the template parameter S (1<<20 in the server)
    WordBits  \* bits in a word of the bitmaps (64: slot k lives in word k>>6)

ASSUME SizeAssumption ==
    /\ S \in Nat \ {0}
    /\ WordBits \in Nat \ {0}
    /\ S % WordBits = 0     \* data_side_bmp_[S>>6] has a bit for every slot

STAT_ON  == 0
STAT_OFF == 1

Slots == 0..(S - 1)
WordOf(k) == k \div WordBits
BitOf(k)  == k - WordOf(k) * WordBits
Words == {WordOf(k) : k \in Slots}
Bits  == {BitOf(k) : k \in Slots}

ItemOf(B) == [valid : {STAT_ON, STAT_OFF}, body : B]

\* The tables whose items have their bodies in B.
TableOf(B) ==
    [a : [Slots -> ItemOf(B)], b : [Slots -> ItemOf(B)],
     side : [Words -> SUBSET Bits], notice : [Words -> SUBSET Bits],
     clock : Nat, clockPrv : Nat]

\* Clear, which the constructor calls: memset 0 everywhere. STAT_ON is 0, so
\* every slot starts out valid, with the all-zero body.
ClearedTable(zero) ==
    LET items == [k \in Slots |-> [valid |-> STAT_ON, body |-> zero]]
    IN  [a |-> items, b |-> items,
         side |-> [w \in Words |-> {}], notice |-> [w \in Words |-> {}],
         clock |-> 0, clockPrv |-> 0]

-----------------------------------------------------------------------------
(* Reading.                                                                *)

SideIsA(t, k) == BitOf(k) \in t.side[WordOf(k)]

FrontItem(t, k) == IF SideIsA(t, k) THEN t.a[k] ELSE t.b[k]
BackItem(t, k)  == IF SideIsA(t, k) THEN t.b[k] ELSE t.a[k]

\* Find(k, 0): the body behind the iterator, or the empty set for End().
Find(t, k) ==
    IF k \in Slots /\ FrontItem(t, k).valid = STAT_ON
    THEN {FrontItem(t, k).body}
    ELSE {}

\* What the other side of the slot would show: Find after a SwapSide.
Behind(t, k) ==
    IF BackItem(t, k).valid = STAT_ON THEN {BackItem(t, k).body} ELSE {}

\* The table u still has in every slot the item that was valid in t, on the side
\* it was on: what an iterator handed out for t needs in order to stay good.
KeepsFront(t, u) ==
    \A k \in Slots : IF SideIsA(t, k) THEN u.a[k] = t.a[k] ELSE u.b[k] = t.b[k]

-----------------------------------------------------------------------------
(* Writing.                                                                *)

\* The ^= on one bit of a bitmap word.
Toggle(word, bit) == IF bit \in word THEN word \ {bit} ELSE word \cup {bit}

\* Mutant of WriteBack: through Find(k, 0), the valid side.
WriteFront(t, k, item) ==
    IF SideIsA(t, k) THEN [t EXCEPT !.a[k] = item] ELSE [t EXCEPT !.b[k] = item]

\* Store an item through the iterator of Find(k, 1), the back side.
WriteBack(t, k, item) ==
    IF SideIsA(t, k) THEN [t EXCEPT !.b[k] = item] ELSE [t EXCEPT !.a[k] = item]

\* Mutant of SwapSide: off by one in the shift.
SwapSideNextBit(t, k) == [t EXCEPT !.side[WordOf(k)] = Toggle(@, BitOf(k) + 1)]

SwapSide(t, k)     == [t EXCEPT !.side[WordOf(k)] = Toggle(@, BitOf(k))]
NotifyChange(t, k) == [t EXCEPT !.notice[WordOf(k)] = Toggle(@, BitOf(k))]

\* The common tail of Add and Del: update the back side, swap, notify.
Publish(t, k, item) == NotifyChange(SwapSide(WriteBack(t, k, item), k), k)

AddItem(t, k, body) == Publish(t, k, [valid |-> STAT_ON, body |-> body])

\* Mutant: the SwapSide of Del forgotten.
DelItemUnswapped(t, k) ==
    NotifyChange(WriteBack(t, k, [BackItem(t, k) EXCEPT !.valid = STAT_OFF]), k)

\* Del marks the item that happens to be on the back side, whatever it holds.
DelItem(t, k) == Publish(t, k, [BackItem(t, k) EXCEPT !.valid = STAT_OFF])

\* operator[]: the valid item, or else the back side made valid and swapped in.
IndexItem(t, k) ==
    IF Find(t, k) # {}
    THEN t
    ELSE SwapSide(WriteBack(t, k, [BackItem(t, k) EXCEPT !.valid = STAT_ON]), k)

\* EnumerateForUpdate: refresh the back sides of the slots from 1 on, then flip
\* every bit of every word, the one of slot 0 included.
EnumerateItems(t, func) ==
    LET fresh(k)   == [valid |-> STAT_ON, body |-> func[FrontItem(t, k).body]]
        visited(k) == k # 0
    IN  [t EXCEPT
           !.a = [k \in Slots |-> IF visited(k) /\ ~SideIsA(t, k)
                                  THEN fresh(k) ELSE t.a[k]],
           !.b = [k \in Slots |-> IF visited(k) /\ SideIsA(t, k)
                                  THEN fresh(k) ELSE t.b[k]],
           !.side = [w \in Words |-> Bits \ t.side[w]]]

\* ClearNoticeBmp64 tests gcnt <= S where the other operations test gcnt > S-1.
\* Word S>>6 is the first behind data_notice_bmp_, where the class has
\* virtual_clock_counter_: called with S, it sets the clock back to zero.
ClearNoticeWord(t, k) ==
    IF WordOf(k) \in Words
    THEN [t EXCEPT !.notice[WordOf(k)] = {}]
    ELSE [t EXCEPT !.clock = 0]

=============================================================================
