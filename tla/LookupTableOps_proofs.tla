------------------------ MODULE LookupTableOps_proofs ------------------------
(***************************************************************************)
(* What the operators of LookupTableOps do, for every number of slots and  *)
(* every word width: they keep the shape of the table, never store into a  *)
(* valid side, and change what Find returns for their own slot only. The   *)
(* state machines that hold a table cite these lemmas and never open it.   *)
(***************************************************************************)
EXTENDS LookupTableOps, TLAPS

\* Two slots share neither word nor bit, or they are the same slot: the bitmap
\* arithmetic gcnt>>6 and gcnt-((gcnt>>6)<<6) gives every slot a bit of its own.
LEMMA BitsAreDistinct ==
    ASSUME NEW k \in Slots, NEW j \in Slots, k # j
    PROVE  WordOf(k) # WordOf(j) \/ BitOf(k) # BitOf(j)
<1>1. SUFFICES ASSUME WordOf(k) = WordOf(j), BitOf(k) = BitOf(j)
               PROVE  FALSE
  OBVIOUS
<1>2. WordOf(k) \in Int /\ WordOf(j) \in Int
  BY SizeAssumption DEF WordOf, Slots
<1>3. WordOf(k) * WordBits = WordOf(j) * WordBits
  BY <1>1
<1>4. WordOf(k) * WordBits \in Int
  BY <1>2, SizeAssumption
<1>5. k = j
  BY <1>1, <1>3, <1>4, SizeAssumption DEF BitOf, Slots
<1>6. QED  BY <1>5

\* The bit and the word of a slot are a bit and a word of the bitmap.
LEMMA BitInRange ==
    ASSUME NEW k \in Slots
    PROVE  WordOf(k) \in Words /\ BitOf(k) \in Bits
BY DEF Words, Bits

\* Toggle stays within a word and changes the membership of one bit.
LEMMA ToggleOneBit ==
    ASSUME NEW word \in SUBSET Bits, NEW bit \in Bits
    PROVE  /\ Toggle(word, bit) \in SUBSET Bits
           /\ bit \in Toggle(word, bit) <=> bit \notin word
           /\ \A other \in Bits \ {bit} : other \in Toggle(word, bit) <=> other \in word
BY DEF Toggle

\* SwapSide turns the side of its own slot, and of no other slot.
LEMMA SwapTurnsOneSlot ==
    ASSUME NEW B, NEW t \in TableOf(B), NEW k \in Slots
    PROVE  /\ SwapSide(t, k) \in TableOf(B)
           /\ SwapSide(t, k).a = t.a /\ SwapSide(t, k).b = t.b
           /\ SwapSide(t, k).clock = t.clock /\ SwapSide(t, k).clockPrv = t.clockPrv
           /\ SideIsA(SwapSide(t, k), k) <=> ~SideIsA(t, k)
           /\ \A j \in Slots \ {k} : SideIsA(SwapSide(t, k), j) <=> SideIsA(t, j)
<1> DEFINE w == WordOf(k)
           u == SwapSide(t, k)
<1>1. w \in Words /\ BitOf(k) \in Bits /\ t.side \in [Words -> SUBSET Bits]
  BY BitInRange DEF TableOf
<1>2. u.side = [t.side EXCEPT ![w] = Toggle(t.side[w], BitOf(k))]
  BY DEF SwapSide, TableOf
<1>3. u.a = t.a /\ u.b = t.b /\ u.notice = t.notice /\ u.clock = t.clock
      /\ u.clockPrv = t.clockPrv
  BY DEF SwapSide, TableOf
<1>4. Toggle(t.side[w], BitOf(k)) \in SUBSET Bits
  BY <1>1, ToggleOneBit
<1>5. u.side \in [Words -> SUBSET Bits]
  BY <1>1, <1>2, <1>4
<1>6. u \in TableOf(B)
  BY <1>5, <1>1, <1>2, <1>4 DEF SwapSide, TableOf
<1>7. SideIsA(u, k) <=> ~SideIsA(t, k)
  BY <1>1, <1>2, ToggleOneBit DEF SideIsA
<1>8. ASSUME NEW j \in Slots \ {k}
      PROVE  SideIsA(u, j) <=> SideIsA(t, j)
  <2>1. WordOf(j) \in Words /\ BitOf(j) \in Bits
    BY BitInRange
  <2>2. CASE WordOf(j) # w
    BY <1>1, <1>2, <2>1, <2>2 DEF SideIsA
  <2>3. CASE WordOf(j) = w
    <3>1. BitOf(j) # BitOf(k)
      BY <2>3, BitsAreDistinct
    <3>2. BitOf(j) \in Toggle(t.side[w], BitOf(k)) <=> BitOf(j) \in t.side[w]
      BY <1>1, <2>1, <3>1, ToggleOneBit
    <3>3. u.side[WordOf(j)] = Toggle(t.side[w], BitOf(k))
      BY <1>1, <1>2, <2>3
    <3>4. QED  BY <2>3, <3>2, <3>3 DEF SideIsA
  <2>4. QED  BY <2>2, <2>3
<1>9. QED  BY <1>3, <1>6, <1>7, <1>8

\* NotifyChange touches the notice bitmap only.
LEMMA NotifyOnlyNotes ==
    ASSUME NEW B, NEW t \in TableOf(B), NEW k \in Slots
    PROVE  LET u == NotifyChange(t, k)
           IN  /\ u \in TableOf(B)
               /\ u.a = t.a /\ u.b = t.b /\ u.side = t.side
               /\ u.clock = t.clock /\ u.clockPrv = t.clockPrv
<1> DEFINE w == WordOf(k)
           u == NotifyChange(t, k)
<1>1. w \in Words /\ BitOf(k) \in Bits /\ t.notice \in [Words -> SUBSET Bits]
  BY BitInRange DEF TableOf
<1>2. Toggle(t.notice[w], BitOf(k)) \in SUBSET Bits
  BY <1>1, ToggleOneBit
<1>3. u \in TableOf(B)
  BY <1>1, <1>2 DEF NotifyChange, TableOf
<1>4. u.a = t.a /\ u.b = t.b /\ u.side = t.side /\ u.clock = t.clock
      /\ u.clockPrv = t.clockPrv
  BY DEF NotifyChange, TableOf
<1>5. QED  BY <1>3, <1>4

\* An item stored through Find(k, 1) lands on the back side and nowhere else.
LEMMA WriteBackKeepsFront ==
    ASSUME NEW B, NEW t \in TableOf(B), NEW k \in Slots, NEW item \in ItemOf(B)
    PROVE  LET u == WriteBack(t, k, item)
           IN  /\ u \in TableOf(B)
               /\ u.side = t.side
               /\ u.clock = t.clock /\ u.clockPrv = t.clockPrv
               /\ SideIsA(t, k) => u.a = t.a /\ u.b = [t.b EXCEPT ![k] = item]
               /\ ~SideIsA(t, k) => u.b = t.b /\ u.a = [t.a EXCEPT ![k] = item]
BY DEF WriteBack, TableOf

\* Publishing an item shows it in its slot, with what was shown before behind it,
\* leaves every other slot as it was, and does not store into the side that was
\* valid.
LEMMA PublishShowsItem ==
    ASSUME NEW B, NEW t \in TableOf(B), NEW k \in Slots, NEW item \in ItemOf(B)
    PROVE  LET u == Publish(t, k, item)
           IN  /\ u \in TableOf(B)
               /\ u.clock = t.clock /\ u.clockPrv = t.clockPrv
               /\ FrontItem(u, k) = item /\ BackItem(u, k) = FrontItem(t, k)
               /\ \A j \in Slots \ {k} : /\ FrontItem(u, j) = FrontItem(t, j)
                                        /\ BackItem(u, j) = BackItem(t, j)
               /\ KeepsFront(t, u)
<1> DEFINE v == WriteBack(t, k, item)
           x == SwapSide(v, k)
           u == Publish(t, k, item)
<1>1. /\ v \in TableOf(B)
      /\ v.side = t.side
      /\ v.clock = t.clock /\ v.clockPrv = t.clockPrv
      /\ SideIsA(t, k) => v.a = t.a /\ v.b = [t.b EXCEPT ![k] = item]
      /\ ~SideIsA(t, k) => v.b = t.b /\ v.a = [t.a EXCEPT ![k] = item]
  BY WriteBackKeepsFront
<1>2. \A j \in Slots : SideIsA(v, j) <=> SideIsA(t, j)
  BY <1>1 DEF SideIsA
<1>3. /\ x \in TableOf(B)
      /\ x.a = v.a /\ x.b = v.b
      /\ x.clock = v.clock /\ x.clockPrv = v.clockPrv
      /\ SideIsA(x, k) <=> ~SideIsA(v, k)
      /\ \A j \in Slots \ {k} : SideIsA(x, j) <=> SideIsA(v, j)
  BY <1>1, SwapTurnsOneSlot
<1>4. /\ u \in TableOf(B)
      /\ u.a = x.a /\ u.b = x.b /\ u.side = x.side
      /\ u.clock = x.clock /\ u.clockPrv = x.clockPrv
  BY <1>3, NotifyOnlyNotes DEF Publish
<1>5. \A j \in Slots : SideIsA(u, j) <=> SideIsA(x, j)
  BY <1>4 DEF SideIsA
<1>6. t.a \in [Slots -> ItemOf(B)] /\ t.b \in [Slots -> ItemOf(B)]
  BY DEF TableOf
<1>7. FrontItem(u, k) = item /\ BackItem(u, k) = FrontItem(t, k)
  BY <1>1, <1>2, <1>3, <1>4, <1>5, <1>6 DEF FrontItem, BackItem
<1>8. \A j \in Slots \ {k} : FrontItem(u, j) = FrontItem(t, j) /\ BackItem(u, j) = BackItem(t, j)
  BY <1>1, <1>2, <1>3, <1>4, <1>5, <1>6 DEF FrontItem, BackItem
<1>9. KeepsFront(t, u)
  BY <1>1, <1>3, <1>4, <1>6 DEF KeepsFront
<1>10. QED  BY <1>1, <1>3, <1>4, <1>7, <1>8, <1>9

\* Both sides of a slot are items.
LEMMA ItemsTyped ==
    ASSUME NEW B, NEW t \in TableOf(B), NEW k \in Slots
    PROVE  FrontItem(t, k) \in ItemOf(B) /\ BackItem(t, k) \in ItemOf(B)
BY DEF FrontItem, BackItem, TableOf

\* Add: Find returns the body in its slot and what it did anywhere else, and what
\* the slot showed before is behind the body.
LEMMA AddVisible ==
    ASSUME NEW B, NEW t \in TableOf(B), NEW k \in Slots, NEW body \in B
    PROVE  LET u == AddItem(t, k, body)
           IN  /\ u \in TableOf(B)
               /\ u.clock = t.clock /\ u.clockPrv = t.clockPrv
               /\ Find(u, k) = {body} /\ Behind(u, k) = Find(t, k)
               /\ \A j \in Slots \ {k} : Find(u, j) = Find(t, j) /\ Behind(u, j) = Behind(t, j)
               /\ KeepsFront(t, u)
<1> DEFINE item == [valid |-> STAT_ON, body |-> body]
<1>1. item \in ItemOf(B)
  BY DEF ItemOf
<1>2. AddItem(t, k, body) = Publish(t, k, item)
  BY DEF AddItem
<1> HIDE DEF item
<1>3. item.valid = STAT_ON /\ item.body = body
  BY DEF item
<1> DEFINE u == Publish(t, k, item)
<1>4. /\ u \in TableOf(B)
      /\ u.clock = t.clock /\ u.clockPrv = t.clockPrv
      /\ FrontItem(u, k) = item /\ BackItem(u, k) = FrontItem(t, k)
      /\ \A j \in Slots \ {k} : FrontItem(u, j) = FrontItem(t, j) /\ BackItem(u, j) = BackItem(t, j)
      /\ KeepsFront(t, u)
  BY <1>1, PublishShowsItem
<1> HIDE DEF u
<1>5. Find(u, k) = {body} /\ Behind(u, k) = Find(t, k)
  BY <1>3, <1>4 DEF Find, Behind
<1>6. \A j \in Slots \ {k} : Find(u, j) = Find(t, j) /\ Behind(u, j) = Behind(t, j)
  BY <1>4 DEF Find, Behind
<1>7. QED  BY <1>2, <1>4, <1>5, <1>6 DEF u

\* Del: Find returns End() in its slot and what it did anywhere else, and what the
\* slot showed before is behind that.
LEMMA DelVisible ==
    ASSUME NEW B, NEW t \in TableOf(B), NEW k \in Slots
    PROVE  LET u == DelItem(t, k)
           IN  /\ u \in TableOf(B)
               /\ u.clock = t.clock /\ u.clockPrv = t.clockPrv
               /\ Find(u, k) = {} /\ Behind(u, k) = Find(t, k)
               /\ \A j \in Slots \ {k} : Find(u, j) = Find(t, j) /\ Behind(u, j) = Behind(t, j)
               /\ KeepsFront(t, u)
<1> DEFINE item == [BackItem(t, k) EXCEPT !.valid = STAT_OFF]
<1>1. item \in ItemOf(B) /\ item.valid = STAT_OFF
  BY ItemsTyped DEF ItemOf
<1>2. DelItem(t, k) = Publish(t, k, item)
  BY DEF DelItem
<1> HIDE DEF item
<1>3. STAT_OFF # STAT_ON
  BY DEF STAT_OFF, STAT_ON
<1> DEFINE u == Publish(t, k, item)
<1>4. /\ u \in TableOf(B)
      /\ u.clock = t.clock /\ u.clockPrv = t.clockPrv
      /\ FrontItem(u, k) = item /\ BackItem(u, k) = FrontItem(t, k)
      /\ \A j \in Slots \ {k} : FrontItem(u, j) = FrontItem(t, j) /\ BackItem(u, j) = BackItem(t, j)
      /\ KeepsFront(t, u)
  BY <1>1, PublishShowsItem
<1> HIDE DEF u
<1>5. Find(u, k) = {} /\ Behind(u, k) = Find(t, k)
  BY <1>1, <1>3, <1>4 DEF Find, Behind
<1>6. \A j \in Slots \ {k} : Find(u, j) = Find(t, j) /\ Behind(u, j) = Behind(t, j)
  BY <1>4 DEF Find, Behind
<1>7. QED  BY <1>2, <1>4, <1>5, <1>6 DEF u

\* The other operations keep the shape of the table as well.
LEMMA ClearedTyped ==
    ASSUME NEW B, NEW zero \in B
    PROVE  /\ ClearedTable(zero) \in TableOf(B)
           /\ ClearedTable(zero).clock = 0 /\ ClearedTable(zero).clockPrv = 0
           /\ \A k \in Slots : /\ Find(ClearedTable(zero), k) = {zero}
                              /\ Behind(ClearedTable(zero), k) = {zero}
<1>1. ClearedTable(zero) \in TableOf(B)
  BY DEF ClearedTable, TableOf, ItemOf
<1>2. QED  BY <1>1 DEF ClearedTable, Find, FrontItem, Behind, BackItem, SideIsA

LEMMA IndexTyped ==
    ASSUME NEW B, NEW t \in TableOf(B), NEW k \in Slots
    PROVE  LET u == IndexItem(t, k)
           IN  /\ u \in TableOf(B)
               /\ u.clock = t.clock /\ u.clockPrv = t.clockPrv
               /\ KeepsFront(t, u)
<1> DEFINE item == [BackItem(t, k) EXCEPT !.valid = STAT_ON]
           v == WriteBack(t, k, item)
<1>1. CASE Find(t, k) # {}
  BY <1>1 DEF IndexItem, KeepsFront
<1>2. CASE Find(t, k) = {}
  <2>1. item \in ItemOf(B)
    BY ItemsTyped DEF ItemOf
  <2>2. IndexItem(t, k) = SwapSide(v, k)
    BY <1>2 DEF IndexItem
  <2> HIDE DEF item
  <2>3. /\ v \in TableOf(B)
        /\ v.clock = t.clock /\ v.clockPrv = t.clockPrv
        /\ SideIsA(t, k) => v.a = t.a /\ v.b = [t.b EXCEPT ![k] = item]
        /\ ~SideIsA(t, k) => v.b = t.b /\ v.a = [t.a EXCEPT ![k] = item]
    BY <2>1, WriteBackKeepsFront
  <2>4. t.a \in [Slots -> ItemOf(B)] /\ t.b \in [Slots -> ItemOf(B)]
    BY DEF TableOf
  <2> HIDE DEF v
  <2>5. QED  BY <2>2, <2>3, <2>4, SwapTurnsOneSlot DEF KeepsFront
<1>3. QED  BY <1>1, <1>2

LEMMA EnumerateTyped ==
    ASSUME NEW B, NEW t \in TableOf(B), NEW func \in [B -> B]
    PROVE  LET u == EnumerateItems(t, func)
           IN  /\ u \in TableOf(B)
               /\ u.clock = t.clock /\ u.clockPrv = t.clockPrv
               /\ KeepsFront(t, u)
<1> DEFINE fresh(k) == [valid |-> STAT_ON, body |-> func[FrontItem(t, k).body]]
           na == [k \in Slots |-> IF k # 0 /\ ~SideIsA(t, k) THEN fresh(k) ELSE t.a[k]]
           nb == [k \in Slots |-> IF k # 0 /\ SideIsA(t, k) THEN fresh(k) ELSE t.b[k]]
           ns == [w \in Words |-> Bits \ t.side[w]]
           u  == [t EXCEPT !.a = na, !.b = nb, !.side = ns]
<1>1. \A k \in Slots : fresh(k) \in ItemOf(B)
  BY ItemsTyped DEF ItemOf
<1>2. EnumerateItems(t, func) = u
  BY DEF EnumerateItems
<1> HIDE DEF fresh
<1>3. na \in [Slots -> ItemOf(B)] /\ nb \in [Slots -> ItemOf(B)]
  BY <1>1 DEF TableOf
<1>4. ns \in [Words -> SUBSET Bits]
  OBVIOUS
<1>5. \A k \in Slots : (SideIsA(t, k) => na[k] = t.a[k]) /\ (~SideIsA(t, k) => nb[k] = t.b[k])
  OBVIOUS
<1> HIDE DEF na, nb, ns
<1>6. /\ u \in TableOf(B)
      /\ u.a = na /\ u.b = nb /\ u.clock = t.clock /\ u.clockPrv = t.clockPrv
  BY <1>3, <1>4 DEF TableOf
<1>7. QED  BY <1>2, <1>5, <1>6 DEF KeepsFront

\* ClearNoticeBmp64 with any key: it clears a word of notice bits, or the clock.
LEMMA ClearNoticeTyped ==
    ASSUME NEW B, NEW t \in TableOf(B), NEW k
    PROVE  LET u == ClearNoticeWord(t, k)
           IN  /\ u \in TableOf(B)
               /\ u.a = t.a /\ u.b = t.b /\ u.side = t.side
               /\ u.clock \in {0, t.clock} /\ u.clockPrv = t.clockPrv
<1>1. CASE WordOf(k) \in Words
  BY <1>1 DEF ClearNoticeWord, TableOf
<1>2. CASE WordOf(k) \notin Words
  BY <1>2 DEF ClearNoticeWord, TableOf
<1>3. QED  BY <1>1, <1>2

-----------------------------------------------------------------------------
(* What the two sides of a slot hold: an operation puts nothing there that *)
(* was not in that slot already, except the body it was given.             *)

Held(t, k) == {t.a[k].body, t.b[k].body}

LEMMA HeldTyped ==
    ASSUME NEW B, NEW t \in TableOf(B), NEW k \in Slots
    PROVE  /\ FrontItem(t, k).body \in Held(t, k) /\ BackItem(t, k).body \in Held(t, k)
           /\ Find(t, k) \subseteq Held(t, k) /\ Behind(t, k) \subseteq Held(t, k)
           /\ Held(t, k) \subseteq B
BY DEF Held, Find, Behind, FrontItem, BackItem, TableOf, ItemOf

LEMMA WriteBackHeld ==
    ASSUME NEW B, NEW t \in TableOf(B), NEW k \in Slots, NEW item \in ItemOf(B),
           NEW j \in Slots
    PROVE  Held(WriteBack(t, k, item), j)
             \subseteq Held(t, j) \cup (IF j = k THEN {item.body} ELSE {})
<1> DEFINE v == WriteBack(t, k, item)
<1>1. /\ SideIsA(t, k) => v.a = t.a /\ v.b = [t.b EXCEPT ![k] = item]
      /\ ~SideIsA(t, k) => v.b = t.b /\ v.a = [t.a EXCEPT ![k] = item]
  BY WriteBackKeepsFront
<1>2. t.a \in [Slots -> ItemOf(B)] /\ t.b \in [Slots -> ItemOf(B)]
  BY DEF TableOf
<1> HIDE DEF v
<1>3. Held(v, j) \subseteq Held(t, j) \cup (IF j = k THEN {item.body} ELSE {})
  BY <1>1, <1>2 DEF Held
<1>4. QED  BY <1>3 DEF v

LEMMA PublishHeld ==
    ASSUME NEW B, NEW t \in TableOf(B), NEW k \in Slots, NEW item \in ItemOf(B),
           NEW j \in Slots
    PROVE  Held(Publish(t, k, item), j)
             \subseteq Held(t, j) \cup (IF j = k THEN {item.body} ELSE {})
<1> DEFINE v == WriteBack(t, k, item)
           x == SwapSide(v, k)
           u == Publish(t, k, item)
<1>1. v \in TableOf(B)
  BY WriteBackKeepsFront
<1>2. x \in TableOf(B) /\ x.a = v.a /\ x.b = v.b
  BY <1>1, SwapTurnsOneSlot
<1>3. u.a = x.a /\ u.b = x.b
  BY <1>2, NotifyOnlyNotes DEF Publish
<1>4. Held(u, j) = Held(v, j)
  BY <1>2, <1>3 DEF Held
<1>5. QED  BY <1>4, WriteBackHeld

LEMMA AddHeld ==
    ASSUME NEW B, NEW t \in TableOf(B), NEW k \in Slots, NEW body \in B, NEW j \in Slots
    PROVE  Held(AddItem(t, k, body), j)
             \subseteq Held(t, j) \cup (IF j = k THEN {body} ELSE {})
<1> DEFINE item == [valid |-> STAT_ON, body |-> body]
<1>1. item \in ItemOf(B) /\ item.body = body
  BY DEF ItemOf
<1>2. AddItem(t, k, body) = Publish(t, k, item)
  BY DEF AddItem
<1> HIDE DEF item
<1>3. QED  BY <1>1, <1>2, PublishHeld

LEMMA DelHeld ==
    ASSUME NEW B, NEW t \in TableOf(B), NEW k \in Slots, NEW j \in Slots
    PROVE  Held(DelItem(t, k), j) \subseteq Held(t, j)
<1> DEFINE item == [BackItem(t, k) EXCEPT !.valid = STAT_OFF]
<1>1. item \in ItemOf(B) /\ item.body = BackItem(t, k).body
  BY ItemsTyped DEF ItemOf
<1>2. DelItem(t, k) = Publish(t, k, item)
  BY DEF DelItem
<1> HIDE DEF item
<1>3. BackItem(t, k).body \in Held(t, k)
  BY HeldTyped
<1>4. QED  BY <1>1, <1>2, <1>3, PublishHeld

\* operator[]: a valid slot stays as it is; another one shows its back side.
LEMMA IndexVisible ==
    ASSUME NEW B, NEW t \in TableOf(B), NEW k \in Slots
    PROVE  LET u == IndexItem(t, k)
           IN  /\ Find(t, k) # {} => u = t
               /\ Find(t, k) = {} => Find(u, k) = {BackItem(t, k).body} /\ Behind(u, k) = {}
               /\ \A j \in Slots \ {k} : Find(u, j) = Find(t, j) /\ Behind(u, j) = Behind(t, j)
               /\ \A j \in Slots : Held(u, j) \subseteq Held(t, j)
<1> DEFINE item == [BackItem(t, k) EXCEPT !.valid = STAT_ON]
           v == WriteBack(t, k, item)
           u == SwapSide(v, k)
<1>1. CASE Find(t, k) # {}
  BY <1>1 DEF IndexItem
<1>2. CASE Find(t, k) = {}
  <2>1. /\ item \in ItemOf(B) /\ item.valid = STAT_ON
        /\ item.body = BackItem(t, k).body /\ item.body \in Held(t, k)
    BY ItemsTyped, HeldTyped DEF ItemOf
  <2>2. IndexItem(t, k) = u
    BY <1>2 DEF IndexItem
  <2> HIDE DEF item
  <2>3. /\ v \in TableOf(B) /\ v.side = t.side
        /\ SideIsA(t, k) => v.a = t.a /\ v.b = [t.b EXCEPT ![k] = item]
        /\ ~SideIsA(t, k) => v.b = t.b /\ v.a = [t.a EXCEPT ![k] = item]
        /\ \A j \in Slots : SideIsA(v, j) <=> SideIsA(t, j)
    BY <2>1, WriteBackKeepsFront DEF SideIsA
  <2>4. \A j \in Slots : Held(v, j) \subseteq Held(t, j)
    BY <2>1, WriteBackHeld
  <2>5. t.a \in [Slots -> ItemOf(B)] /\ t.b \in [Slots -> ItemOf(B)]
    BY DEF TableOf
  <2> HIDE DEF v
  <2>6. /\ u.a = v.a /\ u.b = v.b
        /\ SideIsA(u, k) <=> ~SideIsA(v, k)
        /\ \A j \in Slots \ {k} : SideIsA(u, j) <=> SideIsA(v, j)
    BY <2>3, SwapTurnsOneSlot
  <2> HIDE DEF u
  <2>7. /\ FrontItem(u, k) = item /\ BackItem(u, k) = FrontItem(t, k)
        /\ \A j \in Slots \ {k} : FrontItem(u, j) = FrontItem(t, j) /\ BackItem(u, j) = BackItem(t, j)
    BY <2>3, <2>5, <2>6 DEF FrontItem, BackItem
  <2>8. \A j \in Slots : Held(u, j) = Held(v, j)
    BY <2>6 DEF Held
  <2>9. /\ Find(u, k) = {item.body} /\ Behind(u, k) = {}
        /\ \A j \in Slots \ {k} : Find(u, j) = Find(t, j) /\ Behind(u, j) = Behind(t, j)
    BY <1>2, <2>1, <2>7 DEF Find, Behind
  <2>10. QED  BY <1>2, <2>1, <2>2, <2>4, <2>8, <2>9
<1>3. QED  BY <1>1, <1>2

\* SwapSide: the slot shows what was behind, with what it showed behind that.
LEMMA SwapVisible ==
    ASSUME NEW B, NEW t \in TableOf(B), NEW k \in Slots
    PROVE  LET u == SwapSide(t, k)
           IN  /\ Find(u, k) = Behind(t, k) /\ Behind(u, k) = Find(t, k)
               /\ \A j \in Slots \ {k} : Find(u, j) = Find(t, j) /\ Behind(u, j) = Behind(t, j)
               /\ \A j \in Slots : Held(u, j) = Held(t, j)
<1> DEFINE u == SwapSide(t, k)
<1>1. /\ u.a = t.a /\ u.b = t.b
      /\ SideIsA(u, k) <=> ~SideIsA(t, k)
      /\ \A j \in Slots \ {k} : SideIsA(u, j) <=> SideIsA(t, j)
  BY SwapTurnsOneSlot
<1> HIDE DEF u
<1>2. FrontItem(u, k) = BackItem(t, k) /\ BackItem(u, k) = FrontItem(t, k)
  BY <1>1 DEF FrontItem, BackItem
<1>3. \A j \in Slots \ {k} : FrontItem(u, j) = FrontItem(t, j) /\ BackItem(u, j) = BackItem(t, j)
  BY <1>1 DEF FrontItem, BackItem
<1>4. Find(u, k) = Behind(t, k) /\ Behind(u, k) = Find(t, k)
  BY <1>2 DEF Find, Behind
<1>5. \A j \in Slots \ {k} : Find(u, j) = Find(t, j) /\ Behind(u, j) = Behind(t, j)
  BY <1>3 DEF Find, Behind
<1>6. \A j \in Slots : Held(u, j) = Held(t, j)
  BY <1>1 DEF Held
<1>7. QED  BY <1>4, <1>5, <1>6 DEF u

\* EnumerateForUpdate: every slot but the first shows its updated item, with what
\* it showed before behind it, and the first one swaps its sides.
LEMMA EnumerateVisible ==
    ASSUME NEW B, NEW t \in TableOf(B), NEW func \in [B -> B], NEW k \in Slots
    PROVE  LET u == EnumerateItems(t, func)
           IN  /\ k # 0 => Find(u, k) = {func[FrontItem(t, k).body]}
               /\ k = 0 => Find(u, k) = Behind(t, k)
               /\ Behind(u, k) = Find(t, k)
               /\ Held(u, k) \subseteq Held(t, k) \cup Find(u, k)
<1> DEFINE fresh(j) == [valid |-> STAT_ON, body |-> func[FrontItem(t, j).body]]
           na == [j \in Slots |-> IF j # 0 /\ ~SideIsA(t, j) THEN fresh(j) ELSE t.a[j]]
           nb == [j \in Slots |-> IF j # 0 /\ SideIsA(t, j) THEN fresh(j) ELSE t.b[j]]
           ns == [w \in Words |-> Bits \ t.side[w]]
           u  == [t EXCEPT !.a = na, !.b = nb, !.side = ns]
<1>1. EnumerateItems(t, func) = u
  BY DEF EnumerateItems
<1>2. fresh(k).valid = STAT_ON /\ fresh(k).body = func[FrontItem(t, k).body]
  OBVIOUS
<1> HIDE DEF fresh
<1>3. /\ na[k] = IF k # 0 /\ ~SideIsA(t, k) THEN fresh(k) ELSE t.a[k]
      /\ nb[k] = IF k # 0 /\ SideIsA(t, k) THEN fresh(k) ELSE t.b[k]
      /\ ns[WordOf(k)] = Bits \ t.side[WordOf(k)] /\ BitOf(k) \in Bits
  BY BitInRange
<1> HIDE DEF na, nb, ns
<1>4. u.a = na /\ u.b = nb /\ u.side = ns
  BY DEF TableOf
<1> HIDE DEF u
<1>5. SideIsA(u, k) <=> ~SideIsA(t, k)
  BY <1>3, <1>4 DEF SideIsA
<1>6. /\ FrontItem(u, k) = IF k # 0 THEN fresh(k) ELSE BackItem(t, k)
      /\ BackItem(u, k) = FrontItem(t, k)
  BY <1>3, <1>4, <1>5 DEF FrontItem, BackItem
<1>7. /\ Find(u, k) = IF FrontItem(u, k).valid = STAT_ON THEN {FrontItem(u, k).body} ELSE {}
      /\ k = 0 => Find(u, k) = Behind(t, k)
      /\ Behind(u, k) = Find(t, k)
  BY <1>6 DEF Find, Behind
<1>8. Held(u, k) \subseteq Held(t, k) \cup (IF k # 0 THEN {fresh(k).body} ELSE {})
  BY <1>3, <1>4 DEF Held
<1>9. QED  BY <1>1, <1>2, <1>6, <1>7, <1>8
=============================================================================
