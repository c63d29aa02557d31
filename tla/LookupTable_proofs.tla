-------------------------- MODULE LookupTable_proofs --------------------------
(***************************************************************************)
(* What LookupTable, and TableStore on top of it, guarantee for every      *)
(* table size, word width, set of bodies and number of clock ticks.        *)
(***************************************************************************)
EXTENDS TableStore, LookupTableOps_proofs

\* The clock check consumes the tick and leaves the rest of the table alone.
LEMMA ConsumedTyped ==
    ASSUME TypeOK, NEW chk \in {0, 1}
    PROVE  LET u == Consumed(chk)
           IN  /\ u \in TableOf(Bodies)
               /\ u.a = tbl.a /\ u.b = tbl.b /\ u.side = tbl.side
               /\ u.clock = tbl.clock
               /\ u.clockPrv = IF chk = 1 THEN tbl.clock ELSE tbl.clockPrv
BY DEF Consumed, TypeOK, TableOf

\* A changed table was tbl with its tick consumed, and kept the fronts.
LEMMA ChangeEffect ==
    ASSUME TypeOK, NEW k \in ApiKeys, NEW chk \in {0, 1}, Change(k, chk)
    PROVE  /\ tbl' \in TableOf(Bodies)
           /\ accepted' = accepted + chk /\ ticks' = ticks
           /\ chk = 1 => tbl.clock > tbl.clockPrv
           /\ tbl'.clock = tbl.clock
           /\ tbl'.clockPrv = IF chk = 1 THEN tbl.clock ELSE tbl.clockPrv
           /\ KeepsFront(tbl, tbl')
<1> DEFINE u == Consumed(chk)
<1>1. /\ u \in TableOf(Bodies)
      /\ u.a = tbl.a /\ u.b = tbl.b /\ u.side = tbl.side
      /\ u.clock = tbl.clock
      /\ u.clockPrv = IF chk = 1 THEN tbl.clock ELSE tbl.clockPrv
  BY ConsumedTyped
<1> HIDE DEF u
<1>2. PICK new \in {DelItem(u, k)} \cup {AddItem(u, k, body) : body \in Bodies} :
         Admit(k, chk, new)
  BY DEF Change, Add, Del, u
<1>3. /\ accepted' = accepted + chk /\ ticks' = ticks
      /\ chk = 1 => tbl.clock > tbl.clockPrv
  BY <1>2 DEF Admit, ClockMoved
<1>4. \A v : KeepsFront(u, v) => KeepsFront(tbl, v)
  BY <1>1 DEF KeepsFront, SideIsA
<1>5. CASE k \in Slots
  <2>1. tbl' = new
    BY <1>2, <1>5 DEF Admit
  <2>2. /\ new \in TableOf(Bodies)
        /\ new.clock = u.clock /\ new.clockPrv = u.clockPrv
        /\ KeepsFront(u, new)
    <3>1. CASE new = DelItem(u, k)
      BY <1>1, <1>5, <3>1, DelVisible
    <3>2. CASE new \in {AddItem(u, k, body) : body \in Bodies}
      <4>1. PICK body \in Bodies : new = AddItem(u, k, body)
        BY <3>2
      <4>2. QED  BY <1>1, <1>5, <4>1, AddVisible
    <3>3. QED  BY <1>2, <3>1, <3>2
  <2>3. QED  BY <1>1, <1>3, <1>4, <2>1, <2>2
<1>6. CASE k \notin Slots
  <2>1. tbl' = u
    BY <1>2, <1>6 DEF Admit, u
  <2>2. KeepsFront(u, u)
    BY DEF KeepsFront
  <2>3. QED  BY <1>1, <1>3, <1>4, <2>1, <2>2
<1>7. QED  BY <1>5, <1>6

\* ClearNoticeBmp64 may set the clock back, so that the clock says less than the
\* ticks there were: the updates are bounded by the last tick one of them took.
TickInv == OneUpdatePerTick /\ tbl.clock <= ticks

\* Every step but Clear keeps the type and the fronts, and moves the clocks and
\* the counter of accepted updates together.
LEMMA StepEffect ==
    ASSUME TypeOK, Next, ~Clear
    PROVE  /\ TypeOK'
           /\ KeepsFront(tbl, tbl')
           /\ TickInv => TickInv'
<1> USE DEF TypeOK, OneUpdatePerTick, TickInv
<1>1. tbl.clock \in Nat /\ tbl.clockPrv \in Nat
  BY DEF TableOf
<1>2. CASE \E k \in ApiKeys, chk \in {0, 1} : Change(k, chk)
  <2>1. PICK k \in ApiKeys, chk \in {0, 1} : Change(k, chk)
    BY <1>2
  <2>2. QED  BY <1>1, <2>1, ChangeEffect
<1>3. ASSUME NEW k \in Slots, Index(k)
      PROVE  TypeOK' /\ KeepsFront(tbl, tbl') /\ (TickInv => TickInv')
  BY <1>1, <1>3, IndexTyped DEF Index, KeepsFront
<1>4. ASSUME NEW k \in Slots, Swap(k)
      PROVE  TypeOK' /\ KeepsFront(tbl, tbl') /\ (TickInv => TickInv')
  BY <1>1, <1>4, SwapTurnsOneSlot DEF Swap, KeepsFront
<1>5. ASSUME NEW k \in Slots, Notify(k)
      PROVE  TypeOK' /\ KeepsFront(tbl, tbl') /\ (TickInv => TickInv')
  BY <1>1, <1>5, NotifyOnlyNotes DEF Notify, KeepsFront
<1>6. ASSUME NEW k \in ApiKeys, ClearNoticeBmp64(k)
      PROVE  TypeOK' /\ KeepsFront(tbl, tbl') /\ (TickInv => TickInv')
  BY <1>1, <1>6, ClearNoticeTyped DEF ClearNoticeBmp64, KeepsFront
<1>7. ASSUME NEW func \in Updates, EnumerateForUpdate(func)
      PROVE  TypeOK' /\ KeepsFront(tbl, tbl') /\ (TickInv => TickInv')
  BY <1>1, <1>7, EnumerateTyped DEF EnumerateForUpdate, Updates
<1>8. CASE Clock
  <2>1. tbl' = [tbl EXCEPT !.clock = tbl.clock + 1] /\ accepted' = accepted /\ ticks' = ticks + 1
    BY <1>8 DEF Clock
  <2>2. /\ tbl' \in TableOf(Bodies) /\ tbl'.a = tbl.a /\ tbl'.b = tbl.b
        /\ tbl'.clock = tbl.clock + 1 /\ tbl'.clockPrv = tbl.clockPrv
    BY <1>1, <2>1 DEF TableOf
  <2>3. QED  BY <1>1, <2>1, <2>2 DEF KeepsFront
<1>9. QED  BY <1>2, <1>3, <1>4, <1>5, <1>6, <1>7, <1>8 DEF Next

\* Init and Clear leave the table the memsets leave.
LEMMA ClearedEffect ==
    ASSUME tbl = ClearedTable(ZeroBody), accepted = 0, ticks = 0
    PROVE  TypeOK /\ TickInv
BY BodyAssumption, ClearedTyped DEF TypeOK, OneUpdatePerTick, TickInv

\* Every operation leaves a well-formed table: the two sides, the bitmaps and
\* the clocks keep their shape, however the interface is used.
THEOREM TypeCorrect == Spec => []TypeOK
<1>1. Init => TypeOK
  BY ClearedEffect DEF Init
<1>2. TypeOK /\ [Next]_vars => TypeOK'
  <2>1. CASE Clear
    BY <2>1, BodyAssumption, ClearedTyped DEF Clear, TypeOK
  <2>2. CASE UNCHANGED vars
    BY <2>2 DEF vars, TypeOK
  <2>3. QED  BY <2>1, <2>2, StepEffect
<1>3. QED  BY <1>1, <1>2, PTL DEF Spec

\* Add and Del with the clock check let at most one update through per Clock().
THEOREM TicksBoundUpdates == Spec => []OneUpdatePerTick
<1>1. Init => TickInv
  BY ClearedEffect DEF Init
<1>2. TypeOK /\ TickInv /\ [Next]_vars => TickInv'
  <2>1. CASE Clear
    <3>1. ClearedTable(ZeroBody).clock = 0 /\ ClearedTable(ZeroBody).clockPrv = 0
      BY DEF ClearedTable
    <3>2. tbl'.clock = 0 /\ tbl'.clockPrv = 0 /\ accepted' = 0 /\ ticks' = 0
      BY <2>1, <3>1 DEF Clear
    <3>3. QED  BY <3>2 DEF TickInv, OneUpdatePerTick
  <2>2. CASE UNCHANGED vars
    BY <2>2 DEF vars, TickInv, OneUpdatePerTick
  <2>3. QED  BY <2>1, <2>2, StepEffect
<1>3. TickInv => OneUpdatePerTick
  BY DEF TickInv
<1>4. QED  BY <1>1, <1>2, <1>3, TypeCorrect, PTL DEF Spec

\* No operation but Clear ever stores into the valid side of any slot.
THEOREM FrontsStay == Spec => FrontUndisturbed
<1>1. TypeOK /\ [Next]_vars => [Clear \/ KeepsFront(tbl, tbl')]_tbl
  BY StepEffect DEF vars
<1>2. QED  BY <1>1, TypeCorrect, PTL DEF Spec, FrontUndisturbed

-----------------------------------------------------------------------------
(* The refinement. What operator[] and EnumerateForUpdate bring back comes *)
(* from the other side, so that the invariant says where that is from.     *)

HeldInPast ==
    /\ past \in [Slots -> SUBSET Bodies]
    /\ \A k \in Slots : Held(tbl, k) \subseteq past[k]

StoreInv == TypeOK /\ HeldInPast

\* The cleared table shows the zero body in every slot, and holds nothing else.
LEMMA ClearedHolds ==
    LET t == ClearedTable(ZeroBody)
    IN  /\ t \in TableOf(Bodies)
        /\ \A k \in Slots : /\ Find(t, k) = {ZeroBody} /\ Behind(t, k) = {ZeroBody}
                           /\ Held(t, k) = {ZeroBody}
<1>1. \A k \in Slots : Held(ClearedTable(ZeroBody), k) = {ZeroBody}
  BY DEF Held, ClearedTable
<1>2. QED  BY <1>1, BodyAssumption, ClearedTyped

\* A recorded call that puts nothing new behind a slot but what it shows there
\* keeps the invariant.
LEMMA RecordKeeps ==
    ASSUME StoreInv, tbl' \in TableOf(Bodies), accepted' \in Nat, ticks' \in Nat, NEW request, Record(request),
           \A j \in Slots : Held(tbl', j) \subseteq Held(tbl, j) \cup Find(tbl', j)
    PROVE  StoreInv' /\ KV!Carry(request)
<1>1. past' = [k \in Slots |-> past[k] \cup Find(tbl', k)] /\ call' = request
  BY DEF Record
<1>2. \A k \in Slots : Find(tbl', k) \subseteq Bodies
  BY HeldTyped
<1>3. past' \in [Slots -> SUBSET Bodies]
  BY <1>1, <1>2 DEF StoreInv, HeldInPast
<1>4. \A k \in Slots : Held(tbl', k) \subseteq past'[k]
  BY <1>1 DEF StoreInv, HeldInPast
<1>5. KV!Carry(request)
  BY <1>1 DEF KV!Carry
<1>6. QED  BY <1>3, <1>4, <1>5 DEF StoreInv, HeldInPast, TypeOK

\* Consuming the tick shows nothing new, so Find and both sides are tbl's.
LEMMA ConsumedSame ==
    ASSUME TypeOK, NEW chk \in {0, 1}, NEW k \in Slots
    PROVE  /\ Find(Consumed(chk), k) = Find(tbl, k)
           /\ Behind(Consumed(chk), k) = Behind(tbl, k)
           /\ Held(Consumed(chk), k) = Held(tbl, k)
<1> DEFINE u == Consumed(chk)
<1>1. u.a = tbl.a /\ u.b = tbl.b /\ u.side = tbl.side
  BY ConsumedTyped
<1> HIDE DEF u
<1>2. FrontItem(u, k) = FrontItem(tbl, k) /\ BackItem(u, k) = BackItem(tbl, k)
  BY <1>1 DEF FrontItem, BackItem, SideIsA
<1>3. Find(u, k) = Find(tbl, k) /\ Behind(u, k) = Behind(tbl, k)
  BY <1>2 DEF Find, Behind
<1>4. Held(u, k) = Held(tbl, k)
  BY <1>1 DEF Held
<1>5. QED  BY <1>3, <1>4 DEF u

LEMMA DelStores ==
    ASSUME StoreInv, NEW k \in Slots, NEW chk \in {0, 1}, Del(k, chk),
           Record(KV!RemoveCall(k))
    PROVE  StoreInv' /\ KV!Next
<1> DEFINE u == Consumed(chk)
<1>1. tbl' = DelItem(u, k) /\ accepted' = accepted + chk /\ ticks' = ticks
  BY DEF Del, Admit
<1>2. /\ u \in TableOf(Bodies)
      /\ \A j \in Slots : /\ Find(u, j) = Find(tbl, j) /\ Behind(u, j) = Behind(tbl, j)
                         /\ Held(u, j) = Held(tbl, j)
  BY ConsumedTyped, ConsumedSame DEF StoreInv
<1> HIDE DEF u
<1>3. /\ tbl' \in TableOf(Bodies) /\ Find(tbl', k) = {} /\ Behind(tbl', k) = Find(tbl, k)
      /\ \A j \in Slots \ {k} : Find(tbl', j) = Find(tbl, j) /\ Behind(tbl', j) = Behind(tbl, j)
  BY <1>1, <1>2, DelVisible
<1>4. \A j \in Slots : Held(tbl', j) \subseteq Held(tbl, j)
  BY <1>1, <1>2, DelHeld
<1>5. accepted' \in Nat /\ ticks' \in Nat
  BY <1>1 DEF StoreInv, TypeOK
<1>6. StoreInv' /\ KV!Carry(KV!RemoveCall(k))
  BY <1>3, <1>4, <1>5, RecordKeeps
<1>7. KV!Remove(k)
  BY <1>3, <1>6 DEF KV!Remove, KV!Turn
<1>8. QED  BY <1>6, <1>7 DEF KV!Next

LEMMA AddStores ==
    ASSUME StoreInv, NEW k \in Slots, NEW chk \in {0, 1}, NEW body \in Bodies,
           Add(k, body, chk), Record(KV!PutCall(k, body))
    PROVE  StoreInv' /\ KV!Next
<1> DEFINE u == Consumed(chk)
<1>1. tbl' = AddItem(u, k, body) /\ accepted' = accepted + chk /\ ticks' = ticks
  BY DEF Add, Admit
<1>2. /\ u \in TableOf(Bodies)
      /\ \A j \in Slots : /\ Find(u, j) = Find(tbl, j) /\ Behind(u, j) = Behind(tbl, j)
                         /\ Held(u, j) = Held(tbl, j)
  BY ConsumedTyped, ConsumedSame DEF StoreInv
<1> HIDE DEF u
<1>3. /\ tbl' \in TableOf(Bodies) /\ Find(tbl', k) = {body} /\ Behind(tbl', k) = Find(tbl, k)
      /\ \A j \in Slots \ {k} : Find(tbl', j) = Find(tbl, j) /\ Behind(tbl', j) = Behind(tbl, j)
  BY <1>1, <1>2, AddVisible
<1>4. \A j \in Slots : Held(tbl', j) \subseteq Held(tbl, j) \cup Find(tbl', j)
  BY <1>1, <1>2, <1>3, AddHeld
<1>5. accepted' \in Nat /\ ticks' \in Nat
  BY <1>1 DEF StoreInv, TypeOK
<1>6. StoreInv' /\ KV!Carry(KV!PutCall(k, body))
  BY <1>3, <1>4, <1>5, RecordKeeps
<1>7. KV!Put(k, body)
  BY <1>3, <1>6 DEF KV!Put, KV!Turn
<1>8. QED  BY <1>6, <1>7 DEF KV!Next

LEMMA IndexStores ==
    ASSUME StoreInv, NEW k \in Slots, Index(k), Record(KV!ReviveCall(k))
    PROVE  StoreInv' /\ KV!Next
<1>1. /\ tbl' = IndexItem(tbl, k) /\ accepted' = accepted /\ ticks' = ticks
      /\ tbl \in TableOf(Bodies)
  BY DEF Index, StoreInv, TypeOK
<1>2. /\ Find(tbl, k) # {} => tbl' = tbl
      /\ Find(tbl, k) = {} => Find(tbl', k) = {BackItem(tbl, k).body} /\ Behind(tbl', k) = {}
      /\ \A j \in Slots \ {k} : Find(tbl', j) = Find(tbl, j) /\ Behind(tbl', j) = Behind(tbl, j)
      /\ \A j \in Slots : Held(tbl', j) \subseteq Held(tbl, j)
  BY <1>1, IndexVisible
<1>3. StoreInv' /\ KV!Carry(KV!ReviveCall(k))
  BY <1>1, <1>2, IndexTyped, RecordKeeps DEF StoreInv, TypeOK
<1>4. CASE Find(tbl, k) # {}
  BY <1>2, <1>3, <1>4 DEF KV!Revive, KV!Next
<1>5. CASE Find(tbl, k) = {}
  <2> DEFINE v == BackItem(tbl, k).body
  <2>1. v \in IF Behind(tbl, k) = {} THEN past[k] ELSE Behind(tbl, k)
    BY <1>1, HeldTyped DEF StoreInv, HeldInPast, Behind
  <2>2. Find(tbl', k) = {v} /\ Behind(tbl', k) = Find(tbl, k)
    BY <1>2, <1>5
  <2> HIDE DEF v
  <2>3. KV!Turn(k, {v})
    BY <1>2, <2>2 DEF KV!Turn
  <2>4. KV!Revive(k)
    BY <1>3, <1>5, <2>1, <2>3 DEF KV!Revive
  <2>5. QED  BY <1>3, <2>4 DEF KV!Next
<1>6. QED  BY <1>4, <1>5

LEMMA SwapStores ==
    ASSUME StoreInv, NEW k \in Slots, Swap(k), Record(KV!UndoCall(k))
    PROVE  StoreInv' /\ KV!Next
<1>1. /\ tbl' = SwapSide(tbl, k) /\ accepted' = accepted /\ ticks' = ticks
      /\ tbl \in TableOf(Bodies)
  BY DEF Swap, StoreInv, TypeOK
<1>2. /\ tbl' \in TableOf(Bodies)
      /\ Find(tbl', k) = Behind(tbl, k) /\ Behind(tbl', k) = Find(tbl, k)
      /\ \A j \in Slots \ {k} : Find(tbl', j) = Find(tbl, j) /\ Behind(tbl', j) = Behind(tbl, j)
      /\ \A j \in Slots : Held(tbl', j) \subseteq Held(tbl, j)
  BY <1>1, SwapTurnsOneSlot, SwapVisible
<1>3. StoreInv' /\ KV!Carry(KV!UndoCall(k))
  BY <1>1, <1>2, RecordKeeps DEF StoreInv, TypeOK
<1>4. KV!Undo(k)
  BY <1>2, <1>3 DEF KV!Undo, KV!Turn
<1>5. QED  BY <1>3, <1>4 DEF KV!Next

LEMMA EnumerateStores ==
    ASSUME StoreInv, NEW func \in Updates, EnumerateForUpdate(func),
           Record(KV!UpdateCall(func))
    PROVE  StoreInv' /\ KV!Next
<1> DEFINE old == [k \in Slots |-> FrontItem(tbl, k).body]
<1>1. /\ tbl' = EnumerateItems(tbl, func) /\ accepted' = accepted /\ ticks' = ticks
      /\ tbl \in TableOf(Bodies) /\ func \in [Bodies -> Bodies] /\ 0 \in Slots
  BY SizeAssumption DEF EnumerateForUpdate, StoreInv, TypeOK, Updates, Slots
<1>2. \A k \in Slots : /\ k # 0 => Find(tbl', k) = {func[old[k]]}
                       /\ k = 0 => Find(tbl', k) = Behind(tbl, k)
                       /\ Behind(tbl', k) = Find(tbl, k)
                       /\ Held(tbl', k) \subseteq Held(tbl, k) \cup Find(tbl', k)
  BY <1>1, EnumerateVisible
<1>3. StoreInv' /\ KV!Carry(KV!UpdateCall(func))
  BY <1>1, <1>2, EnumerateTyped, RecordKeeps DEF StoreInv, TypeOK
<1>4. \A k \in Slots : old[k] \in Held(tbl, k) /\ (Find(tbl, k) # {} => old[k] \in Find(tbl, k))
  BY <1>1, HeldTyped DEF Find
<1>5. /\ old \in [Slots -> Bodies]
      /\ \A k \in Slots : old[k] \in IF Find(tbl, k) = {} THEN past[k] ELSE Find(tbl, k)
  BY <1>1, <1>4, HeldTyped DEF StoreInv, HeldInPast
<1> HIDE DEF old
<1>6. /\ [k \in Slots |-> Find(tbl', k)]
           = [k \in Slots |-> IF k = 0 THEN Behind(tbl, k) ELSE {func[old[k]]}]
      /\ [k \in Slots |-> Behind(tbl', k)] = [k \in Slots |-> Find(tbl, k)]
  BY <1>2
<1>7. KV!Update(func)
  BY <1>3, <1>5, <1>6 DEF KV!Update
<1>8. QED  BY <1>1, <1>3, <1>7 DEF KV!Next

\* Whatever is called and in whichever order, the double-buffered table is a map
\* from slots to bodies whose last change SwapSide undoes; what a caller gets back
\* without having put it is a body that same slot has shown since the last Clear.
THEOREM TableIsStore == StoreSpec => ImplementsStore
<1> DEFINE seen == [k \in Slots |-> Find(tbl, k)]
           back == [k \in Slots |-> Behind(tbl, k)]
<1>1. StoreInit => StoreInv /\ KV!Cleared
  BY ClearedHolds, BodyAssumption
     DEF StoreInit, Init, StoreInv, HeldInPast, TypeOK, KV!Cleared
<1>2. StoreInv /\ [StoreNext]_storeVars => StoreInv' /\ [KV!Next]_<<seen, back, past, call>>
  <2>1. SUFFICES ASSUME StoreInv, [StoreNext]_storeVars
                 PROVE  StoreInv' /\ (KV!Next \/ UNCHANGED <<seen, back, past, call>>)
    OBVIOUS
  <2>2. ASSUME NEW k \in ApiKeys, NEW chk \in {0, 1}, Del(k, chk),
               RecordOn(k, KV!RemoveCall(k))
        PROVE  StoreInv' /\ (KV!Next \/ UNCHANGED <<seen, back, past, call>>)
    <3>1. CASE k \in Slots
      BY <2>1, <2>2, <3>1, DelStores DEF RecordOn
    <3>2. CASE k \notin Slots
      <4>1. tbl' = Consumed(chk) /\ accepted' = accepted + chk /\ UNCHANGED <<ticks, past, call>>
        BY <2>2, <3>2 DEF Del, Admit, RecordOn
      <4>2. /\ tbl' \in TableOf(Bodies)
            /\ \A j \in Slots : /\ Find(tbl', j) = Find(tbl, j) /\ Behind(tbl', j) = Behind(tbl, j)
                               /\ Held(tbl', j) = Held(tbl, j)
        BY <2>1, <4>1, ConsumedTyped, ConsumedSame DEF StoreInv
      <4>3. QED  BY <2>1, <4>1, <4>2 DEF StoreInv, HeldInPast, TypeOK
    <3>3. QED  BY <3>1, <3>2
  <2>3. ASSUME NEW k \in ApiKeys, NEW chk \in {0, 1}, NEW body \in Bodies,
               Add(k, body, chk), RecordOn(k, KV!PutCall(k, body))
        PROVE  StoreInv' /\ (KV!Next \/ UNCHANGED <<seen, back, past, call>>)
    <3>1. CASE k \in Slots
      BY <2>1, <2>3, <3>1, AddStores DEF RecordOn
    <3>2. CASE k \notin Slots
      <4>1. tbl' = Consumed(chk) /\ accepted' = accepted + chk /\ UNCHANGED <<ticks, past, call>>
        BY <2>3, <3>2 DEF Add, Admit, RecordOn
      <4>2. /\ tbl' \in TableOf(Bodies)
            /\ \A j \in Slots : /\ Find(tbl', j) = Find(tbl, j) /\ Behind(tbl', j) = Behind(tbl, j)
                               /\ Held(tbl', j) = Held(tbl, j)
        BY <2>1, <4>1, ConsumedTyped, ConsumedSame DEF StoreInv
      <4>3. QED  BY <2>1, <4>1, <4>2 DEF StoreInv, HeldInPast, TypeOK
    <3>3. QED  BY <3>1, <3>2
  <2>4. ASSUME NEW k \in Slots, Index(k), Record(KV!ReviveCall(k))
        PROVE  StoreInv' /\ KV!Next
    BY <2>1, <2>4, IndexStores
  <2>5. ASSUME NEW k \in Slots, Swap(k), Record(KV!UndoCall(k))
        PROVE  StoreInv' /\ KV!Next
    BY <2>1, <2>5, SwapStores
  <2>6. ASSUME NEW func \in Updates, EnumerateForUpdate(func), Record(KV!UpdateCall(func))
        PROVE  StoreInv' /\ KV!Next
    BY <2>1, <2>6, EnumerateStores
  <2>7. CASE Clear /\ past' = [k \in Slots |-> {ZeroBody}] /\ call' = KV!NoCall
    <3>1. StoreInv' /\ KV!Cleared'
      BY <2>7, ClearedHolds, BodyAssumption
         DEF Clear, StoreInv, HeldInPast, TypeOK, KV!Cleared
    <3>2. QED  BY <3>1 DEF KV!Next
  <2>8. CASE /\ \/ Clock
                \/ \E k \in Slots : Notify(k)
                \/ \E k \in ApiKeys : ClearNoticeBmp64(k)
             /\ UNCHANGED <<past, call>>
    <3>1. /\ tbl' \in TableOf(Bodies) /\ tbl'.a = tbl.a /\ tbl'.b = tbl.b
          /\ tbl'.side = tbl.side /\ accepted' = accepted /\ ticks' \in Nat
      <4>1. CASE Clock
        BY <2>1, <4>1 DEF Clock, StoreInv, TypeOK, TableOf
      <4>2. CASE \E k \in ApiKeys : ClearNoticeBmp64(k)
        BY <2>1, <4>2, ClearNoticeTyped DEF ClearNoticeBmp64, StoreInv, TypeOK
      <4>3. CASE \E k \in Slots : Notify(k)
        BY <2>1, <4>3, NotifyOnlyNotes DEF Notify, StoreInv, TypeOK
      <4>4. QED  BY <2>8, <4>1, <4>2, <4>3
    <3>2. \A j \in Slots : /\ Find(tbl', j) = Find(tbl, j) /\ Behind(tbl', j) = Behind(tbl, j)
                           /\ Held(tbl', j) = Held(tbl, j)
      BY <3>1 DEF Find, FrontItem, Behind, BackItem, SideIsA, Held
    <3>3. QED  BY <2>1, <2>8, <3>1, <3>2 DEF StoreInv, HeldInPast, TypeOK
  <2>9. CASE UNCHANGED storeVars
    BY <2>1, <2>9 DEF storeVars, vars, StoreInv, HeldInPast, TypeOK
  <2>10. QED  BY <2>1, <2>2, <2>3, <2>4, <2>5, <2>6, <2>7, <2>8, <2>9 DEF StoreNext
<1>3. QED  BY <1>1, <1>2, PTL DEF StoreSpec, ImplementsStore, KV!Spec
=============================================================================
