----------------------------- MODULE LookupTable -----------------------------
(***************************************************************************)
(* LookupTable<T,S,K> of inc/nmmc_tpl.hh as a state machine: one action    *)
(* per public operation, each atomic. How Add and Del look to a reader     *)
(* that runs while they do is the subject of SharedTable.                  *)
(*                                                                         *)
(* The keys offered to Add, Del and ClearNoticeBmp64 include S, the first  *)
(* one that has no slot: Add and Del then throw, ClearNoticeBmp64 lets it  *)
(* through. SwapSide and NotifyChange test nothing; that their key has a   *)
(* slot is their precondition.                                             *)
(***************************************************************************)
EXTENDS LookupTableOps

CONSTANTS
    Bodies,    \* the item bodies a caller may store
    ZeroBody,  \* the all-zero body memset leaves
    MaxClock   \* bound of this model on the calls of Clock between two Clears

ASSUME BodyAssumption == ZeroBody \in Bodies

VARIABLES
    tbl,       \* the table
    accepted,  \* history: clock-checked updates let through since Clear
    ticks      \* history: calls of Clock since Clear

vars == <<tbl, accepted, ticks>>

ApiKeys == 0..S
Updates == [Bodies -> Bodies]   \* the callbacks of EnumerateForUpdate

TypeOK ==
    /\ tbl \in TableOf(Bodies)
    /\ accepted \in Nat
    /\ ticks \in Nat

Init ==
    /\ tbl = ClearedTable(ZeroBody)
    /\ accepted = 0
    /\ ticks = 0

-----------------------------------------------------------------------------

\* Mutant: < for <= in the test of the counters.
ClockMovedMutant == tbl.clock >= tbl.clockPrv

ClockMoved == tbl.clock > tbl.clockPrv

\* The `read phase': with nochk_counter set, the update consumes the tick
\* before it looks for its slot.
Consumed(chk) == IF chk = 1 THEN [tbl EXCEPT !.clockPrv = tbl.clock] ELSE tbl

\* Add and Del share their guards: a checked call without a tick returns ERR,
\* a key without a slot throws, and only then is the table changed.
Admit(k, chk, newTable) ==
    /\ chk = 1 => ClockMoved
    /\ tbl' = IF k \in Slots THEN newTable ELSE Consumed(chk)
    /\ accepted' = accepted + chk
    /\ UNCHANGED ticks

Add(k, body, chk) == Admit(k, chk, AddItem(Consumed(chk), k, body))
Del(k, chk)       == Admit(k, chk, DelItem(Consumed(chk), k))

Index(k) ==     \* operator[]; a key without a slot throws at once
    /\ k \in Slots
    /\ tbl' = IndexItem(tbl, k)
    /\ UNCHANGED <<accepted, ticks>>

\* SwapSide and NotifyChange on their own, as the class offers them.
Swap(k) ==
    /\ tbl' = SwapSide(tbl, k)
    /\ UNCHANGED <<accepted, ticks>>

Notify(k) ==
    /\ tbl' = NotifyChange(tbl, k)
    /\ UNCHANGED <<accepted, ticks>>

EnumerateForUpdate(func) ==
    /\ tbl' = EnumerateItems(tbl, func)
    /\ UNCHANGED <<accepted, ticks>>

ClearNoticeBmp64(k) ==
    /\ tbl' = ClearNoticeWord(tbl, k)
    /\ UNCHANGED <<accepted, ticks>>

Clock ==
    /\ ticks < MaxClock
    /\ tbl' = [tbl EXCEPT !.clock = @ + 1]
    /\ ticks' = ticks + 1
    /\ UNCHANGED accepted

Clear ==
    /\ tbl' = ClearedTable(ZeroBody)
    /\ accepted' = 0
    /\ ticks' = 0

-----------------------------------------------------------------------------

Change(k, chk) == Del(k, chk) \/ \E body \in Bodies : Add(k, body, chk)

\* The whole interface.
Next ==
    \/ \E k \in ApiKeys, chk \in {0, 1} : Change(k, chk)
    \/ \E k \in ApiKeys : ClearNoticeBmp64(k)
    \/ \E k \in Slots : Index(k) \/ Swap(k) \/ Notify(k)
    \/ \E func \in Updates : EnumerateForUpdate(func)
    \/ Clock
    \/ Clear

Spec == Init /\ [][Next]_vars

-----------------------------------------------------------------------------
(* Properties.                                                             *)

\* Checked updates are admitted at most once per tick of the virtual clock, and
\* a tick consumed by a call that then throws is gone (nmmc_tpl.hh:171-176);
\* ClearNoticeBmp64, when it sets the clock back, lets no tick count twice.
OneUpdatePerTick == accepted <= tbl.clockPrv /\ tbl.clockPrv <= ticks

\* Double buffering: no operation but Clear stores into the item that was the
\* valid side when the operation began, so that an iterator handed out before
\* still refers to what it referred to then. Only valid is ever set in place,
\* and only to what it is already.
FrontUndisturbed == [][Clear \/ KeepsFront(tbl, tbl')]_tbl

=============================================================================
