------------------------------ MODULE TableStore ------------------------------
(***************************************************************************)
(* The table against what it promises: two history variables record what a *)
(* caller asked for and what each slot has shown since the last Clear, and *)
(* the double buffer, with every operation of its interface, is then a     *)
(* key-value store that can undo the last change of a key.                 *)
(***************************************************************************)
EXTENDS LookupTable

VARIABLES
    past,   \* history: the bodies each slot has shown since Clear
    call    \* history: the last call that had a slot

storeVars == <<vars, past, call>>

KV == INSTANCE KeyValueStore
        WITH Keys <- Slots, First <- 0, Values <- Bodies, InitialValue <- ZeroBody,
             store <- [k \in Slots |-> Find(tbl, k)],
             behind <- [k \in Slots |-> Behind(tbl, k)]

StoreInit ==
    /\ Init
    /\ past = [k \in Slots |-> {ZeroBody}]
    /\ call = KV!NoCall

Record(request) ==
    /\ past' = [k \in Slots |-> past[k] \cup Find(tbl', k)]
    /\ call' = request

\* A key without a slot makes the table throw; the call then changes nothing.
RecordOn(k, request) ==
    IF k \in Slots THEN Record(request) ELSE UNCHANGED <<past, call>>

StoreNext ==
    \/ \E k \in ApiKeys, chk \in {0, 1} :
          \/ Del(k, chk) /\ RecordOn(k, KV!RemoveCall(k))
          \/ \E body \in Bodies : Add(k, body, chk) /\ RecordOn(k, KV!PutCall(k, body))
    \/ \E k \in Slots : Index(k) /\ Record(KV!ReviveCall(k))
    \/ \E k \in Slots : Swap(k) /\ Record(KV!UndoCall(k))
    \/ \E func \in Updates : EnumerateForUpdate(func) /\ Record(KV!UpdateCall(func))
    \/ Clear /\ past' = [k \in Slots |-> {ZeroBody}] /\ call' = KV!NoCall
    \/ /\ \/ Clock
          \/ \E k \in Slots : Notify(k)
          \/ \E k \in ApiKeys : ClearNoticeBmp64(k)
       /\ UNCHANGED <<past, call>>

StoreSpec == StoreInit /\ [][StoreNext]_storeVars

\* Find returns what was last added to its own slot and nothing after a removal,
\* and the other side holds exactly what the slot showed before its last change:
\* SwapSide brings that back and no more. An older item comes back only through
\* operator[] and EnumerateForUpdate on a slot that shows none, and it is never
\* another slot's (nmmc_tpl.hh:117-209).
ImplementsStore == KV!Spec
=============================================================================
