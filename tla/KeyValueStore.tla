---------------------------- MODULE KeyValueStore ----------------------------
(***************************************************************************)
(* What a lookup table promises its user: a partial map from keys to       *)
(* values that remembers, for each key, what it had before its last        *)
(* change. store[k] is {} or {v}, and so is behind[k]; past[k] holds the   *)
(* values k has had since the table was cleared; call is the last request  *)
(* carried out, so that a refinement has to account for why the map        *)
(* changed.                                                                *)
(***************************************************************************)
CONSTANTS Keys, First, Values, InitialValue

VARIABLES store, behind, past, call

NoCall           == <<"none">>
PutCall(k, v)    == <<"put", k, v>>
RemoveCall(k)    == <<"remove", k>>
ReviveCall(k)    == <<"revive", k>>
UndoCall(k)      == <<"undo", k>>
UpdateCall(func) == <<"update", func>>

Cleared ==
    /\ call = NoCall
    /\ store = [k \in Keys |-> {InitialValue}]
    /\ behind = store
    /\ past = store

Carry(request) ==
    /\ call' = request
    /\ past' = [k \in Keys |-> past[k] \cup store'[k]]

\* The key gets new contents; what it had is kept behind them.
Turn(k, contents) ==
    /\ store' = [store EXCEPT ![k] = contents]
    /\ behind' = [behind EXCEPT ![k] = store[k]]

Put(k, v) == Carry(PutCall(k, v)) /\ Turn(k, {v})
Remove(k) == Carry(RemoveCall(k)) /\ Turn(k, {})
Undo(k)   == Carry(UndoCall(k)) /\ Turn(k, behind[k])

\* A key that is not there comes back: with what it had before it went, or, when
\* it was not there then either, with some value it once had.
Revive(k) ==
    /\ Carry(ReviveCall(k))
    /\ IF store[k] = {}
       THEN \E v \in IF behind[k] = {} THEN past[k] ELSE behind[k] : Turn(k, {v})
       ELSE UNCHANGED <<store, behind>>

\* Every key but the first is updated: a key that is there from the value it has,
\* any other from one it once had. The first is undone.
Update(func) ==
    /\ Carry(UpdateCall(func))
    /\ \E old \in [Keys -> Values] :
          /\ \A k \in Keys : old[k] \in IF store[k] = {} THEN past[k] ELSE store[k]
          /\ store' = [k \in Keys |-> IF k = First THEN behind[k] ELSE {func[old[k]]}]
    /\ behind' = store

Next ==
    \/ \E k \in Keys : Remove(k) \/ Revive(k) \/ Undo(k) \/ \E v \in Values : Put(k, v)
    \/ \E func \in [Values -> Values] : Update(func)
    \/ Cleared'

Spec == Cleared /\ [][Next]_<<store, behind, past, call>>
=============================================================================
