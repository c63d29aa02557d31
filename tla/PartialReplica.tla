---------------------------- MODULE PartialReplica ----------------------------
(***************************************************************************)
(* What the servers promise about the database they follow: each of them   *)
(* is a cache of one of the states the database went through, may lack any *)
(* part of it, and moves forward through those states one at a time. A     *)
(* restart may throw it back, with nothing in it.                          *)
(*                                                                         *)
(* dbs is the sequence of the database's states; at[s] is the one server s *)
(* has reached; views[s][k] is {} or holds what s answers for key k.       *)
(***************************************************************************)
EXTENDS Integers, Sequences

CONSTANTS Servers, Keys

VARIABLES dbs, at, views

CachesOf(db, view) == \A k \in Keys : view[k] \subseteq db[k]
Nothing == [k \in Keys |-> {}]

Init ==
    /\ Len(dbs) = 1
    /\ at = [s \in Servers |-> 1]
    /\ views = [s \in Servers |-> Nothing]

Extend ==
    /\ Len(dbs') >= Len(dbs)
    /\ \A i \in 1..Len(dbs) : dbs'[i] = dbs[i]
    /\ UNCHANGED <<at, views>>

Advance(s) ==
    /\ at[s] < Len(dbs)
    /\ at' = [at EXCEPT ![s] = @ + 1]
    /\ CachesOf(dbs[at[s] + 1], views'[s])
    /\ \A r \in Servers \ {s} : views'[r] = views[r]
    /\ UNCHANGED dbs

Restart ==
    /\ \A s \in Servers : at'[s] \in 1..Len(dbs) /\ views'[s] = Nothing
    /\ UNCHANGED dbs

Next == Extend \/ Restart \/ \E s \in Servers : Advance(s)

Spec == Init /\ [][Next]_<<dbs, at, views>>
=============================================================================
