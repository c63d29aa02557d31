---------------------------- MODULE MCReplication ----------------------------
(***************************************************************************)
(* Replication with two slots, keys 0 and 1. Key 2 is the first without a  *)
(* slot, key 4 the first that a uint32_t cuts to another key (KeyRange).   *)
(***************************************************************************)
EXTENDS Replication, TLC

OneValue  == {<<17, 3>>}   \* a SET stores it as <<1, 19>>
TwoValues == {<<17, 3>>, <<18>>}
\* The database is empty at first, or has a row for every slot, as a SET left it.
EmptyDb == [k \in DbKeys |-> {}]
FullDb  == [k \in DbKeys |-> IF k \in Slots THEN {Stored(<<17, 3>>)} ELSE {}]
EmptyOrFull == {EmptyDb, FullDb}

ServerSymmetry == Permutations(Servers)
=============================================================================
