---------------------------- MODULE MCValueCodec ----------------------------
(***************************************************************************)
(* The codec over all short values of a few telling bytes: one state for   *)
(* each value.                                                             *)
(***************************************************************************)
EXTENDS ValueCodec

CONSTANTS SomeBytes, MaxLen

Inputs == UNION {[1..n -> SomeBytes] : n \in 1..MaxLen}

VARIABLE val

Init == val \in Inputs
Next == \E i \in DOMAIN val, b \in SomeBytes : val' = [val EXCEPT ![i] = b]
Spec == Init /\ [][Next]_val

\* nmmc_test.cc:65: the hexadecimal text of Bin2Hex behind `0x' is the value in
\* the statement.
StoredIsSent == Stored(val) = val

=============================================================================
