--------------------------- MODULE MCStaleSweeper ---------------------------
(* Instances of StaleSweeper for TLC. *)
EXTENDS StaleSweeper, TLC

OneCredit == [o \in Operations |-> [cost |-> 1, enabled |-> TRUE]]

NoListings == {}
=============================================================================
