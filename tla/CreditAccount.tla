--------------------------- MODULE CreditAccount ---------------------------
(***************************************************************************)
(* What the credit engine promises, with every call a single step on the   *)
(* committed tables: a reservation moves credit from available to          *)
(* reserved and is settled once, either by a commit, which takes the       *)
(* credit out of the account and leaves one ledger row, or by a release,   *)
(* which gives it back.  There are no transactions, locks, retries,        *)
(* crashes or callers here: CreditEngine has them, and implements this.    *)
(***************************************************************************)
EXTENDS CreditTables

\* Reserve a credits for request q; the requirement on the balance is
\* tryReserve's, the one on the request the unique index's.
Reserve(u, q, o, a, r) ==
  /\ WithRequest(u, q) = {}
  /\ reservation[r] = None
  /\ a <= wallet[u].available
  /\ wallet' = [wallet EXCEPT ![u] = Deduct(wallet[u], a)]
  /\ reservation' = [reservation EXCEPT ![r] = NewReservation(u, q, o, a)]
  /\ usage' = Recorded(usage, <<u, q, "reserved">>)
  /\ UNCHANGED ledger

\* A reservation can be settled while it is reserved; the second requirement
\* is the CHECK (reserved_balance >= 0) of the wallet row.
Settleable(r) ==
  /\ reservation[r] # None
  /\ reservation[r].status = "reserved"
  /\ reservation[r].amount <= wallet[reservation[r].user].reserved

Commit(r) ==
  LET row == reservation[r]
      w   == Consume(wallet[row.user], row.amount)
  IN  /\ Settleable(r)
      /\ wallet' = [wallet EXCEPT ![row.user] = w]
      /\ reservation' = [reservation EXCEPT ![r] = MovedTo(row, "committed")]
      /\ ledger' = ledger \cup {CommitRow(row.user, r, row.amount, w)}
      /\ usage' = Recorded(usage, <<row.user, row.request, "committed">>)

Release(r) ==
  LET row == reservation[r]
      w   == GiveBack(wallet[row.user], row.amount)
  IN  /\ Settleable(r)
      /\ wallet' = [wallet EXCEPT ![row.user] = w]
      /\ reservation' = [reservation EXCEPT ![r] = MovedTo(row, "released")]
      /\ usage' = Recorded(usage, <<row.user, row.request, "released">>)
      /\ UNCHANGED ledger

Next ==
  \/ \E u \in Users, q \in Requests, o \in Operations, r \in ReservationIds :
       \E a \in 0 .. wallet[u].available : Reserve(u, q, o, a, r)
  \/ \E r \in ReservationIds : Commit(r)
  \/ \E r \in ReservationIds : Release(r)

Spec == TablesInit /\ [][Next]_tables
=============================================================================
