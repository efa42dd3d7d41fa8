---------------------------- MODULE CreditTables ----------------------------
(***************************************************************************)
(* The committed tables of the credit system                               *)
(* (supabase/migrations/20260919143000_platform_core.sql), the change each *)
(* statement of packages/db/src/postgres.ts makes to a row, and what must  *)
(* hold between the tables.  CreditAccount gives the tables their abstract *)
(* steps, CreditEngine the transactions of packages/credits/src/engine.ts. *)
(***************************************************************************)
EXTENDS Integers, FiniteSets

CONSTANTS
  Users,          \* accounts, each with a wallet row
  Requests,       \* request ids a caller may choose
  Operations,     \* operation keys a caller may name
  ReservationIds, \* uuids the database may hand out for a reservation
  InitialCredit,  \* what the welcome bonus put in each wallet
  None           \* what a lookup returns when there is no such row

ASSUME InitialCreditAssumption == InitialCredit \in Nat

VARIABLES
  wallet,       \* credit_wallets, by user
  reservation,  \* reservations, by id
  ledger,       \* credit_ledger
  usage         \* usage_events: the number of rows per user, request, status

tables == <<wallet, reservation, ledger, usage>>

-----------------------------------------------------------------------------
(* Rows *)

Status == {"reserved", "committed", "released"}

Wallet == [available : Nat, reserved : Nat]

Reservation ==
  [user : Users, request : Requests, operation : Operations,
   amount : Nat, status : Status]

\* The row with reservation = None is the welcome bonus; every other row has
\* the idempotency key "commit:<reservation>".
LedgerRow ==
  [user : Users, reservation : ReservationIds \cup {None},
   delta : Int, balanceAfter : Nat]

WelcomeRow(u) ==
  [user |-> u, reservation |-> None,
   delta |-> InitialCredit, balanceAfter |-> InitialCredit]

UsageKeys == Users \X Requests \X Status

ASSUME NoneAssumption ==
  None \notin ReservationIds \cup Reservation \cup Wallet \cup LedgerRow
               \cup UsageKeys

Rows == {r \in ReservationIds : reservation[r] # None}

RowsOf(u) == {r \in Rows : reservation[r].user = u}

\* getByUserRequest: what the unique index on (user_id, request_id) finds.
WithRequest(u, q) == {r \in RowsOf(u) : reservation[r].request = q}

\* What the unique index on (user_id, idempotency_key) finds.
CommitRows(u, r) == {row \in ledger : row.user = u /\ row.reservation = r}

-----------------------------------------------------------------------------
(* What each statement does to a row *)

\* tryReserve
Deduct(w, a) == [available |-> w.available - a, reserved |-> w.reserved + a]

\* adjust, as commit calls it
Consume(w, a) == [available |-> w.available, reserved |-> w.reserved - a]

\* MUTANT of GiveBack: release forgets reserved_balance.
GiveBackAvailable(w, a) ==
  [available |-> w.available + a, reserved |-> w.reserved]

\* adjust, as release calls it
GiveBack(w, a) == [available |-> w.available + a, reserved |-> w.reserved - a]

\* create
NewReservation(u, q, o, a) ==
  [user |-> u, request |-> q, operation |-> o,
   amount |-> a, status |-> "reserved"]

\* transition
MovedTo(row, status) == [row EXCEPT !.status = status]

\* MUTANT of CommitRow: the amount is entered as a credit.
CreditEntry(u, r, a, w) ==
  [user |-> u, reservation |-> r, delta |-> a, balanceAfter |-> w.available]

\* append
CommitRow(u, r, a, w) ==
  [user |-> u, reservation |-> r, delta |-> -a, balanceAfter |-> w.available]

\* record
Recorded(us, k) == [us EXCEPT ![k] = us[k] + 1]

-----------------------------------------------------------------------------
(* The tables when the accounts have just been created *)

TablesInit ==
  /\ wallet = [u \in Users |-> [available |-> InitialCredit, reserved |-> 0]]
  /\ reservation = [r \in ReservationIds |-> None]
  /\ ledger = {WelcomeRow(u) : u \in Users}
  /\ usage = [k \in UsageKeys |-> 0]

TablesTypeOK ==
  /\ wallet \in [Users -> Wallet]
  /\ reservation \in [ReservationIds -> Reservation \cup {None}]
  /\ ledger \subseteq LedgerRow
  /\ usage \in [UsageKeys -> Nat]

-----------------------------------------------------------------------------
(* What must hold between the tables *)

\* The sum of the positive values of f, as the number of its credits.
Credits(f) == UNION {{x} \X (1 .. f[x]) : x \in DOMAIN f}

Total(f) == Cardinality(Credits(f))

HeldAmounts(u) ==
  [r \in {x \in RowsOf(u) : reservation[x].status = "reserved"} |->
     reservation[r].amount]

Held(u) == Total(HeldAmounts(u))

LedgerOf(u) == {row \in ledger : row.user = u}

Deltas(u) == [row \in LedgerOf(u) |-> row.delta]

Debits(u) == [row \in LedgerOf(u) |-> -row.delta]

LedgerTotal(u) == Total(Deltas(u)) - Total(Debits(u))

\* The reserved balance of a wallet is what its reserved reservations hold:
\* no money is stranded in reserved_balance and none is held twice
\* (engine.ts:11-15; the two rows are written by different statements).
ReservedIsHeld == \A u \in Users : wallet[u].reserved = Held(u)

\* "Ledger is the source of truth": the rows of the ledger add up to the
\* wallet, available and reserved, of their user.
LedgerExplainsWallet ==
  \A u \in Users : LedgerTotal(u) = wallet[u].available + wallet[u].reserved

\* "Network retries never double-reserve" (engine.ts:5-6): a request id of a
\* user has at most one reservation, whatever races its retries ran.
OneReservationPerRequest ==
  \A u \in Users, q \in Requests : Cardinality(WithRequest(u, q)) <= 1

\* Each reservation's trail agrees with its status in the three tables that
\* record it: a usage event per status it has been in and no other, and one
\* ledger row, debiting exactly what was reserved, if and only if it was
\* committed (engine.ts:9, 265-287, 355-361).
TrailMatchesStatus ==
  \A r \in Rows :
    LET row == reservation[r]
        debits == CommitRows(row.user, r)
    IN  /\ \A s \in Status :
             usage[<<row.user, row.request, s>>] =
               (IF s \in {"reserved", row.status} THEN 1 ELSE 0)
        /\ row.status # "committed" => debits = {}
        /\ row.status = "committed" =>
             /\ Cardinality(debits) = 1
             /\ \A entry \in debits : entry.delta = -row.amount
=============================================================================
