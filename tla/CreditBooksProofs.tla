-------------------------- MODULE CreditBooksProofs --------------------------
(***************************************************************************)
(* The books of the credit system: the reserved balance of a wallet is the *)
(* sum of what its reservations hold, the ledger adds up to the wallet,    *)
(* and every reservation has the trail of its status.                      *)
(***************************************************************************)
EXTENDS CreditEngineProofs

-----------------------------------------------------------------------------
(* Sums *)

\* A function that agrees with f and has one value more.
Extends(g, f, x, a) ==
  /\ x \notin DOMAIN f
  /\ DOMAIN g = DOMAIN f \cup {x}
  /\ g[x] = a
  /\ \A y \in DOMAIN f : g[y] = f[y]

LEMMA EmptyTotal ==
  ASSUME NEW f, DOMAIN f = {}
  PROVE  IsFiniteSet(Credits(f)) /\ Total(f) = 0
<1>1. Credits(f) = {}
  BY DEF Credits
<1>2. QED
  BY <1>1, FS_EmptySet DEF Total

\* One value more adds what it is, if it is positive.
LEMMA TotalGrows ==
  ASSUME NEW f, NEW g, NEW x, NEW a \in Int, Extends(g, f, x, a),
         IsFiniteSet(Credits(f))
  PROVE  /\ IsFiniteSet(Credits(g))
         /\ Total(f) \in Nat
         /\ Total(g) = Total(f) + (IF a > 0 THEN a ELSE 0)
<1> DEFINE new == {x} \X (1 .. a)
<1>1. Credits(g) = Credits(f) \cup new
  BY DEF Credits, Extends
<1>2. Credits(f) \cap new = {}
  BY DEF Credits, Extends
<1>3. IsFiniteSet(new) /\ Cardinality(new) = (IF a > 0 THEN a ELSE 0)
  <2>1. IsFiniteSet(1 .. a) /\ Cardinality(1 .. a) = (IF a > 0 THEN a ELSE 0)
    BY FS_Interval
  <2>2. IsFiniteSet({x}) /\ Cardinality({x}) = 1
    BY FS_Singleton
  <2>3. QED
    BY <2>1, <2>2, FS_Product
<1>4. Cardinality(Credits(f)) \in Nat
  BY FS_CardinalityType
<1>5. IsFiniteSet(Credits(f) \cup new)
      /\ Cardinality(Credits(f) \cup new) =
           Cardinality(Credits(f)) + Cardinality(new)
             - Cardinality(Credits(f) \cap new)
  BY <1>3, FS_Union
<1>6. QED
  BY <1>1, <1>2, <1>3, <1>4, <1>5, FS_EmptySet DEF Total

\* One value less.
LEMMA TotalShrinks ==
  ASSUME NEW f, NEW g, NEW x, NEW a \in Int, Extends(g, f, x, a),
         IsFiniteSet(Credits(g))
  PROVE  /\ IsFiniteSet(Credits(f))
         /\ Total(f) \in Nat
         /\ Total(g) = Total(f) + (IF a > 0 THEN a ELSE 0)
<1>1. Credits(f) \subseteq Credits(g)
  BY DEF Credits, Extends
<1>2. IsFiniteSet(Credits(f))
  BY <1>1, FS_Subset
<1>3. QED
  BY <1>2, TotalGrows

-----------------------------------------------------------------------------
(* The invariant *)

\* reserved_balance is what the open reservations hold.
HeldFits(u) ==
  /\ IsFiniteSet(Credits(HeldAmounts(u)))
  /\ wallet[u].reserved = Held(u)

\* The ledger adds up to the wallet.
LedgerAddsUp(u) ==
  /\ IsFiniteSet(Credits(Deltas(u)))
  /\ IsFiniteSet(Credits(Debits(u)))
  /\ LedgerTotal(u) = wallet[u].available + wallet[u].reserved

TrailFits(r) ==
  LET row == reservation[r]
      debits == CommitRows(row.user, r)
  IN  /\ \A s \in Status :
           usage[<<row.user, row.request, s>>] =
             (IF s \in {"reserved", row.status} THEN 1 ELSE 0)
      /\ row.status = "committed" =>
           \E entry \in ledger : debits = {entry} /\ entry.delta = -row.amount

\* A request id without a reservation has left no trail.
UnusedFits ==
  \A u \in Users, q \in Requests, s \in Status :
    WithRequest(u, q) = {} => usage[<<u, q, s>>] = 0

BooksInv ==
  /\ \A u \in Users : HeldFits(u) /\ LedgerAddsUp(u)
  /\ \A r \in Rows : TrailFits(r)
  /\ UnusedFits

LEMMA InitBooks == Init => BooksInv
<1>1. SUFFICES ASSUME Init PROVE BooksInv
  OBVIOUS
<1>2. ASSUME NEW u \in Users PROVE HeldFits(u)
  <2>1. DOMAIN HeldAmounts(u) = {}
    BY <1>1 DEF Init, TablesInit, HeldAmounts, RowsOf, Rows
  <2>2. wallet[u].reserved = 0
    BY <1>1 DEF Init, TablesInit
  <2>3. QED
    BY <2>1, <2>2, EmptyTotal DEF HeldFits, Held
<1>3. ASSUME NEW u \in Users PROVE LedgerAddsUp(u)
  <2> DEFINE none == [row \in {} |-> 0]
  <2>1. LedgerOf(u) = {WelcomeRow(u)}
    BY <1>1 DEF Init, TablesInit, LedgerOf, WelcomeRow
  <2>2. WelcomeRow(u).delta = InitialCredit
    BY DEF WelcomeRow
  <2>3. IsFiniteSet(Credits(none)) /\ Total(none) = 0
    BY EmptyTotal
  <2>4. /\ Extends(Deltas(u), none, WelcomeRow(u), InitialCredit)
        /\ Extends(Debits(u), none, WelcomeRow(u), -InitialCredit)
    BY <2>1, <2>2 DEF Extends, Deltas, Debits
  <2>5. InitialCredit \in Nat /\ InitialCredit \in Int /\ -InitialCredit \in Int
    BY InitialCreditAssumption
  <2> HIDE DEF none
  <2>6. /\ IsFiniteSet(Credits(Deltas(u)))
        /\ Total(Deltas(u)) = InitialCredit
    BY <2>3, <2>4, <2>5, TotalGrows
  <2>7. /\ IsFiniteSet(Credits(Debits(u)))
        /\ Total(Debits(u)) = 0
    BY <2>3, <2>4, <2>5, TotalGrows
  <2>8. wallet[u].available = InitialCredit /\ wallet[u].reserved = 0
    BY <1>1 DEF Init, TablesInit
  <2>9. QED
    BY <2>5, <2>6, <2>7, <2>8 DEF LedgerAddsUp, LedgerTotal
<1>4. Rows = {}
  BY <1>1 DEF Init, TablesInit, Rows
<1>5. UnusedFits
  BY <1>1 DEF Init, TablesInit, UnusedFits, UsageKeys
<1>6. QED
  BY <1>2, <1>3, <1>4, <1>5 DEF BooksInv

-----------------------------------------------------------------------------
(* Reserve *)

LEMMA ReserveKeepsBooks ==
  ASSUME EngineInv, BooksInv,
         NEW u \in Users, NEW q \in Requests, NEW o \in Operations,
         NEW a \in Nat, NEW r \in ReservationIds,
         Account!Reserve(u, q, o, a, r)
  PROVE  BooksInv'
<1> DEFINE row == NewReservation(u, q, o, a)
<1>1. /\ wallet \in [Users -> Wallet]
      /\ reservation \in [ReservationIds -> Reservation \cup {None}]
      /\ usage \in [UsageKeys -> Nat]
  BY DEF EngineInv, TypeInv, TypeOK, TablesTypeOK
<1>2. /\ WithRequest(u, q) = {}
      /\ reservation[r] = None
      /\ wallet' = [wallet EXCEPT ![u] = Deduct(wallet[u], a)]
      /\ reservation' = [reservation EXCEPT ![r] = row]
      /\ usage' = Recorded(usage, <<u, q, "reserved">>)
      /\ ledger' = ledger
  BY AccountOperators DEF Account!Reserve
<1>3. /\ row \in Reservation /\ row # None
      /\ row.user = u /\ row.request = q /\ row.amount = a
      /\ row.status = "reserved"
  BY NoneAssumption DEF NewReservation, Reservation, Status
<1> HIDE DEF row
<1>4. /\ reservation'[r] = row
      /\ \A x \in ReservationIds \ {r} : reservation'[x] = reservation[x]
      /\ r \notin Rows
      /\ Rows' = Rows \cup {r}
  BY <1>1, <1>2, <1>3 DEF Rows
<1>5. ASSUME NEW v \in Users PROVE HeldFits(v)'
  <2>1. HeldFits(v) /\ wallet[v] \in Wallet
    BY <1>1 DEF BooksInv
  <2>2. CASE v = u
    <3>1. Extends(HeldAmounts(u)', HeldAmounts(u), r, a)
      BY <1>3, <1>4 DEF Extends, HeldAmounts, RowsOf, Rows
    <3>2. wallet'[u].reserved = wallet[u].reserved + a
      BY <1>1, <1>2 DEF Deduct
    <3>3. QED
      BY <2>1, <2>2, <3>1, <3>2, TotalGrows DEF HeldFits, Held, Wallet
  <2>3. CASE v # u
    <3>1. HeldAmounts(v)' = HeldAmounts(v)
      BY <1>3, <1>4, <2>3 DEF HeldAmounts, RowsOf, Rows
    <3>2. wallet'[v] = wallet[v]
      BY <1>1, <1>2, <2>3
    <3>3. QED
      BY <2>1, <3>1, <3>2 DEF HeldFits, Held, Total, Credits
  <2>4. QED
    BY <2>2, <2>3
<1>6. ASSUME NEW v \in Users PROVE LedgerAddsUp(v)'
  <2>1. LedgerAddsUp(v) /\ wallet[v] \in Wallet
    BY <1>1 DEF BooksInv
  <2>2. wallet'[v].available + wallet'[v].reserved =
          wallet[v].available + wallet[v].reserved
    BY <1>1, <1>2, <2>1 DEF Deduct, Wallet
  <2>3. Deltas(v)' = Deltas(v) /\ Debits(v)' = Debits(v)
    BY <1>2 DEF Deltas, Debits, LedgerOf
  <2>4. QED
    BY <2>1, <2>2, <2>3 DEF LedgerAddsUp, LedgerTotal, Total, Credits
<1>7. /\ usage'[<<u, q, "reserved">>] = usage[<<u, q, "reserved">>] + 1
      /\ \A k \in UsageKeys \ {<<u, q, "reserved">>} : usage'[k] = usage[k]
  BY <1>1, <1>2 DEF Recorded, UsageKeys, Status
<1>8. ASSUME NEW x \in Rows' PROVE TrailFits(x)'
  <2>1. CASE x = r
    <3>1. \A s \in Status : usage[<<u, q, s>>] = 0
      BY <1>2 DEF BooksInv, UnusedFits
    <3>2. \A s \in Status :
            usage'[<<u, q, s>>] = (IF s = "reserved" THEN 1 ELSE 0)
      BY <1>7, <3>1 DEF UsageKeys, Status
    <3>3. QED
      BY <1>3, <1>4, <2>1, <3>2 DEF TrailFits
  <2>2. CASE x # r
    <3>1. /\ x \in Rows /\ x \in ReservationIds
          /\ reservation'[x] = reservation[x]
          /\ TrailFits(x)
          /\ reservation[x] \in Reservation
      BY <1>1, <1>4, <2>2 DEF BooksInv, Rows
    <3>2. ~(reservation[x].user = u /\ reservation[x].request = q)
      BY <1>2, <3>1 DEF WithRequest, RowsOf
    <3>3. \A s \in Status :
            usage'[<<reservation[x].user, reservation[x].request, s>>] =
              usage[<<reservation[x].user, reservation[x].request, s>>]
      BY <1>7, <3>1, <3>2 DEF UsageKeys, Reservation
    <3>4. CommitRows(reservation[x].user, x)' = CommitRows(reservation[x].user, x)
      BY <1>2, <3>1 DEF CommitRows
    <3>5. QED
      BY <1>2, <3>1, <3>3, <3>4 DEF TrailFits
  <2>3. QED
    BY <2>1, <2>2
<1>9. UnusedFits'
  <2>1. SUFFICES ASSUME NEW v \in Users, NEW w \in Requests, NEW s \in Status,
                        WithRequest(v, w)' = {}
                 PROVE  usage'[<<v, w, s>>] = 0
    BY DEF UnusedFits
  <2>2. ~(v = u /\ w = q)
    <3>1. r \in WithRequest(u, q)'
      BY <1>3, <1>4 DEF WithRequest, RowsOf
    <3>2. QED
      BY <2>1, <3>1
  <2>3. WithRequest(v, w) = {}
    BY <1>4, <2>1 DEF WithRequest, RowsOf, Rows
  <2>4. usage[<<v, w, s>>] = 0
    BY <2>3 DEF BooksInv, UnusedFits
  <2>5. QED
    BY <1>7, <2>2, <2>4 DEF UsageKeys
<1>10. QED
  BY <1>5, <1>6, <1>8, <1>9 DEF BooksInv

-----------------------------------------------------------------------------
(* Commit and release *)

\* What a commit and a release do alike: reservation r moves to status t.
Settles(r, t) ==
  LET row == reservation[r]
  IN  /\ row # None /\ row.status = "reserved"
      /\ reservation' = [reservation EXCEPT ![r] = MovedTo(row, t)]
      /\ usage' = Recorded(usage, <<row.user, row.request, t>>)

LEMMA SettledRows ==
  ASSUME EngineInv, NEW r \in ReservationIds,
         NEW t \in {"committed", "released"}, Settles(r, t)
  PROVE  /\ reservation[r] \in Reservation
         /\ reservation'[r].status = t
         /\ reservation'[r].user = reservation[r].user
         /\ reservation'[r].request = reservation[r].request
         /\ reservation'[r].amount = reservation[r].amount
         /\ \A x \in ReservationIds \ {r} : reservation'[x] = reservation[x]
         /\ r \in Rows
         /\ Rows' = Rows
<1>1. /\ reservation \in [ReservationIds -> Reservation \cup {None}]
      /\ reservation[r] \in Reservation
  BY DEF EngineInv, TypeInv, TypeOK, TablesTypeOK, Settles
<1>2. MovedTo(reservation[r], t) \in Reservation
  BY <1>1 DEF MovedTo, Reservation, Status
<1>3. MovedTo(reservation[r], t) # None
  BY <1>2, NoneAssumption
<1>4. /\ reservation'[r] = MovedTo(reservation[r], t)
      /\ \A x \in ReservationIds \ {r} : reservation'[x] = reservation[x]
  BY <1>1 DEF Settles
<1>5. Rows' = Rows /\ r \in Rows
  BY <1>3, <1>4 DEF Rows, Settles
<1>6. QED
  BY <1>1, <1>4, <1>5 DEF MovedTo, Reservation

LEMMA SettleKeepsHeld ==
  ASSUME EngineInv, BooksInv, NEW r \in ReservationIds,
         NEW t \in {"committed", "released"}, Settles(r, t),
         NEW w, wallet' = [wallet EXCEPT ![reservation[r].user] = w],
         w.reserved = wallet[reservation[r].user].reserved
                        - reservation[r].amount,
         NEW v \in Users
  PROVE  HeldFits(v)'
<1> DEFINE u == reservation[r].user
           a == reservation[r].amount
<1>1. /\ wallet \in [Users -> Wallet]
      /\ HeldFits(v) /\ wallet[v] \in Wallet
  BY DEF EngineInv, TypeInv, TypeOK, TablesTypeOK, BooksInv
<1>2. /\ reservation[r] \in Reservation
      /\ reservation[r].status = "reserved"
      /\ reservation'[r].status # "reserved"
      /\ reservation'[r].user = u
      /\ \A x \in ReservationIds \ {r} : reservation'[x] = reservation[x]
      /\ r \in Rows
      /\ Rows' = Rows
  BY SettledRows DEF Settles
<1>3. CASE v = u
  <2>1. Extends(HeldAmounts(v), HeldAmounts(v)', r, a)
    BY <1>2, <1>3 DEF Extends, HeldAmounts, RowsOf, Rows
  <2>2. a \in Nat /\ a \in Int
    BY <1>2 DEF Reservation
  <2>3. /\ IsFiniteSet(Credits(HeldAmounts(v)'))
        /\ Total(HeldAmounts(v)') \in Nat
        /\ Total(HeldAmounts(v)) = Total(HeldAmounts(v)') + a
    BY <1>1, <1>3, <2>1, <2>2, TotalShrinks DEF HeldFits
  <2>4. wallet'[v].reserved = wallet[v].reserved - a
    BY <1>1, <1>3
  <2>5. QED
    BY <1>1, <1>3, <2>2, <2>3, <2>4 DEF HeldFits, Held, Wallet
<1>4. CASE v # u
  <2>1. HeldAmounts(v)' = HeldAmounts(v)
    BY <1>2, <1>4 DEF HeldAmounts, RowsOf, Rows
  <2>2. wallet'[v] = wallet[v]
    BY <1>1, <1>4
  <2>3. QED
    BY <1>1, <2>1, <2>2 DEF HeldFits, Held, Total, Credits
<1>5. QED
  BY <1>3, <1>4

LEMMA SettleKeepsUsage ==
  ASSUME EngineInv, BooksInv, NEW r \in ReservationIds,
         NEW t \in {"committed", "released"}, Settles(r, t)
  PROVE  /\ \A x \in Rows, s \in Status :
              usage'[<<reservation'[x].user, reservation'[x].request, s>>] =
                (IF s \in {"reserved", reservation'[x].status} THEN 1 ELSE 0)
         /\ UnusedFits'
<1> DEFINE u == reservation[r].user
           q == reservation[r].request
<1>1. /\ reservation[r] \in Reservation
      /\ reservation[r].status = "reserved"
      /\ reservation'[r].status = t
      /\ reservation'[r].user = u
      /\ reservation'[r].request = q
      /\ \A x \in ReservationIds \ {r} : reservation'[x] = reservation[x]
      /\ r \in Rows
      /\ Rows' = Rows
  BY SettledRows DEF Settles
<1>2. u \in Users /\ q \in Requests /\ t \in Status
  BY <1>1 DEF Reservation, Status
<1>3. /\ usage'[<<u, q, t>>] = usage[<<u, q, t>>] + 1
      /\ \A k \in UsageKeys \ {<<u, q, t>>} : usage'[k] = usage[k]
  BY <1>2 DEF Settles, Recorded, EngineInv, TypeInv, TypeOK, TablesTypeOK,
    UsageKeys
<1>4. ASSUME NEW x \in Rows, NEW s \in Status
      PROVE  usage'[<<reservation'[x].user, reservation'[x].request, s>>] =
               (IF s \in {"reserved", reservation'[x].status} THEN 1 ELSE 0)
  <2>1. TrailFits(x) /\ x \in ReservationIds
    BY DEF BooksInv, Rows
  <2>2. usage[<<reservation[x].user, reservation[x].request, s>>] =
          (IF s \in {"reserved", reservation[x].status} THEN 1 ELSE 0)
    BY <2>1 DEF TrailFits
  <2>3. CASE x = r
    <3>1. CASE s = t
      BY <1>1, <1>3, <2>2, <2>3, <3>1
    <3>2. CASE s # t
      <4>1. <<u, q, s>> \in UsageKeys \ {<<u, q, t>>}
        BY <1>2, <3>2 DEF UsageKeys
      <4>2. QED
        BY <1>1, <1>3, <2>2, <2>3, <3>2, <4>1
    <3>3. QED
      BY <3>1, <3>2
  <2>4. CASE x # r
    <3>1. reservation'[x] = reservation[x] /\ reservation[x] \in Reservation
      BY <1>1, <2>1, <2>4 DEF EngineInv, TypeInv, TypeOK, TablesTypeOK, Rows
    <3>2. ~(reservation[x].user = u /\ reservation[x].request = q)
      BY <1>1, <2>4 DEF EngineInv, RequestsUnique
    <3>3. <<reservation[x].user, reservation[x].request, s>>
            \in UsageKeys \ {<<u, q, t>>}
      BY <3>1, <3>2 DEF UsageKeys, Reservation
    <3>4. QED
      BY <1>3, <2>2, <3>1, <3>3
  <2>5. QED
    BY <2>3, <2>4
<1>5. UnusedFits'
  <2>1. SUFFICES ASSUME NEW v \in Users, NEW w \in Requests, NEW s \in Status,
                        WithRequest(v, w)' = {}
                 PROVE  usage'[<<v, w, s>>] = 0
    BY DEF UnusedFits
  <2>2. ~(v = u /\ w = q)
    BY <1>1, <2>1 DEF WithRequest, RowsOf
  <2>3. WithRequest(v, w) = {}
    BY <1>1, <2>1, <2>2 DEF WithRequest, RowsOf, Rows
  <2>4. usage[<<v, w, s>>] = 0
    BY <2>3 DEF BooksInv, UnusedFits
  <2>5. <<v, w, s>> \in UsageKeys \ {<<u, q, t>>}
    BY <2>2 DEF UsageKeys
  <2>6. QED
    BY <1>3, <2>4, <2>5
<1>6. QED
  BY <1>4, <1>5

\* A commit takes its amount off the ledger total of its user.
LEMMA EntryAdded ==
  ASSUME NEW v, NEW e, NEW a \in Nat,
         e \notin ledger, ledger' = ledger \cup {e},
         e.user = v, e.delta = -a, LedgerAddsUp(v),
         wallet[v] \in Wallet, wallet'[v] = Consume(wallet[v], a)
  PROVE  LedgerAddsUp(v)'
<1>1. /\ Extends(Deltas(v)', Deltas(v), e, -a)
      /\ Extends(Debits(v)', Debits(v), e, a)
  BY DEF Extends, Deltas, Debits, LedgerOf
<1>2. a \in Int /\ -a \in Int /\ ~(-a > 0)
  OBVIOUS
<1>3. /\ IsFiniteSet(Credits(Deltas(v)'))
      /\ Total(Deltas(v)) \in Nat
      /\ Total(Deltas(v)') = Total(Deltas(v))
  BY <1>1, <1>2, TotalGrows DEF LedgerAddsUp
<1>4. /\ IsFiniteSet(Credits(Debits(v)'))
      /\ Total(Debits(v)) \in Nat
      /\ Total(Debits(v)') = Total(Debits(v)) + a
  BY <1>1, <1>2, TotalGrows DEF LedgerAddsUp
<1>5. wallet'[v].available + wallet'[v].reserved =
        wallet[v].available + wallet[v].reserved - a
  BY DEF Consume, Wallet
<1>6. QED
  BY <1>3, <1>4, <1>5 DEF LedgerAddsUp, LedgerTotal, Wallet

LEMMA CommitKeepsBooks ==
  ASSUME EngineInv, BooksInv, NEW r \in ReservationIds, Account!Commit(r)
  PROVE  BooksInv'
<1> DEFINE u == reservation[r].user
           a == reservation[r].amount
           w == Consume(wallet[u], a)
           e == CommitRow(u, r, a, w)
<1>1. /\ Settles(r, "committed")
      /\ wallet' = [wallet EXCEPT ![u] = w]
      /\ ledger' = ledger \cup {e}
  BY AccountOperators DEF Account!Commit, Account!Settleable, Settles
<1>2. /\ wallet \in [Users -> Wallet]
      /\ reservation[r] \in Reservation
      /\ reservation'[r].status = "committed"
      /\ reservation'[r].user = u
      /\ reservation'[r].amount = a
      /\ \A x \in ReservationIds \ {r} : reservation'[x] = reservation[x]
      /\ r \in Rows
      /\ Rows' = Rows
  BY <1>1, SettledRows DEF EngineInv, TypeInv, TypeOK, TablesTypeOK
<1>3. /\ u \in Users /\ a \in Nat
      /\ wallet[u] \in Wallet
      /\ w.reserved = wallet[u].reserved - a
  BY <1>2 DEF Reservation, Consume
<1>4. /\ e.user = u /\ e.reservation = r /\ e.delta = -a
      /\ r # None
      /\ \A entry \in ledger : entry.reservation # r
      /\ e \notin ledger
  BY <1>1, NoneAssumption DEF CommitRow, EngineInv, LedgerFits, Settles
<1> HIDE DEF e, w
<1>5. ASSUME NEW v \in Users PROVE HeldFits(v)'
  BY <1>1, <1>3, SettleKeepsHeld
<1>6. ASSUME NEW v \in Users PROVE LedgerAddsUp(v)'
  <2>1. LedgerAddsUp(v) /\ wallet[v] \in Wallet
    BY <1>2 DEF BooksInv
  <2>2. CASE v = u
    <3>1. wallet'[v] = Consume(wallet[v], a)
      BY <1>1, <1>2, <2>2 DEF w
    <3>2. QED
      BY <1>1, <1>3, <1>4, <2>1, <2>2, <3>1, EntryAdded
  <2>3. CASE v # u
    <3>1. Deltas(v)' = Deltas(v) /\ Debits(v)' = Debits(v)
      BY <1>1, <1>4, <2>3 DEF Deltas, Debits, LedgerOf
    <3>2. wallet'[v] = wallet[v]
      BY <1>1, <1>2, <2>3
    <3>3. QED
      BY <2>1, <3>1, <3>2 DEF LedgerAddsUp, LedgerTotal, Total, Credits
  <2>4. QED
    BY <2>2, <2>3
<1>7. ASSUME NEW x \in Rows' PROVE TrailFits(x)'
  <2>1. x \in Rows /\ x \in ReservationIds
    BY <1>2 DEF Rows
  <2>2. \A s \in Status :
          usage'[<<reservation'[x].user, reservation'[x].request, s>>] =
            (IF s \in {"reserved", reservation'[x].status} THEN 1 ELSE 0)
    BY <1>1, <2>1, SettleKeepsUsage
  <2>3. ASSUME reservation'[x].status = "committed"
        PROVE  \E entry \in ledger' :
                 /\ CommitRows(reservation[x].user, x)' = {entry}
                 /\ entry.delta = -reservation'[x].amount
    <3>1. CASE x = r
      <4>1. CommitRows(reservation[x].user, x)' = {e}
        BY <1>1, <1>2, <1>4, <3>1 DEF CommitRows
      <4>2. QED
        BY <1>1, <1>2, <1>4, <3>1, <4>1
    <3>2. CASE x # r
      <4>1. reservation'[x] = reservation[x]
        BY <1>2, <2>1, <3>2
      <4>2. CommitRows(reservation[x].user, x)' =
              CommitRows(reservation[x].user, x)
        BY <1>1, <1>4, <3>2, <4>1 DEF CommitRows
      <4>3. PICK entry \in ledger :
              /\ CommitRows(reservation[x].user, x) = {entry}
              /\ entry.delta = -reservation[x].amount
        BY <2>1, <2>3, <4>1 DEF BooksInv, TrailFits
      <4>4. QED
        BY <1>1, <4>1, <4>2, <4>3
    <3>3. QED
      BY <3>1, <3>2
  <2>4. QED
    BY <2>2, <2>3 DEF TrailFits
<1>8. UnusedFits'
  BY <1>1, SettleKeepsUsage
<1>9. QED
  BY <1>5, <1>6, <1>7, <1>8 DEF BooksInv

LEMMA ReleaseKeepsBooks ==
  ASSUME EngineInv, BooksInv, NEW r \in ReservationIds, Account!Release(r)
  PROVE  BooksInv'
<1> DEFINE u == reservation[r].user
           a == reservation[r].amount
           w == GiveBack(wallet[u], a)
<1>1. /\ Settles(r, "released")
      /\ wallet' = [wallet EXCEPT ![u] = w]
      /\ ledger' = ledger
  BY AccountOperators DEF Account!Release, Account!Settleable, Settles
<1>2. /\ wallet \in [Users -> Wallet]
      /\ reservation[r] \in Reservation
      /\ reservation'[r].status = "released"
      /\ \A x \in ReservationIds \ {r} : reservation'[x] = reservation[x]
      /\ Rows' = Rows
  BY <1>1, SettledRows DEF EngineInv, TypeInv, TypeOK, TablesTypeOK
<1>3. /\ u \in Users /\ a \in Nat
      /\ wallet[u] \in Wallet
      /\ w.reserved = wallet[u].reserved - a
      /\ w.available = wallet[u].available + a
  BY <1>2 DEF Reservation, GiveBack
<1> HIDE DEF w
<1>4. ASSUME NEW v \in Users PROVE HeldFits(v)'
  BY <1>1, <1>3, SettleKeepsHeld
<1>5. ASSUME NEW v \in Users PROVE LedgerAddsUp(v)'
  <2>1. LedgerAddsUp(v) /\ wallet[v] \in Wallet
    BY <1>2 DEF BooksInv
  <2>2. wallet'[v].available + wallet'[v].reserved =
          wallet[v].available + wallet[v].reserved
    BY <1>1, <1>2, <1>3, <2>1 DEF Wallet
  <2>3. Deltas(v)' = Deltas(v) /\ Debits(v)' = Debits(v)
    BY <1>1 DEF Deltas, Debits, LedgerOf
  <2>4. QED
    BY <2>1, <2>2, <2>3 DEF LedgerAddsUp, LedgerTotal, Total, Credits
<1>6. ASSUME NEW x \in Rows' PROVE TrailFits(x)'
  <2>1. x \in Rows /\ x \in ReservationIds
    BY <1>2 DEF Rows
  <2>2. \A s \in Status :
          usage'[<<reservation'[x].user, reservation'[x].request, s>>] =
            (IF s \in {"reserved", reservation'[x].status} THEN 1 ELSE 0)
    BY <1>1, <2>1, SettleKeepsUsage
  <2>3. ASSUME reservation'[x].status = "committed"
        PROVE  \E entry \in ledger' :
                 /\ CommitRows(reservation[x].user, x)' = {entry}
                 /\ entry.delta = -reservation'[x].amount
    <3>1. reservation'[x] = reservation[x]
      BY <1>2, <2>1, <2>3
    <3>2. CommitRows(reservation[x].user, x)' =
            CommitRows(reservation[x].user, x)
      BY <1>1, <3>1 DEF CommitRows
    <3>3. QED
      BY <1>1, <2>1, <2>3, <3>1, <3>2 DEF BooksInv, TrailFits
  <2>4. QED
    BY <2>2, <2>3 DEF TrailFits
<1>7. UnusedFits'
  BY <1>1, SettleKeepsUsage
<1>8. QED
  BY <1>4, <1>5, <1>6, <1>7 DEF BooksInv

-----------------------------------------------------------------------------
(* Every step *)

LEMMA NextKeepsBooks ==
  ASSUME EngineInv, BooksInv, [Next]_vars
  PROVE  BooksInv'
<1>1. CASE UNCHANGED tables
  <2>1. Rows' = Rows /\ \A u : RowsOf(u)' = RowsOf(u)
    BY <1>1 DEF tables, Rows, RowsOf
  <2>2. ASSUME NEW u \in Users PROVE HeldFits(u)'
    <3>1. HeldAmounts(u)' = HeldAmounts(u)
      BY <1>1, <2>1 DEF tables, HeldAmounts
    <3>2. QED
      BY <1>1, <3>1 DEF tables, BooksInv, HeldFits, Held, Total, Credits
  <2>3. ASSUME NEW u \in Users PROVE LedgerAddsUp(u)'
    <3>1. Deltas(u)' = Deltas(u) /\ Debits(u)' = Debits(u)
      BY <1>1 DEF tables, Deltas, Debits, LedgerOf
    <3>2. QED
      BY <1>1, <3>1 DEF tables, BooksInv, LedgerAddsUp, LedgerTotal, Total,
        Credits
  <2>4. \A r \in Rows' : TrailFits(r)'
    BY <1>1, <2>1 DEF tables, BooksInv, TrailFits, CommitRows
  <2>5. UnusedFits'
    BY <1>1, <2>1 DEF tables, BooksInv, UnusedFits, WithRequest
  <2>6. QED
    BY <2>2, <2>3, <2>4, <2>5 DEF BooksInv
<1>2. ASSUME NEW p \in Callers, pc[p] = "commit", Publish(p),
             ~UNCHANGED tables
      PROVE  BooksInv'
  <2>1. CASE /\ ReservePending(p)
             /\ Account!Reserve(call[p].user, call[p].request,
                                call[p].operation, cost[p], buf[p].id)
    <3>1. /\ call[p].user \in Users
          /\ call[p].request \in Requests
          /\ call[p].operation \in Operations
          /\ cost[p] \in Nat
          /\ buf[p].id \in ReservationIds
      BY <2>1 DEF ReservePending, DeductPending, ReserveCall, EngineInv,
        TypeInv, TypeOK
    <3>2. QED
      BY <2>1, <3>1, ReserveKeepsBooks
  <2>2. CASE CommitPending(p) /\ Account!Commit(call[p].id)
    BY <2>2, CommitKeepsBooks DEF CommitPending, ConsumePending,
      SettlePending, MovePending, SettleCall
  <2>3. CASE ReleasePending(p) /\ Account!Release(call[p].id)
    BY <2>3, ReleaseKeepsBooks DEF ReleasePending, SettlePending, MovePending,
      SettleCall
  <2>4. QED
    BY <1>2, <2>1, <2>2, <2>3, PublishIsAccountStep
<1>3. QED
  BY <1>1, <1>2, OnlyPublishChanges

LEMMA BooksInvariant == Spec => [](EngineInv /\ BooksInv)
<1>1. Init => EngineInv /\ BooksInv
  BY InitEngineInv, InitBooks
<1>2. EngineInv /\ BooksInv /\ [Next]_vars => (EngineInv /\ BooksInv)'
  BY NextEngineInv, NextKeepsBooks
<1>3. QED
  BY <1>1, <1>2, PTL DEF Spec

-----------------------------------------------------------------------------
(* Theorems *)

\* No money is stranded in reserved_balance and none is held twice: it is the
\* sum of what the open reservations of the user hold.
THEOREM ReservedBalanceIsHeld == Spec => []ReservedIsHeld
<1>1. BooksInv => ReservedIsHeld
  BY DEF BooksInv, HeldFits, ReservedIsHeld
<1>2. QED
  BY <1>1, BooksInvariant, PTL

\* The ledger is the source of truth: its rows add up to the wallet.
THEOREM LedgerIsTheTruth == Spec => []LedgerExplainsWallet
<1>1. BooksInv => LedgerExplainsWallet
  BY DEF BooksInv, LedgerAddsUp, LedgerExplainsWallet
<1>2. QED
  BY <1>1, BooksInvariant, PTL

\* The usage events and the ledger tell of every reservation exactly what its
\* status says: it was charged once if it was committed and never otherwise.
THEOREM TrailAgrees == Spec => []TrailMatchesStatus
<1>1. EngineInv /\ BooksInv => TrailMatchesStatus
  <2>1. SUFFICES ASSUME EngineInv, BooksInv, NEW r \in Rows
                 PROVE
      LET row == reservation[r]
          debits == CommitRows(row.user, r)
      IN  /\ \A s \in Status :
               usage[<<row.user, row.request, s>>] =
                 (IF s \in {"reserved", row.status} THEN 1 ELSE 0)
          /\ row.status # "committed" => debits = {}
          /\ row.status = "committed" =>
               /\ Cardinality(debits) = 1
               /\ \A entry \in debits : entry.delta = -row.amount
    BY DEF TrailMatchesStatus
  <2> DEFINE debits == CommitRows(reservation[r].user, r)
  <2>2. TrailFits(r)
    BY <2>1 DEF BooksInv
  <2>3. reservation[r].status # "committed" => debits = {}
    BY <2>1, NoneAssumption DEF EngineInv, LedgerFits, CommitRows, Rows
  <2>4. ASSUME reservation[r].status = "committed"
        PROVE  /\ Cardinality(debits) = 1
               /\ \A entry \in debits : entry.delta = -reservation[r].amount
    <3>1. PICK entry \in ledger : /\ debits = {entry}
                                  /\ entry.delta = -reservation[r].amount
      BY <2>2, <2>4 DEF TrailFits
    <3>2. Cardinality({entry}) = 1
      BY FS_Singleton
    <3>3. QED
      BY <3>1, <3>2
  <2>5. QED
    BY <2>2, <2>3, <2>4 DEF TrailFits
<1>2. QED
  BY <1>1, BooksInvariant, PTL
=============================================================================
