------------------------- MODULE CreditEngineProofs -------------------------
(***************************************************************************)
(* Proofs about CreditEngine, for any number of users, requests, callers   *)
(* and connections: it is well typed, it keeps an inductive invariant (what *)
(* each transaction has written at each place it can be at, in terms of    *)
(* the rows as they are committed, and that no row is written by two), it  *)
(* implements CreditAccount, and it keeps what it promises of request ids, *)
(* pending writes, settled reservations and deadlocks.                     *)
(***************************************************************************)
EXTENDS CreditEngine, FiniteSetTheorems, TLAPS

-----------------------------------------------------------------------------
(* Type correctness.  TypeOK is not inductive by itself: what a statement  *)
(* writes is typed only if the call has the arguments, the snapshot and    *)
(* the pending rows that belong to its location.                           *)

SettleLocations == {"lookup", "transition", "reread", "adjust", "ledger"}

ReserveLocations == {"operation", "seen", "deduct", "insert"}

\* The locations at which a settling call has read its reservation.
HasSnapshot(p) ==
  \/ pc[p] \in {"transition", "reread", "adjust", "ledger"}
  \/ pc[p] = "spender" /\ call[p] \in SettleCall

CallFits(p) ==
  /\ pc[p] \in ReserveLocations => call[p] \in ReserveCall
  /\ pc[p] \in SettleLocations => call[p] \in SettleCall
  /\ pc[p] # "idle" => call[p] \in ReserveCall \cup SettleCall
  /\ pc[p] \in {"commit", "done"} => out[p] \in Outcome
  /\ HasSnapshot(p) => /\ current[p] \in Reservation
                       /\ current[p].user = call[p].user
                       /\ reservation[call[p].id] # None
  /\ pc[p] = "ledger" => call[p].kind = "commit" /\ buf[p].wallet \in Wallet

TypeInv == TypeOK /\ \A p \in Callers : CallFits(p)

LEMMA ConstantsTyped ==
  /\ NoWrites \in Buffer
  /\ Failed("UNAVAILABLE") \in Outcome
BY DEF NoWrites, Buffer, Failed, Outcome, Codes

LEMMA InitTypeInv == Init => TypeInv
<1> SUFFICES ASSUME Init PROVE TypeInv
  OBVIOUS
<1>1. TablesTypeOK
  <2>1. wallet \in [Users -> Wallet]
    BY InitialCreditAssumption DEF Init, TablesInit, Wallet
  <2>2. ledger \subseteq LedgerRow
    BY InitialCreditAssumption DEF Init, TablesInit, LedgerRow, WelcomeRow
  <2>3. QED
    BY <2>1, <2>2 DEF Init, TablesInit, TablesTypeOK
<1>2. buf \in [Callers -> Buffer]
  BY DEF Init, Buffer, NoWrites
<1>3. TypeOK
  BY <1>1, <1>2, CatalogueAssumption DEF Init, TypeOK, Locations
<1>4. QED
  BY <1>3 DEF Init, TypeInv, CallFits, HasSnapshot, ReserveLocations,
              SettleLocations

\* The ways a call moves that several actions share.

LEMMA FailTyped ==
  ASSUME TypeInv, NEW p \in Callers, NEW c \in Codes, Fail(p, c),
         pc[p] # "idle"
  PROVE  TypeInv'
<1> USE DEF TypeInv, TypeOK
<1>1. TypeOK'
  BY DEF Fail, Goto, tables, admin, TablesTypeOK, Locations, Failed, Outcome,
         NoWrites, Buffer
<1>2. ASSUME NEW q \in Callers PROVE CallFits(q)'
  BY DEF Fail, Goto, tables, Failed, Outcome, CallFits, HasSnapshot,
         ReserveLocations, SettleLocations, Locations
<1>3. QED
  BY <1>1, <1>2

LEMMA ContinueTyped ==
  ASSUME TypeInv, NEW p \in Callers, NEW l \in Locations, Continue(p, l),
         pc[p] # "idle",
         l \notin {"idle", "commit", "done", "ledger"},
         l \in ReserveLocations => call[p] \in ReserveCall,
         l \in SettleLocations => call[p] \in SettleCall,
         l \in {"transition", "reread", "adjust"} => HasSnapshot(p),
         l = "spender" => call[p] \in ReserveCall
  PROVE  TypeInv'
<1> USE DEF TypeInv, TypeOK
<1>0. ReserveCall \cap SettleCall = {}
  BY DEF ReserveCall, SettleCall
<1>1. TypeOK'
  BY DEF Continue, Goto, tables, admin, TablesTypeOK
<1>2. ASSUME NEW q \in Callers PROVE CallFits(q)'
  BY <1>0 DEF Continue, Goto, tables, CallFits, HasSnapshot,
         ReserveLocations, SettleLocations, Locations
<1>3. QED
  BY <1>1, <1>2

LEMMA ReturnTyped ==
  ASSUME TypeInv, NEW p \in Callers, NEW r \in ReservationIds,
         NEW b \in BOOLEAN, Return(p, r, b), buf' \in [Callers -> Buffer],
         pc[p] # "idle",
         \A q \in Callers \ {p} : buf'[q] = buf[q]
  PROVE  TypeInv'
<1> USE DEF TypeInv, TypeOK
<1>1. TypeOK'
  BY DEF Return, Goto, tables, admin, TablesTypeOK, Locations, Success,
         Outcome, Codes
<1>2. ASSUME NEW q \in Callers PROVE CallFits(q)'
  BY DEF Return, Goto, tables, Success, Outcome, Codes, CallFits, HasSnapshot,
         ReserveLocations, SettleLocations, Locations
<1>3. QED
  BY <1>1, <1>2

LEMMA NextTypeInv == TypeInv /\ [Next]_vars => TypeInv'
<1> SUFFICES ASSUME TypeInv, [Next]_vars PROVE TypeInv'
  OBVIOUS
<1> USE DEF TypeInv
<1>0. ReserveCall \cap SettleCall = {}
  BY DEF ReserveCall, SettleCall
<1>1. ASSUME NEW p \in Callers, Invoke(p) PROVE TypeInv'
  BY <1>1 DEF Invoke, Start, Goto, tables, admin, TypeOK, TablesTypeOK,
              Locations, CallFits, HasSnapshot, ReserveLocations,
              SettleLocations
<1>2. ASSUME NEW p \in Callers, Deliver(p) PROVE TypeInv'
  BY <1>2 DEF Deliver, Goto, tables, admin, TypeOK, TablesTypeOK, Locations,
              CallFits, HasSnapshot, ReserveLocations, SettleLocations
<1>3. ASSUME NEW p \in Callers, Connect(p) PROVE TypeInv'
  <2>1. CASE call[p].kind = "reserve"
    BY <1>3, <2>1, ContinueTyped DEF Connect, Locations, CallFits,
      ReserveLocations, SettleLocations, ReserveCall, SettleCall
  <2>2. CASE call[p].kind # "reserve"
    BY <1>3, <2>2, ContinueTyped DEF Connect, Locations, CallFits,
      ReserveLocations, SettleLocations, ReserveCall, SettleCall
  <2>3. QED
    BY <2>1, <2>2
<1>4. ASSUME NEW p \in Callers, RejectSuspended(p) PROVE TypeInv'
  BY <1>4, FailTyped DEF RejectSuspended, Codes
<1>5. ASSUME NEW p \in Callers, AdmitReserve(p) PROVE TypeInv'
  BY <1>5, ContinueTyped DEF AdmitReserve, Locations, CallFits, ReserveCall,
    SettleCall, ReserveLocations, SettleLocations
<1>6. ASSUME NEW p \in Callers, LoadOperation(p) PROVE TypeInv'
  <2>1. CASE Fail(p, "UNKNOWN_OPERATION") \/ Fail(p, "OPERATION_DISABLED")
    BY <1>6, <2>1, FailTyped DEF LoadOperation, Codes
  <2>2. CASE /\ operations[call[p].operation] # None
             /\ cost' = [cost EXCEPT ![p] = operations[call[p].operation].cost]
             /\ Goto(p, "seen")
             /\ UNCHANGED <<tables, admin, call, attempt, current, buf, out>>
    <3>1. operations[call[p].operation].cost \in Nat
      BY <1>6, <2>2 DEF LoadOperation, CallFits, ReserveLocations,
        ReserveCall, TypeOK, OperationRow
    <3>2. QED
      BY <1>6, <2>2, <3>1 DEF LoadOperation, Goto, tables, admin, TypeOK,
        TablesTypeOK, Locations, CallFits, HasSnapshot, ReserveLocations,
        SettleLocations
  <2>3. QED
    BY <1>6, <2>1, <2>2 DEF LoadOperation
<1>7. ASSUME NEW p \in Callers, LookupRequest(p) PROVE TypeInv'
  <2>1. CASE \E r \in WithRequest(call[p].user, call[p].request) :
                Return(p, r, TRUE) /\ UNCHANGED buf
    BY <1>7, <2>1, ReturnTyped DEF LookupRequest, WithRequest, RowsOf, Rows,
      TypeOK
  <2>2. CASE Continue(p, "deduct")
    BY <1>7, <2>2, ContinueTyped DEF LookupRequest, Locations, CallFits,
      ReserveLocations, SettleLocations
  <2>3. QED
    BY <1>7, <2>1, <2>2 DEF LookupRequest
<1>8. ASSUME NEW p \in Callers, TryReserve(p) PROVE TypeInv'
  <2> DEFINE u == call[p].user
  <2>1. CASE Fail(p, "INSUFFICIENT_CREDITS")
    BY <1>8, <2>1, FailTyped DEF TryReserve, Codes
  <2>2. CASE /\ wallet[u].available >= cost[p]
             /\ buf' = [buf EXCEPT ![p].wallet = Deduct(wallet[u], cost[p])]
             /\ Goto(p, "insert")
             /\ UNCHANGED <<tables, admin, call, attempt, cost, current, out>>
    <3>1. Deduct(wallet[u], cost[p]) \in Wallet
      BY <1>8, <2>2 DEF TryReserve, CallFits, ReserveLocations, ReserveCall,
        TypeOK, TablesTypeOK, Wallet, Deduct
    <3>2. buf' \in [Callers -> Buffer]
      BY <2>2, <3>1 DEF TypeOK, Buffer
    <3>3. QED
      BY <1>8, <2>2, <3>2 DEF TryReserve, Goto, tables, admin, TypeOK,
        TablesTypeOK, Locations, CallFits, HasSnapshot, ReserveLocations,
        SettleLocations
  <2>3. QED
    BY <1>8, <2>1, <2>2 DEF TryReserve
<1>9. ASSUME NEW p \in Callers, InsertReservation(p) PROVE TypeInv'
  <2> DEFINE c == call[p]
  <2>1. CASE RetryAsRead(p)
    <3>1. CASE attempt[p] = 0
      <4>1. TypeOK'
        <5>1. buf' \in [Callers -> Buffer] /\ attempt' \in [Callers -> {0, 1}]
          BY <2>1, <3>1, ConstantsTyped DEF RetryAsRead, TypeOK
        <5>2. pc' \in [Callers -> Locations]
          BY <2>1, <3>1 DEF RetryAsRead, Goto, TypeOK, Locations
        <5>3. QED
          BY <2>1, <3>1, <5>1, <5>2 DEF RetryAsRead, tables, admin, TypeOK,
            TablesTypeOK
      <4>2. ASSUME NEW q \in Callers PROVE CallFits(q)'
        BY <1>9, <2>1, <3>1 DEF InsertReservation, RetryAsRead, Goto, tables,
          TypeOK, CallFits, HasSnapshot, ReserveLocations, SettleLocations
      <4>3. QED
        BY <4>1, <4>2
    <3>2. CASE attempt[p] # 0
      BY <1>9, <2>1, <3>2, FailTyped DEF InsertReservation, RetryAsRead, Codes
    <3>3. QED
      BY <3>1, <3>2
  <2>2. ASSUME NEW r \in FreshIds,
               buf' = [buf EXCEPT
                         ![p].id = r,
                         ![p].row = NewReservation(c.user, c.request,
                                                   c.operation, cost[p]),
                         ![p].usage = <<c.user, c.request, "reserved">>],
               Return(p, r, FALSE)
        PROVE  TypeInv'
    <3>1. c \in ReserveCall /\ r \in ReservationIds
      BY <1>9 DEF InsertReservation, CallFits, ReserveLocations, FreshIds
    <3>2. NewReservation(c.user, c.request, c.operation, cost[p])
            \in Reservation
      BY <3>1 DEF ReserveCall, Reservation, NewReservation, Status, TypeOK
    <3>3. <<c.user, c.request, "reserved">> \in UsageKeys
      BY <3>1 DEF ReserveCall, UsageKeys, Status
    <3>4. buf' \in [Callers -> Buffer]
      BY <2>2, <3>1, <3>2, <3>3 DEF TypeOK, Buffer
    <3>5. QED
      BY <1>9, <2>2, <3>1, <3>4, ReturnTyped DEF InsertReservation, TypeOK
  <2>3. QED
    BY <1>9, <2>1, <2>2 DEF InsertReservation
<1>10. ASSUME NEW p \in Callers, LookupReservation(p) PROVE TypeInv'
  <2> DEFINE row == reservation[call[p].id]
  <2>1. CASE Fail(p, "RESERVATION_NOT_FOUND")
    BY <1>10, <2>1, FailTyped DEF LookupReservation, Codes
  <2>2. CASE /\ row # None /\ row.user = call[p].user
             /\ current' = [current EXCEPT ![p] = row]
             /\ Goto(p, "spender")
             /\ UNCHANGED <<tables, admin, call, attempt, cost, buf, out>>
    <3>1. row \in Reservation
      BY <1>10, <2>2 DEF LookupReservation, CallFits, SettleLocations,
        SettleCall, TypeOK, TablesTypeOK
    <3>2. QED
      BY <1>10, <2>2, <3>1 DEF LookupReservation, Goto, tables, admin, TypeOK,
        TablesTypeOK, Locations, CallFits, HasSnapshot, ReserveLocations,
        SettleLocations
  <2>3. QED
    BY <1>10, <2>1, <2>2 DEF LookupReservation
<1>11. ASSUME NEW p \in Callers, AdmitSettle(p) PROVE TypeInv'
  <2>1. call[p] \in SettleCall /\ call[p].id \in ReservationIds
    BY <1>11 DEF AdmitSettle, CallFits, ReserveCall, SettleCall
  <2>2. CASE Return(p, call[p].id, TRUE) /\ UNCHANGED buf
    BY <1>11, <2>1, <2>2, ReturnTyped DEF AdmitSettle, TypeOK
  <2>3. CASE Fail(p, "RESERVATION_STATE")
    BY <1>11, <2>3, FailTyped DEF AdmitSettle, Codes
  <2>4. CASE Continue(p, "transition")
    BY <1>11, <2>1, <2>4, ContinueTyped DEF AdmitSettle, Locations,
      HasSnapshot, ReserveLocations, SettleLocations
  <2>5. QED
    BY <1>11, <2>2, <2>3, <2>4 DEF AdmitSettle
<1>12. ASSUME NEW p \in Callers, Transition(p) PROVE TypeInv'
  <2> DEFINE r == call[p].id
             row == reservation[r]
  <2>1. call[p] \in SettleCall /\ r \in ReservationIds
    BY <1>12 DEF Transition, CallFits, SettleLocations, SettleCall
  <2>2. CASE Continue(p, "reread")
    BY <1>12, <2>1, <2>2, ContinueTyped DEF Transition, Locations,
      HasSnapshot, ReserveLocations, SettleLocations
  <2>3. CASE /\ row.status = "reserved"
             /\ buf' = [buf EXCEPT ![p].id = r,
                                   ![p].row = MovedTo(row, Target(call[p]))]
             /\ Goto(p, "adjust")
             /\ UNCHANGED <<tables, admin, call, attempt, cost, current, out>>
    <3>1. row \in Reservation
      BY <1>12, <2>1 DEF Transition, CallFits, HasSnapshot, TypeOK,
        TablesTypeOK
    <3>2. MovedTo(row, Target(call[p])) \in Reservation
      BY <3>1 DEF MovedTo, Target, Reservation, Status
    <3>3. buf' \in [Callers -> Buffer]
      BY <2>1, <2>3, <3>2 DEF TypeOK, Buffer
    <3>4. TypeOK'
      BY <1>12, <2>3, <3>3 DEF Transition, Goto, tables, admin, TypeOK,
        TablesTypeOK, Locations
    <3>5. ASSUME NEW q \in Callers PROVE CallFits(q)'
      BY <1>12, <2>1, <2>3 DEF Transition, Goto, tables, TypeOK, CallFits,
        HasSnapshot, ReserveLocations, SettleLocations
    <3>6. QED
      BY <3>4, <3>5
  <2>4. QED
    BY <1>12, <2>2, <2>3 DEF Transition
<1>13. ASSUME NEW p \in Callers, Reread(p) PROVE TypeInv'
  <2>1. CASE Return(p, call[p].id, TRUE) /\ UNCHANGED buf
    BY <1>13, <2>1, ReturnTyped DEF Reread, CallFits, SettleLocations,
      SettleCall, TypeOK
  <2>2. CASE Fail(p, "RESERVATION_STATE")
    BY <1>13, <2>2, FailTyped DEF Reread, Codes
  <2>3. QED
    BY <1>13, <2>1, <2>2 DEF Reread
<1>14. ASSUME NEW p \in Callers, Adjust(p) PROVE TypeInv'
  <2> DEFINE c == call[p]
             row == current[p]
             w == wallet[c.user]
  <2>1. c \in SettleCall /\ row \in Reservation /\ w \in Wallet
    BY <1>14 DEF Adjust, CallFits, HasSnapshot, SettleLocations, SettleCall,
      TypeOK, TablesTypeOK
  <2>2. CASE Fail(p, "CHECK_VIOLATION")
    BY <1>14, <2>2, FailTyped DEF Adjust, Codes
  <2>3. CASE /\ ~(w.reserved < row.amount)
             /\ c.kind = "commit"
             /\ buf' = [buf EXCEPT ![p].wallet = Consume(w, row.amount)]
             /\ Goto(p, "ledger")
             /\ UNCHANGED <<tables, admin, call, attempt, cost, current, out>>
    <3>1. Consume(w, row.amount) \in Wallet
      BY <2>1, <2>3 DEF Consume, Wallet, Reservation
    <3>2. buf' \in [Callers -> Buffer] /\ buf'[p].wallet \in Wallet
      BY <2>3, <3>1 DEF TypeOK, Buffer
    <3>3. TypeOK'
      BY <2>3, <3>2 DEF Goto, tables, admin, TypeOK, TablesTypeOK, Locations
    <3>4. ASSUME NEW q \in Callers PROVE CallFits(q)'
      BY <1>14, <2>1, <2>3, <3>2 DEF Adjust, Goto, tables, TypeOK, CallFits,
        HasSnapshot, ReserveLocations, SettleLocations
    <3>5. QED
      BY <3>3, <3>4
  <2>4. CASE /\ ~(w.reserved < row.amount)
             /\ buf' = [buf EXCEPT
                          ![p].wallet = GiveBack(w, row.amount),
                          ![p].usage = <<c.user, row.request, "released">>]
             /\ Return(p, c.id, FALSE)
    <3>1. GiveBack(w, row.amount) \in Wallet
      BY <2>1, <2>4 DEF GiveBack, Wallet, Reservation
    <3>2. <<c.user, row.request, "released">> \in UsageKeys
      BY <2>1 DEF SettleCall, Reservation, UsageKeys, Status
    <3>3. buf' \in [Callers -> Buffer]
      BY <2>4, <3>1, <3>2 DEF TypeOK, Buffer
    <3>4. QED
      BY <1>14, <2>1, <2>4, <3>3, ReturnTyped DEF Adjust, SettleCall, TypeOK
  <2>5. QED
    BY <1>14, <2>2, <2>3, <2>4 DEF Adjust
<1>15. ASSUME NEW p \in Callers, AppendLedger(p) PROVE TypeInv'
  <2> DEFINE c == call[p]
             row == current[p]
             entry == CommitRow(c.user, c.id, row.amount, buf[p].wallet)
             settled == CommitRows(c.user, c.id) # {}
  <2>1. c \in SettleCall /\ row \in Reservation /\ buf[p].wallet \in Wallet
    BY <1>15 DEF AppendLedger, CallFits, HasSnapshot, SettleLocations
  <2>2. entry \in LedgerRow
    BY <2>1 DEF CommitRow, LedgerRow, SettleCall, Reservation, Wallet
  <2>3. <<c.user, row.request, "committed">> \in UsageKeys
    BY <2>1 DEF SettleCall, Reservation, UsageKeys, Status
  <2>4. buf' \in [Callers -> Buffer]
    <3>1. NoWrites \in Buffer
      BY DEF NoWrites, Buffer
    <3>2. [buf[p] EXCEPT !.ledger = entry,
                         !.usage = <<c.user, row.request, "committed">>]
            \in Buffer
      BY <2>2, <2>3 DEF TypeOK, Buffer
    <3>3. QED
      BY <1>15, <3>1, <3>2 DEF AppendLedger, TypeOK
  <2>5. QED
    BY <1>15, <2>1, <2>4, ReturnTyped DEF AppendLedger, SettleCall, TypeOK
<1>16. ASSUME NEW p \in Callers, pc[p] = "commit", Publish(p),
              out' = out \/ out' = [out EXCEPT ![p] = Failed("UNAVAILABLE")]
       PROVE  TypeInv'
  <2> DEFINE b == buf[p]
  <2>1. b \in Buffer
    BY DEF TypeOK
  <2>2. wallet' \in [Users -> Wallet]
    BY <1>16, <2>1 DEF Publish, TypeOK, TablesTypeOK, Buffer
  <2>3. reservation' \in [ReservationIds -> Reservation \cup {None}]
    BY <1>16, <2>1 DEF Publish, TypeOK, TablesTypeOK, Buffer
  <2>4. ledger' \subseteq LedgerRow
    BY <1>16, <2>1 DEF Publish, TypeOK, TablesTypeOK, Buffer
  <2>5. usage' \in [UsageKeys -> Nat]
    BY <1>16, <2>1 DEF Publish, TypeOK, TablesTypeOK, Buffer, Recorded
  <2>6. \A r \in ReservationIds : reservation[r] # None => reservation'[r] # None
    BY <1>16, <2>1, NoneAssumption DEF Publish, TypeOK, TablesTypeOK, Buffer
  <2>7. buf' \in [Callers -> Buffer] /\ out' \in [Callers -> Outcome \cup {None}]
    BY <1>16, ConstantsTyped DEF Publish, TypeOK
  <2>8. TypeOK'
    BY <1>16, <2>2, <2>3, <2>4, <2>5, <2>7 DEF Publish, Goto, admin, TypeOK,
      TablesTypeOK, Locations
  <2>9. ASSUME NEW q \in Callers PROVE CallFits(q)'
    <3>1. q = p => out'[q] \in Outcome
      BY <1>16, ConstantsTyped DEF CallFits, TypeOK
    <3>2. HasSnapshot(q) => call[q].id \in ReservationIds
      BY DEF HasSnapshot, CallFits, SettleLocations, SettleCall
    <3>3. QED
      BY <1>16, <2>6, <3>1, <3>2 DEF Publish, Goto, TypeOK, CallFits,
        HasSnapshot, ReserveLocations, SettleLocations
  <2>10. QED
    BY <2>8, <2>9
<1>17. ASSUME NEW p \in Callers, CommitTransaction(p) PROVE TypeInv'
  BY <1>16, <1>17 DEF CommitTransaction
<1>18. ASSUME NEW p \in Callers, LoseAcknowledgement(p) PROVE TypeInv'
  BY <1>16, <1>18 DEF LoseAcknowledgement
<1>19. ASSUME NEW p \in Callers, Crash(p) PROVE TypeInv'
  BY <1>19, FailTyped DEF Crash, Codes
<1>20. ASSUME NEW p \in Callers, BreakDeadlock(p) PROVE TypeInv'
  BY <1>20, FailTyped DEF BreakDeadlock, WaitsFor, Codes
<1>21. ASSUME NEW u \in Users, SetStatus(u) PROVE TypeInv'
  BY <1>21 DEF SetStatus, tables, TypeOK, TablesTypeOK, CallFits, HasSnapshot
<1>22. ASSUME NEW o \in Operations, Relist(o) PROVE TypeInv'
  BY <1>22, CatalogueAssumption DEF Relist, tables, TypeOK, TablesTypeOK,
    CallFits, HasSnapshot
<1>23. CASE UNCHANGED vars
  BY <1>23 DEF vars, tables, admin, TypeOK, TablesTypeOK, CallFits, HasSnapshot
<1>24. QED
  BY <1>1, <1>2, <1>3, <1>4, <1>5, <1>6, <1>7, <1>8, <1>9, <1>10, <1>11,
     <1>12, <1>13, <1>14, <1>15, <1>17, <1>18, <1>19, <1>20, <1>21, <1>22,
     <1>23 DEF Next, Acquire, Proceed

\* Every state of the engine is well typed: in particular no wallet column is
\* ever negative, though no statement but tryReserve tests a balance itself.
THEOREM TypeCorrect == Spec => []TypeOK
<1>1. TypeInv => TypeOK
  BY DEF TypeInv
<1>2. QED
  BY InitTypeInv, NextTypeInv, <1>1, PTL DEF Spec

-----------------------------------------------------------------------------
(* What the transaction of p has written *)

NothingPending(p) == buf[p] = NoWrites

\* tryReserve
DeductPending(p) ==
  LET u == call[p].user
  IN  /\ call[p] \in ReserveCall
      /\ cost[p] <= wallet[u].available
      /\ buf[p].wallet = Deduct(wallet[u], cost[p])

\* reserve, whole
ReservePending(p) ==
  LET c == call[p]
      r == buf[p].id
  IN  /\ DeductPending(p)
      /\ r \in ReservationIds
      /\ reservation[r] = None
      /\ WithRequest(c.user, c.request) = {}
      /\ buf[p].row = NewReservation(c.user, c.request, c.operation, cost[p])
      /\ buf[p].ledger = None
      /\ buf[p].usage = <<c.user, c.request, "reserved">>

\* transition
MovePending(p) ==
  LET c == call[p]
  IN  /\ c \in SettleCall
      /\ current[p] \in Reservation
      /\ current[p].user = c.user
      /\ current[p].status = "reserved"
      /\ reservation[c.id] = current[p]
      /\ buf[p].id = c.id
      /\ buf[p].row = MovedTo(current[p], Target(c))

\* transition and adjust
SettlePending(p, w) ==
  /\ MovePending(p)
  /\ current[p].amount <= wallet[call[p].user].reserved
  /\ buf[p].wallet = w

ConsumePending(p) ==
  /\ call[p].kind = "commit"
  /\ SettlePending(p, Consume(wallet[call[p].user], current[p].amount))

\* commit, whole
CommitPending(p) ==
  LET c == call[p]
      a == current[p].amount
  IN  /\ ConsumePending(p)
      /\ buf[p].ledger = CommitRow(c.user, c.id, a, Consume(wallet[c.user], a))
      /\ buf[p].usage = <<c.user, current[p].request, "committed">>

\* release, whole
ReleasePending(p) ==
  LET c == call[p]
  IN  /\ c.kind = "release"
      /\ SettlePending(p, GiveBack(wallet[c.user], current[p].amount))
      /\ buf[p].ledger = None
      /\ buf[p].usage = <<c.user, current[p].request, "released">>

WritesFit(p) ==
  /\ pc[p] \notin {"insert", "adjust", "ledger", "commit"} => NothingPending(p)
  /\ pc[p] = "insert" => /\ DeductPending(p)
                         /\ buf[p].id = None
                         /\ buf[p].row = None
                         /\ buf[p].ledger = None
  /\ pc[p] = "adjust" => /\ MovePending(p)
                         /\ buf[p].wallet = None
                         /\ buf[p].ledger = None
  /\ pc[p] = "ledger" => ConsumePending(p)
  /\ pc[p] = "commit" =>
       \/ NothingPending(p)
       \/ ReservePending(p)
       \/ CommitPending(p)
       \/ ReleasePending(p)

\* No row and no unique key is pending in two transactions.
Exclusive(p, q) ==
  p # q =>
    /\ buf[p].wallet # None /\ buf[q].wallet # None =>
         call[p].user # call[q].user
    /\ buf[p].id # None => buf[p].id # buf[q].id
    /\ buf[p].row # None /\ buf[q].row # None =>
         \/ buf[p].row.user # buf[q].row.user
         \/ buf[p].row.request # buf[q].row.request

\* The row a settling call read differs from the committed one in its status
\* at most.
SnapshotFits(p) ==
  /\ HasSnapshot(p) =>
       reservation[call[p].id] =
         MovedTo(current[p], reservation[call[p].id].status)
  /\ pc[p] = "transition" => current[p].status = "reserved"

\* Only a committed reservation has a ledger row.
LedgerFits ==
  \A row \in ledger :
    row.reservation # None =>
      /\ reservation[row.reservation] # None
      /\ reservation[row.reservation].status = "committed"

\* The unique index on (user_id, request_id).
RequestsUnique ==
  \A r, s \in Rows :
    /\ reservation[r].user = reservation[s].user
    /\ reservation[r].request = reservation[s].request
    => r = s

EngineInv ==
  /\ TypeInv
  /\ \A p \in Callers : WritesFit(p) /\ SnapshotFits(p)
  /\ \A p, q \in Callers : Exclusive(p, q)
  /\ LedgerFits
  /\ RequestsUnique

-----------------------------------------------------------------------------
LEMMA NoWritesFields ==
  /\ NoWrites.wallet = None
  /\ NoWrites.id = None
  /\ NoWrites.row = None
  /\ NoWrites.ledger = None
  /\ NoWrites.usage = None
BY DEF NoWrites

LEMMA InitEngineInv == Init => EngineInv
<1> SUFFICES ASSUME Init PROVE EngineInv
  OBVIOUS
<1>1. TypeInv
  BY InitTypeInv
<1>2. \A p \in Callers : WritesFit(p) /\ SnapshotFits(p)
  BY DEF Init, WritesFit, NothingPending, SnapshotFits, HasSnapshot
<1>3. \A p, q \in Callers : Exclusive(p, q)
  BY NoWritesFields DEF Init, Exclusive
<1>4. LedgerFits /\ RequestsUnique
  BY DEF Init, TablesInit, LedgerFits, WelcomeRow, RequestsUnique, Rows
<1>5. QED
  BY <1>1, <1>2, <1>3, <1>4 DEF EngineInv

-----------------------------------------------------------------------------
(* Steps that leave the tables alone *)

\* What a step of another caller leaves of the call of q.
Same(q) ==
  /\ pc'[q] = pc[q]
  /\ call'[q] = call[q]
  /\ cost'[q] = cost[q]
  /\ current'[q] = current[q]
  /\ buf'[q] = buf[q]

\* A step of p that leaves the tables as they are keeps the invariant if it
\* does so for p.
LEMMA LocalStep ==
  ASSUME EngineInv, NEW p \in Callers, TypeInv', UNCHANGED tables,
         \A q \in Callers \ {p} : Same(q),
         WritesFit(p)', SnapshotFits(p)',
         \A q \in Callers \ {p} : Exclusive(p, q)'
  PROVE  EngineInv'
<1> USE DEF EngineInv, tables
<1>1. ASSUME NEW q \in Callers PROVE WritesFit(q)' /\ SnapshotFits(q)'
  <2>1. CASE q = p
    BY <2>1
  <2>2. CASE q # p
    <3>1. Same(q)
      BY <2>2
    <3>2. WritesFit(q)'
      BY <3>1 DEF Same, WritesFit, NothingPending, DeductPending,
        ReservePending, MovePending, SettlePending, ConsumePending,
        CommitPending, ReleasePending, WithRequest, RowsOf, Rows
    <3>3. SnapshotFits(q)'
      BY <3>1 DEF Same, SnapshotFits, HasSnapshot
    <3>4. QED
      BY <3>2, <3>3
  <2>3. QED
    BY <2>1, <2>2
<1>2. ASSUME NEW q \in Callers, NEW x \in Callers PROVE Exclusive(q, x)'
  <2>1. CASE q # p /\ x # p
    BY <2>1 DEF Exclusive, Same
  <2>2. CASE q = p \/ x = p
    BY <2>2 DEF Exclusive
  <2>3. QED
    BY <2>1, <2>2
<1>3. LedgerFits' /\ RequestsUnique'
  BY DEF LedgerFits, RequestsUnique, Rows
<1>4. QED
  BY <1>1, <1>2, <1>3

\* The special case of a step after which nothing is pending.
LEMMA QuietStep ==
  ASSUME EngineInv, NEW p \in Callers, TypeInv', UNCHANGED tables,
         \A q \in Callers \ {p} : Same(q),
         buf'[p] = NoWrites,
         pc'[p] \notin {"insert", "adjust", "ledger"},
         SnapshotFits(p)'
  PROVE  EngineInv'
<1>1. WritesFit(p)'
  BY DEF WritesFit, NothingPending
<1>2. \A q \in Callers \ {p} : Exclusive(p, q)'
  BY NoWritesFields DEF Exclusive
<1>3. QED
  BY <1>1, <1>2, LocalStep

\* The steps that only read.
LEMMA ContinueStep ==
  ASSUME EngineInv, NEW p \in Callers, TypeInv', NEW l, Continue(p, l),
         buf[p] = NoWrites, l \notin {"insert", "adjust", "ledger"},
         HasSnapshot(p)' => HasSnapshot(p),
         l = "transition" => current[p].status = "reserved"
  PROVE  EngineInv'
<1>1. /\ UNCHANGED tables
      /\ \A q \in Callers \ {p} : Same(q)
      /\ buf'[p] = NoWrites
      /\ pc'[p] = l
  BY DEF Continue, Goto, Same, EngineInv, TypeInv, TypeOK
<1>2. SnapshotFits(p)'
  BY <1>1 DEF Continue, SnapshotFits, EngineInv, tables
<1>3. QED
  BY <1>1, <1>2, QuietStep

LEMMA FailStep ==
  ASSUME EngineInv, NEW p \in Callers, TypeInv', NEW c, Fail(p, c)
  PROVE  EngineInv'
<1>1. /\ UNCHANGED tables
      /\ \A q \in Callers \ {p} : Same(q)
      /\ buf'[p] = NoWrites
      /\ pc'[p] = "done"
  BY DEF Fail, Goto, Same, EngineInv, TypeInv, TypeOK
<1>2. SnapshotFits(p)'
  BY <1>1 DEF SnapshotFits, HasSnapshot
<1>3. QED
  BY <1>1, <1>2, QuietStep

LEMMA ReusedStep ==
  ASSUME EngineInv, NEW p \in Callers, TypeInv', NEW r, Return(p, r, TRUE),
         UNCHANGED buf, buf[p] = NoWrites
  PROVE  EngineInv'
<1>1. /\ UNCHANGED tables
      /\ \A q \in Callers \ {p} : Same(q)
      /\ buf'[p] = NoWrites
      /\ pc'[p] = "commit"
  BY DEF Return, Goto, Same, EngineInv, TypeInv, TypeOK
<1>2. SnapshotFits(p)'
  BY <1>1 DEF SnapshotFits, HasSnapshot
<1>3. QED
  BY <1>1, <1>2, QuietStep

-----------------------------------------------------------------------------
(* The writing statements *)

LEMMA TryReserveStep ==
  ASSUME EngineInv, NEW p \in Callers, TypeInv', TryReserve(p)
  PROVE  EngineInv'
<1> DEFINE u == call[p].user
<1>1. CASE Fail(p, "INSUFFICIENT_CREDITS")
  BY <1>1, FailStep
<1>2. CASE /\ wallet[u].available >= cost[p]
           /\ WalletFree(p, u)
           /\ buf' = [buf EXCEPT ![p].wallet = Deduct(wallet[u], cost[p])]
           /\ Goto(p, "insert")
           /\ UNCHANGED <<tables, admin, call, attempt, cost, current, out>>
  <2>1. /\ UNCHANGED tables
        /\ \A q \in Callers \ {p} : Same(q)
        /\ pc'[p] = "insert"
        /\ call'[p] = call[p] /\ cost'[p] = cost[p]
        /\ call[p] \in ReserveCall
    BY <1>2 DEF TryReserve, Goto, Same, EngineInv, TypeInv, TypeOK, CallFits,
      ReserveLocations
  <2>2. /\ buf[p] = NoWrites
        /\ buf'[p] = [NoWrites EXCEPT !.wallet = Deduct(wallet[u], cost[p])]
    BY <1>2 DEF TryReserve, EngineInv, WritesFit, NothingPending, TypeInv,
      TypeOK
  <2>3. /\ buf'[p].wallet = Deduct(wallet[u], cost[p])
        /\ buf'[p].id = None
        /\ buf'[p].row = None
        /\ buf'[p].ledger = None
    BY <2>2 DEF NoWrites
  <2>4. wallet[u] \in Wallet /\ cost[p] \in Nat
    BY <2>1 DEF EngineInv, TypeInv, TypeOK, TablesTypeOK, ReserveCall
  <2>5. WritesFit(p)'
    BY <1>2, <2>1, <2>3, <2>4 DEF WritesFit, DeductPending, tables, Wallet
  <2>6. SnapshotFits(p)'
    BY <2>1 DEF SnapshotFits, HasSnapshot
  <2>7. ASSUME NEW q \in Callers \ {p} PROVE Exclusive(p, q)'
    BY <1>2, <2>1, <2>3 DEF Exclusive, Same, WalletFree, HoldsWallet
  <2>8. QED
    BY <2>1, <2>5, <2>6, <2>7, LocalStep
<1>3. QED
  BY <1>1, <1>2 DEF TryReserve

LEMMA InsertStep ==
  ASSUME EngineInv, NEW p \in Callers, TypeInv', InsertReservation(p)
  PROVE  EngineInv'
<1> DEFINE c == call[p]
<1>1. CASE RetryAsRead(p)
  <2>1. CASE attempt[p] = 0
    <3>1. /\ UNCHANGED tables
          /\ \A q \in Callers \ {p} : Same(q)
          /\ buf'[p] = NoWrites
          /\ pc'[p] = "connect"
      BY <1>1, <2>1 DEF RetryAsRead, Goto, Same, EngineInv, TypeInv, TypeOK
    <3>2. SnapshotFits(p)'
      BY <3>1 DEF SnapshotFits, HasSnapshot
    <3>3. QED
      BY <3>1, <3>2, QuietStep
  <2>2. CASE attempt[p] # 0
    BY <1>1, <2>2, FailStep DEF RetryAsRead
  <2>3. QED
    BY <2>1, <2>2
<1>2. ASSUME WithRequest(c.user, c.request) = {},
             NEW r \in FreshIds,
             buf' = [buf EXCEPT
                       ![p].id = r,
                       ![p].row = NewReservation(c.user, c.request,
                                                 c.operation, cost[p]),
                       ![p].usage = <<c.user, c.request, "reserved">>],
             Return(p, r, FALSE)
      PROVE  EngineInv'
  <2>1. /\ UNCHANGED tables
        /\ \A q \in Callers \ {p} : Same(q)
        /\ pc'[p] = "commit"
        /\ call'[p] = c /\ cost'[p] = cost[p]
    BY <1>2 DEF Return, Goto, Same, EngineInv, TypeInv, TypeOK
  <2>2. /\ DeductPending(p)
        /\ buf[p].ledger = None
        /\ buf[p] \in Buffer
    BY DEF InsertReservation, EngineInv, WritesFit, TypeInv, TypeOK
  <2>3. /\ buf'[p].wallet = buf[p].wallet
        /\ buf'[p].id = r
        /\ buf'[p].row = NewReservation(c.user, c.request, c.operation, cost[p])
        /\ buf'[p].ledger = None
        /\ buf'[p].usage = <<c.user, c.request, "reserved">>
    BY <1>2, <2>2 DEF EngineInv, TypeInv, TypeOK, Buffer
  <2>4. r \in ReservationIds /\ reservation[r] = None
    BY DEF FreshIds
  <2>5. ReservePending(p)'
    BY <1>2, <2>1, <2>2, <2>3, <2>4 DEF ReservePending, DeductPending, tables,
      WithRequest, RowsOf, Rows
  <2>6. WritesFit(p)' /\ SnapshotFits(p)'
    BY <2>1, <2>5 DEF WritesFit, SnapshotFits, HasSnapshot
  <2>7. ASSUME NEW q \in Callers \ {p} PROVE Exclusive(p, q)'
    <3>1. buf'[q] = buf[q] /\ call'[q] = call[q]
      BY <2>1 DEF Same
    <3>2. Exclusive(p, q) /\ buf[q].id # r
      BY DEF EngineInv, FreshIds
    <3>3. ~HoldsRequest(q, c.user, c.request)
      BY DEF InsertReservation, RequestFree
    <3>4. /\ buf'[p].row.user = c.user
          /\ buf'[p].row.request = c.request
      BY <2>3 DEF NewReservation
    <3>5. QED
      BY <2>1, <2>3, <3>1, <3>2, <3>3, <3>4 DEF Exclusive, HoldsRequest
  <2>8. QED
    BY <2>1, <2>6, <2>7, LocalStep
<1>3. QED
  BY <1>1, <1>2 DEF InsertReservation

LEMMA TransitionStep ==
  ASSUME EngineInv, NEW p \in Callers, TypeInv', Transition(p)
  PROVE  EngineInv'
<1> DEFINE c == call[p]
           r == c.id
           row == reservation[r]
<1>1. /\ buf[p] = NoWrites
      /\ HasSnapshot(p)
      /\ c \in SettleCall
      /\ current[p] \in Reservation
      /\ current[p].user = c.user
      /\ row = MovedTo(current[p], row.status)
      /\ current[p].status = "reserved"
  BY DEF Transition, EngineInv, TypeInv, CallFits, HasSnapshot,
    SettleLocations, WritesFit, NothingPending, SnapshotFits
<1>2. CASE Continue(p, "reread")
  BY <1>1, <1>2, ContinueStep
<1>3. CASE /\ row.status = "reserved"
           /\ ReservationFree(p, r)
           /\ buf' = [buf EXCEPT ![p].id = r,
                                 ![p].row = MovedTo(row, Target(call[p]))]
           /\ Goto(p, "adjust")
           /\ UNCHANGED <<tables, admin, call, attempt, cost, current, out>>
  <2>1. /\ UNCHANGED tables
        /\ \A q \in Callers \ {p} : Same(q)
        /\ pc'[p] = "adjust"
        /\ call'[p] = c /\ current'[p] = current[p]
    BY <1>3 DEF Goto, Same, EngineInv, TypeInv, TypeOK
  <2>2. row = current[p]
    BY <1>1, <1>3 DEF MovedTo, Reservation
  <2>3. buf'[p] = [NoWrites EXCEPT !.id = r, !.row = MovedTo(row, Target(c))]
    BY <1>1, <1>3 DEF EngineInv, TypeInv, TypeOK
  <2>4. /\ buf'[p].wallet = None
        /\ buf'[p].id = r
        /\ buf'[p].row = MovedTo(current[p], Target(c))
        /\ buf'[p].ledger = None
    BY <2>2, <2>3 DEF NoWrites
  <2>5. WritesFit(p)' /\ SnapshotFits(p)'
    BY <1>1, <2>1, <2>2, <2>4 DEF WritesFit, MovePending, SnapshotFits,
      HasSnapshot, tables, EngineInv
  <2>6. ASSUME NEW q \in Callers \ {p} PROVE Exclusive(p, q)'
    <3>1. buf'[q] = buf[q] /\ call'[q] = call[q] /\ buf[q].id # r
      BY <1>3, <2>1 DEF Same, ReservationFree, HoldsReservation
    <3>2. r \in Rows /\ row.user = current[p].user
          /\ row.request = current[p].request
      BY <1>1, <2>2, NoneAssumption DEF Rows, SettleCall
    <3>3. ASSUME buf[q].row # None,
                 buf[q].row.user = row.user,
                 buf[q].row.request = row.request
          PROVE  FALSE
      <4>1. WritesFit(q)
        BY DEF EngineInv
      <4>2. CASE ReservePending(q)
        <5>1. buf[q].row.user = call[q].user
              /\ buf[q].row.request = call[q].request
          BY <4>2 DEF ReservePending, NewReservation
        <5>2. r \in WithRequest(call[q].user, call[q].request)
          BY <3>2, <3>3, <5>1 DEF WithRequest, RowsOf
        <5>3. QED
          BY <4>2, <5>2 DEF ReservePending
      <4>3. CASE MovePending(q)
        <5>1. /\ current[q].user = row.user
              /\ current[q].request = row.request
          BY <3>3, <4>3 DEF MovePending, MovedTo, Reservation
        <5>2. call[q].id \in Rows /\ reservation[call[q].id] = current[q]
          BY <4>3, NoneAssumption DEF MovePending, Rows, SettleCall
        <5>3. call[q].id = r
          BY <3>2, <5>1, <5>2 DEF EngineInv, RequestsUnique
        <5>4. QED
          BY <3>1, <4>3, <5>3 DEF MovePending
      <4>4. QED
        BY <3>3, <4>1, <4>2, <4>3, NoWritesFields DEF WritesFit,
          NothingPending, CommitPending, ReleasePending, ConsumePending,
          SettlePending
    <3>4. QED
      BY <2>2, <2>4, <3>1, <3>2, <3>3 DEF Exclusive, MovedTo
  <2>7. QED
    BY <2>1, <2>5, <2>6, LocalStep
<1>4. QED
  BY <1>2, <1>3 DEF Transition

LEMMA AdjustStep ==
  ASSUME EngineInv, NEW p \in Callers, TypeInv', Adjust(p)
  PROVE  EngineInv'
<1> DEFINE c == call[p]
           row == current[p]
           w == wallet[c.user]
<1>1. /\ MovePending(p)
      /\ buf[p].wallet = None
      /\ buf[p].ledger = None
      /\ HasSnapshot(p)
      /\ SnapshotFits(p)
      /\ c \in SettleCall
      /\ row \in Reservation
      /\ w \in Wallet
      /\ buf[p] \in Buffer
  BY DEF Adjust, EngineInv, WritesFit, MovePending, HasSnapshot, TypeInv,
    TypeOK, TablesTypeOK, SettleCall
<1>2. CASE Fail(p, "CHECK_VIOLATION")
  BY <1>2, FailStep
<1>3. CASE /\ ~(w.reserved < row.amount)
           /\ c.kind = "commit"
           /\ buf' = [buf EXCEPT ![p].wallet = Consume(w, row.amount)]
           /\ Goto(p, "ledger")
           /\ UNCHANGED <<tables, admin, call, attempt, cost, current, out>>
  <2>1. /\ UNCHANGED tables
        /\ \A q \in Callers \ {p} : Same(q)
        /\ pc'[p] = "ledger"
        /\ call'[p] = c /\ current'[p] = row
    BY <1>3 DEF Goto, Same, EngineInv, TypeInv, TypeOK
  <2>2. /\ buf'[p].wallet = Consume(w, row.amount)
        /\ buf'[p].id = buf[p].id
        /\ buf'[p].row = buf[p].row
    BY <1>1, <1>3 DEF EngineInv, TypeInv, TypeOK, Buffer
  <2>3. row.amount <= w.reserved
    BY <1>1, <1>3 DEF Wallet, Reservation
  <2>4. ConsumePending(p)'
    BY <1>1, <1>3, <2>1, <2>2, <2>3 DEF ConsumePending, SettlePending,
      MovePending, tables
  <2>5. WritesFit(p)' /\ SnapshotFits(p)'
    BY <1>1, <2>1, <2>4 DEF WritesFit, SnapshotFits, HasSnapshot, tables
  <2>6. ASSUME NEW q \in Callers \ {p} PROVE Exclusive(p, q)'
    BY <2>1, <2>2 DEF Exclusive, Same, Adjust, WalletFree, HoldsWallet,
      EngineInv
  <2>7. QED
    BY <2>1, <2>5, <2>6, LocalStep
<1>4. CASE /\ ~(w.reserved < row.amount)
           /\ c.kind = "release"
           /\ buf' = [buf EXCEPT
                        ![p].wallet = GiveBack(w, row.amount),
                        ![p].usage = <<c.user, row.request, "released">>]
           /\ Return(p, c.id, FALSE)
  <2>1. /\ UNCHANGED tables
        /\ \A q \in Callers \ {p} : Same(q)
        /\ pc'[p] = "commit"
        /\ call'[p] = c /\ current'[p] = row
    BY <1>4 DEF Return, Goto, Same, EngineInv, TypeInv, TypeOK
  <2>2. /\ buf'[p].wallet = GiveBack(w, row.amount)
        /\ buf'[p].id = buf[p].id
        /\ buf'[p].row = buf[p].row
        /\ buf'[p].ledger = None
        /\ buf'[p].usage = <<c.user, row.request, "released">>
    BY <1>1, <1>4 DEF EngineInv, TypeInv, TypeOK, Buffer
  <2>3. row.amount <= w.reserved
    BY <1>1, <1>4 DEF Wallet, Reservation
  <2>4. ReleasePending(p)'
    BY <1>1, <1>4, <2>1, <2>2, <2>3 DEF ReleasePending, SettlePending,
      MovePending, tables
  <2>5. WritesFit(p)' /\ SnapshotFits(p)'
    BY <2>1, <2>4 DEF WritesFit, SnapshotFits, HasSnapshot
  <2>6. ASSUME NEW q \in Callers \ {p} PROVE Exclusive(p, q)'
    BY <2>1, <2>2 DEF Exclusive, Same, Adjust, WalletFree, HoldsWallet,
      EngineInv
  <2>7. QED
    BY <2>1, <2>5, <2>6, LocalStep
<1>5. QED
  BY <1>2, <1>3, <1>4 DEF Adjust

\* While a reservation is reserved the key of its commit is free.
LEMMA KeyFree ==
  ASSUME EngineInv, NEW p \in Callers, pc[p] = "ledger"
  PROVE  CommitRows(call[p].user, call[p].id) = {}
<1>1. /\ call[p].id # None
      /\ reservation[call[p].id].status = "reserved"
  BY NoneAssumption DEF EngineInv, WritesFit, ConsumePending, SettlePending,
    MovePending, SettleCall
<1>2. QED
  BY <1>1 DEF CommitRows, EngineInv, LedgerFits

LEMMA AppendLedgerStep ==
  ASSUME EngineInv, NEW p \in Callers, TypeInv', AppendLedger(p)
  PROVE  EngineInv'
<1> DEFINE c == call[p]
           row == current[p]
           w == Consume(wallet[c.user], row.amount)
<1>1. /\ ConsumePending(p)
      /\ buf[p] \in Buffer
      /\ buf[p].wallet = w
  BY DEF AppendLedger, EngineInv, WritesFit, TypeInv, TypeOK, ConsumePending,
    SettlePending
<1>2. /\ buf' = [buf EXCEPT ![p] =
                   [buf[p] EXCEPT
                      !.ledger = CommitRow(c.user, c.id, row.amount, w),
                      !.usage = <<c.user, row.request, "committed">>]]
      /\ Return(p, c.id, FALSE)
  BY <1>1, KeyFree DEF AppendLedger
<1>3. /\ UNCHANGED tables
      /\ \A q \in Callers \ {p} : Same(q)
      /\ pc'[p] = "commit"
      /\ call'[p] = c /\ current'[p] = row
  BY <1>2 DEF Return, Goto, Same, EngineInv, TypeInv, TypeOK
<1>4. /\ buf'[p].wallet = buf[p].wallet
      /\ buf'[p].id = buf[p].id
      /\ buf'[p].row = buf[p].row
      /\ buf'[p].ledger = CommitRow(c.user, c.id, row.amount, w)
      /\ buf'[p].usage = <<c.user, row.request, "committed">>
  BY <1>1, <1>2 DEF EngineInv, TypeInv, TypeOK, Buffer
<1>5. CommitPending(p)'
  BY <1>1, <1>3, <1>4 DEF CommitPending, ConsumePending, SettlePending,
    MovePending, tables
<1>6. WritesFit(p)' /\ SnapshotFits(p)'
  BY <1>3, <1>5 DEF WritesFit, SnapshotFits, HasSnapshot
<1>7. ASSUME NEW q \in Callers \ {p} PROVE Exclusive(p, q)'
  BY <1>3, <1>4 DEF Exclusive, Same, EngineInv
<1>8. QED
  BY <1>3, <1>6, <1>7, LocalStep

-----------------------------------------------------------------------------
(* The end of a call *)

\* The operators of the abstract account are those of the engine.
LEMMA AccountOperators ==
  /\ \A w, a : /\ Account!Deduct(w, a) = Deduct(w, a)
               /\ Account!Consume(w, a) = Consume(w, a)
               /\ Account!GiveBack(w, a) = GiveBack(w, a)
  /\ \A u, q, o, a :
       Account!NewReservation(u, q, o, a) = NewReservation(u, q, o, a)
  /\ \A row, s : Account!MovedTo(row, s) = MovedTo(row, s)
  /\ \A u, r, a, w : Account!CommitRow(u, r, a, w) = CommitRow(u, r, a, w)
  /\ \A us, k : Account!Recorded(us, k) = Recorded(us, k)
  /\ \A u, q : Account!WithRequest(u, q) = WithRequest(u, q)
  /\ Account!TablesInit <=> TablesInit
  /\ Account!tables = tables
<1>1. \A u, q : Account!WithRequest(u, q) = WithRequest(u, q)
  BY DEF WithRequest, RowsOf, Rows, Account!WithRequest, Account!RowsOf,
    Account!Rows
<1>2. Account!TablesInit <=> TablesInit
  BY DEF TablesInit, Account!TablesInit, WelcomeRow, Account!WelcomeRow,
    UsageKeys, Account!UsageKeys, Status, Account!Status
<1>3. QED
  BY <1>1, <1>2 DEF Deduct, Account!Deduct, Consume, Account!Consume,
    GiveBack, Account!GiveBack, NewReservation, Account!NewReservation,
    MovedTo, Account!MovedTo, CommitRow, Account!CommitRow, Recorded,
    Account!Recorded, tables, Account!tables

\* What COMMIT makes of the tables is a step of CreditAccount.
LEMMA PublishIsAccountStep ==
  ASSUME EngineInv, NEW p \in Callers, pc[p] = "commit", Publish(p)
  PROVE  \/ buf[p] = NoWrites /\ UNCHANGED tables
         \/ /\ ReservePending(p)
            /\ Account!Reserve(call[p].user, call[p].request,
                               call[p].operation, cost[p], buf[p].id)
         \/ CommitPending(p) /\ Account!Commit(call[p].id)
         \/ ReleasePending(p) /\ Account!Release(call[p].id)
<1> DEFINE c == call[p]
<1>0. /\ wallet \in [Users -> Wallet]
      /\ cost[p] \in Nat
  BY DEF EngineInv, TypeInv, TypeOK, TablesTypeOK
<1>1. CASE NothingPending(p)
  BY <1>1, NoWritesFields DEF NothingPending, Publish, tables
<1>2. CASE ReservePending(p)
  <2>1. /\ buf[p].wallet \in Wallet
        /\ buf[p].row \in Reservation
        /\ buf[p].usage \in UsageKeys
        /\ buf[p].ledger = None
    BY <1>2, <1>0 DEF ReservePending, DeductPending, NewReservation, Deduct,
      Wallet, Reservation, UsageKeys, Status, ReserveCall
  <2>2. /\ wallet' = [wallet EXCEPT ![c.user] = buf[p].wallet]
        /\ reservation' = [reservation EXCEPT ![buf[p].id] = buf[p].row]
        /\ ledger' = ledger
        /\ usage' = Recorded(usage, buf[p].usage)
    BY <2>1, NoneAssumption DEF Publish
  <2>3. Account!Reserve(c.user, c.request, c.operation, cost[p], buf[p].id)
    BY <1>2, <2>2, AccountOperators DEF ReservePending, DeductPending,
      Account!Reserve
  <2>4. QED
    BY <1>2, <2>3
<1>3. CASE CommitPending(p)
  <2>1. /\ buf[p].wallet = Consume(wallet[c.user], current[p].amount)
        /\ buf[p].id = c.id
        /\ buf[p].row = MovedTo(current[p], "committed")
        /\ current[p] \in Reservation
        /\ current[p].user = c.user
        /\ current[p].status = "reserved"
        /\ current[p].amount <= wallet[c.user].reserved
        /\ reservation[c.id] = current[p]
        /\ c.id \in ReservationIds /\ c.user \in Users
    BY <1>3 DEF CommitPending, ConsumePending, SettlePending, MovePending,
      Target, SettleCall
  <2>2. wallet[c.user] \in Wallet
    BY <2>1, <1>0
  <2>3. buf[p].wallet \in Wallet /\ buf[p].wallet.available \in Nat
    BY <2>1, <2>2 DEF Consume, Wallet, Reservation
  <2>4. /\ buf[p].row \in Reservation
        /\ buf[p].usage \in UsageKeys
    BY <1>3, <2>1 DEF CommitPending, MovedTo, Reservation, UsageKeys, Status
  <2>5. buf[p].ledger \in LedgerRow
    BY <1>3, <2>1, <2>3 DEF CommitPending, CommitRow, Reservation, LedgerRow
  <2>6. /\ wallet' = [wallet EXCEPT ![c.user] = buf[p].wallet]
        /\ reservation' = [reservation EXCEPT ![c.id] = buf[p].row]
        /\ ledger' = ledger \cup {buf[p].ledger}
        /\ usage' = Recorded(usage, buf[p].usage)
    BY <2>1, <2>3, <2>4, <2>5, NoneAssumption DEF Publish
  <2>7. Account!Commit(c.id)
    BY <1>3, <2>1, <2>6, AccountOperators, NoneAssumption DEF CommitPending,
      Account!Commit, Account!Settleable
  <2>8. QED
    BY <1>3, <2>7
<1>4. CASE ReleasePending(p)
  <2>1. /\ buf[p].wallet = GiveBack(wallet[c.user], current[p].amount)
        /\ buf[p].id = c.id
        /\ buf[p].row = MovedTo(current[p], "released")
        /\ current[p] \in Reservation
        /\ current[p].user = c.user
        /\ current[p].status = "reserved"
        /\ current[p].amount <= wallet[c.user].reserved
        /\ reservation[c.id] = current[p]
        /\ c.id \in ReservationIds /\ c.user \in Users
    BY <1>4 DEF ReleasePending, SettlePending, MovePending, Target, SettleCall
  <2>2. wallet[c.user] \in Wallet
    BY <2>1, <1>0
  <2>3. buf[p].wallet \in Wallet
    BY <2>1, <2>2 DEF GiveBack, Wallet, Reservation
  <2>4. /\ buf[p].row \in Reservation
        /\ buf[p].usage \in UsageKeys
    BY <1>4, <2>1 DEF ReleasePending, MovedTo, Reservation, UsageKeys, Status
  <2>5. /\ wallet' = [wallet EXCEPT ![c.user] = buf[p].wallet]
        /\ reservation' = [reservation EXCEPT ![c.id] = buf[p].row]
        /\ ledger' = ledger
        /\ usage' = Recorded(usage, buf[p].usage)
    BY <1>4, <2>1, <2>3, <2>4, NoneAssumption DEF Publish, ReleasePending
  <2>6. Account!Release(c.id)
    BY <1>4, <2>1, <2>5, AccountOperators, NoneAssumption DEF ReleasePending,
      Account!Release, Account!Settleable
  <2>7. QED
    BY <1>4, <2>6
<1>5. QED
  BY <1>1, <1>2, <1>3, <1>4 DEF EngineInv, WritesFit

\* The reservation COMMIT writes is new, under a request that had none, or is
\* one that was reserved and is now settled; only a commit adds to the ledger.
RowWritten(p) ==
  LET c == call[p]
      r == buf[p].id
      row == reservation'[r]
  IN  \/ /\ reservation[r] = None
         /\ row \in Reservation
         /\ row.user = buf[p].row.user /\ row.request = buf[p].row.request
         /\ buf[p].row # None
         /\ WithRequest(row.user, row.request) = {}
         /\ ledger' = ledger
      \/ /\ reservation[r] \in Reservation
         /\ reservation[r].status = "reserved"
         /\ row = MovedTo(reservation[r], row.status)
         /\ row \in Reservation
         /\ \A entry \in ledger' \ ledger :
              entry.reservation = r /\ row.status = "committed"

LEMMA WhatIsWritten ==
  ASSUME EngineInv, NEW p \in Callers, pc[p] = "commit", Publish(p)
  PROVE  \/ buf[p] = NoWrites /\ UNCHANGED tables
         \/ /\ buf[p].id \in ReservationIds
            /\ \A r \in ReservationIds \ {buf[p].id} :
                 reservation'[r] = reservation[r]
            /\ RowWritten(p)
<1> DEFINE c == call[p]
<1>0. /\ reservation \in [ReservationIds -> Reservation \cup {None}]
      /\ cost[p] \in Nat
      /\ WithRequest(c.user, c.request) =
           Account!WithRequest(c.user, c.request)
  BY AccountOperators DEF EngineInv, TypeInv, TypeOK, TablesTypeOK
<1>1. CASE /\ ReservePending(p)
           /\ Account!Reserve(c.user, c.request, c.operation, cost[p],
                              buf[p].id)
  <2>1. /\ buf[p].id \in ReservationIds
        /\ reservation[buf[p].id] = None
        /\ buf[p].row = NewReservation(c.user, c.request, c.operation, cost[p])
        /\ reservation' = [reservation EXCEPT ![buf[p].id] = buf[p].row]
        /\ ledger' = ledger
        /\ WithRequest(c.user, c.request) = {}
    BY <1>1, AccountOperators DEF ReservePending, Account!Reserve
  <2>2. buf[p].row \in Reservation
        /\ buf[p].row.user = c.user /\ buf[p].row.request = c.request
    BY <1>1, <1>0, <2>1 DEF NewReservation, Reservation, ReservePending,
      DeductPending, ReserveCall, Status
  <2>3. QED
    BY <1>0, <2>1, <2>2, NoneAssumption DEF RowWritten
<1>2. ASSUME MovePending(p), NEW t \in {"committed", "released"},
             reservation' = [reservation EXCEPT
                               ![c.id] = Account!MovedTo(reservation[c.id], t)],
             \A entry \in ledger' \ ledger :
               entry.reservation = c.id /\ t = "committed"
      PROVE  /\ buf[p].id \in ReservationIds
             /\ \A r \in ReservationIds \ {buf[p].id} :
                  reservation'[r] = reservation[r]
             /\ RowWritten(p)
  <2>1. /\ c.id \in ReservationIds
        /\ buf[p].id = c.id
        /\ reservation[c.id] \in Reservation
        /\ reservation[c.id].status = "reserved"
    BY <1>2 DEF MovePending, SettleCall
  <2>2. reservation'[c.id] = MovedTo(reservation[c.id], t)
    BY <1>0, <1>2, <2>1, AccountOperators
  <2>3. /\ reservation'[c.id].status = t
        /\ reservation'[c.id] \in Reservation
    BY <2>1, <2>2 DEF MovedTo, Reservation, Status
  <2>4. QED
    BY <1>0, <1>2, <2>1, <2>2, <2>3 DEF RowWritten
<1>3. CASE CommitPending(p) /\ Account!Commit(c.id)
  <2>1. MovePending(p)
    BY <1>3 DEF CommitPending, ConsumePending, SettlePending
  <2>2. \A entry \in ledger' \ ledger : entry.reservation = c.id
    BY <1>3, AccountOperators DEF Account!Commit, CommitRow
  <2>3. QED
    BY <1>2, <1>3, <2>1, <2>2 DEF Account!Commit
<1>4. CASE ReleasePending(p) /\ Account!Release(c.id)
  <2>1. MovePending(p)
    BY <1>4 DEF ReleasePending, SettlePending
  <2>2. QED
    BY <1>2, <1>4, <2>1 DEF Account!Release
<1>5. QED
  BY <1>1, <1>3, <1>4, PublishIsAccountStep

\* A commit disturbs nothing another transaction has read or written.
LEMMA OthersKeepFitting ==
  ASSUME EngineInv, NEW p \in Callers, pc[p] = "commit", Publish(p),
         buf[p].id \in ReservationIds,
         \A r \in ReservationIds \ {buf[p].id} :
           reservation'[r] = reservation[r],
         RowWritten(p),
         NEW q \in Callers \ {p}, Same(q)
  PROVE  WritesFit(q)' /\ SnapshotFits(q)'
<1>1. /\ Exclusive(p, q)
      /\ Exclusive(q, p)
      /\ WritesFit(q)
      /\ SnapshotFits(q)
      /\ CallFits(q)
      /\ buf[p].id # None
      /\ buf[q].id # buf[p].id
  BY NoneAssumption DEF EngineInv, TypeInv, Exclusive
<1>2. buf[q].wallet # None => wallet'[call[q].user] = wallet[call[q].user]
  BY <1>1 DEF Publish, Exclusive, EngineInv, TypeInv, TypeOK, TablesTypeOK
<1>3. DeductPending(q) => DeductPending(q)'
  <2>1. SUFFICES ASSUME DeductPending(q) PROVE DeductPending(q)'
    OBVIOUS
  <2>2. buf[q].wallet # None
    <3>1. /\ wallet[call[q].user] \in Wallet
          /\ cost[q] \in Nat
          /\ cost[q] <= wallet[call[q].user].available
      BY <2>1 DEF DeductPending, ReserveCall, EngineInv, TypeInv, TypeOK,
        TablesTypeOK
    <3>2. Deduct(wallet[call[q].user], cost[q]) \in Wallet
      BY <3>1 DEF Deduct, Wallet
    <3>3. QED
      BY <2>1, <3>2, NoneAssumption DEF DeductPending
  <2>3. QED
    BY <1>2, <2>1, <2>2 DEF DeductPending, Same
<1>4. MovePending(q) => MovePending(q)'
  BY <1>1 DEF MovePending, SettleCall, Same
<1>5. ASSUME ReservePending(q)
      PROVE  ReservePending(q)'
  <2>1. reservation'[buf[q].id] = None
    BY <1>1, <1>5 DEF ReservePending
  <2>2. WithRequest(call[q].user, call[q].request)' = {}
    <3>1. SUFFICES ASSUME NEW r \in ReservationIds,
                          reservation'[r] # None,
                          reservation'[r].user = call[q].user,
                          reservation'[r].request = call[q].request
                   PROVE  FALSE
      BY DEF WithRequest, RowsOf, Rows, Same
    <3>2. ASSUME NEW s \in ReservationIds, reservation[s] # None,
                 reservation[s].user = call[q].user,
                 reservation[s].request = call[q].request
          PROVE  FALSE
      BY <1>5, <3>2 DEF ReservePending, WithRequest, RowsOf, Rows
    <3>3. r = buf[p].id
      BY <3>1, <3>2
    <3>4. /\ buf[q].row # None
          /\ buf[q].row.user = call[q].user
          /\ buf[q].row.request = call[q].request
      <4>1. NewReservation(call[q].user, call[q].request, call[q].operation,
                           cost[q]) \in Reservation
        BY <1>5 DEF NewReservation, Reservation, Status, ReservePending,
          DeductPending, ReserveCall, EngineInv, TypeInv, TypeOK
      <4>2. QED
        BY <1>5, <4>1, NoneAssumption DEF ReservePending, NewReservation
    <3>5. CASE reservation[r] = None
      BY <1>1, <3>1, <3>3, <3>4, <3>5, NoneAssumption DEF RowWritten, Exclusive
    <3>6. CASE reservation[r] \in Reservation
      <4>1. /\ reservation'[r].user = reservation[r].user
            /\ reservation'[r].request = reservation[r].request
            /\ reservation[r] # None
        BY <3>3, <3>6, NoneAssumption DEF RowWritten, MovedTo, Reservation
      <4>2. QED
        BY <3>1, <3>2, <4>1
    <3>7. QED
      BY <3>3, <3>5, <3>6 DEF RowWritten
  <2>3. QED
    BY <1>3, <1>5, <2>1, <2>2 DEF ReservePending, Same
<1>6. ASSUME MovePending(q), buf[q].wallet \in Wallet
      PROVE  /\ MovePending(q)'
             /\ wallet'[call[q].user] = wallet[call[q].user]
             /\ buf'[q] = buf[q] /\ call'[q] = call[q]
             /\ current'[q] = current[q]
  BY <1>2, <1>4, <1>6, NoneAssumption DEF Same
<1>7. ConsumePending(q) => ConsumePending(q)'
  <2>1. SUFFICES ASSUME ConsumePending(q) PROVE ConsumePending(q)'
    OBVIOUS
  <2>2. buf[q].wallet \in Wallet
    BY <2>1 DEF ConsumePending, SettlePending, MovePending, SettleCall,
      Consume, Wallet, Reservation, EngineInv, TypeInv, TypeOK, TablesTypeOK
  <2>3. QED
    BY <1>6, <2>1, <2>2 DEF ConsumePending, SettlePending
<1>8. CommitPending(q) => CommitPending(q)'
  <2>1. SUFFICES ASSUME CommitPending(q) PROVE CommitPending(q)'
    OBVIOUS
  <2>2. buf[q].wallet \in Wallet /\ MovePending(q)
    BY <2>1 DEF CommitPending, ConsumePending, SettlePending, MovePending,
      SettleCall, Consume, Wallet, Reservation, EngineInv, TypeInv, TypeOK,
      TablesTypeOK
  <2>3. QED
    BY <1>6, <1>7, <2>1, <2>2 DEF CommitPending
<1>9. ReleasePending(q) => ReleasePending(q)'
  <2>1. SUFFICES ASSUME ReleasePending(q) PROVE ReleasePending(q)'
    OBVIOUS
  <2>2. buf[q].wallet \in Wallet /\ MovePending(q)
    BY <2>1 DEF ReleasePending, SettlePending, MovePending, SettleCall,
      GiveBack, Wallet, Reservation, EngineInv, TypeInv, TypeOK, TablesTypeOK
  <2>3. QED
    BY <1>6, <2>1, <2>2 DEF ReleasePending, SettlePending
<1>10. WritesFit(q)'
  <2>1. pc'[q] = pc[q] /\ buf'[q] = buf[q]
    BY DEF Same
  <2>2. NothingPending(q) => NothingPending(q)'
    BY <2>1 DEF NothingPending
  <2>3. QED
    BY <1>1, <1>3, <1>4, <1>5, <1>7, <1>8, <1>9, <2>1, <2>2 DEF WritesFit
<1>11. SnapshotFits(q)'
  <2>1. /\ HasSnapshot(q)' <=> HasSnapshot(q)
        /\ pc'[q] = pc[q] /\ call'[q] = call[q] /\ current'[q] = current[q]
    BY DEF Same, HasSnapshot
  <2>2. ASSUME HasSnapshot(q)
        PROVE  reservation'[call[q].id] =
                 MovedTo(current[q], reservation'[call[q].id].status)
    <3>1. /\ call[q].id \in ReservationIds
          /\ reservation[call[q].id] # None
          /\ current[q] \in Reservation
          /\ reservation[call[q].id] =
               MovedTo(current[q], reservation[call[q].id].status)
      BY <1>1, <2>2 DEF CallFits, SnapshotFits, HasSnapshot, SettleLocations,
        SettleCall
    <3>2. CASE call[q].id # buf[p].id
      BY <3>1, <3>2
    <3>3. CASE call[q].id = buf[p].id
      BY <3>1, <3>3 DEF RowWritten, MovedTo, Reservation
    <3>4. QED
      BY <3>2, <3>3
  <2>3. QED
    BY <1>1, <2>1, <2>2 DEF SnapshotFits
<1>12. QED
  BY <1>10, <1>11

LEMMA PublishStep ==
  ASSUME EngineInv, NEW p \in Callers, TypeInv', pc[p] = "commit", Publish(p)
  PROVE  EngineInv'
<1>1. /\ \A q \in Callers \ {p} : Same(q)
      /\ buf'[p] = NoWrites
      /\ pc'[p] = "done"
  BY DEF Publish, Goto, Same, EngineInv, TypeInv, TypeOK
<1>2. WritesFit(p)' /\ SnapshotFits(p)'
  BY <1>1 DEF WritesFit, NothingPending, SnapshotFits, HasSnapshot
<1>3. CASE buf[p] = NoWrites /\ UNCHANGED tables
  BY <1>1, <1>2, <1>3, QuietStep
<1>4. CASE /\ buf[p].id \in ReservationIds
           /\ \A r \in ReservationIds \ {buf[p].id} :
                reservation'[r] = reservation[r]
           /\ RowWritten(p)
  <2>1. \A q \in Callers : WritesFit(q)' /\ SnapshotFits(q)'
    BY <1>1, <1>2, <1>4, OthersKeepFitting
  <2>2. \A q, x \in Callers : Exclusive(q, x)'
    <3>1. SUFFICES ASSUME NEW q \in Callers, NEW x \in Callers
                   PROVE  Exclusive(q, x)'
      OBVIOUS
    <3>2. CASE q = p \/ x = p
      BY <1>1, <3>2, NoWritesFields DEF Exclusive
    <3>3. CASE q # p /\ x # p
      BY <1>1, <3>3 DEF Exclusive, Same, EngineInv
    <3>4. QED
      BY <3>2, <3>3
  <2>3. LedgerFits'
    <3>1. SUFFICES ASSUME NEW entry \in ledger', entry.reservation # None
                   PROVE  /\ reservation'[entry.reservation] # None
                          /\ reservation'[entry.reservation].status
                               = "committed"
      BY DEF LedgerFits
    <3>2. CASE entry \in ledger
      <4>1. /\ entry.reservation \in ReservationIds
            /\ reservation[entry.reservation] # None
            /\ reservation[entry.reservation].status = "committed"
        BY <3>1, <3>2 DEF EngineInv, LedgerFits, TypeInv, TypeOK,
          TablesTypeOK, LedgerRow
      <4>2. entry.reservation # buf[p].id
        BY <1>4, <4>1 DEF RowWritten
      <4>3. QED
        BY <1>4, <4>1, <4>2
    <3>3. CASE entry \notin ledger
      BY <1>4, <3>1, <3>3, NoneAssumption DEF RowWritten
    <3>4. QED
      BY <3>2, <3>3
  <2>4. RequestsUnique'
    <3>1. SUFFICES ASSUME NEW r \in ReservationIds, NEW s \in ReservationIds,
                          reservation'[r] # None, reservation'[s] # None,
                          reservation'[r].user = reservation'[s].user,
                          reservation'[r].request = reservation'[s].request,
                          r # s, s # buf[p].id
                   PROVE  FALSE
      BY DEF RequestsUnique, Rows
    <3>2. /\ reservation'[s] = reservation[s]
          /\ s \in WithRequest(reservation[s].user, reservation[s].request)
      BY <1>4, <3>1 DEF WithRequest, RowsOf, Rows
    <3>3. CASE reservation[r] = None
      <4>1. r = buf[p].id
        BY <1>4, <3>1, <3>3
      <4>2. QED
        BY <1>4, <3>1, <3>2, <3>3, <4>1, NoneAssumption DEF RowWritten
    <3>4. CASE reservation[r] # None
      <4>1. /\ reservation'[r].user = reservation[r].user
            /\ reservation'[r].request = reservation[r].request
        BY <1>4, <3>4 DEF RowWritten, MovedTo, Reservation
      <4>2. QED
        BY <3>1, <3>2, <3>4, <4>1 DEF EngineInv, RequestsUnique, Rows
    <3>5. QED
      BY <3>3, <3>4
  <2>5. QED
    BY <2>1, <2>2, <2>3, <2>4 DEF EngineInv
<1>5. QED
  BY <1>3, <1>4, WhatIsWritten

-----------------------------------------------------------------------------
LEMMA AcquireStep ==
  ASSUME EngineInv, NEW p \in Callers, TypeInv', Acquire(p)
  PROVE  EngineInv'
<1>1. CASE Connect(p)
  <2> DEFINE l == IF call[p].kind = "reserve" THEN "spender" ELSE "lookup"
  <2>1. buf[p] = NoWrites /\ Continue(p, l)
    BY <1>1 DEF Connect, EngineInv, WritesFit, NothingPending
  <2>2. ~HasSnapshot(p)'
    BY <1>1, <2>1 DEF Connect, Continue, Goto, HasSnapshot, EngineInv,
      TypeInv, TypeOK, SettleCall
  <2>3. QED
    BY <2>1, <2>2, ContinueStep
<1>2. CASE TryReserve(p)
  BY <1>2, TryReserveStep
<1>3. CASE InsertReservation(p)
  BY <1>3, InsertStep
<1>4. CASE Transition(p)
  BY <1>4, TransitionStep
<1>5. CASE Adjust(p)
  BY <1>5, AdjustStep
<1>6. QED
  BY <1>1, <1>2, <1>3, <1>4, <1>5 DEF Acquire

LEMMA ProceedStep ==
  ASSUME EngineInv, NEW p \in Callers, TypeInv', Proceed(p)
  PROVE  EngineInv'
<1> USE DEF Codes
<1>0. pc[p] \in {"spender", "operation", "seen", "lookup", "reread"} =>
        buf[p] = NoWrites
  BY DEF EngineInv, WritesFit, NothingPending
<1>1. CASE RejectSuspended(p)
  BY <1>1, FailStep DEF RejectSuspended
<1>2. CASE AdmitReserve(p)
  <2>1. ~HasSnapshot(p)'
    BY <1>2 DEF AdmitReserve, Continue, Goto, HasSnapshot, EngineInv,
      TypeInv, TypeOK
  <2>2. QED
    BY <1>0, <1>2, <2>1, ContinueStep DEF AdmitReserve
<1>3. CASE LoadOperation(p)
  <2>1. CASE \E c : Fail(p, c)
    BY <2>1, FailStep
  <2>2. CASE /\ cost' = [cost EXCEPT ![p] =
                           operations[call[p].operation].cost]
             /\ Goto(p, "seen")
             /\ UNCHANGED <<tables, admin, call, attempt, current, buf, out>>
    <3>1. /\ UNCHANGED tables
          /\ \A q \in Callers \ {p} : Same(q)
          /\ buf'[p] = NoWrites
          /\ pc'[p] = "seen"
      BY <1>0, <1>3, <2>2 DEF LoadOperation, Goto, Same, EngineInv, TypeInv,
        TypeOK
    <3>2. SnapshotFits(p)'
      BY <3>1 DEF SnapshotFits, HasSnapshot
    <3>3. QED
      BY <3>1, <3>2, QuietStep
  <2>3. QED
    BY <1>3, <2>1, <2>2 DEF LoadOperation
<1>4. CASE LookupRequest(p)
  <2>1. CASE Continue(p, "deduct")
    <3>1. ~HasSnapshot(p)'
      BY <1>4, <2>1 DEF LookupRequest, Continue, Goto, HasSnapshot, EngineInv,
        TypeInv, TypeOK
    <3>2. QED
      BY <1>0, <1>4, <2>1, <3>1, ContinueStep DEF LookupRequest
  <2>2. CASE \E r : Return(p, r, TRUE) /\ UNCHANGED buf
    BY <1>0, <1>4, <2>2, ReusedStep DEF LookupRequest
  <2>3. QED
    BY <1>4, <2>1, <2>2 DEF LookupRequest
<1>5. CASE LookupReservation(p)
  <2> DEFINE row == reservation[call[p].id]
  <2>1. CASE Fail(p, "RESERVATION_NOT_FOUND")
    BY <2>1, FailStep
  <2>2. CASE /\ row # None
             /\ current' = [current EXCEPT ![p] = row]
             /\ Goto(p, "spender")
             /\ UNCHANGED <<tables, admin, call, attempt, cost, buf, out>>
    <3>1. /\ UNCHANGED tables
          /\ \A q \in Callers \ {p} : Same(q)
          /\ buf'[p] = NoWrites
          /\ pc'[p] = "spender"
          /\ current'[p] = row
          /\ call'[p] = call[p]
      BY <1>0, <1>5, <2>2 DEF LookupReservation, Goto, Same, EngineInv,
        TypeInv, TypeOK
    <3>2. row \in Reservation
      BY <1>5, <2>2 DEF LookupReservation, EngineInv, TypeInv, TypeOK,
        TablesTypeOK, CallFits, SettleLocations, SettleCall
    <3>3. SnapshotFits(p)'
      BY <3>1, <3>2 DEF SnapshotFits, tables, MovedTo, Reservation
    <3>4. QED
      BY <3>1, <3>3, QuietStep
  <2>3. QED
    BY <1>5, <2>1, <2>2 DEF LookupReservation
<1>6. CASE AdmitSettle(p)
  <2>1. CASE Return(p, call[p].id, TRUE) /\ UNCHANGED buf
    BY <1>0, <1>6, <2>1, ReusedStep DEF AdmitSettle
  <2>2. CASE Fail(p, "RESERVATION_STATE")
    BY <2>2, FailStep
  <2>3. CASE current[p].status = "reserved" /\ Continue(p, "transition")
    <3>1. HasSnapshot(p)
      BY <1>6 DEF AdmitSettle, HasSnapshot, EngineInv, TypeInv, CallFits,
        ReserveCall
    <3>2. QED
      BY <1>0, <1>6, <2>3, <3>1, ContinueStep DEF AdmitSettle
  <2>4. QED
    BY <1>6, <2>1, <2>2, <2>3 DEF AdmitSettle
<1>7. CASE Reread(p)
  BY <1>0, <1>7, FailStep, ReusedStep DEF Reread
<1>8. CASE AppendLedger(p)
  BY <1>8, AppendLedgerStep
<1>9. CASE CommitTransaction(p)
  BY <1>9, PublishStep DEF CommitTransaction
<1>10. CASE BreakDeadlock(p)
  BY <1>10, FailStep DEF BreakDeadlock
<1>11. QED
  BY <1>1, <1>2, <1>3, <1>4, <1>5, <1>6, <1>7, <1>8, <1>9, <1>10 DEF Proceed

LEMMA NextEngineInv == EngineInv /\ [Next]_vars => EngineInv'
<1> SUFFICES ASSUME EngineInv, [Next]_vars PROVE EngineInv'
  OBVIOUS
<1>0. TypeInv'
  BY NextTypeInv DEF EngineInv
<1>1. ASSUME NEW p \in Callers, Invoke(p) PROVE EngineInv'
  <2>1. /\ UNCHANGED tables
        /\ \A q \in Callers \ {p} : Same(q)
        /\ buf'[p] = NoWrites
        /\ pc'[p] = "connect"
    BY <1>1 DEF Invoke, Start, Goto, Same, EngineInv, TypeInv, TypeOK,
      WritesFit, NothingPending
  <2>2. SnapshotFits(p)'
    BY <2>1 DEF SnapshotFits, HasSnapshot
  <2>3. QED
    BY <1>0, <2>1, <2>2, QuietStep
<1>2. ASSUME NEW p \in Callers, Deliver(p) PROVE EngineInv'
  <2>1. /\ UNCHANGED tables
        /\ \A q \in Callers \ {p} : Same(q)
        /\ buf'[p] = NoWrites
        /\ pc'[p] = "idle"
    BY <1>2 DEF Deliver, Goto, Same, EngineInv, TypeInv, TypeOK,
      WritesFit, NothingPending
  <2>2. SnapshotFits(p)'
    BY <2>1 DEF SnapshotFits, HasSnapshot
  <2>3. QED
    BY <1>0, <2>1, <2>2, QuietStep
<1>3. ASSUME NEW p \in Callers, LoseAcknowledgement(p) PROVE EngineInv'
  BY <1>0, <1>3, PublishStep DEF LoseAcknowledgement
<1>4. ASSUME NEW p \in Callers, Crash(p) PROVE EngineInv'
  BY <1>0, <1>4, FailStep DEF Crash
<1>5. ASSUME UNCHANGED <<tables, pc, call, cost, current, buf>>
      PROVE  EngineInv'
  <2>1. \A p \in Callers : Same(p)
    BY <1>5 DEF Same
  <2>2. CASE Callers = {}
    BY <1>0, <1>5, <2>2 DEF EngineInv, LedgerFits, RequestsUnique, Rows, tables
  <2>3. ASSUME NEW p \in Callers PROVE EngineInv'
    <3>1. WritesFit(p)'
      BY <1>5 DEF EngineInv, WritesFit, NothingPending, DeductPending,
        ReservePending, MovePending, SettlePending, ConsumePending,
        CommitPending, ReleasePending, WithRequest, RowsOf, Rows, tables
    <3>2. SnapshotFits(p)'
      BY <1>5 DEF EngineInv, SnapshotFits, HasSnapshot, tables
    <3>3. \A q \in Callers \ {p} : Exclusive(p, q)'
      BY <1>5 DEF EngineInv, Exclusive
    <3>4. QED
      BY <1>0, <1>5, <2>1, <3>1, <3>2, <3>3, LocalStep
  <2>4. QED
    BY <2>2, <2>3
<1>6. ASSUME NEW u \in Users, SetStatus(u) PROVE EngineInv'
  BY <1>5, <1>6 DEF SetStatus
<1>7. ASSUME NEW o \in Operations, Relist(o) PROVE EngineInv'
  BY <1>5, <1>7 DEF Relist
<1>8. CASE UNCHANGED vars
  BY <1>5, <1>8 DEF vars
<1>9. QED
  BY <1>0, <1>1, <1>2, <1>3, <1>4, <1>6, <1>7, <1>8, AcquireStep, ProceedStep
    DEF Next

LEMMA EngineInvariant == Spec => []EngineInv
BY InitEngineInv, NextEngineInv, PTL DEF Spec

-----------------------------------------------------------------------------
(* The refinement and the theorems *)

\* The tables change only when a transaction commits.
LEMMA OnlyPublishChanges ==
  ASSUME [Next]_vars
  PROVE  \/ UNCHANGED tables
         \/ \E p \in Callers : pc[p] = "commit" /\ Publish(p)
<1>1. ASSUME NEW p \in Callers, Invoke(p) \/ Deliver(p)
      PROVE  UNCHANGED tables
  BY <1>1 DEF Invoke, Start, Deliver
<1>2. ASSUME NEW p \in Callers, Acquire(p) PROVE UNCHANGED tables
  BY <1>2 DEF Acquire, Connect, TryReserve, InsertReservation, Transition,
    Adjust, Continue, Return, Fail, RetryAsRead
<1>3. ASSUME NEW p \in Callers, Proceed(p), ~CommitTransaction(p)
      PROVE  UNCHANGED tables
  BY <1>3 DEF Proceed, RejectSuspended, AdmitReserve, LoadOperation,
    LookupRequest, LookupReservation, AdmitSettle, Reread, AppendLedger,
    BreakDeadlock, Continue, Return, Fail
<1>4. QED
  BY <1>1, <1>2, <1>3 DEF Next, CommitTransaction, LoseAcknowledgement, Crash,
    Fail, SetStatus, Relist, vars

\* What a step does to a row, if it changes the tables.
Kept(r) ==
  LET row == reservation[r]
  IN  /\ reservation'[r] # None
      /\ reservation'[r] = MovedTo(row, reservation'[r].status)
      /\ row.status # "reserved" => reservation'[r] = row

LEMMA RowsAreKept ==
  ASSUME EngineInv, [Next]_vars, NEW r \in Rows
  PROVE  Kept(r) \/ UNCHANGED tables
<1>1. r \in ReservationIds /\ reservation[r] \in Reservation
  BY DEF Rows, EngineInv, TypeInv, TypeOK, TablesTypeOK
<1>2. ASSUME NEW p \in Callers, pc[p] = "commit", Publish(p)
      PROVE  Kept(r) \/ UNCHANGED tables
  <2>1. CASE r # buf[p].id /\ reservation'[r] = reservation[r]
    BY <1>1, <2>1, NoneAssumption DEF MovedTo, Reservation, Kept
  <2>2. CASE r = buf[p].id /\ RowWritten(p)
    BY <1>1, <2>2, NoneAssumption DEF RowWritten, Kept
  <2>3. QED
    BY <1>1, <1>2, <2>1, <2>2, WhatIsWritten
<1>3. QED
  BY <1>2, OnlyPublishChanges

-----------------------------------------------------------------------------
(* Theorems *)

\* No lost update: at every moment what a transaction is about to commit is
\* computed from the rows as they are committed now, by any number of calls.
THEOREM NoLostUpdate == Spec => []PendingWritesAreCurrent
<1>1. EngineInv => PendingWritesAreCurrent
  <2>1. SUFFICES ASSUME EngineInv, NEW p \in Callers
                 PROVE
      /\ buf[p].wallet # None =>
           buf[p].wallet =
             CASE call[p].kind = "reserve" ->
                    Deduct(wallet[call[p].user], cost[p])
               [] call[p].kind = "commit"  ->
                    Consume(wallet[call[p].user], current[p].amount)
               [] call[p].kind = "release" ->
                    GiveBack(wallet[call[p].user], current[p].amount)
      /\ buf[p].row # None /\ call[p].kind # "reserve" =>
           /\ reservation[buf[p].id] = current[p]
           /\ current[p].status = "reserved"
    BY DEF PendingWritesAreCurrent
  <2>2. QED
    BY <2>1, NoWritesFields DEF EngineInv, WritesFit, NothingPending,
      DeductPending, ReservePending, MovePending, SettlePending,
      ConsumePending, CommitPending, ReleasePending, ReserveCall
<1>2. QED
  BY <1>1, EngineInvariant, PTL

\* The engine implements the abstract account: whatever the calls, their
\* interleaving, crashes, deadlocks and retries, the committed tables change
\* only by whole reservations, commits and releases.
THEOREM EngineImplementsAccount == Spec => ImplementsAccount
<1>1. Init => Account!TablesInit
  BY AccountOperators DEF Init
<1>2. EngineInv /\ [Next]_vars => [Account!Next]_(Account!tables)
  <2>1. SUFFICES ASSUME EngineInv, [Next]_vars
                 PROVE  Account!Next \/ UNCHANGED tables
    BY DEF tables, Account!tables
  <2>2. ASSUME NEW p \in Callers, pc[p] = "commit", Publish(p)
        PROVE  Account!Next \/ UNCHANGED tables
    <3>1. CASE /\ ReservePending(p)
               /\ Account!Reserve(call[p].user, call[p].request,
                                  call[p].operation, cost[p], buf[p].id)
      <4>1. /\ call[p].user \in Users
            /\ call[p].request \in Requests
            /\ call[p].operation \in Operations
            /\ buf[p].id \in ReservationIds
        BY <3>1 DEF ReservePending, DeductPending, ReserveCall
      <4>2. cost[p] \in 0 .. wallet[call[p].user].available
        BY <2>1, <3>1, <4>1 DEF ReservePending, DeductPending, EngineInv, TypeInv,
          TypeOK, TablesTypeOK, Wallet
      <4>3. QED
        BY <3>1, <4>1, <4>2 DEF Account!Next
    <3>2. CASE CommitPending(p) /\ Account!Commit(call[p].id)
      BY <3>2 DEF Account!Next, CommitPending, ConsumePending, SettlePending,
        MovePending, SettleCall
    <3>3. CASE ReleasePending(p) /\ Account!Release(call[p].id)
      BY <3>3 DEF Account!Next, ReleasePending, SettlePending, MovePending,
        SettleCall
    <3>4. QED
      BY <2>1, <2>2, <3>1, <3>2, <3>3, PublishIsAccountStep
  <2>3. QED
    BY <2>1, <2>2, OnlyPublishChanges
<1>3. QED
  BY <1>1, <1>2, EngineInvariant, PTL DEF Spec, ImplementsAccount, Account!Spec

\* A request id of a user has at most one reservation, for any number of
\* retries racing each other.
THEOREM RequestsReservedOnce == Spec => []OneReservationPerRequest
<1>1. EngineInv => OneReservationPerRequest
  <2>1. SUFFICES ASSUME EngineInv, NEW u \in Users, NEW q \in Requests
                 PROVE  Cardinality(WithRequest(u, q)) <= 1
    BY DEF OneReservationPerRequest
  <2>2. CASE WithRequest(u, q) = {}
    BY <2>2, FS_EmptySet
  <2>3. ASSUME NEW r \in WithRequest(u, q)
        PROVE  Cardinality(WithRequest(u, q)) <= 1
    <3>1. WithRequest(u, q) = {r}
      BY <2>1 DEF EngineInv, RequestsUnique, WithRequest, RowsOf
    <3>2. Cardinality({r}) = 1
      BY FS_Singleton
    <3>3. QED
      BY <3>1, <3>2
  <2>4. QED
    BY <2>2, <2>3
<1>2. QED
  BY <1>1, EngineInvariant, PTL

\* Two transactions block each other for good only in the one way the code
\* cannot avoid: a duplicate reserve against the settling of the original.
THEOREM DeadlocksNeedDuplicates == Spec => []DeadlockNeedsDuplicate
<1>1. EngineInv => DeadlockNeedsDuplicate
  <2>1. SUFFICES ASSUME EngineInv, NEW p \in Callers, NEW q \in Callers,
                        WaitsFor(p, q), WaitsFor(q, p), pc[p] # "adjust"
                 PROVE  /\ pc[p] = "insert"
                        /\ call[q].id \in WithRequest(call[p].user,
                                                      call[p].request)
    BY DEF DeadlockNeedsDuplicate
  <2>2. WritesFit(p) /\ WritesFit(q)
    BY <2>1 DEF EngineInv
  <2>3. pc[p] = "insert"
    BY <2>1, <2>2, NoWritesFields, NoneAssumption DEF WaitsFor, WritesFit,
      NothingPending, HoldsWallet, HoldsRequest, HoldsReservation,
      EngineInv, TypeInv, CallFits, SettleLocations, SettleCall
  <2>4. HoldsRequest(q, call[p].user, call[p].request)
    BY <2>1, <2>3 DEF WaitsFor
  <2>5. pc[q] = "adjust"
    BY <2>1, <2>2, <2>4, NoWritesFields DEF WaitsFor, WritesFit,
      NothingPending, HoldsRequest
  <2>6. /\ MovePending(q)
        /\ call[q].id \in Rows
    BY <2>2, <2>5, NoneAssumption DEF WritesFit, MovePending, Rows, SettleCall
  <2>7. QED
    BY <2>3, <2>4, <2>6 DEF HoldsRequest, MovePending, MovedTo, Reservation,
      WithRequest, RowsOf
<1>2. QED
  BY <1>1, EngineInvariant, PTL

\* A reservation keeps its id, its owner, its request and its amount for ever,
\* and once committed or released it never changes again.
THEOREM SettlementIsFinal == Spec => SettledIsFinal
<1>1. EngineInv /\ [Next]_vars => [\A r \in Rows : Kept(r)]_tables
  BY RowsAreKept
<1>2. QED
  BY <1>1, EngineInvariant, PTL DEF Spec, SettledIsFinal, Kept
=============================================================================
