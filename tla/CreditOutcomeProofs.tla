------------------------- MODULE CreditOutcomeProofs -------------------------
(***************************************************************************)
(* What a caller of the credit engine is told: an outcome is true when the *)
(* call ends, says reused exactly if the call changed nothing, and never   *)
(* comes from the engine's second line of defence.                         *)
(***************************************************************************)
EXTENDS CreditBooksProofs

-----------------------------------------------------------------------------
(* The invariant *)

\* The reservation the outcome of p names is what the caller asked for.
ResultStands(p) ==
  LET c == call[p]
      row == reservation[out[p].id]
  IN  /\ out[p].id \in Rows
      /\ row.user = c.user
      /\ c \in ReserveCall => row.request = c.request
      /\ c \in SettleCall => out[p].id = c.id /\ row.status = Target(c)

\* Before COMMIT an outcome is a promise, which the pending writes keep.
OutcomeFits(p) ==
  /\ pc[p] = "commit" =>
       /\ out[p].code = "OK"
       /\ out[p].reused <=> NothingPending(p)
       /\ out[p].reused => ResultStands(p)
       /\ ~out[p].reused => out[p].id = buf[p].id
  /\ pc[p] = "done" =>
       /\ out[p].code = "OK" => ResultStands(p)
       /\ out[p].code \notin {"RETRY_AS_READ", "CHECK_VIOLATION"}

\* The second attempt of reserve is a read: its request has a reservation,
\* and reservations are never deleted.
RetryFits(p) ==
  /\ pc[p] = "idle" => attempt[p] = 0
  /\ pc[p] # "idle" /\ attempt[p] # 0 =>
       /\ call[p] \in ReserveCall
       /\ WithRequest(call[p].user, call[p].request) # {}
       /\ pc[p] \notin {"deduct", "insert"}

\* A row that was settled when getById read it is as it was read.
FinalFits(p) ==
  HasSnapshot(p) /\ current[p].status # "reserved" =>
    reservation[call[p].id] = current[p]

KnowsTruth(p) == OutcomeFits(p) /\ RetryFits(p) /\ FinalFits(p)

OutcomeInv == \A p \in Callers : KnowsTruth(p)

-----------------------------------------------------------------------------
(* The other callers *)

\* What a step of another caller leaves of the call of q.
Untouched(q) ==
  /\ pc'[q] = pc[q]
  /\ call'[q] = call[q]
  /\ attempt'[q] = attempt[q]
  /\ current'[q] = current[q]
  /\ buf'[q] = buf[q]
  /\ out'[q] = out[q]

\* The steps of the caller p.
Step(p) ==
  \/ Invoke(p) \/ Deliver(p)
  \/ Acquire(p) \/ Proceed(p)
  \/ LoseAcknowledgement(p) \/ Crash(p)

LEMMA StepIsOfOne ==
  ASSUME TypeOK, NEW p \in Callers, Step(p)
  PROVE  \A q \in Callers \ {p} : Untouched(q)
<1> USE DEF TypeOK, Untouched
<1>1. CASE Invoke(p) \/ Deliver(p)
  BY <1>1 DEF Invoke, Start, Deliver, Goto
<1>2. CASE \E l : Continue(p, l)
  BY <1>2 DEF Continue, Goto
<1>3. CASE \E c : Fail(p, c)
  BY <1>3 DEF Fail, Goto
<1>4. CASE Publish(p) /\ (UNCHANGED out
                           \/ out' = [out EXCEPT ![p] = Failed("UNAVAILABLE")])
  BY <1>4 DEF Publish, Goto
<1>5. CASE Acquire(p) /\ ~(\E l : Continue(p, l)) /\ ~(\E c : Fail(p, c))
  BY <1>5 DEF Acquire, Connect, TryReserve, InsertReservation, RetryAsRead,
    Transition, Adjust, Return, Goto
<1>6. CASE Proceed(p) /\ ~(\E l : Continue(p, l)) /\ ~(\E c : Fail(p, c))
  BY <1>4, <1>6 DEF Proceed, RejectSuspended, AdmitReserve, LoadOperation,
    LookupRequest, LookupReservation, AdmitSettle, Reread, AppendLedger,
    CommitTransaction, BreakDeadlock, Return, Goto
<1>7. QED
  BY <1>1, <1>2, <1>3, <1>4, <1>5, <1>6
    DEF Step, LoseAcknowledgement, Crash

LEMMA OneCallerSteps ==
  ASSUME TypeOK, [Next]_vars
  PROVE  \/ /\ UNCHANGED tables
            /\ \A q \in Callers : Untouched(q)
         \/ \E p \in Callers : Step(p) /\ \A q \in Callers \ {p} : Untouched(q)
<1>1. CASE UNCHANGED <<tables, pc, call, attempt, current, buf, out>>
  BY <1>1 DEF Untouched
<1>2. QED
  BY <1>1, StepIsOfOne DEF Next, Step, SetStatus, Relist, vars

\* Reservations stay, so what is known of a call stays known.
LEMMA RequestStays ==
  ASSUME EngineInv, [Next]_vars, NEW u, NEW q, WithRequest(u, q) # {}
  PROVE  WithRequest(u, q)' # {}
<1>1. PICK r \in Rows : reservation[r].user = u /\ reservation[r].request = q
  BY DEF WithRequest, RowsOf
<1>2. r \in ReservationIds /\ reservation[r] \in Reservation
  BY DEF Rows, EngineInv, TypeInv, TypeOK, TablesTypeOK
<1>3. CASE UNCHANGED tables
  BY <1>3 DEF tables, WithRequest, RowsOf, Rows
<1>4. CASE Kept(r)
  BY <1>1, <1>2, <1>4 DEF Kept, MovedTo, Reservation, WithRequest, RowsOf, Rows
<1>5. QED
  BY <1>3, <1>4, RowsAreKept

LEMMA ResultStays ==
  ASSUME EngineInv, [Next]_vars, NEW p \in Callers, ResultStands(p),
         call'[p] = call[p], out'[p].id = out[p].id
  PROVE  ResultStands(p)'
<1> DEFINE r == out[p].id
<1>1. r \in Rows /\ r \in ReservationIds /\ reservation[r] \in Reservation
  BY DEF ResultStands, Rows, EngineInv, TypeInv, TypeOK, TablesTypeOK
<1>2. CASE UNCHANGED tables
  BY <1>2 DEF tables, ResultStands, Rows, Target
<1>3. CASE Kept(r)
  <2>1. /\ r \in Rows'
        /\ reservation'[r].user = reservation[r].user
        /\ reservation'[r].request = reservation[r].request
    BY <1>1, <1>3 DEF Kept, MovedTo, Reservation, Rows
  <2>2. reservation[r].status # "reserved" => reservation'[r] = reservation[r]
    BY <1>3 DEF Kept
  <2>3. Target(call[p]) # "reserved"
    BY DEF Target
  <2>4. QED
    BY <2>1, <2>2, <2>3 DEF ResultStands, Target
<1>4. QED
  BY <1>1, <1>2, <1>3, RowsAreKept

LEMMA UntouchedStays ==
  ASSUME EngineInv, [Next]_vars, NEW p \in Callers, Untouched(p),
         KnowsTruth(p)
  PROVE  KnowsTruth(p)'
<1>1. OutcomeFits(p)'
  BY ResultStays DEF Untouched, KnowsTruth, OutcomeFits, NothingPending
<1>2. RetryFits(p)'
  BY RequestStays DEF Untouched, KnowsTruth, RetryFits
<1>3. FinalFits(p)'
  <2>1. SUFFICES ASSUME HasSnapshot(p), current[p].status # "reserved"
                 PROVE  reservation'[call[p].id] = current[p]
    BY DEF Untouched, FinalFits, HasSnapshot
  <2>2. reservation[call[p].id] = current[p] /\ call[p].id \in Rows
    BY <2>1 DEF KnowsTruth, FinalFits, Rows, EngineInv, TypeInv, CallFits,
      HasSnapshot, SettleLocations, SettleCall
  <2>3. QED
    BY <2>1, <2>2, RowsAreKept DEF Kept, tables
<1>4. QED
  BY <1>1, <1>2, <1>3 DEF KnowsTruth

-----------------------------------------------------------------------------
(* The ways a call moves *)

\* What the next steps assume of the caller p.
Before(p) == EngineInv /\ KnowsTruth(p) /\ [Next]_vars

LEMMA ContinueOutcome ==
  ASSUME NEW p \in Callers, Before(p), NEW l, pc'[p] = l, pc[p] # "idle",
         UNCHANGED <<tables, call, attempt, current>>,
         HasSnapshot(p)' => HasSnapshot(p),
         l \notin {"idle", "deduct", "insert", "commit", "done"}
  PROVE  KnowsTruth(p)'
BY RequestStays DEF Before, KnowsTruth, OutcomeFits, RetryFits, FinalFits,
  tables

LEMMA FailOutcome ==
  ASSUME NEW p \in Callers, Before(p), NEW c, Fail(p, c), pc[p] # "idle",
         c \notin {"OK", "RETRY_AS_READ", "CHECK_VIOLATION"}
  PROVE  KnowsTruth(p)'
<1>1. /\ pc'[p] = "done"
      /\ out'[p].code = c
      /\ UNCHANGED <<call, attempt>>
  BY DEF Before, Fail, Goto, Failed, EngineInv, TypeInv, TypeOK
<1>2. QED
  BY <1>1, RequestStays DEF Before, KnowsTruth, OutcomeFits, RetryFits,
    FinalFits, HasSnapshot

\* A success that found the work done.
LEMMA ReusedOutcome ==
  ASSUME NEW p \in Callers, Before(p), NEW r, Return(p, r, TRUE),
         UNCHANGED buf, buf[p] = NoWrites, pc[p] # "idle",
         r \in Rows, reservation[r].user = call[p].user,
         call[p] \in ReserveCall => reservation[r].request = call[p].request,
         call[p] \in SettleCall =>
           r = call[p].id /\ reservation[r].status = Target(call[p])
  PROVE  KnowsTruth(p)'
<1>1. /\ pc'[p] = "commit"
      /\ out'[p] = Success(r, TRUE)
      /\ UNCHANGED <<tables, call, attempt>>
  BY DEF Before, Return, Goto, EngineInv, TypeInv, TypeOK
<1>2. out'[p].code = "OK" /\ out'[p].id = r /\ out'[p].reused = TRUE
  BY <1>1 DEF Success
<1>3. ResultStands(p)'
  BY <1>1, <1>2 DEF ResultStands, tables, Rows, Target
<1>4. NothingPending(p)'
  BY DEF NothingPending
<1>5. RetryFits(p)'
  BY <1>1, RequestStays DEF Before, KnowsTruth, RetryFits
<1>6. QED
  BY <1>1, <1>2, <1>3, <1>4, <1>5 DEF KnowsTruth, OutcomeFits, FinalFits, HasSnapshot

\* A success of its own: something is pending, under the id it names.
LEMMA OwnOutcome ==
  ASSUME NEW p \in Callers, Before(p), NEW r \in ReservationIds,
         Return(p, r, FALSE), buf'[p].id = r, pc[p] # "idle"
  PROVE  KnowsTruth(p)'
<1>1. /\ pc'[p] = "commit"
      /\ out'[p] = Success(r, FALSE)
      /\ UNCHANGED <<call, attempt>>
  BY DEF Before, Return, Goto, EngineInv, TypeInv, TypeOK
<1>2. out'[p].code = "OK" /\ out'[p].id = r /\ out'[p].reused = FALSE
  BY <1>1 DEF Success
<1>3. ~NothingPending(p)'
  BY NoWritesFields, NoneAssumption DEF NothingPending
<1>4. RetryFits(p)'
  BY <1>1, RequestStays DEF Before, KnowsTruth, RetryFits
<1>5. QED
  BY <1>1, <1>2, <1>3, <1>4 DEF KnowsTruth, OutcomeFits, FinalFits, HasSnapshot

-----------------------------------------------------------------------------
(* The actions *)

\* The CHECK of the wallet row cannot fire: a reserved balance covers each of
\* the reservations it is the sum of.
LEMMA HeldCovers ==
  ASSUME EngineInv, BooksInv, NEW r \in Rows,
         reservation[r].status = "reserved"
  PROVE  reservation[r].amount <= wallet[reservation[r].user].reserved
<1> DEFINE u == reservation[r].user
           a == reservation[r].amount
           held == HeldAmounts(u)
           others == [x \in DOMAIN held \ {r} |-> held[x]]
<1>1. reservation[r] \in Reservation
  BY DEF Rows, EngineInv, TypeInv, TypeOK, TablesTypeOK
<1>2. u \in Users /\ a \in Nat /\ a \in Int
  BY <1>1 DEF Reservation
<1>3. r \in DOMAIN held /\ held[r] = a
  BY DEF HeldAmounts, RowsOf
<1>4. Extends(held, others, r, a)
  BY <1>3 DEF Extends
<1>5. IsFiniteSet(Credits(held)) /\ wallet[u].reserved = Total(held)
  BY <1>2 DEF BooksInv, HeldFits, Held
<1> HIDE DEF held, others
<1>6. Total(others) \in Nat /\ Total(held) = Total(others) + a
  BY <1>2, <1>4, <1>5, TotalShrinks
<1>7. QED
  BY <1>2, <1>5, <1>6

LEMMA TryReserveOutcome ==
  ASSUME NEW p \in Callers, Before(p), TryReserve(p)
  PROVE  KnowsTruth(p)'
<1>1. CASE Fail(p, "INSUFFICIENT_CREDITS")
  BY <1>1, FailOutcome DEF TryReserve
<1>2. CASE /\ Goto(p, "insert")
           /\ UNCHANGED <<tables, admin, call, attempt, cost, current, out>>
  <2>1. pc'[p] = "insert" /\ attempt'[p] = 0
    BY <1>2 DEF Before, TryReserve, Goto, KnowsTruth, RetryFits, EngineInv,
      TypeInv, TypeOK
  <2>2. QED
    BY <2>1 DEF KnowsTruth, OutcomeFits, RetryFits, FinalFits, HasSnapshot
<1>3. QED
  BY <1>1, <1>2 DEF TryReserve

LEMMA InsertOutcome ==
  ASSUME NEW p \in Callers, Before(p), InsertReservation(p)
  PROVE  KnowsTruth(p)'
<1> DEFINE c == call[p]
<1>1. ASSUME WithRequest(c.user, c.request) # {}, RetryAsRead(p)
      PROVE  KnowsTruth(p)'
  <2>1. attempt[p] = 0 /\ c \in ReserveCall
    BY DEF Before, InsertReservation, KnowsTruth, RetryFits, EngineInv,
      TypeInv, CallFits, ReserveLocations
  <2>2. /\ pc'[p] = "connect"
        /\ UNCHANGED <<tables, call>>
    BY <1>1, <2>1 DEF Before, RetryAsRead, Goto, EngineInv, TypeInv, TypeOK
  <2>3. WithRequest(c.user, c.request)' # {}
    BY <1>1, <2>2 DEF tables, WithRequest, RowsOf, Rows
  <2>4. QED
    BY <2>1, <2>2, <2>3 DEF KnowsTruth, OutcomeFits, RetryFits, FinalFits,
      HasSnapshot
<1>2. ASSUME NEW r \in FreshIds,
             buf' = [buf EXCEPT
                       ![p].id = r,
                       ![p].row = NewReservation(c.user, c.request,
                                                 c.operation, cost[p]),
                       ![p].usage = <<c.user, c.request, "reserved">>],
             Return(p, r, FALSE)
      PROVE  KnowsTruth(p)'
  <2>1. r \in ReservationIds /\ pc[p] # "idle"
    BY <1>2 DEF FreshIds, InsertReservation
  <2>2. buf'[p].id = r
    BY <1>2 DEF Before, EngineInv, TypeInv, TypeOK, Buffer
  <2>3. QED
    BY <1>2, <2>1, <2>2, OwnOutcome
<1>3. QED
  BY <1>1, <1>2 DEF InsertReservation

LEMMA TransitionOutcome ==
  ASSUME NEW p \in Callers, Before(p), Transition(p)
  PROVE  KnowsTruth(p)'
<1>1. \/ pc'[p] = "reread"
      \/ pc'[p] = "adjust"
  BY DEF Before, Transition, Continue, Goto, EngineInv, TypeInv, TypeOK
<1>2. /\ UNCHANGED <<tables, call, attempt, current>>
      /\ pc[p] = "transition"
      /\ HasSnapshot(p)
  BY DEF Transition, Continue, HasSnapshot
<1>3. QED
  BY <1>1, <1>2, ContinueOutcome

LEMMA AdjustOutcome ==
  ASSUME NEW p \in Callers, Before(p), BooksInv, Adjust(p)
  PROVE  KnowsTruth(p)'
<1> DEFINE c == call[p]
           row == current[p]
           w == wallet[c.user]
<1>1. /\ pc[p] = "adjust"
      /\ MovePending(p)
      /\ HasSnapshot(p)
  BY DEF Before, Adjust, EngineInv, WritesFit, HasSnapshot
<1>2. /\ c.id \in Rows
      /\ reservation[c.id] = row
      /\ row.status = "reserved"
      /\ row.user = c.user
      /\ row.amount \in Nat
      /\ c.user \in Users
      /\ w.reserved \in Nat
  BY <1>1, NoneAssumption DEF Before, MovePending, Rows, SettleCall,
    Reservation, EngineInv, TypeInv, TypeOK, TablesTypeOK, Wallet
<1>3. row.amount <= w.reserved
  BY <1>2, HeldCovers DEF Before
<1>4. CASE /\ Goto(p, "ledger")
           /\ UNCHANGED <<tables, admin, call, attempt, cost, current, out>>
  <2>1. pc'[p] = "ledger"
    BY <1>4 DEF Before, Goto, EngineInv, TypeInv, TypeOK
  <2>2. QED
    BY <1>1, <1>4, <2>1, ContinueOutcome
<1>5. CASE /\ buf' = [buf EXCEPT
                        ![p].wallet = GiveBack(w, row.amount),
                        ![p].usage = <<c.user, row.request, "released">>]
           /\ Return(p, c.id, FALSE)
  <2>1. buf'[p].id = c.id /\ c.id \in ReservationIds
    BY <1>1, <1>5 DEF Before, MovePending, SettleCall, EngineInv, TypeInv,
      TypeOK, Buffer
  <2>2. QED
    BY <1>1, <1>5, <2>1, OwnOutcome
<1>6. ~(w.reserved < row.amount)
  BY <1>2, <1>3
<1>7. QED
  BY <1>4, <1>5, <1>6 DEF Adjust

LEMMA AppendLedgerOutcome ==
  ASSUME NEW p \in Callers, Before(p), AppendLedger(p)
  PROVE  KnowsTruth(p)'
<1> DEFINE c == call[p]
<1>1. /\ pc[p] = "ledger"
      /\ MovePending(p)
      /\ CommitRows(c.user, c.id) = {}
  BY KeyFree DEF Before, AppendLedger, EngineInv, WritesFit, ConsumePending,
    SettlePending
<1>2. /\ buf'[p].id = c.id
      /\ c.id \in ReservationIds
      /\ Return(p, c.id, FALSE)
  BY <1>1 DEF Before, AppendLedger, MovePending, SettleCall, EngineInv,
    TypeInv, TypeOK, Buffer
<1>3. QED
  BY <1>1, <1>2, OwnOutcome

LEMMA AcquireOutcome ==
  ASSUME NEW p \in Callers, Before(p), BooksInv, Acquire(p)
  PROVE  KnowsTruth(p)'
<1>1. CASE Connect(p)
  <2>1. /\ pc'[p] = (IF call[p].kind = "reserve" THEN "spender" ELSE "lookup")
        /\ pc[p] = "connect"
        /\ call[p] \in ReserveCall \cup SettleCall
        /\ UNCHANGED <<tables, call, attempt, current>>
    BY <1>1 DEF Before, Connect, Continue, Goto, EngineInv, TypeInv, TypeOK,
      CallFits
  <2>2. ~HasSnapshot(p)'
    BY <2>1 DEF HasSnapshot, SettleCall
  <2>3. QED
    BY <2>1, <2>2, ContinueOutcome
<1>2. QED
  BY <1>1, TryReserveOutcome, InsertOutcome, TransitionOutcome, AdjustOutcome
    DEF Acquire

LEMMA LookupRequestOutcome ==
  ASSUME NEW p \in Callers, Before(p), LookupRequest(p)
  PROVE  KnowsTruth(p)'
<1> DEFINE c == call[p]
<1>1. pc[p] = "seen" /\ c \in ReserveCall /\ c \notin SettleCall
      /\ buf[p] = NoWrites
  BY DEF Before, LookupRequest, EngineInv, TypeInv, CallFits, WritesFit,
    NothingPending, ReserveLocations, ReserveCall, SettleCall
<1>2. ASSUME NEW r \in WithRequest(c.user, c.request), Return(p, r, TRUE),
             UNCHANGED buf
      PROVE  KnowsTruth(p)'
  <2>1. /\ r \in Rows
        /\ reservation[r].user = c.user
        /\ reservation[r].request = c.request
    BY DEF WithRequest, RowsOf
  <2>2. QED
    BY <1>1, <1>2, <2>1, ReusedOutcome
<1>3. CASE WithRequest(c.user, c.request) = {} /\ Continue(p, "deduct")
  <2>1. pc'[p] = "deduct" /\ attempt'[p] = 0
    BY <1>1, <1>3 DEF Before, Continue, Goto, KnowsTruth, RetryFits,
      EngineInv, TypeInv, TypeOK
  <2>2. QED
    BY <2>1 DEF KnowsTruth, OutcomeFits, RetryFits, FinalFits, HasSnapshot
<1>4. QED
  BY <1>2, <1>3 DEF LookupRequest

LEMMA LookupReservationOutcome ==
  ASSUME NEW p \in Callers, Before(p), LookupReservation(p)
  PROVE  KnowsTruth(p)'
<1> DEFINE row == reservation[call[p].id]
<1>1. CASE Fail(p, "RESERVATION_NOT_FOUND")
  BY <1>1, FailOutcome DEF LookupReservation
<1>2. CASE /\ current' = [current EXCEPT ![p] = row]
           /\ Goto(p, "spender")
           /\ UNCHANGED <<tables, admin, call, attempt, cost, buf, out>>
  <2>1. /\ pc[p] = "lookup" /\ pc'[p] = "spender"
        /\ current'[p] = row
    BY <1>2 DEF Before, LookupReservation, Goto, EngineInv, TypeInv, TypeOK
  <2>2. RetryFits(p)'
    BY <1>2, <2>1 DEF Before, KnowsTruth, RetryFits, tables, WithRequest,
      RowsOf, Rows
  <2>3. QED
    BY <1>2, <2>1, <2>2 DEF KnowsTruth, OutcomeFits, FinalFits, tables
<1>3. QED
  BY <1>1, <1>2 DEF LookupReservation

\* A call that found its reservation settled as it asks.
LEMMA SettledOutcome ==
  ASSUME NEW p \in Callers, Before(p), Return(p, call[p].id, TRUE),
         UNCHANGED buf, buf[p] = NoWrites, HasSnapshot(p),
         call[p] \in SettleCall,
         reservation[call[p].id].status = Target(call[p])
  PROVE  KnowsTruth(p)'
<1>1. /\ call[p].id \in Rows
      /\ reservation[call[p].id].user = call[p].user
  BY DEF Before, EngineInv, TypeInv, CallFits, SnapshotFits, MovedTo,
    Reservation, Rows, SettleCall
<1>2. call[p] \notin ReserveCall /\ pc[p] # "idle"
  BY DEF HasSnapshot, ReserveCall, SettleCall
<1>3. QED
  BY <1>1, <1>2, ReusedOutcome

LEMMA AdmitSettleOutcome ==
  ASSUME NEW p \in Callers, Before(p), AdmitSettle(p)
  PROVE  KnowsTruth(p)'
<1>1. /\ pc[p] = "spender"
      /\ call[p] \in SettleCall
      /\ HasSnapshot(p)
      /\ buf[p] = NoWrites
  BY DEF Before, AdmitSettle, EngineInv, TypeInv, CallFits, WritesFit,
    NothingPending, HasSnapshot, ReserveCall
<1>2. CASE /\ current[p].status = Target(call[p])
           /\ Return(p, call[p].id, TRUE)
           /\ UNCHANGED buf
  <2>1. reservation[call[p].id] = current[p]
    BY <1>1, <1>2 DEF Before, KnowsTruth, FinalFits, Target
  <2>2. QED
    BY <1>1, <1>2, <2>1, SettledOutcome
<1>3. CASE Fail(p, "RESERVATION_STATE")
  BY <1>1, <1>3, FailOutcome
<1>4. CASE Continue(p, "transition")
  <2>1. /\ pc'[p] = "transition"
        /\ UNCHANGED <<tables, call, attempt, current>>
    BY <1>4 DEF Before, Continue, Goto, EngineInv, TypeInv, TypeOK
  <2>2. QED
    BY <1>1, <2>1, ContinueOutcome
<1>5. QED
  BY <1>2, <1>3, <1>4 DEF AdmitSettle

LEMMA RereadOutcome ==
  ASSUME NEW p \in Callers, Before(p), Reread(p)
  PROVE  KnowsTruth(p)'
<1>1. /\ pc[p] = "reread"
      /\ call[p] \in SettleCall
      /\ HasSnapshot(p)
      /\ buf[p] = NoWrites
  BY DEF Before, Reread, EngineInv, TypeInv, CallFits, WritesFit,
    NothingPending, HasSnapshot, SettleLocations
<1>2. CASE /\ reservation[call[p].id].status = Target(call[p])
           /\ Return(p, call[p].id, TRUE)
           /\ UNCHANGED buf
  BY <1>1, <1>2, SettledOutcome
<1>3. CASE Fail(p, "RESERVATION_STATE")
  BY <1>1, <1>3, FailOutcome
<1>4. QED
  BY <1>2, <1>3 DEF Reread

\* COMMIT: the promise is kept.  What is published is what the outcome names.
LEMMA PublishedStands ==
  ASSUME NEW p \in Callers, Before(p), pc[p] = "commit", Publish(p)
  PROVE  /\ out[p].reused <=> UNCHANGED tables
         /\ out'[p] = out[p] => ResultStands(p)'
<1> DEFINE c == call[p]
           r == buf[p].id
<1>1. /\ out[p].reused <=> NothingPending(p)
      /\ out[p].reused => ResultStands(p)
      /\ ~out[p].reused => out[p].id = r
      /\ out[p].reused \in BOOLEAN
  BY DEF Before, KnowsTruth, OutcomeFits, EngineInv, TypeInv, CallFits,
    Outcome
<1>2. call' = call
  BY DEF Publish
<1>3. CASE NothingPending(p)
  <2>1. UNCHANGED tables
    BY <1>3, NoWritesFields DEF Publish, NothingPending, tables
  <2>2. out'[p] = out[p] => ResultStands(p)'
    BY <1>1, <1>2, <1>3, ResultStays DEF Before
  <2>3. QED
    BY <1>1, <1>3, <2>1, <2>2
<1>4. ASSUME ~NothingPending(p), r \in ReservationIds,
             buf[p].row # None, buf[p].row # reservation[r],
             buf[p].row.user = c.user,
             c \in ReserveCall => buf[p].row.request = c.request,
             c \in SettleCall => r = c.id /\ buf[p].row.status = Target(c)
      PROVE  /\ ~UNCHANGED tables
             /\ out'[p] = out[p] => ResultStands(p)'
  <2>1. reservation'[r] = buf[p].row
    BY <1>4 DEF Before, Publish, EngineInv, TypeInv, TypeOK, TablesTypeOK
  <2>2. ~UNCHANGED tables
    BY <1>4, <2>1 DEF tables
  <2>3. out'[p] = out[p] => ResultStands(p)'
    BY <1>1, <1>2, <1>4, <2>1 DEF ResultStands, Rows, Target
  <2>4. QED
    BY <2>2, <2>3
<1>5. CASE ReservePending(p)
  <2>1. /\ c \in ReserveCall /\ c \notin SettleCall
        /\ r \in ReservationIds
        /\ reservation[r] = None
        /\ buf[p].row = NewReservation(c.user, c.request, c.operation, cost[p])
        /\ cost[p] \in Nat
    BY <1>5 DEF Before, ReservePending, DeductPending, ReserveCall,
      SettleCall, EngineInv, TypeInv, TypeOK
  <2>2. /\ buf[p].row \in Reservation
        /\ buf[p].row.user = c.user
        /\ buf[p].row.request = c.request
    BY <2>1 DEF NewReservation, Reservation, ReserveCall, Status
  <2>3. buf[p].row # None /\ r # None
    BY <2>1, <2>2, NoneAssumption
  <2>4. ~NothingPending(p)
    BY <2>3, NoWritesFields DEF NothingPending
  <2>5. QED
    BY <1>1, <1>4, <2>1, <2>2, <2>3, <2>4
<1>6. CASE CommitPending(p) \/ ReleasePending(p)
  <2>1. /\ MovePending(p)
        /\ c \in SettleCall /\ c \notin ReserveCall
        /\ r = c.id /\ r \in ReservationIds
        /\ reservation[r] = current[p]
        /\ current[p] \in Reservation
        /\ current[p].status = "reserved"
        /\ current[p].user = c.user
        /\ buf[p].row = MovedTo(current[p], Target(c))
    BY <1>6 DEF CommitPending, ConsumePending, ReleasePending, SettlePending,
      MovePending, SettleCall, ReserveCall
  <2>2. /\ buf[p].row \in Reservation
        /\ buf[p].row.user = c.user
        /\ buf[p].row.status = Target(c)
        /\ Target(c) # "reserved"
    BY <2>1 DEF MovedTo, Target, Reservation, Status
  <2>3. buf[p].row # None /\ buf[p].row # reservation[r]
    BY <2>1, <2>2, NoneAssumption
  <2>4. ~NothingPending(p)
    BY <2>3, NoWritesFields DEF NothingPending
  <2>5. QED
    BY <1>1, <1>4, <2>1, <2>2, <2>3, <2>4
<1>7. QED
  BY <1>3, <1>5, <1>6 DEF Before, EngineInv, WritesFit

LEMMA PublishOutcome ==
  ASSUME NEW p \in Callers, Before(p), pc[p] = "commit", Publish(p),
         \/ UNCHANGED out
         \/ out' = [out EXCEPT ![p] = Failed("UNAVAILABLE")]
  PROVE  KnowsTruth(p)'
<1>1. /\ pc'[p] = "done"
      /\ UNCHANGED <<call, attempt>>
  BY DEF Before, Publish, Goto, EngineInv, TypeInv, TypeOK
<1>2. RetryFits(p)' /\ FinalFits(p)'
  BY <1>1, RequestStays DEF Before, KnowsTruth, RetryFits, FinalFits,
    HasSnapshot
<1>3. CASE UNCHANGED out
  <2>1. out'[p] = out[p] /\ out[p].code = "OK"
    BY <1>3 DEF Before, KnowsTruth, OutcomeFits
  <2>2. ResultStands(p)'
    BY <2>1, PublishedStands
  <2>3. QED
    BY <1>1, <1>2, <2>1, <2>2 DEF KnowsTruth, OutcomeFits
<1>4. CASE out' = [out EXCEPT ![p] = Failed("UNAVAILABLE")]
  <2>1. out'[p].code = "UNAVAILABLE"
    BY <1>4 DEF Before, EngineInv, TypeInv, TypeOK, Failed
  <2>2. QED
    BY <1>1, <1>2, <2>1 DEF KnowsTruth, OutcomeFits
<1>5. QED
  BY <1>3, <1>4

LEMMA ProceedOutcome ==
  ASSUME NEW p \in Callers, Before(p), Proceed(p)
  PROVE  KnowsTruth(p)'
<1>1. CASE RejectSuspended(p)
  BY <1>1, FailOutcome DEF RejectSuspended
<1>2. CASE AdmitReserve(p)
  <2>1. /\ pc[p] = "spender" /\ pc'[p] = "operation"
        /\ UNCHANGED <<tables, call, attempt, current>>
    BY <1>2 DEF Before, AdmitReserve, Continue, Goto, EngineInv, TypeInv,
      TypeOK
  <2>2. ~HasSnapshot(p)'
    BY <2>1 DEF HasSnapshot
  <2>3. QED
    BY <2>1, <2>2, ContinueOutcome
<1>3. CASE LoadOperation(p)
  <2>1. CASE Fail(p, "UNKNOWN_OPERATION") \/ Fail(p, "OPERATION_DISABLED")
    BY <1>3, <2>1, FailOutcome DEF LoadOperation
  <2>2. CASE /\ Goto(p, "seen")
             /\ UNCHANGED <<tables, admin, call, attempt, current, buf, out>>
    <3>1. pc[p] = "operation" /\ pc'[p] = "seen"
      BY <1>3, <2>2 DEF Before, LoadOperation, Goto, EngineInv, TypeInv, TypeOK
    <3>2. ~HasSnapshot(p)'
      BY <3>1 DEF HasSnapshot
    <3>3. QED
      BY <2>2, <3>1, <3>2, ContinueOutcome
  <2>3. QED
    BY <1>3, <2>1, <2>2 DEF LoadOperation
<1>4. CASE BreakDeadlock(p)
  BY <1>4, FailOutcome DEF BreakDeadlock, WaitsFor
<1>5. CASE CommitTransaction(p)
  BY <1>5, PublishOutcome DEF CommitTransaction
<1>6. QED
  BY <1>1, <1>2, <1>3, <1>4, <1>5, LookupRequestOutcome,
     LookupReservationOutcome, AdmitSettleOutcome, RereadOutcome,
     AppendLedgerOutcome
    DEF Proceed

LEMMA StepOutcome ==
  ASSUME NEW p \in Callers, Before(p), BooksInv, Step(p)
  PROVE  KnowsTruth(p)'
<1>1. CASE Invoke(p)
  <2>1. pc'[p] = "connect" /\ attempt'[p] = 0
    BY <1>1 DEF Before, Invoke, Start, Goto, KnowsTruth, RetryFits, EngineInv,
      TypeInv, TypeOK
  <2>2. QED
    BY <2>1 DEF KnowsTruth, OutcomeFits, RetryFits, FinalFits, HasSnapshot
<1>2. CASE Deliver(p)
  <2>1. pc'[p] = "idle" /\ attempt'[p] = 0
    BY <1>2 DEF Before, Deliver, Goto, EngineInv, TypeInv, TypeOK
  <2>2. QED
    BY <2>1 DEF KnowsTruth, OutcomeFits, RetryFits, FinalFits, HasSnapshot
<1>3. CASE LoseAcknowledgement(p)
  BY <1>3, PublishOutcome DEF LoseAcknowledgement
<1>4. CASE Crash(p)
  BY <1>4, FailOutcome DEF Crash
<1>5. QED
  BY <1>1, <1>2, <1>3, <1>4, AcquireOutcome, ProceedOutcome DEF Step

LEMMA NextKeepsOutcomes ==
  ASSUME EngineInv, BooksInv, OutcomeInv, [Next]_vars
  PROVE  OutcomeInv'
<1>1. SUFFICES ASSUME NEW q \in Callers PROVE KnowsTruth(q)'
  BY DEF OutcomeInv
<1>2. KnowsTruth(q)
  BY DEF OutcomeInv
<1>3. Untouched(q) => KnowsTruth(q)'
  BY <1>2, UntouchedStays
<1>4. Step(q) => KnowsTruth(q)'
  BY <1>2, StepOutcome DEF Before
<1>5. QED
  BY <1>3, <1>4, OneCallerSteps DEF EngineInv, TypeInv

LEMMA OutcomeInvariant == Spec => [](EngineInv /\ OutcomeInv)
<1>1. Init => OutcomeInv
  BY DEF Init, OutcomeInv, KnowsTruth, OutcomeFits, RetryFits, FinalFits,
    HasSnapshot
<1>2. EngineInv /\ BooksInv /\ OutcomeInv /\ [Next]_vars => OutcomeInv'
  BY NextKeepsOutcomes
<1>3. QED
  BY <1>1, <1>2, BooksInvariant, PTL DEF Spec

-----------------------------------------------------------------------------
(* Theorems *)

\* What a caller is told is so, for any number of calls in between.
THEOREM OutcomesAreTrue == Spec => []OutcomeIsTrue
<1>1. EngineInv /\ OutcomeInv => OutcomeIsTrue
  <2>1. SUFFICES ASSUME EngineInv, OutcomeInv, NEW p \in Callers,
                        pc[p] = "done", out[p].code = "OK"
                 PROVE
      LET c == call[p]
          row == reservation[out[p].id]
      IN  /\ row # None
          /\ row.user = c.user
          /\ IF c.kind = "reserve"
             THEN row.request = c.request
             ELSE out[p].id = c.id /\ row.status = Target(c)
    BY DEF OutcomeIsTrue
  <2>2. ResultStands(p) /\ call[p] \in ReserveCall \cup SettleCall
    BY <2>1 DEF OutcomeInv, KnowsTruth, OutcomeFits, EngineInv, TypeInv,
      CallFits
  <2>3. QED
    BY <2>2 DEF ResultStands, Rows, ReserveCall, SettleCall
<1>2. QED
  BY <1>1, OutcomeInvariant, PTL

\* Exactly the call that changed the tables reports reused = FALSE.
THEOREM ReusedIsTrue == Spec => ReusedMeansUntouched
<1> DEFINE Told(p) ==
             pc[p] = "commit" /\ pc'[p] = "done" /\ out'[p].code = "OK" =>
               (out'[p].reused <=> UNCHANGED tables)
<1>1. ASSUME EngineInv, OutcomeInv, [Next]_vars, NEW p \in Callers,
             pc[p] = "commit", pc'[p] = "done", out'[p].code = "OK"
      PROVE  out'[p].reused <=> UNCHANGED tables
  <2>1. Before(p)
    BY <1>1 DEF Before, OutcomeInv
  <2>2. Step(p)
    BY <1>1, OneCallerSteps DEF Untouched, EngineInv, TypeInv
  <2>3. ~(\E c : c # "OK" /\ Fail(p, c))
    BY <1>1 DEF Fail, Failed, EngineInv, TypeInv, TypeOK
  <2>4. ~LoseAcknowledgement(p) /\ ~Crash(p)
    BY <1>1, <2>3 DEF LoseAcknowledgement, Crash, Failed, EngineInv, TypeInv,
      TypeOK
  <2>5. ~Acquire(p)
    BY <1>1 DEF Acquire, Connect, TryReserve, InsertReservation, Transition,
      Adjust
  <2>6. CommitTransaction(p)
    BY <1>1, <2>2, <2>3, <2>4, <2>5 DEF Step, Invoke, Start, Deliver, Proceed,
      RejectSuspended, AdmitReserve, LoadOperation, LookupRequest,
      LookupReservation, AdmitSettle, Reread, AppendLedger, BreakDeadlock
  <2>7. QED
    BY <1>1, <2>1, <2>6, PublishedStands DEF CommitTransaction
<1>2. EngineInv /\ OutcomeInv /\ [Next]_vars
        => [\A p \in Callers : Told(p)]_vars
  BY <1>1
<1>3. QED
  BY <1>2, OutcomeInvariant, PTL DEF Spec, ReusedMeansUntouched

\* RetryAsRead never leaves reserve, the ledger key of a commit is never taken
\* and no CHECK of the wallet row fires: the code that answers them is there
\* for a bug in the first line of defence, and there is none.
THEOREM DefencesAreUnused == Spec => []DefencesUnused
<1>1. EngineInv /\ OutcomeInv => DefencesUnused
  BY KeyFree DEF OutcomeInv, KnowsTruth, OutcomeFits, DefencesUnused
<1>2. QED
  BY <1>1, OutcomeInvariant, PTL
=============================================================================
