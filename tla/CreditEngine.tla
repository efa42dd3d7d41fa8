---------------------------- MODULE CreditEngine ----------------------------
(***************************************************************************)
(* packages/credits/src/engine.ts over packages/db/src/postgres.ts: the    *)
(* calls reserve, commit and release of concurrent callers, one action per *)
(* SQL statement.                                                          *)
(*                                                                         *)
(* Postgres runs at READ COMMITTED.  A statement sees what is committed    *)
(* when it runs; the rows a transaction has written are its own (locked)   *)
(* until COMMIT or ROLLBACK.  An UPDATE skips a row its WHERE clause       *)
(* rejects, waits for a row another transaction has locked, and looks      *)
(* again at what that transaction left.  An INSERT waits for a row with    *)
(* the same unique key that another transaction has inserted or updated    *)
(* and not committed, and conflicts with a committed one.  So a statement  *)
(* is enabled when it need not wait; when two transactions wait for each   *)
(* other Postgres aborts one of them.                                      *)
(*                                                                         *)
(* What the transaction of p has written is buf[p]; COMMIT moves it to the *)
(* tables.  A throw is followed at once by ROLLBACK, which drops buf[p].   *)
(***************************************************************************)
EXTENDS CreditTables

CONSTANTS
  Callers,      \* concurrent calls: one caller runs one call at a time
  PoolSize,     \* pg pool: max connections (postgres.ts:93)
  Catalogue,    \* the operations table when the system starts
  Listings      \* the rows an operator may give an operation later

\* A row of the operations table.
OperationRow == [cost : Nat, enabled : BOOLEAN]

ReserveCall ==
  [kind : {"reserve"}, user : Users, request : Requests,
   operation : Operations]

SettleCall ==
  [kind : {"commit", "release"}, user : Users, id : ReservationIds]

ASSUME CatalogueAssumption ==
  /\ Catalogue \in [Operations -> OperationRow \cup {None}]
  /\ Listings \subseteq OperationRow
  /\ None \notin OperationRow \cup ReserveCall \cup SettleCall

ASSUME PoolSizeAssumption == PoolSize \in Nat \ {0}

VARIABLES
  active,    \* the users whose users.status is "active"
  operations,\* operations, by key
  pc,        \* where the call of a caller is
  call,      \* its arguments
  attempt,   \* reserve: the loop counter of engine.ts:145
  cost,      \* reserve: op.cost as loadOperation read it
  current,   \* commit, release: the row getById read
  buf,       \* the rows its transaction has written and not committed
  out        \* the outcome, returned to the caller when pc is "done"

admin == <<active, operations>>
vars == <<tables, admin, pc, call, attempt, cost, current, buf, out>>

-----------------------------------------------------------------------------
(* Calls, outcomes and buffers *)

\* The status a settling call moves its reservation to.
Target(c) == IF c.kind = "commit" THEN "committed" ELSE "released"

Codes ==
  {"OK", "UNKNOWN_OPERATION", "OPERATION_DISABLED", "ACCOUNT_SUSPENDED",
   "INSUFFICIENT_CREDITS", "RESERVATION_NOT_FOUND", "RESERVATION_STATE",
   "RETRY_AS_READ", "CHECK_VIOLATION", "DEADLOCK", "UNAVAILABLE"}

Outcome ==
  [code : Codes, id : ReservationIds \cup {None}, reused : BOOLEAN]

Failed(code) == [code |-> code, id |-> None, reused |-> FALSE]

Success(r, reused) == [code |-> "OK", id |-> r, reused |-> reused]

Buffer ==
  [wallet : Wallet \cup {None},
   id : ReservationIds \cup {None},
   row : Reservation \cup {None},
   ledger : LedgerRow \cup {None},
   usage : UsageKeys \cup {None}]

NoWrites ==
  [wallet |-> None, id |-> None, row |-> None,
   ledger |-> None, usage |-> None]

Locations ==
  {"idle", "connect", "spender", "operation", "seen", "deduct", "insert",
   "lookup", "transition", "reread", "adjust", "ledger", "commit", "done"}

-----------------------------------------------------------------------------
(* Connections and locks *)

\* MUTANT of InTransaction: calls of withTransaction are nested (executor.ts:29).
InOuterTransaction(p) == pc[p] \notin {"idle", "done"}

InTransaction(p) == pc[p] \notin {"idle", "connect", "done"}

HoldsWallet(p, u) == buf[p].wallet # None /\ call[p].user = u

HoldsReservation(p, r) == buf[p].id = r

\* MUTANT of WalletFree: a balance is read, and written back later.
NoRowLock(p, u) == TRUE

WalletFree(p, u) == \A q \in Callers \ {p} : ~HoldsWallet(q, u)

ReservationFree(p, r) == \A q \in Callers \ {p} : ~HoldsReservation(q, r)

\* An uncommitted reservation, inserted or updated, with this unique key.
HoldsRequest(p, u, q) ==
  buf[p].row # None /\ buf[p].row.user = u /\ buf[p].row.request = q

RequestFree(p, u, q) == \A x \in Callers \ {p} : ~HoldsRequest(x, u, q)

\* The statement p is at waits for a row of the transaction of q.
WaitsFor(p, q) ==
  LET c == call[p]
  IN  /\ p # q
      /\ \/ /\ pc[p] = "deduct"
            /\ wallet[c.user].available >= cost[p]
            /\ HoldsWallet(q, c.user)
         \/ pc[p] = "adjust" /\ HoldsWallet(q, c.user)
         \/ pc[p] = "insert" /\ HoldsRequest(q, c.user, c.request)
         \/ /\ pc[p] = "transition"
            /\ reservation[c.id].status = "reserved"
            /\ HoldsReservation(q, c.id)

\* Ids gen_random_uuid() may still return.
FreshIds ==
  {r \in ReservationIds : reservation[r] = None /\ \A q \in Callers :
                                                     buf[q].id # r}

-----------------------------------------------------------------------------
(* Moves of a caller *)

Goto(p, location) == pc' = [pc EXCEPT ![p] = location]

\* A statement that only reads, with the local steps that follow it.
Continue(p, location) ==
  /\ Goto(p, location)
  /\ UNCHANGED <<tables, admin, call, attempt, cost, current, buf, out>>

\* A return of withTransaction's callback: what is left is COMMIT.
Return(p, r, reused) ==
  /\ out' = [out EXCEPT ![p] = Success(r, reused)]
  /\ Goto(p, "commit")
  /\ UNCHANGED <<tables, admin, call, attempt, cost, current>>

\* A throw out of the callback: ROLLBACK, release the connection, rethrow.
Fail(p, code) ==
  /\ buf' = [buf EXCEPT ![p] = NoWrites]
  /\ out' = [out EXCEPT ![p] = Failed(code)]
  /\ Goto(p, "done")
  /\ UNCHANGED <<tables, admin, call, attempt, cost, current>>

Start(p, c) ==
  /\ pc[p] = "idle"
  /\ call' = [call EXCEPT ![p] = c]
  /\ Goto(p, "connect")
  /\ UNCHANGED <<tables, admin, attempt, cost, current, buf, out>>

Invoke(p) == \E c \in ReserveCall \cup SettleCall : Start(p, c)

\* pool.connect() and BEGIN
Connect(p) ==
  /\ pc[p] = "connect"
  /\ Cardinality({q \in Callers : InTransaction(q)}) < PoolSize
  /\ Continue(p, IF call[p].kind = "reserve" THEN "spender" ELSE "lookup")

\* requireActiveSpender
RejectSuspended(p) ==
  /\ pc[p] = "spender"
  /\ call[p].user \notin active
  /\ Fail(p, "ACCOUNT_SUSPENDED")

-----------------------------------------------------------------------------
(* reserve *)

AdmitReserve(p) ==
  /\ pc[p] = "spender"
  /\ call[p].kind = "reserve"
  /\ call[p].user \in active
  /\ Continue(p, "operation")

LoadOperation(p) ==
  LET op == operations[call[p].operation]
  IN  /\ pc[p] = "operation"
      /\ \/ /\ op = None
            /\ Fail(p, "UNKNOWN_OPERATION")
         \/ /\ op # None
            /\ ~op.enabled
            /\ Fail(p, "OPERATION_DISABLED")
         \/ /\ op # None
            /\ op.enabled
            /\ cost' = [cost EXCEPT ![p] = op.cost]
            /\ Goto(p, "seen")
            /\ UNCHANGED <<tables, admin, call, attempt, current, buf, out>>

\* A request id that has a reservation returns it, as it stands.
LookupRequest(p) ==
  LET seen == WithRequest(call[p].user, call[p].request)
  IN  /\ pc[p] = "seen"
      /\ \/ /\ \E r \in seen : Return(p, r, TRUE)
            /\ UNCHANGED buf
         \/ /\ seen = {}
            /\ Continue(p, "deduct")

\* MUTANT of TryReserve: available_balance >= cost is not required.
TryReserveUnchecked(p) ==
  LET u == call[p].user
  IN  /\ pc[p] = "deduct"
      /\ WalletFree(p, u)
      /\ buf' = [buf EXCEPT ![p].wallet = Deduct(wallet[u], cost[p])]
      /\ Goto(p, "insert")
      /\ UNCHANGED <<tables, admin, call, attempt, cost, current, out>>

TryReserve(p) ==
  LET u == call[p].user
  IN  /\ pc[p] = "deduct"
      /\ \/ /\ wallet[u].available < cost[p]
            /\ Fail(p, "INSUFFICIENT_CREDITS")
         \/ /\ wallet[u].available >= cost[p]
            /\ WalletFree(p, u)
            /\ buf' = [buf EXCEPT ![p].wallet = Deduct(wallet[u], cost[p])]
            /\ Goto(p, "insert")
            /\ UNCHANGED <<tables, admin, call, attempt, cost, current, out>>

\* DbConflictError on the request id: RetryAsRead rolls the deduction back and
\* the loop runs a second attempt.  On the second one it would be thrown.
RetryAsRead(p) ==
  IF attempt[p] = 0
  THEN /\ attempt' = [attempt EXCEPT ![p] = 1]
       /\ buf' = [buf EXCEPT ![p] = NoWrites]
       /\ Goto(p, "connect")
       /\ UNCHANGED <<tables, admin, call, cost, current, out>>
  ELSE Fail(p, "RETRY_AS_READ")

\* MUTANT of InsertReservation: no unique index on the request id.
InsertRegardless(p) ==
  LET c == call[p]
  IN  /\ pc[p] = "insert"
      /\ \E r \in FreshIds :
           /\ buf' = [buf EXCEPT
                        ![p].id = r,
                        ![p].row = NewReservation(c.user, c.request,
                                                  c.operation, cost[p]),
                        ![p].usage = <<c.user, c.request, "reserved">>]
           /\ Return(p, r, FALSE)

\* reservations.create and usage.record: the usage row has no unique key, so
\* the second insert never waits and nobody can see the first without it.
InsertReservation(p) ==
  LET c == call[p]
  IN  /\ pc[p] = "insert"
      /\ RequestFree(p, c.user, c.request)
      /\ \/ /\ WithRequest(c.user, c.request) # {}
            /\ RetryAsRead(p)
         \/ /\ WithRequest(c.user, c.request) = {}
            /\ \E r \in FreshIds :
                 /\ buf' = [buf EXCEPT
                              ![p].id = r,
                              ![p].row = NewReservation(c.user, c.request,
                                                        c.operation, cost[p]),
                              ![p].usage = <<c.user, c.request, "reserved">>]
                 /\ Return(p, r, FALSE)

-----------------------------------------------------------------------------
(* commit and release *)

\* getById: unknown and foreign reservations are not found.
LookupReservation(p) ==
  LET row == reservation[call[p].id]
      mine == row # None /\ row.user = call[p].user
  IN  /\ pc[p] = "lookup"
      /\ \/ ~mine /\ Fail(p, "RESERVATION_NOT_FOUND")
         \/ /\ mine
            /\ current' = [current EXCEPT ![p] = row]
            /\ Goto(p, "spender")
            /\ UNCHANGED <<tables, admin, call, attempt, cost, buf, out>>

\* MUTANT of AdmitSettle: commit, unlike release, locks the wallet first.
CommitLocksWallet(p) ==
  LET u == call[p].user
      locked == IF call[p].kind = "commit" THEN wallet[u] ELSE None
  IN  /\ pc[p] = "spender"
      /\ call[p].kind # "reserve"
      /\ current[p].status = "reserved"
      /\ WalletFree(p, u)
      /\ buf' = [buf EXCEPT ![p].wallet = locked]
      /\ Goto(p, "transition")
      /\ UNCHANGED <<tables, admin, call, attempt, cost, current, out>>

\* requireActiveSpender, then the decisions on the row getById read.
AdmitSettle(p) ==
  LET status == current[p].status
  IN  /\ pc[p] = "spender"
      /\ call[p].kind # "reserve"
      /\ call[p].user \in active
      /\ \/ /\ status = Target(call[p])
            /\ Return(p, call[p].id, TRUE)
            /\ UNCHANGED buf
         \/ /\ status \notin {"reserved", Target(call[p])}
            /\ Fail(p, "RESERVATION_STATE")
         \/ /\ status = "reserved"
            /\ Continue(p, "transition")

\* MUTANT of Transition: where id = ..., without and status = 'reserved'.
TransitionAnyStatus(p) ==
  LET r == call[p].id
  IN  /\ pc[p] = "transition"
      /\ ReservationFree(p, r)
      /\ buf' = [buf EXCEPT
                   ![p].id = r,
                   ![p].row = MovedTo(reservation[r], Target(call[p]))]
      /\ Goto(p, "adjust")
      /\ UNCHANGED <<tables, admin, call, attempt, cost, current, out>>

\* update reservations set status = ... where id = ... and status = 'reserved'
Transition(p) ==
  LET r == call[p].id
      row == reservation[r]
  IN  /\ pc[p] = "transition"
      /\ \/ /\ row.status # "reserved"
            /\ Continue(p, "reread")
         \/ /\ row.status = "reserved"
            /\ ReservationFree(p, r)
            /\ buf' = [buf EXCEPT ![p].id = r,
                                  ![p].row = MovedTo(row, Target(call[p]))]
            /\ Goto(p, "adjust")
            /\ UNCHANGED <<tables, admin, call, attempt, cost, current, out>>

\* MUTANT of Reread: a lost race is taken for a success of its own.
RereadAsWon(p) ==
  pc[p] = "reread" /\ Return(p, call[p].id, FALSE) /\ UNCHANGED buf

\* The race was lost: getById again, for the winner's state.
Reread(p) ==
  LET r == call[p].id
      winner == reservation[r].status = Target(call[p])
  IN  /\ pc[p] = "reread"
      /\ \/ winner /\ Return(p, r, TRUE) /\ UNCHANGED buf
         \/ ~winner /\ Fail(p, "RESERVATION_STATE")

\* wallets.adjust; for a release, usage.record too.  The CHECK of the wallet
\* row rejects a negative balance.
Adjust(p) ==
  LET c == call[p]
      row == current[p]
      w == wallet[c.user]
  IN  /\ pc[p] = "adjust"
      /\ WalletFree(p, c.user)
      /\ IF w.reserved < row.amount
         THEN Fail(p, "CHECK_VIOLATION")
         ELSE \/ /\ c.kind = "commit"
                 /\ buf' = [buf EXCEPT ![p].wallet = Consume(w, row.amount)]
                 /\ Goto(p, "ledger")
                 /\ UNCHANGED <<tables, admin, call, attempt, cost, current,
                                out>>
              \/ /\ c.kind = "release"
                 /\ buf' = [buf EXCEPT
                              ![p].wallet = GiveBack(w, row.amount),
                              ![p].usage = <<c.user, row.request, "released">>]
                 /\ Return(p, c.id, FALSE)

\* ledger.append under the key commit:<id>, and usage.record.  A row with that
\* key would roll the transaction back and answer with the winner's row.
AppendLedger(p) ==
  LET c == call[p]
      row == current[p]
      entry == CommitRow(c.user, c.id, row.amount, buf[p].wallet)
      settled == CommitRows(c.user, c.id) # {}
  IN  /\ pc[p] = "ledger"
      /\ buf' = [buf EXCEPT ![p] =
                   IF settled THEN NoWrites
                   ELSE [buf[p] EXCEPT
                           !.ledger = entry,
                           !.usage = <<c.user, row.request, "committed">>]]
      /\ Return(p, c.id, settled)

-----------------------------------------------------------------------------
(* The end of a call *)

\* COMMIT: what the transaction wrote becomes visible, its locks are freed.
Publish(p) ==
  LET b == buf[p]
  IN  /\ wallet' = IF b.wallet = None THEN wallet
                   ELSE [wallet EXCEPT ![call[p].user] = b.wallet]
      /\ reservation' = IF b.row = None THEN reservation
                        ELSE [reservation EXCEPT ![b.id] = b.row]
      /\ ledger' = IF b.ledger = None THEN ledger ELSE ledger \cup {b.ledger}
      /\ usage' = IF b.usage = None THEN usage ELSE Recorded(usage, b.usage)
      /\ buf' = [buf EXCEPT ![p] = NoWrites]
      /\ Goto(p, "done")
      /\ UNCHANGED <<admin, call, attempt, cost, current>>

CommitTransaction(p) ==
  /\ pc[p] = "commit"
  /\ Publish(p)
  /\ UNCHANGED out

\* The COMMIT ran and its answer never arrived: the caller sees an error and
\* has to call again to find out.
LoseAcknowledgement(p) ==
  /\ pc[p] = "commit"
  /\ Publish(p)
  /\ out' = [out EXCEPT ![p] = Failed("UNAVAILABLE")]

\* The instance stops, the connection breaks or a statement times out: the
\* server rolls the transaction back.
Crash(p) ==
  /\ pc[p] \notin {"idle", "done"}
  /\ Fail(p, "UNAVAILABLE")

\* deadlock_detected (40P01): one of two transactions that wait for each other.
BreakDeadlock(p) ==
  /\ \E q \in Callers : WaitsFor(p, q) /\ WaitsFor(q, p)
  /\ Fail(p, "DEADLOCK")

\* The caller has its outcome.
Deliver(p) ==
  /\ pc[p] = "done"
  /\ Goto(p, "idle")
  /\ call' = [call EXCEPT ![p] = None]
  /\ attempt' = [attempt EXCEPT ![p] = 0]
  /\ cost' = [cost EXCEPT ![p] = 0]
  /\ current' = [current EXCEPT ![p] = None]
  /\ out' = [out EXCEPT ![p] = None]
  /\ UNCHANGED <<tables, admin, buf>>

-----------------------------------------------------------------------------
(* The operator's SQL: no code of the repository changes these columns of an *)
(* existing row, and the engine reads them in every call.                    *)

SetStatus(u) ==
  /\ active' = IF u \in active THEN active \ {u} ELSE active \cup {u}
  /\ UNCHANGED <<tables, operations, pc, call, attempt, cost, current, buf,
                 out>>

Relist(o) ==
  /\ \E row \in Listings : operations' = [operations EXCEPT ![o] = row]
  /\ UNCHANGED <<tables, active, pc, call, attempt, cost, current, buf, out>>

-----------------------------------------------------------------------------
Init ==
  /\ TablesInit
  /\ active = Users
  /\ operations = Catalogue
  /\ pc = [p \in Callers |-> "idle"]
  /\ call = [p \in Callers |-> None]
  /\ attempt = [p \in Callers |-> 0]
  /\ cost = [p \in Callers |-> 0]
  /\ current = [p \in Callers |-> None]
  /\ buf = [p \in Callers |-> NoWrites]
  /\ out = [p \in Callers |-> None]

\* The steps that may have to wait for another call.
Acquire(p) ==
  \/ Connect(p)
  \/ TryReserve(p)
  \/ InsertReservation(p)
  \/ Transition(p)
  \/ Adjust(p)

\* The steps that are ready whenever the call is at them.
Proceed(p) ==
  \/ RejectSuspended(p)
  \/ AdmitReserve(p)
  \/ LoadOperation(p)
  \/ LookupRequest(p)
  \/ LookupReservation(p)
  \/ AdmitSettle(p)
  \/ Reread(p)
  \/ AppendLedger(p)
  \/ CommitTransaction(p)
  \/ BreakDeadlock(p)

Next ==
  \/ \E p \in Callers : Invoke(p) \/ Deliver(p)
  \/ \E p \in Callers : Acquire(p) \/ Proceed(p)
  \/ \E p \in Callers : LoseAcknowledgement(p) \/ Crash(p)
  \/ \E u \in Users : SetStatus(u)
  \/ \E o \in Operations : Relist(o)

\* A call that is ready runs, and one that waits for a lock or a connection
\* gets it: Postgres and the pool serve waiters in the order they came.
Fairness ==
  \A p \in Callers : WF_vars(Proceed(p) \/ Deliver(p)) /\ SF_vars(Acquire(p))

Spec == Init /\ [][Next]_vars

FairSpec == Spec /\ Fairness

-----------------------------------------------------------------------------
TypeOK ==
  /\ TablesTypeOK
  /\ active \subseteq Users
  /\ operations \in [Operations -> OperationRow \cup {None}]
  /\ pc \in [Callers -> Locations]
  /\ call \in [Callers -> ReserveCall \cup SettleCall \cup {None}]
  /\ attempt \in [Callers -> {0, 1}]
  /\ cost \in [Callers -> Nat]
  /\ current \in [Callers -> Reservation \cup {None}]
  /\ buf \in [Callers -> Buffer]
  /\ out \in [Callers -> Outcome \cup {None}]

\* The database serializes what the calls do: every step leaves the committed
\* tables as they are or is one Reserve, Commit or Release of the abstract
\* account, however the statements of the calls interleave, fail or retry.
Account == INSTANCE CreditAccount WITH
             Users <- Users, Requests <- Requests, Operations <- Operations,
             ReservationIds <- ReservationIds, None <- None,
             InitialCredit <- InitialCredit,
             wallet <- wallet, reservation <- reservation, ledger <- ledger,
             usage <- usage

ImplementsAccount == Account!Spec

\* A pending write is computed from the row as it is committed now, not as it
\* was when the transaction read it: no update is lost at COMMIT
\* (tryReserve, adjust and transition are single conditional statements).
PendingWritesAreCurrent ==
  \A p \in Callers :
    LET c == call[p]
        b == buf[p]
    IN  /\ b.wallet # None =>
             b.wallet =
               CASE c.kind = "reserve" -> Deduct(wallet[c.user], cost[p])
                 [] c.kind = "commit"  -> Consume(wallet[c.user],
                                                  current[p].amount)
                 [] c.kind = "release" -> GiveBack(wallet[c.user],
                                                   current[p].amount)
        /\ b.row # None /\ c.kind # "reserve" =>
             /\ reservation[b.id] = current[p]
             /\ current[p].status = "reserved"

\* What a caller is told is so, whatever the other calls did in the meantime:
\* a successful reserve names the reservation of its request, a successful
\* commit or release a reservation that is settled that way
\* (engine.ts:133-139, 220-224, 310-315).
OutcomeIsTrue ==
  \A p \in Callers :
    pc[p] = "done" /\ out[p].code = "OK" =>
      LET c == call[p]
          row == reservation[out[p].id]
      IN  /\ row # None
          /\ row.user = c.user
          /\ IF c.kind = "reserve"
             THEN row.request = c.request
             ELSE out[p].id = c.id /\ row.status = Target(c)

\* reused tells the truth: exactly the call that changed the tables reports
\* reused = FALSE, so a caller that starts the external work on FALSE starts
\* it once (engine.ts:59, 66, 73).
ReusedMeansUntouched ==
  [][\A p \in Callers :
       pc[p] = "commit" /\ pc'[p] = "done" /\ out'[p].code = "OK" =>
         (out'[p].reused <=> UNCHANGED tables)]_vars

\* The second line of defence is never reached: RetryAsRead does not leave
\* reserve (engine.ts:202), the ledger key of a commit is never taken
\* (engine.ts:263-279), no CHECK of the wallet row fires.
DefencesUnused ==
  \A p \in Callers :
    /\ pc[p] = "done" =>
         out[p].code \notin {"RETRY_AS_READ", "CHECK_VIOLATION"}
    /\ pc[p] = "ledger" => CommitRows(call[p].user, call[p].id) = {}

\* A reservation is never deleted or handed to another request, its amount
\* never changes, and once it is committed or released it stays so
\* (engine.ts:7-8, 248, 338).
SettledIsFinal ==
  [][\A r \in Rows :
       LET row == reservation[r]
       IN  /\ reservation'[r] # None
           /\ reservation'[r] = MovedTo(row, reservation'[r].status)
           /\ row.status # "reserved" => reservation'[r] = row]_tables

\* Two calls wait for each other only when one inserts a request id a second
\* time while the other settles the reservation that already has it.
DeadlockNeedsDuplicate ==
  \A p, q \in Callers :
    WaitsFor(p, q) /\ WaitsFor(q, p) /\ pc[p] # "adjust" =>
      /\ pc[p] = "insert"
      /\ call[q].id \in WithRequest(call[p].user, call[p].request)

\* Every call comes back with an outcome: no caller waits for ever for a row,
\* a connection or another caller.
EveryCallReturns ==
  \A p \in Callers : pc[p] = "connect" ~> pc[p] = "done"

-----------------------------------------------------------------------------
(* What engine.ts and ADR-009 say of duplicate requests *)

\* "reserve with a seen (userId, requestId) returns the existing reservation"
\* (engine.ts:5-6): it does not answer that credit is insufficient.
DuplicateIsNotInsufficient ==
  \A p \in Callers :
    pc[p] = "done" /\ out[p].code = "INSUFFICIENT_CREDITS" =>
      WithRequest(call[p].user, call[p].request) = {}

\* "a same-requestId collision after funds moved aborts and retries once as a
\* read - the winner's reservation is returned" (engine.ts:136-138): the
\* collision does not end in an error of the database.
CollisionReturnsWinner ==
  \A p \in Callers :
    pc[p] = "done" /\ call[p].kind = "reserve" => out[p].code # "DEADLOCK"
=============================================================================
