------------------------- MODULE SchemaRepositories -------------------------
(***************************************************************************)
(* What the repositories promise: the statements of                        *)
(* packages/db/src/postgres.ts on the tables of supabase/migrations, whose *)
(* keys, checks and references decide what a call may write.               *)
(***************************************************************************)
EXTENDS RepositoryCalls

VARIABLES
  tables, \* the rows of each table
  call,   \* the last call
  answer  \* what it was answered with: rows, or the error it threw

vars == <<tables, call, answer>>

-----------------------------------------------------------------------------
(* The schema *)

\* Unique keys, but for the ids that the database draws.
Unique ==
  [users |-> {}, identities |-> {{"provider", "providerUserId"}},
   profiles |-> {{"userId"}}, sessions |-> {{"tokenHash"}},
   serviceCredentials |-> {{"keyId"}}, wallets |-> {{"userId"}},
   ledger |-> {{"userId", "idempotencyKey"}},
   reservations |-> {{"userId", "requestId"}}, usage |-> {},
   entitlements |-> {{"userId", "key"}},
   acquisitions |-> {{"userId", "provider"}}]

\* The CHECKs that the compiler's types leave something to do.
Checked(t, row) ==
  CASE t = "sessions" -> (row.sessionType = "account") <=> (row.appId = None)
    [] t = "serviceCredentials" -> row.keyId \notin BadKeyIds
    [] t = "wallets" -> row.availableBalance >= 0 /\ row.reservedBalance >= 0
    [] t = "reservations" -> row.amount >= 0
    [] OTHER -> TRUE

\* Every reference of the row is to a row.
Referenced(db, t, row) ==
  /\ t \in Owned => \E u \in db.users : u.id = row.userId
  /\ t \in {"sessions", "serviceCredentials"} => row.appId \in Apps \cup {None}
  /\ t = "ledger" /\ row.reservationId # None =>
       \E r \in db.reservations : r.id = row.reservationId

SameKey(t, r, s) ==
  \E columns \in Unique[t] : \A c \in columns : r[c] = s[c]

\* What an INSERT violates.
Violated(t, row) ==
  {e \in {"DB_CHECK"} : ~Checked(t, row)}
    \cup {e \in {"DB_CONFLICT"} : \E r \in tables[t] : SameKey(t, r, row)}
    \cup {e \in {"DB_FOREIGN_KEY"} : ~Referenced(tables, t, row)}

-----------------------------------------------------------------------------
(* Answers *)

\* The rows a statement returns; a repository that answers with their number,
\* or with whether there are any, answers with them here.
Rows(rows) == answer' = [code |-> "OK", rows |-> rows]

Throw(code) ==
  answer' = [code |-> code, rows |-> {}] /\ UNCHANGED tables

Replace(t, old, new) == tables' = [tables EXCEPT ![t] = (@ \ old) \cup new]

\* The order in which PostgreSQL looks: CHECKs before the row is written, keys
\* when it is, references at the end of the statement.
Insert(t, row) ==
  LET violated == Violated(t, row)
  IN  \/ violated = {} /\ Replace(t, {}, {row}) /\ Rows({row})
      \/ "DB_CHECK" \in violated /\ Throw("DB_CHECK")
      \/ /\ "DB_CONFLICT" \in violated /\ "DB_CHECK" \notin violated
         /\ Throw("DB_CONFLICT")
      \/ violated = {"DB_FOREIGN_KEY"} /\ Throw("DB_FOREIGN_KEY")

\* An id is random: no row has it.
Drawn(t, row) == "id" \in DOMAIN row => \A r \in tables[t] : r.id # row.id

\* INSERT ... ON CONFLICT: the row that is there stays as it was and is
\* returned.  Its references were checked when it came.
InsertOrGet(t, row) ==
  LET there == {r \in tables[t] : SameKey(t, r, row)}
  IN  \/ there = {} /\ Insert(t, row)
      \/ there # {} /\ Rows(there) /\ UNCHANGED tables

-----------------------------------------------------------------------------
(* Calls *)

Select(t, where) ==
  {r \in tables[t] : \A c \in DOMAIN where : r[c] = where[c]}

Read(c) ==
  c.do = "read" /\ Rows(Select(c.table, c.where)) /\ UNCHANGED tables

Create(c) ==
  /\ c.do = "create"
  /\ Drawn(c.table, c.row)
  /\ IF c.table \in {"entitlements", "acquisitions"}
     THEN InsertOrGet(c.table, c.row)
     ELSE Insert(c.table, c.row)

\* What the user's rows take with them; a reference from a row that stays to
\* one that goes is an error (ON DELETE CASCADE, NO ACTION).
DeleteUser(c) ==
  LET left == [t \in Tables |->
                 {r \in tables[t] :
                    /\ t = "users" => r.id # c.id
                    /\ t \in Owned => r.userId # c.id}]
  IN  /\ c.do = "deleteUser"
      /\ \/ /\ \A r \in left.ledger : Referenced(left, "ledger", r)
            /\ tables' = left
            /\ Rows({})
         \/ /\ \E r \in left.ledger : ~Referenced(left, "ledger", r)
            /\ Throw("DB_FOREIGN_KEY")

DeleteByTokenHash(c) ==
  /\ c.do = "deleteByTokenHash"
  /\ Replace("sessions", {s \in tables.sessions : s.tokenHash = c.tokenHash}, {})
  /\ Rows({})

DeleteExpired(c) ==
  LET expired == {s \in tables.sessions : s.expiresAt < c.now}
  IN  /\ c.do = "deleteExpired"
      /\ Replace("sessions", expired, {})
      /\ Rows(expired)

RevokeByKeyId(c) ==
  LET old == {k \in tables.serviceCredentials :
                k.keyId = c.keyId /\ k.status = "active"}
      new == {[k EXCEPT !.status = "revoked"] : k \in old}
  IN  /\ c.do = "revokeByKeyId"
      /\ Replace("serviceCredentials", old, new)
      /\ Rows(new)

TryReserve(c) ==
  LET old == {w \in tables.wallets :
                w.userId = c.userId /\ w.availableBalance >= c.amount}
      new == {[w EXCEPT !.availableBalance = @ - c.amount,
                        !.reservedBalance = @ + c.amount,
                        !.version = @ + 1] : w \in old}
  IN  /\ c.do = "tryReserve"
      /\ \/ c.amount < 0 /\ Throw("INVALID")
         \/ c.amount >= 0 /\ Replace("wallets", old, new) /\ Rows(new)

Adjust(c) ==
  LET old == {w \in tables.wallets :
                /\ w.userId = c.userId
                /\ c.expectedVersion \in {None, w.version}}
      new == {[w EXCEPT !.availableBalance = @ + c.available,
                        !.reservedBalance = @ + c.reserved,
                        !.version = @ + 1] : w \in old}
  IN  /\ c.do = "adjust"
      /\ \/ /\ \A w \in new : Checked("wallets", w)
            /\ Replace("wallets", old, new)
            /\ Rows(new)
         \/ \E w \in new : ~Checked("wallets", w) /\ Throw("DB_CHECK")

Transition(c) ==
  LET old == {r \in tables.reservations : r.id = c.id /\ r.status \in c.from}
      new == {[r EXCEPT !.status = c.to] : r \in old}
  IN  /\ c.do = "transition"
      /\ Replace("reservations", old, new)
      /\ Rows(new)

-----------------------------------------------------------------------------
Init ==
  /\ tables = [t \in Tables |-> {}]
  /\ call = None
  /\ answer = None

Do(c) ==
  \/ Read(c) \/ Create(c) \/ DeleteUser(c) \/ DeleteByTokenHash(c)
  \/ DeleteExpired(c) \/ RevokeByKeyId(c) \/ TryReserve(c) \/ Adjust(c)
  \/ Transition(c)

Next == call' \in Call /\ Do(call')

Spec == Init /\ [][Next]_vars
=============================================================================
