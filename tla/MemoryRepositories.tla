------------------------- MODULE MemoryRepositories -------------------------
(***************************************************************************)
(* The in-memory repositories of the unit tests (packages/db/src/memory.ts):*)
(* JavaScript maps, and hand-written checks in place of the schema's       *)
(* constraints.  They implement SchemaRepositories for the calls that      *)
(* Expected describes.                                                     *)
(***************************************************************************)
EXTENDS RepositoryCalls, FiniteSetsExt, Functions

CONSTANTS MaxRows, MaxVersion  \* bounds: rows of all tables, wallets.version

VARIABLES
  store,  \* MemoryStore: a map for each table, from MapKey to rows
  call,   \* the last call
  answer  \* what it was answered with

vars == <<store, call, answer>>

-----------------------------------------------------------------------------
(* Maps *)

MapKey(t, row) ==
  CASE t \in {"profiles", "wallets"} -> row.userId
    [] t = "sessions" -> row.tokenHash
    [] t = "entitlements" -> <<row.userId, row.key>>
    [] t = "acquisitions" -> <<row.userId, row.provider>>
    [] OTHER -> row.id

Has(t, k) == k \in DOMAIN store[t]

Get(t, k) == IF Has(t, k) THEN {store[t][k]} ELSE {}

Values(t) == Range(store[t])

\* map.set; the row of a key that is there is replaced.
Put(map, k, row) ==
  [x \in DOMAIN map \cup {k} |-> IF x = k THEN row ELSE map[x]]

Without(map, gone) == Restrict(map, {k \in DOMAIN map : map[k] \notin gone})

Rows(rows) == answer' = [code |-> "OK", rows |-> rows]

Throw(code) == answer' = [code |-> code, rows |-> {}] /\ UNCHANGED store

Store(t, row) ==
  /\ store' = [store EXCEPT ![t] = Put(@, MapKey(t, row), row)]
  /\ Rows({row})

Delete(t, gone) == store' = [store EXCEPT ![t] = Without(@, gone)]

-----------------------------------------------------------------------------
(* What each create looks at, in its order, and the error it throws if it   *)
(* does not hold.                                                           *)

UserKnown(row) == <<row.userId \in DOMAIN store.users, "DB_FOREIGN_KEY">>

\* No row has these columns of the new one.
New(t, row, columns) ==
  <<\A r \in Values(t) : \E c \in columns : r[c] # row[c], "DB_CONFLICT">>

Fresh(t, row) == <<~Has(t, MapKey(t, row)), "DB_CONFLICT">>

IdentityGuards(row) ==
  <<UserKnown(row), New("identities", row, {"provider", "providerUserId"})>>

ProfileGuards(row) == <<UserKnown(row), Fresh("profiles", row)>>

SessionGuards(row) ==
  <<UserKnown(row),
    Fresh("sessions", row),
    <<row.sessionType = "account" => row.appId = None, "DB_CHECK">>,
    <<row.sessionType = "app" => row.appId # None, "DB_CHECK">>,
    <<row.appId \in Apps \cup {None}, "DB_FOREIGN_KEY">>>>

CredentialGuards(row) ==
  <<<<row.appId \in Apps, "DB_FOREIGN_KEY">>,
    New("serviceCredentials", row, {"keyId"}),
    <<row.keyId \notin BadKeyIds, "DB_CHECK">>>>

WalletGuards(row) == <<UserKnown(row), Fresh("wallets", row)>>

\* MUTANT of LedgerGuards: the user is left out of the idempotency key.
LedgerGuardsAnyUser(row) ==
  <<UserKnown(row), New("ledger", row, {"idempotencyKey"})>>

LedgerGuards(row) ==
  <<UserKnown(row), New("ledger", row, {"userId", "idempotencyKey"})>>

ReservationGuards(row) ==
  <<UserKnown(row),
    <<row.amount >= 0, "DB_CHECK">>,
    New("reservations", row, {"userId", "requestId"})>>

Guards(t, row) ==
  CASE t = "users" -> <<>>
    [] t = "identities" -> IdentityGuards(row)
    [] t = "profiles" -> ProfileGuards(row)
    [] t = "sessions" -> SessionGuards(row)
    [] t = "serviceCredentials" -> CredentialGuards(row)
    [] t = "wallets" -> WalletGuards(row)
    [] t = "ledger" -> LedgerGuards(row)
    [] t = "reservations" -> ReservationGuards(row)
    [] OTHER -> <<UserKnown(row)>>

\* Stores the row, or throws the error of the first guard that fails.
Insert(t, row) ==
  LET guards == Guards(t, row)
      failed == {i \in DOMAIN guards : ~guards[i][1]}
  IN  \/ failed = {} /\ Store(t, row)
      \/ failed # {} /\ Throw(guards[Min(failed)][2])

-----------------------------------------------------------------------------
(* Calls *)

\* MUTANT of GetOrInsert: the last touch wins.
InsertOver(t, row) == Insert(t, row)

\* grant and recordFirstSeen
GetOrInsert(t, row) ==
  IF row.userId \in DOMAIN store.users /\ Has(t, MapKey(t, row))
  THEN Rows(Get(t, MapKey(t, row))) /\ UNCHANGED store
  ELSE Insert(t, row)

\* randomUUID gives an id that no row has.
Create(c) ==
  /\ c.do = "create"
  /\ "id" \in DOMAIN c.row => ~Has(c.table, c.row.id)
  /\ IF c.table \in {"entitlements", "acquisitions"}
     THEN GetOrInsert(c.table, c.row)
     ELSE Insert(c.table, c.row)

\* By the key of the map where that is what is asked for, else by a scan.
Find(t, where) ==
  LET key == CASE t \in {"profiles", "wallets"} -> {"userId"}
               [] t = "sessions" -> {"tokenHash"}
               [] t = "entitlements" -> {"userId", "key"}
               [] t = "acquisitions" -> {"userId", "provider"}
               [] OTHER -> {"id"}
  IN  IF DOMAIN where = key
      THEN Get(t, MapKey(t, where))
      ELSE {r \in Values(t) : \A c \in DOMAIN where : r[c] = where[c]}

Read(c) ==
  c.do = "read" /\ Rows(Find(c.table, c.where)) /\ UNCHANGED store

\* MUTANT of Cascade: the usage of the user is forgotten.
CascadeWithoutUsage(u) ==
  [t \in Tables |->
     Without(store[t], {r \in Values(t) : \/ t = "users" /\ r.id = u
                                          \/ t \in Owned \ {"usage"} /\ r.userId = u})]

Cascade(u) ==
  [t \in Tables |->
     Without(store[t], {r \in Values(t) : \/ t = "users" /\ r.id = u
                                          \/ t \in Owned /\ r.userId = u})]

DeleteUser(c) == c.do = "deleteUser" /\ store' = Cascade(c.id) /\ Rows({})

DeleteByTokenHash(c) ==
  /\ c.do = "deleteByTokenHash"
  /\ Delete("sessions", Get("sessions", c.tokenHash))
  /\ Rows({})

DeleteExpired(c) ==
  LET expired == {s \in Values("sessions") : s.expiresAt < c.now}
  IN  c.do = "deleteExpired" /\ Delete("sessions", expired) /\ Rows(expired)

\* The first active row with the key id.
RevokeByKeyId(c) ==
  LET found == {k \in Values("serviceCredentials") :
                  k.keyId = c.keyId /\ k.status = "active"}
  IN  /\ c.do = "revokeByKeyId"
      /\ \/ found = {} /\ Rows({}) /\ UNCHANGED store
         \/ \E k \in found :
              Store("serviceCredentials", [k EXCEPT !.status = "revoked"])

TryReserve(c) ==
  /\ c.do = "tryReserve"
  /\ \/ c.amount < 0 /\ Throw("INVALID")
     \/ /\ c.amount >= 0
        /\ \A w \in Get("wallets", c.userId) : w.availableBalance < c.amount
        /\ Rows({}) /\ UNCHANGED store
     \/ /\ c.amount >= 0
        /\ \E w \in Get("wallets", c.userId) :
             /\ w.availableBalance >= c.amount
             /\ Store("wallets",
                      [w EXCEPT !.availableBalance = @ - c.amount,
                                !.reservedBalance = @ + c.amount,
                                !.version = @ + 1])

\* MUTANT of Adjusted: only the available balance is looked at.
AdjustedUnlessOverdrawn(c, w, new) ==
  IF new.availableBalance < 0 THEN Throw("DB_CHECK") ELSE Store("wallets", new)

Adjusted(c, w, new) ==
  IF new.availableBalance < 0 \/ new.reservedBalance < 0
  THEN Throw("DB_CHECK")
  ELSE Store("wallets", new)

Adjust(c) ==
  LET current == {w \in Get("wallets", c.userId) :
                    c.expectedVersion \in {None, w.version}}
  IN  /\ c.do = "adjust"
      /\ \/ current = {} /\ Rows({}) /\ UNCHANGED store
         \/ \E w \in current :
              Adjusted(c, w, [w EXCEPT !.availableBalance = @ + c.available,
                                       !.reservedBalance = @ + c.reserved,
                                       !.version = @ + 1])

Transition(c) ==
  LET found == {r \in Get("reservations", c.id) : r.status \in c.from}
  IN  /\ c.do = "transition"
      /\ \/ found = {} /\ Rows({}) /\ UNCHANGED store
         \/ \E r \in found : Store("reservations", [r EXCEPT !.status = c.to])

-----------------------------------------------------------------------------
Init ==
  /\ store = [t \in Tables |-> <<>>]
  /\ call = None
  /\ answer = None

Do(c) ==
  \/ Read(c) \/ Create(c) \/ DeleteUser(c) \/ DeleteByTokenHash(c)
  \/ DeleteExpired(c) \/ RevokeByKeyId(c) \/ TryReserve(c) \/ Adjust(c)
  \/ Transition(c)

AsTables == [t \in Tables |-> Values(t)]

Schema == INSTANCE SchemaRepositories WITH
            tables <- AsTables, call <- call, answer <- answer

\* The calls for which the fakes are as strict as the schema: one that creates
\* a row violates one constraint at most, since the fakes look in another
\* order, and a ledger row is of a reservation of its user, which they do not
\* look up.
Expected(c) ==
  c.do = "create" =>
    /\ Cardinality(Schema!Violated(c.table, c.row)) <= 1
    /\ c.table = "ledger" /\ c.row.reservationId # None =>
         \E r \in Get("reservations", c.row.reservationId) :
           r.userId = c.row.userId

\* Bounds: MaxRows, MaxVersion, and balances of Amounts.
Small ==
  /\ Cardinality(UNION {{t} \X DOMAIN store[t] : t \in Tables}) <= MaxRows
  /\ \A w \in Values("wallets") :
       /\ w.version <= MaxVersion
       /\ {w.availableBalance, w.reservedBalance} \subseteq Amounts

Next ==
  \E c \in Call :
    /\ Expected(c)
    /\ call' = c
    /\ Do(c)
    /\ Small'

Spec == Init /\ [][Next]_vars

-----------------------------------------------------------------------------
StoreTypeOK ==
  \A t \in Tables : \A k \in DOMAIN store[t] :
    store[t][k] \in Row[t] /\ MapKey(t, store[t][k]) = k

\* "Enforces the SAME constraint semantics as the real schema" (memory.ts:3-6):
\* the maps, read as tables, change by the statements of postgres.ts under the
\* constraints of the schema, and every call gets the answer they give.
ImplementsSchema == Schema!Spec

\* No row outlives what it refers to: a deletion of a user takes all that is
\* the user's with it, and a ledger row never loses its reservation.
ReferencesHold ==
  \A t \in Tables : \A r \in Values(t) :
    Schema!Referenced(AsTables, t, r)

\* What is recorded about a user stays as it was first recorded while the user
\* is there, whatever is called again: identities, ledger, usage, entitlements
\* and the first touch of an acquisition; and a revoked key is never active
\* again (repos.ts:205-210).
WrittenStays ==
  [][/\ \A t \in Owned \ {"sessions", "wallets", "reservations"} :
          \A r \in Values(t) : Has("users", r.userId)' => r \in Values(t)'
     /\ \A k \in Values("serviceCredentials") :
          \E l \in Values("serviceCredentials")' :
            l.keyId = k.keyId /\ (k.status = "revoked" => l = k)]_vars
=============================================================================
