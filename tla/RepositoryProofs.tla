-------------------------- MODULE RepositoryProofs --------------------------
(***************************************************************************)
(* Proofs about MemoryRepositories: the maps of the unit tests' fakes keep *)
(* the constraints of the schema and answer as its statements do, for any  *)
(* number of rows and any sequence of calls.                               *)
(***************************************************************************)
EXTENDS MemoryRepositories, FiniteSetTheorems, TLAPS

-----------------------------------------------------------------------------
(* Tables and their maps *)

LEMMA TablesAre ==
  /\ Tables = {"users", "identities", "profiles", "sessions",
               "serviceCredentials", "wallets", "ledger", "reservations",
               "usage", "entitlements", "acquisitions"}
  /\ Owned = {"identities", "profiles", "sessions", "wallets", "ledger",
              "reservations", "usage", "entitlements", "acquisitions"}
BY DEF Tables, Owned, Row

LEMMA RowsAre ==
  /\ Row["users"] = User
  /\ Row["identities"] = Identity
  /\ Row["profiles"] = Profile
  /\ Row["sessions"] = Session
  /\ Row["serviceCredentials"] = ServiceCredential
  /\ Row["wallets"] = Wallet
  /\ Row["ledger"] = LedgerEntry
  /\ Row["reservations"] = Reservation
  /\ Row["usage"] = UsageEvent
  /\ Row["entitlements"] = Entitlement
  /\ Row["acquisitions"] = Acquisition
BY DEF Row

LEMMA KeysAre ==
  ASSUME NEW row
  PROVE  /\ \A t \in {"profiles", "wallets"} : MapKey(t, row) = row.userId
         /\ MapKey("sessions", row) = row.tokenHash
         /\ MapKey("entitlements", row) = <<row.userId, row.key>>
         /\ MapKey("acquisitions", row) = <<row.userId, row.provider>>
         /\ \A t \in {"users", "identities", "serviceCredentials", "ledger",
                      "reservations", "usage"} : MapKey(t, row) = row.id
BY DEF MapKey

\* A map is a function, whatever its keys.
IsMap(m) == m = [k \in DOMAIN m |-> m[k]]

LEMMA RangeIs ==
  ASSUME NEW map, NEW r
  PROVE  r \in Range(map) <=> \E k \in DOMAIN map : map[k] = r
BY DEF Range

-----------------------------------------------------------------------------
(* The invariant *)

IsStore ==
  /\ store = [t \in Tables |-> store[t]]
  /\ \A t \in Tables : IsMap(store[t])

OwnersAreThere ==
  \A t \in Owned : \A r \in Values(t) :
    \E u \in Values("users") : u.id = r.userId

AppsAreThere ==
  \A t \in {"sessions", "serviceCredentials"} : \A r \in Values(t) :
    r.appId \in Apps \cup {None}

\* A ledger row is of a reservation of its user, so that a deletion of the
\* user takes both.
LedgerKeepsItsUser ==
  \A l \in Values("ledger") : l.reservationId # None =>
    \E r \in Values("reservations") :
      r.id = l.reservationId /\ r.userId = l.userId

\* At most one credential for a key id, active or not.
OneCredentialPerKeyId ==
  \A k, l \in Values("serviceCredentials") : k.keyId = l.keyId => k = l

StoreInv ==
  /\ IsStore
  /\ StoreTypeOK
  /\ OwnersAreThere
  /\ AppsAreThere
  /\ LedgerKeepsItsUser
  /\ OneCredentialPerKeyId

-----------------------------------------------------------------------------
(* What a step does to the maps *)

LEMMA ValuesAre ==
  ASSUME NEW t, NEW r
  PROVE  /\ r \in Values(t) <=> \E k \in DOMAIN store[t] : store[t][k] = r
         /\ r \in Values(t)' <=> \E k \in DOMAIN store'[t] : store'[t][k] = r
BY RangeIs DEF Values

\* map.set of one table.
Puts(t, k, row) == store' = [store EXCEPT ![t] = Put(@, k, row)]

LEMMA PutStep ==
  ASSUME IsStore, NEW t \in Tables, NEW k, NEW row, Puts(t, k, row)
  PROVE  /\ IsStore'
         /\ DOMAIN store'[t] = DOMAIN store[t] \cup {k}
         /\ store'[t][k] = row
         /\ \A x \in DOMAIN store[t] \ {k} : store'[t][x] = store[t][x]
         /\ \A s \in Tables \ {t} : store'[s] = store[s]
<1>1. /\ store'[t] = Put(store[t], k, row)
      /\ \A s \in Tables \ {t} : store'[s] = store[s]
      /\ store' = [s \in Tables |-> store'[s]]
  BY DEF IsStore, Puts
<1>2. store'[t] = [x \in DOMAIN store[t] \cup {k} |->
                     IF x = k THEN row ELSE store[t][x]]
  BY <1>1 DEF Put
<1>3. IsMap(store'[t])
  BY <1>2 DEF IsMap
<1>4. IsStore'
  BY <1>1, <1>3 DEF IsStore, IsMap
<1>5. QED
  BY <1>1, <1>2, <1>4

\* A step that takes rows and changes none.
Takes ==
  \A t \in Tables :
    /\ DOMAIN store'[t] \subseteq DOMAIN store[t]
    /\ \A k \in DOMAIN store'[t] : store'[t][k] = store[t][k]

\* The map of a table without the rows that are gone.
LEMMA WithoutRows ==
  ASSUME NEW t \in Tables, NEW gone, store'[t] = Without(store[t], gone)
  PROVE  /\ IsMap(store'[t])
         /\ DOMAIN store'[t] \subseteq DOMAIN store[t]
         /\ \A k \in DOMAIN store'[t] : store'[t][k] = store[t][k]
         /\ Values(t)' = Values(t) \ gone
<1>1. store'[t] =
        [k \in {x \in DOMAIN store[t] : store[t][x] \notin gone} |->
           store[t][k]]
  BY DEF Without, Restrict
<1>2. IsMap(store'[t])
  BY <1>1 DEF IsMap
<1>3. /\ DOMAIN store'[t] = {x \in DOMAIN store[t] : store[t][x] \notin gone}
      /\ \A k \in DOMAIN store'[t] : store'[t][k] = store[t][k]
  BY <1>1
<1>4. \A r : r \in Range(store'[t]) <=> r \in Range(store[t]) \ gone
  BY <1>3, RangeIs
<1>5. Values(t)' = Values(t) \ gone
  BY <1>4 DEF Values
<1>6. QED
  BY <1>2, <1>3, <1>5

LEMMA DeleteStep ==
  ASSUME IsStore, NEW t \in Tables, NEW gone, Delete(t, gone)
  PROVE  /\ IsStore'
         /\ Takes
         /\ Values(t)' = Values(t) \ gone
         /\ \A s \in Tables \ {t} : store'[s] = store[s]
<1>1. /\ store'[t] = Without(store[t], gone)
      /\ \A s \in Tables \ {t} : store'[s] = store[s]
      /\ store' = [s \in Tables |-> store'[s]]
  BY DEF IsStore, Delete
<1>2. /\ IsMap(store'[t])
      /\ DOMAIN store'[t] \subseteq DOMAIN store[t]
      /\ \A k \in DOMAIN store'[t] : store'[t][k] = store[t][k]
      /\ Values(t)' = Values(t) \ gone
  BY <1>1, WithoutRows
<1>3. IsStore'
  BY <1>1, <1>2 DEF IsStore, IsMap
<1>4. Takes
  BY <1>1, <1>2 DEF Takes
<1>5. QED
  BY <1>1, <1>2, <1>3, <1>4

\* The rows of a user and the user.
OfUser(t, u) ==
  {r \in Values(t) : \/ t = "users" /\ r.id = u
                     \/ t \in Owned /\ r.userId = u}

LEMMA CascadeStep ==
  ASSUME NEW u, store' = Cascade(u)
  PROVE  /\ IsStore'
         /\ Takes
         /\ \A t \in Tables : Values(t)' = Values(t) \ OfUser(t, u)
<1>1. /\ store' = [s \in Tables |-> store'[s]]
      /\ \A t \in Tables : store'[t] = Without(store[t], OfUser(t, u))
  BY DEF Cascade, OfUser
<1>2. ASSUME NEW t \in Tables
      PROVE  /\ IsMap(store'[t])
             /\ DOMAIN store'[t] \subseteq DOMAIN store[t]
             /\ \A k \in DOMAIN store'[t] : store'[t][k] = store[t][k]
             /\ Values(t)' = Values(t) \ OfUser(t, u)
  BY <1>1, WithoutRows
<1>3. IsStore'
  BY <1>1, <1>2 DEF IsStore, IsMap
<1>4. QED
  BY <1>2, <1>3 DEF Takes

LEMMA PutKeepsTypes ==
  ASSUME IsStore, StoreTypeOK, NEW t \in Tables, NEW row \in Row[t],
         Puts(t, MapKey(t, row), row)
  PROVE  StoreTypeOK'
BY PutStep DEF StoreTypeOK

LEMMA TakingKeepsTypes ==
  ASSUME StoreTypeOK, Takes
  PROVE  StoreTypeOK'
BY DEF StoreTypeOK, Takes

\* A row that is there is found at its key, and nowhere else.
LEMMA RowAtItsKey ==
  ASSUME StoreTypeOK, NEW t \in Tables, NEW r
  PROVE  /\ r \in Values(t) =>
              /\ r \in Row[t]
              /\ Has(t, MapKey(t, r))
              /\ store[t][MapKey(t, r)] = r
         /\ r \in Get(t, MapKey(t, r)) <=> r \in Values(t)
BY ValuesAre DEF StoreTypeOK, Has, Get

LEMMA GetIs ==
  ASSUME StoreTypeOK, NEW t \in Tables, NEW k
  PROVE  Get(t, k) = {r \in Values(t) : MapKey(t, r) = k}
BY ValuesAre DEF StoreTypeOK, Has, Get

\* The rows after map.set: the row that had the key goes.
LEMMA PutValues ==
  ASSUME IsStore, StoreTypeOK, NEW t \in Tables, NEW row \in Row[t],
         Puts(t, MapKey(t, row), row)
  PROVE  /\ Values(t)' =
              {r \in Values(t) : MapKey(t, r) # MapKey(t, row)} \cup {row}
         /\ \A s \in Tables \ {t} : Values(s)' = Values(s)
<1>1. \A r : r \in Values(t)' <=>
        \/ r \in Values(t) /\ MapKey(t, r) # MapKey(t, row)
        \/ r = row
  BY PutStep, ValuesAre DEF StoreTypeOK
<1>2. \A s \in Tables \ {t} : Values(s)' = Values(s)
  BY PutStep DEF Values
<1>3. QED
  BY <1>1, <1>2

-----------------------------------------------------------------------------
(* The guards of a create *)

Failed(t, row) == {i \in DOMAIN Guards(t, row) : ~Guards(t, row)[i][1]}

LEMMA GuardsAre ==
  ASSUME NEW row
  PROVE  /\ Guards("users", row) = <<>>
         /\ Guards("identities", row) = IdentityGuards(row)
         /\ Guards("profiles", row) = ProfileGuards(row)
         /\ Guards("sessions", row) = SessionGuards(row)
         /\ Guards("serviceCredentials", row) = CredentialGuards(row)
         /\ Guards("wallets", row) = WalletGuards(row)
         /\ Guards("ledger", row) = LedgerGuards(row)
         /\ Guards("reservations", row) = ReservationGuards(row)
         /\ \A t \in {"usage", "entitlements", "acquisitions"} :
              Guards(t, row) = <<UserKnown(row)>>
BY DEF Guards

\* There are five guards at most, so that one of the failed ones is the first.
LEMMA FirstFailed ==
  ASSUME NEW S, S \subseteq 1 .. 5, S # {}
  PROVE  Min(S) \in S
<1>1. \E x \in S : \A y \in S : x <= y
  <2>1. CASE 1 \in S
    BY <2>1
  <2>2. CASE 1 \notin S /\ 2 \in S
    BY <2>2
  <2>3. CASE 1 \notin S /\ 2 \notin S /\ 3 \in S
    BY <2>3
  <2>4. CASE 1 \notin S /\ 2 \notin S /\ 3 \notin S /\ 4 \in S
    BY <2>4
  <2>5. CASE 1 \notin S /\ 2 \notin S /\ 3 \notin S /\ 4 \notin S
    <3>1. ASSUME NEW x \in S PROVE x = 5
      <4>1. x \in 1 .. 5
        OBVIOUS
      <4>2. x # 1 /\ x # 2 /\ x # 3 /\ x # 4
        BY <2>5
      <4>3. QED
        BY <4>1, <4>2
    <3>2. PICK x \in S : TRUE
      OBVIOUS
    <3>3. QED
      BY <3>1, <3>2
  <2>6. QED
    BY <2>1, <2>2, <2>3, <2>4, <2>5
<1>2. QED
  BY <1>1 DEF Min

LEMMA GuardsAreFew ==
  ASSUME NEW row
  PROVE  /\ DOMAIN Guards("users", row) = {}
         /\ DOMAIN Guards("identities", row) = 1 .. 2
         /\ DOMAIN Guards("profiles", row) = 1 .. 2
         /\ DOMAIN Guards("sessions", row) = 1 .. 5
         /\ DOMAIN Guards("serviceCredentials", row) = 1 .. 3
         /\ DOMAIN Guards("wallets", row) = 1 .. 2
         /\ DOMAIN Guards("ledger", row) = 1 .. 2
         /\ DOMAIN Guards("reservations", row) = 1 .. 3
         /\ \A t \in {"usage", "entitlements", "acquisitions"} :
              DOMAIN Guards(t, row) = 1 .. 1
<1>1. /\ DOMAIN IdentityGuards(row) = 1 .. 2
      /\ DOMAIN ProfileGuards(row) = 1 .. 2
      /\ DOMAIN SessionGuards(row) = 1 .. 5
      /\ DOMAIN CredentialGuards(row) = 1 .. 3
      /\ DOMAIN WalletGuards(row) = 1 .. 2
      /\ DOMAIN LedgerGuards(row) = 1 .. 2
      /\ DOMAIN ReservationGuards(row) = 1 .. 3
  BY DEF IdentityGuards, ProfileGuards, SessionGuards, CredentialGuards,
    WalletGuards, LedgerGuards, ReservationGuards
<1>2. QED
  BY <1>1, GuardsAre

LEMMA FailedIsFew ==
  ASSUME NEW t \in Tables, NEW row
  PROVE  Failed(t, row) \subseteq 1 .. 5
<1>1. \E n \in 0 .. 5 : DOMAIN Guards(t, row) = 1 .. n
  <2>1. CASE t = "users"
    BY <2>1, GuardsAreFew
  <2>2. CASE t \in {"usage", "entitlements", "acquisitions"}
    BY <2>2, GuardsAreFew
  <2>3. CASE t \in {"identities", "profiles", "wallets", "ledger"}
    BY <2>3, GuardsAreFew
  <2>4. CASE t \in {"sessions", "serviceCredentials", "reservations"}
    BY <2>4, GuardsAreFew
  <2>5. QED
    BY <2>1, <2>2, <2>3, <2>4, TablesAre
<1>2. QED
  BY <1>1 DEF Failed

LEMMA InsertIs ==
  ASSUME NEW t \in Tables, NEW row, Insert(t, row)
  PROVE  \/ Failed(t, row) = {} /\ Store(t, row)
         \/ \E i \in Failed(t, row) : Throw(Guards(t, row)[i][2])
BY FailedIsFew, FirstFailed DEF Insert, Failed

\* What the guards of each table stand for.
Admitted(t, row) ==
  /\ t \in Owned => row.userId \in DOMAIN store["users"]
  /\ t \in {"profiles", "sessions", "wallets"} => ~Has(t, MapKey(t, row))
  /\ t = "sessions" =>
       /\ (row.sessionType = "account") <=> (row.appId = None)
       /\ row.appId \in Apps \cup {None}
  /\ t = "serviceCredentials" =>
       /\ row.appId \in Apps
       /\ row.keyId \notin BadKeyIds
       /\ \A k \in Values(t) : k.keyId # row.keyId
  /\ t = "identities" =>
       \A r \in Values(t) : \/ r.provider # row.provider
                            \/ r.providerUserId # row.providerUserId
  /\ t = "ledger" =>
       \A r \in Values(t) : \/ r.userId # row.userId
                            \/ r.idempotencyKey # row.idempotencyKey
  /\ t = "reservations" =>
       /\ row.amount >= 0
       /\ \A r \in Values(t) : \/ r.userId # row.userId
                               \/ r.requestId # row.requestId

LEMMA NewIs ==
  ASSUME NEW t, NEW row, NEW columns
  PROVE  New(t, row, columns)[1] <=>
           \A r \in Values(t) : \E c \in columns : r[c] # row[c]
BY DEF New

LEMMA GuardsHold ==
  ASSUME NEW t \in Tables, NEW row \in NewRow[t], Failed(t, row) = {}
  PROVE  Admitted(t, row)
<1> DEFINE guards == Guards(t, row)
<1>1. \A i \in DOMAIN guards : guards[i][1]
  BY DEF Failed
<1>2. UserKnown(row)[1] => row.userId \in DOMAIN store["users"]
  BY DEF UserKnown
<1>3. Fresh(t, row)[1] => ~Has(t, MapKey(t, row))
  BY DEF Fresh
<1>4. CASE t = "users"
  BY <1>4, TablesAre DEF Admitted
<1>5. CASE t \in {"usage", "entitlements", "acquisitions"}
  <2>1. 1 \in DOMAIN guards /\ guards[1] = UserKnown(row)
    BY <1>5, GuardsAre, GuardsAreFew
  <2>2. QED
    BY <1>1, <1>2, <1>5, <2>1 DEF Admitted
<1>6. CASE t = "identities"
  <2>1. /\ 1 \in DOMAIN guards /\ guards[1] = UserKnown(row)
        /\ 2 \in DOMAIN guards
        /\ guards[2] = New(t, row, {"provider", "providerUserId"})
    BY <1>6, GuardsAre, GuardsAreFew DEF IdentityGuards
  <2>2. \A r \in Values(t) : \E c \in {"provider", "providerUserId"} :
          r[c] # row[c]
    <3>1. New(t, row, {"provider", "providerUserId"})[1]
      BY <1>1, <2>1
    <3>2. QED
      BY <3>1, NewIs
  <2>3. QED
    BY <1>1, <1>2, <1>6, <2>1, <2>2 DEF Admitted
<1>7. CASE t \in {"profiles", "wallets"}
  <2>1. /\ 1 \in DOMAIN guards /\ guards[1] = UserKnown(row)
        /\ 2 \in DOMAIN guards /\ guards[2] = Fresh(t, row)
    BY <1>7, GuardsAre, GuardsAreFew DEF ProfileGuards, WalletGuards
  <2>2. QED
    BY <1>1, <1>2, <1>3, <1>7, <2>1 DEF Admitted
<1>8. CASE t = "sessions"
  <2>1. 1 .. 5 \subseteq DOMAIN guards /\ guards = SessionGuards(row)
    BY <1>8, GuardsAre, GuardsAreFew
  <2>2. /\ guards[1] = UserKnown(row)
        /\ guards[2] = Fresh(t, row)
        /\ guards[3][1] <=> (row.sessionType = "account" => row.appId = None)
        /\ guards[4][1] <=> (row.sessionType = "app" => row.appId # None)
        /\ guards[5][1] <=> row.appId \in Apps \cup {None}
    <3>1. /\ SessionGuards(row)[1] = UserKnown(row)
          /\ SessionGuards(row)[2] = Fresh("sessions", row)
          /\ SessionGuards(row)[3][1] <=>
               (row.sessionType = "account" => row.appId = None)
          /\ SessionGuards(row)[4][1] <=>
               (row.sessionType = "app" => row.appId # None)
          /\ SessionGuards(row)[5][1] <=> row.appId \in Apps \cup {None}
      BY DEF SessionGuards
    <3>2. QED
      BY <1>8, <2>1, <3>1
  <2>3. row.sessionType \in {"account", "app"}
    BY <1>8 DEF NewRow, Row, Session
  <2>4. \A i \in 1 .. 5 : guards[i][1]
    BY <1>1, <2>1
  <2>5. QED
    BY <1>2, <1>3, <1>8, <2>2, <2>3, <2>4 DEF Admitted
<1>9. CASE t = "serviceCredentials"
  <2>1. /\ 1 .. 3 \subseteq DOMAIN guards
        /\ guards[1][1] <=> row.appId \in Apps
        /\ guards[2] = New(t, row, {"keyId"})
        /\ guards[3][1] <=> row.keyId \notin BadKeyIds
    <3>1. 1 .. 3 \subseteq DOMAIN guards /\ guards = CredentialGuards(row)
      BY <1>9, GuardsAre, GuardsAreFew
    <3>2. /\ CredentialGuards(row)[1][1] <=> row.appId \in Apps
          /\ CredentialGuards(row)[2] = New("serviceCredentials", row, {"keyId"})
          /\ CredentialGuards(row)[3][1] <=> row.keyId \notin BadKeyIds
      BY DEF CredentialGuards
    <3>3. QED
      BY <1>9, <3>1, <3>2
  <2>2. \A r \in Values(t) : \E c \in {"keyId"} :
          r[c] # row[c]
    <3>1. New(t, row, {"keyId"})[1]
      BY <1>1, <2>1
    <3>2. QED
      BY <3>1, NewIs
  <2>3. t \notin Owned
    BY <1>9, TablesAre
  <2>4. QED
    BY <1>1, <1>9, <2>1, <2>2, <2>3 DEF Admitted
<1>10. CASE t = "ledger"
  <2>1. /\ 1 \in DOMAIN guards /\ guards[1] = UserKnown(row)
        /\ 2 \in DOMAIN guards
        /\ guards[2] = New(t, row, {"userId", "idempotencyKey"})
    BY <1>10, GuardsAre, GuardsAreFew DEF LedgerGuards
  <2>2. \A r \in Values(t) : \E c \in {"userId", "idempotencyKey"} :
          r[c] # row[c]
    <3>1. New(t, row, {"userId", "idempotencyKey"})[1]
      BY <1>1, <2>1
    <3>2. QED
      BY <3>1, NewIs
  <2>3. QED
    BY <1>1, <1>2, <1>10, <2>1, <2>2 DEF Admitted
<1>11. CASE t = "reservations"
  <2>1. /\ 1 .. 3 \subseteq DOMAIN guards
        /\ guards[1] = UserKnown(row)
        /\ guards[2][1] <=> row.amount >= 0
        /\ guards[3] = New(t, row, {"userId", "requestId"})
    <3>1. 1 .. 3 \subseteq DOMAIN guards /\ guards = ReservationGuards(row)
      BY <1>11, GuardsAre, GuardsAreFew
    <3>2. /\ ReservationGuards(row)[1] = UserKnown(row)
          /\ ReservationGuards(row)[2][1] <=> row.amount >= 0
          /\ ReservationGuards(row)[3] =
               New("reservations", row, {"userId", "requestId"})
      BY DEF ReservationGuards
    <3>3. QED
      BY <1>11, <3>1, <3>2
  <2>2. \A r \in Values(t) : \E c \in {"userId", "requestId"} :
          r[c] # row[c]
    <3>1. New(t, row, {"userId", "requestId"})[1]
      BY <1>1, <2>1
    <3>2. QED
      BY <3>1, NewIs
  <2>3. QED
    BY <1>1, <1>2, <1>11, <2>1, <2>2 DEF Admitted
<1>12. QED
  BY <1>4, <1>5, <1>6, <1>7, <1>8, <1>9, <1>10, <1>11, TablesAre

-----------------------------------------------------------------------------
(* The kinds of steps *)

LEMMA NewRowsAre ==
  /\ NewRow["serviceCredentials"] = {r \in ServiceCredential :
                                       r.status = "active"}
  /\ NewRow["wallets"] = {NewWallet(u) : u \in UserIds}
  /\ NewRow["reservations"] =
       [id : Ids, userId : UserIds, amount : Amounts, status : {"reserved"},
        requestId : Keys]
  /\ \A t \in Tables \ {"serviceCredentials", "wallets", "reservations"} :
       NewRow[t] = Row[t]
BY DEF NewRow, Row, Tables

LEMMA AdmittedTyped ==
  ASSUME NEW t \in Tables, NEW row \in NewRow[t], Admitted(t, row)
  PROVE  row \in Row[t]
<1>1. CASE t = "serviceCredentials"
  BY <1>1, NewRowsAre, RowsAre
<1>2. CASE t = "wallets"
  BY <1>2, NewRowsAre, RowsAre DEF NewWallet, Wallet
<1>3. CASE t = "reservations"
  <2>1. row.amount \in Nat
    <3>1. row.amount \in Amounts /\ row.amount >= 0
      BY <1>3, NewRowsAre DEF Admitted
    <3>2. row.amount \in Int
      BY <3>1, RegistryAssumption
    <3>3. QED
      BY <3>1, <3>2
  <2>2. QED
    BY <1>3, <2>1, NewRowsAre, RowsAre DEF Reservation, ReservationStatus
<1>4. CASE t \in Tables \ {"serviceCredentials", "wallets", "reservations"}
  BY <1>4, NewRowsAre
<1>5. QED
  BY <1>1, <1>2, <1>3, <1>4

\* A new row, of a reservation of its user when it is a ledger row.
Adds(t, row) ==
  /\ Puts(t, MapKey(t, row), row)
  /\ Admitted(t, row)
  /\ ~Has(t, MapKey(t, row))
  /\ t = "ledger" /\ row.reservationId # None =>
       \E r \in Get("reservations", row.reservationId) : r.userId = row.userId

\* A row takes the place of its former self.
Replaces(t, old, row) ==
  /\ Puts(t, MapKey(t, row), row)
  /\ \/ /\ t \in {"wallets", "reservations"}
        /\ row.userId = old.userId
        /\ t = "reservations" => row.id = old.id
     \/ /\ t = "serviceCredentials"
        /\ old.status = "active"
        /\ row.id = old.id /\ row.keyId = old.keyId /\ row.appId = old.appId

Kind ==
  \/ UNCHANGED store
  \/ \E t \in Tables : \E row \in Row[t] : Adds(t, row)
  \/ \E t \in Tables : \E old \in Values(t), row \in Row[t] :
       Replaces(t, old, row)
  \/ \E gone : Delete("sessions", gone)
  \/ \E u \in UserIds : store' = Cascade(u)

LEMMA CallIs ==
  ASSUME NEW c \in Call
  PROVE  /\ c.do = "read" => c.table \in Tables /\ c.where \in Where(c.table)
         /\ c.do = "create" => c.table \in Tables /\ c.row \in NewRow[c.table]
         /\ c.do = "deleteUser" => c.id \in UserIds
         /\ c.do = "tryReserve" => c.amount \in Int
         /\ c.do = "adjust" =>
              /\ c.available \in Int /\ c.reserved \in Int
              /\ c.expectedVersion \in Versions \cup {None}
         /\ c.do = "transition" => c.id \in Ids /\ c.to \in ReservationStatus
<1>1. CASE c \in Reads
  BY <1>1 DEF Reads
<1>2. CASE c \in Creates
  BY <1>2 DEF Creates
<1>3. CASE c \in Updates
  BY <1>3, RegistryAssumption DEF Updates
<1>4. QED
  BY <1>1, <1>2, <1>3 DEF Call

LEMMA RowHasId ==
  ASSUME NEW t \in {"users", "identities", "serviceCredentials", "ledger",
                    "reservations", "usage"},
         NEW row \in NewRow[t]
  PROVE  "id" \in DOMAIN row
<1>1. CASE t = "users"
  <2>1. row \in User
    BY <1>1, NewRowsAre, RowsAre, TablesAre
  <2>2. QED
    BY <2>1 DEF User
<1>2. CASE t = "identities"
  <2>1. row \in Identity
    BY <1>2, NewRowsAre, RowsAre, TablesAre
  <2>2. QED
    BY <2>1 DEF Identity
<1>3. CASE t = "ledger"
  <2>1. row \in LedgerEntry
    BY <1>3, NewRowsAre, RowsAre, TablesAre
  <2>2. QED
    BY <2>1 DEF LedgerEntry
<1>4. CASE t = "usage"
  <2>1. row \in UsageEvent
    BY <1>4, NewRowsAre, RowsAre, TablesAre
  <2>2. QED
    BY <2>1 DEF UsageEvent
<1>5. CASE t = "serviceCredentials"
  BY <1>5, NewRowsAre DEF ServiceCredential
<1>6. CASE t = "reservations"
  <2>1. row \in [id : Ids, userId : UserIds, amount : Amounts,
                 status : {"reserved"}, requestId : Keys]
    BY <1>6, NewRowsAre
  <2>2. QED
    BY <2>1
<1>7. QED
  BY <1>1, <1>2, <1>3, <1>4, <1>5, <1>6

LEMMA CreateKind ==
  ASSUME NEW c \in Call, Expected(c), Create(c), store' # store
  PROVE  c.row \in Row[c.table] /\ Adds(c.table, c.row)
<1> DEFINE t == c.table
           row == c.row
<1>1. c.do = "create" /\ t \in Tables /\ row \in NewRow[t]
  BY CallIs DEF Create
<1>2. Insert(t, row)
  BY DEF Create, GetOrInsert
<1>3. Failed(t, row) = {} /\ Store(t, row)
  BY <1>1, <1>2, InsertIs DEF Throw
<1>4. Admitted(t, row) /\ row \in Row[t] /\ Puts(t, MapKey(t, row), row)
  BY <1>1, <1>3, GuardsHold, AdmittedTyped DEF Store, Puts
<1>5. ~Has(t, MapKey(t, row))
  <2>1. CASE t \in {"users", "identities", "serviceCredentials", "ledger",
                    "reservations", "usage"}
    BY <1>1, <2>1, RowHasId, KeysAre DEF Create
  <2>2. CASE t \in {"profiles", "sessions", "wallets"}
    BY <1>4, <2>2 DEF Admitted
  <2>3. CASE t \in {"entitlements", "acquisitions"}
    <3>1. row.userId \in DOMAIN store["users"]
      BY <1>4, <2>3, TablesAre DEF Admitted
    <3>2. QED
      BY <2>3, <3>1 DEF Create, GetOrInsert
  <2>4. QED
    BY <1>1, <2>1, <2>2, <2>3, TablesAre
<1>6. t = "ledger" /\ row.reservationId # None =>
        \E r \in Get("reservations", row.reservationId) :
          r.userId = row.userId
  BY <1>1 DEF Expected
<1>7. QED
  BY <1>4, <1>5, <1>6 DEF Adds

\* What tryReserve and adjust make of a wallet.
Spent(w, a) ==
  [w EXCEPT !.availableBalance = @ - a, !.reservedBalance = @ + a,
            !.version = @ + 1]

Moved(w, a, b) ==
  [w EXCEPT !.availableBalance = @ + a, !.reservedBalance = @ + b,
            !.version = @ + 1]

LEMMA MovedWallet ==
  ASSUME NEW w \in Wallet, NEW a \in Int, NEW b \in Int,
         Moved(w, a, b).availableBalance >= 0,
         Moved(w, a, b).reservedBalance >= 0
  PROVE  Moved(w, a, b) \in Wallet /\ Moved(w, a, b).userId = w.userId
<1> DEFINE x == [w EXCEPT !.availableBalance = w.availableBalance + a]
           y == [x EXCEPT !.reservedBalance = x.reservedBalance + b]
           z == [y EXCEPT !.version = y.version + 1]
<1>1. /\ x \in [userId : UserIds, availableBalance : Int,
                reservedBalance : Nat, version : Nat]
      /\ x.userId = w.userId
  BY DEF Wallet
<1> HIDE DEF x
<1>2. /\ y \in [userId : UserIds, availableBalance : Int,
                reservedBalance : Int, version : Nat]
      /\ y.userId = w.userId
  BY <1>1
<1> HIDE DEF y
<1>3. /\ z \in [userId : UserIds, availableBalance : Int,
                reservedBalance : Int, version : Nat]
      /\ z.userId = w.userId
  BY <1>2
<1>4. z = Moved(w, a, b)
  BY DEF Moved, x, y
<1> HIDE DEF z
<1>5. z.availableBalance >= 0 /\ z.reservedBalance >= 0
  BY <1>4
<1>6. z \in Wallet
  BY <1>3, <1>5 DEF Wallet
<1>7. QED
  BY <1>3, <1>4, <1>6

LEMMA SpentWallet ==
  ASSUME NEW w \in Wallet, NEW a \in Nat, w.availableBalance >= a
  PROVE  Spent(w, a) \in Wallet /\ Spent(w, a).userId = w.userId
<1> DEFINE x == [w EXCEPT !.availableBalance = w.availableBalance - a]
           y == [x EXCEPT !.reservedBalance = x.reservedBalance + a]
           z == [y EXCEPT !.version = y.version + 1]
<1>1. x \in Wallet /\ x.userId = w.userId
  BY DEF Wallet
<1> HIDE DEF x
<1>2. y \in Wallet /\ y.userId = w.userId
  BY <1>1 DEF Wallet
<1> HIDE DEF y
<1>3. z \in Wallet /\ z.userId = w.userId
  BY <1>2 DEF Wallet
<1>4. z = Spent(w, a)
  BY DEF Spent, x, y
<1>5. QED
  BY <1>3, <1>4

LEMMA TryReserveKind ==
  ASSUME StoreTypeOK, NEW c \in Call, TryReserve(c), store' # store
  PROVE  \E old \in Values("wallets"), row \in Row["wallets"] :
           Replaces("wallets", old, row)
<1>1. c.amount \in Int /\ "wallets" \in Tables
  BY CallIs, TablesAre DEF TryReserve
<1> DEFINE new(w) == Spent(w, c.amount)
<1>2. PICK w \in Get("wallets", c.userId) :
        /\ c.amount >= 0
        /\ w.availableBalance >= c.amount
        /\ Store("wallets", new(w))
  BY DEF TryReserve, Throw, Spent
<1>3. w \in Values("wallets") /\ w \in Wallet
  BY <1>1, <1>2, GetIs, RowAtItsKey, RowsAre
<1>4. new(w) \in Wallet /\ new(w).userId = w.userId
  BY <1>1, <1>2, <1>3, SpentWallet
<1> HIDE DEF new
<1>5. Puts("wallets", MapKey("wallets", new(w)), new(w))
  BY <1>2 DEF Store, Puts
<1>6. Replaces("wallets", w, new(w))
  BY <1>4, <1>5 DEF Replaces
<1>7. QED
  BY <1>3, <1>4, <1>6, RowsAre

LEMMA AdjustKind ==
  ASSUME StoreTypeOK, NEW c \in Call, Adjust(c), store' # store
  PROVE  \E old \in Values("wallets"), row \in Row["wallets"] :
           Replaces("wallets", old, row)
<1>1. c.available \in Int /\ c.reserved \in Int /\ "wallets" \in Tables
  BY CallIs, TablesAre DEF Adjust
<1> DEFINE new(w) == Moved(w, c.available, c.reserved)
<1>2. PICK w \in Get("wallets", c.userId) : Adjusted(c, w, new(w))
  BY DEF Adjust, Moved
<1>3. w \in Values("wallets") /\ w \in Wallet
  BY <1>1, <1>2, GetIs, RowAtItsKey, RowsAre
<1>4. /\ ~(new(w).availableBalance < 0 \/ new(w).reservedBalance < 0)
      /\ Store("wallets", new(w))
  BY <1>2 DEF Adjusted, Throw
<1>5. new(w).availableBalance \in Int /\ new(w).reservedBalance \in Int
  BY <1>1, <1>3 DEF Moved, Wallet
<1>6. new(w) \in Wallet /\ new(w).userId = w.userId
  BY <1>1, <1>3, <1>4, <1>5, MovedWallet
<1>7. Puts("wallets", MapKey("wallets", new(w)), new(w))
  BY <1>4 DEF Store, Puts
<1>8. Replaces("wallets", w, new(w))
  BY <1>6, <1>7 DEF Replaces
<1>9. QED
  BY <1>3, <1>6, <1>8, RowsAre

LEMMA TransitionKind ==
  ASSUME StoreTypeOK, NEW c \in Call, Transition(c), store' # store
  PROVE  \E old \in Values("reservations"), row \in Row["reservations"] :
           Replaces("reservations", old, row)
<1>1. c.to \in ReservationStatus /\ "reservations" \in Tables
  BY CallIs, TablesAre DEF Transition
<1> DEFINE new(r) == [r EXCEPT !.status = c.to]
<1>2. PICK r \in Get("reservations", c.id) : Store("reservations", new(r))
  BY DEF Transition
<1>3. r \in Values("reservations") /\ r \in Reservation
  BY <1>1, <1>2, GetIs, RowAtItsKey, RowsAre
<1>4. /\ new(r) \in Reservation
      /\ new(r).userId = r.userId /\ new(r).id = r.id
  BY <1>1, <1>3 DEF Reservation
<1> HIDE DEF new
<1>5. Puts("reservations", MapKey("reservations", new(r)), new(r))
  BY <1>2 DEF Store, Puts
<1>6. Replaces("reservations", r, new(r))
  BY <1>4, <1>5 DEF Replaces
<1>7. QED
  BY <1>3, <1>4, <1>6, RowsAre

LEMMA RevokeKind ==
  ASSUME StoreTypeOK, NEW c \in Call, RevokeByKeyId(c), store' # store
  PROVE  \E old \in Values("serviceCredentials"),
            row \in Row["serviceCredentials"] :
           Replaces("serviceCredentials", old, row)
<1>1. "serviceCredentials" \in Tables
  BY TablesAre
<1> DEFINE new(k) == [k EXCEPT !.status = "revoked"]
<1>2. PICK k \in Values("serviceCredentials") :
        k.status = "active" /\ Store("serviceCredentials", new(k))
  BY DEF RevokeByKeyId
<1>3. k \in ServiceCredential
  BY <1>1, <1>2, RowAtItsKey, RowsAre
<1>4. /\ new(k) \in ServiceCredential
      /\ new(k).id = k.id /\ new(k).keyId = k.keyId /\ new(k).appId = k.appId
  BY <1>3 DEF ServiceCredential
<1> HIDE DEF new
<1>5. Puts("serviceCredentials", MapKey("serviceCredentials", new(k)), new(k))
  BY <1>2 DEF Store, Puts
<1>6. Replaces("serviceCredentials", k, new(k))
  BY <1>2, <1>4, <1>5 DEF Replaces
<1>7. QED
  BY <1>2, <1>4, <1>6, RowsAre

LEMMA StepKind ==
  ASSUME StoreTypeOK, [Next]_vars
  PROVE  Kind
<1>1. CASE store' = store
  BY <1>1 DEF Kind
<1>2. CASE store' # store
  <2>1. PICK c \in Call : Expected(c) /\ Do(c)
    BY <1>2 DEF Next, vars
  <2>2. ~Read(c)
    BY <1>2 DEF Read
  <2>3. CASE Create(c)
    <3>1. c.table \in Tables
      BY <2>3, CallIs DEF Create
    <3>2. QED
      BY <1>2, <2>1, <2>3, <3>1, CreateKind DEF Kind
  <2>4. CASE TryReserve(c) \/ Adjust(c)
    BY <1>2, <2>4, TryReserveKind, AdjustKind, TablesAre DEF Kind
  <2>5. CASE Transition(c)
    BY <1>2, <2>5, TransitionKind, TablesAre DEF Kind
  <2>6. CASE RevokeByKeyId(c)
    BY <1>2, <2>6, RevokeKind, TablesAre DEF Kind
  <2>7. CASE DeleteUser(c)
    BY <2>7, CallIs DEF Kind, DeleteUser
  <2>8. CASE DeleteByTokenHash(c)
    BY <2>8 DEF Kind, DeleteByTokenHash
  <2>9. CASE DeleteExpired(c)
    BY <2>9 DEF Kind, DeleteExpired
  <2>10. QED
    BY <2>1, <2>2, <2>3, <2>4, <2>5, <2>6, <2>7, <2>8, <2>9 DEF Do
<1>3. QED
  BY <1>1, <1>2

-----------------------------------------------------------------------------
(* The invariant is kept *)

LEMMA UserIsThere ==
  ASSUME StoreTypeOK, NEW u
  PROVE  u \in DOMAIN store["users"] <=> \E x \in Values("users") : x.id = u
<1>1. "users" \in Tables
  BY TablesAre
<1>2. \A k \in DOMAIN store["users"] : store["users"][k].id = k
  BY <1>1, KeysAre DEF StoreTypeOK
<1>3. QED
  BY <1>2, ValuesAre

LEMMA AddedValues ==
  ASSUME IsStore, StoreTypeOK, NEW t \in Tables, NEW row \in Row[t],
         Adds(t, row)
  PROVE  /\ Values(t)' = Values(t) \cup {row}
         /\ \A s \in Tables \ {t} : Values(s)' = Values(s)
<1>1. \A r \in Values(t) : MapKey(t, r) # MapKey(t, row)
  BY RowAtItsKey DEF Adds
<1>2. QED
  BY <1>1, PutValues DEF Adds

LEMMA AddKeeps ==
  ASSUME StoreInv, NEW t \in Tables, NEW row \in Row[t], Adds(t, row)
  PROVE  StoreInv'
<1>1. IsStore' /\ StoreTypeOK'
  BY PutStep, PutKeepsTypes DEF StoreInv, Adds
<1>2. /\ Values(t)' = Values(t) \cup {row}
      /\ \A s \in Tables \ {t} : Values(s)' = Values(s)
  BY AddedValues DEF StoreInv
<1>3. \A s \in Tables : Values(s) \subseteq Values(s)'
  BY <1>2
<1>4. "users" \in Tables /\ Owned \subseteq Tables
  BY TablesAre
<1>5. ASSUME NEW s \in Owned, NEW r \in Values(s)'
      PROVE  \E u \in Values("users")' : u.id = r.userId
  <2>1. CASE r \in Values(s)
    BY <1>3, <1>4, <2>1 DEF StoreInv, OwnersAreThere
  <2>2. CASE s = t /\ r = row
    <3>1. row.userId \in DOMAIN store["users"]
      BY <2>2 DEF Adds, Admitted
    <3>2. \E u \in Values("users") : u.id = r.userId
      BY <2>2, <3>1, UserIsThere DEF StoreInv
    <3>3. QED
      BY <1>3, <1>4, <3>2
  <2>3. QED
    BY <1>2, <1>4, <2>1, <2>2
<1>6. ASSUME NEW s \in {"sessions", "serviceCredentials"},
             NEW r \in Values(s)'
      PROVE  r.appId \in Apps \cup {None}
  <2>1. s \in Tables
    BY TablesAre
  <2>2. CASE r \in Values(s)
    BY <2>2 DEF StoreInv, AppsAreThere
  <2>3. CASE s = t /\ r = row
    BY <2>3 DEF Adds, Admitted
  <2>4. QED
    BY <1>2, <2>1, <2>2, <2>3
<1>7. "ledger" \in Tables /\ "reservations" \in Tables
      /\ "serviceCredentials" \in Tables
  BY TablesAre
<1>8. ASSUME NEW l \in Values("ledger")', l.reservationId # None
      PROVE  \E r \in Values("reservations")' :
               r.id = l.reservationId /\ r.userId = l.userId
  <2>1. \E r \in Values("reservations") :
          r.id = l.reservationId /\ r.userId = l.userId
    <3>1. CASE l \in Values("ledger")
      BY <1>8, <3>1 DEF StoreInv, LedgerKeepsItsUser
    <3>2. CASE t = "ledger" /\ l = row
      <4>1. PICK r \in Get("reservations", l.reservationId) :
              r.userId = l.userId
        BY <1>8, <3>2 DEF Adds
      <4>2. r \in Values("reservations") /\ r.id = l.reservationId
        BY <1>7, <4>1, GetIs, KeysAre DEF StoreInv
      <4>3. QED
        BY <4>1, <4>2
    <3>3. QED
      BY <1>2, <1>7, <3>1, <3>2
  <2>2. QED
    BY <1>3, <1>7, <2>1
<1>9. ASSUME NEW k \in Values("serviceCredentials")',
             NEW l \in Values("serviceCredentials")', k.keyId = l.keyId
      PROVE  k = l
  <2>1. CASE t = "serviceCredentials"
    BY <1>2, <1>9, <2>1 DEF StoreInv, OneCredentialPerKeyId, Adds, Admitted
  <2>2. CASE t # "serviceCredentials"
    BY <1>2, <1>7, <1>9, <2>2 DEF StoreInv, OneCredentialPerKeyId
  <2>3. QED
    BY <2>1, <2>2
<1>10. /\ OwnersAreThere' /\ AppsAreThere' /\ LedgerKeepsItsUser'
       /\ OneCredentialPerKeyId'
  BY <1>5, <1>6, <1>8, <1>9 DEF OwnersAreThere, AppsAreThere,
    LedgerKeepsItsUser, OneCredentialPerKeyId
<1>11. QED
  BY <1>1, <1>10 DEF StoreInv

LEMMA ReplacedValues ==
  ASSUME IsStore, StoreTypeOK, NEW t \in Tables, NEW old \in Values(t),
         NEW row \in Row[t], Replaces(t, old, row)
  PROVE  /\ Values(t)' = (Values(t) \ {old}) \cup {row}
         /\ \A s \in Tables \ {t} : Values(s)' = Values(s)
<1>1. MapKey(t, row) = MapKey(t, old)
  BY KeysAre DEF Replaces
<1>2. \A r \in Values(t) : MapKey(t, r) = MapKey(t, old) <=> r = old
  BY RowAtItsKey
<1>3. /\ Values(t)' =
           {r \in Values(t) : MapKey(t, r) # MapKey(t, row)} \cup {row}
      /\ \A s \in Tables \ {t} : Values(s)' = Values(s)
  BY PutValues DEF Replaces
<1>4. QED
  BY <1>1, <1>2, <1>3

LEMMA ReplaceKeeps ==
  ASSUME StoreInv, NEW t \in Tables, NEW old \in Values(t),
         NEW row \in Row[t], Replaces(t, old, row)
  PROVE  StoreInv'
<1>1. IsStore' /\ StoreTypeOK'
  BY PutStep, PutKeepsTypes DEF StoreInv, Replaces
<1>2. /\ Values(t)' = (Values(t) \ {old}) \cup {row}
      /\ \A s \in Tables \ {t} : Values(s)' = Values(s)
  BY ReplacedValues DEF StoreInv
<1>3. /\ t \in {"wallets", "reservations", "serviceCredentials"}
      /\ t # "serviceCredentials" => row.userId = old.userId
      /\ t = "reservations" => row.id = old.id
      /\ t = "serviceCredentials" =>
           row.keyId = old.keyId /\ row.appId = old.appId
  BY DEF Replaces
<1>4. /\ Owned \subseteq Tables
      /\ {"users", "sessions", "serviceCredentials", "ledger",
          "reservations"} \subseteq Tables
      /\ "serviceCredentials" \notin Owned
  BY TablesAre
<1>5. Values("users")' = Values("users") /\ Values("ledger")' = Values("ledger")
      /\ Values("sessions")' = Values("sessions")
  BY <1>2, <1>3, <1>4
<1>6. ASSUME NEW s \in Owned, NEW r \in Values(s)'
      PROVE  \E u \in Values("users")' : u.id = r.userId
  <2>1. CASE r \in Values(s)
    BY <1>5, <2>1 DEF StoreInv, OwnersAreThere
  <2>2. CASE s = t /\ r = row
    <3>1. r.userId = old.userId
      BY <1>3, <1>4, <2>2
    <3>2. QED
      BY <1>5, <2>2, <3>1 DEF StoreInv, OwnersAreThere
  <2>3. QED
    BY <1>2, <1>4, <2>1, <2>2
<1>7. ASSUME NEW s \in {"sessions", "serviceCredentials"},
             NEW r \in Values(s)'
      PROVE  r.appId \in Apps \cup {None}
  <2>1. CASE r \in Values(s)
    BY <2>1 DEF StoreInv, AppsAreThere
  <2>2. CASE s = t /\ r = row
    BY <1>3, <2>2 DEF StoreInv, AppsAreThere
  <2>3. QED
    BY <1>2, <1>4, <2>1, <2>2
<1>8. ASSUME NEW l \in Values("ledger")', l.reservationId # None
      PROVE  \E r \in Values("reservations")' :
               r.id = l.reservationId /\ r.userId = l.userId
  <2>1. PICK r \in Values("reservations") :
          r.id = l.reservationId /\ r.userId = l.userId
    BY <1>5, <1>8 DEF StoreInv, LedgerKeepsItsUser
  <2>2. CASE t = "reservations"
    BY <1>2, <1>3, <2>1, <2>2
  <2>3. CASE t # "reservations"
    BY <1>2, <1>4, <2>1, <2>3
  <2>4. QED
    BY <2>2, <2>3
<1>9. ASSUME NEW k \in Values("serviceCredentials")',
             NEW l \in Values("serviceCredentials")', k.keyId = l.keyId
      PROVE  k = l
  <2>1. CASE t = "serviceCredentials"
    BY <1>2, <1>3, <1>9, <2>1 DEF StoreInv, OneCredentialPerKeyId
  <2>2. CASE t # "serviceCredentials"
    BY <1>2, <1>4, <1>9, <2>2 DEF StoreInv, OneCredentialPerKeyId
  <2>3. QED
    BY <2>1, <2>2
<1>10. /\ OwnersAreThere' /\ AppsAreThere' /\ LedgerKeepsItsUser'
       /\ OneCredentialPerKeyId'
  BY <1>6, <1>7, <1>8, <1>9 DEF OwnersAreThere, AppsAreThere,
    LedgerKeepsItsUser, OneCredentialPerKeyId
<1>11. QED
  BY <1>1, <1>10 DEF StoreInv

LEMMA DeleteKeeps ==
  ASSUME StoreInv, NEW gone, Delete("sessions", gone)
  PROVE  StoreInv'
<1>1. /\ {"users", "sessions", "serviceCredentials", "ledger",
          "reservations"} \subseteq Tables
      /\ Owned \subseteq Tables
  BY TablesAre
<1>2. /\ IsStore'
      /\ Takes
      /\ Values("sessions")' = Values("sessions") \ gone
      /\ \A s \in Tables \ {"sessions"} : store'[s] = store[s]
  BY <1>1, DeleteStep DEF StoreInv
<1>3. StoreTypeOK'
  BY <1>2, TakingKeepsTypes DEF StoreInv
<1>4. /\ \A s \in Tables : Values(s)' \subseteq Values(s)
      /\ Values("users")' = Values("users")
      /\ Values("ledger")' = Values("ledger")
      /\ Values("reservations")' = Values("reservations")
      /\ Values("serviceCredentials")' = Values("serviceCredentials")
  BY <1>1, <1>2 DEF Values
<1>5. OwnersAreThere' /\ AppsAreThere'
  BY <1>1, <1>4 DEF StoreInv, OwnersAreThere, AppsAreThere
<1>6. LedgerKeepsItsUser' /\ OneCredentialPerKeyId'
  BY <1>4 DEF StoreInv, LedgerKeepsItsUser, OneCredentialPerKeyId
<1>7. QED
  BY <1>2, <1>3, <1>5, <1>6 DEF StoreInv

LEMMA CascadedValues ==
  ASSUME NEW u, store' = Cascade(u)
  PROVE  /\ \A t \in Owned : Values(t)' = {r \in Values(t) : r.userId # u}
         /\ Values("users")' = {r \in Values("users") : r.id # u}
         /\ Values("serviceCredentials")' = Values("serviceCredentials")
<1>1. \A t \in Tables : Values(t)' = Values(t) \ OfUser(t, u)
  BY CascadeStep
<1>2. /\ Owned \subseteq Tables
      /\ "users" \in Tables /\ "serviceCredentials" \in Tables
      /\ "users" \notin Owned /\ "serviceCredentials" \notin Owned
  BY TablesAre
<1>3. ASSUME NEW t \in Owned
      PROVE  Values(t)' = {r \in Values(t) : r.userId # u}
  BY <1>1, <1>2 DEF OfUser
<1>4. Values("users")' = {r \in Values("users") : r.id # u}
  BY <1>1, <1>2 DEF OfUser
<1>5. Values("serviceCredentials")' = Values("serviceCredentials")
  BY <1>1, <1>2 DEF OfUser
<1>6. QED
  BY <1>3, <1>4, <1>5

LEMMA CascadeKeeps ==
  ASSUME StoreInv, NEW u, store' = Cascade(u)
  PROVE  StoreInv'
<1>1. IsStore' /\ StoreTypeOK'
  BY CascadeStep, TakingKeepsTypes DEF StoreInv
<1>2. /\ \A t \in Owned : Values(t)' = {r \in Values(t) : r.userId # u}
      /\ Values("users")' = {r \in Values("users") : r.id # u}
      /\ Values("serviceCredentials")' = Values("serviceCredentials")
  BY CascadedValues
<1>3. "sessions" \in Owned /\ "ledger" \in Owned /\ "reservations" \in Owned
  BY TablesAre
<1>4. OwnersAreThere'
  BY <1>2 DEF StoreInv, OwnersAreThere
<1>5. AppsAreThere'
  BY <1>2, <1>3 DEF StoreInv, AppsAreThere
<1>6. LedgerKeepsItsUser' /\ OneCredentialPerKeyId'
  BY <1>2, <1>3 DEF StoreInv, LedgerKeepsItsUser, OneCredentialPerKeyId
<1>7. QED
  BY <1>1, <1>4, <1>5, <1>6 DEF StoreInv

LEMMA StoreInit ==
  Init => StoreInv
<1> SUFFICES ASSUME Init PROVE StoreInv
  OBVIOUS
<1>1. store = [t \in Tables |-> <<>>]
  BY DEF Init
<1>2. \A t \in Tables : store[t] = <<>> /\ DOMAIN store[t] = {}
  BY <1>1
<1>3. \A t \in Tables : Values(t) = {}
  BY <1>2, ValuesAre
<1>4. IsStore
  BY <1>1, <1>2 DEF IsStore, IsMap
<1>5. StoreTypeOK
  BY <1>2 DEF StoreTypeOK
<1>6. /\ OwnersAreThere /\ AppsAreThere /\ LedgerKeepsItsUser
      /\ OneCredentialPerKeyId
  BY <1>3, TablesAre DEF OwnersAreThere, AppsAreThere, LedgerKeepsItsUser,
    OneCredentialPerKeyId
<1>7. QED
  BY <1>4, <1>5, <1>6 DEF StoreInv

LEMMA StoreNext ==
  StoreInv /\ [Next]_vars => StoreInv'
<1> SUFFICES ASSUME StoreInv, [Next]_vars PROVE StoreInv'
  OBVIOUS
<1>1. Kind
  BY StepKind DEF StoreInv
<1>2. CASE UNCHANGED store
  BY <1>2 DEF StoreInv, IsStore, IsMap, StoreTypeOK, OwnersAreThere,
    AppsAreThere, LedgerKeepsItsUser, OneCredentialPerKeyId, Values
<1>3. QED
  BY <1>1, <1>2, AddKeeps, ReplaceKeeps, DeleteKeeps, CascadeKeeps DEF Kind

LEMMA StoreInvariant ==
  Spec => []StoreInv
BY StoreInit, StoreNext, PTL DEF Spec

-----------------------------------------------------------------------------
(* The theorems *)

\* The maps hold rows of their tables, each at the key of its own columns,
\* whatever calls are made (memory.ts).
THEOREM StoreTypeCorrect ==
  Spec => []StoreTypeOK
<1>1. StoreInv => StoreTypeOK
  BY DEF StoreInv
<1>2. QED
  BY <1>1, StoreInvariant, PTL

\* No row of the fakes outlives what it refers to, although they check a
\* reference only when a row is created, and look up no reservation of a
\* ledger row (memory.ts, users.delete).
THEOREM ReferencesAreKept ==
  Spec => []ReferencesHold
<1>1. ASSUME StoreInv, NEW t \in Tables, NEW r \in Values(t)
      PROVE  Schema!Referenced(AsTables, t, r)
  <2>1. /\ AsTables["users"] = Values("users")
        /\ AsTables["reservations"] = Values("reservations")
    BY TablesAre DEF AsTables
  <2>2. t \in Owned => \E u \in Values("users") : u.id = r.userId
    BY <1>1 DEF StoreInv, OwnersAreThere
  <2>3. t \in {"sessions", "serviceCredentials"} => r.appId \in Apps \cup {None}
    BY <1>1 DEF StoreInv, AppsAreThere
  <2>4. t = "ledger" /\ r.reservationId # None =>
          \E x \in Values("reservations") : x.id = r.reservationId
    BY <1>1 DEF StoreInv, LedgerKeepsItsUser
  <2>5. QED
    BY <2>1, <2>2, <2>3, <2>4 DEF Schema!Referenced, Schema!Owned, Owned,
      Schema!Tables, Tables, Schema!Row, Row
<1>2. StoreInv => ReferencesHold
  BY <1>1 DEF ReferencesHold
<1>3. QED
  BY <1>2, StoreInvariant, PTL

\* What is recorded about a user stays as it was while the user is there, and
\* a revoked key is never active again (repos.ts:205-210), for any calls.
THEOREM RecordsStay ==
  Spec => WrittenStays
<1> DEFINE Stays ==
      /\ \A t \in Owned \ {"sessions", "wallets", "reservations"} :
           \A r \in Values(t) : Has("users", r.userId)' => r \in Values(t)'
      /\ \A k \in Values("serviceCredentials") :
           \E l \in Values("serviceCredentials")' :
             l.keyId = k.keyId /\ (k.status = "revoked" => l = k)
<1>1. ASSUME StoreInv, [Next]_vars PROVE Stays
  <2>1. Kind /\ StoreInv'
    BY <1>1, StepKind, StoreNext DEF StoreInv
  <2>2. Owned \subseteq Tables \ {"users", "serviceCredentials"}
        /\ "serviceCredentials" \in Tables
    BY TablesAre
  <2>3. CASE \A s \in Tables \ {"sessions"} : Values(s) \subseteq Values(s)'
    BY <2>2, <2>3
  <2>4. CASE UNCHANGED store
    BY <2>3, <2>4 DEF Values
  <2>5. ASSUME NEW t \in Tables, NEW row \in Row[t], Adds(t, row)
        PROVE  Stays
    BY <1>1, <2>3, <2>5, AddedValues DEF StoreInv
  <2>6. ASSUME NEW t \in Tables, NEW old \in Values(t), NEW row \in Row[t],
               Replaces(t, old, row)
        PROVE  Stays
    <3>1. /\ Values(t)' = (Values(t) \ {old}) \cup {row}
          /\ \A s \in Tables \ {t} : Values(s)' = Values(s)
      BY <1>1, <2>6, ReplacedValues DEF StoreInv
    <3>2. \A s \in Owned \ {"sessions", "wallets", "reservations"} :
            Values(s)' = Values(s)
      BY <2>2, <2>6, <3>1 DEF Replaces
    <3>3. ASSUME NEW k \in Values("serviceCredentials")
          PROVE  \E l \in Values("serviceCredentials")' :
                   l.keyId = k.keyId /\ (k.status = "revoked" => l = k)
      <4>1. CASE t = "serviceCredentials" /\ k = old
        BY <2>6, <3>1, <4>1 DEF Replaces
      <4>2. CASE ~(t = "serviceCredentials" /\ k = old)
        BY <2>2, <3>1, <4>2
      <4>3. QED
        BY <4>1, <4>2
    <3>4. QED
      BY <3>2, <3>3
  <2>7. ASSUME NEW gone, Delete("sessions", gone) PROVE Stays
    <3>1. \A s \in Tables \ {"sessions"} : store'[s] = store[s]
      BY <1>1, <2>7, DeleteStep, TablesAre DEF StoreInv
    <3>2. QED
      BY <2>3, <3>1 DEF Values
  <2>8. ASSUME NEW u, store' = Cascade(u) PROVE Stays
    <3>1. /\ \A t \in Owned : Values(t)' = {r \in Values(t) : r.userId # u}
          /\ Values("users")' = {r \in Values("users") : r.id # u}
          /\ Values("serviceCredentials")' = Values("serviceCredentials")
      BY <2>8, CascadedValues
    <3>2. u \notin DOMAIN store'["users"]
      <4>1. "users" \in Tables
        BY TablesAre
      <4>2. \A k \in DOMAIN store'["users"] : store'["users"][k].id = k
        BY <2>1, <4>1, KeysAre DEF StoreInv, StoreTypeOK
      <4>3. QED
        BY <3>1, <4>2, ValuesAre
    <3>3. QED
      BY <3>1, <3>2 DEF Has
  <2>9. QED
    BY <2>1, <2>4, <2>5, <2>6, <2>7, <2>8 DEF Kind
<1>2. StoreInv /\ [Next]_vars => [Stays]_vars
  BY <1>1
<1>3. QED
  BY <1>2, StoreInvariant, PTL DEF Spec, WrittenStays

-----------------------------------------------------------------------------
(* The maps implement the schema *)

LEMMA SchemaOperators ==
  /\ Schema!Tables = Tables
  /\ Schema!Owned = Owned
  /\ Schema!Call = Call
<1>1. Schema!Row = Row
  BY DEF Row, Schema!Row, User, Schema!User, Identity, Schema!Identity,
    Profile, Schema!Profile, Session, Schema!Session, ServiceCredential,
    Schema!ServiceCredential, Wallet, Schema!Wallet, LedgerEntry,
    Schema!LedgerEntry, Reservation, Schema!Reservation, ReservationStatus,
    Schema!ReservationStatus, UsageEvent, Schema!UsageEvent, Entitlement,
    Schema!Entitlement, Acquisition, Schema!Acquisition
<1>2. Schema!Tables = Tables
  BY <1>1 DEF Tables, Schema!Tables
<1>3. Schema!Owned = Owned
  BY <1>2 DEF Owned, Schema!Owned
<1>4. \A u : Schema!NewWallet(u) = NewWallet(u)
  BY DEF NewWallet, Schema!NewWallet
<1>5. Schema!NewRow = NewRow
  BY <1>1, <1>4 DEF NewRow, Schema!NewRow
<1>6. \A t : Schema!Where(t) = Where(t)
  BY DEF Where, Schema!Where, Selectors, Schema!Selectors, ColumnType,
    Schema!ColumnType
<1>7. Schema!Creates = Creates
  BY <1>2, <1>5 DEF Creates, Schema!Creates
<1>8. Schema!Reads = Reads
  BY <1>2, <1>6 DEF Reads, Schema!Reads
<1>9. Schema!Updates = Updates
  BY DEF Updates, Schema!Updates, ReservationStatus, Schema!ReservationStatus
<1>10. QED
  BY <1>2, <1>3, <1>7, <1>8, <1>9 DEF Call, Schema!Call

LEMMA AsTablesAre ==
  ASSUME NEW t \in Tables
  PROVE  AsTables[t] = Values(t) /\ AsTables'[t] = Values(t)'
BY DEF AsTables

\* A step that changes the rows of one table.
LEMMA ReplaceIs ==
  ASSUME NEW t \in Tables, NEW old, NEW new,
         Values(t)' = (Values(t) \ old) \cup new,
         \A s \in Tables \ {t} : Values(s)' = Values(s)
  PROVE  Schema!Replace(t, old, new)
BY DEF Schema!Replace, AsTables

LEMMA SameTables ==
  ASSUME UNCHANGED store
  PROVE  UNCHANGED AsTables
BY DEF AsTables, Values

LEMMA RowsAndThrows ==
  /\ \A rows : Rows(rows) => Schema!Rows(rows)
  /\ \A code : Throw(code) => Schema!Throw(code)
<1>1. \A rows : Rows(rows) => Schema!Rows(rows)
  BY DEF Rows, Schema!Rows
<1>2. \A code : Throw(code) => Schema!Throw(code)
  BY SameTables DEF Throw, Schema!Throw
<1>3. QED
  BY <1>1, <1>2

LEMMA FindIsSelect ==
  ASSUME StoreTypeOK, NEW t \in Tables, NEW where
  PROVE  Find(t, where) = Schema!Select(t, where)
<1> DEFINE matching == {r \in Values(t) : \A c \in DOMAIN where :
                                            r[c] = where[c]}
<1>1. Schema!Select(t, where) = matching
  BY DEF Schema!Select, AsTables
<1>2. Get(t, MapKey(t, where)) =
        {r \in Values(t) : MapKey(t, r) = MapKey(t, where)}
  BY GetIs
<1>3. CASE t \in {"profiles", "wallets"}
  <2>1. \A r : MapKey(t, r) = r.userId
    BY <1>3, KeysAre
  <2>2. DOMAIN where = {"userId"} => Get(t, MapKey(t, where)) = matching
    BY <1>2, <2>1
  <2>3. QED
    BY <1>1, <1>3, <2>2 DEF Find
<1>4. CASE t = "sessions"
  <2>1. \A r : MapKey(t, r) = r.tokenHash
    BY <1>4, KeysAre
  <2>2. DOMAIN where = {"tokenHash"} => Get(t, MapKey(t, where)) = matching
    BY <1>2, <2>1
  <2>3. QED
    BY <1>1, <1>4, <2>2 DEF Find
<1>5. CASE t = "entitlements"
  <2>1. \A r : MapKey(t, r) = <<r.userId, r.key>>
    BY <1>5, KeysAre
  <2>2. DOMAIN where = {"userId", "key"} => Get(t, MapKey(t, where)) = matching
    BY <1>2, <2>1
  <2>3. QED
    BY <1>1, <1>5, <2>2 DEF Find
<1>6. CASE t = "acquisitions"
  <2>1. \A r : MapKey(t, r) = <<r.userId, r.provider>>
    BY <1>6, KeysAre
  <2>2. DOMAIN where = {"userId", "provider"} => Get(t, MapKey(t, where)) = matching
    BY <1>2, <2>1
  <2>3. QED
    BY <1>1, <1>6, <2>2 DEF Find
<1>7. CASE t \in {"users", "identities", "serviceCredentials", "ledger",
                  "reservations", "usage"}
  <2>1. \A r : MapKey(t, r) = r.id
    BY <1>7, KeysAre
  <2>2. DOMAIN where = {"id"} => Get(t, MapKey(t, where)) = matching
    BY <1>2, <2>1
  <2>3. QED
    BY <1>1, <1>7, <2>2 DEF Find
<1>8. QED
  BY <1>3, <1>4, <1>5, <1>6, <1>7, TablesAre

LEMMA ReadImplements ==
  ASSUME StoreInv, NEW c \in Call, Read(c)
  PROVE  Schema!Read(c)
<1>1. c.table \in Tables
  BY CallIs DEF Read
<1>2. Find(c.table, c.where) = Schema!Select(c.table, c.where)
  BY <1>1, FindIsSelect DEF StoreInv
<1>3. QED
  BY <1>2, RowsAndThrows, SameTables DEF Read, Schema!Read

LEMMA DeleteUserImplements ==
  ASSUME StoreInv, NEW c \in Call, DeleteUser(c), StoreInv'
  PROVE  Schema!DeleteUser(c)
<1> DEFINE left == [t \in Tables |->
                      {r \in AsTables[t] :
                         /\ t = "users" => r.id # c.id
                         /\ t \in Owned => r.userId # c.id}]
<1>1. store' = Cascade(c.id) /\ Rows({}) /\ c.do = "deleteUser"
  BY DEF DeleteUser
<1>2. /\ \A t \in Owned : Values(t)' = {r \in Values(t) : r.userId # c.id}
      /\ Values("users")' = {r \in Values("users") : r.id # c.id}
      /\ Values("serviceCredentials")' = Values("serviceCredentials")
  BY <1>1, CascadedValues
<1>3. ASSUME NEW t \in Tables PROVE Values(t)' = left[t]
  <2>1. CASE t = "users"
    BY <1>2, <2>1, TablesAre, AsTablesAre
  <2>2. CASE t = "serviceCredentials"
    BY <1>2, <2>2, TablesAre, AsTablesAre
  <2>3. CASE t \in Owned
    BY <1>2, <2>3, TablesAre, AsTablesAre
  <2>4. QED
    BY <2>1, <2>2, <2>3, TablesAre
<1>4. AsTables' = left
  BY <1>3 DEF AsTables
<1>5. ASSUME NEW r \in left["ledger"]
      PROVE  Schema!Referenced(left, "ledger", r)
  <2>1. /\ left["users"] = Values("users")'
        /\ left["ledger"] = Values("ledger")'
        /\ left["reservations"] = Values("reservations")'
        /\ "ledger" \in Owned
    BY <1>3, TablesAre
  <2>2. \E u \in left["users"] : u.id = r.userId
    BY <2>1 DEF StoreInv, OwnersAreThere
  <2>3. r.reservationId # None =>
          \E x \in left["reservations"] : x.id = r.reservationId
    BY <2>1 DEF StoreInv, LedgerKeepsItsUser
  <2>4. QED
    BY <2>2, <2>3 DEF Schema!Referenced
<1>6. QED
  BY <1>1, <1>4, <1>5, RowsAndThrows, SchemaOperators DEF Schema!DeleteUser

LEMMA DeleteByTokenHashImplements ==
  ASSUME StoreInv, NEW c \in Call, DeleteByTokenHash(c)
  PROVE  Schema!DeleteByTokenHash(c)
<1> DEFINE gone == Get("sessions", c.tokenHash)
<1>1. /\ "sessions" \in Tables
      /\ gone = {s \in Values("sessions") : s.tokenHash = c.tokenHash}
  <2>1. "sessions" \in Tables /\ \A s : MapKey("sessions", s) = s.tokenHash
    BY TablesAre, KeysAre
  <2>2. QED
    BY <2>1, GetIs DEF StoreInv
<1>2. /\ Values("sessions")' = Values("sessions") \ gone
      /\ \A s \in Tables \ {"sessions"} : Values(s)' = Values(s)
  BY <1>1, DeleteStep DEF StoreInv, DeleteByTokenHash, Values
<1>3. Schema!Replace("sessions", gone, {})
  BY <1>1, <1>2, ReplaceIs
<1>4. QED
  BY <1>1, <1>3, AsTablesAre, RowsAndThrows
  DEF DeleteByTokenHash, Schema!DeleteByTokenHash

LEMMA DeleteExpiredImplements ==
  ASSUME StoreInv, NEW c \in Call, DeleteExpired(c)
  PROVE  Schema!DeleteExpired(c)
<1> DEFINE expired == {s \in Values("sessions") : s.expiresAt < c.now}
<1>1. "sessions" \in Tables
  BY TablesAre
<1>2. /\ Values("sessions")' = Values("sessions") \ expired
      /\ \A s \in Tables \ {"sessions"} : Values(s)' = Values(s)
  BY <1>1, DeleteStep DEF StoreInv, DeleteExpired, Values
<1>3. Schema!Replace("sessions", expired, {})
  BY <1>1, <1>2, ReplaceIs
<1>4. QED
  BY <1>1, <1>3, AsTablesAre, RowsAndThrows
  DEF DeleteExpired, Schema!DeleteExpired

\* No row is changed, and none is returned.
LEMMA NothingReplaced ==
  ASSUME NEW t \in Tables, UNCHANGED store
  PROVE  Schema!Replace(t, {}, {})
BY ReplaceIs DEF Values

LEMMA RowStored ==
  ASSUME StoreInv, NEW t \in Tables, NEW old \in Values(t),
         NEW row \in Row[t], Replaces(t, old, row)
  PROVE  Schema!Replace(t, {old}, {row})
BY ReplacedValues, ReplaceIs DEF StoreInv

LEMMA RevokeImplements ==
  ASSUME StoreInv, NEW c \in Call, RevokeByKeyId(c)
  PROVE  Schema!RevokeByKeyId(c)
<1> DEFINE t == "serviceCredentials"
           new(k) == [k EXCEPT !.status = "revoked"]
           found == {k \in Values(t) : k.keyId = c.keyId /\ k.status = "active"}
<1>1. t \in Tables /\ AsTables[t] = Values(t) /\ AsTables.serviceCredentials = Values(t)
  BY TablesAre, AsTablesAre
<1>2. CASE found = {} /\ Rows({}) /\ UNCHANGED store
  <2>1. Schema!Replace(t, found, {new(k) : k \in found})
        /\ Schema!Rows({new(k) : k \in found})
    BY <1>1, <1>2, NothingReplaced, RowsAndThrows
  <2>2. QED
    BY <1>1, <2>1 DEF RevokeByKeyId, Schema!RevokeByKeyId
<1>3. ASSUME NEW k \in found, Store(t, new(k))
      PROVE  Schema!RevokeByKeyId(c)
  <2>1. found = {k}
    BY DEF StoreInv, OneCredentialPerKeyId
  <2>2. k \in ServiceCredential
    BY <1>1, RowAtItsKey, RowsAre DEF StoreInv
  <2>3. /\ new(k) \in Row[t]
        /\ new(k).id = k.id /\ new(k).keyId = k.keyId
        /\ new(k).appId = k.appId
    BY <2>2, RowsAre DEF ServiceCredential
  <2>4. {new(x) : x \in found} = {new(k)}
    BY <2>1
  <2> HIDE DEF new
  <2>5. Replaces(t, k, new(k)) /\ Rows({new(k)})
    BY <1>3, <2>3 DEF Replaces, Store, Puts
  <2>6. Schema!Replace(t, found, {new(x) : x \in found})
        /\ Schema!Rows({new(x) : x \in found})
    BY <1>1, <2>1, <2>3, <2>4, <2>5, RowStored, RowsAndThrows
  <2>7. QED
    BY <1>1, <2>6 DEF RevokeByKeyId, Schema!RevokeByKeyId, new
<1>4. QED
  BY <1>2, <1>3 DEF RevokeByKeyId

LEMMA TransitionImplements ==
  ASSUME StoreInv, NEW c \in Call, Transition(c)
  PROVE  Schema!Transition(c)
<1> DEFINE t == "reservations"
           new(r) == [r EXCEPT !.status = c.to]
           found == {r \in Get(t, c.id) : r.status \in c.from}
<1>1. /\ t \in Tables /\ AsTables.reservations = Values(t)
      /\ c.to \in ReservationStatus
      /\ \A r : MapKey(t, r) = r.id
  BY TablesAre, AsTablesAre, CallIs, KeysAre DEF Transition
<1>2. found = {r \in Values(t) : r.id = c.id /\ r.status \in c.from}
  BY <1>1, GetIs DEF StoreInv
<1>3. CASE found = {} /\ Rows({}) /\ UNCHANGED store
  <2>1. Schema!Replace(t, found, {new(r) : r \in found})
        /\ Schema!Rows({new(r) : r \in found})
    BY <1>1, <1>3, NothingReplaced, RowsAndThrows
  <2>2. QED
    BY <1>1, <1>2, <2>1 DEF Transition, Schema!Transition
<1>4. ASSUME NEW r \in found, Store(t, new(r))
      PROVE  Schema!Transition(c)
  <2>1. found = {r}
    BY DEF Get
  <2>2. r \in Reservation /\ r \in Values(t)
    BY <1>1, <1>2, RowAtItsKey, RowsAre DEF StoreInv
  <2>3. new(r) \in Row[t] /\ new(r).id = r.id /\ new(r).userId = r.userId
    BY <1>1, <2>2, RowsAre DEF Reservation
  <2>4. {new(x) : x \in found} = {new(r)}
    BY <2>1
  <2> HIDE DEF new
  <2>5. Replaces(t, r, new(r)) /\ Rows({new(r)})
    BY <1>4, <2>3 DEF Replaces, Store, Puts
  <2>6. Schema!Replace(t, found, {new(x) : x \in found})
        /\ Schema!Rows({new(x) : x \in found})
    BY <1>1, <2>1, <2>2, <2>3, <2>4, <2>5, RowStored, RowsAndThrows
  <2>7. QED
    BY <1>1, <1>2, <2>6 DEF Transition, Schema!Transition, new
<1>5. QED
  BY <1>3, <1>4 DEF Transition

LEMMA TryReserveImplements ==
  ASSUME StoreInv, NEW c \in Call, TryReserve(c)
  PROVE  Schema!TryReserve(c)
<1> DEFINE t == "wallets"
           new(w) == Spent(w, c.amount)
           found == {w \in Values(t) : /\ w.userId = c.userId
                                       /\ w.availableBalance >= c.amount}
<1>1. /\ t \in Tables /\ AsTables.wallets = Values(t)
      /\ c.amount \in Int /\ c.do = "tryReserve"
      /\ \A w : MapKey(t, w) = w.userId
  BY TablesAre, AsTablesAre, CallIs, KeysAre DEF TryReserve
<1>2. Get(t, c.userId) = {w \in Values(t) : w.userId = c.userId}
  BY <1>1, GetIs DEF StoreInv
<1>3. \A w \in Values(t) : w \in Wallet
  BY <1>1, RowAtItsKey, RowsAre DEF StoreInv
<1>4. Schema!TryReserve(c) <=>
        \/ c.amount < 0 /\ Schema!Throw("INVALID")
        \/ /\ c.amount >= 0
           /\ Schema!Replace(t, found, {new(w) : w \in found})
           /\ Schema!Rows({new(w) : w \in found})
  BY <1>1 DEF Schema!TryReserve, Spent
<1>5. CASE c.amount < 0 /\ Throw("INVALID")
  BY <1>4, <1>5, RowsAndThrows
<1>6. CASE /\ c.amount >= 0
           /\ \A w \in Get(t, c.userId) : w.availableBalance < c.amount
           /\ Rows({}) /\ UNCHANGED store
  <2>1. found = {}
    BY <1>1, <1>2, <1>3, <1>6 DEF Wallet
  <2>2. {new(w) : w \in found} = {}
    BY <2>1
  <2>3. QED
    BY <1>1, <1>4, <1>6, <2>1, <2>2, NothingReplaced, RowsAndThrows
<1>7. ASSUME c.amount >= 0, NEW w \in Get(t, c.userId),
             w.availableBalance >= c.amount, Store(t, new(w))
      PROVE  Schema!TryReserve(c)
  <2>1. w \in Values(t) /\ w \in Wallet
    BY <1>2, <1>3
  <2>2. Get(t, c.userId) = {w}
    BY DEF Get
  <2>3. found = {w}
    BY <1>2, <1>7, <2>2
  <2>4. new(w) \in Row[t] /\ new(w).userId = w.userId
    BY <1>1, <1>7, <2>1, SpentWallet, RowsAre
  <2>5. {new(x) : x \in found} = {new(w)}
    BY <2>3
  <2> HIDE DEF new
  <2>6. Replaces(t, w, new(w)) /\ Rows({new(w)})
    BY <1>7, <2>4 DEF Replaces, Store, Puts
  <2>7. QED
    BY <1>1, <1>4, <1>7, <2>1, <2>3, <2>4, <2>5, <2>6, RowStored,
      RowsAndThrows
<1>8. QED
  BY <1>5, <1>6, <1>7 DEF TryReserve, Spent

LEMMA AdjustImplements ==
  ASSUME StoreInv, NEW c \in Call, Adjust(c)
  PROVE  Schema!Adjust(c)
<1> DEFINE t == "wallets"
           new(w) == Moved(w, c.available, c.reserved)
           found == {w \in Get(t, c.userId) :
                       c.expectedVersion \in {None, w.version}}
           fits(w) == Schema!Checked(t, w)
<1>1. /\ t \in Tables /\ AsTables.wallets = Values(t)
      /\ c.available \in Int /\ c.reserved \in Int /\ c.do = "adjust"
      /\ \A w : MapKey(t, w) = w.userId
  BY TablesAre, AsTablesAre, CallIs, KeysAre DEF Adjust
<1>2. found = {w \in Values(t) : /\ w.userId = c.userId
                                 /\ c.expectedVersion \in {None, w.version}}
  BY <1>1, GetIs DEF StoreInv
<1>3. Schema!Adjust(c) <=>
        \/ /\ \A w \in {new(x) : x \in found} : fits(w)
           /\ Schema!Replace(t, found, {new(x) : x \in found})
           /\ Schema!Rows({new(x) : x \in found})
        \/ \E w \in {new(x) : x \in found} : ~fits(w) /\ Schema!Throw("DB_CHECK")
  BY <1>1, <1>2 DEF Schema!Adjust, Moved
<1>4. CASE found = {} /\ Rows({}) /\ UNCHANGED store
  <2>1. {new(x) : x \in found} = {}
    BY <1>4
  <2>2. QED
    BY <1>1, <1>3, <1>4, <2>1, NothingReplaced, RowsAndThrows
<1>5. ASSUME NEW w \in found, Adjusted(c, w, new(w))
      PROVE  Schema!Adjust(c)
  <2>1. found = {w}
    BY DEF Get
  <2>2. w \in Values(t) /\ w \in Wallet
    BY <1>1, <1>2, RowAtItsKey, RowsAre DEF StoreInv
  <2>3. {new(x) : x \in found} = {new(w)}
    BY <2>1
  <2>4. new(w).availableBalance \in Int /\ new(w).reservedBalance \in Int
    BY <1>1, <2>2 DEF Moved, Wallet
  <2>5. fits(new(w)) <=>
          new(w).availableBalance >= 0 /\ new(w).reservedBalance >= 0
    BY DEF Schema!Checked
  <2>6. CASE /\ new(w).availableBalance < 0 \/ new(w).reservedBalance < 0
             /\ Throw("DB_CHECK")
    <3>1. ~fits(new(w))
      BY <2>4, <2>5, <2>6
    <3>2. QED
      BY <1>3, <2>3, <2>6, <3>1, RowsAndThrows
  <2>7. CASE /\ ~(new(w).availableBalance < 0 \/ new(w).reservedBalance < 0)
             /\ Store(t, new(w))
    <3>1. new(w).availableBalance >= 0 /\ new(w).reservedBalance >= 0
      BY <2>4, <2>7
    <3>2. new(w) \in Row[t] /\ new(w).userId = w.userId
      BY <1>1, <2>2, <3>1, MovedWallet, RowsAre
    <3>3. fits(new(w))
      BY <2>5, <3>1
    <3> HIDE DEF new, fits
    <3>4. Replaces(t, w, new(w)) /\ Rows({new(w)})
      BY <2>7, <3>2 DEF Replaces, Store, Puts
    <3>5. QED
      BY <1>1, <1>3, <2>1, <2>2, <2>3, <3>2, <3>3, <3>4, RowStored,
        RowsAndThrows
  <2>8. QED
    BY <1>5, <2>6, <2>7 DEF Adjusted
<1>6. QED
  BY <1>4, <1>5 DEF Adjust, Moved

\* The unique keys of the tables.
LEMMA SameKeyIs ==
  ASSUME NEW r, NEW s
  PROVE  /\ \A t \in {"users", "usage"} : ~Schema!SameKey(t, r, s)
         /\ Schema!SameKey("identities", r, s) <=>
              r.provider = s.provider /\ r.providerUserId = s.providerUserId
         /\ \A t \in {"profiles", "wallets"} :
              Schema!SameKey(t, r, s) <=> r.userId = s.userId
         /\ Schema!SameKey("sessions", r, s) <=> r.tokenHash = s.tokenHash
         /\ Schema!SameKey("serviceCredentials", r, s) <=> r.keyId = s.keyId
         /\ Schema!SameKey("ledger", r, s) <=>
              r.userId = s.userId /\ r.idempotencyKey = s.idempotencyKey
         /\ Schema!SameKey("reservations", r, s) <=>
              r.userId = s.userId /\ r.requestId = s.requestId
         /\ Schema!SameKey("entitlements", r, s) <=>
              r.userId = s.userId /\ r.key = s.key
         /\ Schema!SameKey("acquisitions", r, s) <=>
              r.userId = s.userId /\ r.provider = s.provider
<1>1. /\ Schema!Unique["users"] = {} /\ Schema!Unique["usage"] = {}
      /\ Schema!Unique["identities"] = {{"provider", "providerUserId"}}
      /\ Schema!Unique["profiles"] = {{"userId"}}
      /\ Schema!Unique["sessions"] = {{"tokenHash"}}
      /\ Schema!Unique["serviceCredentials"] = {{"keyId"}}
      /\ Schema!Unique["wallets"] = {{"userId"}}
      /\ Schema!Unique["ledger"] = {{"userId", "idempotencyKey"}}
      /\ Schema!Unique["reservations"] = {{"userId", "requestId"}}
      /\ Schema!Unique["entitlements"] = {{"userId", "key"}}
      /\ Schema!Unique["acquisitions"] = {{"userId", "provider"}}
  BY DEF Schema!Unique
<1>2. \A t \in {"users", "usage"} : ~Schema!SameKey(t, r, s)
  BY <1>1 DEF Schema!SameKey
<1>3. Schema!SameKey("profiles", r, s) <=> r["userId"] = s["userId"]
  BY <1>1 DEF Schema!SameKey
<1>4. Schema!SameKey("wallets", r, s) <=> r["userId"] = s["userId"]
  BY <1>1 DEF Schema!SameKey
<1>5. Schema!SameKey("sessions", r, s) <=> r["tokenHash"] = s["tokenHash"]
  BY <1>1 DEF Schema!SameKey
<1>6. Schema!SameKey("serviceCredentials", r, s) <=> r["keyId"] = s["keyId"]
  BY <1>1 DEF Schema!SameKey
<1>7. Schema!SameKey("identities", r, s) <=>
        r["provider"] = s["provider"] /\ r["providerUserId"] = s["providerUserId"]
  BY <1>1 DEF Schema!SameKey
<1>8. Schema!SameKey("ledger", r, s) <=>
        r["userId"] = s["userId"] /\ r["idempotencyKey"] = s["idempotencyKey"]
  BY <1>1 DEF Schema!SameKey
<1>9. Schema!SameKey("reservations", r, s) <=>
        r["userId"] = s["userId"] /\ r["requestId"] = s["requestId"]
  BY <1>1 DEF Schema!SameKey
<1>10. Schema!SameKey("entitlements", r, s) <=>
        r["userId"] = s["userId"] /\ r["key"] = s["key"]
  BY <1>1 DEF Schema!SameKey
<1>11. Schema!SameKey("acquisitions", r, s) <=>
        r["userId"] = s["userId"] /\ r["provider"] = s["provider"]
  BY <1>1 DEF Schema!SameKey
<1>12. QED
  BY <1>2, <1>3, <1>4, <1>5, <1>6, <1>7, <1>8, <1>9, <1>10, <1>11

LEMMA ViolatedIs ==
  ASSUME NEW t \in Tables, NEW row
  PROVE  /\ "DB_CHECK" \in Schema!Violated(t, row) <=> ~Schema!Checked(t, row)
         /\ "DB_CONFLICT" \in Schema!Violated(t, row) <=>
              \E r \in Values(t) : Schema!SameKey(t, r, row)
         /\ "DB_FOREIGN_KEY" \in Schema!Violated(t, row) <=>
              ~Schema!Referenced(AsTables, t, row)
         /\ Schema!Violated(t, row) \subseteq
              {"DB_CHECK", "DB_CONFLICT", "DB_FOREIGN_KEY"}
BY AsTablesAre DEF Schema!Violated

LEMMA ReferencedIs ==
  ASSUME NEW t \in Tables, NEW row
  PROVE  Schema!Referenced(AsTables, t, row) <=>
           /\ t \in Owned => \E u \in Values("users") : u.id = row.userId
           /\ t \in {"sessions", "serviceCredentials"} =>
                row.appId \in Apps \cup {None}
           /\ t = "ledger" /\ row.reservationId # None =>
                \E r \in Values("reservations") : r.id = row.reservationId
<1>1. /\ AsTables.users = Values("users")
      /\ AsTables.reservations = Values("reservations")
  BY TablesAre, AsTablesAre
<1>2. QED
  BY <1>1, SchemaOperators DEF Schema!Referenced

\* What a guard that fails stands for in the schema.
Tells(t, row, guard) == guard[1] \/ guard[2] \in Schema!Violated(t, row)

LEMMA UserKnownTells ==
  ASSUME StoreTypeOK, NEW t \in Owned, NEW row
  PROVE  Tells(t, row, UserKnown(row))
<1>1. t \in Tables
  BY TablesAre
<1>2. CASE row.userId \in DOMAIN store.users
  BY <1>2 DEF Tells, UserKnown
<1>3. CASE row.userId \notin DOMAIN store.users
  <2>1. ~\E u \in Values("users") : u.id = row.userId
    BY <1>3, UserIsThere
  <2>2. "DB_FOREIGN_KEY" \in Schema!Violated(t, row)
    BY <1>1, <2>1, ReferencedIs, ViolatedIs
  <2>3. UserKnown(row)[2] = "DB_FOREIGN_KEY"
    BY DEF UserKnown
  <2>4. QED
    BY <2>2, <2>3 DEF Tells
<1>4. QED
  BY <1>2, <1>3

LEMMA NewTells ==
  ASSUME NEW t \in Tables, NEW row, NEW columns \in Schema!Unique[t]
  PROVE  Tells(t, row, New(t, row, columns))
<1>1. CASE \A r \in Values(t) : \E c \in columns : r[c] # row[c]
  BY <1>1, NewIs DEF Tells
<1>2. CASE \E r \in Values(t) : \A c \in columns : r[c] = row[c]
  <2>1. "DB_CONFLICT" \in Schema!Violated(t, row)
    BY <1>2, ViolatedIs DEF Schema!SameKey
  <2>2. New(t, row, columns)[2] = "DB_CONFLICT"
    BY DEF New
  <2>3. QED
    BY <2>1, <2>2 DEF Tells
<1>3. QED
  BY <1>1, <1>2

LEMMA FreshTells ==
  ASSUME StoreTypeOK, NEW t \in {"profiles", "sessions", "wallets"}, NEW row
  PROVE  Tells(t, row, Fresh(t, row))
<1>1. t \in Tables
  BY TablesAre
<1>2. CASE ~Has(t, MapKey(t, row))
  <2>1. Fresh(t, row)[1]
    BY <1>2 DEF Fresh
  <2>2. QED
    BY <2>1 DEF Tells
<1>3. CASE Has(t, MapKey(t, row))
  <2>1. PICK r \in Values(t) : MapKey(t, r) = MapKey(t, row)
    BY <1>1, <1>3, ValuesAre DEF Has, StoreTypeOK
  <2>2. Schema!SameKey(t, r, row)
    <3>1. CASE t \in {"profiles", "wallets"}
      <4>1. \A x : MapKey(t, x) = x.userId
        BY <3>1, KeysAre
      <4>2. QED
        BY <2>1, <3>1, <4>1, SameKeyIs
    <3>2. CASE t = "sessions"
      <4>1. \A x : MapKey(t, x) = x.tokenHash
        BY <3>2, KeysAre
      <4>2. QED
        BY <2>1, <3>2, <4>1, SameKeyIs
    <3>3. QED
      BY <3>1, <3>2
  <2>3. "DB_CONFLICT" \in Schema!Violated(t, row)
    BY <1>1, <2>2, ViolatedIs
  <2>4. Fresh(t, row)[2] = "DB_CONFLICT"
    BY DEF Fresh
  <2>5. QED
    BY <2>3, <2>4 DEF Tells
<1>4. QED
  BY <1>2, <1>3

LEMMA CheckedIs ==
  ASSUME NEW row
  PROVE  /\ Schema!Checked("sessions", row) <=>
              ((row.sessionType = "account") <=> (row.appId = None))
         /\ Schema!Checked("serviceCredentials", row) <=>
              row.keyId \notin BadKeyIds
         /\ Schema!Checked("wallets", row) <=>
              row.availableBalance >= 0 /\ row.reservedBalance >= 0
         /\ Schema!Checked("reservations", row) <=> row.amount >= 0
         /\ \A t \in {"users", "identities", "profiles", "ledger", "usage",
                      "entitlements", "acquisitions"} : Schema!Checked(t, row)
BY DEF Schema!Checked

\* A guard of a create fails only on a row that violates the schema, and with
\* the error that the schema has for it.
LEMMA GuardsTell ==
  ASSUME StoreTypeOK, NEW t \in Tables, NEW row \in NewRow[t],
         NEW i \in DOMAIN Guards(t, row)
  PROVE  Tells(t, row, Guards(t, row)[i])
<1> DEFINE guards == Guards(t, row)
<1>1. CASE t = "users"
  BY <1>1, GuardsAreFew
<1>2. CASE t \in {"usage", "entitlements", "acquisitions"}
  <2>1. i \in 1 .. 1 /\ guards = <<UserKnown(row)>> /\ t \in Owned
    BY <1>2, GuardsAre, GuardsAreFew, TablesAre
  <2>2. guards[i] = UserKnown(row)
    BY <2>1
  <2>3. QED
    BY <2>1, <2>2, UserKnownTells
<1>3. CASE t = "identities"
  <2>1. i \in 1 .. 2 /\ t \in Owned
    BY <1>3, GuardsAreFew, TablesAre
  <2>2. guards[1] = UserKnown(row)
        /\ guards[2] = New(t, row, {"provider", "providerUserId"})
    BY <1>3, GuardsAre DEF IdentityGuards
  <2>3. {"provider", "providerUserId"} \in Schema!Unique[t]
    BY <1>3 DEF Schema!Unique
  <2>4. Tells(t, row, guards[1]) /\ Tells(t, row, guards[2])
    BY <2>1, <2>2, <2>3, UserKnownTells, NewTells
  <2>5. QED
    BY <2>1, <2>4
<1>4. CASE t \in {"profiles", "wallets"}
  <2>1. i \in 1 .. 2 /\ t \in Owned
    BY <1>4, GuardsAreFew, TablesAre
  <2>2. guards[1] = UserKnown(row) /\ guards[2] = Fresh(t, row)
    BY <1>4, GuardsAre DEF ProfileGuards, WalletGuards
  <2>3. Tells(t, row, guards[1]) /\ Tells(t, row, guards[2])
    BY <1>4, <2>1, <2>2, UserKnownTells, FreshTells
  <2>4. QED
    BY <2>1, <2>3
<1>5. CASE t = "ledger"
  <2>1. i \in 1 .. 2 /\ t \in Owned
    BY <1>5, GuardsAreFew, TablesAre
  <2>2. guards[1] = UserKnown(row)
        /\ guards[2] = New(t, row, {"userId", "idempotencyKey"})
    BY <1>5, GuardsAre DEF LedgerGuards
  <2>3. {"userId", "idempotencyKey"} \in Schema!Unique[t]
    BY <1>5 DEF Schema!Unique
  <2>4. Tells(t, row, guards[1]) /\ Tells(t, row, guards[2])
    BY <2>1, <2>2, <2>3, UserKnownTells, NewTells
  <2>5. QED
    BY <2>1, <2>4
<1>6. CASE t = "reservations"
  <2>1. i \in 1 .. 3 /\ t \in Owned
    BY <1>6, GuardsAreFew, TablesAre
  <2>2. guards = ReservationGuards(row)
    BY <1>6, GuardsAre
  <2>3. /\ ReservationGuards(row)[1] = UserKnown(row)
        /\ ReservationGuards(row)[2][1] <=> row.amount >= 0
        /\ ReservationGuards(row)[2][2] = "DB_CHECK"
        /\ ReservationGuards(row)[3] =
             New("reservations", row, {"userId", "requestId"})
    BY DEF ReservationGuards
  <2>4. {"userId", "requestId"} \in Schema!Unique[t]
    BY <1>6 DEF Schema!Unique
  <2>5. ~(row.amount >= 0) => "DB_CHECK" \in Schema!Violated(t, row)
    BY <1>6, CheckedIs, ViolatedIs
  <2>6. Tells(t, row, guards[1])
    BY <2>1, <2>2, <2>3, UserKnownTells
  <2>7. Tells(t, row, guards[2])
    BY <2>2, <2>3, <2>5 DEF Tells
  <2>8. Tells(t, row, guards[3])
    BY <1>6, <2>2, <2>3, <2>4, NewTells
  <2>9. QED
    BY <2>1, <2>6, <2>7, <2>8
<1>7. CASE t = "serviceCredentials"
  <2>1. i \in 1 .. 3
    BY <1>7, GuardsAreFew
  <2>2. guards = CredentialGuards(row)
    BY <1>7, GuardsAre
  <2>3. /\ CredentialGuards(row)[1][1] <=> row.appId \in Apps
        /\ CredentialGuards(row)[1][2] = "DB_FOREIGN_KEY"
        /\ CredentialGuards(row)[2] = New("serviceCredentials", row, {"keyId"})
        /\ CredentialGuards(row)[3][1] <=> row.keyId \notin BadKeyIds
        /\ CredentialGuards(row)[3][2] = "DB_CHECK"
    BY DEF CredentialGuards
  <2>4. {"keyId"} \in Schema!Unique[t]
    BY <1>7 DEF Schema!Unique
  <2>5. row.appId \notin Apps => "DB_FOREIGN_KEY" \in Schema!Violated(t, row)
    <3>1. row.appId # None
      BY <1>7, NewRowsAre, RegistryAssumption DEF ServiceCredential
    <3>2. QED
      BY <1>7, <3>1, ReferencedIs, ViolatedIs
  <2>6. row.keyId \in BadKeyIds => "DB_CHECK" \in Schema!Violated(t, row)
    BY <1>7, CheckedIs, ViolatedIs
  <2>7. Tells(t, row, guards[1])
    BY <2>2, <2>3, <2>5 DEF Tells
  <2>8. Tells(t, row, guards[2])
    BY <1>7, <2>2, <2>3, <2>4, NewTells
  <2>9. Tells(t, row, guards[3])
    BY <2>2, <2>3, <2>6 DEF Tells
  <2>10. QED
    BY <2>1, <2>7, <2>8, <2>9
<1>8. CASE t = "sessions"
  <2>1. i \in 1 .. 5 /\ t \in Owned
    BY <1>8, GuardsAreFew, TablesAre
  <2>2. guards = SessionGuards(row)
    BY <1>8, GuardsAre
  <2>3. /\ SessionGuards(row)[1] = UserKnown(row)
        /\ SessionGuards(row)[2] = Fresh("sessions", row)
        /\ SessionGuards(row)[3][1] <=>
             (row.sessionType = "account" => row.appId = None)
        /\ SessionGuards(row)[3][2] = "DB_CHECK"
        /\ SessionGuards(row)[4][1] <=>
             (row.sessionType = "app" => row.appId # None)
        /\ SessionGuards(row)[4][2] = "DB_CHECK"
        /\ SessionGuards(row)[5][1] <=> row.appId \in Apps \cup {None}
        /\ SessionGuards(row)[5][2] = "DB_FOREIGN_KEY"
    BY DEF SessionGuards
  <2>4. ~(/\ row.sessionType = "account" => row.appId = None
          /\ row.sessionType = "app" => row.appId # None) =>
            "DB_CHECK" \in Schema!Violated(t, row)
    BY <1>8, CheckedIs, ViolatedIs
  <2>5. row.appId \notin Apps \cup {None} =>
          "DB_FOREIGN_KEY" \in Schema!Violated(t, row)
    BY <1>8, ReferencedIs, ViolatedIs
  <2>6. Tells(t, row, guards[1])
    BY <2>1, <2>2, <2>3, UserKnownTells
  <2>7. Tells(t, row, guards[2])
    BY <1>8, <2>2, <2>3, FreshTells
  <2>8. Tells(t, row, guards[3]) /\ Tells(t, row, guards[4])
    BY <2>2, <2>3, <2>4 DEF Tells
  <2>9. Tells(t, row, guards[5])
    BY <2>2, <2>3, <2>5 DEF Tells
  <2>10. QED
    BY <2>1, <2>6, <2>7, <2>8, <2>9
<1>9. QED
  BY <1>1, <1>2, <1>3, <1>4, <1>5, <1>6, <1>7, <1>8, TablesAre

\* What Expected asks of a ledger row.
OfItsUser(t, row) ==
  t = "ledger" /\ row.reservationId # None =>
    \E r \in Get("reservations", row.reservationId) : r.userId = row.userId

LEMMA AdmittedIsFine ==
  ASSUME StoreInv, NEW t \in Tables, NEW row \in NewRow[t], Admitted(t, row),
         OfItsUser(t, row), ~Has(t, MapKey(t, row))
  PROVE  Schema!Violated(t, row) = {}
<1>1. Schema!Checked(t, row)
  <2>1. CASE t = "wallets"
    <3>1. row.availableBalance = 0 /\ row.reservedBalance = 0
      BY <2>1, NewRowsAre DEF NewWallet
    <3>2. QED
      BY <2>1, <3>1, CheckedIs
  <2>2. CASE t \in {"sessions", "serviceCredentials", "reservations"}
    BY <2>2, CheckedIs DEF Admitted
  <2>3. QED
    BY <2>1, <2>2, CheckedIs, TablesAre
<1>2. Schema!Referenced(AsTables, t, row)
  <2>1. t \in Owned => \E u \in Values("users") : u.id = row.userId
    BY UserIsThere DEF Admitted, StoreInv
  <2>2. t \in {"sessions", "serviceCredentials"} => row.appId \in Apps \cup {None}
    BY DEF Admitted
  <2>3. t = "ledger" /\ row.reservationId # None =>
          \E r \in Values("reservations") : r.id = row.reservationId
    <3>1. "reservations" \in Tables
          /\ \A r : MapKey("reservations", r) = r.id
      BY TablesAre, KeysAre
    <3>2. QED
      BY <3>1, GetIs DEF OfItsUser, StoreInv
  <2>4. QED
    BY <2>1, <2>2, <2>3, ReferencedIs
<1>3. ASSUME NEW r \in Values(t) PROVE ~Schema!SameKey(t, r, row)
  <2>1. MapKey(t, r) # MapKey(t, row)
    BY RowAtItsKey DEF StoreInv
  <2>2. CASE t \in {"users", "usage"}
    BY <2>2, SameKeyIs
  <2>3. CASE t \in {"identities", "serviceCredentials", "ledger",
                    "reservations"}
    BY <2>3, SameKeyIs DEF Admitted
  <2>4. CASE t \in {"profiles", "wallets"}
    <3>1. \A x : MapKey(t, x) = x.userId
      BY <2>4, KeysAre
    <3>2. QED
      BY <2>1, <2>4, <3>1, SameKeyIs
  <2>5. CASE t = "sessions"
    <3>1. \A x : MapKey(t, x) = x.tokenHash
      BY <2>5, KeysAre
    <3>2. QED
      BY <2>1, <2>5, <3>1, SameKeyIs
  <2>6. CASE t = "entitlements"
    <3>1. \A x : MapKey(t, x) = <<x.userId, x.key>>
      BY <2>6, KeysAre
    <3>2. QED
      BY <2>1, <2>6, <3>1, SameKeyIs
  <2>7. CASE t = "acquisitions"
    <3>1. \A x : MapKey(t, x) = <<x.userId, x.provider>>
      BY <2>7, KeysAre
    <3>2. QED
      BY <2>1, <2>7, <3>1, SameKeyIs
  <2>8. QED
    BY <2>2, <2>3, <2>4, <2>5, <2>6, <2>7, TablesAre
<1>4. QED
  BY <1>1, <1>2, <1>3, ViolatedIs

\* A row that violates one constraint at most violates the one that is known.
LEMMA OnlyOne ==
  ASSUME NEW t \in Tables, NEW row, NEW e \in Schema!Violated(t, row),
         Cardinality(Schema!Violated(t, row)) <= 1
  PROVE  Schema!Violated(t, row) = {e}
<1> DEFINE V == Schema!Violated(t, row)
<1>1. IsFiniteSet(V)
  <2>1. IsFiniteSet({} \cup {"DB_CHECK"})
    BY FS_EmptySet, FS_AddElement
  <2>2. IsFiniteSet(({} \cup {"DB_CHECK"}) \cup {"DB_CONFLICT"})
    BY <2>1, FS_AddElement
  <2>3. IsFiniteSet((({} \cup {"DB_CHECK"}) \cup {"DB_CONFLICT"})
                      \cup {"DB_FOREIGN_KEY"})
    BY <2>2, FS_AddElement
  <2>4. V \subseteq (({} \cup {"DB_CHECK"}) \cup {"DB_CONFLICT"})
                      \cup {"DB_FOREIGN_KEY"}
    BY ViolatedIs
  <2>5. QED
    BY <2>3, <2>4, FS_Subset
<1>2. ASSUME NEW f \in V, f # e PROVE FALSE
  <2>1. IsFiniteSet(V \ {e}) /\ Cardinality(V \ {e}) = Cardinality(V) - 1
    BY <1>1, FS_RemoveElement
  <2>2. Cardinality(V \ {e}) \in Nat /\ Cardinality(V) \in Nat
    BY <1>1, <2>1, FS_CardinalityType
  <2>3. Cardinality(V \ {e}) = 0
    BY <2>1, <2>2
  <2>4. V \ {e} = {}
    BY <2>1, <2>3, FS_EmptySet
  <2>5. QED
    BY <1>2, <2>4
<1>3. QED
  BY <1>2

LEMMA InsertImplements ==
  ASSUME StoreInv, NEW t \in Tables, NEW row \in NewRow[t], Insert(t, row),
         Cardinality(Schema!Violated(t, row)) <= 1, OfItsUser(t, row),
         t \notin {"profiles", "sessions", "wallets"} =>
           ~Has(t, MapKey(t, row))
  PROVE  Schema!Insert(t, row)
<1> DEFINE V == Schema!Violated(t, row)
<1>1. CASE Failed(t, row) = {} /\ Store(t, row)
  <2>1. Admitted(t, row) /\ row \in Row[t]
    BY <1>1, GuardsHold, AdmittedTyped
  <2>2. ~Has(t, MapKey(t, row))
    BY <2>1 DEF Admitted
  <2>3. V = {}
    BY <2>1, <2>2, AdmittedIsFine
  <2>4. Adds(t, row) /\ Rows({row})
    BY <1>1, <2>1, <2>2 DEF Adds, Store, Puts, OfItsUser
  <2>5. /\ Values(t)' = Values(t) \cup {row}
        /\ \A s \in Tables \ {t} : Values(s)' = Values(s)
    BY <2>1, <2>4, AddedValues DEF StoreInv
  <2>6. Schema!Replace(t, {}, {row}) /\ Schema!Rows({row})
    BY <2>4, <2>5, ReplaceIs, RowsAndThrows
  <2>7. QED
    BY <2>3, <2>6 DEF Schema!Insert
<1>2. ASSUME NEW i \in Failed(t, row), Throw(Guards(t, row)[i][2])
      PROVE  Schema!Insert(t, row)
  <2> DEFINE e == Guards(t, row)[i][2]
  <2>1. e \in V
    BY GuardsTell DEF StoreInv, Failed, Tells
  <2>2. V = {e}
    BY <2>1, OnlyOne
  <2>3. e \in {"DB_CHECK", "DB_CONFLICT", "DB_FOREIGN_KEY"}
    BY <2>1, ViolatedIs
  <2>4. Schema!Throw(e)
    BY <1>2, RowsAndThrows
  <2> HIDE DEF e
  <2>5. QED
    BY <2>2, <2>3, <2>4 DEF Schema!Insert
<1>3. QED
  BY <1>1, <1>2, InsertIs

\* The tables without ids.
LEMMA RowHasNoId ==
  ASSUME NEW t \in {"profiles", "sessions", "wallets", "entitlements",
                    "acquisitions"},
         NEW row \in NewRow[t]
  PROVE  "id" \notin DOMAIN row
<1>1. CASE t = "profiles"
  <2>1. row \in Profile
    BY <1>1, NewRowsAre, RowsAre, TablesAre
  <2>2. QED
    BY <2>1 DEF Profile
<1>2. CASE t = "sessions"
  <2>1. row \in Session
    BY <1>2, NewRowsAre, RowsAre, TablesAre
  <2>2. QED
    BY <2>1 DEF Session
<1>3. CASE t = "wallets"
  BY <1>3, NewRowsAre DEF NewWallet
<1>4. CASE t = "entitlements"
  <2>1. row \in Entitlement
    BY <1>4, NewRowsAre, RowsAre, TablesAre
  <2>2. QED
    BY <2>1 DEF Entitlement
<1>5. CASE t = "acquisitions"
  <2>1. row \in Acquisition
    BY <1>5, NewRowsAre, RowsAre, TablesAre
  <2>2. QED
    BY <2>1 DEF Acquisition
<1>6. QED
  BY <1>1, <1>2, <1>3, <1>4, <1>5

LEMMA GetOrInsertImplements ==
  ASSUME StoreInv, NEW t \in {"entitlements", "acquisitions"},
         NEW row \in NewRow[t], GetOrInsert(t, row),
         Cardinality(Schema!Violated(t, row)) <= 1
  PROVE  Schema!InsertOrGet(t, row)
<1> DEFINE there == {r \in AsTables[t] : Schema!SameKey(t, r, row)}
<1>1. t \in Tables /\ t \in Owned /\ AsTables[t] = Values(t)
  BY TablesAre, AsTablesAre
<1>2. \A r : Schema!SameKey(t, r, row) <=> MapKey(t, r) = MapKey(t, row)
  <2>1. CASE t = "entitlements"
    <3>1. \A x : MapKey(t, x) = <<x.userId, x.key>>
      BY <2>1, KeysAre
    <3>2. QED
      BY <2>1, <3>1, SameKeyIs
  <2>2. CASE t = "acquisitions"
    <3>1. \A x : MapKey(t, x) = <<x.userId, x.provider>>
      BY <2>2, KeysAre
    <3>2. QED
      BY <2>2, <3>1, SameKeyIs
  <2>3. QED
    BY <2>1, <2>2
<1>3. there = Get(t, MapKey(t, row))
  BY <1>1, <1>2, GetIs DEF StoreInv
<1>4. CASE row.userId \in DOMAIN store.users /\ Has(t, MapKey(t, row))
  <2>1. there # {}
    BY <1>3, <1>4 DEF Get
  <2>2. Rows(there) /\ UNCHANGED store
    BY <1>3, <1>4 DEF GetOrInsert
  <2>3. Schema!Rows(there) /\ UNCHANGED AsTables
    BY <2>2, RowsAndThrows, SameTables
  <2>4. QED
    BY <2>1, <2>3 DEF Schema!InsertOrGet
<1>5. CASE ~(row.userId \in DOMAIN store.users /\ Has(t, MapKey(t, row)))
  <2>1. ASSUME Has(t, MapKey(t, row)) PROVE FALSE
    <3>1. PICK r \in Values(t) : MapKey(t, r) = MapKey(t, row)
      BY <1>1, <2>1, ValuesAre DEF Has, StoreInv, StoreTypeOK
    <3>2. r.userId = row.userId
      <4>1. Schema!SameKey(t, r, row)
        BY <1>2, <3>1
      <4>2. QED
        BY <4>1, SameKeyIs
    <3>3. \E u \in Values("users") : u.id = row.userId
      BY <1>1, <3>1, <3>2 DEF StoreInv, OwnersAreThere
    <3>4. row.userId \in DOMAIN store.users
      BY <3>3, UserIsThere DEF StoreInv
    <3>5. QED
      BY <1>5, <2>1, <3>4
  <2>2. there = {}
    BY <1>3, <2>1 DEF Get
  <2>3. Insert(t, row) /\ OfItsUser(t, row)
    BY <1>5 DEF GetOrInsert, OfItsUser
  <2>4. Schema!Insert(t, row)
    BY <1>1, <2>1, <2>3, InsertImplements
  <2>5. QED
    BY <2>2, <2>4 DEF Schema!InsertOrGet
<1>6. QED
  BY <1>4, <1>5

LEMMA CreateImplements ==
  ASSUME StoreInv, NEW c \in Call, Expected(c), Create(c)
  PROVE  Schema!Create(c)
<1> DEFINE t == c.table
           row == c.row
<1>1. c.do = "create" /\ t \in Tables /\ row \in NewRow[t]
  BY CallIs DEF Create
<1>2. Cardinality(Schema!Violated(t, row)) <= 1 /\ OfItsUser(t, row)
  BY <1>1 DEF Expected, OfItsUser
<1>3. t \in {"users", "identities", "serviceCredentials", "ledger",
             "reservations", "usage"} =>
        /\ ~Has(t, MapKey(t, row))
        /\ \A r \in Values(t) : r.id # row.id
  <2>1. SUFFICES ASSUME t \in {"users", "identities", "serviceCredentials",
                               "ledger", "reservations", "usage"}
                 PROVE  /\ ~Has(t, MapKey(t, row))
                        /\ \A r \in Values(t) : r.id # row.id
    OBVIOUS
  <2>2. \A r : MapKey(t, r) = r.id
    BY <2>1, KeysAre
  <2>3. ~Has(t, row.id)
    BY <1>1, <2>1, RowHasId DEF Create
  <2>4. QED
    BY <1>1, <2>2, <2>3, RowAtItsKey DEF StoreInv
<1>4. Schema!Drawn(t, row)
  <2>1. CASE t \in {"users", "identities", "serviceCredentials", "ledger",
                    "reservations", "usage"}
    BY <1>1, <1>3, <2>1, AsTablesAre DEF Schema!Drawn
  <2>2. CASE t \in {"profiles", "sessions", "wallets", "entitlements",
                    "acquisitions"}
    BY <1>1, <2>2, RowHasNoId DEF Schema!Drawn
  <2>3. QED
    BY <1>1, <2>1, <2>2, TablesAre
<1>5. CASE t \in {"entitlements", "acquisitions"}
  <2>1. GetOrInsert(t, row)
    BY <1>5 DEF Create
  <2>2. Schema!InsertOrGet(t, row)
    BY <1>1, <1>2, <1>5, <2>1, GetOrInsertImplements
  <2>3. QED
    BY <1>1, <1>4, <1>5, <2>2 DEF Schema!Create
<1>6. CASE t \notin {"entitlements", "acquisitions"}
  <2>1. Insert(t, row)
    BY <1>6 DEF Create
  <2>2. t \notin {"profiles", "sessions", "wallets"} => ~Has(t, MapKey(t, row))
    BY <1>1, <1>3, <1>6, TablesAre
  <2>3. Schema!Insert(t, row)
    BY <1>1, <1>2, <2>1, <2>2, InsertImplements
  <2>4. QED
    BY <1>1, <1>4, <1>6, <2>3 DEF Schema!Create
<1>7. QED
  BY <1>5, <1>6

LEMMA StepImplements ==
  ASSUME StoreInv, StoreInv', [Next]_vars
  PROVE  [Schema!Next]_(Schema!vars)
<1>1. CASE UNCHANGED vars
  BY <1>1, SameTables DEF vars, Schema!vars
<1>2. CASE Next
  <2>1. PICK c \in Call : Expected(c) /\ call' = c /\ Do(c)
    BY <1>2 DEF Next
  <2>2. Schema!Do(c)
    BY <2>1, ReadImplements, CreateImplements, DeleteUserImplements,
      DeleteByTokenHashImplements, DeleteExpiredImplements, RevokeImplements,
      TryReserveImplements, AdjustImplements, TransitionImplements
    DEF Do, Schema!Do
  <2>3. QED
    BY <2>1, <2>2, SchemaOperators DEF Schema!Next
<1>3. QED
  BY <1>1, <1>2

\* "Enforces the SAME constraint semantics as the real schema" (memory.ts:3-6):
\* whatever is called, in the cases that Expected describes, the maps change
\* as the tables would and the answer is the one the schema gives.
THEOREM FakesImplementSchema ==
  Spec => ImplementsSchema
<1>1. Init => Schema!Init
  <2>1. SUFFICES ASSUME Init PROVE Schema!Init
    OBVIOUS
  <2>2. \A t \in Tables : store[t] = <<>>
    BY <2>1 DEF Init
  <2>3. \A t \in Tables : Values(t) = {}
    BY <2>2, ValuesAre
  <2>4. AsTables = [t \in Tables |-> {}]
    BY <2>3 DEF AsTables
  <2>5. QED
    BY <2>1, <2>4, SchemaOperators DEF Init, Schema!Init
<1>2. StoreInv /\ StoreInv' /\ [Next]_vars => [Schema!Next]_(Schema!vars)
  BY StepImplements
<1>3. QED
  BY <1>1, <1>2, StoreInvariant, PTL DEF Spec, ImplementsSchema, Schema!Spec
=============================================================================
