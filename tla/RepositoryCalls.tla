-------------------------- MODULE RepositoryCalls --------------------------
(***************************************************************************)
(* The repositories' interface (packages/db/src/repos.ts, types.ts): the   *)
(* rows, and the calls with the inputs that the compiler admits.           *)
(* SchemaRepositories answers them from the migrated tables, and           *)
(* MemoryRepositories, the fakes of the unit tests, from maps.             *)
(*                                                                         *)
(* A row keeps the columns that a later call can depend on: those of keys, *)
(* references and conditions.  Timestamps but for an expiry, and what is   *)
(* stored only to be shown, are left out; so are the app and the operation *)
(* of reservations, ledger and usage, which are those of the registry.     *)
(***************************************************************************)
EXTENDS Integers, FiniteSets

CONSTANTS
  UserIds,       \* ids of users
  Ids,           \* ids of other rows
  AppIds, Apps,  \* what may be named as an application; the rows of apps
  IdentityProvider, PlatformIds,
  TokenHashes,
  KeyIds, BadKeyIds,            \* BadKeyIds do not match the pattern of key_id
  Keys,          \* request ids, idempotency keys, entitlement keys
  StartParams,
  Instants,      \* of expiry
  Amounts,       \* of credit, negative ones included
  Versions,      \* of a wallet, that a caller may expect
  None

ASSUME RegistryAssumption ==
  /\ Apps \subseteq AppIds
  /\ BadKeyIds \subseteq KeyIds
  /\ Instants \subseteq Nat /\ Versions \subseteq Nat /\ Amounts \subseteq Int
  /\ None \notin AppIds \cup Ids \cup Versions

-----------------------------------------------------------------------------
(* Rows *)

User == [id : UserIds]

Identity ==
  [id : Ids, userId : UserIds, provider : IdentityProvider,
   providerUserId : PlatformIds]

Profile == [userId : UserIds]

Session ==
  [tokenHash : TokenHashes, userId : UserIds, sessionType : {"account", "app"},
   appId : AppIds \cup {None}, expiresAt : Instants]

ServiceCredential ==
  [id : Ids, appId : AppIds, keyId : KeyIds, status : {"active", "revoked"}]

Wallet ==
  [userId : UserIds, availableBalance : Nat, reservedBalance : Nat,
   version : Nat]

ReservationStatus == {"reserved", "committed", "released"}

Reservation ==
  [id : Ids, userId : UserIds, amount : Nat, status : ReservationStatus,
   requestId : Keys]

LedgerEntry ==
  [id : Ids, userId : UserIds, reservationId : Ids \cup {None},
   idempotencyKey : Keys]

UsageEvent == [id : Ids, userId : UserIds]

Entitlement == [userId : UserIds, key : Keys]

Acquisition ==
  [userId : UserIds, provider : IdentityProvider, startParam : StartParams]

Row ==
  [users |-> User, identities |-> Identity, profiles |-> Profile,
   sessions |-> Session, serviceCredentials |-> ServiceCredential,
   wallets |-> Wallet, ledger |-> LedgerEntry, reservations |-> Reservation,
   usage |-> UsageEvent, entitlements |-> Entitlement,
   acquisitions |-> Acquisition]

Tables == DOMAIN Row

\* The tables whose rows belong to a user.
Owned == Tables \ {"users", "serviceCredentials"}

NewWallet(u) ==
  [userId |-> u, availableBalance |-> 0, reservedBalance |-> 0, version |-> 0]

-----------------------------------------------------------------------------
(* Calls.  The id that a create call draws is part of the call. *)

\* The columns that find a row, or the rows of a list.
Selectors ==
  [users |-> {{"id"}}, identities |-> {{"provider", "providerUserId"}},
   profiles |-> {{"userId"}}, sessions |-> {{"tokenHash"}},
   serviceCredentials |-> {{"keyId"}, {"appId"}}, wallets |-> {{"userId"}},
   ledger |-> {{"userId"}}, reservations |-> {{"id"}, {"userId", "requestId"}},
   usage |-> {{"userId"}}, entitlements |-> {{"userId"}, {"userId", "key"}},
   acquisitions |-> {{"userId", "provider"}}]

ColumnType ==
  [id |-> Ids \cup UserIds, userId |-> UserIds, provider |-> IdentityProvider,
   providerUserId |-> PlatformIds, tokenHash |-> TokenHashes,
   keyId |-> KeyIds, appId |-> AppIds, requestId |-> Keys, key |-> Keys]

\* What a read looks for: a value for each of its columns.
Where(t) ==
  UNION {{w \in [columns -> UNION {ColumnType[c] : c \in columns}] :
            \A c \in columns : w[c] \in ColumnType[c]} :
           columns \in Selectors[t]}

\* getBy..., find..., listBy..., has
Reads ==
  UNION {[do : {"read"}, table : {t}, where : Where(t)] : t \in Tables}

NewRow ==
  [Row EXCEPT
     !.serviceCredentials = {r \in @ : r.status = "active"},
     !.wallets = {NewWallet(u) : u \in UserIds},
     !.reservations =
       [id : Ids, userId : UserIds, amount : Amounts, status : {"reserved"},
        requestId : Keys]]

\* create, append, record, grant and recordFirstSeen
Creates ==
  UNION {[do : {"create"}, table : {t}, row : NewRow[t]] : t \in Tables}

Updates ==
  [do : {"deleteUser"}, id : UserIds]
    \cup [do : {"deleteByTokenHash"}, tokenHash : TokenHashes]
    \cup [do : {"deleteExpired"}, now : Instants]
    \cup [do : {"revokeByKeyId"}, keyId : KeyIds]
    \cup [do : {"tryReserve"}, userId : UserIds, amount : Amounts]
    \cup [do : {"adjust"}, userId : UserIds, available : Amounts,
          reserved : Amounts, expectedVersion : Versions \cup {None}]
    \cup [do : {"transition"}, id : Ids, from : {{s} : s \in ReservationStatus},
          to : ReservationStatus]

Call == Reads \cup Creates \cup Updates
=============================================================================
