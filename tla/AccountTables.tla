---------------------------- MODULE AccountTables ----------------------------
(***************************************************************************)
(* The committed tables of accounts and sessions                           *)
(* (supabase/migrations) as sets of rows, and what must hold between them. *)
(* AccountOpening gives them their abstract steps, PlatformExchange the    *)
(* transactions of apps/api/src/services/exchange.ts.                      *)
(***************************************************************************)
EXTENDS Integers, FiniteSets

CONSTANTS
  Identities,    \* platform identities: a provider and the user's id there
  UserIds,       \* uuids the database may hand out for a user
  Tokens,        \* session tokens, as hashed
  Apps,          \* applications with a backend
  WelcomeCredit, \* deps.welcomeCredits
  None

ASSUME WelcomeCreditAssumption == WelcomeCredit \in Nat

ASSUME NoneIsNoRow == None \notin UserIds \cup Identities \cup Tokens \cup Apps

VARIABLE db   \* the committed rows of each table

Identity == [identity : Identities, user : UserIds]

Wallet == [user : UserIds, available : Nat, reserved : Nat]

LedgerRow == [user : UserIds, delta : Nat, balanceAfter : Nat]

\* session_type is "account" when app is None, and "app" otherwise.
Session == [token : Tokens, user : UserIds, app : Apps \cup {None}]

\* What the tables may hold; what a transaction has written has this form too.
Database ==
  [users : SUBSET UserIds,
   identities : SUBSET Identity,
   profiles : SUBSET UserIds,
   wallets : SUBSET Wallet,
   ledger : SUBSET LedgerRow,
   acquisitions : SUBSET UserIds,
   sessions : SUBSET Session]

Nothing ==
  [users |-> {}, identities |-> {}, profiles |-> {}, wallets |-> {},
   ledger |-> {}, acquisitions |-> {}, sessions |-> {}]

Together(d, e) == [t \in DOMAIN d |-> d[t] \cup e[t]]

\* findByProvider: the users an identity belongs to, one at most.
UsersOf(i) == {row.user : row \in {x \in db.identities : x.identity = i}}

-----------------------------------------------------------------------------
(* What signupOrLogin writes *)

NewIdentity(i, u) == [identity |-> i, user |-> u]

\* wallets.create and adjust
NewWallet(u) == [user |-> u, available |-> WelcomeCredit, reserved |-> 0]

\* ledger.append, under the key welcome_bonus
WelcomeRow(u) ==
  [user |-> u, delta |-> WelcomeCredit, balanceAfter |-> WelcomeCredit]

NewSession(k, u, a) == [token |-> k, user |-> u, app |-> a]

\* All the rows of a new account.
NewAccount(i, u) ==
  [users |-> {u}, identities |-> {NewIdentity(i, u)}, profiles |-> {u},
   wallets |-> {NewWallet(u)}, ledger |-> {WelcomeRow(u)},
   acquisitions |-> {u}, sessions |-> {}]

-----------------------------------------------------------------------------
(* What must hold between the tables *)

\* Parallel first logins open one account: an identity has one user and a user
\* one identity, with its profile, its wallet, its one welcome row and its
\* acquisition; no user is left over from a lost race (exchange.ts:12-16).
AccountsAreWhole ==
  /\ \A i \in Identities : Cardinality(UsersOf(i)) <= 1
  /\ \A u \in UserIds :
       LET mine == {row \in db.identities : row.user = u}
           wallets == {row \in db.wallets : row.user = u}
           bonus == {row \in db.ledger : row.user = u}
       IN  IF u \in db.users
           THEN /\ Cardinality(mine) = 1
                /\ wallets = {NewWallet(u)}
                /\ bonus = {WelcomeRow(u)}
                /\ u \in db.profiles \cap db.acquisitions
           ELSE /\ mine = {} /\ wallets = {} /\ bonus = {}
                /\ u \notin db.profiles \cup db.acquisitions
=============================================================================
