-------------------------- MODULE PlatformExchange --------------------------
(***************************************************************************)
(* exchangeIdentity (apps/api/src/services/exchange.ts): a validated       *)
(* platform identity becomes an account and a session.  The browser calls  *)
(* it for an account session, the backend of an application for one of     *)
(* that application.  Concurrent exchanges of one identity meet on the     *)
(* unique key (provider, provider_user_id) only: every other row a signup  *)
(* inserts belongs to the user it has just created.                        *)
(*                                                                         *)
(* Transactions are those of CreditEngine: READ COMMITTED, what is written *)
(* becomes visible at COMMIT, an INSERT waits for an uncommitted row with  *)
(* its key, an UPDATE for a row another transaction has updated.           *)
(***************************************************************************)
EXTENDS AccountTables

CONSTANTS
  Clients,   \* concurrent exchanges
  Instance,  \* the API instance that runs each of them
  PoolSize   \* pg pool of an instance: max connections

ASSUME PoolSizeAssumption == PoolSize \in Nat \ {0}

VARIABLES
  pc,     \* where an exchange is
  call,   \* its identity, and the application it is for
  user,   \* signup: users.create; login: existing.userId
  buf,    \* the rows its transaction has inserted and not committed
  touched,\* whether it has updated the row of its identity
  out     \* the outcome, answered when pc is "done"

vars == <<db, pc, call, user, buf, touched, out>>

-----------------------------------------------------------------------------
Call == [identity : Identities, app : Apps \cup {None}]

Codes == {"OK", "INTERNAL_ERROR", "UNAVAILABLE"}

Outcome ==
  [code : Codes, user : UserIds \cup {None}, isNewUser : BOOLEAN,
   token : Tokens \cup {None}]

Failed(code) ==
  [code |-> code, user |-> None, isNewUser |-> FALSE, token |-> None]

Locations ==
  {"idle", "connect", "find", "create", "open", "reconnect", "login", "touch",
   "load", "mint", "commit", "done"}

\* MUTANT of InTransaction: the login runs inside the catch of the signup's
\* transaction, which keeps its connection.
KeepsConnection(p) == pc[p] \notin {"idle", "connect", "done"}

InTransaction(p) == pc[p] \notin {"idle", "connect", "reconnect", "done"}

\* Connections in use in the instance of p.
Connections(p) ==
  Cardinality({q \in Clients : Instance[q] = Instance[p] /\ InTransaction(q)})

\* p has inserted or updated the row of identity i and not committed.
Holds(p, i) ==
  \/ \E row \in buf[p].identities : row.identity = i
  \/ touched[p] /\ call[p].identity = i

IdentityFree(p) == \A q \in Clients \ {p} : ~Holds(q, call[p].identity)

FreshUsers == UserIds \ (db.users \cup UNION {buf[p].users : p \in Clients})

\* 256 random bits: a token nobody has.
FreshTokens ==
  {k \in Tokens :
     \A row \in db.sessions \cup UNION {buf[p].sessions : p \in Clients} :
       row.token # k}

-----------------------------------------------------------------------------
(* Moves of an exchange *)

Goto(p, location) == pc' = [pc EXCEPT ![p] = location]

Continue(p, location) ==
  Goto(p, location) /\ UNCHANGED <<db, call, user, buf, touched, out>>

\* ROLLBACK: nothing it wrote remains.
Rollback(p) ==
  /\ buf' = [buf EXCEPT ![p] = Nothing]
  /\ touched' = [touched EXCEPT ![p] = FALSE]

Fail(p, code) ==
  /\ Rollback(p)
  /\ out' = [out EXCEPT ![p] = Failed(code)]
  /\ Goto(p, "done")
  /\ UNCHANGED <<db, call, user>>

\* An exchange arrives.  Bound: as long as there is a token for its session.
Start(p) ==
  /\ pc[p] = "idle"
  /\ Cardinality(db.sessions)
       + Cardinality({q \in Clients : pc[q] # "idle"}) < Cardinality(Tokens)
  /\ \E c \in Call : call' = [call EXCEPT ![p] = c]
  /\ Goto(p, "connect")
  /\ UNCHANGED <<db, user, buf, touched, out>>

\* pool.connect() and BEGIN, of signupOrLogin or of the second transaction.
Connect(p) ==
  /\ Connections(p) < PoolSize
  /\ \/ pc[p] = "connect" /\ Continue(p, "find")
     \/ pc[p] = "reconnect" /\ Continue(p, "login")

-----------------------------------------------------------------------------
(* signupOrLogin *)

FindIdentity(p) ==
  /\ pc[p] = "find"
  /\ Continue(p, IF UsersOf(call[p].identity) = {} THEN "create" ELSE "login")

\* MUTANT of RetryAsLogin: the conflict is not caught.
ConflictEscapes(p) == Fail(p, "CONFLICT")

\* DbConflictError: the transaction is rolled back, then a second one runs
\* loginExisting.
RetryAsLogin(p) ==
  /\ Rollback(p)
  /\ Goto(p, "reconnect")
  /\ UNCHANGED <<db, call, user, out>>

\* MUTANT of CreateIdentity: an uncommitted signup is a conflict at once.
ConflictWithoutWaiting(p) ==
  LET i == call[p].identity
  IN  /\ pc[p] = "create"
      /\ \/ /\ UsersOf(i) # {} \/ ~IdentityFree(p)
            /\ RetryAsLogin(p)
         \/ /\ UsersOf(i) = {} /\ IdentityFree(p)
            /\ \E u \in FreshUsers :
                 /\ user' = [user EXCEPT ![p] = u]
                 /\ buf' = [buf EXCEPT ![p].users = {u},
                                       ![p].identities = {NewIdentity(i, u)}]
            /\ Goto(p, "open")
            /\ UNCHANGED <<db, call, touched, out>>

\* MUTANT of CreateIdentity: the identity has no unique key.
CreateRegardless(p) ==
  LET i == call[p].identity
  IN  /\ pc[p] = "create"
      /\ \E u \in FreshUsers :
           /\ user' = [user EXCEPT ![p] = u]
           /\ buf' = [buf EXCEPT ![p].users = {u},
                                 ![p].identities = {NewIdentity(i, u)}]
      /\ Goto(p, "open")
      /\ UNCHANGED <<db, call, touched, out>>

\* MUTANT of CreateIdentity: insert ... on conflict do nothing.
CreateOrSkip(p) ==
  LET i == call[p].identity
  IN  /\ pc[p] = "create"
      /\ IdentityFree(p)
      /\ \E u \in FreshUsers :
           /\ user' = [user EXCEPT ![p] = u]
           /\ buf' = [buf EXCEPT ![p].users = {u},
                                 ![p].identities =
                                   {row \in {NewIdentity(i, u)} :
                                      UsersOf(i) = {}}]
      /\ Goto(p, "open")
      /\ UNCHANGED <<db, call, touched, out>>

\* users.create and identities.create
CreateIdentity(p) ==
  LET i == call[p].identity
  IN  /\ pc[p] = "create"
      /\ IdentityFree(p)
      /\ \/ /\ UsersOf(i) # {}
            /\ RetryAsLogin(p)
         \/ /\ UsersOf(i) = {}
            /\ \E u \in FreshUsers :
                 /\ user' = [user EXCEPT ![p] = u]
                 /\ buf' = [buf EXCEPT ![p].users = {u},
                                       ![p].identities = {NewIdentity(i, u)}]
            /\ Goto(p, "open")
            /\ UNCHANGED <<db, call, touched, out>>

\* profiles.create, wallets.create and adjust, ledger.append and
\* recordFirstSeen: rows of a user nobody else can see.
OpenAccount(p) ==
  LET u == user[p]
  IN  /\ pc[p] = "open"
      /\ buf' = [buf EXCEPT ![p].profiles = {u},
                            ![p].wallets = {NewWallet(u)},
                            ![p].ledger = {WelcomeRow(u)},
                            ![p].acquisitions = {u}]
      /\ Goto(p, "mint")
      /\ UNCHANGED <<db, call, user, touched, out>>

-----------------------------------------------------------------------------
(* loginExisting *)

FindExisting(p) ==
  LET found == UsersOf(call[p].identity)
  IN  /\ pc[p] = "login"
      /\ \/ /\ found = {}
            /\ Fail(p, "INTERNAL_ERROR")
         \/ /\ \E u \in found : user' = [user EXCEPT ![p] = u]
            /\ Goto(p, "touch")
            /\ UNCHANGED <<db, call, buf, touched, out>>

TouchLastSeen(p) ==
  /\ pc[p] = "touch"
  /\ IdentityFree(p)
  /\ touched' = [touched EXCEPT ![p] = TRUE]
  /\ Goto(p, "load")
  /\ UNCHANGED <<db, call, user, buf, out>>

\* users.getById and wallets.getByUserId; the profile may be missing.
LoadAccount(p) ==
  LET u == user[p]
      whole == u \in db.users /\ \E w \in db.wallets : w.user = u
  IN  /\ pc[p] = "load"
      /\ \/ ~whole /\ Fail(p, "INTERNAL_ERROR")
         \/ whole /\ Continue(p, "mint")

-----------------------------------------------------------------------------
(* mintSession, and the end of an exchange *)

\* The user is created in this transaction.
IsNewUser(p) == user[p] \in buf[p].users

\* MUTANT of MintSession: the login does not pass appId on.
MintAccountSession(p) ==
  LET u == user[p]
      a == IF IsNewUser(p) THEN call[p].app ELSE None
  IN  /\ pc[p] = "mint"
      /\ \E k \in FreshTokens :
           /\ buf' = [buf EXCEPT ![p].sessions = {NewSession(k, u, a)}]
           /\ out' = [out EXCEPT ![p] =
                        [code |-> "OK", user |-> u, isNewUser |-> IsNewUser(p),
                         token |-> k]]
      /\ Goto(p, "commit")
      /\ UNCHANGED <<db, call, user, touched>>

MintSession(p) ==
  LET u == user[p]
  IN  /\ pc[p] = "mint"
      /\ \E k \in FreshTokens :
           /\ buf' = [buf EXCEPT
                        ![p].sessions = {NewSession(k, u, call[p].app)}]
           /\ out' = [out EXCEPT ![p] =
                        [code |-> "OK", user |-> u, isNewUser |-> IsNewUser(p),
                         token |-> k]]
      /\ Goto(p, "commit")
      /\ UNCHANGED <<db, call, user, touched>>

\* COMMIT: the rows become visible, the row of the identity is free.
Publish(p) ==
  /\ pc[p] = "commit"
  /\ db' = Together(db, buf[p])
  /\ Rollback(p)
  /\ Goto(p, "done")
  /\ UNCHANGED <<call, user>>

CommitTransaction(p) == Publish(p) /\ UNCHANGED out

\* COMMIT ran and its answer never arrived: the session is nobody's.
LoseAcknowledgement(p) ==
  /\ Publish(p)
  /\ out' = [out EXCEPT ![p] = Failed("UNAVAILABLE")]

\* The instance stops, or a statement fails.
Crash(p) == pc[p] \notin {"idle", "done"} /\ Fail(p, "UNAVAILABLE")

Deliver(p) ==
  /\ pc[p] = "done"
  /\ Goto(p, "idle")
  /\ call' = [call EXCEPT ![p] = None]
  /\ user' = [user EXCEPT ![p] = None]
  /\ out' = [out EXCEPT ![p] = None]
  /\ UNCHANGED <<db, buf, touched>>

-----------------------------------------------------------------------------
Init ==
  /\ db = Nothing
  /\ pc = [p \in Clients |-> "idle"]
  /\ call = [p \in Clients |-> None]
  /\ user = [p \in Clients |-> None]
  /\ buf = [p \in Clients |-> Nothing]
  /\ touched = [p \in Clients |-> FALSE]
  /\ out = [p \in Clients |-> None]

\* The steps that may have to wait for another exchange.
Acquire(p) == Connect(p) \/ CreateIdentity(p) \/ TouchLastSeen(p)

Proceed(p) ==
  \/ FindIdentity(p)
  \/ OpenAccount(p)
  \/ FindExisting(p)
  \/ LoadAccount(p)
  \/ MintSession(p)
  \/ CommitTransaction(p)

Next ==
  \E p \in Clients :
    \/ Start(p)
    \/ Acquire(p)
    \/ Proceed(p)
    \/ LoseAcknowledgement(p)
    \/ Crash(p)
    \/ Deliver(p)

\* As in CreditEngine: rows and connections are given to waiters in order.
Fairness ==
  \A p \in Clients : WF_vars(Proceed(p) \/ Deliver(p)) /\ SF_vars(Acquire(p))

Spec == Init /\ [][Next]_vars

FairSpec == Spec /\ Fairness

-----------------------------------------------------------------------------
ExchangeTypeOK ==
  /\ db \in Database
  /\ pc \in [Clients -> Locations]
  /\ call \in [Clients -> Call \cup {None}]
  /\ user \in [Clients -> UserIds \cup {None}]
  /\ buf \in [Clients -> Database]
  /\ touched \in [Clients -> BOOLEAN]
  /\ out \in [Clients -> Outcome \cup {None}]

\* Whatever races the exchanges ran, the committed tables change by whole
\* signups and logins only: an account is never seen half opened.
Opening == INSTANCE AccountOpening WITH
             Identities <- Identities, UserIds <- UserIds, Tokens <- Tokens,
             Apps <- Apps, WelcomeCredit <- WelcomeCredit, None <- None,
             db <- db

ImplementsOpening == Opening!Spec

\* One retry is enough, and always finds the winner: the identity, user and
\* wallet that loginExisting insists on are there (exchange.ts:155-161).
NothingVanishes ==
  \A p \in Clients : pc[p] = "done" => out[p].code # "INTERNAL_ERROR"

\* isNewUser is told to the one exchange that opened the account, and to none
\* that lost the race or came later (exchange.ts:224, 260).
NewMeansOpened ==
  [][\A p \in Clients :
       pc[p] = "commit" /\ pc'[p] = "done" /\ out'[p].code = "OK" =>
         (out'[p].isNewUser <=> UsersOf(call[p].identity) = {})]_vars

\* The token an exchange is answered with opens a session of the user of its
\* identity, for the application that asked and for no other.
AnswerOpensSession ==
  \A p \in Clients :
    pc[p] = "done" /\ out[p].code = "OK" =>
      /\ UsersOf(call[p].identity) = {out[p].user}
      /\ {row \in db.sessions : row.token = out[p].token} =
           {NewSession(out[p].token, out[p].user, call[p].app)}

\* Every exchange is answered, also when it loses the race of a signup while
\* all connections are taken.
EveryExchangeReturns ==
  \A p \in Clients : pc[p] = "connect" ~> pc[p] = "done"
=============================================================================
