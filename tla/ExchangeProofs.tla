--------------------------- MODULE ExchangeProofs ---------------------------
(***************************************************************************)
(* The inductive invariant of PlatformExchange, and what follows from it:  *)
(* accounts are whole, an exchange finds what it insists on, its answer is *)
(* true, and the tables change as AccountOpening says.                     *)
(***************************************************************************)
EXTENDS PlatformExchange, FiniteSetTheorems, TLAPS

-----------------------------------------------------------------------------
(* The invariant *)

\* The committed rows, without counting: one row per identity and per user,
\* and the same users in every table.
TablesWhole ==
  /\ \A x, y \in db.identities :
       x.identity = y.identity \/ x.user = y.user => x = y
  /\ \A x \in db.identities : x.user \in db.users
  /\ \A u \in db.users : \E x \in db.identities : x.user = u
  /\ db.profiles = db.users
  /\ db.acquisitions = db.users
  /\ db.wallets = {NewWallet(u) : u \in db.users}
  /\ db.ledger = {WelcomeRow(u) : u \in db.users}
  /\ \A x, y \in db.sessions : x.token = y.token => x = y

\* What a signup has written after CreateIdentity.
NewUser(i, u) ==
  [users |-> {u}, identities |-> {NewIdentity(i, u)}, profiles |-> {},
   wallets |-> {}, ledger |-> {}, acquisitions |-> {}, sessions |-> {}]

Clean(p) == buf[p] = Nothing /\ touched[p] = FALSE

\* Nobody has the identity yet, and nobody is the user.
SigningUp(p) ==
  /\ user[p] \in UserIds \ db.users
  /\ \A x \in db.identities : x.identity # call[p].identity
  /\ touched[p] = FALSE

\* The identity is that of the user.
LoggingIn(p) ==
  /\ user[p] \in UserIds
  /\ NewIdentity(call[p].identity, user[p]) \in db.identities

Minted(p) ==
  LET session == NewSession(out[p].token, user[p], call[p].app)
      account == NewAccount(call[p].identity, user[p])
  IN  /\ out[p] \in Outcome
      /\ out[p].code = "OK"
      /\ out[p].user = user[p]
      /\ out[p].token \in Tokens
      /\ \A x \in db.sessions : x.token # out[p].token
      /\ \/ /\ SigningUp(p)
            /\ buf[p] = [account EXCEPT !.sessions = {session}]
            /\ out[p].isNewUser = TRUE
         \/ /\ LoggingIn(p)
            /\ touched[p] = TRUE
            /\ buf[p] = [Nothing EXCEPT !.sessions = {session}]
            /\ out[p].isNewUser = FALSE

Answered(p) ==
  /\ out[p] \in Outcome
  /\ out[p].code # "INTERNAL_ERROR"
  /\ out[p].code = "OK" =>
       /\ NewIdentity(call[p].identity, out[p].user) \in db.identities
       /\ NewSession(out[p].token, out[p].user, call[p].app) \in db.sessions

\* What an exchange has written and found out, by where it is.
Fits(p) ==
  /\ pc[p] # "idle" => call[p] \in Call
  /\ pc[p] \in {"idle", "connect", "find", "create", "reconnect", "login",
                "touch", "done"} => Clean(p)
  /\ pc[p] = "open" =>
       SigningUp(p) /\ buf[p] = NewUser(call[p].identity, user[p])
  /\ pc[p] \in {"reconnect", "login"} =>
       \E x \in db.identities : x.identity = call[p].identity
  /\ pc[p] \in {"touch", "load"} => LoggingIn(p)
  /\ pc[p] = "load" => buf[p] = Nothing /\ touched[p] = TRUE
  /\ pc[p] = "mint" =>
       \/ SigningUp(p) /\ buf[p] = NewAccount(call[p].identity, user[p])
       \/ LoggingIn(p) /\ buf[p] = Nothing /\ touched[p] = TRUE
  /\ pc[p] = "commit" => Minted(p)
  /\ pc[p] = "done" => Answered(p)

\* No two exchanges hold an identity, a user or a token.
Apart(p, q) ==
  /\ \A i \in Identities : ~(Holds(p, i) /\ Holds(q, i))
  /\ buf[p].users \cap buf[q].users = {}
  /\ \A x \in buf[p].sessions, y \in buf[q].sessions : x.token # y.token

ExchangeInv ==
  /\ ExchangeTypeOK
  /\ TablesWhole
  /\ \A p \in Clients : Fits(p)
  /\ \A p, q \in Clients : p # q => Apart(p, q)

-----------------------------------------------------------------------------
(* Lemmas *)

LEMMA NothingFits == Nothing \in Database
BY DEF Nothing, Database

\* Rows are added table by table.
LEMMA TogetherTables ==
  ASSUME NEW d \in Database, NEW e \in Database
  PROVE  Together(d, e) =
           [users |-> d.users \cup e.users,
            identities |-> d.identities \cup e.identities,
            profiles |-> d.profiles \cup e.profiles,
            wallets |-> d.wallets \cup e.wallets,
            ledger |-> d.ledger \cup e.ledger,
            acquisitions |-> d.acquisitions \cup e.acquisitions,
            sessions |-> d.sessions \cup e.sessions]
<1> DEFINE T == {"users", "identities", "profiles", "wallets", "ledger",
                 "acquisitions", "sessions"}
<1>1. DOMAIN d = T
  BY DEF Database
<1>2. Together(d, e) = [t \in T |-> d[t] \cup e[t]]
  BY <1>1 DEF Together
<1>3. QED
  BY <1>2

\* What an exchange writes has the form of the tables.
LEMMA RowsFit ==
  ASSUME NEW i \in Identities, NEW u \in UserIds
  PROVE  NewUser(i, u) \in Database /\ NewAccount(i, u) \in Database
BY WelcomeCreditAssumption DEF NewUser, NewAccount, NewIdentity, NewWallet,
  WelcomeRow, Database, Identity, Wallet, LedgerRow, Session

LEMMA SessionFits ==
  ASSUME NEW k \in Tokens, NEW u \in UserIds, NEW a \in Apps \cup {None},
         NEW d \in Database
  PROVE  [d EXCEPT !.sessions = {NewSession(k, u, a)}] \in Database
BY DEF NewSession, Database, Session

\* users.create and identities.create; then profiles.create, wallets.create,
\* ledger.append and recordFirstSeen.
LEMMA UserRows ==
  ASSUME NEW i, NEW u
  PROVE  [Nothing EXCEPT !.users = {u}, !.identities = {NewIdentity(i, u)}]
           = NewUser(i, u)
<1> DEFINE r == [users |-> {u}, identities |-> {}, profiles |-> {},
                 wallets |-> {}, ledger |-> {}, acquisitions |-> {},
                 sessions |-> {}]
<1>1. [Nothing EXCEPT !.users = {u}] = r
  BY DEF Nothing
<1>2. [r EXCEPT !.identities = {NewIdentity(i, u)}] = NewUser(i, u)
  BY DEF NewUser
<1> HIDE DEF r
<1>3. QED
  BY <1>1, <1>2

LEMMA AccountRows ==
  ASSUME NEW i, NEW u
  PROVE  [NewUser(i, u) EXCEPT
            !.profiles = {u}, !.wallets = {NewWallet(u)},
            !.ledger = {WelcomeRow(u)}, !.acquisitions = {u}]
           = NewAccount(i, u)
<1> DEFINE Rows(profiles, wallets, ledger) ==
             [users |-> {u}, identities |-> {NewIdentity(i, u)},
              profiles |-> profiles, wallets |-> wallets, ledger |-> ledger,
              acquisitions |-> {}, sessions |-> {}]
<1> DEFINE r == Rows({u}, {}, {})
<1> DEFINE s == Rows({u}, {NewWallet(u)}, {})
<1> DEFINE t == Rows({u}, {NewWallet(u)}, {WelcomeRow(u)})
<1>1. [NewUser(i, u) EXCEPT !.profiles = {u}] = r
  BY DEF NewUser
<1>2. [r EXCEPT !.wallets = {NewWallet(u)}] = s
  OBVIOUS
<1>3. [s EXCEPT !.ledger = {WelcomeRow(u)}] = t
  OBVIOUS
<1>4. [t EXCEPT !.acquisitions = {u}] = NewAccount(i, u)
  BY DEF NewAccount
<1> HIDE DEF r, s, t
<1>5. QED
  BY <1>1, <1>2, <1>3, <1>4

\* A step of p that leaves the tables alone keeps the invariant when what p
\* has fits where p is, and p holds nothing another exchange has.
LEMMA OwnStep ==
  ASSUME ExchangeInv, NEW p \in Clients, db' = db,
         NEW l \in Locations, pc' = [pc EXCEPT ![p] = l],
         NEW c \in Call \cup {None}, call' = [call EXCEPT ![p] = c],
         NEW u \in UserIds \cup {None}, user' = [user EXCEPT ![p] = u],
         NEW b \in Database, buf' = [buf EXCEPT ![p] = b],
         NEW t \in BOOLEAN, touched' = [touched EXCEPT ![p] = t],
         NEW o \in Outcome \cup {None}, out' = [out EXCEPT ![p] = o],
         Fits(p)', \A q \in Clients \ {p} : Apart(p, q)'
  PROVE  ExchangeInv'
<1>1. ExchangeTypeOK'
  BY DEF ExchangeInv, ExchangeTypeOK
<1>2. TablesWhole'
  BY DEF ExchangeInv, TablesWhole
<1>3. ASSUME NEW q \in Clients \ {p}
      PROVE  /\ pc'[q] = pc[q] /\ call'[q] = call[q] /\ user'[q] = user[q]
             /\ buf'[q] = buf[q] /\ touched'[q] = touched[q]
             /\ out'[q] = out[q]
  BY DEF ExchangeInv, ExchangeTypeOK
<1>4. ASSUME NEW q \in Clients PROVE Fits(q)'
  <2>1. CASE q = p
    BY <2>1
  <2>2. CASE q # p
    <3>1. Fits(q)
      BY DEF ExchangeInv
    <3>2. QED
      BY <2>2, <1>3, <3>1 DEF Fits, Clean, SigningUp, LoggingIn, Minted, Answered
  <2>3. QED
    BY <2>1, <2>2
<1>5. ASSUME NEW q \in Clients, NEW r \in Clients, q # r PROVE Apart(q, r)'
  <2>1. CASE q = p
    BY <2>1, <1>5
  <2>2. CASE r = p
    BY <2>2, <1>5 DEF Apart
  <2>3. CASE q # p /\ r # p
    <3>1. Apart(q, r)
      BY <1>5 DEF ExchangeInv
    <3>2. QED
      BY <2>3, <1>3, <3>1 DEF Apart, Holds
  <2>4. QED
    BY <2>1, <2>2, <2>3
<1>6. QED
  BY <1>1, <1>2, <1>4, <1>5 DEF ExchangeInv

\* The same for a step that keeps what it has written.
LEMMA QuietStep ==
  ASSUME ExchangeInv, NEW p \in Clients, UNCHANGED <<db, buf, touched>>,
         NEW l \in Locations, pc' = [pc EXCEPT ![p] = l],
         NEW c \in Call \cup {None}, call' = [call EXCEPT ![p] = c],
         c = call[p] \/ touched[p] = FALSE,
         NEW u \in UserIds \cup {None}, user' = [user EXCEPT ![p] = u],
         NEW o \in Outcome \cup {None}, out' = [out EXCEPT ![p] = o],
         Fits(p)'
  PROVE  ExchangeInv'
<1>1. /\ buf[p] \in Database
      /\ touched[p] \in BOOLEAN
      /\ buf' = [buf EXCEPT ![p] = buf[p]]
      /\ touched' = [touched EXCEPT ![p] = touched[p]]
  BY DEF ExchangeInv, ExchangeTypeOK
<1>2. ASSUME NEW q \in Clients \ {p} PROVE Apart(p, q)'
  <2>1. Apart(p, q)
    BY DEF ExchangeInv
  <2>2. /\ call'[q] = call[q]
        /\ call'[p] = call[p] \/ touched[p] = FALSE
    BY DEF ExchangeInv, ExchangeTypeOK
  <2>3. QED
    BY <2>1, <2>2 DEF Apart, Holds
<1>3. QED
  BY <1>1, <1>2, OwnStep

\* The same for one that rolls back.
LEMMA RollbackStep ==
  ASSUME ExchangeInv, NEW p \in Clients, UNCHANGED <<db, call, user>>,
         Rollback(p),
         NEW l \in Locations, pc' = [pc EXCEPT ![p] = l],
         NEW o \in Outcome \cup {None}, out' = [out EXCEPT ![p] = o],
         Fits(p)'
  PROVE  ExchangeInv'
<1>1. /\ call[p] \in Call \cup {None}
      /\ user[p] \in UserIds \cup {None}
      /\ call' = [call EXCEPT ![p] = call[p]]
      /\ user' = [user EXCEPT ![p] = user[p]]
      /\ buf'[p] = Nothing
      /\ touched'[p] = FALSE
  BY DEF ExchangeInv, ExchangeTypeOK, Rollback
<1>2. ASSUME NEW q \in Clients \ {p} PROVE Apart(p, q)'
  BY <1>1 DEF Apart, Holds, Nothing
<1>3. QED
  BY <1>1, <1>2, NothingFits, OwnStep DEF Rollback

LEMMA FailStep ==
  ASSUME ExchangeInv, NEW p \in Clients, pc[p] # "idle", Fail(p, "UNAVAILABLE")
  PROVE  ExchangeInv'
<1>1. Failed("UNAVAILABLE") \in Outcome
  BY DEF Failed, Outcome, Codes
<1>2. /\ pc' = [pc EXCEPT ![p] = "done"] /\ pc'[p] = "done"
      /\ out'[p] = Failed("UNAVAILABLE")
      /\ call'[p] = call[p]
      /\ buf'[p] = Nothing
      /\ touched'[p] = FALSE
  BY DEF Fail, Goto, Rollback, ExchangeInv, ExchangeTypeOK
<1>3. Fits(p)
  BY DEF ExchangeInv
<1>4. Fits(p)'
  BY <1>1, <1>2, <1>3 DEF Fits, Clean, Answered, Failed
<1>5. QED
  BY <1>1, <1>2, <1>4, RollbackStep DEF Fail, Locations

-----------------------------------------------------------------------------
(* One lemma per action *)

LEMMA StartStep ==
  ASSUME ExchangeInv, NEW p \in Clients, Start(p)
  PROVE  ExchangeInv'
<1>1. PICK c \in Call : call' = [call EXCEPT ![p] = c]
  BY DEF Start
<1>2. /\ pc' = [pc EXCEPT ![p] = "connect"] /\ pc'[p] = "connect"
      /\ call'[p] = c
      /\ user' = [user EXCEPT ![p] = user[p]]
      /\ out' = [out EXCEPT ![p] = out[p]]
      /\ user[p] \in UserIds \cup {None} /\ out[p] \in Outcome \cup {None}
  BY <1>1 DEF Start, Goto, ExchangeInv, ExchangeTypeOK
<1>3. Clean(p)
  BY DEF ExchangeInv, Fits, Start
<1>4. Fits(p)'
  BY <1>2, <1>3 DEF Fits, Clean, Start
<1>5. QED
  BY <1>1, <1>2, <1>3, <1>4, QuietStep DEF Start, Locations, Clean

\* Continue(p, location) where the location asks for nothing new.
LEMMA ContinueStep ==
  ASSUME ExchangeInv, NEW p \in Clients, NEW l \in Locations, Continue(p, l),
         Fits(p)'
  PROVE  ExchangeInv'
<1>1. /\ pc' = [pc EXCEPT ![p] = l]
      /\ call' = [call EXCEPT ![p] = call[p]]
      /\ user' = [user EXCEPT ![p] = user[p]]
      /\ out' = [out EXCEPT ![p] = out[p]]
      /\ call[p] \in Call \cup {None} /\ user[p] \in UserIds \cup {None}
      /\ out[p] \in Outcome \cup {None}
  BY DEF Continue, Goto, ExchangeInv, ExchangeTypeOK
<1>2. QED
  BY <1>1, QuietStep DEF Continue

LEMMA ConnectStep ==
  ASSUME ExchangeInv, NEW p \in Clients, Connect(p)
  PROVE  ExchangeInv'
<1>1. Fits(p)
  BY DEF ExchangeInv
<1>2. CASE pc[p] = "connect" /\ Continue(p, "find")
  <2>1. Fits(p)'
    BY <1>1, <1>2 DEF Continue, Goto, Fits, Clean, ExchangeInv, ExchangeTypeOK
  <2>2. QED
    BY <1>2, <2>1, ContinueStep DEF Locations
<1>3. CASE pc[p] = "reconnect" /\ Continue(p, "login")
  <2>1. Fits(p)'
    BY <1>1, <1>3 DEF Continue, Goto, Fits, Clean, ExchangeInv, ExchangeTypeOK
  <2>2. QED
    BY <1>3, <2>1, ContinueStep DEF Locations
<1>4. QED
  BY <1>2, <1>3 DEF Connect

LEMMA FindIdentityStep ==
  ASSUME ExchangeInv, NEW p \in Clients, FindIdentity(p)
  PROVE  ExchangeInv'
<1>1. Fits(p) /\ pc[p] = "find"
  BY DEF ExchangeInv, FindIdentity
<1>2. CASE UsersOf(call[p].identity) = {}
  <2>1. Continue(p, "create")
    BY <1>2 DEF FindIdentity
  <2>2. Fits(p)'
    BY <1>1, <2>1 DEF Continue, Goto, Fits, Clean, ExchangeInv, ExchangeTypeOK
  <2>3. QED
    BY <2>1, <2>2, ContinueStep DEF Locations
<1>3. CASE UsersOf(call[p].identity) # {}
  <2>1. Continue(p, "login")
    BY <1>3 DEF FindIdentity
  <2>2. \E x \in db.identities : x.identity = call[p].identity
    BY <1>3 DEF UsersOf
  <2>3. Fits(p)'
    BY <1>1, <2>1, <2>2 DEF Continue, Goto, Fits, Clean, ExchangeInv, ExchangeTypeOK
  <2>4. QED
    BY <2>1, <2>3, ContinueStep DEF Locations
<1>4. QED
  BY <1>2, <1>3

\* loginExisting finds the identity: it was there when the exchange chose to
\* log in, and no row is ever removed.
LEMMA FindExistingStep ==
  ASSUME ExchangeInv, NEW p \in Clients, FindExisting(p)
  PROVE  ExchangeInv'
<1>1. Fits(p) /\ pc[p] = "login"
  BY DEF ExchangeInv, FindExisting
<1>2. UsersOf(call[p].identity) # {}
  BY <1>1 DEF Fits, UsersOf
<1>3. PICK u \in UsersOf(call[p].identity) : user' = [user EXCEPT ![p] = u]
  BY <1>2 DEF FindExisting
<1>4. u \in UserIds /\ NewIdentity(call[p].identity, u) \in db.identities
  BY DEF UsersOf, NewIdentity, ExchangeInv, ExchangeTypeOK, Database, Identity
<1>5. /\ pc' = [pc EXCEPT ![p] = "touch"] /\ pc'[p] = "touch"
      /\ user'[p] = u
      /\ UNCHANGED <<db, call, buf, touched, out>>
      /\ call' = [call EXCEPT ![p] = call[p]]
      /\ out' = [out EXCEPT ![p] = out[p]]
      /\ call[p] \in Call \cup {None} /\ out[p] \in Outcome \cup {None}
  BY <1>2, <1>3 DEF FindExisting, Goto, ExchangeInv, ExchangeTypeOK
<1>6. Fits(p)'
  BY <1>1, <1>4, <1>5 DEF Fits, Clean, LoggingIn
<1>7. QED
  BY <1>3, <1>4, <1>5, <1>6, QuietStep DEF Locations

LEMMA LoadAccountStep ==
  ASSUME ExchangeInv, NEW p \in Clients, LoadAccount(p)
  PROVE  ExchangeInv'
<1>1. Fits(p) /\ pc[p] = "load"
  BY DEF ExchangeInv, LoadAccount
<1>2. user[p] \in db.users
  <2>1. NewIdentity(call[p].identity, user[p]) \in db.identities
    BY <1>1 DEF Fits, LoggingIn
  <2>2. NewIdentity(call[p].identity, user[p]).user = user[p]
    BY DEF NewIdentity
  <2>3. QED
    BY <2>1, <2>2 DEF ExchangeInv, TablesWhole
<1>3. \E w \in db.wallets : w.user = user[p]
  <2>1. NewWallet(user[p]) \in db.wallets
    BY <1>2 DEF ExchangeInv, TablesWhole
  <2>2. NewWallet(user[p]).user = user[p]
    BY DEF NewWallet
  <2>3. QED
    BY <2>1, <2>2
<1>4. Continue(p, "mint")
  BY <1>2, <1>3 DEF LoadAccount
<1>5. Fits(p)'
  BY <1>1, <1>4 DEF Continue, Goto, Fits, LoggingIn, ExchangeInv, ExchangeTypeOK
<1>6. QED
  BY <1>4, <1>5, ContinueStep DEF Locations

LEMMA DeliverStep ==
  ASSUME ExchangeInv, NEW p \in Clients, Deliver(p)
  PROVE  ExchangeInv'
<1>1. Fits(p) /\ pc[p] = "done"
  BY DEF ExchangeInv, Deliver
<1>2. Clean(p)
  BY <1>1 DEF Fits
<1>3. pc' = [pc EXCEPT ![p] = "idle"] /\ pc'[p] = "idle"
  BY DEF Deliver, Goto, ExchangeInv, ExchangeTypeOK
<1>4. Fits(p)'
  BY <1>2, <1>3 DEF Fits, Clean, Deliver
<1>5. QED
  BY <1>2, <1>3, <1>4, QuietStep DEF Deliver, Locations, Clean

\* The winner of a race has the identity when the loser goes on.
LEMMA RetryAsLoginStep ==
  ASSUME ExchangeInv, NEW p \in Clients, pc[p] = "create",
         UsersOf(call[p].identity) # {}, RetryAsLogin(p)
  PROVE  ExchangeInv'
<1>1. Fits(p)
  BY DEF ExchangeInv
<1>2. /\ pc' = [pc EXCEPT ![p] = "reconnect"] /\ pc'[p] = "reconnect"
      /\ buf'[p] = Nothing
      /\ touched'[p] = FALSE
      /\ UNCHANGED <<db, call, user, out>>
      /\ out' = [out EXCEPT ![p] = out[p]]
      /\ out[p] \in Outcome \cup {None}
  BY DEF RetryAsLogin, Goto, Rollback, ExchangeInv, ExchangeTypeOK
<1>3. \E x \in db.identities : x.identity = call[p].identity
  BY DEF UsersOf
<1>4. Fits(p)'
  BY <1>1, <1>2, <1>3 DEF Fits, Clean
<1>5. QED
  BY <1>2, <1>4, RollbackStep DEF RetryAsLogin, Locations

\* Nobody else has inserted or touched the identity, and the user is fresh.
LEMMA CreateIdentityStep ==
  ASSUME ExchangeInv, NEW p \in Clients, CreateIdentity(p)
  PROVE  ExchangeInv'
<1>1. Fits(p) /\ pc[p] = "create" /\ IdentityFree(p)
  BY DEF ExchangeInv, CreateIdentity
<1> DEFINE i == call[p].identity
<1>2. CASE UsersOf(i) # {}
  BY <1>1, <1>2, RetryAsLoginStep DEF CreateIdentity
<1>3. CASE UsersOf(i) = {}
  <2>1. i \in Identities /\ Clean(p)
    BY <1>1 DEF Fits, Call
  <2>2. PICK u \in FreshUsers :
          /\ user' = [user EXCEPT ![p] = u]
          /\ buf' = [buf EXCEPT ![p].users = {u},
                                ![p].identities = {NewIdentity(i, u)}]
    BY <1>3 DEF CreateIdentity
  <2>3. u \in UserIds /\ NewUser(i, u) \in Database
    BY <2>1, RowsFit DEF FreshUsers
  <2>4. buf' = [buf EXCEPT ![p] = NewUser(i, u)]
    <3>1. buf' = [buf EXCEPT ![p] =
                    [buf[p] EXCEPT !.users = {u},
                                   !.identities = {NewIdentity(i, u)}]]
      BY <2>2 DEF ExchangeInv, ExchangeTypeOK
    <3>2. QED
      BY <2>1, <3>1, UserRows DEF Clean
  <2>5. /\ pc' = [pc EXCEPT ![p] = "open"] /\ pc'[p] = "open"
        /\ UNCHANGED <<db, call, touched, out>>
        /\ user'[p] = u
        /\ buf'[p] = NewUser(i, u)
        /\ touched[p] = FALSE
        /\ call' = [call EXCEPT ![p] = call[p]]
        /\ out' = [out EXCEPT ![p] = out[p]]
        /\ touched' = [touched EXCEPT ![p] = FALSE]
        /\ call[p] \in Call \cup {None} /\ out[p] \in Outcome \cup {None}
    <3>1. Goto(p, "open") /\ UNCHANGED <<db, call, touched, out>>
      BY <1>3 DEF CreateIdentity
    <3>2. QED
      BY <2>1, <2>2, <2>4, <3>1 DEF Goto, Clean, ExchangeInv, ExchangeTypeOK
  <2>6. ASSUME NEW x \in db.identities PROVE x.identity # i
    <3>1. x.identity = i => x.user \in UsersOf(i)
      BY DEF UsersOf
    <3>2. QED
      BY <1>3, <3>1
  <2>7. Fits(p)'
    BY <1>1, <2>3, <2>5, <2>6 DEF Fits, SigningUp, FreshUsers
  <2>8. ASSUME NEW q \in Clients \ {p} PROVE Apart(p, q)'
    <3>1. /\ ~Holds(q, i)
          /\ u \notin buf[q].users
          /\ buf'[q] = buf[q]
      BY <1>1, <2>4 DEF IdentityFree, FreshUsers, ExchangeInv, ExchangeTypeOK
    <3>2. \A j \in Identities : Holds(p, j)' => j = i
      BY <2>5 DEF Holds, NewUser, NewIdentity
    <3>3. Holds(q, i)' = Holds(q, i)
      BY <2>5, <3>1 DEF Holds
    <3>4. QED
      BY <2>5, <3>1, <3>2, <3>3 DEF Apart, NewUser
  <2>9. QED
    BY <2>2, <2>3, <2>4, <2>5, <2>7, <2>8, OwnStep DEF Locations
<1>4. QED
  BY <1>2, <1>3

LEMMA OpenAccountStep ==
  ASSUME ExchangeInv, NEW p \in Clients, OpenAccount(p)
  PROVE  ExchangeInv'
<1> DEFINE i == call[p].identity
<1> DEFINE u == user[p]
<1>1. /\ Fits(p) /\ pc[p] = "open" /\ SigningUp(p)
      /\ buf[p] = NewUser(i, u)
  BY DEF ExchangeInv, OpenAccount, Fits
<1>2. i \in Identities /\ u \in UserIds /\ NewAccount(i, u) \in Database
  BY <1>1, RowsFit DEF Fits, Call, SigningUp
<1>3. buf' = [buf EXCEPT ![p] = NewAccount(i, u)]
  <2>1. buf' = [buf EXCEPT ![p] =
                  [buf[p] EXCEPT !.profiles = {u}, !.wallets = {NewWallet(u)},
                                 !.ledger = {WelcomeRow(u)},
                                 !.acquisitions = {u}]]
    BY DEF OpenAccount, ExchangeInv, ExchangeTypeOK
  <2>2. QED
    BY <1>1, <2>1, AccountRows
<1>4. /\ pc' = [pc EXCEPT ![p] = "mint"] /\ pc'[p] = "mint"
      /\ UNCHANGED <<db, call, user, touched, out>>
      /\ buf'[p] = NewAccount(i, u)
      /\ call' = [call EXCEPT ![p] = call[p]]
      /\ user' = [user EXCEPT ![p] = user[p]]
      /\ out' = [out EXCEPT ![p] = out[p]]
      /\ touched' = [touched EXCEPT ![p] = touched[p]]
      /\ call[p] \in Call \cup {None} /\ user[p] \in UserIds \cup {None}
      /\ out[p] \in Outcome \cup {None} /\ touched[p] \in BOOLEAN
  BY <1>3 DEF OpenAccount, Goto, ExchangeInv, ExchangeTypeOK
<1>5. Fits(p)'
  BY <1>1, <1>4 DEF Fits, SigningUp
<1>6. ASSUME NEW q \in Clients \ {p} PROVE Apart(p, q)'
  <2>1. Apart(p, q) /\ buf'[q] = buf[q]
    BY <1>3 DEF ExchangeInv, ExchangeTypeOK
  <2>2. QED
    BY <1>1, <1>4, <2>1 DEF Apart, Holds, NewUser, NewAccount
<1>7. QED
  BY <1>2, <1>3, <1>4, <1>5, <1>6, OwnStep DEF Locations

LEMMA TouchLastSeenStep ==
  ASSUME ExchangeInv, NEW p \in Clients, TouchLastSeen(p)
  PROVE  ExchangeInv'
<1>1. /\ Fits(p) /\ pc[p] = "touch" /\ IdentityFree(p)
      /\ buf[p] = Nothing
  BY DEF ExchangeInv, TouchLastSeen, Fits, Clean
<1>2. /\ pc' = [pc EXCEPT ![p] = "load"] /\ pc'[p] = "load"
      /\ UNCHANGED <<db, call, user, buf, out>>
      /\ touched' = [touched EXCEPT ![p] = TRUE] /\ touched'[p] = TRUE
      /\ call' = [call EXCEPT ![p] = call[p]]
      /\ user' = [user EXCEPT ![p] = user[p]]
      /\ buf' = [buf EXCEPT ![p] = Nothing]
      /\ out' = [out EXCEPT ![p] = out[p]]
      /\ call[p] \in Call \cup {None} /\ user[p] \in UserIds \cup {None}
      /\ out[p] \in Outcome \cup {None}
  BY <1>1 DEF TouchLastSeen, Goto, ExchangeInv, ExchangeTypeOK
<1>3. Fits(p)'
  BY <1>1, <1>2 DEF Fits, LoggingIn
<1>4. ASSUME NEW q \in Clients \ {p} PROVE Apart(p, q)'
  <2>1. ~Holds(q, call[p].identity) /\ touched'[q] = touched[q]
    BY <1>1, <1>2 DEF IdentityFree, ExchangeInv, ExchangeTypeOK
  <2>2. QED
    BY <1>1, <1>2, <2>1 DEF Apart, Holds, Nothing
<1>5. QED
  BY <1>2, <1>3, <1>4, NothingFits, OwnStep DEF Locations

\* The token is nobody's, in the tables or about to be.
LEMMA MintSessionStep ==
  ASSUME ExchangeInv, NEW p \in Clients, MintSession(p)
  PROVE  ExchangeInv'
<1> DEFINE i == call[p].identity
<1> DEFINE u == user[p]
<1> DEFINE a == call[p].app
<1>1. Fits(p) /\ pc[p] = "mint"
  BY DEF ExchangeInv, MintSession
<1>2. i \in Identities /\ a \in Apps \cup {None} /\ u \in UserIds
  BY <1>1 DEF Fits, Call, SigningUp, LoggingIn
<1>3. PICK k \in FreshTokens :
        /\ buf' = [buf EXCEPT ![p].sessions = {NewSession(k, u, a)}]
        /\ out' = [out EXCEPT ![p] =
                     [code |-> "OK", user |-> u, isNewUser |-> IsNewUser(p),
                      token |-> k]]
  BY DEF MintSession
<1> DEFINE b == [buf[p] EXCEPT !.sessions = {NewSession(k, u, a)}]
<1> DEFINE o == [code |-> "OK", user |-> u, isNewUser |-> IsNewUser(p),
                 token |-> k]
<1>4. k \in Tokens /\ \A x \in db.sessions : x.token # k
  BY DEF FreshTokens
<1>5. b \in Database
  BY <1>2, <1>4, SessionFits DEF ExchangeInv, ExchangeTypeOK
<1>6. o \in Outcome
  BY <1>2, <1>4 DEF Outcome, Codes, IsNewUser
<1>7. /\ pc' = [pc EXCEPT ![p] = "commit"] /\ pc'[p] = "commit"
      /\ UNCHANGED <<db, call, user, touched>>
      /\ buf' = [buf EXCEPT ![p] = b] /\ buf'[p] = b
      /\ out' = [out EXCEPT ![p] = o] /\ out'[p] = o
      /\ call' = [call EXCEPT ![p] = call[p]]
      /\ user' = [user EXCEPT ![p] = user[p]]
      /\ touched' = [touched EXCEPT ![p] = touched[p]]
      /\ call[p] \in Call \cup {None} /\ user[p] \in UserIds \cup {None}
      /\ touched[p] \in BOOLEAN
  BY <1>3 DEF MintSession, Goto, ExchangeInv, ExchangeTypeOK
<1>8. Minted(p)'
  <2> o.code = "OK" /\ o.user = u /\ o.token = k /\ o.isNewUser = IsNewUser(p)
    OBVIOUS
  <2> HIDE DEF o
  <2>1. CASE SigningUp(p) /\ buf[p] = NewAccount(i, u)
    <3>1. IsNewUser(p) = TRUE
      BY <2>1 DEF IsNewUser, NewAccount
    <3>2. QED
      BY <1>4, <1>6, <1>7, <2>1, <3>1 DEF Minted, SigningUp
  <2>2. CASE LoggingIn(p) /\ buf[p] = Nothing /\ touched[p] = TRUE
    <3>1. IsNewUser(p) = FALSE
      BY <2>2 DEF IsNewUser, Nothing
    <3>2. QED
      BY <1>4, <1>6, <1>7, <2>2, <3>1 DEF Minted, LoggingIn
  <2>3. QED
    BY <1>1, <2>1, <2>2 DEF Fits
<1>9. Fits(p)'
  BY <1>1, <1>7, <1>8 DEF Fits
<1>10. ASSUME NEW q \in Clients \ {p} PROVE Apart(p, q)'
  <2>1. Apart(p, q) /\ buf'[q] = buf[q]
    BY <1>7 DEF ExchangeInv, ExchangeTypeOK
  <2>2. \A y \in buf[q].sessions : y.token # k
    BY DEF FreshTokens
  <2>3. /\ buf'[p].users = buf[p].users
        /\ buf'[p].identities = buf[p].identities
        /\ buf'[p].sessions = {NewSession(k, u, a)}
    BY <1>7 DEF ExchangeInv, ExchangeTypeOK, Database
  <2>4. QED
    BY <1>7, <2>1, <2>2, <2>3 DEF Apart, Holds, NewSession
<1>11. QED
  BY <1>5, <1>6, <1>7, <1>9, <1>10, OwnStep DEF Locations

-----------------------------------------------------------------------------
(* COMMIT *)

\* The rows of a commit are those of one login or of one signup.
LEMMA CommitTables ==
  ASSUME ExchangeInv, NEW p \in Clients, pc[p] = "commit",
         db' = Together(db, buf[p])
  PROVE  LET i == call[p].identity
             u == user[p]
             session == NewSession(out[p].token, u, call[p].app)
         IN  /\ db' \in Database
             /\ db'.sessions = db.sessions \cup {session}
             /\ \/ /\ LoggingIn(p)
                   /\ out[p].isNewUser = FALSE
                   /\ db'.users = db.users
                   /\ db'.identities = db.identities
                   /\ db'.profiles = db.profiles
                   /\ db'.wallets = db.wallets
                   /\ db'.ledger = db.ledger
                   /\ db'.acquisitions = db.acquisitions
                \/ /\ SigningUp(p)
                   /\ out[p].isNewUser = TRUE
                   /\ db'.users = db.users \cup {u}
                   /\ db'.identities = db.identities \cup {NewIdentity(i, u)}
                   /\ db'.profiles = db.profiles \cup {u}
                   /\ db'.wallets = db.wallets \cup {NewWallet(u)}
                   /\ db'.ledger = db.ledger \cup {WelcomeRow(u)}
                   /\ db'.acquisitions = db.acquisitions \cup {u}
<1> DEFINE session == NewSession(out[p].token, user[p], call[p].app)
<1>1. Minted(p)
  BY DEF ExchangeInv, Fits
<1>2. db \in Database /\ buf[p] \in Database
  BY DEF ExchangeInv, ExchangeTypeOK
<1>3. db' = [users |-> db.users \cup buf[p].users,
             identities |-> db.identities \cup buf[p].identities,
             profiles |-> db.profiles \cup buf[p].profiles,
             wallets |-> db.wallets \cup buf[p].wallets,
             ledger |-> db.ledger \cup buf[p].ledger,
             acquisitions |-> db.acquisitions \cup buf[p].acquisitions,
             sessions |-> db.sessions \cup buf[p].sessions]
  BY <1>2, TogetherTables
<1>4. db' \in Database
  BY <1>2, <1>3 DEF Database
<1>5. CASE /\ LoggingIn(p)
           /\ buf[p] = [Nothing EXCEPT !.sessions = {session}]
           /\ out[p].isNewUser = FALSE
  BY <1>3, <1>4, <1>5 DEF Nothing
<1>6. CASE /\ SigningUp(p)
           /\ buf[p] = [NewAccount(call[p].identity, user[p]) EXCEPT
                          !.sessions = {session}]
           /\ out[p].isNewUser = TRUE
  BY <1>3, <1>4, <1>6 DEF NewAccount
<1>7. QED
  BY <1>1, <1>5, <1>6 DEF Minted

\* A commit keeps the tables whole: the user, the identity and the token of a
\* signup are new, and so is the token of a login.
LEMMA CommitKeepsTables ==
  ASSUME ExchangeInv, NEW p \in Clients, pc[p] = "commit",
         db' = Together(db, buf[p])
  PROVE  TablesWhole'
<1> DEFINE i == call[p].identity
<1> DEFINE u == user[p]
<1> DEFINE session == NewSession(out[p].token, u, call[p].app)
<1>1. /\ TablesWhole
      /\ \A x \in db.sessions : x.token # session.token
  BY DEF ExchangeInv, Fits, Minted, NewSession
<1>2. db'.sessions = db.sessions \cup {session}
  BY CommitTables
<1>3. \A x, y \in db'.sessions : x.token = y.token => x = y
  <2> HIDE DEF session
  <2>1. QED
    BY <1>1, <1>2 DEF TablesWhole
<1>4. CASE UNCHANGED <<db.users, db.identities, db.profiles, db.wallets,
                       db.ledger, db.acquisitions>>
  BY <1>1, <1>3, <1>4 DEF TablesWhole
<1>5. CASE /\ SigningUp(p)
           /\ db'.users = db.users \cup {u}
           /\ db'.identities = db.identities \cup {NewIdentity(i, u)}
           /\ db'.profiles = db.profiles \cup {u}
           /\ db'.wallets = db.wallets \cup {NewWallet(u)}
           /\ db'.ledger = db.ledger \cup {WelcomeRow(u)}
           /\ db'.acquisitions = db.acquisitions \cup {u}
  <2> DEFINE row == NewIdentity(i, u)
  <2>1. /\ row.user = u /\ row.identity = i
        /\ u \notin db.users
        /\ \A x \in db.identities : x.identity # i /\ x.user # u
    BY <1>1, <1>5 DEF NewIdentity, SigningUp, TablesWhole
  <2> HIDE DEF row
  <2>2. db'.identities = db.identities \cup {row}
    BY <1>5 DEF row
  <2>3. \A x, y \in db'.identities :
          x.identity = y.identity \/ x.user = y.user => x = y
    BY <1>1, <2>1, <2>2 DEF TablesWhole
  <2>4. /\ \A x \in db'.identities : x.user \in db'.users
        /\ \A v \in db'.users : \E x \in db'.identities : x.user = v
    BY <1>1, <1>5, <2>1, <2>2 DEF TablesWhole
  <2>5. /\ db'.wallets = {NewWallet(v) : v \in db'.users}
        /\ db'.ledger = {WelcomeRow(v) : v \in db'.users}
    BY <1>1, <1>5 DEF TablesWhole, NewWallet, WelcomeRow
  <2>6. db'.profiles = db'.users /\ db'.acquisitions = db'.users
    BY <1>1, <1>5 DEF TablesWhole
  <2>7. QED
    BY <1>3, <2>3, <2>4, <2>5, <2>6 DEF TablesWhole
<1>6. QED
  BY <1>4, <1>5, CommitTables

\* What a signup has in its transaction, from CreateIdentity to COMMIT.
LEMMA SignupWrote ==
  ASSUME ExchangeInv, NEW p \in Clients, SigningUp(p),
         pc[p] \in {"open", "mint", "commit"}
  PROVE  /\ buf[p].users = {user[p]}
         /\ buf[p].identities = {NewIdentity(call[p].identity, user[p])}
<1>1. Fits(p) /\ touched[p] = FALSE
  BY DEF ExchangeInv, SigningUp
<1>2. CASE pc[p] \in {"open", "mint"}
  BY <1>1, <1>2 DEF Fits, NewUser, NewAccount
<1>3. CASE pc[p] = "commit"
  BY <1>1, <1>3 DEF Fits, Minted, NewAccount
<1>4. QED
  BY <1>2, <1>3

\* What another exchange knows stays true: rows only come in, and not the
\* identity, the user or the token it holds.
LEMMA CommitKeepsOthers ==
  ASSUME ExchangeInv, NEW p \in Clients, pc[p] = "commit",
         db' = Together(db, buf[p]),
         NEW q \in Clients \ {p},
         pc'[q] = pc[q], call'[q] = call[q], user'[q] = user[q],
         buf'[q] = buf[q], touched'[q] = touched[q], out'[q] = out[q]
  PROVE  Fits(q)'
<1>1. Fits(q) /\ Minted(p) /\ Apart(p, q)
  BY DEF ExchangeInv, Fits
<1>2. db.identities \subseteq db'.identities /\ db.sessions \subseteq db'.sessions
  BY CommitTables
<1>3. LoggingIn(q) => LoggingIn(q)'
  BY <1>2 DEF LoggingIn
<1>4. Answered(q) => Answered(q)'
  BY <1>2 DEF Answered
<1>5. SigningUp(q) /\ pc[q] \in {"open", "mint", "commit"} => SigningUp(q)'
  <2>1. SUFFICES ASSUME SigningUp(q), pc[q] \in {"open", "mint", "commit"}
                 PROVE  SigningUp(q)'
    OBVIOUS
  <2>2. call[q].identity \in Identities
    BY <1>1, <2>1 DEF Fits, Call
  <2>3. Holds(q, call[q].identity)
    <3>1. buf[q].identities = {NewIdentity(call[q].identity, user[q])}
      BY <2>1, SignupWrote
    <3>2. NewIdentity(call[q].identity, user[q]).identity = call[q].identity
      BY DEF NewIdentity
    <3>3. QED
      BY <3>1, <3>2 DEF Holds
  <2>4. \A x \in buf[p].identities : x.identity # call[q].identity
    BY <1>1, <2>2, <2>3 DEF Apart, Holds
  <2>5. user[q] \notin buf[p].users
    BY <1>1, <2>1, SignupWrote DEF Apart
  <2>6. /\ db'.users = db.users \cup buf[p].users
        /\ db'.identities = db.identities \cup buf[p].identities
    BY TogetherTables DEF ExchangeInv, ExchangeTypeOK
  <2>7. QED
    BY <2>1, <2>4, <2>5, <2>6 DEF SigningUp
<1>6. Minted(q) /\ pc[q] = "commit" => Minted(q)'
  <2>1. SUFFICES ASSUME Minted(q), pc[q] = "commit" PROVE Minted(q)'
    OBVIOUS
  <2>2. \A x \in buf[p].sessions : x.token # out[q].token
    <3>1. NewSession(out[q].token, user[q], call[q].app) \in buf[q].sessions
      BY <2>1 DEF Minted, NewAccount, Nothing
    <3>2. QED
      BY <1>1, <3>1 DEF Apart, NewSession
  <2>3. db'.sessions = db.sessions \cup buf[p].sessions
    BY TogetherTables DEF ExchangeInv, ExchangeTypeOK
  <2>4. \A x \in db'.sessions : x.token # out[q].token
    BY <2>1, <2>2, <2>3 DEF Minted
  <2>5. QED
    BY <1>3, <1>5, <2>1, <2>4 DEF Minted
<1>7. QED
  BY <1>1, <1>2, <1>3, <1>4, <1>5, <1>6 DEF Fits, Clean

LEMMA PublishStep ==
  ASSUME ExchangeInv, NEW p \in Clients, Publish(p),
         out' = out \/ out' = [out EXCEPT ![p] = Failed("UNAVAILABLE")]
  PROVE  ExchangeInv'
<1>1. /\ Fits(p) /\ Minted(p)
      /\ pc[p] = "commit"
      /\ db' = Together(db, buf[p])
      /\ UNCHANGED <<call, user>>
  BY DEF ExchangeInv, Fits, Publish
<1>2. /\ buf' = [buf EXCEPT ![p] = Nothing] /\ buf'[p] = Nothing
      /\ touched' = [touched EXCEPT ![p] = FALSE] /\ touched'[p] = FALSE
      /\ pc' = [pc EXCEPT ![p] = "done"] /\ pc'[p] = "done"
  BY DEF Publish, Rollback, Goto, ExchangeInv, ExchangeTypeOK
<1>3. Failed("UNAVAILABLE") \in Outcome
  BY DEF Failed, Outcome, Codes
<1>4. ExchangeTypeOK'
  BY <1>1, <1>2, <1>3, CommitTables, NothingFits
    DEF ExchangeInv, ExchangeTypeOK, Locations
<1>5. TablesWhole'
  BY <1>1, CommitKeepsTables
<1>6. ASSUME NEW q \in Clients \ {p}
      PROVE  /\ pc'[q] = pc[q] /\ call'[q] = call[q] /\ user'[q] = user[q]
             /\ buf'[q] = buf[q] /\ touched'[q] = touched[q]
             /\ out'[q] = out[q]
  BY <1>1, <1>2 DEF ExchangeInv, ExchangeTypeOK
<1>7. Answered(p)'
  <2>1. CASE out' = out
    <3>1. /\ NewSession(out[p].token, user[p], call[p].app) \in db'.sessions
          /\ NewIdentity(call[p].identity, user[p]) \in db'.identities
      BY <1>1, CommitTables DEF LoggingIn
    <3>2. QED
      BY <1>1, <2>1, <3>1 DEF Answered, Minted
  <2>2. CASE out' = [out EXCEPT ![p] = Failed("UNAVAILABLE")]
    <3>1. out'[p] = Failed("UNAVAILABLE")
      BY <2>2 DEF ExchangeInv, ExchangeTypeOK
    <3>2. QED
      BY <1>3, <3>1 DEF Answered, Failed
  <2>3. QED
    BY <2>1, <2>2
<1>8. Fits(p)'
  BY <1>1, <1>2, <1>7 DEF Fits, Clean
<1>9. ASSUME NEW q \in Clients PROVE Fits(q)'
  BY <1>1, <1>6, <1>8, CommitKeepsOthers
<1>10. ASSUME NEW q \in Clients, NEW r \in Clients, q # r PROVE Apart(q, r)'
  <2>1. CASE q = p
    BY <1>2, <2>1 DEF Apart, Holds, Nothing
  <2>2. CASE r = p
    BY <1>2, <2>2 DEF Apart, Holds, Nothing
  <2>3. CASE q # p /\ r # p
    <3>1. Apart(q, r)
      BY <1>10 DEF ExchangeInv
    <3>2. QED
      BY <1>6, <2>3, <3>1 DEF Apart, Holds
  <2>4. QED
    BY <2>1, <2>2, <2>3
<1>11. QED
  BY <1>4, <1>5, <1>9, <1>10 DEF ExchangeInv

-----------------------------------------------------------------------------
(* The invariant holds *)

LEMMA InitInv == Init => ExchangeInv
<1>1. SUFFICES ASSUME Init PROVE ExchangeInv
  OBVIOUS
<1>2. ExchangeTypeOK
  BY <1>1, NothingFits DEF Init, ExchangeTypeOK, Locations
<1>3. TablesWhole
  BY <1>1 DEF Init, TablesWhole, Nothing
<1>4. ASSUME NEW p \in Clients
      PROVE  pc[p] = "idle" /\ buf[p] = Nothing /\ touched[p] = FALSE
  BY <1>1 DEF Init
<1>5. \A p \in Clients : Fits(p)
  BY <1>4 DEF Fits, Clean
<1>6. ASSUME NEW p \in Clients, NEW q \in Clients PROVE Apart(p, q)
  <2>1. buf[p] = Nothing /\ touched[p] = FALSE
    BY <1>4
  <2>2. QED
    BY <2>1 DEF Apart, Holds, Nothing
<1>7. QED
  BY <1>2, <1>3, <1>5, <1>6 DEF ExchangeInv

LEMMA NextKeepsInv == ExchangeInv /\ [Next]_vars => ExchangeInv'
<1>1. SUFFICES ASSUME ExchangeInv, [Next]_vars PROVE ExchangeInv'
  OBVIOUS
<1>2. CASE UNCHANGED vars
  BY <1>1, <1>2 DEF vars, ExchangeInv, ExchangeTypeOK, TablesWhole, Fits, Clean,
    SigningUp, LoggingIn, Minted, Answered, Apart, Holds
<1>3. ASSUME NEW p \in Clients, Acquire(p) PROVE ExchangeInv'
  BY <1>1, <1>3, ConnectStep, CreateIdentityStep, TouchLastSeenStep DEF Acquire
<1>4. ASSUME NEW p \in Clients, CommitTransaction(p) PROVE ExchangeInv'
  BY <1>1, <1>4, PublishStep DEF CommitTransaction
<1>5. ASSUME NEW p \in Clients, Proceed(p) PROVE ExchangeInv'
  BY <1>1, <1>4, <1>5, FindIdentityStep, OpenAccountStep, FindExistingStep,
    LoadAccountStep, MintSessionStep DEF Proceed
<1>6. ASSUME NEW p \in Clients, LoseAcknowledgement(p) PROVE ExchangeInv'
  BY <1>1, <1>6, PublishStep DEF LoseAcknowledgement
<1>7. ASSUME NEW p \in Clients, Crash(p) PROVE ExchangeInv'
  BY <1>1, <1>7, FailStep DEF Crash
<1>8. QED
  BY <1>1, <1>2, <1>3, <1>5, <1>6, <1>7, StartStep, DeliverStep DEF Next

LEMMA ExchangeInvariant == Spec => []ExchangeInv
BY InitInv, NextKeepsInv, PTL DEF Spec

-----------------------------------------------------------------------------
(* Theorems *)

\* The types of the exchange's state.
THEOREM ExchangeTypeCorrect == Spec => []ExchangeTypeOK
BY ExchangeInvariant, PTL DEF ExchangeInv

\* Whatever races the first logins of an identity run, they open one account,
\* with one wallet, one welcome row and one profile, and leave no other user.
THEOREM OneAccountPerIdentity == Spec => []AccountsAreWhole
<1>1. ASSUME ExchangeInv PROVE AccountsAreWhole
  <2>1. TablesWhole /\ db \in Database
    BY <1>1 DEF ExchangeInv, ExchangeTypeOK
  <2>2. ASSUME NEW i \in Identities PROVE Cardinality(UsersOf(i)) <= 1
    <3>1. CASE UsersOf(i) = {}
      BY <3>1, FS_EmptySet
    <3>2. ASSUME NEW u \in UsersOf(i) PROVE Cardinality(UsersOf(i)) <= 1
      <4>1. UsersOf(i) = {u}
        BY <2>1 DEF TablesWhole, UsersOf
      <4>2. QED
        BY <4>1, FS_Singleton
    <3>3. QED
      BY <3>1, <3>2
  <2>3. ASSUME NEW u \in UserIds
        PROVE
      LET mine == {row \in db.identities : row.user = u}
          wallets == {row \in db.wallets : row.user = u}
          bonus == {row \in db.ledger : row.user = u}
      IN  IF u \in db.users
          THEN /\ Cardinality(mine) = 1
               /\ wallets = {NewWallet(u)}
               /\ bonus = {WelcomeRow(u)}
               /\ u \in db.profiles \cap db.acquisitions
          ELSE /\ mine = {} /\ wallets = {} /\ bonus = {}
               /\ u \notin db.profiles \cup db.acquisitions
    <3> DEFINE mine == {row \in db.identities : row.user = u}
    <3>1. /\ \A v \in db.users : NewWallet(v).user = v /\ WelcomeRow(v).user = v
          /\ db.profiles = db.users /\ db.acquisitions = db.users
          /\ db.wallets = {NewWallet(v) : v \in db.users}
          /\ db.ledger = {WelcomeRow(v) : v \in db.users}
      BY <2>1 DEF TablesWhole, NewWallet, WelcomeRow
    <3>2. CASE u \in db.users
      <4>1. PICK x \in db.identities : x.user = u
        BY <2>1, <3>2 DEF TablesWhole
      <4>2. mine = {x}
        BY <2>1, <4>1 DEF TablesWhole
      <4>3. Cardinality(mine) = 1
        BY <4>2, FS_Singleton
      <4>4. /\ {row \in db.wallets : row.user = u} = {NewWallet(u)}
            /\ {row \in db.ledger : row.user = u} = {WelcomeRow(u)}
        BY <3>1, <3>2
      <4>5. QED
        BY <3>1, <3>2, <4>3, <4>4
    <3>3. CASE u \notin db.users
      <4>1. mine = {}
        BY <2>1, <3>3 DEF TablesWhole
      <4>2. /\ {row \in db.wallets : row.user = u} = {}
            /\ {row \in db.ledger : row.user = u} = {}
        BY <3>1, <3>3
      <4>3. QED
        BY <3>1, <3>3, <4>1, <4>2
    <3>4. QED
      BY <3>2, <3>3
  <2>4. QED
    BY <2>2, <2>3 DEF AccountsAreWhole
<1>2. QED
  BY <1>1, ExchangeInvariant, PTL

\* The single retry of an exchange always finds the account of the winner:
\* loginExisting never fails on a missing identity, user or wallet.
THEOREM RetryFindsTheWinner == Spec => []NothingVanishes
<1>1. ExchangeInv => NothingVanishes
  BY DEF ExchangeInv, Fits, Answered, NothingVanishes
<1>2. QED
  BY <1>1, ExchangeInvariant, PTL

\* The token of an answer opens a session of the user of the identity, for the
\* application that asked, and no other session has it.
THEOREM AnswersAreTrue == Spec => []AnswerOpensSession
<1>1. ExchangeInv => AnswerOpensSession
  <2>1. SUFFICES ASSUME ExchangeInv, NEW p \in Clients,
                        pc[p] = "done", out[p].code = "OK"
                 PROVE  /\ UsersOf(call[p].identity) = {out[p].user}
                        /\ {row \in db.sessions : row.token = out[p].token} =
                             {NewSession(out[p].token, out[p].user, call[p].app)}
    BY DEF AnswerOpensSession
  <2> DEFINE row == NewIdentity(call[p].identity, out[p].user)
  <2> DEFINE session == NewSession(out[p].token, out[p].user, call[p].app)
  <2>2. row \in db.identities /\ session \in db.sessions /\ TablesWhole
    BY <2>1 DEF ExchangeInv, Fits, Answered
  <2>3. /\ row.identity = call[p].identity /\ row.user = out[p].user
        /\ session.token = out[p].token
    BY DEF NewIdentity, NewSession
  <2> HIDE DEF row, session
  <2>4. UsersOf(call[p].identity) = {out[p].user}
    BY <2>2, <2>3 DEF UsersOf, TablesWhole
  <2>5. {x \in db.sessions : x.token = out[p].token} = {session}
    BY <2>2, <2>3 DEF TablesWhole
  <2>6. QED
    BY <2>4, <2>5 DEF session
<1>2. QED
  BY <1>1, ExchangeInvariant, PTL

\* The tables change only when a transaction commits.
LEMMA OnlyCommitsChange ==
  ASSUME [Next]_vars
  PROVE  \/ UNCHANGED db
         \/ \E p \in Clients : Publish(p)
<1>1. ASSUME NEW p \in Clients, Start(p) \/ Deliver(p) \/ Crash(p)
      PROVE  UNCHANGED db
  BY <1>1 DEF Start, Deliver, Crash, Fail
<1>2. ASSUME NEW p \in Clients, Acquire(p) PROVE UNCHANGED db
  BY <1>2 DEF Acquire, Connect, CreateIdentity, TouchLastSeen, Continue,
    RetryAsLogin
<1>3. ASSUME NEW p \in Clients, Proceed(p), ~Publish(p) PROVE UNCHANGED db
  BY <1>3 DEF Proceed, FindIdentity, OpenAccount, FindExisting, LoadAccount,
    MintSession, CommitTransaction, Continue, Fail
<1>4. QED
  BY <1>1, <1>2, <1>3 DEF Next, LoseAcknowledgement, vars

\* isNewUser is told to exactly the exchange that opened the account.
THEOREM NewUserIsToldOnce == Spec => NewMeansOpened
<1>1. ASSUME ExchangeInv, Next
      PROVE  \A p \in Clients :
               pc[p] = "commit" /\ pc'[p] = "done" /\ out'[p].code = "OK" =>
                 (out'[p].isNewUser <=> UsersOf(call[p].identity) = {})
  <2>1. SUFFICES ASSUME NEW p \in Clients, pc[p] = "commit", pc'[p] = "done",
                        out'[p].code = "OK"
                 PROVE  out'[p].isNewUser <=> UsersOf(call[p].identity) = {}
    OBVIOUS
  <2>2. Minted(p)
    BY <1>1, <2>1 DEF ExchangeInv, Fits
  <2>3. out'[p] = out[p]
    <3>1. PICK q \in Clients :
            \/ Start(q) \/ Acquire(q) \/ Proceed(q)
            \/ LoseAcknowledgement(q) \/ Crash(q) \/ Deliver(q)
      BY <1>1 DEF Next
    <3>2. ExchangeTypeOK
      BY <1>1 DEF ExchangeInv
    <3>3. CASE Start(q) \/ Deliver(q)
      BY <2>1, <3>2, <3>3 DEF Start, Deliver, Goto, ExchangeTypeOK
    <3>4. CASE Acquire(q)
      BY <2>1, <3>2, <3>4 DEF Acquire, Connect, CreateIdentity, RetryAsLogin,
        TouchLastSeen, Continue, Goto, ExchangeTypeOK
    <3>5. CASE Crash(q) \/ LoseAcknowledgement(q)
      BY <2>1, <3>2, <3>5 DEF Crash, LoseAcknowledgement, Publish, Fail, Failed,
        Goto, ExchangeTypeOK
    <3>6. CASE Proceed(q)
      BY <2>1, <3>2, <3>6 DEF Proceed, FindIdentity, OpenAccount, FindExisting,
        LoadAccount, MintSession, CommitTransaction, Publish, Fail, Continue,
        Goto, ExchangeTypeOK
    <3>7. QED
      BY <3>1, <3>3, <3>4, <3>5, <3>6
  <2>4. out[p].isNewUser <=> UsersOf(call[p].identity) = {}
    <3>1. CASE SigningUp(p) /\ out[p].isNewUser = TRUE
      BY <3>1 DEF SigningUp, UsersOf
    <3>2. CASE LoggingIn(p) /\ out[p].isNewUser = FALSE
      <4>1. NewIdentity(call[p].identity, user[p]).identity = call[p].identity
        BY DEF NewIdentity
      <4>2. QED
        BY <3>2, <4>1 DEF LoggingIn, UsersOf
    <3>3. QED
      BY <2>2, <3>1, <3>2 DEF Minted
  <2>5. QED
    BY <2>3, <2>4
<1>2. QED
  BY <1>1, ExchangeInvariant, PTL DEF NewMeansOpened, Spec

\* The definitions of AccountOpening are those of AccountTables.
LEMMA OpeningOperators ==
  /\ Opening!Nothing = Nothing
  /\ \A i : Opening!UsersOf(i) = UsersOf(i)
  /\ \A d, e : Opening!Together(d, e) = Together(d, e)
  /\ \A i, u : Opening!NewAccount(i, u) = NewAccount(i, u)
  /\ \A k, u, a : Opening!NewSession(k, u, a) = NewSession(k, u, a)
BY DEF Opening!Nothing, Nothing, Opening!UsersOf, UsersOf, Opening!Together,
  Together, Opening!NewAccount, NewAccount, Opening!NewSession, NewSession,
  Opening!NewIdentity, NewIdentity, Opening!NewWallet, NewWallet,
  Opening!WelcomeRow, WelcomeRow

\* Whatever races the exchanges run, the committed tables change by whole
\* signups and whole logins: an account is never seen half opened.
THEOREM ExchangeImplementsOpening == Spec => ImplementsOpening
<1>1. Init => Opening!Init
  BY OpeningOperators DEF Init, Opening!Init
<1>2. ASSUME ExchangeInv, [Next]_vars PROVE Opening!Next \/ UNCHANGED db
  <2>1. SUFFICES ASSUME NEW p \in Clients, Publish(p) PROVE Opening!Next
    BY <1>2, OnlyCommitsChange
  <2> DEFINE i == call[p].identity
  <2> DEFINE u == user[p]
  <2> DEFINE k == out[p].token
  <2> DEFINE a == call[p].app
  <2> DEFINE session == NewSession(k, u, a)
  <2>2. /\ Fits(p) /\ Minted(p)
        /\ pc[p] = "commit"
        /\ db' = Together(db, buf[p])
    BY <1>2, <2>1 DEF ExchangeInv, Fits, Publish
  <2>3. /\ i \in Identities /\ u \in UserIds /\ k \in Tokens
        /\ a \in Apps \cup {None}
        /\ \A x \in db.sessions : x.token # k
    BY <2>2 DEF Fits, Minted, Call, SigningUp, LoggingIn
  <2>4. CASE LoggingIn(p) /\ buf[p] = [Nothing EXCEPT !.sessions = {session}]
    <3>1. u \in UsersOf(i)
      <4>1. NewIdentity(i, u).identity = i /\ NewIdentity(i, u).user = u
        BY DEF NewIdentity
      <4>2. QED
        BY <2>4, <4>1 DEF LoggingIn, UsersOf
    <3>2. db' = [db EXCEPT !.sessions = @ \cup {session}]
      <4>1. db \in Database /\ buf[p] \in Database
        BY <1>2 DEF ExchangeInv, ExchangeTypeOK
      <4>2. /\ buf[p].users = {} /\ buf[p].identities = {}
            /\ buf[p].profiles = {} /\ buf[p].wallets = {}
            /\ buf[p].ledger = {} /\ buf[p].acquisitions = {}
            /\ buf[p].sessions = {session}
        BY <2>4 DEF Nothing
      <4>3. db' = [users |-> db.users, identities |-> db.identities,
                   profiles |-> db.profiles, wallets |-> db.wallets,
                   ledger |-> db.ledger, acquisitions |-> db.acquisitions,
                   sessions |-> db.sessions \cup {session}]
        <5>1. db' = Together(db, buf[p])
          BY <2>2
        <5>2. /\ db.users \cup buf[p].users = db.users
              /\ db.identities \cup buf[p].identities = db.identities
              /\ db.profiles \cup buf[p].profiles = db.profiles
              /\ db.wallets \cup buf[p].wallets = db.wallets
              /\ db.ledger \cup buf[p].ledger = db.ledger
              /\ db.acquisitions \cup buf[p].acquisitions = db.acquisitions
          BY <4>2
        <5>3. QED
          BY <4>1, <4>2, <5>1, <5>2, TogetherTables
      <4>4. ASSUME NEW s
            PROVE  [db EXCEPT !.sessions = s] =
                     [users |-> db.users, identities |-> db.identities,
                      profiles |-> db.profiles, wallets |-> db.wallets,
                      ledger |-> db.ledger, acquisitions |-> db.acquisitions,
                      sessions |-> s]
        BY <4>1 DEF Database
      <4>5. QED
        BY <4>3, <4>4
    <3>3. Opening!LogIn(i, u, k, a)
      BY <2>3, <3>1, <3>2, OpeningOperators DEF Opening!LogIn, Opening!Open
    <3>4. QED
      BY <2>3, <3>3 DEF Opening!Next
  <2>5. CASE /\ SigningUp(p)
             /\ buf[p] = [NewAccount(i, u) EXCEPT !.sessions = {session}]
    <3>1. UsersOf(i) = {} /\ u \notin db.users
      BY <2>5 DEF SigningUp, UsersOf
    <3>2. Opening!SignUp(i, u, k, a)
      BY <2>2, <2>3, <2>5, <3>1, OpeningOperators DEF Opening!SignUp
    <3>3. QED
      BY <2>3, <3>2 DEF Opening!Next
  <2>6. QED
    BY <2>2, <2>4, <2>5 DEF Minted
<1>3. QED
  BY <1>1, <1>2, ExchangeInvariant, PTL
    DEF Spec, ImplementsOpening, Opening!Spec
=============================================================================
