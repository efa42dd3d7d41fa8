---------------------------- MODULE BridgeProofs ----------------------------
(***************************************************************************)
(* Proofs about ServiceBridge, for any number of requests under way,       *)
(* applications, credentials, sessions and changes between their checks.   *)
(***************************************************************************)
EXTENDS ServiceBridge, TLAPS

-----------------------------------------------------------------------------
(* The steps of the account *)

LEMMA AccountOperators ==
  /\ \A w, a : /\ Account!Deduct(w, a) = Deduct(w, a)
               /\ Account!Consume(w, a) = Consume(w, a)
               /\ Account!GiveBack(w, a) = GiveBack(w, a)
  /\ \A u, q, o, a :
       Account!NewReservation(u, q, o, a) = NewReservation(u, q, o, a)
  /\ \A row, s : Account!MovedTo(row, s) = MovedTo(row, s)
  /\ \A u, r, a, w : Account!CommitRow(u, r, a, w) = CommitRow(u, r, a, w)
  /\ \A us, k : Account!Recorded(us, k) = Recorded(us, k)
  /\ \A u, q : Account!WithRequest(u, q) = WithRequest(u, q)
<1>1. \A u, q : Account!WithRequest(u, q) = WithRequest(u, q)
  BY DEF WithRequest, RowsOf, Rows, Account!WithRequest, Account!RowsOf,
    Account!Rows
<1>2. QED
  BY <1>1 DEF Deduct, Account!Deduct, Consume, Account!Consume,
    GiveBack, Account!GiveBack, NewReservation, Account!NewReservation,
    MovedTo, Account!MovedTo, CommitRow, Account!CommitRow, Recorded,
    Account!Recorded

\* What a step of the account leaves of every reservation.
RowsLast ==
  \A r \in Rows :
    /\ r \in Rows'
    /\ reservation'[r].user = reservation[r].user
    /\ reservation'[r].request = reservation[r].request
    /\ reservation'[r].operation = reservation[r].operation

LEMMA ReserveStep ==
  ASSUME TablesTypeOK, NEW u \in Users, NEW q \in Requests,
         NEW o \in Operations, NEW a \in Nat, NEW r \in ReservationIds,
         Account!Reserve(u, q, o, a, r)
  PROVE  /\ TablesTypeOK'
         /\ RowsLast
         /\ r \in Rows'
         /\ reservation'[r].user = u
         /\ reservation'[r].request = q
         /\ reservation'[r].operation = o
         /\ \A x \in ReservationIds \ {r} : reservation'[x] = reservation[x]
<1> DEFINE row == NewReservation(u, q, o, a)
<1>1. /\ reservation[r] = None
      /\ a <= wallet[u].available
      /\ wallet' = [wallet EXCEPT ![u] = Deduct(wallet[u], a)]
      /\ reservation' = [reservation EXCEPT ![r] = row]
      /\ usage' = Recorded(usage, <<u, q, "reserved">>)
      /\ ledger' = ledger
  BY AccountOperators DEF Account!Reserve
<1>2. /\ row \in Reservation /\ row # None
      /\ row.user = u /\ row.request = q /\ row.operation = o
  BY NoneAssumption DEF NewReservation, Reservation, Status
<1> HIDE DEF row
<1>3. /\ reservation' \in [ReservationIds -> Reservation \cup {None}]
      /\ reservation'[r] = row
      /\ \A x \in ReservationIds \ {r} : reservation'[x] = reservation[x]
  BY <1>1, <1>2 DEF TablesTypeOK
<1>4. wallet' \in [Users -> Wallet]
  BY <1>1 DEF TablesTypeOK, Wallet, Deduct
<1>5. usage' \in [UsageKeys -> Nat]
  BY <1>1 DEF TablesTypeOK, Recorded, UsageKeys, Status
<1>6. RowsLast /\ r \in Rows'
  BY <1>1, <1>2, <1>3 DEF RowsLast, Rows
<1>7. QED
  BY <1>1, <1>2, <1>3, <1>4, <1>5, <1>6 DEF TablesTypeOK

\* Commit and release.
LEMMA SettleStep ==
  ASSUME TablesTypeOK, NEW r \in ReservationIds,
         Account!Commit(r) \/ Account!Release(r)
  PROVE  /\ TablesTypeOK'
         /\ RowsLast
         /\ r \in Rows
         /\ \A x \in ReservationIds \ {r} : reservation'[x] = reservation[x]
<1> DEFINE row == reservation[r]
           w == wallet[row.user]
<1>1. /\ reservation[r] # None
      /\ row.amount <= w.reserved
      /\ \E t \in {"committed", "released"} :
           /\ reservation' = [reservation EXCEPT ![r] = MovedTo(row, t)]
           /\ usage' = Recorded(usage, <<row.user, row.request, t>>)
      /\ \E v \in {Consume(w, row.amount), GiveBack(w, row.amount)} :
           /\ wallet' = [wallet EXCEPT ![row.user] = v]
           /\ \/ ledger' = ledger
              \/ ledger' = ledger \cup {CommitRow(row.user, r, row.amount, v)}
  BY AccountOperators DEF Account!Commit, Account!Release, Account!Settleable
<1>2. row \in Reservation /\ w \in Wallet /\ r \in Rows
  BY <1>1 DEF TablesTypeOK, Reservation, Rows
<1>3. PICK t \in {"committed", "released"} :
        /\ reservation' = [reservation EXCEPT ![r] = MovedTo(row, t)]
        /\ usage' = Recorded(usage, <<row.user, row.request, t>>)
  BY <1>1
<1>4. /\ MovedTo(row, t) \in Reservation
      /\ MovedTo(row, t).user = row.user
      /\ MovedTo(row, t).request = row.request
      /\ MovedTo(row, t).operation = row.operation
  BY <1>2 DEF MovedTo, Reservation, Status
<1>5. /\ reservation' \in [ReservationIds -> Reservation \cup {None}]
      /\ reservation'[r] = MovedTo(row, t)
      /\ \A x \in ReservationIds \ {r} : reservation'[x] = reservation[x]
  BY <1>3, <1>4 DEF TablesTypeOK
<1>6. RowsLast
  BY <1>4, <1>5, NoneAssumption DEF RowsLast, Rows
<1>7. usage' \in [UsageKeys -> Nat]
  BY <1>2, <1>3 DEF TablesTypeOK, Recorded, UsageKeys, Status, Reservation
<1>8. PICK v \in {Consume(w, row.amount), GiveBack(w, row.amount)} :
        /\ wallet' = [wallet EXCEPT ![row.user] = v]
        /\ \/ ledger' = ledger
           \/ ledger' = ledger \cup {CommitRow(row.user, r, row.amount, v)}
  BY <1>1
<1>9. v \in Wallet
  BY <1>1, <1>2 DEF Consume, GiveBack, Wallet, Reservation
<1>10. CommitRow(row.user, r, row.amount, v) \in LedgerRow
  BY <1>2, <1>9 DEF CommitRow, LedgerRow, Wallet, Reservation
<1>11. wallet' \in [Users -> Wallet] /\ ledger' \subseteq LedgerRow
  BY <1>8, <1>9, <1>10 DEF TablesTypeOK
<1>12. QED
  BY <1>2, <1>5, <1>6, <1>7, <1>11 DEF TablesTypeOK

-----------------------------------------------------------------------------
(* What is known of a request at each of its checks *)

CreditCall == ReserveCall \cup SettleCall

\* The steps of each kind of request.
ReserveSteps == {"operation", "operationApp", "load", "lookup", "spend"}

SettleSteps == {"ownership", "current", "settle"}

CreditSteps == {"session", "user", "spender"}

CallFits(p) ==
  LET c == call[p]
  IN  /\ pc[p] # "idle" =>
           /\ c \in CreditCall \cup ExchangeCall
           /\ c.credential # None =>
                /\ credentials[c.credential] # None
                /\ c \in ReserveCall =>
                     c.request \in RequestsOf[credentials[c.credential].app]
           /\ c \in SettleCall => c.reservation \in Rows \cup {None}
      /\ pc[p] \in ReserveSteps => c \in ReserveCall
      /\ pc[p] \in SettleSteps => c \in SettleCall
      /\ pc[p] \in CreditSteps => c \in CreditCall
      /\ pc[p] = "exchange" => c \in ExchangeCall
      /\ pc[p] \in {"lookup", "spend"} => operation[p] \in WithKey(c.key)
      /\ pc[p] = "done" => out[p] \in Response

Granted(p) == pc[p] = "done" /\ out[p].code = "OK"

GrantedCredit(p) == Granted(p) /\ call[p] \in CreditCall

\* What each check adds, at every step after it.
PastCredential == Locations \ {"idle", "credential", "done"}

PastApp == PastCredential \ {"app"}

PastSession == PastApp \ {"session", "exchange"}

PastUser == PastSession \ {"user"}

PastSpender == {"load", "lookup", "spend", "settle"}

AuthorityFits(p) ==
  LET c == call[p]
      row == sessions[c.token]
  IN  /\ pc[p] \in PastCredential \/ Granted(p) =>
           /\ c.credential # None
           /\ service[p] = credentials[c.credential].app
           /\ "service" \in held[p]
      /\ pc[p] \in PastApp \/ Granted(p) => "app" \in held[p]
      /\ pc[p] \in PastSession \/ GrantedCredit(p) =>
           /\ session[p] \in Session
           /\ row # None
           /\ row.user = session[p].user /\ row.app = session[p].app
           /\ session[p].app = service[p] => "session" \in held[p]
      /\ pc[p] \in PastUser \/ GrantedCredit(p) =>
           session[p].app = service[p] /\ "user" \in held[p]
      /\ pc[p] \in PastSpender \/ GrantedCredit(p) => "spender" \in held[p]
      /\ \/ pc[p] \in {"lookup", "spend"}
         \/ Granted(p) /\ c \in ReserveCall
         => operation[p] \in held[p]

-----------------------------------------------------------------------------
(* Which applications a request can reach *)

\* A reserve has found an operation of its application with the key; the row
\* that the engine finds under it may be another one.  A settlement is of a
\* row of its user and application, once the engine knows the row.
ScopeFits(p) ==
  LET c == call[p]
      row == reservation[c.reservation]
      own == c.reservation # None /\ row.user = session[p].user
  IN  /\ /\ pc[p] \in {"operationApp", "spender", "load", "lookup", "spend"}
         /\ c \in ReserveCall
         => Offers(service[p], c.key)
      /\ pc[p] \in {"current", "spender", "settle"} /\ c \in SettleCall =>
           /\ own => AppOf[row.operation] = service[p]
           /\ pc[p] # "current" => own

\* A row was made by an application that draws its request id and has an
\* operation of the key that was charged.
RowsOfApps ==
  \A r \in Rows :
    \E a \in Apps : /\ reservation[r].request \in RequestsOf[a]
                    /\ Offers(a, KeyOf[reservation[r].operation])

AnswerFits(p) ==
  LET row == reservation[out[p].reservation]
  IN  Granted(p) /\ call[p] \in ReserveCall =>
        /\ out[p].reservation \in Rows
        /\ row.user = session[p].user
        /\ row.request = call[p].request
        /\ Ambiguous(service[p], row)

Fits(p) == CallFits(p) /\ AuthorityFits(p) /\ ScopeFits(p) /\ AnswerFits(p)

BridgeInv ==
  /\ BridgeTypeOK
  /\ RowsOfApps
  /\ \A p \in Callers : Fits(p)

-----------------------------------------------------------------------------
(* Type correctness *)

\* The columns of a credential and of a session that their keys stand for.
RecordsLast ==
  /\ \A k \in KeyIds : credentials[k] # None =>
       credentials'[k] # None /\ credentials'[k].app = credentials[k].app
  /\ \A t \in Tokens : sessions[t] # None =>
       /\ sessions'[t] # None
       /\ sessions'[t].user = sessions[t].user
       /\ sessions'[t].app = sessions[t].app

\* The types of what no step but those of a request changes.
RequestsTyped ==
  /\ pc \in [Callers -> Locations]
  /\ call \in [Callers -> CreditCall \cup ExchangeCall \cup {None}]
  /\ service \in [Callers -> Apps \cup {None}]
  /\ session \in [Callers -> Session \cup {None}]
  /\ operation \in [Callers -> Operations \cup {None}]
  /\ out \in [Callers -> Response \cup {None}]

\* And of what only operators and sign-ins change.
AdminTyped ==
  /\ credentials \in [KeyIds -> Credential \cup {None}]
  /\ sessions \in [Tokens -> Session \cup {None}]
  /\ disabled \subseteq Apps
  /\ closed \subseteq Operations
  /\ active \subseteq Users
  /\ bound \in [changes : Nat, requests : Nat, keys : SUBSET OperationKeys]

LEMMA TypesSplit ==
  BridgeTypeOK <=> TablesTypeOK /\ AdminTyped /\ RequestsTyped
BY DEF BridgeTypeOK, AdminTyped, RequestsTyped, CreditCall

LEMMA TypesJoin ==
  ASSUME TablesTypeOK', AdminTyped', RequestsTyped'
  PROVE  BridgeTypeOK'
BY DEF BridgeTypeOK, AdminTyped, RequestsTyped, CreditCall

LEMMA OpenStep ==
  ASSUME AdminTyped, NEW t \in Tokens, NEW u \in Users,
         NEW a \in Apps \cup {None}, Open(t, u, a)
  PROVE  /\ sessions' \in [Tokens -> Session \cup {None}]
         /\ \A x \in Tokens : sessions[x] # None => sessions'[x] = sessions[x]
BY DEF AdminTyped, Open, Session

LEMMA OperateStep ==
  ASSUME BridgeTypeOK, Operate
  PROVE  /\ BridgeTypeOK'
         /\ RecordsLast
         /\ UNCHANGED <<tables, pc, call, reads, out>>
         /\ Observe
<1> USE TypesSplit
<1>1. /\ UNCHANGED <<tables, pc, call, reads, out>>
      /\ bound' \in [changes : Nat, requests : Nat, keys : SUBSET OperationKeys]
      /\ Observe
  BY DEF Operate, CreateCredential, EndCredential, EndSession, SignIn, SetApp,
    SetOperation, SetUser, Change, AdminTyped
<1>2. TablesTypeOK' /\ RequestsTyped'
  BY <1>1 DEF tables, reads, TablesTypeOK, RequestsTyped
<1>3. /\ disabled' \subseteq Apps
      /\ closed' \subseteq Operations
      /\ active' \subseteq Users
  BY DEF Operate, CreateCredential, EndCredential, EndSession, SignIn, SetApp,
    SetOperation, SetUser, Toggled, AdminTyped
<1>4. /\ credentials' \in [KeyIds -> Credential \cup {None}]
      /\ \A k \in KeyIds : credentials[k] # None =>
           credentials'[k] # None /\ credentials'[k].app = credentials[k].app
  <2>1. CASE \E k \in KeyIds, a \in Apps : CreateCredential(k, a)
    BY <2>1 DEF CreateCredential, AdminTyped, Credential
  <2>2. ASSUME NEW k \in KeyIds, EndCredential(k)
        PROVE  /\ credentials' \in [KeyIds -> Credential \cup {None}]
               /\ \A x \in KeyIds : credentials[x] # None =>
                    /\ credentials'[x] # None
                    /\ credentials'[x].app = credentials[x].app
    <3>1. /\ credentials[k] \in Credential
          /\ credentials' =
               [credentials EXCEPT ![k] = [credentials[k] EXCEPT !.live = FALSE]]
      BY <2>2 DEF EndCredential, AdminTyped
    <3>2. [credentials[k] EXCEPT !.live = FALSE] \in Credential
          /\ [credentials[k] EXCEPT !.live = FALSE].app = credentials[k].app
      BY <3>1 DEF Credential
    <3>3. QED
      BY <3>1, <3>2, NoSuchRow DEF AdminTyped
  <2>3. CASE UNCHANGED credentials
    BY <2>3 DEF AdminTyped
  <2>4. QED
    BY <2>1, <2>2, <2>3 DEF Operate, EndSession, SignIn, SetApp, SetOperation,
      SetUser
<1>5. /\ sessions' \in [Tokens -> Session \cup {None}]
      /\ \A t \in Tokens : sessions[t] # None =>
           /\ sessions'[t] # None
           /\ sessions'[t].user = sessions[t].user
           /\ sessions'[t].app = sessions[t].app
  <2>1. ASSUME NEW t \in Tokens, NEW u \in Users, SignIn(t, u)
        PROVE  /\ sessions' \in [Tokens -> Session \cup {None}]
               /\ \A x \in Tokens :
                    sessions[x] # None => sessions'[x] = sessions[x]
    BY <2>1, OpenStep DEF SignIn
  <2>2. ASSUME NEW t \in Tokens, EndSession(t)
        PROVE  /\ sessions' \in [Tokens -> Session \cup {None}]
               /\ \A x \in Tokens : sessions[x] # None =>
                    /\ sessions'[x] # None
                    /\ sessions'[x].user = sessions[x].user
                    /\ sessions'[x].app = sessions[x].app
    <3>1. /\ sessions[t] \in Session
          /\ sessions' =
               [sessions EXCEPT ![t] = [sessions[t] EXCEPT !.live = FALSE]]
      BY <2>2 DEF EndSession, AdminTyped
    <3>2. /\ [sessions[t] EXCEPT !.live = FALSE] \in Session
          /\ [sessions[t] EXCEPT !.live = FALSE].user = sessions[t].user
          /\ [sessions[t] EXCEPT !.live = FALSE].app = sessions[t].app
      BY <3>1 DEF Session
    <3>3. QED
      BY <3>1, <3>2, NoSuchRow DEF AdminTyped
  <2>3. CASE UNCHANGED sessions
    BY <2>3 DEF AdminTyped
  <2>4. QED
    BY <2>1, <2>2, <2>3 DEF Operate, CreateCredential, EndCredential, SetApp,
      SetOperation, SetUser
<1>6. AdminTyped'
  BY <1>1, <1>3, <1>4, <1>5 DEF AdminTyped
<1>7. QED
  BY <1>1, <1>2, <1>4, <1>5, <1>6, TypesJoin DEF RecordsLast

\* A response, whatever else its step does.
LEMMA AnswerTyped ==
  ASSUME RequestsTyped, NEW p \in Callers, NEW code \in Codes,
         NEW r \in ReservationIds \cup {None}, Answer(p, code, r)
  PROVE  RequestsTyped'
BY DEF RequestsTyped, Answer, Goto, Locations, Response, reads

LEMMA ContinueTyped ==
  ASSUME BridgeTypeOK, NEW p \in Callers, NEW l \in Locations, Continue(p, l)
  PROVE  BridgeTypeOK'
BY DEF BridgeTypeOK, Continue, Goto, tables, TablesTypeOK, admin, reads

LEMMA RefuseTyped ==
  ASSUME BridgeTypeOK, NEW p \in Callers, NEW code \in Codes, Refuse(p, code)
  PROVE  BridgeTypeOK'
<1>1. RequestsTyped'
  BY TypesSplit, AnswerTyped DEF Refuse
<1>2. TablesTypeOK' /\ AdminTyped'
  BY TypesSplit DEF Refuse, Answer, tables, TablesTypeOK, admin, AdminTyped
<1>3. QED
  BY <1>1, <1>2, TypesJoin

-----------------------------------------------------------------------------
(* What a step leaves *)

\* A step of another request, of an operator or of time leaves of q all but
\* what it could rely on.
Untouched(q) ==
  /\ pc'[q] = pc[q]
  /\ call'[q] = call[q]
  /\ service'[q] = service[q]
  /\ session'[q] = session[q]
  /\ operation'[q] = operation[q]
  /\ out'[q] = out[q]

LEMMA UntouchedFits ==
  ASSUME BridgeTypeOK, RecordsLast, RowsLast, Observe,
         NEW q \in Callers, Fits(q), Untouched(q)
  PROVE  Fits(q)'
<1> DEFINE c == call[q]
<1>1. CASE pc[q] = "idle"
  BY <1>1 DEF Fits, Untouched, CallFits, AuthorityFits, ScopeFits, AnswerFits,
    Granted, GrantedCredit, PastUser, PastSession, PastApp, PastCredential,
    PastSpender, ReserveSteps, SettleSteps, CreditSteps
<1>2. CASE pc[q] # "idle"
  <2>1. /\ c \in CreditCall \cup ExchangeCall
        /\ c # None
        /\ c.credential # None =>
             c.credential \in KeyIds /\ credentials[c.credential] # None
        /\ c \in CreditCall => c.token \in Tokens
    BY <1>2, NoSuchRow DEF Fits, CallFits, CreditCall, ReserveCall,
      SettleCall, ExchangeCall, Presented
  <2>2. held[q] \subseteq held'[q]
    BY <1>2, <2>1 DEF Observe, Untouched
  <2>3. /\ c.credential # None =>
             /\ credentials'[c.credential] # None
             /\ credentials'[c.credential].app = credentials[c.credential].app
        /\ c \in CreditCall /\ sessions[c.token] # None =>
             /\ sessions'[c.token] # None
             /\ sessions'[c.token].user = sessions[c.token].user
             /\ sessions'[c.token].app = sessions[c.token].app
    BY <2>1 DEF RecordsLast
  <2>4. CallFits(q)'
    BY <2>1, <2>3 DEF Fits, Untouched, CallFits, RowsLast, WithKey
  <2>5. AuthorityFits(q)'
    <3>1. pc[q] \in PastSession \/ GrantedCredit(q) => c \in CreditCall
      BY <1>2, <2>1 DEF Fits, CallFits, GrantedCredit, PastSession, PastApp,
        PastCredential, Locations, ReserveSteps, SettleSteps, CreditSteps,
        CreditCall
    <3>2. /\ Granted(q)' <=> Granted(q)
          /\ GrantedCredit(q)' <=> GrantedCredit(q)
      BY DEF Untouched, Granted, GrantedCredit
    <3>3. PastUser \subseteq PastSession
      BY DEF PastUser
    <3>4. QED
      BY <2>2, <2>3, <3>1, <3>2, <3>3 DEF Fits, Untouched, AuthorityFits
  <2>6. ScopeFits(q)'
    <3>1. c \in SettleCall => c.reservation \in Rows \cup {None}
      BY <1>2 DEF Fits, CallFits
    <3>2. QED
      BY <3>1 DEF Fits, Untouched, ScopeFits, RowsLast, Offers, WithKey
  <2>7. AnswerFits(q)'
    BY DEF Fits, Untouched, AnswerFits, RowsLast, Granted, Ambiguous, Offers,
      WithKey
  <2>8. QED
    BY <2>4, <2>5, <2>6, <2>7 DEF Fits
<1>3. QED
  BY <1>1, <1>2

\* What every step of p leaves.
Leaves(p) ==
  /\ BridgeTypeOK'
  /\ RecordsLast
  /\ RowsLast
  /\ Observe
  /\ \A q \in Callers \ {p} : Untouched(q)

\* A step that changes no table leaves the rows of every application.
LEMMA QuietRows ==
  ASSUME UNCHANGED tables
  PROVE  RowsLast /\ (RowsOfApps => RowsOfApps')
BY DEF tables, RowsLast, RowsOfApps, Rows, Offers, WithKey

LEMMA ContinueLeaves ==
  ASSUME BridgeTypeOK, NEW p \in Callers, NEW l \in Locations \ {"idle"},
         Continue(p, l), call[p] # None
  PROVE  /\ Leaves(p)
         /\ pc'[p] = l
         /\ held'[p] = held[p] \cup Holding(p)
         /\ UNCHANGED <<tables, credentials, sessions, call, service, session,
                        operation, out>>
<1>1. BridgeTypeOK'
  BY ContinueTyped
<1>2. /\ UNCHANGED <<tables, credentials, sessions, call, service, session,
                     operation, out>>
      /\ Observe
      /\ pc' = [pc EXCEPT ![p] = l]
  BY DEF Continue, Goto, admin, reads
<1>3. pc'[p] = l /\ \A q \in Callers \ {p} : pc'[q] = pc[q]
  BY <1>2 DEF BridgeTypeOK
<1>4. held'[p] = held[p] \cup Holding(p)
  BY <1>2, <1>3 DEF Observe
<1>5. RecordsLast
  BY <1>2 DEF RecordsLast
<1>6. \A q \in Callers \ {p} : Untouched(q)
  BY <1>2, <1>3 DEF Untouched
<1>7. QED
  BY <1>1, <1>2, <1>3, <1>4, <1>5, <1>6, QuietRows DEF Leaves

\* A request that is not granted, whatever its step does to the tables.
LEMMA FailureFits ==
  ASSUME BridgeTypeOK, NEW p \in Callers, NEW code \in Codes \ {"OK"},
         Answer(p, code, None), UNCHANGED sessions, TablesTypeOK', RowsLast,
         pc[p] # "idle", Fits(p)
  PROVE  Leaves(p) /\ Fits(p)'
<1>1. /\ UNCHANGED <<credentials, disabled, closed, active, bound, call,
                     service, session, operation>>
      /\ Observe
      /\ pc' = [pc EXCEPT ![p] = "done"]
      /\ out' = [out EXCEPT ![p] = [code |-> code, reservation |-> None]]
  BY DEF Answer, Goto, admin, reads
<1>2. BridgeTypeOK'
  <2>1. RequestsTyped'
    BY TypesSplit, AnswerTyped
  <2>2. AdminTyped'
    BY <1>1, TypesSplit DEF AdminTyped
  <2>3. QED
    BY <2>1, <2>2, TypesJoin
<1>3. /\ pc'[p] = "done" /\ out'[p].code # "OK"
      /\ out'[p] \in Response
      /\ \A q \in Callers \ {p} : pc'[q] = pc[q] /\ out'[q] = out[q]
  BY <1>1 DEF BridgeTypeOK, Response
<1>4. RecordsLast
  BY <1>1 DEF RecordsLast
<1>5. \A q \in Callers \ {p} : Untouched(q)
  BY <1>1, <1>3 DEF Untouched
<1>6. CallFits(p)'
  BY <1>1, <1>3 DEF Fits, CallFits, RowsLast, ReserveSteps, SettleSteps,
    CreditSteps
<1>7. Fits(p)'
  BY <1>3, <1>6 DEF Fits, AuthorityFits, ScopeFits, AnswerFits, Granted,
    GrantedCredit, PastUser, PastSession, PastApp, PastCredential, PastSpender
<1>8. QED
  BY <1>1, <1>2, <1>4, <1>5, <1>7 DEF Leaves

LEMMA RefuseFits ==
  ASSUME BridgeTypeOK, NEW p \in Callers, NEW code \in Codes \ {"OK"},
         Refuse(p, code), pc[p] # "idle", Fits(p)
  PROVE  Leaves(p) /\ Fits(p)' /\ (RowsOfApps => RowsOfApps')
<1>1. Answer(p, code, None) /\ UNCHANGED <<tables, sessions>>
  BY DEF Refuse
<1>2. TablesTypeOK'
  BY <1>1, TypesSplit DEF tables, TablesTypeOK
<1>3. QED
  BY <1>1, <1>2, FailureFits, QuietRows

-----------------------------------------------------------------------------
(* The steps of a request *)

\* What a step of p is to keep.
Keeps(p) ==
  /\ Leaves(p)
  /\ Fits(p)'
  /\ RowsOfApps => RowsOfApps'

LEMMA CallKinds ==
  ASSUME NEW c \in CreditCall \cup ExchangeCall
  PROVE  /\ c # None
         /\ c.credential \in Presented
         /\ c.kind = "exchange" <=> c \in ExchangeCall
         /\ c.kind = "exchange" <=> c \notin CreditCall
         /\ c.kind = "reserve" <=> c \in ReserveCall
         /\ c.kind \in {"commit", "release"} <=> c \in SettleCall
         /\ c \in CreditCall => c.token \in Tokens
BY NoSuchRow DEF CreditCall, ReserveCall, SettleCall, ExchangeCall

\* A step that moves p on and changes nothing but what p has found.
LEMMA MoveLeaves ==
  ASSUME BridgeTypeOK, NEW p \in Callers, NEW l \in Locations \ {"idle"},
         Goto(p, l), UNCHANGED <<tables, admin, sessions, call, out>>,
         call[p] # None,
         service' \in [Callers -> Apps \cup {None}],
         session' \in [Callers -> Session \cup {None}],
         operation' \in [Callers -> Operations \cup {None}],
         \A q \in Callers \ {p} : /\ service'[q] = service[q]
                                  /\ session'[q] = session[q]
                                  /\ operation'[q] = operation[q]
  PROVE  /\ Leaves(p)
         /\ pc'[p] = l
         /\ held'[p] = held[p] \cup Holding(p)
<1>1. pc' = [pc EXCEPT ![p] = l] /\ Observe
  BY DEF Goto
<1>2. pc'[p] = l /\ \A q \in Callers \ {p} : pc'[q] = pc[q]
  BY <1>1 DEF BridgeTypeOK
<1>3. RequestsTyped'
  BY <1>1, TypesSplit DEF RequestsTyped
<1>4. TablesTypeOK' /\ AdminTyped'
  BY TypesSplit DEF tables, TablesTypeOK, admin, AdminTyped
<1>5. RecordsLast
  BY DEF RecordsLast, admin
<1>6. \A q \in Callers \ {p} : Untouched(q)
  BY <1>2 DEF Untouched
<1>7. QED
  BY <1>1, <1>2, <1>3, <1>4, <1>5, <1>6, TypesJoin, QuietRows
  DEF Leaves, Observe

LEMMA ReceiveFits ==
  ASSUME BridgeTypeOK, NEW p \in Callers, Receive(p)
  PROVE  Keeps(p)
<1>1. PICK c \in ReserveCall \cup SettleCall \cup ExchangeCall :
        Plausible(c) /\ call' = [call EXCEPT ![p] = c]
  BY DEF Receive
<1>2. /\ UNCHANGED <<tables, credentials, sessions, service, session,
                     operation, out>>
      /\ UNCHANGED admin
      /\ Observe
      /\ pc' = [pc EXCEPT ![p] = "credential"]
  BY DEF Receive, Goto, admin, reads
<1>3. /\ pc'[p] = "credential" /\ call'[p] = c
      /\ \A q \in Callers \ {p} : pc'[q] = pc[q] /\ call'[q] = call[q]
  BY <1>1, <1>2 DEF BridgeTypeOK
<1>4. RequestsTyped'
  BY <1>1, <1>2, TypesSplit DEF RequestsTyped, Locations, CreditCall
<1>5. TablesTypeOK' /\ AdminTyped'
  BY <1>2, TypesSplit DEF tables, TablesTypeOK, admin, AdminTyped
<1>6. RecordsLast /\ \A q \in Callers \ {p} : Untouched(q)
  BY <1>2, <1>3 DEF RecordsLast, Untouched
<1>7. Leaves(p)
  BY <1>2, <1>4, <1>5, <1>6, TypesJoin, QuietRows DEF Leaves
<1>8. CallFits(p)'
  <2>1. c \in CreditCall \cup ExchangeCall
    BY DEF CreditCall
  <2>2. QED
    BY <1>1, <1>2, <1>3, <2>1, CallKinds DEF CallFits, Plausible, tables, Rows,
      ReserveSteps, SettleSteps, CreditSteps
<1>9. Fits(p)'
  BY <1>3, <1>8 DEF Fits, AuthorityFits, ScopeFits, AnswerFits, Granted,
    GrantedCredit, PastUser, PastSession, PastApp, PastCredential, PastSpender
<1>10. QED
  BY <1>2, <1>7, <1>9, QuietRows DEF Keeps

LEMMA DeliverFits ==
  ASSUME BridgeTypeOK, NEW p \in Callers, Deliver(p)
  PROVE  Keeps(p)
<1>1. /\ UNCHANGED <<tables, admin, sessions>>
      /\ Observe
      /\ pc' = [pc EXCEPT ![p] = "idle"]
      /\ call' = [call EXCEPT ![p] = None]
      /\ service' = [service EXCEPT ![p] = None]
      /\ session' = [session EXCEPT ![p] = None]
      /\ operation' = [operation EXCEPT ![p] = None]
      /\ out' = [out EXCEPT ![p] = None]
  BY DEF Deliver, Goto
<1>2. pc'[p] = "idle" /\ \A q \in Callers \ {p} : Untouched(q)
  BY <1>1 DEF BridgeTypeOK, Untouched
<1>3. RequestsTyped'
  BY <1>1, TypesSplit DEF RequestsTyped, Locations
<1>4. TablesTypeOK' /\ AdminTyped'
  BY <1>1, TypesSplit DEF tables, TablesTypeOK, admin, AdminTyped
<1>5. RecordsLast
  BY <1>1 DEF RecordsLast, admin
<1>6. Leaves(p)
  BY <1>1, <1>2, <1>3, <1>4, <1>5, TypesJoin, QuietRows DEF Leaves
<1>7. Fits(p)'
  BY <1>2 DEF Fits, CallFits, AuthorityFits, ScopeFits, AnswerFits, Granted,
    GrantedCredit, PastUser, PastSession, PastApp, PastCredential, PastSpender,
    ReserveSteps, SettleSteps, CreditSteps
<1>8. QED
  BY <1>1, <1>6, <1>7, QuietRows DEF Keeps

LEMMA RefuseKeeps ==
  ASSUME BridgeTypeOK, NEW p \in Callers, NEW code \in Codes \ {"OK"},
         Refuse(p, code), pc[p] # "idle", Fits(p)
  PROVE  Keeps(p)
BY RefuseFits DEF Keeps

\* What is known of a request under way.
LEMMA Known ==
  ASSUME BridgeTypeOK, NEW p \in Callers, Fits(p), pc[p] # "idle"
  PROVE  /\ call[p] \in CreditCall \cup ExchangeCall
         /\ call[p] # None
         /\ call[p].credential # None =>
              /\ credentials[call[p].credential] \in Credential
              /\ credentials[call[p].credential] # None
         /\ pc[p] # "credential" /\ pc[p] # "done" =>
              /\ call[p].credential # None
              /\ service[p] = credentials[call[p].credential].app
              /\ service[p] \in Apps
         /\ pc[p] \in PastSession =>
              /\ call[p] \in CreditCall
              /\ sessions[call[p].token] # None
              /\ session[p].user = sessions[call[p].token].user
              /\ session[p].app = sessions[call[p].token].app
              /\ session[p].user \in Users
<1>1. call[p] \in CreditCall \cup ExchangeCall
  BY DEF Fits, CallFits
<1>2. ASSUME call[p].credential # None
      PROVE  /\ credentials[call[p].credential] \in Credential
             /\ credentials[call[p].credential] # None
  BY <1>1, <1>2, CallKinds DEF BridgeTypeOK, Presented, Fits, CallFits
<1>3. pc[p] # "credential" /\ pc[p] # "done" =>
        /\ call[p].credential # None
        /\ service[p] = credentials[call[p].credential].app
        /\ service[p] \in Apps
  BY <1>2 DEF Fits, AuthorityFits, PastCredential, BridgeTypeOK, Credential
<1>4. ASSUME pc[p] \in PastSession
      PROVE  /\ call[p] \in CreditCall
             /\ sessions[call[p].token] # None
             /\ session[p].user = sessions[call[p].token].user
             /\ session[p].app = sessions[call[p].token].app
             /\ session[p].user \in Users
  <2>1. call[p] \in CreditCall
    BY <1>4 DEF Fits, CallFits, PastSession, PastApp, PastCredential,
      Locations, ReserveSteps, SettleSteps, CreditSteps, CreditCall
  <2>2. QED
    BY <1>4, <2>1 DEF Fits, AuthorityFits, Session
<1>5. QED
  BY <1>1, <1>2, <1>3, <1>4, CallKinds

LEMMA FindCredentialFits ==
  ASSUME BridgeTypeOK, NEW p \in Callers, Fits(p), FindCredential(p)
  PROVE  Keeps(p)
<1> DEFINE row == credentials[call[p].credential]
<1>1. pc[p] = "credential"
  BY DEF FindCredential
<1>2. CASE Refuse(p, "UNAUTHORIZED")
  BY <1>1, <1>2, RefuseKeeps DEF Codes
<1>3. CASE /\ call[p].credential # None
           /\ row.live
           /\ service' = [service EXCEPT ![p] = row.app]
           /\ Goto(p, "app")
           /\ UNCHANGED <<tables, admin, sessions, call, session, operation,
                          out>>
  <2>1. row \in Credential /\ row # None /\ call[p] # None
    BY <1>1, <1>3, Known
  <2>2. /\ service' \in [Callers -> Apps \cup {None}]
        /\ service'[p] = row.app
        /\ \A q \in Callers \ {p} : service'[q] = service[q]
    BY <1>3, <2>1 DEF BridgeTypeOK, Credential
  <2>3. /\ Leaves(p)
        /\ pc'[p] = "app"
        /\ held'[p] = held[p] \cup Holding(p)
    BY <1>3, <2>1, <2>2, MoveLeaves DEF Locations, BridgeTypeOK
  <2>4. "service" \in held'[p]
    BY <1>3, <2>1, <2>3 DEF Holding
  <2>5. CallFits(p)'
    BY <1>1, <1>3, <2>3 DEF Fits, CallFits, admin, tables, Rows,
      ReserveSteps, SettleSteps, CreditSteps
  <2>6. AuthorityFits(p)'
    BY <1>3, <2>2, <2>3, <2>4 DEF AuthorityFits, Granted, GrantedCredit,
      admin, PastUser, PastSession, PastApp, PastCredential, PastSpender
  <2>7. Fits(p)'
    BY <2>3, <2>5, <2>6 DEF Fits, ScopeFits, AnswerFits, Granted
  <2>8. QED
    BY <1>3, <2>3, <2>7, QuietRows DEF Keeps
<1>4. QED
  BY <1>2, <1>3 DEF FindCredential

LEMMA FindAppFits ==
  ASSUME BridgeTypeOK, NEW p \in Callers, Fits(p), FindApp(p)
  PROVE  Keeps(p)
<1>1. pc[p] = "app"
  BY DEF FindApp
<1>2. CASE Refuse(p, "FORBIDDEN")
  BY <1>1, <1>2, RefuseKeeps DEF Codes
<1>3. ASSUME NEW l \in {"exchange", "session"},
             l = IF call[p].kind = "exchange" THEN "exchange" ELSE "session",
             service[p] \notin disabled, Continue(p, l)
      PROVE  Keeps(p)
  <2>1. /\ call[p] \in CreditCall \cup ExchangeCall
        /\ call[p] # None
        /\ call[p].credential # None
        /\ credentials[call[p].credential] # None
        /\ service[p] = credentials[call[p].credential].app
    BY <1>1, Known
  <2>2. /\ Leaves(p)
        /\ pc'[p] = l
        /\ held'[p] = held[p] \cup Holding(p)
        /\ UNCHANGED <<tables, credentials, sessions, call, service, session,
                       operation, out>>
    BY <1>3, <2>1, ContinueLeaves DEF Locations
  <2>3. "app" \in held'[p] /\ "service" \in held'[p]
    BY <1>1, <1>3, <2>1, <2>2 DEF Holding, Fits, AuthorityFits, PastCredential,
      Locations
  <2>4. CallFits(p)'
    BY <1>1, <1>3, <2>1, <2>2, CallKinds DEF Fits, CallFits, tables, Rows,
      ReserveSteps, SettleSteps, CreditSteps
  <2>5. AuthorityFits(p)'
    BY <1>3, <2>1, <2>2, <2>3 DEF AuthorityFits, Granted, GrantedCredit,
      PastUser, PastSession, PastApp, PastCredential, PastSpender
  <2>6. Fits(p)'
    BY <2>2, <2>4, <2>5 DEF Fits, ScopeFits, AnswerFits, Granted
  <2>7. QED
    BY <2>2, <2>6, QuietRows DEF Keeps
<1>4. QED
  BY <1>2, <1>3 DEF FindApp

LEMMA FindSessionFits ==
  ASSUME BridgeTypeOK, NEW p \in Callers, Fits(p), FindSession(p)
  PROVE  Keeps(p)
<1> DEFINE row == sessions[call[p].token]
<1>1. pc[p] = "session" /\ call[p] \in CreditCall
  BY DEF FindSession, Fits, CallFits, CreditSteps
<1>2. CASE Refuse(p, "UNAUTHORIZED")
  BY <1>1, <1>2, RefuseKeeps DEF Codes
<1>3. CASE /\ row # None /\ row.live
           /\ session' = [session EXCEPT ![p] = row]
           /\ Goto(p, "user")
           /\ UNCHANGED <<tables, admin, sessions, call, service, operation,
                          out>>
  <2>1. /\ call[p] # None
        /\ call[p].kind # "exchange"
        /\ row \in Session
        /\ call[p].credential # None
        /\ credentials[call[p].credential] # None
        /\ service[p] = credentials[call[p].credential].app
    BY <1>1, <1>3, Known, CallKinds DEF BridgeTypeOK
  <2>2. /\ session' \in [Callers -> Session \cup {None}]
        /\ session'[p] = row
        /\ \A q \in Callers \ {p} : session'[q] = session[q]
    BY <1>3, <2>1 DEF BridgeTypeOK
  <2>3. /\ Leaves(p)
        /\ pc'[p] = "user"
        /\ held'[p] = held[p] \cup Holding(p)
    BY <1>3, <2>1, <2>2, MoveLeaves DEF Locations, BridgeTypeOK
  <2>4. /\ row.app = service[p] => "session" \in Holding(p)
        /\ "service" \in held[p] /\ "app" \in held[p]
    BY <1>1, <1>3, <2>1 DEF Holding, LiveSession, Fits, AuthorityFits,
      PastApp, PastCredential, Locations
  <2>5. CallFits(p)'
    BY <1>1, <1>3, <2>3 DEF Fits, CallFits, admin, tables, Rows,
      ReserveSteps, SettleSteps, CreditSteps
  <2>6. AuthorityFits(p)'
    BY <1>3, <2>1, <2>2, <2>3, <2>4 DEF AuthorityFits, Granted, GrantedCredit,
      admin, PastUser, PastSession, PastApp, PastCredential, PastSpender
  <2>7. Fits(p)'
    BY <2>3, <2>5, <2>6 DEF Fits, ScopeFits, AnswerFits, Granted
  <2>8. QED
    BY <1>3, <2>3, <2>7, QuietRows DEF Keeps
<1>4. QED
  BY <1>2, <1>3 DEF FindSession

LEMMA FindUserFits ==
  ASSUME BridgeTypeOK, NEW p \in Callers, Fits(p), FindUser(p)
  PROVE  Keeps(p)
<1>1. pc[p] = "user" /\ pc[p] \in PastSession /\ pc[p] # "idle"
  BY DEF FindUser, PastSession, PastApp, PastCredential, Locations
<1>2. CASE Refuse(p, "FORBIDDEN")
  BY <1>1, <1>2, RefuseKeeps DEF Codes
<1>3. ASSUME NEW l \in {"operation", "ownership"},
             l = IF call[p].kind = "reserve" THEN "operation"
                                             ELSE "ownership",
             session[p].user \in active, session[p].app = service[p],
             Continue(p, l)
      PROVE  Keeps(p)
  <2>1. /\ call[p] \in CreditCall
        /\ call[p] # None
        /\ call[p].kind # "exchange"
        /\ sessions[call[p].token] # None
        /\ session[p].user = sessions[call[p].token].user
        /\ call[p].credential # None
        /\ credentials[call[p].credential] # None
        /\ service[p] = credentials[call[p].credential].app
    BY <1>1, Known, CallKinds
  <2>2. /\ Leaves(p)
        /\ pc'[p] = l
        /\ held'[p] = held[p] \cup Holding(p)
        /\ UNCHANGED <<tables, credentials, sessions, call, service, session,
                       operation, out>>
    BY <1>3, <2>1, ContinueLeaves DEF Locations
  <2>3. "user" \in Holding(p)
    BY <1>3, <2>1 DEF Holding
  <2>4. CallFits(p)'
    BY <1>1, <1>3, <2>1, <2>2, CallKinds DEF Fits, CallFits, tables, Rows,
      ReserveSteps, SettleSteps, CreditSteps, CreditCall
  <2>5. AuthorityFits(p)'
    BY <1>1, <1>3, <2>1, <2>2, <2>3 DEF Fits, AuthorityFits, Granted,
      GrantedCredit, PastUser, PastSession, PastApp, PastCredential, PastSpender,
      Locations
  <2>6. Fits(p)'
    BY <1>3, <2>2, <2>4, <2>5 DEF Fits, ScopeFits, AnswerFits, Granted
  <2>7. QED
    BY <2>2, <2>6, QuietRows DEF Keeps
<1>4. QED
  BY <1>2, <1>3 DEF FindUser

\* A check after the user's that p passes, but for those of the operation.
LEMMA PassFits ==
  ASSUME BridgeTypeOK, NEW p \in Callers, Fits(p), pc[p] \in PastUser,
         NEW l \in PastUser \ {"lookup", "spend"}, Continue(p, l),
         l \in ReserveSteps => call[p] \in ReserveCall,
         l \in SettleSteps => call[p] \in SettleCall,
         l \in PastSpender => "spender" \in Holding(p)
  PROVE  /\ Leaves(p) /\ CallFits(p)' /\ AuthorityFits(p)' /\ AnswerFits(p)'
         /\ pc'[p] = l
         /\ UNCHANGED <<tables, call, service, session>>
<1>1. pc[p] \in PastSession /\ pc[p] # "idle"
  BY DEF PastUser, PastSession, PastApp, PastCredential, Locations
<1>2. call[p] \in CreditCall /\ call[p] # None
  BY <1>1, Known
<1>3. l \in Locations \ {"idle", "done", "exchange"}
  BY DEF PastUser, PastSession, PastApp, PastCredential, Locations
<1>4. /\ Leaves(p)
      /\ pc'[p] = l
      /\ held'[p] = held[p] \cup Holding(p)
      /\ UNCHANGED <<tables, credentials, sessions, call, service, session,
                     operation, out>>
  BY <1>2, <1>3, ContinueLeaves
<1>5. CallFits(p)'
  BY <1>1, <1>2, <1>3, <1>4 DEF Fits, CallFits, tables, Rows
<1>6. AuthorityFits(p)'
  BY <1>1, <1>3, <1>4 DEF Fits, AuthorityFits, Granted, GrantedCredit,
    PastUser, PastSession, PastApp, PastCredential
<1>7. AnswerFits(p)'
  BY <1>3, <1>4 DEF AnswerFits, Granted
<1>8. QED
  BY <1>4, <1>5, <1>6, <1>7

LEMMA FindOperationFits ==
  ASSUME BridgeTypeOK, NEW p \in Callers, Fits(p), FindOperation(p)
  PROVE  Keeps(p)
<1>1. /\ pc[p] = "operation" /\ pc[p] \in PastUser /\ pc[p] # "idle"
      /\ call[p] \in ReserveCall /\ call[p] \notin SettleCall
  BY CallKinds DEF FindOperation, PastUser, PastSession, PastApp,
    PastCredential, Locations, Fits, CallFits, ReserveSteps, ReserveCall,
    SettleCall
<1>2. ASSUME NEW code \in {"NOT_FOUND", "FORBIDDEN"}, Refuse(p, code)
      PROVE  Keeps(p)
  BY <1>1, <1>2, RefuseKeeps DEF Codes
<1>3. ASSUME NEW o \in WithKey(call[p].key), AppOf[o] = service[p],
             Continue(p, "operationApp")
      PROVE  Keeps(p)
  <2>1. /\ Leaves(p) /\ CallFits(p)' /\ AuthorityFits(p)' /\ AnswerFits(p)'
        /\ pc'[p] = "operationApp"
        /\ UNCHANGED <<tables, call, service, session>>
    BY <1>1, <1>3, PassFits DEF PastUser, PastSession, PastApp,
      PastCredential, Locations, PastSpender, SettleSteps
  <2>2. Offers(service[p], call[p].key)
    BY <1>3 DEF Offers
  <2>3. ScopeFits(p)'
    BY <1>1, <2>1, <2>2 DEF ScopeFits, Offers, WithKey
  <2>4. QED
    BY <2>1, <2>3, QuietRows DEF Keeps, Fits
<1>4. QED
  BY <1>2, <1>3 DEF FindOperation

LEMMA FindOperationAppFits ==
  ASSUME BridgeTypeOK, NEW p \in Callers, Fits(p), FindOperationApp(p)
  PROVE  Keeps(p)
<1>1. /\ pc[p] = "operationApp" /\ pc[p] \in PastUser /\ pc[p] # "idle"
      /\ call[p] \in ReserveCall /\ call[p] \notin SettleCall
  BY CallKinds DEF FindOperationApp, PastUser, PastSession, PastApp,
    PastCredential, Locations, Fits, CallFits, ReserveSteps, ReserveCall,
    SettleCall
<1>2. CASE Refuse(p, "FORBIDDEN")
  BY <1>1, <1>2, RefuseKeeps DEF Codes
<1>3. CASE Continue(p, "spender")
  <2>1. /\ Leaves(p) /\ CallFits(p)' /\ AuthorityFits(p)' /\ AnswerFits(p)'
        /\ pc'[p] = "spender"
        /\ UNCHANGED <<tables, call, service, session>>
    BY <1>1, <1>3, PassFits DEF PastUser, PastSession, PastApp,
      PastCredential, Locations, PastSpender, ReserveSteps, SettleSteps
  <2>2. ScopeFits(p)'
    BY <1>1, <2>1 DEF Fits, ScopeFits, Offers, WithKey
  <2>3. QED
    BY <2>1, <2>2, QuietRows DEF Keeps, Fits
<1>4. QED
  BY <1>2, <1>3 DEF FindOperationApp

LEMMA CheckOwnershipFits ==
  ASSUME BridgeTypeOK, NEW p \in Callers, Fits(p), CheckOwnership(p)
  PROVE  Keeps(p)
<1> DEFINE r == call[p].reservation
           foreign == /\ r # None
                      /\ reservation[r].user = session[p].user
                      /\ AppOf[reservation[r].operation] # service[p]
<1>1. /\ pc[p] = "ownership" /\ pc[p] \in PastUser /\ pc[p] # "idle"
      /\ call[p] \in SettleCall /\ call[p] \notin ReserveCall
  BY CallKinds DEF CheckOwnership, PastUser, PastSession, PastApp,
    PastCredential, Locations, Fits, CallFits, SettleSteps, ReserveCall,
    SettleCall
<1>2. CASE Refuse(p, "FORBIDDEN")
  BY <1>1, <1>2, RefuseKeeps DEF Codes
<1>3. CASE ~foreign /\ Continue(p, "current")
  <2>1. /\ Leaves(p) /\ CallFits(p)' /\ AuthorityFits(p)' /\ AnswerFits(p)'
        /\ pc'[p] = "current"
        /\ UNCHANGED <<tables, call, service, session>>
    BY <1>1, <1>3, PassFits DEF PastUser, PastSession, PastApp,
      PastCredential, Locations, PastSpender, ReserveSteps
  <2>2. ScopeFits(p)'
    BY <1>1, <1>3, <2>1 DEF ScopeFits, tables
  <2>3. QED
    BY <2>1, <2>2, QuietRows DEF Keeps, Fits
<1>4. QED
  BY <1>2, <1>3 DEF CheckOwnership

LEMMA FindReservationFits ==
  ASSUME BridgeTypeOK, NEW p \in Callers, Fits(p), FindReservation(p)
  PROVE  Keeps(p)
<1> DEFINE r == call[p].reservation
           known == r # None /\ reservation[r].user = session[p].user
<1>1. /\ pc[p] = "current" /\ pc[p] \in PastUser /\ pc[p] # "idle"
      /\ call[p] \in SettleCall /\ call[p] \notin ReserveCall
  BY CallKinds DEF FindReservation, PastUser, PastSession, PastApp,
    PastCredential, Locations, Fits, CallFits, SettleSteps, ReserveCall,
    SettleCall
<1>2. CASE Refuse(p, "NOT_FOUND")
  BY <1>1, <1>2, RefuseKeeps DEF Codes
<1>3. CASE known /\ Continue(p, "spender")
  <2>1. /\ Leaves(p) /\ CallFits(p)' /\ AuthorityFits(p)' /\ AnswerFits(p)'
        /\ pc'[p] = "spender"
        /\ UNCHANGED <<tables, call, service, session>>
    BY <1>1, <1>3, PassFits DEF PastUser, PastSession, PastApp,
      PastCredential, Locations, PastSpender, ReserveSteps, SettleSteps
  <2>2. ScopeFits(p)'
    BY <1>1, <1>3, <2>1 DEF Fits, ScopeFits, tables
  <2>3. QED
    BY <2>1, <2>2, QuietRows DEF Keeps, Fits
<1>4. QED
  BY <1>2, <1>3 DEF FindReservation

LEMMA RequireActiveSpenderFits ==
  ASSUME BridgeTypeOK, NEW p \in Callers, Fits(p), RequireActiveSpender(p)
  PROVE  Keeps(p)
<1>1. /\ pc[p] = "spender" /\ pc[p] # "idle"
      /\ pc[p] \in PastUser /\ pc[p] \in PastSession
  BY DEF RequireActiveSpender, PastUser, PastSession, PastApp, PastCredential,
    Locations
<1>2. CASE Refuse(p, "FORBIDDEN")
  BY <1>1, <1>2, RefuseKeeps DEF Codes
<1>3. ASSUME NEW l \in {"load", "settle"},
             l = IF call[p].kind = "reserve" THEN "load" ELSE "settle",
             session[p].user \in active, Continue(p, l)
      PROVE  Keeps(p)
  <2>1. IF l = "load" THEN call[p] \in ReserveCall /\ call[p] \notin SettleCall
                      ELSE call[p] \in SettleCall /\ call[p] \notin ReserveCall
    BY <1>1, <1>3, Known, CallKinds DEF CreditCall, ReserveCall, SettleCall
  <2>2. "spender" \in Holding(p)
    BY <1>1, <1>3 DEF Holding, InEngine
  <2>3. /\ Leaves(p) /\ CallFits(p)' /\ AuthorityFits(p)' /\ AnswerFits(p)'
        /\ pc'[p] = l
        /\ UNCHANGED <<tables, call, service, session>>
    BY <1>1, <1>3, <2>1, <2>2, PassFits DEF PastUser, PastSession, PastApp,
      PastCredential, Locations, ReserveSteps, SettleSteps
  <2>4. ScopeFits(p)'
    BY <1>1, <1>3, <2>1, <2>3 DEF Fits, ScopeFits, Offers, WithKey, tables
  <2>5. QED
    BY <2>3, <2>4, QuietRows DEF Keeps, Fits
<1>4. QED
  BY <1>2, <1>3 DEF RequireActiveSpender

\* A request that is granted, whatever its step does to tables and sessions.
LEMMA GrantLeaves ==
  ASSUME BridgeTypeOK, NEW p \in Callers, Fits(p),
         pc[p] \in {"lookup", "spend", "settle", "exchange"},
         NEW r \in ReservationIds \cup {None}, Answer(p, "OK", r),
         TablesTypeOK', RowsLast,
         sessions' \in [Tokens -> Session \cup {None}],
         \A t \in Tokens : sessions[t] # None => sessions'[t] = sessions[t]
  PROVE  /\ Leaves(p) /\ CallFits(p)' /\ AuthorityFits(p)' /\ ScopeFits(p)'
         /\ Granted(p)'
         /\ out'[p].reservation = r
         /\ UNCHANGED <<call, service, session>>
<1>1. /\ UNCHANGED <<credentials, disabled, closed, active, bound, call,
                     service, session, operation>>
      /\ Observe
      /\ pc' = [pc EXCEPT ![p] = "done"]
      /\ out' = [out EXCEPT ![p] = [code |-> "OK", reservation |-> r]]
  BY DEF Answer, Goto, admin, reads
<1>2. pc[p] \in PastApp /\ pc[p] # "idle"
  BY DEF PastApp, PastCredential, Locations
<1>3. /\ call[p] \in CreditCall \cup ExchangeCall /\ call[p] # None
      /\ pc[p] # "exchange" <=> call[p] \in CreditCall
      /\ call[p] \in ReserveCall => pc[p] \in {"lookup", "spend"}
  BY <1>2, Known, CallKinds DEF Fits, CallFits, ReserveSteps, SettleSteps,
    CreditCall, ReserveCall, SettleCall, ExchangeCall
<1>4. RequestsTyped'
  BY TypesSplit, AnswerTyped DEF Codes
<1>5. AdminTyped'
  BY <1>1, TypesSplit DEF AdminTyped
<1>6. /\ pc'[p] = "done"
      /\ out'[p] = [code |-> "OK", reservation |-> r]
      /\ \A q \in Callers \ {p} : pc'[q] = pc[q] /\ out'[q] = out[q]
  BY <1>1 DEF BridgeTypeOK
<1>7. RecordsLast
  BY <1>1 DEF RecordsLast
<1>8. \A q \in Callers \ {p} : Untouched(q)
  BY <1>1, <1>6 DEF Untouched
<1>9. Leaves(p)
  BY <1>1, <1>4, <1>5, <1>7, <1>8, TypesJoin DEF Leaves
<1>10. held'[p] = held[p] \cup Holding(p)
  BY <1>1, <1>3, <1>6 DEF Observe
<1>11. CallFits(p)'
  BY <1>1, <1>2, <1>6 DEF Fits, CallFits, RowsLast, Response, Codes,
    ReserveSteps, SettleSteps, CreditSteps
<1>12. call[p] \in CreditCall =>
         /\ pc[p] \in PastSession /\ pc[p] \in PastUser
         /\ pc[p] \in PastSpender
         /\ call[p].token \in Tokens
  BY <1>2, <1>3, CallKinds DEF PastSpender, PastUser, PastSession, PastApp,
    PastCredential, Locations
<1>13. AuthorityFits(p)'
  <2>1. pc[p] \in PastCredential
    BY <1>2 DEF PastApp
  <2>2. /\ call[p].credential # None
        /\ service[p] = credentials[call[p].credential].app
        /\ "service" \in held'[p] /\ "app" \in held'[p]
    BY <1>2, <1>10, <2>1 DEF Fits, AuthorityFits
  <2>3. ASSUME call[p] \in CreditCall
        PROVE  LET row == sessions[call[p].token]
               IN  /\ session[p] \in Session
                   /\ row # None /\ sessions'[call[p].token] = row
                   /\ row.user = session[p].user /\ row.app = session[p].app
                   /\ session[p].app = service[p]
                   /\ {"session", "user", "spender"} \subseteq held'[p]
    BY <1>10, <1>12, <2>3 DEF Fits, AuthorityFits
  <2>4. call[p] \in ReserveCall => operation[p] \in held'[p]
    BY <1>3, <1>10 DEF Fits, AuthorityFits
  <2>5. QED
    BY <1>1, <1>6, <2>2, <2>3, <2>4 DEF AuthorityFits, GrantedCredit, Granted,
      PastUser, PastSession, PastApp, PastCredential, PastSpender
<1>14. ScopeFits(p)'
  BY <1>6 DEF ScopeFits
<1>15. QED
  BY <1>1, <1>6, <1>9, <1>11, <1>13, <1>14 DEF Granted

LEMMA ExchangeFits ==
  ASSUME BridgeTypeOK, NEW p \in Callers, Fits(p), Exchange(p)
  PROVE  Keeps(p)
<1>1. PICK t \in Tokens : Open(t, call[p].user, service[p])
  BY DEF Exchange
<1>2. /\ pc[p] = "exchange" /\ pc[p] # "idle"
      /\ Answer(p, "OK", None)
      /\ UNCHANGED tables
  BY DEF Exchange
<1>3. call[p] \in ExchangeCall /\ service[p] \in Apps
  BY <1>2, Known DEF Fits, CallFits
<1>4. /\ sessions' \in [Tokens -> Session \cup {None}]
      /\ \A x \in Tokens : sessions[x] # None => sessions'[x] = sessions[x]
  BY <1>1, <1>3, OpenStep, TypesSplit DEF ExchangeCall
<1>5. TablesTypeOK'
  BY <1>2, TypesSplit DEF tables, TablesTypeOK
<1>6. /\ Leaves(p) /\ CallFits(p)' /\ AuthorityFits(p)' /\ ScopeFits(p)'
      /\ UNCHANGED call
  BY <1>2, <1>4, <1>5, GrantLeaves, QuietRows
<1>7. AnswerFits(p)'
  BY <1>3, <1>6 DEF AnswerFits, ExchangeCall, ReserveCall
<1>8. QED
  BY <1>2, <1>6, <1>7, QuietRows DEF Keeps, Fits

LEMMA LoadOperationFits ==
  ASSUME BridgeTypeOK, NEW p \in Callers, Fits(p), LoadOperation(p)
  PROVE  Keeps(p)
<1>1. /\ pc[p] = "load" /\ pc[p] # "idle"
      /\ pc[p] \in PastUser /\ pc[p] \in PastSession
      /\ call[p] \in ReserveCall
  BY DEF LoadOperation, PastUser, PastSession, PastApp, PastCredential,
    Locations, Fits, CallFits, ReserveSteps
<1>2. CASE Refuse(p, "FORBIDDEN")
  BY <1>1, <1>2, RefuseKeeps DEF Codes
<1>3. ASSUME NEW o \in WithKey(call[p].key), o \notin closed,
             operation' = [operation EXCEPT ![p] = o],
             Goto(p, "lookup"),
             UNCHANGED <<tables, admin, sessions, call, service, session, out>>
      PROVE  Keeps(p)
  <2>1. /\ operation' \in [Callers -> Operations \cup {None}]
        /\ operation'[p] = o
        /\ \A q \in Callers \ {p} : operation'[q] = operation[q]
    BY <1>3 DEF BridgeTypeOK, WithKey
  <2>2. /\ Leaves(p)
        /\ pc'[p] = "lookup"
        /\ held'[p] = held[p] \cup Holding(p)
    BY <1>1, <1>3, <2>1, Known, MoveLeaves DEF Locations, BridgeTypeOK
  <2>3. o \in Holding(p)
    BY <1>1, <1>3 DEF Holding, InEngine, WithKey, ReserveCall
  <2>4. CallFits(p)'
    BY <1>1, <1>3, <2>1, <2>2 DEF Fits, CallFits, tables, admin, Rows,
      WithKey, ReserveSteps, SettleSteps, CreditSteps
  <2>5. AuthorityFits(p)'
    BY <1>1, <1>3, <2>1, <2>2, <2>3 DEF Fits, AuthorityFits, Granted,
      GrantedCredit, PastUser, PastSession, PastApp, PastCredential,
      PastSpender, Locations, admin
  <2>6. ScopeFits(p)'
    BY <1>1, <1>3, <2>2 DEF Fits, ScopeFits, Offers, WithKey
  <2>7. AnswerFits(p)'
    BY <2>2 DEF AnswerFits, Granted
  <2>8. QED
    BY <1>3, <2>2, <2>4, <2>5, <2>6, <2>7, QuietRows DEF Keeps, Fits
<1>4. QED
  BY <1>2, <1>3 DEF LoadOperation

\* What is known of a reserve request that has read its operation.
LEMMA KnownReserve ==
  ASSUME BridgeTypeOK, NEW p \in Callers, Fits(p), pc[p] \in {"lookup", "spend"}
  PROVE  /\ call[p] \in ReserveCall /\ call[p] \notin SettleCall
         /\ call[p] # None
         /\ call[p].request \in Requests
         /\ call[p].request \in RequestsOf[service[p]]
         /\ service[p] \in Apps
         /\ session[p].user \in Users
         /\ operation[p] \in Operations
         /\ KeyOf[operation[p]] = call[p].key
         /\ Offers(service[p], call[p].key)
<1>1. pc[p] \in PastSession /\ pc[p] \notin {"idle", "credential", "done"}
  BY DEF PastSession, PastApp, PastCredential, Locations
<1>2. call[p] \in ReserveCall
  BY DEF Fits, CallFits, ReserveSteps
<1>3. /\ call[p] # None
      /\ call[p].credential # None
      /\ service[p] = credentials[call[p].credential].app
      /\ service[p] \in Apps
      /\ session[p].user \in Users
  BY <1>1, Known
<1>4. call[p].request \in RequestsOf[service[p]]
  BY <1>1, <1>2, <1>3 DEF Fits, CallFits
<1>5. operation[p] \in WithKey(call[p].key)
  BY DEF Fits, CallFits
<1>6. Offers(service[p], call[p].key)
  BY <1>2 DEF Fits, ScopeFits
<1>7. QED
  BY <1>2, <1>3, <1>4, <1>5, <1>6 DEF ReserveCall, SettleCall, WithKey

\* A row of the request id of an application was made by it, or by another one
\* that draws the id too.
LEMMA RowIsAmbiguous ==
  ASSUME RowsOfApps, NEW r \in Rows, NEW a \in Apps,
         reservation[r].request \in RequestsOf[a]
  PROVE  Ambiguous(a, reservation[r])
<1>1. PICK b \in Apps : /\ reservation[r].request \in RequestsOf[b]
                        /\ Offers(b, KeyOf[reservation[r].operation])
  BY DEF RowsOfApps
<1>2. QED
  BY <1>1 DEF Ambiguous

LEMMA LookupFits ==
  ASSUME BridgeTypeOK, RowsOfApps, NEW p \in Callers, Fits(p), Lookup(p)
  PROVE  Keeps(p)
<1>1. pc[p] = "lookup" /\ pc[p] # "idle"
  BY DEF Lookup
<1>2. /\ call[p] \in ReserveCall /\ call[p] \notin SettleCall
      /\ call[p] # None
      /\ call[p].request \in RequestsOf[service[p]]
      /\ service[p] \in Apps
  BY <1>1, KnownReserve
<1>3. CASE Continue(p, "spend")
  <2>1. /\ Leaves(p)
        /\ pc'[p] = "spend"
        /\ held'[p] = held[p] \cup Holding(p)
        /\ UNCHANGED <<tables, credentials, sessions, call, service, session,
                       operation, out>>
    BY <1>2, <1>3, ContinueLeaves DEF Locations
  <2>2. CallFits(p)'
    BY <1>1, <1>2, <2>1 DEF Fits, CallFits, tables, Rows, WithKey,
      ReserveSteps, SettleSteps, CreditSteps
  <2>3. AuthorityFits(p)'
    BY <1>1, <2>1 DEF Fits, AuthorityFits, Granted, GrantedCredit, PastUser,
      PastSession, PastApp, PastCredential, PastSpender, Locations
  <2>4. ScopeFits(p)'
    BY <1>1, <1>2, <2>1 DEF Fits, ScopeFits, Offers, WithKey
  <2>5. AnswerFits(p)'
    BY <2>1 DEF AnswerFits, Granted
  <2>6. QED
    BY <2>1, <2>2, <2>3, <2>4, <2>5, QuietRows DEF Keeps, Fits
<1>4. ASSUME NEW r \in Seen(p), Answer(p, "OK", r),
             UNCHANGED <<tables, sessions>>
      PROVE  Keeps(p)
  <2>1. /\ r \in Rows
        /\ reservation[r].user = session[p].user
        /\ reservation[r].request = call[p].request
    BY <1>4 DEF Seen, WithRequest, RowsOf
  <2>2. TablesTypeOK' /\ sessions' \in [Tokens -> Session \cup {None}]
    BY <1>4, TypesSplit DEF tables, TablesTypeOK, AdminTyped
  <2>3. /\ Leaves(p) /\ CallFits(p)' /\ AuthorityFits(p)' /\ ScopeFits(p)'
        /\ out'[p].reservation = r
        /\ UNCHANGED <<call, service, session>>
    BY <1>1, <1>4, <2>1, <2>2, GrantLeaves, QuietRows DEF Rows
  <2>4. Ambiguous(service[p], reservation[r])
    BY <1>2, <2>1, RowIsAmbiguous
  <2>5. AnswerFits(p)'
    BY <1>4, <2>1, <2>3, <2>4 DEF AnswerFits, tables, Rows, Ambiguous, Offers,
      WithKey
  <2>6. QED
    BY <1>4, <2>3, <2>5, QuietRows DEF Keeps, Fits
<1>5. QED
  BY <1>3, <1>4 DEF Lookup

LEMMA SpendFits ==
  ASSUME BridgeTypeOK, RowsOfApps, NEW p \in Callers, Fits(p), Spend(p)
  PROVE  Keeps(p)
<1> DEFINE u == session[p].user
           o == operation[p]
<1>1. pc[p] = "spend" /\ pc[p] # "idle" /\ pc[p] \in PastUser
  BY DEF Spend, PastUser, PastSession, PastApp, PastCredential, Locations
<1>2. /\ call[p] \in ReserveCall /\ call[p] \notin SettleCall
      /\ call[p] # None
      /\ call[p].request \in Requests
      /\ call[p].request \in RequestsOf[service[p]]
      /\ service[p] \in Apps
      /\ u \in Users /\ o \in Operations
      /\ Offers(service[p], KeyOf[o])
  BY <1>1, KnownReserve
<1>3. CASE Refuse(p, "INSUFFICIENT_CREDITS")
  BY <1>1, <1>3, RefuseKeeps DEF Codes
<1>4. CASE Continue(p, "spender")
  <2>1. /\ Leaves(p) /\ CallFits(p)' /\ AuthorityFits(p)' /\ AnswerFits(p)'
        /\ pc'[p] = "spender"
        /\ UNCHANGED <<tables, call, service, session>>
    BY <1>1, <1>4, PassFits DEF PastUser, PastSession, PastApp,
      PastCredential, Locations, PastSpender, ReserveSteps, SettleSteps
  <2>2. ScopeFits(p)'
    BY <1>1, <1>2, <2>1 DEF Fits, ScopeFits, Offers, WithKey
  <2>3. QED
    BY <2>1, <2>2, QuietRows DEF Keeps, Fits
<1>5. ASSUME NEW r \in ReservationIds \ Rows,
             Account!Reserve(u, call[p].request, o, CostOf[o], r),
             Committed(p, r)
      PROVE  Keeps(p)
  <2>1. CostOf[o] \in Nat
    BY <1>2, RegistryAssumption
  <2>2. /\ TablesTypeOK'
        /\ RowsLast
        /\ r \in Rows'
        /\ reservation'[r].user = u
        /\ reservation'[r].request = call[p].request
        /\ reservation'[r].operation = o
        /\ \A x \in ReservationIds \ {r} : reservation'[x] = reservation[x]
    BY <1>2, <1>5, <2>1, ReserveStep, TypesSplit
  <2>3. RowsOfApps'
    <3>1. ASSUME NEW x \in Rows'
          PROVE  \E a \in Apps :
                   /\ reservation'[x].request \in RequestsOf[a]
                   /\ Offers(a, KeyOf[reservation'[x].operation])
      <4>1. CASE x = r
        BY <1>2, <2>2, <4>1
      <4>2. CASE x # r
        BY <2>2, <4>2 DEF RowsOfApps, Rows
      <4>3. QED
        BY <4>1, <4>2
    <3>2. QED
      BY <3>1 DEF RowsOfApps, Offers, WithKey
  <2>4. CASE Answer(p, "OK", r) /\ UNCHANGED sessions
    <3>1. sessions' \in [Tokens -> Session \cup {None}]
      BY <2>4, TypesSplit DEF AdminTyped
    <3>2. /\ Leaves(p) /\ CallFits(p)' /\ AuthorityFits(p)' /\ ScopeFits(p)'
          /\ out'[p].reservation = r
          /\ UNCHANGED <<call, service, session>>
      BY <1>1, <2>2, <2>4, <3>1, GrantLeaves
    <3>3. Ambiguous(service[p], reservation'[r])
      BY <1>2, <2>2 DEF Ambiguous
    <3>4. AnswerFits(p)'
      BY <2>2, <3>2, <3>3 DEF AnswerFits, Ambiguous, Offers, WithKey
    <3>5. QED
      BY <2>3, <3>2, <3>4 DEF Keeps, Fits
  <2>5. CASE Answer(p, "INTERNAL_ERROR", None) /\ UNCHANGED sessions
    BY <1>1, <2>2, <2>3, <2>5, FailureFits DEF Keeps, Codes
  <2>6. QED
    BY <1>5, <2>4, <2>5 DEF Committed
<1>6. QED
  BY <1>3, <1>4, <1>5 DEF Spend

LEMMA SettleFits ==
  ASSUME BridgeTypeOK, RowsOfApps, NEW p \in Callers, Fits(p), Settle(p)
  PROVE  Keeps(p)
<1> DEFINE r == call[p].reservation
<1>1. pc[p] = "settle" /\ pc[p] # "idle"
  BY DEF Settle
<1>2. /\ call[p] \in SettleCall /\ call[p] \notin ReserveCall
      /\ r \in ReservationIds
  BY <1>1 DEF Fits, CallFits, ScopeFits, SettleSteps, ReserveCall, SettleCall
<1>3. CASE Refuse(p, "RESERVATION_CONFLICT")
  BY <1>1, <1>3, RefuseKeeps DEF Codes
<1>4. CASE Answer(p, "OK", r) /\ UNCHANGED <<tables, sessions>>
  <2>1. TablesTypeOK' /\ sessions' \in [Tokens -> Session \cup {None}]
    BY <1>4, TypesSplit DEF tables, TablesTypeOK, AdminTyped
  <2>2. /\ Leaves(p) /\ CallFits(p)' /\ AuthorityFits(p)' /\ ScopeFits(p)'
        /\ UNCHANGED call
    BY <1>1, <1>2, <1>4, <2>1, GrantLeaves, QuietRows
  <2>3. QED
    BY <1>2, <1>4, <2>2, QuietRows DEF AnswerFits, Keeps, Fits
<1>5. CASE (Account!Commit(r) \/ Account!Release(r)) /\ Committed(p, r)
  <2>1. sessions' \in [Tokens -> Session \cup {None}]
    BY <1>5, TypesSplit DEF AdminTyped, Committed
  <2>2. /\ TablesTypeOK'
        /\ RowsLast
        /\ r \in Rows
        /\ \A x \in ReservationIds \ {r} : reservation'[x] = reservation[x]
    BY <1>2, <1>5, SettleStep, TypesSplit
  <2>3. RowsOfApps'
    <3>1. Rows' \subseteq Rows
      BY <2>2 DEF Rows
    <3>2. QED
      BY <2>2, <3>1 DEF RowsOfApps, RowsLast, Offers, WithKey
  <2>4. CASE Answer(p, "OK", r) /\ UNCHANGED sessions
    <3>1. /\ Leaves(p) /\ CallFits(p)' /\ AuthorityFits(p)' /\ ScopeFits(p)'
          /\ UNCHANGED call
      BY <1>1, <1>2, <2>1, <2>2, <2>4, GrantLeaves
    <3>2. QED
      BY <1>2, <2>3, <3>1 DEF AnswerFits, Keeps, Fits
  <2>5. CASE Answer(p, "INTERNAL_ERROR", None) /\ UNCHANGED sessions
    BY <1>1, <2>2, <2>3, <2>5, FailureFits DEF Keeps, Codes
  <2>6. QED
    BY <1>5, <2>4, <2>5 DEF Committed
<1>6. QED
  BY <1>3, <1>4, <1>5 DEF Settle

-----------------------------------------------------------------------------
(* The invariant *)

LEMMA BridgeInit ==
  Init => BridgeInv
<1> SUFFICES ASSUME Init PROVE BridgeInv
  OBVIOUS
<1>1. TablesTypeOK
  <2>1. wallet \in [Users -> Wallet] /\ ledger \subseteq LedgerRow
    BY InitialCreditAssumption DEF Init, TablesInit, Wallet, LedgerRow,
      WelcomeRow
  <2>2. /\ reservation \in [ReservationIds -> Reservation \cup {None}]
        /\ usage \in [UsageKeys -> Nat]
    BY DEF Init, TablesInit
  <2>3. QED
    BY <2>1, <2>2 DEF TablesTypeOK
<1>2. AdminTyped
  BY StartsAssumption DEF Init, AdminTyped
<1>3. RequestsTyped
  BY DEF Init, RequestsTyped, Locations
<1>4. RowsOfApps
  BY DEF Init, TablesInit, RowsOfApps, Rows
<1>5. \A p \in Callers : Fits(p)
  BY DEF Init, Fits, CallFits, AuthorityFits, ScopeFits, AnswerFits, Granted,
    GrantedCredit, PastUser, PastSession, PastApp, PastCredential, PastSpender,
    ReserveSteps, SettleSteps, CreditSteps
<1>6. QED
  BY <1>1, <1>2, <1>3, <1>4, <1>5, TypesSplit DEF BridgeInv

LEMMA RequestStep ==
  ASSUME BridgeInv, NEW p \in Callers,
         \/ Receive(p) \/ Check(p) \/ Engine(p) \/ Exchange(p) \/ Fail(p)
         \/ Deliver(p)
  PROVE  Keeps(p)
<1> USE DEF BridgeInv
<1>1. CASE Receive(p) \/ Deliver(p)
  BY <1>1, ReceiveFits, DeliverFits
<1>2. CASE Check(p)
  BY <1>2, FindCredentialFits, FindAppFits, FindSessionFits, FindUserFits,
    FindOperationFits, FindOperationAppFits, CheckOwnershipFits DEF Check
<1>3. CASE Engine(p)
  BY <1>3, FindReservationFits, RequireActiveSpenderFits, LoadOperationFits,
    LookupFits, SpendFits, SettleFits DEF Engine
<1>4. CASE Exchange(p)
  BY <1>4, ExchangeFits
<1>5. CASE Fail(p)
  BY <1>5, RefuseKeeps DEF Fail, Codes
<1>6. QED
  BY <1>1, <1>2, <1>3, <1>4, <1>5

LEMMA BridgeNext ==
  BridgeInv /\ [Next]_vars => BridgeInv'
<1> SUFFICES ASSUME BridgeInv, [Next]_vars PROVE BridgeInv'
  OBVIOUS
<1>1. CASE Operate
  <2>1. /\ BridgeTypeOK'
        /\ RecordsLast
        /\ UNCHANGED <<tables, pc, call, reads, out>>
        /\ Observe
    BY <1>1, OperateStep DEF BridgeInv
  <2>2. RowsLast /\ RowsOfApps'
    BY <2>1, QuietRows DEF BridgeInv
  <2>3. ASSUME NEW q \in Callers PROVE Fits(q)'
    BY <2>1, <2>2, UntouchedFits DEF BridgeInv, Untouched, reads
  <2>4. QED
    BY <2>1, <2>2, <2>3 DEF BridgeInv
<1>2. ASSUME NEW p \in Callers,
             \/ Receive(p) \/ Check(p) \/ Engine(p) \/ Exchange(p) \/ Fail(p)
             \/ Deliver(p)
      PROVE  BridgeInv'
  <2>1. Keeps(p)
    BY <1>2, RequestStep
  <2>2. ASSUME NEW q \in Callers PROVE Fits(q)'
    <3>1. CASE q = p
      BY <2>1, <3>1 DEF Keeps
    <3>2. CASE q # p
      BY <2>1, <3>2, UntouchedFits DEF Keeps, Leaves, BridgeInv
    <3>3. QED
      BY <3>1, <3>2
  <2>3. QED
    BY <2>1, <2>2 DEF BridgeInv, Keeps, Leaves
<1>3. CASE UNCHANGED vars
  <2>1. UNCHANGED <<wallet, reservation, ledger, usage, credentials, disabled,
                    closed, active, bound, sessions, pc, call, service,
                    session, operation, out, held>>
    BY <1>3 DEF vars, tables, admin, reads
  <2>2. BridgeTypeOK'
    BY <2>1 DEF BridgeInv, BridgeTypeOK, TablesTypeOK
  <2>3. RowsOfApps'
    BY <2>1, QuietRows DEF BridgeInv, tables
  <2>4. \A q \in Callers : Fits(q)'
    BY <2>1 DEF BridgeInv, Fits, CallFits, AuthorityFits, ScopeFits,
      AnswerFits, Granted, GrantedCredit, Rows, Ambiguous, Offers, WithKey
  <2>5. QED
    BY <2>2, <2>3, <2>4 DEF BridgeInv
<1>4. QED
  BY <1>1, <1>2, <1>3 DEF Next

LEMMA BridgeInvariant ==
  Spec => []BridgeInv
BY BridgeInit, BridgeNext, PTL DEF Spec

-----------------------------------------------------------------------------
(* The theorems *)

\* Whatever operators, other requests and time do between two checks of a
\* request, every variable keeps its type (auth.ts, routes/credits.ts,
\* routes/service.ts).
THEOREM BridgeTypeCorrect ==
  Spec => []BridgeTypeOK
<1>1. BridgeInv => BridgeTypeOK
  BY DEF BridgeInv
<1>2. QED
  BY <1>1, BridgeInvariant, PTL

\* No request is granted without each of the authorities it needs, however
\* they change between its checks, nor a reserve without an operation that was
\* open after the engine had been called (auth.ts:75-148, engine.ts:81-107):
\* GrantedWereAllowed for any number of requests, applications, credentials,
\* sessions and operations, whoever shares their keys.
THEOREM GrantsAreBacked ==
  Spec => []GrantedWereAllowed
<1>1. ASSUME BridgeInv, NEW p \in Callers, pc[p] = "done", out[p].code = "OK"
      PROVE  Needed(p) \subseteq held[p]
  <2>1. Fits(p) /\ Granted(p)
    BY <1>1 DEF BridgeInv, Granted
  <2>2. /\ call[p] \in CreditCall \cup ExchangeCall
        /\ "service" \in held[p] /\ "app" \in held[p]
    BY <1>1, <2>1 DEF Fits, CallFits, AuthorityFits
  <2>3. ASSUME call[p] \in CreditCall
        PROVE  {"session", "user", "spender"} \subseteq held[p]
    BY <2>1, <2>3 DEF Fits, AuthorityFits, GrantedCredit
  <2>4. CASE call[p] \in ReserveCall
    <3>1. operation[p] \in held[p]
      BY <2>1, <2>4 DEF Fits, AuthorityFits
    <3>2. QED
      BY <2>2, <2>3, <2>4, <3>1 DEF Needed, ReserveCall, CreditCall
  <2>5. CASE call[p] \in SettleCall
    BY <2>2, <2>3, <2>5 DEF Needed, SettleCall, CreditCall
  <2>6. CASE call[p] \in ExchangeCall
    BY <2>2, <2>6 DEF Needed, ExchangeCall
  <2>7. QED
    BY <2>2, <2>4, <2>5, <2>6 DEF CreditCall
<1>2. BridgeInv => GrantedWereAllowed
  BY <1>1 DEF GrantedWereAllowed
<1>3. QED
  BY <1>2, BridgeInvariant, PTL

\* The change that a request makes to a reservation.
LEMMA ChangeInScope ==
  ASSUME BridgeInv, [Next]_vars, NEW r \in ReservationIds,
         reservation'[r] # reservation[r]
  PROVE  \E p \in Callers : InScope(p, r)
<1>1. PICK p \in Callers : Spend(p) \/ Settle(p)
  <2>1. UNCHANGED tables \/ \E p \in Callers : Spend(p) \/ Settle(p)
    BY DEF Next, vars, Operate, CreateCredential, EndCredential, EndSession,
      SignIn, SetApp, SetOperation, SetUser, Change, Receive, Check, Engine,
      Exchange, Fail, Deliver, FindCredential, FindApp, FindSession, FindUser,
      FindOperation, FindOperationApp, CheckOwnership, FindReservation,
      RequireActiveSpender, LoadOperation, Lookup, Refuse, Continue
  <2>2. QED
    BY <2>1 DEF tables
<1>2. BridgeTypeOK /\ TablesTypeOK /\ Fits(p)
  BY TypesSplit DEF BridgeInv
<1>3. /\ pc[p] \in {"spend", "settle"} /\ pc[p] \in PastUser
      /\ session[p].app = service[p]
  BY <1>2, <1>1 DEF Spend, Settle, Fits, AuthorityFits, PastUser, PastSession,
    PastApp, PastCredential, Locations
<1>4. ASSUME NEW x, Committed(p, x) PROVE pc'[p] = "done"
  BY <1>2, <1>4 DEF Committed, Answer, Goto, BridgeTypeOK
<1>5. CASE Spend(p)
  <2>1. PICK x \in ReservationIds \ Rows :
          /\ Account!Reserve(session[p].user, call[p].request, operation[p],
                             CostOf[operation[p]], x)
          /\ Committed(p, x)
    BY <1>5 DEF Spend, Refuse, Continue, tables
  <2>2. /\ call[p].request \in Requests
        /\ call[p].kind = "reserve"
        /\ session[p].user \in Users
        /\ operation[p] \in Operations
        /\ KeyOf[operation[p]] = call[p].key
        /\ Offers(service[p], call[p].key)
        /\ CostOf[operation[p]] \in Nat
    BY <1>2, <1>5, KnownReserve, RegistryAssumption DEF Spend, ReserveCall
  <2>3. /\ reservation'[x].user = session[p].user
        /\ reservation'[x].operation = operation[p]
        /\ r = x
    BY <1>2, <2>1, <2>2, ReserveStep
  <2>4. QED
    BY <1>3, <1>4, <2>1, <2>2, <2>3 DEF InScope
<1>6. CASE Settle(p)
  <2> DEFINE x == call[p].reservation
  <2>1. (Account!Commit(x) \/ Account!Release(x)) /\ Committed(p, x)
    BY <1>6 DEF Settle, Refuse, tables
  <2>2. /\ call[p] \in SettleCall /\ call[p].kind # "reserve"
        /\ x \in ReservationIds
        /\ reservation[x].user = session[p].user
        /\ AppOf[reservation[x].operation] = service[p]
    BY <1>2, <1>6 DEF Settle, Fits, CallFits, ScopeFits, SettleSteps,
      SettleCall
  <2>3. /\ r = x
        /\ reservation'[x].user = reservation[x].user
        /\ reservation'[x].operation = reservation[x].operation
    BY <1>2, <2>1, <2>2, SettleStep DEF RowsLast
  <2>4. QED
    BY <1>3, <1>4, <2>1, <2>2, <2>3 DEF InScope
<1>7. QED
  BY <1>1, <1>5, <1>6

\* A reservation is committed or released by a request of its user in the
\* application of its operation and by no other, although its owner is checked
\* before the engine's transaction (credits.ts:139-160), and made by a request
\* of its user in an application that has an operation of the key that is
\* charged (credits.ts:94-103): CreditsStayInScope, also where applications
\* share keys and request ids.
THEOREM ScopeIsKept ==
  Spec => CreditsStayInScope
<1>1. BridgeInv /\ [Next]_vars =>
        [\A r \in ReservationIds :
           reservation'[r] # reservation[r] =>
             \E p \in Callers : InScope(p, r)]_vars
  BY ChangeInScope
<1>2. QED
  BY <1>1, BridgeInvariant, PTL DEF Spec, CreditsStayInScope

\* A reserve that succeeds is answered with a reservation of its user and its
\* request id, which is another application's only where the two share that id
\* or the key (engine.ts:154, postgres.ts:534-540): AnsweredWithOwn for any
\* registry and whatever request ids the applications draw.
THEOREM AnswersAreOwn ==
  Spec => []AnsweredWithOwn
<1>1. ASSUME BridgeInv, NEW p \in Callers, pc[p] = "done",
             out[p].code = "OK", call[p].kind = "reserve"
      PROVE  LET row == reservation[out[p].reservation]
             IN  /\ row.user = session[p].user
                 /\ row.request = call[p].request
                 /\ Ambiguous(service[p], row)
  <2>1. Fits(p) /\ Granted(p)
    BY <1>1 DEF BridgeInv, Granted
  <2>2. call[p] \in ReserveCall
    BY <1>1, <2>1, CallKinds DEF Fits, CallFits
  <2>3. QED
    BY <2>1, <2>2 DEF Fits, AnswerFits
<1>2. BridgeInv => AnsweredWithOwn
  BY <1>1 DEF AnsweredWithOwn
<1>3. QED
  BY <1>2, BridgeInvariant, PTL
=============================================================================
