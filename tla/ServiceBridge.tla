--------------------------- MODULE ServiceBridge ---------------------------
(***************************************************************************)
(* The way of a call through the API: POST /v1/credits/reserve, commit and *)
(* release (apps/api/src/routes/credits.ts) and the service exchange       *)
(* (routes/service.ts), which an application's backend calls with its      *)
(* credential and, for credits, with an application session of a user.     *)
(* Each check (apps/api/src/auth.ts) is a query of its own, outside the    *)
(* engine's transaction, so credentials, applications, sessions and users  *)
(* may change between any two of them.                                     *)
(*                                                                         *)
(* The engine's transactions are steps of CreditAccount, which CreditEngine*)
(* implements; an exchange of an existing user opens a session, as         *)
(* PlatformExchange does.                                                  *)
(***************************************************************************)
EXTENDS CreditTables

CONSTANTS
  Callers,       \* concurrent requests
  KeyIds,        \* key ids of service credentials
  Tokens,        \* session tokens, as hashed
  Apps,          \* the apps table
  OperationKeys, \* what a caller may name as an operation
  AppOf,         \* operations.app_id; Operations are the rows of that table
  KeyOf,         \* operations.operation_key
  CostOf,        \* operations.credit_cost
  RequestsOf,    \* the request ids that the backend of an application chooses
  Starts         \* the instances: what is there at the start, and the bounds

Account == INSTANCE CreditAccount WITH
             Users <- Users, Requests <- Requests, Operations <- Operations,
             ReservationIds <- ReservationIds, None <- None,
             InitialCredit <- InitialCredit,
             wallet <- wallet, reservation <- reservation, ledger <- ledger,
             usage <- usage

ASSUME RegistryAssumption ==
  /\ AppOf \in [Operations -> Apps]
  /\ KeyOf \in [Operations -> OperationKeys]
  /\ CostOf \in [Operations -> Nat]
  /\ RequestsOf \in [Apps -> SUBSET Requests]

VARIABLES
  credentials, \* genuinecredentials, by key id
  sessions,    \* sessions, by token
  disabled,    \* the applications with status "disabled"
  closed,      \* the operations with enabled = false
  active,      \* the users with status "active"
  bound,       \* bounds: changes that operators and time may still make,
               \* requests under way at once, operations that they name
  pc,          \* where a request is
  call,        \* what it asks for
  service,     \* ServicePrincipal.appId, once the credential is found
  session,     \* the session row, once found
  operation,   \* reserve: the operation row it has read last
  out,         \* the response, sent when pc is "done"
  held         \* history: what a request could rely on at some moment so far

admin == <<credentials, disabled, closed, active, bound>>
reads == <<service, session, operation>>
vars == <<tables, admin, sessions, pc, call, reads, out, held>>

-----------------------------------------------------------------------------
\* live: active and not expired.
Credential == [app : Apps, live : BOOLEAN]

\* app is None in an account session.  live: neither deleted nor expired.
Session == [user : Users, app : Apps \cup {None}, live : BOOLEAN]

\* A credential None has a key id of no row, or not the secret of its row; a
\* reservation None is an id of no row.
Presented == KeyIds \cup {None}

ReserveCall ==
  [kind : {"reserve"}, credential : Presented, token : Tokens,
   key : OperationKeys, request : Requests]

SettleCall ==
  [kind : {"commit", "release"}, credential : Presented, token : Tokens,
   reservation : ReservationIds \cup {None}]

ExchangeCall == [kind : {"exchange"}, credential : Presented, user : Users]

Codes ==
  {"OK", "UNAUTHORIZED", "FORBIDDEN", "NOT_FOUND", "INSUFFICIENT_CREDITS",
   "RESERVATION_CONFLICT", "INTERNAL_ERROR"}

Response == [code : Codes, reservation : ReservationIds \cup {None}]

Locations ==
  {"idle", "credential", "app", "session", "user", "operation",
   "operationApp", "ownership", "current", "spender", "load", "lookup",
   "spend", "settle", "exchange", "done"}

WithKey(key) == {o \in Operations : KeyOf[o] = key}

ASSUME StartsAssumption ==
  Starts \subseteq
    [credentials : [KeyIds -> Credential \cup {None}],
     sessions : [Tokens -> Session \cup {None}],
     bound : [changes : Nat, requests : Nat, keys : SUBSET OperationKeys]]

ASSUME NoSuchRow ==
  None \notin Apps \cup Operations \cup Credential \cup Session
               \cup ReserveCall \cup SettleCall \cup ExchangeCall

-----------------------------------------------------------------------------
(* The history of what a request could rely on.  Its checks are made one    *)
(* after the other, so they need not all hold at one moment; each of them   *)
(* must have held at some moment of its own.                                *)

LiveSession(c) ==
  /\ sessions[c.token].live
  /\ sessions[c.token].app = credentials[c.credential].app

InEngine == {"current", "spender", "load", "lookup", "spend", "settle"}

\* What p may rely on now.  "spender" is the user's status once the engine has
\* been called; an operation is what may be charged, open since then.
Holding(p) ==
  LET c == call[p]
      genuine == c.credential # None /\ credentials[c.credential] # None
      credits == genuine /\ c.kind # "exchange" /\ sessions[c.token] # None
  IN  {x \in {"service"} : genuine /\ credentials[c.credential].live}
        \cup {x \in {"app"} : /\ genuine
                              /\ credentials[c.credential].app \notin disabled}
        \cup {x \in {"session"} : credits /\ LiveSession(c)}
        \cup {x \in {"user"} : credits /\ sessions[c.token].user \in active}
        \cup {x \in {"spender"} : /\ pc[p] \in InEngine
                                  /\ session[p].user \in active}
        \cup {o \in Operations \ closed :
                pc[p] \in InEngine /\ c.kind = "reserve" /\ KeyOf[o] = c.key}

Needed(p) ==
  CASE call[p].kind = "exchange" -> {"service", "app"}
    [] call[p].kind = "reserve" ->
         {"service", "app", "session", "user", "spender", operation[p]}
    [] OTHER -> {"service", "app", "session", "user", "spender"}

\* Part of every step.
Observe ==
  held' = [p \in Callers |->
             IF call[p] = None \/ pc'[p] = "idle" THEN {}
             ELSE held[p] \cup Holding(p)]

-----------------------------------------------------------------------------
(* Operators and time.  Bound: bound.changes. *)

Change ==
  /\ bound.changes > 0
  /\ bound' = [bound EXCEPT !.changes = @ - 1]
  /\ UNCHANGED <<tables, pc, call, reads, out>>
  /\ Observe

\* service:create and service:rotate; the old credential stays as it is.
CreateCredential(k, a) ==
  /\ Change
  /\ credentials[k] = None
  /\ credentials' =
       [credentials EXCEPT ![k] = [app |-> a, live |-> TRUE]]
  /\ UNCHANGED <<sessions, disabled, closed, active>>

\* service:revoke, or expires_at passes.
EndCredential(k) ==
  /\ Change
  /\ credentials[k] # None
  /\ credentials[k].live
  /\ credentials' = [credentials EXCEPT ![k].live = FALSE]
  /\ UNCHANGED <<sessions, disabled, closed, active>>

\* DELETE /v1/auth/session, or expires_at passes.
EndSession(t) ==
  /\ Change
  /\ sessions[t] # None
  /\ sessions[t].live
  /\ sessions' = [sessions EXCEPT ![t].live = FALSE]
  /\ UNCHANGED <<credentials, disabled, closed, active>>

Toggled(set, x) == IF x \in set THEN set \ {x} ELSE set \cup {x}

SetApp(a) ==
  /\ Change
  /\ disabled' = Toggled(disabled, a)
  /\ UNCHANGED <<sessions, credentials, closed, active>>

SetOperation(o) ==
  /\ Change
  /\ closed' = Toggled(closed, o)
  /\ UNCHANGED <<sessions, credentials, disabled, active>>

SetUser(u) ==
  /\ Change
  /\ active' = Toggled(active, u)
  /\ UNCHANGED <<sessions, credentials, disabled, closed>>

-----------------------------------------------------------------------------
(* Moves of a request *)

Goto(p, location) == pc' = [pc EXCEPT ![p] = location] /\ Observe

Continue(p, location) ==
  Goto(p, location) /\ UNCHANGED <<tables, admin, sessions, call, reads, out>>

\* The response, whatever the rest of the step does.
Answer(p, code, r) ==
  /\ Goto(p, "done")
  /\ out' = [out EXCEPT ![p] = [code |-> code, reservation |-> r]]
  /\ UNCHANGED <<admin, call, reads>>

Refuse(p, code) == Answer(p, code, None) /\ UNCHANGED <<tables, sessions>>

\* Who has a key that is there is the backend of its application and names its
\* own request ids.  Reservation ids and key ids are too long to be guessed.
Plausible(c) ==
  /\ c.credential # None =>
       /\ credentials[c.credential] # None
       /\ c.kind = "reserve" =>
            c.request \in RequestsOf[credentials[c.credential].app]
  /\ c.kind = "reserve" => c.key \in bound.keys
  /\ c.kind \in {"commit", "release"} => c.reservation \in Rows \cup {None}

\* Bounds: bound.requests, and bound.keys in Plausible.
Receive(p) ==
  /\ pc[p] = "idle"
  /\ Cardinality({q \in Callers : pc[q] # "idle"}) < bound.requests
  /\ \E c \in ReserveCall \cup SettleCall \cup ExchangeCall :
       /\ Plausible(c)
       /\ call' = [call EXCEPT ![p] = c]
  /\ Goto(p, "credential")
  /\ UNCHANGED <<tables, admin, sessions, reads, out>>

\* A query fails: 500.
Fail(p) == pc[p] \notin {"idle", "done"} /\ Refuse(p, "INTERNAL_ERROR")

Deliver(p) ==
  /\ pc[p] = "done"
  /\ Goto(p, "idle")
  /\ call' = [call EXCEPT ![p] = None]
  /\ service' = [service EXCEPT ![p] = None]
  /\ session' = [session EXCEPT ![p] = None]
  /\ operation' = [operation EXCEPT ![p] = None]
  /\ out' = [out EXCEPT ![p] = None]
  /\ UNCHANGED <<tables, admin, sessions>>

-----------------------------------------------------------------------------
(* resolveServicePrincipal *)

FindCredential(p) ==
  LET k == call[p].credential
      found == k # None /\ credentials[k].live
  IN  /\ pc[p] = "credential"
      /\ \/ ~found /\ Refuse(p, "UNAUTHORIZED")
         \/ /\ found
            /\ service' = [service EXCEPT ![p] = credentials[k].app]
            /\ Goto(p, "app")
            /\ UNCHANGED <<tables, admin, sessions, call, session, operation,
                           out>>

FindApp(p) ==
  /\ pc[p] = "app"
  /\ \/ service[p] \in disabled /\ Refuse(p, "FORBIDDEN")
     \/ /\ service[p] \notin disabled
        /\ Continue(p, IF call[p].kind = "exchange" THEN "exchange"
                                                    ELSE "session")

-----------------------------------------------------------------------------
(* resolveSessionUser and bindServiceAndSession *)

FindSession(p) ==
  LET row == sessions[call[p].token]
      found == row # None /\ row.live
  IN  /\ pc[p] = "session"
      /\ \/ ~found /\ Refuse(p, "UNAUTHORIZED")
         \/ /\ found
            /\ session' = [session EXCEPT ![p] = row]
            /\ Goto(p, "user")
            /\ UNCHANGED <<tables, admin, sessions, call, service, operation,
                           out>>

\* The user is active, and the session is one of the calling application.
FindUser(p) ==
  LET admitted == session[p].user \in active /\ session[p].app = service[p]
  IN  /\ pc[p] = "user"
      /\ \/ ~admitted /\ Refuse(p, "FORBIDDEN")
         \/ /\ admitted
            /\ Continue(p, IF call[p].kind = "reserve" THEN "operation"
                                                       ELSE "ownership")

-----------------------------------------------------------------------------
(* The routes' own checks *)

\* findOperationByKey: one of the rows with the key.
FindOperation(p) ==
  /\ pc[p] = "operation"
  /\ \/ WithKey(call[p].key) = {} /\ Refuse(p, "NOT_FOUND")
     \/ \E o \in WithKey(call[p].key) :
          \/ AppOf[o] # service[p] /\ Refuse(p, "FORBIDDEN")
          \/ AppOf[o] = service[p] /\ Continue(p, "operationApp")

FindOperationApp(p) ==
  /\ pc[p] = "operationApp"
  /\ \/ service[p] \in disabled /\ Refuse(p, "FORBIDDEN")
     \/ service[p] \notin disabled /\ Continue(p, "spender")

\* MUTANT of CheckOwnership: only the user is compared.
CheckNothing(p) == pc[p] = "ownership" /\ Continue(p, "current")

\* checkReservationOwnership leaves what is not the user's to the engine.
CheckOwnership(p) ==
  LET r == call[p].reservation
      foreign == /\ r # None
                 /\ reservation[r].user = session[p].user
                 /\ AppOf[reservation[r].operation] # service[p]
  IN  /\ pc[p] = "ownership"
      /\ \/ foreign /\ Refuse(p, "FORBIDDEN")
         \/ ~foreign /\ Continue(p, "current")

-----------------------------------------------------------------------------
(* The engine *)

\* commit and release: the reservation is there, and the user's.
FindReservation(p) ==
  LET r == call[p].reservation
      known == r # None /\ reservation[r].user = session[p].user
  IN  /\ pc[p] = "current"
      /\ \/ ~known /\ Refuse(p, "NOT_FOUND")
         \/ known /\ Continue(p, "spender")

\* MUTANT of RequireActiveSpender: the engine relies on the route's check.
RequireNothing(p) ==
  /\ pc[p] = "spender"
  /\ Continue(p, IF call[p].kind = "reserve" THEN "load" ELSE "settle")

RequireActiveSpender(p) ==
  /\ pc[p] = "spender"
  /\ \/ session[p].user \notin active /\ Refuse(p, "FORBIDDEN")
     \/ /\ session[p].user \in active
        /\ Continue(p, IF call[p].kind = "reserve" THEN "load" ELSE "settle")

\* The key is looked up again: the row may be another one than the route's.
LoadOperation(p) ==
  /\ pc[p] = "load"
  /\ \E o \in WithKey(call[p].key) :
       \/ o \in closed /\ Refuse(p, "FORBIDDEN")
       \/ /\ o \notin closed
          /\ operation' = [operation EXCEPT ![p] = o]
          /\ Goto(p, "lookup")
          /\ UNCHANGED <<tables, admin, sessions, call, service, session, out>>

\* MUTANT of Seen: the user is left out of the lookup.
SeenOfAnyone(p) == {r \in Rows : reservation[r].request = call[p].request}

Seen(p) == WithRequest(session[p].user, call[p].request)

\* MUTANT of Lookup: the answer names the request, not the reservation.
LookupAnswersRequest(p) ==
  /\ pc[p] = "lookup"
  /\ \/ Seen(p) = {} /\ Continue(p, "spend")
     \/ /\ Seen(p) # {}
        /\ Answer(p, "OK", call[p].request)
        /\ UNCHANGED <<tables, sessions>>

\* A seen request is answered with its reservation.
Lookup(p) ==
  /\ pc[p] = "lookup"
  /\ \/ Seen(p) = {} /\ Continue(p, "spend")
     \/ /\ \E r \in Seen(p) : Answer(p, "OK", r)
        /\ UNCHANGED <<tables, sessions>>

\* The transaction commits; its answer may be lost.
Committed(p, r) ==
  /\ Answer(p, "OK", r) \/ Answer(p, "INTERNAL_ERROR", None)
  /\ UNCHANGED sessions

\* The rest of reserve; a duplicate that finds itself overtaken starts anew.
Spend(p) ==
  LET u == session[p].user
      o == operation[p]
  IN  /\ pc[p] = "spend"
      /\ IF CostOf[o] > wallet[u].available
         THEN Refuse(p, "INSUFFICIENT_CREDITS")
         ELSE \/ Seen(p) # {} /\ Continue(p, "spender")
              \/ \E r \in ReservationIds \ Rows :
                   /\ Account!Reserve(u, call[p].request, o, CostOf[o], r)
                   /\ Committed(p, r)

\* The rest of commit and release, at the moment that decides them.
Settle(p) ==
  LET r == call[p].reservation
      target == IF call[p].kind = "commit" THEN "committed" ELSE "released"
  IN  /\ pc[p] = "settle"
      /\ \/ /\ reservation[r].status = target
            /\ Answer(p, "OK", r)
            /\ UNCHANGED <<tables, sessions>>
         \/ /\ reservation[r].status \notin {"reserved", target}
            /\ Refuse(p, "RESERVATION_CONFLICT")
         \/ /\ \/ target = "committed" /\ Account!Commit(r)
               \/ target = "released" /\ Account!Release(r)
            /\ Committed(p, r)

-----------------------------------------------------------------------------
(* Sessions *)

Open(t, u, a) ==
  /\ sessions[t] = None
  /\ sessions' =
       [sessions EXCEPT ![t] = [user |-> u, app |-> a, live |-> TRUE]]

\* POST /v1/auth/platform/exchange: an account session.
SignIn(t, u) == Change /\ Open(t, u, None)
                /\ UNCHANGED <<credentials, disabled, closed, active>>

\* POST /v1/service/auth/platform-exchange
Exchange(p) ==
  /\ pc[p] = "exchange"
  /\ \E t \in Tokens : Open(t, call[p].user, service[p])
  /\ Answer(p, "OK", None)
  /\ UNCHANGED tables
-----------------------------------------------------------------------------
Init ==
  /\ TablesInit
  /\ \E start \in Starts :
       /\ credentials = start.credentials
       /\ sessions = start.sessions
       /\ bound = start.bound
  /\ disabled = {} /\ closed = {} /\ active = Users
  /\ pc = [p \in Callers |-> "idle"]
  /\ call = [p \in Callers |-> None]
  /\ service = [p \in Callers |-> None]
  /\ session = [p \in Callers |-> None]
  /\ operation = [p \in Callers |-> None]
  /\ out = [p \in Callers |-> None]
  /\ held = [p \in Callers |-> {}]

Check(p) ==
  \/ FindCredential(p) \/ FindApp(p) \/ FindSession(p) \/ FindUser(p)
  \/ FindOperation(p) \/ FindOperationApp(p) \/ CheckOwnership(p)

Engine(p) ==
  \/ FindReservation(p) \/ RequireActiveSpender(p) \/ LoadOperation(p)
  \/ Lookup(p) \/ Spend(p) \/ Settle(p)

Operate ==
  \/ \E k \in KeyIds, a \in Apps : CreateCredential(k, a)
  \/ \E k \in KeyIds : EndCredential(k)
  \/ \E t \in Tokens : EndSession(t)
  \/ \E t \in Tokens, u \in Users : SignIn(t, u)
  \/ \E a \in Apps : SetApp(a)
  \/ \E o \in Operations : SetOperation(o)
  \/ \E u \in Users : SetUser(u)

Next ==
  \/ Operate
  \/ \E p \in Callers :
       Receive(p) \/ Check(p) \/ Engine(p) \/ Exchange(p) \/ Fail(p)
         \/ Deliver(p)

Spec == Init /\ [][Next]_vars

-----------------------------------------------------------------------------
BridgeTypeOK ==
  /\ TablesTypeOK
  /\ credentials \in [KeyIds -> Credential \cup {None}]
  /\ sessions \in [Tokens -> Session \cup {None}]
  /\ disabled \subseteq Apps
  /\ closed \subseteq Operations
  /\ active \subseteq Users
  /\ bound \in [changes : Nat, requests : Nat, keys : SUBSET OperationKeys]
  /\ pc \in [Callers -> Locations]
  /\ call \in [Callers -> ReserveCall \cup SettleCall \cup ExchangeCall
                            \cup {None}]
  /\ service \in [Callers -> Apps \cup {None}]
  /\ session \in [Callers -> Session \cup {None}]
  /\ operation \in [Callers -> Operations \cup {None}]
  /\ out \in [Callers -> Response \cup {None}]

\* Every authority behind a granted request was there at some moment while it
\* was being served, the user's status and the operation that is charged also
\* after the engine was called: what was revoked, expired, deleted, disabled,
\* closed or suspended before a request came, and stayed so, grants it nothing
\* (docs/service-bridge.md "Threat model").
GrantedWereAllowed ==
  \A p \in Callers :
    pc[p] = "done" /\ out[p].code = "OK" => Needed(p) \subseteq held[p]

\* The application a has an operation of the key.
Offers(a, key) == \E o \in WithKey(key) : AppOf[o] = a

\* p is answered in this step, having changed r, which it may.
InScope(p, r) ==
  LET row == reservation'[r]
  IN  /\ pc[p] # "done" /\ pc'[p] = "done"
      /\ row.user = session[p].user
      /\ session[p].app = service[p]
      /\ IF call[p].kind = "reserve"
         THEN /\ KeyOf[row.operation] = call[p].key
              /\ Offers(service[p], call[p].key)
         ELSE AppOf[row.operation] = service[p]

\* A reservation is settled by a request of its user, in the application of its
\* operation, and by no other: the owner is checked before the engine's
\* transaction (credits.ts:160).  It is made by a request of its user, in an
\* application that has an operation of the key that is charged.  Whether that
\* is the same operation depends on two lookups (credits.ts:96, engine.ts:85).
CreditsStayInScope ==
  [][\A r \in ReservationIds :
       reservation'[r] # reservation[r] =>
         \E p \in Callers : InScope(p, r)]_vars

\* "SERVICE APP == SESSION APP == OPERATION APP" (README.md:42): a reserve that
\* succeeds is answered with a reservation that the same user and application
\* may settle (credits.ts:109-117, 139-150).  It holds where no two
\* applications share a key or a request id; the code keeps neither apart.
AnsweredCanBeSettled ==
  \A p \in Callers :
    pc[p] = "done" /\ out[p].code = "OK" /\ call[p].kind = "reserve" =>
      LET row == reservation[out[p].reservation]
      IN  row.user = session[p].user /\ AppOf[row.operation] = service[p]

\* Another application drew the request id of row too and has its operation's
\* key, or a itself has.
Ambiguous(a, row) ==
  LET key == KeyOf[row.operation]
  IN  \/ \E b \in Apps \ {a} : row.request \in RequestsOf[b] /\ Offers(b, key)
      \/ Offers(a, key)

\* A reserve that succeeds is answered with its own user's reservation of its
\* own request id.  It is another application's, which the backend may then
\* not settle, only where the two share the request id or a key: reused is
\* found by user and request id alone (engine.ts:154, postgres.ts:534-540).
AnsweredWithOwn ==
  \A p \in Callers :
    pc[p] = "done" /\ out[p].code = "OK" /\ call[p].kind = "reserve" =>
      LET row == reservation[out[p].reservation]
      IN  /\ row.user = session[p].user
          /\ row.request = call[p].request
          /\ AppOf[row.operation] = service[p] \/ Ambiguous(service[p], row)
=============================================================================
