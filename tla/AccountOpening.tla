--------------------------- MODULE AccountOpening ---------------------------
(***************************************************************************)
(* What the exchange promises, with every exchange a single step on the    *)
(* committed tables: the first one of an identity opens its account, with  *)
(* the welcome bonus, and every one opens a session.  PlatformExchange has *)
(* the transactions, races and retries, and implements this.               *)
(***************************************************************************)
EXTENDS AccountTables

\* A token is random: no session has it yet.
Open(k, u, a) ==
  /\ \A row \in db.sessions : row.token # k
  /\ db' = [db EXCEPT !.sessions = @ \cup {NewSession(k, u, a)}]

LogIn(i, u, k, a) == u \in UsersOf(i) /\ Open(k, u, a)

SignUp(i, u, k, a) ==
  /\ UsersOf(i) = {}
  /\ u \notin db.users
  /\ \A row \in db.sessions : row.token # k
  /\ db' = Together(db, [NewAccount(i, u) EXCEPT
                           !.sessions = {NewSession(k, u, a)}])

Init == db = Nothing

Next ==
  \E i \in Identities, u \in UserIds, k \in Tokens, a \in Apps \cup {None} :
    LogIn(i, u, k, a) \/ SignUp(i, u, k, a)

Spec == Init /\ [][Next]_db
=============================================================================
