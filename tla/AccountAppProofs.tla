-------------------------- MODULE AccountAppProofs --------------------------
(***************************************************************************)
(* Proofs about AccountApp: a session is vouched for, the dashboard shows  *)
(* the user of the session, and the persona screen is shown to a browser   *)
(* that is signed out, for any users, number of clicks and clock skew.     *)
(***************************************************************************)
EXTENDS AccountApp, TLAPS

-----------------------------------------------------------------------------
(* The invariant *)

Session ==
  [user : Users, expires : Nat, deleted : BOOLEAN, by : LaunchData \cup {None}]

Active(f) == flow[f] # None

RequestFits(r) ==
  /\ r \in Request
  /\ r.cookie \in DOMAIN sessions \cup {None}
  /\ r.step = "exchange" => r.who \in LaunchData \cup Users

\* An answer is true of the cookie or of the launch data it was asked with,
\* and stays so.
AnswerFits(r, a) ==
  /\ r.step = "exchange" /\ a.status = 200 =>
       /\ a.setCookie # "no"
       /\ a.token \in DOMAIN sessions
       /\ r.who \in LaunchData => sessions[a.token].by = r.who
  /\ a.user # None =>
       /\ r.step \in {"probe", "me", "usage"}
       /\ r.cookie # None /\ a.user = sessions[r.cookie].user
  /\ r.step \in {"probe", "me"} /\ a.status = 200 => r.cookie # None
  /\ r.step = "probe" /\ failures = 0 =>
       a.status # 0 /\ (a.status = 401 => ~SignedIn(r.cookie))
  /\ r.step = "logout" /\ failures = 0 => a.setCookie # "no"
  /\ r.step = "logout" => a.token = None
  /\ a.setCookie # "no" =>
       r.step = "logout" \/ (r.step = "exchange" /\ a.status = 200)

FlowFits(f) ==
  Active(f) =>
    /\ RequestFits(flow[f].request)
    /\ flow[f].answer # None => AnswerFits(flow[f].request, flow[f].answer)

\* The boot effect does not log out, and a cancelled run of it does no more
\* than log in the user the page was opened by.
BootFits ==
  /\ Active(Boot) => flow[Boot].request.step # "logout"
  /\ Active(Cancelled) =>
       /\ strict
       /\ flow[Cancelled].request.step \in {"probe", "exchange"}
       /\ flow[Cancelled].request.step = "exchange" =>
            launch # None /\ flow[Cancelled].request.who = launch

\* The cancelled run has logged in since.
Overtaken == strict /\ launch # None /\ cookie # None
             /\ sessions[cookie].by = launch

Stored(f) == Answered(f) /\ flow[f].answer.setCookie = "stored"

\* What f goes on with, if it is answered, is of the browser's session.
Follows(f) ==
  LET r == flow[f].request
  IN  /\ r.step # "logout" => screen.name = "booting"
      /\ r.step = "logout" => screen.name = "dashboard"
      /\ r.step \in {"probe", "me", "usage"} => cookie = r.cookie \/ Overtaken
      /\ r.step \in {"me", "usage"} => r.cookie # None
      /\ r.step = "usage" =>
           \/ flow[f].me \in {sessions[r.cookie].user, None}
           \/ strict /\ launch # None /\ sessions[r.cookie].by = launch
      /\ Stored(f) => (cookie = None <=> r.step = "logout") \/ Overtaken

Foreground == Flows \ {Cancelled}

\* While no logout is clicked twice, one function runs at a time, but for the
\* cancelled one.
OneAtATime ==
  ~impatient =>
    /\ \A f, g \in Foreground : Active(f) /\ Active(g) => f = g
    /\ \A f \in Foreground : Active(f) => Follows(f)

\* Of one user, whoever the cookie is of; but the cancelled run may have logged
\* in, before the history was asked for, the user the page was opened by.
DashboardIsOfOne ==
  screen.name = "dashboard" /\ ~impatient =>
    \/ screen.usage \in {screen.me, None}
    \/ strict /\ launch # None /\ screen.usage = launch.user

AppInv ==
  /\ AppTypeOK
  /\ sessions \in Seq(Session)
  /\ failures \in Nat
  /\ \A r \in orphans : RequestFits(r)
  /\ \A f \in Flows : FlowFits(f)
  /\ BootFits
  /\ OneAtATime
  /\ screen.name = "persona" => launch = None
  /\ SessionsAreVouchedFor
  /\ DashboardIsOfOne
  /\ DashboardIsOfTheSession
  /\ PersonaMeansSignedOut

-----------------------------------------------------------------------------
(* The validators *)

\* A set of checks that failed has a first one: there are ten.
LEMMA FirstCheck ==
  ASSUME NEW S, S \subseteq 1 .. 10, S # {}
  PROVE  Min(S) \in S
<1> DEFINE First(x) == x \in S /\ \A y \in S : x <= y
<1>1. \E x \in S : First(x)
  <2>1. SUFFICES ASSUME \A x \in S : ~First(x) PROVE FALSE
    OBVIOUS
  <2>2. \A y \in S : y \in 1 .. 10
    OBVIOUS
  <2>3. 1 \notin S
    BY <2>1, <2>2
  <2>4. 2 \notin S
    BY <2>1, <2>2, <2>3
  <2>5. 3 \notin S
    BY <2>1, <2>2, <2>3, <2>4
  <2>6. 4 \notin S
    BY <2>1, <2>2, <2>3, <2>4, <2>5
  <2>7. 5 \notin S
    BY <2>1, <2>2, <2>3, <2>4, <2>5, <2>6
  <2>8. 6 \notin S
    BY <2>1, <2>2, <2>3, <2>4, <2>5, <2>6, <2>7
  <2>9. 7 \notin S
    BY <2>1, <2>2, <2>3, <2>4, <2>5, <2>6, <2>7, <2>8
  <2>10. 8 \notin S
    BY <2>1, <2>2, <2>3, <2>4, <2>5, <2>6, <2>7, <2>8, <2>9
  <2>11. 9 \notin S
    BY <2>1, <2>2, <2>3, <2>4, <2>5, <2>6, <2>7, <2>8, <2>9, <2>10
  <2>12. 10 \notin S
    BY <2>1, <2>2, <2>3, <2>4, <2>5, <2>6, <2>7, <2>8, <2>9, <2>10, <2>11
  <2>13. PICK x \in S : TRUE
    OBVIOUS
  <2>14. /\ x # 1 /\ x # 2 /\ x # 3 /\ x # 4 /\ x # 5
         /\ x # 6 /\ x # 7 /\ x # 8 /\ x # 9 /\ x # 10
    BY <2>3, <2>4, <2>5, <2>6, <2>7, <2>8, <2>9, <2>10, <2>11, <2>12
  <2>15. QED
    BY <2>2, <2>14
<1>2. QED
  BY <1>1 DEF Min

\* Whatever else launch data holds, it is accepted only if a messenger signed
\* it, unambiguously, for a user, and neither too long ago nor too far ahead
\* (telegram.ts:56-89, max.ts).
THEOREM AcceptedIs ==
  ASSUME NEW d \in LaunchData, NEW t \in Nat, StatusOf(Verdict(d, t)) = 200
  PROVE  /\ d.user \in Users
         /\ d.signed /\ ~d.duplicate
         /\ t - d.authDate <= MaxAge
         /\ d.authDate - t <= FutureTolerance[d.provider]
<1> DEFINE checks == Checks(d, t)
           failed == {i \in DOMAIN checks : ~checks[i].holds}
<1>1. DOMAIN checks = 1 .. 10
  BY DEF Checks
<1>2. Verdict(d, t) = IF failed = {} THEN "OK" ELSE checks[Min(failed)].error
  BY DEF Verdict
<1>3. \A i \in 1 .. 10 : checks[i].error # "OK"
  BY DEF Checks
<1>4. Verdict(d, t) = "OK"
  BY DEF StatusOf
<1>5. failed = {}
  <2>1. failed \subseteq 1 .. 10
    BY <1>1
  <2>2. failed # {} => Min(failed) \in 1 .. 10
    BY <2>1, FirstCheck
  <2> HIDE DEF failed, checks
  <2>3. QED
    BY <1>2, <1>3, <1>4, <2>2
<1>6. \A i \in 1 .. 10 : checks[i].holds
  BY <1>1, <1>5
<1>7. /\ checks[2].holds <=> ~d.duplicate
      /\ checks[4].holds <=> d.signed
      /\ checks[6].holds <=> d.authDate <= t + FutureTolerance[d.provider]
      /\ checks[7].holds <=> t - d.authDate <= MaxAge
      /\ checks[8].holds <=> d.user # "absent"
      /\ checks[9].holds <=> d.user # "invalid"
  BY DEF Checks
<1>8. /\ ~d.duplicate /\ d.signed
      /\ d.authDate <= t + FutureTolerance[d.provider]
      /\ t - d.authDate <= MaxAge
      /\ d.user # "absent" /\ d.user # "invalid"
  BY <1>6, <1>7
<1>9. FutureTolerance[d.provider] \in Nat /\ d.authDate \in Nat
  BY WindowAssumption DEF LaunchData
<1>10. QED
  BY <1>8, <1>9 DEF LaunchData

LEMMA StatusIs ==
  ASSUME NEW who
  PROVE  ExchangeStatus(who) \in {200, 400, 401}
BY DEF ExchangeStatus, StatusOf

LEMMA LaunchableTyped ==
  ASSUME now \in 2 .. MaxTime
  PROVE  Launchable \subseteq LaunchData
<1> DEFINE signed(p, u, t) ==
        [provider |-> p, empty |-> FALSE, duplicate |-> FALSE, parsed |-> TRUE,
         hash |-> TRUE, signed |-> TRUE, authDate |-> t, user |-> u,
         chat |-> "absent"]
      one == signed("max", CHOOSE u \in Users : TRUE, now)
<1>1. now \in Nat /\ now >= 2
  BY AppAssumption
<1>2. ASSUME NEW p \in Providers, NEW u \in Users, NEW t \in Nat
      PROVE  signed(p, u, t) \in LaunchData
  BY DEF LaunchData
<1>3. one \in LaunchData
  <2>1. (CHOOSE u \in Users : TRUE) \in Users
    BY AppAssumption
  <2>2. QED
    BY <1>1, <1>2, <2>1 DEF Providers
<1>4. \A s \in Skews : now + s \in Nat
  BY <1>1, AppAssumption
<1> HIDE DEF one
<1> DEFINE good == {signed(p, u, now + s) :
                      p \in Providers, u \in Users, s \in Skews}
           odd == {[one EXCEPT !.user = "absent"], [one EXCEPT !.signed = FALSE],
                   [one EXCEPT !.chat = "unknown"], [one EXCEPT !.hash = FALSE],
                   [one EXCEPT !.duplicate = TRUE], [one EXCEPT !.authDate = 0]}
<1>5. odd \subseteq LaunchData
  <2>1. /\ [one EXCEPT !.user = "absent"] \in LaunchData
        /\ [one EXCEPT !.signed = FALSE] \in LaunchData
        /\ [one EXCEPT !.chat = "unknown"] \in LaunchData
        /\ [one EXCEPT !.hash = FALSE] \in LaunchData
        /\ [one EXCEPT !.duplicate = TRUE] \in LaunchData
        /\ [one EXCEPT !.authDate = 0] \in LaunchData
    BY <1>3 DEF LaunchData
  <2>2. QED
    BY <2>1
<1>6. Launchable = good \cup odd
  BY DEF Launchable, one
<1> HIDE DEF signed
<1>7. good \subseteq LaunchData
  BY <1>2, <1>4
<1> HIDE DEF good, odd
<1>8. QED
  BY <1>5, <1>6, <1>7

-----------------------------------------------------------------------------
(* Sessions are added, and end; nothing else happens to them *)

Grows ==
  /\ now \in Nat /\ now' \in Nat /\ now' >= now
  /\ \A k \in DOMAIN sessions :
       /\ k \in DOMAIN sessions'
       /\ sessions'[k].user = sessions[k].user
       /\ sessions'[k].by = sessions[k].by
       /\ sessions'[k].expires = sessions[k].expires
       /\ sessions[k].deleted => sessions'[k].deleted

\* What one session says of the launch data it was opened with.
Vouched(s) ==
  s.by # None =>
    /\ s.by.user = s.user
    /\ s.by.signed /\ ~s.by.duplicate
    /\ (s.expires - SessionTtl) - s.by.authDate <= MaxAge
    /\ s.by.authDate - (s.expires - SessionTtl) <= FutureTolerance[s.by.provider]

LEMMA VouchedFor ==
  SessionsAreVouchedFor <=> \A k \in DOMAIN sessions : Vouched(sessions[k])
BY DEF SessionsAreVouchedFor, Vouched

LEMMA VouchedForNext ==
  SessionsAreVouchedFor' <=> \A k \in DOMAIN sessions' : Vouched(sessions'[k])
BY DEF SessionsAreVouchedFor, Vouched

\* The session an exchange opens.
LEMMA NewSessionIs ==
  ASSUME now \in Nat, NEW who \in LaunchData \cup Users,
         ExchangeStatus(who) = 200
  PROVE  /\ NewSession(who) \in Session
         /\ Vouched(NewSession(who))
         /\ who \in LaunchData => NewSession(who).by = who
<1> DEFINE s == NewSession(who)
<1>1. s.expires = now + SessionTtl /\ s.expires \in Nat
      /\ s.expires - SessionTtl = now
  BY AppAssumption DEF NewSession
<1>2. CASE who \in Users
  <2>1. s = [user |-> who, expires |-> now + SessionTtl, deleted |-> FALSE,
             by |-> None]
    BY <1>2 DEF NewSession
  <2>2. QED
    BY <1>1, <1>2, <2>1, Apart DEF Session, Vouched
<1>3. CASE who \in LaunchData /\ who \notin Users
  <2>1. s = [user |-> who.user, expires |-> now + SessionTtl,
             deleted |-> FALSE, by |-> who]
    BY <1>3 DEF NewSession
  <2>2. StatusOf(Verdict(who, now)) = 200
    BY <1>3 DEF ExchangeStatus
  <2>3. /\ who.user \in Users
        /\ who.signed /\ ~who.duplicate
        /\ now - who.authDate <= MaxAge
        /\ who.authDate - now <= FutureTolerance[who.provider]
    BY <1>3, <2>2, AcceptedIs
  <2>4. s \in Session
    BY <1>1, <1>3, <2>1, <2>3 DEF Session
  <2>5. Vouched(s)
    BY <1>1, <2>1, <2>3 DEF Vouched
  <2>6. QED
    BY <2>1, <2>4, <2>5
<1>4. QED
  BY <1>2, <1>3

LEMMA SessionsGrow ==
  ASSUME sessions \in Seq(Session), SessionsAreVouchedFor, now \in Nat,
         now' = now, NEW r, RequestFits(r), sessions' = SessionsAfter(r)
  PROVE  /\ sessions' \in Seq(Session)
         /\ SessionsAreVouchedFor'
         /\ Grows
         /\ r.step = "exchange" /\ ExchangeStatus(r.who) = 200 =>
              /\ Len(sessions) + 1 \in DOMAIN sessions'
              /\ r.who \in LaunchData =>
                   sessions'[Len(sessions) + 1].by = r.who
<1>1. CASE r.step = "exchange" /\ ExchangeStatus(r.who) = 200
  <2> DEFINE s == NewSession(r.who)
  <2>1. sessions' = Append(sessions, s)
    BY <1>1 DEF SessionsAfter
  <2>2. /\ s \in Session /\ Vouched(s)
        /\ r.who \in LaunchData => s.by = r.who
    BY <1>1, NewSessionIs DEF RequestFits
  <2> HIDE DEF s
  <2>3. /\ sessions' \in Seq(Session)
        /\ DOMAIN sessions' = DOMAIN sessions \cup {Len(sessions) + 1}
        /\ \A k \in DOMAIN sessions : sessions'[k] = sessions[k]
        /\ sessions'[Len(sessions) + 1] = s
    BY <2>1, <2>2
  <2>4. Grows
    BY <2>3 DEF Grows
  <2>5. SessionsAreVouchedFor'
    BY <2>2, <2>3, VouchedFor, VouchedForNext
  <2>6. QED
    BY <2>2, <2>3, <2>4, <2>5
<1>2. CASE r.step = "logout" /\ r.cookie # None
  <2> DEFINE s == [sessions[r.cookie] EXCEPT !.deleted = TRUE]
  <2>1. sessions' = [sessions EXCEPT ![r.cookie] = s]
    BY <1>2 DEF SessionsAfter
  <2>2. r.cookie \in DOMAIN sessions
    BY <1>2 DEF RequestFits
  <2>3. sessions[r.cookie] \in Session
    BY <2>2
  <2>4. /\ s \in Session
        /\ s.user = sessions[r.cookie].user /\ s.by = sessions[r.cookie].by
        /\ s.expires = sessions[r.cookie].expires /\ s.deleted
    BY <2>3 DEF Session
  <2>5. Vouched(sessions[r.cookie]) => Vouched(s)
    BY <2>4 DEF Vouched
  <2> HIDE DEF s
  <2>6. /\ sessions' \in Seq(Session)
        /\ DOMAIN sessions' = DOMAIN sessions
        /\ \A k \in DOMAIN sessions :
             sessions'[k] = IF k = r.cookie THEN s ELSE sessions[k]
    BY <2>1, <2>2, <2>4
  <2>7. Grows
    BY <2>4, <2>6 DEF Grows
  <2>8. SessionsAreVouchedFor'
    BY <2>5, <2>6, VouchedFor, VouchedForNext
  <2>9. QED
    BY <1>2, <2>6, <2>7, <2>8
<1>3. CASE /\ ~(r.step = "exchange" /\ ExchangeStatus(r.who) = 200)
           /\ ~(r.step = "logout" /\ r.cookie # None)
  <2>1. sessions' = sessions
    BY <1>3 DEF SessionsAfter
  <2>2. QED
    BY <1>3, <2>1, VouchedFor, VouchedForNext DEF Grows
<1>4. QED
  BY <1>1, <1>2, <1>3

\* No session was touched, and the clock did not go back.
LEMMA NothingGrows ==
  ASSUME now \in Nat, now' \in Nat, now' >= now, UNCHANGED sessions
  PROVE  Grows
BY DEF Grows

\* A session that has ended stays so.
LEMMA EndedStays ==
  ASSUME sessions \in Seq(Session), Grows,
         NEW k \in DOMAIN sessions \cup {None}, ~SignedIn(k)
  PROVE  ~SignedIn(k)'
<1>1. CASE k = None
  BY <1>1 DEF SignedIn
<1>2. CASE k \in DOMAIN sessions
  <2>1. sessions[k] \in Session
    BY <1>2
  <2>2. sessions[k].expires \in Nat
    BY <2>1 DEF Session
  <2>3. QED
    BY <1>2, <2>2 DEF SignedIn, Grows
<1>3. QED
  BY <1>1, <1>2

LEMMA RequestStays ==
  ASSUME Grows, NEW r, RequestFits(r)
  PROVE  RequestFits(r)'
BY DEF Grows, RequestFits

LEMMA AnswerStays ==
  ASSUME sessions \in Seq(Session), Grows, failures' = 0 => failures = 0,
         NEW r, RequestFits(r), NEW a, AnswerFits(r, a)
  PROVE  AnswerFits(r, a)'
<1>1. r.cookie \in DOMAIN sessions \cup {None}
  BY DEF RequestFits
<1>2. ~SignedIn(r.cookie) => ~SignedIn(r.cookie)'
  BY <1>1, EndedStays
<1>3. \A k \in DOMAIN sessions :
        /\ k \in DOMAIN sessions'
        /\ sessions'[k].user = sessions[k].user
        /\ sessions'[k].by = sessions[k].by
  BY DEF Grows
<1>4. QED
  BY <1>1, <1>2, <1>3 DEF AnswerFits

LEMMA FlowStays ==
  ASSUME sessions \in Seq(Session), Grows, failures' = 0 => failures = 0,
         NEW f, FlowFits(f), flow'[f] = flow[f]
  PROVE  FlowFits(f)'
BY RequestStays, AnswerStays DEF FlowFits, Active

-----------------------------------------------------------------------------
(* What the server answers *)

LEMMA ReplyTyped ==
  ASSUME NEW status \in {0, 200, 204, 400, 401, 403, 500}
  PROVE  /\ Reply(status) \in Answer
         /\ Reply(status).status = status
         /\ Reply(status).user = None /\ Reply(status).token = None
         /\ Reply(status).setCookie = "no"
BY DEF Reply, Answer

LEMMA ReadIs ==
  ASSUME sessions \in Seq(Session), NEW k \in DOMAIN sessions \cup {None}
  PROVE  /\ ReadAnswer(k) \in Answer
         /\ ReadAnswer(k).status \in {200, 401, 403}
         /\ ReadAnswer(k).status = 200 => k # None
         /\ ReadAnswer(k).setCookie = "no"
         /\ ReadAnswer(k).token = None
         /\ ReadAnswer(k).status = 401 => ~SignedIn(k)
         /\ ReadAnswer(k).user # None =>
              k # None /\ ReadAnswer(k).user = sessions[k].user
<1>1. CASE ~SignedIn(k)
  <2>1. ReadAnswer(k) = Reply(401)
    BY <1>1 DEF ReadAnswer
  <2>2. QED
    BY <1>1, <2>1, ReplyTyped
<1>2. CASE SignedIn(k)
  <2>1. k # None /\ sessions[k] \in Session
    BY <1>2 DEF SignedIn
  <2>2. sessions[k].user \in Users
    BY <2>1 DEF Session
  <2>3. CASE sessions[k].user \in suspended
    <3>1. ReadAnswer(k) = Reply(403)
      BY <1>2, <2>3 DEF ReadAnswer
    <3>2. QED
      BY <3>1, ReplyTyped
  <2>4. CASE sessions[k].user \notin suspended
    <3>1. ReadAnswer(k) = [Reply(200) EXCEPT !.user = sessions[k].user]
      BY <1>2, <2>4 DEF ReadAnswer
    <3>2. ReadAnswer(k) = [status |-> 200, user |-> sessions[k].user,
                           token |-> None, setCookie |-> "no"]
      BY <3>1 DEF Reply
    <3>3. QED
      BY <2>1, <2>2, <3>2, Apart DEF Answer
  <2>5. QED
    BY <2>3, <2>4
<1>3. QED
  BY <1>1, <1>2

\* The answer, and the sessions after it.
LEMMA AnswerIs ==
  ASSUME sessions \in Seq(Session), SessionsAreVouchedFor, now \in Nat,
         now' = now, failures' = failures, NEW r, RequestFits(r),
         sessions' = SessionsAfter(r), NEW a, a = AnswerTo(r)
  PROVE  a \in Answer /\ a.setCookie # "stored" /\ AnswerFits(r, a)'
<1>1. r.step \in Steps /\ r.cookie \in DOMAIN sessions \cup {None}
  BY DEF RequestFits, Request
<1>2. CASE r.step = "logout"
  <2>1. a = [Reply(204) EXCEPT !.setCookie = "sent"]
    BY <1>2 DEF AnswerTo
  <2>2. a = [status |-> 204, user |-> None, token |-> None,
             setCookie |-> "sent"]
    BY <2>1 DEF Reply
  <2>3. a \in Answer /\ a.setCookie = "sent" /\ a.token = None /\ a.user = None
    BY <2>2 DEF Answer
  <2>4. QED
    BY <1>2, <2>3 DEF AnswerFits
<1>3. CASE r.step \in {"probe", "me", "usage"}
  <2>1. a = ReadAnswer(r.cookie)
    BY <1>3 DEF AnswerTo
  <2>2. /\ a \in Answer
        /\ a.status \in {200, 401, 403}
        /\ a.status = 200 => r.cookie # None
        /\ a.setCookie = "no"
        /\ a.status = 401 => ~SignedIn(r.cookie)
        /\ a.user # None =>
             r.cookie # None /\ a.user = sessions[r.cookie].user
    BY <1>1, <2>1, ReadIs
  <2>3. sessions' = sessions
    BY <1>3 DEF SessionsAfter
  <2>4. ~SignedIn(r.cookie) => ~SignedIn(r.cookie)'
    BY <2>3 DEF SignedIn
  <2>5. QED
    BY <1>3, <2>2, <2>3, <2>4 DEF AnswerFits
<1>4. CASE r.step = "exchange" /\ ExchangeStatus(r.who) # 200
  <2>1. a = Reply(ExchangeStatus(r.who))
    BY <1>4 DEF AnswerTo
  <2>2. a \in Answer /\ a.status # 200 /\ a.setCookie = "no" /\ a.user = None
    BY <1>4, <2>1, StatusIs, ReplyTyped
  <2>3. QED
    BY <1>4, <2>2 DEF AnswerFits
<1>5. CASE r.step = "exchange" /\ ExchangeStatus(r.who) = 200
  <2>1. a = [Reply(200) EXCEPT !.token = Len(sessions) + 1,
                               !.setCookie = "sent"]
    BY <1>5 DEF AnswerTo
  <2>2. a = [status |-> 200, user |-> None, token |-> Len(sessions) + 1,
             setCookie |-> "sent"]
    BY <2>1 DEF Reply
  <2>3. /\ a \in Answer /\ a.token = Len(sessions) + 1
        /\ a.status = 200 /\ a.setCookie = "sent" /\ a.user = None
    BY <2>2 DEF Answer
  <2>4. /\ a.token \in DOMAIN sessions'
        /\ r.who \in LaunchData => sessions'[a.token].by = r.who
    BY <1>5, <2>3, SessionsGrow
  <2>5. QED
    BY <1>5, <2>3, <2>4 DEF AnswerFits
<1>6. QED
  BY <1>1, <1>2, <1>3, <1>4, <1>5 DEF Steps

-----------------------------------------------------------------------------
(* Steps of the server *)

LEMMA FlowsAre ==
  /\ Boot \in Flows /\ Cancelled \in Flows /\ Clicks \subseteq Flows
  /\ Boot \in Foreground /\ Clicks \subseteq Foreground
  /\ Foreground = Flows \ {Cancelled}
BY FlowsAssumption DEF Flows, Foreground

LEMMA TypesAre ==
  ASSUME AppInv
  PROVE  /\ sessions \in Seq(Session) /\ now \in Nat
         /\ cookie \in DOMAIN sessions \cup {None}
         /\ flow \in [Flows -> Flow \cup {None}]
         /\ launch \in LaunchData \cup {None}
BY AppAssumption DEF AppInv, AppTypeOK

LEMMA TypesKept ==
  ASSUME AppInv, sessions' \in Seq(Session), Grows, now' \in 2 .. MaxTime,
         flow' \in [Flows -> Flow \cup {None}],
         screen' \in Screen, orphans' \subseteq Request,
         cookie' \in DOMAIN sessions' \cup {None},
         launch' \in LaunchData \cup {None}, impatient' \in BOOLEAN,
         UNCHANGED <<strict, suspended>>
  PROVE  AppTypeOK'
<1>1. \A k \in DOMAIN sessions' : sessions'[k] \in Session
  OBVIOUS
<1>2. QED
  BY <1>1 DEF AppInv, AppTypeOK, Session

\* What is shown stays of the session while neither screen nor cookie changes.
LEMMA ScreenStays ==
  ASSUME AppInv, Grows, failures' = 0 => failures = 0,
         LoggedOff => LoggedOff',
         UNCHANGED <<strict, launch, cookie, screen, impatient>>
  PROVE  /\ (screen.name = "persona" => launch = None)'
         /\ DashboardIsOfOne' /\ DashboardIsOfTheSession'
         /\ PersonaMeansSignedOut'
<1>1. cookie \in DOMAIN sessions \cup {None} /\ sessions \in Seq(Session)
  BY TypesAre
<1>2. (screen.name = "persona" => launch = None)'
  BY DEF AppInv
<1>3. cookie \in DOMAIN sessions =>
        /\ sessions'[cookie].user = sessions[cookie].user
        /\ sessions'[cookie].by = sessions[cookie].by
  BY DEF Grows
<1>4. DashboardIsOfOne' /\ DashboardIsOfTheSession'
  BY <1>1, <1>3 DEF AppInv, DashboardIsOfOne, DashboardIsOfTheSession
<1>5. ~SignedIn(cookie) => ~SignedIn(cookie)'
  <2>1. ASSUME NEW k, k = cookie, ~SignedIn(k) PROVE ~SignedIn(k)'
    BY <1>1, <2>1, EndedStays
  <2>2. QED
    BY <2>1 DEF SignedIn
<1>6. PersonaMeansSignedOut'
  BY <1>5 DEF AppInv, PersonaMeansSignedOut
<1>7. QED
  BY <1>2, <1>4, <1>6

LEMMA FollowsStays ==
  ASSUME AppInv, Grows, NEW f, RequestFits(flow[f].request), Follows(f),
         flow'[f].request = flow[f].request, flow'[f].me = flow[f].me,
         Stored(f)' => Stored(f),
         UNCHANGED <<strict, launch, cookie, screen>>
  PROVE  Follows(f)'
<1>1. /\ cookie \in DOMAIN sessions \cup {None}
      /\ flow[f].request.cookie \in DOMAIN sessions \cup {None}
  BY TypesAre DEF RequestFits
<1>2. \A k \in DOMAIN sessions :
        /\ sessions'[k].user = sessions[k].user
        /\ sessions'[k].by = sessions[k].by
  BY DEF Grows
<1>3. QED
  BY <1>1, <1>2 DEF Follows, Overtaken

\* A request is answered, or its answer replaced.
LEMMA AnsweringKeeps ==
  ASSUME AppInv, NEW f \in Flows, Active(f), ~Stored(f),
         NEW a \in Answer, a.setCookie # "stored",
         flow' = [flow EXCEPT ![f].answer = a],
         AnswerFits(flow[f].request, a)',
         sessions' \in Seq(Session), SessionsAreVouchedFor', Grows,
         failures' \in Nat, failures' = 0 => failures = 0,
         UNCHANGED <<strict, now, suspended, launch, cookie, screen, orphans,
                     impatient>>
  PROVE  AppInv'
<1>1. flow \in [Flows -> Flow \cup {None}] /\ flow[f] \in Flow
  BY TypesAre DEF Active
<1>2. flow'[f] = [flow[f] EXCEPT !.answer = a]
  BY <1>1
<1>3. /\ flow'[f] \in Flow
      /\ flow'[f].request = flow[f].request /\ flow'[f].me = flow[f].me
      /\ flow'[f].answer = a
  BY <1>1, <1>2 DEF Flow
<1>4. /\ flow' \in [Flows -> Flow \cup {None}]
      /\ \A g \in Flows \ {f} : flow'[g] = flow[g]
  BY <1>1, <1>3
<1>5. AppTypeOK'
  BY <1>4, TypesKept DEF Grows, AppInv, AppTypeOK
<1>6. \A r \in orphans' : RequestFits(r)'
  BY RequestStays DEF AppInv
<1>7. ASSUME NEW g \in Flows PROVE FlowFits(g)'
  <2>1. CASE g = f
    <3>1. RequestFits(flow[f].request)
      BY DEF AppInv, FlowFits
    <3>2. PICK r : r = flow[f].request
      OBVIOUS
    <3>3. RequestFits(r)'
      BY <3>1, <3>2, RequestStays
    <3>4. QED
      BY <1>3, <2>1, <3>1, <3>2, <3>3 DEF FlowFits
  <2>2. CASE g # f
    BY <1>4, <2>2, TypesAre, FlowStays DEF AppInv
  <2>3. QED
    BY <2>1, <2>2
<1>8. ASSUME NEW g \in Flows, Active(g)'
      PROVE  /\ Active(g)
             /\ flow'[g].request = flow[g].request /\ flow'[g].me = flow[g].me
             /\ Stored(g)' => Stored(g)
  BY <1>3, <1>4, <1>8 DEF Active, Stored, Answered
<1>9. BootFits'
  BY <1>8, FlowsAre DEF AppInv, BootFits
<1>10. OneAtATime'
  <2>1. ASSUME ~impatient, NEW g \in Foreground, Active(g)' PROVE Follows(g)'
    <3>1. /\ g \in Flows /\ Active(g) /\ (Stored(g)' => Stored(g))
          /\ flow'[g].request = flow[g].request /\ flow'[g].me = flow[g].me
      BY <1>8, <2>1, FlowsAre
    <3>2. RequestFits(flow[g].request) /\ Follows(g)
      BY <2>1, <3>1 DEF AppInv, FlowFits, OneAtATime
    <3>3. QED
      BY <3>1, <3>2, FollowsStays
  <2>2. QED
    BY <1>8, <2>1, FlowsAre DEF AppInv, OneAtATime
<1>11. LoggedOff => LoggedOff'
  <2>1. ASSUME LoggedOff PROVE LoggedOff'
    <3>1. PICK g \in Clicks : Stored(g) /\ flow[g].request.step = "logout"
      BY <2>1 DEF LoggedOff, Stored
    <3>2. flow'[g] = flow[g]
      BY <1>4, <3>1, FlowsAre
    <3>3. QED
      BY <3>1, <3>2 DEF LoggedOff, Stored, Answered
  <2>2. QED
    BY <2>1
<1>12. QED
  BY <1>5, <1>6, <1>7, <1>9, <1>10, <1>11, ScreenStays DEF AppInv

LEMMA HandleKeeps ==
  ASSUME AppInv, NEW f \in Flows, Handle(f)
  PROVE  AppInv'
<1> DEFINE r == flow[f].request
<1>1. /\ Active(f) /\ flow' = [flow EXCEPT ![f].answer = AnswerTo(r)]
      /\ sessions' = SessionsAfter(r)
      /\ UNCHANGED <<strict, now, suspended, launch, cookie, screen, orphans,
                     impatient, failures>>
  BY DEF Handle, Unanswered, Active
<1>2. RequestFits(r)
  BY <1>1 DEF AppInv, FlowFits
<1>3. /\ sessions \in Seq(Session) /\ SessionsAreVouchedFor
      /\ now \in Nat /\ now' = now /\ failures' = failures /\ failures \in Nat
  BY <1>1, TypesAre DEF AppInv
<1>4. sessions' \in Seq(Session) /\ SessionsAreVouchedFor' /\ Grows
  BY <1>1, <1>2, <1>3, SessionsGrow
<1>5. PICK q, a : q = r /\ a = AnswerTo(r)
  OBVIOUS
<1>6. a \in Answer /\ AnswerFits(q, a)'
  BY <1>1, <1>2, <1>3, <1>5, AnswerIs
<1>7. AnswerFits(r, a)'
  <2>1. flow[f] \in Flow
    BY <1>1, TypesAre DEF Active
  <2>2. r' = q
    BY <1>1, <1>5, <2>1, TypesAre DEF Flow
  <2>3. QED
    BY <1>6, <2>2
<1>8. ~Stored(f)
  BY DEF Handle, Unanswered, Stored, Answered
<1>9. a.setCookie # "stored"
  BY <1>1, <1>2, <1>3, <1>5, AnswerIs
<1>10. QED
  BY <1>1, <1>3, <1>4, <1>5, <1>6, <1>7, <1>8, <1>9, AnsweringKeeps

LEMMA BreakKeeps ==
  ASSUME AppInv, NEW f \in Flows, Break(f)
  PROVE  AppInv'
<1>1. /\ failures' = failures + 1
      /\ UNCHANGED <<strict, now, suspended, launch, cookie, sessions, screen,
                     orphans, impatient>>
  BY DEF Break
<1>2. failures' \in Nat /\ failures' # 0
  BY <1>1 DEF AppInv
<1>3. Grows /\ sessions' \in Seq(Session) /\ SessionsAreVouchedFor'
  BY <1>1, TypesAre, NothingGrows, VouchedFor, VouchedForNext DEF AppInv
<1>4. PICK status \in {0, 200, 500} :
        /\ Active(f) /\ ~Stored(f)
        /\ status = 200 => flow[f].request.cookie # None
        /\ status = 200 => flow[f].request.step \in {"probe", "me", "usage"}
        /\ flow' = [flow EXCEPT ![f].answer = Reply(status)]
  <2>1. CASE /\ Unanswered(f)
             /\ \E status \in {0, 500} :
                  flow' = [flow EXCEPT ![f].answer = Reply(status)]
    <3>1. PICK status \in {0, 500} :
            flow' = [flow EXCEPT ![f].answer = Reply(status)]
      BY <2>1
    <3>2. Active(f) /\ ~Stored(f)
      BY <2>1 DEF Unanswered, Active, Stored, Answered
    <3>3. status \in {0, 200, 500} /\ status # 200
      OBVIOUS
    <3>4. QED
      BY <3>1, <3>2, <3>3
  <2>2. CASE /\ Answered(f) /\ flow[f].answer.setCookie # "stored"
             /\ flow' = [flow EXCEPT ![f].answer = Reply(0)]
    BY <2>2 DEF Active, Stored, Answered
  <2>3. CASE /\ Answered(f) /\ flow[f].answer.user # None
             /\ flow' = [flow EXCEPT ![f].answer = Reply(200)]
    <3>1. Active(f) /\ AnswerFits(flow[f].request, flow[f].answer)
      BY <2>3 DEF AppInv, FlowFits, Active, Answered
    <3>2. /\ flow[f].request.step \in {"probe", "me", "usage"}
          /\ flow[f].request.cookie # None
          /\ flow[f].answer.setCookie = "no"
      BY <2>3, <3>1 DEF AnswerFits
    <3>3. QED
      BY <2>3, <3>1, <3>2 DEF Stored
  <2>4. QED
    BY <2>1, <2>2, <2>3 DEF Break
<1>5. PICK a : a = Reply(status)
  OBVIOUS
<1>6. /\ a \in Answer /\ a.status = status /\ a.user = None
      /\ a.token = None /\ a.setCookie = "no"
  BY <1>5, ReplyTyped
<1>7. AnswerFits(flow[f].request, a)'
  <2>1. flow'[f].request = flow[f].request
    BY <1>4, TypesAre DEF Active, Flow
  <2>2. QED
    BY <1>2, <1>4, <1>6, <2>1 DEF AnswerFits
<1>8. QED
  BY <1>1, <1>2, <1>3, <1>4, <1>5, <1>6, <1>7, AnsweringKeeps

\* A step that changes nothing of the page.
LEMMA ElsewhereKeeps ==
  ASSUME AppInv, sessions' \in Seq(Session), SessionsAreVouchedFor', Grows,
         now' \in 2 .. MaxTime, orphans' \subseteq orphans,
         UNCHANGED <<strict, suspended, launch, cookie, screen, flow,
                     impatient, failures>>
  PROVE  AppInv'
<1>1. cookie \in DOMAIN sessions' \cup {None}
  BY TypesAre DEF Grows
<1>2. AppTypeOK'
  BY <1>1, TypesKept DEF AppInv, AppTypeOK
<1>3. \A r \in orphans' : RequestFits(r)'
  BY RequestStays DEF AppInv
<1>4. \A f \in Flows : FlowFits(f)'
  BY TypesAre, FlowStays DEF AppInv
<1>5. BootFits'
  BY DEF AppInv, BootFits, Active
<1>6. OneAtATime'
  <2>1. ASSUME ~impatient, NEW f \in Foreground, Active(f) PROVE Follows(f)'
    <3>1. f \in Flows
      BY FlowsAre
    <3>2. RequestFits(flow[f].request) /\ Follows(f)
      BY <2>1, <3>1 DEF AppInv, FlowFits, OneAtATime
    <3>3. QED
      BY <3>2, FollowsStays DEF Stored, Answered
  <2>2. QED
    BY <2>1 DEF AppInv, OneAtATime, Active
<1>7. LoggedOff => LoggedOff'
  BY DEF LoggedOff, Answered
<1>8. QED
  BY <1>2, <1>3, <1>4, <1>5, <1>6, <1>7, ScreenStays DEF AppInv

LEMMA HandleOrphanKeeps ==
  ASSUME AppInv, NEW r \in orphans, HandleOrphan(r)
  PROVE  AppInv'
<1>1. /\ sessions' = SessionsAfter(r) /\ orphans' \subseteq orphans
      /\ UNCHANGED <<strict, now, suspended, launch, cookie, screen, flow,
                     impatient, failures>>
  BY DEF HandleOrphan
<1>2. RequestFits(r)
  BY DEF AppInv
<1>3. sessions' \in Seq(Session) /\ SessionsAreVouchedFor' /\ Grows
  BY <1>1, <1>2, TypesAre, SessionsGrow DEF AppInv
<1>4. now' \in 2 .. MaxTime
  BY <1>1 DEF AppInv, AppTypeOK
<1>5. QED
  BY <1>1, <1>3, <1>4, ElsewhereKeeps

LEMMA TickKeeps ==
  ASSUME AppInv, Tick
  PROVE  AppInv'
<1>1. /\ now < MaxTime /\ now' = now + 1
      /\ UNCHANGED <<strict, suspended, launch, cookie, sessions, screen, flow,
                     orphans, impatient, failures>>
  BY DEF Tick
<1>2. now \in 2 .. MaxTime /\ now' \in 2 .. MaxTime
  BY <1>1, AppAssumption DEF AppInv, AppTypeOK
<1>3. Grows
  <2>1. now' \in Nat /\ now' >= now
    BY <1>1, <1>2
  <2>2. QED
    BY <1>1, <2>1, TypesAre, NothingGrows
<1>4. sessions' \in Seq(Session) /\ SessionsAreVouchedFor'
  BY <1>1, TypesAre, VouchedFor, VouchedForNext DEF AppInv
<1>5. QED
  BY <1>1, <1>2, <1>3, <1>4, ElsewhereKeeps

-----------------------------------------------------------------------------
(* Steps of the page *)

LEMMA AskIs ==
  ASSUME AppInv, NEW step \in Steps, NEW k \in DOMAIN sessions \cup {None},
         NEW who \in LaunchData \cup Users \cup {None},
         step = "exchange" => who # None,
         NEW me \in Users \cup {None},
         NEW x, x = Ask(step, k, who, me)
  PROVE  /\ x \in Flow
         /\ x.request.step = step /\ x.request.cookie = k
         /\ x.request.who = who /\ x.answer = None /\ x.me = me
         /\ RequestFits(x.request)
<1>1. k \in Nat \cup {None}
  BY TypesAre
<1>2. [step |-> step, cookie |-> k, who |-> who] \in Request
  BY <1>1 DEF Request
<1>3. x = [request |-> [step |-> step, cookie |-> k, who |-> who],
           answer |-> None, me |-> me]
  BY DEF Ask
<1>4. QED
  BY <1>2, <1>3 DEF Flow, RequestFits

\* The requests of the page, one by one.
LEMMA AskProbe ==
  ASSUME AppInv, NEW k \in DOMAIN sessions \cup {None},
         NEW x, x = Ask("probe", k, None, None)
  PROVE  /\ x \in Flow /\ RequestFits(x.request) /\ x.answer = None
         /\ x.request.step = "probe" /\ x.request.cookie = k
<1>1. "probe" \in Steps /\ None \in LaunchData \cup Users \cup {None}
      /\ None \in Users \cup {None}
  BY DEF Steps
<1>2. QED
  BY <1>1, AskIs

LEMMA AskExchange ==
  ASSUME AppInv, NEW k \in DOMAIN sessions \cup {None},
         NEW who \in LaunchData \cup Users,
         NEW x, x = Ask("exchange", k, who, None)
  PROVE  /\ x \in Flow /\ RequestFits(x.request) /\ x.answer = None
         /\ x.request.step = "exchange" /\ x.request.who = who
<1>1. "exchange" \in Steps /\ who \in LaunchData \cup Users \cup {None}
      /\ who # None /\ None \in Users \cup {None}
  BY Apart DEF Steps
<1>2. QED
  BY <1>1, AskIs

LEMMA AskMe ==
  ASSUME AppInv, NEW k \in DOMAIN sessions \cup {None},
         NEW x, x = Ask("me", k, None, None)
  PROVE  /\ x \in Flow /\ RequestFits(x.request) /\ x.answer = None
         /\ x.request.step = "me" /\ x.request.cookie = k
<1>1. "me" \in Steps /\ None \in LaunchData \cup Users \cup {None}
      /\ None \in Users \cup {None}
  BY DEF Steps
<1>2. QED
  BY <1>1, AskIs

LEMMA AskUsage ==
  ASSUME AppInv, NEW k \in DOMAIN sessions \cup {None},
         NEW me \in Users \cup {None},
         NEW x, x = Ask("usage", k, None, me)
  PROVE  /\ x \in Flow /\ RequestFits(x.request) /\ x.answer = None
         /\ x.request.step = "usage" /\ x.request.cookie = k
         /\ x.me = me
<1>1. /\ "usage" \in Steps /\ None \in LaunchData \cup Users \cup {None}
      /\ me \in Users \cup {None}
  BY DEF Steps
<1>2. PICK step, who : step = "usage" /\ who = None
  OBVIOUS
<1>3. /\ step \in Steps /\ who \in LaunchData \cup Users \cup {None}
      /\ step # "exchange" /\ x = Ask(step, k, who, me)
  BY <1>1, <1>2
<1>4. QED
  BY <1>2, <1>3, AskIs

LEMMA AskLogout ==
  ASSUME AppInv, NEW k \in DOMAIN sessions \cup {None},
         NEW x, x = Ask("logout", k, None, None)
  PROVE  /\ x \in Flow /\ RequestFits(x.request) /\ x.answer = None
         /\ x.request.step = "logout"
<1>1. "logout" \in Steps /\ None \in LaunchData \cup Users \cup {None}
      /\ None \in Users \cup {None}
  BY DEF Steps
<1>2. QED
  BY <1>1, AskIs

\* A request that has just been sent fits.
LEMMA SentFits ==
  ASSUME UNCHANGED sessions, NEW f, flow'[f] # None,
         RequestFits(flow'[f].request), flow'[f].answer = None
  PROVE  FlowFits(f)'
<1>1. PICK r : r = flow'[f].request
  OBVIOUS
<1>2. RequestFits(r)'
  BY <1>1 DEF RequestFits
<1>3. QED
  BY <1>1, <1>2 DEF FlowFits, Active

\* What a function that goes on knows.
LEMMA AtIs ==
  ASSUME AppInv, NEW f \in Flows, NEW step, At(f, step)
  PROVE  /\ Active(f) /\ flow[f] \in Flow /\ flow[f].request.step = step
         /\ flow[f].answer \in Answer
         /\ RequestFits(flow[f].request)
         /\ AnswerFits(flow[f].request, flow[f].answer)
         /\ flow[f].answer.setCookie # "no" => Stored(f)
<1>1. Active(f) /\ flow[f].answer # None /\ flow[f].request.step = step
  BY DEF At, Answered, Active
<1>2. flow[f] \in Flow
  BY <1>1, TypesAre DEF Active
<1>3. flow[f].answer \in Answer
  BY <1>1, <1>2 DEF Flow
<1>4. FlowFits(f)
  BY DEF AppInv
<1>5. flow[f].answer.setCookie # "no" => Stored(f)
  BY <1>3 DEF At, Stored, Answer
<1>6. QED
  BY <1>1, <1>2, <1>3, <1>4, <1>5 DEF FlowFits

\* What the steps of the page have in common.
PageStep ==
  /\ UNCHANGED <<strict, now, suspended, sessions, failures>>
  /\ launch' \in LaunchData \cup {None}
  /\ cookie' \in DOMAIN sessions \cup {None}

LEMMA PageIs ==
  ASSUME AppInv, PageStep
  PROVE  /\ Grows /\ sessions' \in Seq(Session) /\ SessionsAreVouchedFor'
         /\ now' \in 2 .. MaxTime /\ failures' \in Nat
         /\ cookie' \in DOMAIN sessions' \cup {None}
         /\ \A g \in Flows : flow'[g] = flow[g] => FlowFits(g)'
         /\ \A r : RequestFits(r) => RequestFits(r)'
<1>1. Grows
  BY TypesAre, NothingGrows DEF PageStep
<1>2. sessions' \in Seq(Session) /\ SessionsAreVouchedFor'
  BY TypesAre, VouchedFor, VouchedForNext DEF AppInv, PageStep
<1>3. \A g \in Flows : flow'[g] = flow[g] => FlowFits(g)'
  BY <1>1, TypesAre, FlowStays DEF AppInv, PageStep
<1>4. \A r : RequestFits(r) => RequestFits(r)'
  BY <1>1, RequestStays
<1>5. QED
  BY <1>1, <1>2, <1>3, <1>4 DEF AppInv, AppTypeOK, PageStep

\* The function f has done, and shows something, or f is cancelled.
LEMMA ShowKeeps ==
  ASSUME AppInv, PageStep, NEW f \in Foreground, Active(f),
         NEW shown \in Screen, Paint(f, shown),
         UNCHANGED <<launch, impatient>>,
         shown.name = "persona" => launch = None,
         screen' = shown =>
           DashboardIsOfOne' /\ DashboardIsOfTheSession' /\ PersonaMeansSignedOut'
  PROVE  AppInv'
<1>1. f \in Flows /\ f # Cancelled
  BY FlowsAre
<1>2. /\ screen' = IF screen.name = "blank" THEN screen ELSE shown
      /\ flow' = [flow EXCEPT ![f] = None] /\ orphans' = orphans
  BY <1>1 DEF Paint
<1>3. /\ flow' \in [Flows -> Flow \cup {None}]
      /\ flow'[f] = None
      /\ \A g \in Flows \ {f} : flow'[g] = flow[g]
  BY <1>1, <1>2, TypesAre
<1>4. AppTypeOK'
  <2>1. screen' \in Screen
    BY <1>2 DEF AppInv, AppTypeOK
  <2>2. QED
    BY <1>2, <1>3, <2>1, PageIs, TypesKept DEF AppInv, AppTypeOK, PageStep
<1>5. \A g \in Flows : FlowFits(g)'
  BY <1>3, PageIs DEF FlowFits, Active
<1>6. \A r \in orphans' : RequestFits(r)'
  BY <1>2, PageIs DEF AppInv
<1>7. BootFits'
  BY <1>3, FlowsAre DEF AppInv, BootFits, Active, PageStep
<1>8. OneAtATime'
  BY <1>3, FlowsAre DEF AppInv, OneAtATime, Active
<1>9. /\ (screen.name = "persona" => launch = None)'
      /\ DashboardIsOfOne' /\ DashboardIsOfTheSession' /\ PersonaMeansSignedOut'
  <2>1. CASE screen' = shown
    BY <2>1
  <2>2. CASE screen'.name = "blank"
    BY <2>2
    DEF DashboardIsOfOne, DashboardIsOfTheSession, PersonaMeansSignedOut
  <2>3. QED
    BY <1>2, <2>1, <2>2
<1>10. QED
  BY <1>2, <1>4, <1>5, <1>6, <1>7, <1>8, <1>9, PageIs DEF AppInv

\* The function f goes on with another request.
LEMMA GoOnKeeps ==
  ASSUME AppInv, PageStep, NEW f \in Foreground, Active(f),
         flow[f].request.step # "logout",
         NEW x \in Flow, Continue(f, x),
         RequestFits(x.request), x.answer = None,
         x.request.step # "logout",
         UNCHANGED <<launch, impatient>>,
         ~impatient => Follows(f)'
  PROVE  AppInv'
<1>1. f \in Flows /\ f # Cancelled
  BY FlowsAre
<1>2. screen' = screen /\ orphans' = orphans /\ flow' = [flow EXCEPT ![f] = x]
  BY DEF Continue
<1>3. /\ flow' \in [Flows -> Flow \cup {None}]
      /\ flow'[f] = x
      /\ \A g \in Flows \ {f} : flow'[g] = flow[g]
  BY <1>1, <1>2, TypesAre
<1>4. AppTypeOK'
  BY <1>2, <1>3, PageIs, TypesKept DEF AppInv, AppTypeOK, PageStep
<1>5. ASSUME NEW g \in Flows PROVE FlowFits(g)'
  <2>1. CASE g = f
    <3>1. CASE x = None
      BY <1>3, <2>1, <3>1 DEF FlowFits, Active
    <3>2. CASE x # None
      BY <1>3, <2>1, <3>2, SentFits DEF PageStep
    <3>3. QED
      BY <3>1, <3>2
  <2>2. CASE g # f
    BY <1>3, <2>2, PageIs
  <2>3. QED
    BY <2>1, <2>2
<1>6. \A r \in orphans' : RequestFits(r)'
  BY <1>2, PageIs DEF AppInv
<1>7. BootFits'
  BY <1>1, <1>3, FlowsAre DEF AppInv, BootFits, Active, PageStep
<1>8. OneAtATime'
  <2>1. \A g \in Foreground : Active(g)' => Active(g)
    BY <1>3, FlowsAre DEF Active
  <2>2. ASSUME ~impatient, NEW g \in Foreground, Active(g)' PROVE g = f
    BY <2>1, <2>2 DEF AppInv, OneAtATime
  <2>3. QED
    BY <2>2 DEF OneAtATime
<1>9. ~impatient => screen.name = "booting"
  BY DEF AppInv, OneAtATime, Follows
<1>10. DashboardIsOfOne' /\ DashboardIsOfTheSession' /\ PersonaMeansSignedOut'
  BY <1>2, <1>9
  DEF DashboardIsOfOne, DashboardIsOfTheSession, PersonaMeansSignedOut
<1>11. QED
  BY <1>2, <1>4, <1>5, <1>6, <1>7, <1>8, <1>10, PageIs DEF AppInv

\* The cancelled run goes on or ends; its session may become the browser's.
LEMMA CancelledKeeps ==
  ASSUME AppInv, PageStep, NEW x \in Flow \cup {None},
         UNCHANGED <<screen, orphans, launch, impatient>>,
         flow' = [flow EXCEPT ![Cancelled] = x],
         FlowFits(Cancelled)',
         x # None =>
           /\ strict
           /\ x.request.step \in {"probe", "exchange"}
           /\ x.request.step = "exchange" =>
                launch # None /\ x.request.who = launch,
         cookie' = cookie \/ Overtaken'
  PROVE  AppInv'
<1>1. screen' = screen /\ orphans' = orphans
  OBVIOUS
<1>2. /\ flow' \in [Flows -> Flow \cup {None}]
      /\ flow'[Cancelled] = x
      /\ \A g \in Foreground : flow'[g] = flow[g]
  BY TypesAre, FlowsAre
<1>3. AppTypeOK'
  BY <1>1, <1>2, PageIs, TypesKept DEF AppInv, AppTypeOK, PageStep
<1>4. ASSUME NEW g \in Flows PROVE FlowFits(g)'
  <2>1. CASE g = Cancelled
    BY <2>1
  <2>2. CASE g # Cancelled
    BY <1>2, <2>2, PageIs, FlowsAre
  <2>3. QED
    BY <2>1, <2>2
<1>5. \A r \in orphans' : RequestFits(r)'
  BY <1>1, PageIs DEF AppInv
<1>6. BootFits'
  BY <1>2, FlowsAre DEF AppInv, BootFits, Active, PageStep
<1>7. CASE cookie' = cookie
  <2>1. OneAtATime'
    <3>1. ASSUME ~impatient, NEW g \in Foreground, Active(g) PROVE Follows(g)'
      <4>1. g \in Flows
        BY FlowsAre
      <4>2. RequestFits(flow[g].request) /\ Follows(g)
        BY <3>1, <4>1 DEF AppInv, FlowFits, OneAtATime
      <4>3. QED
        BY <1>1, <1>2, <1>7, <4>2, PageIs, FollowsStays
        DEF PageStep, Stored, Answered
    <3>2. QED
      BY <1>2, <3>1 DEF AppInv, OneAtATime, Active
  <2>2. LoggedOff => LoggedOff'
    BY <1>2, FlowsAre DEF LoggedOff, Answered
  <2>3. QED
    BY <1>1, <1>3, <1>4, <1>5, <1>6, <1>7, <2>1, <2>2, PageIs, ScreenStays
    DEF AppInv, PageStep
<1>8. CASE Overtaken'
  <2>1. /\ strict /\ launch # None /\ launch \in LaunchData
        /\ cookie' # None /\ cookie' \in DOMAIN sessions
        /\ sessions[cookie'].by = launch
    BY <1>8, TypesAre DEF Overtaken, PageStep
  <2>2. screen.name # "persona"
    BY <2>1 DEF AppInv
  <2>3. ASSUME ~impatient, NEW g \in Foreground, Active(g) PROVE Follows(g)'
    <3>1. Follows(g)
      BY <2>3 DEF AppInv, OneAtATime
    <3>2. flow'[g] = flow[g]
      BY <1>2
    <3>3. QED
      BY <1>1, <1>8, <3>1, <3>2 DEF Follows, PageStep, Stored, Answered
  <2>4. OneAtATime'
    BY <1>2, <2>3 DEF AppInv, OneAtATime, Active
  <2>5. \A k \in DOMAIN sessions : sessions[k].by = launch =>
          sessions[k].user = launch.user
    BY <2>1, VouchedFor DEF AppInv, Vouched
  <2>6. DashboardIsOfOne' /\ DashboardIsOfTheSession'
    <3>1. SUFFICES ASSUME screen.name = "dashboard", ~impatient
                   PROVE  DashboardIsOfOne' /\ DashboardIsOfTheSession'
      BY <1>1 DEF DashboardIsOfOne, DashboardIsOfTheSession
    <3>2. screen.usage \in {screen.me, None, launch.user}
      BY <3>1 DEF AppInv, DashboardIsOfOne
    <3>3. sessions[cookie'].user = launch.user
      BY <2>1, <2>5
    <3>4. DashboardIsOfOne'
      BY <1>1, <2>1, <3>2 DEF DashboardIsOfOne, PageStep
    <3>5. DashboardIsOfTheSession'
      BY <1>1, <2>1, <3>2, <3>3 DEF DashboardIsOfTheSession, PageStep
    <3>6. QED
      BY <3>4, <3>5
  <2>7. PersonaMeansSignedOut'
    BY <1>1, <2>2 DEF PersonaMeansSignedOut
  <2>8. QED
    BY <1>1, <1>3, <1>4, <1>5, <1>6, <2>2, <2>4, <2>6, <2>7, PageIs DEF AppInv
<1>9. QED
  BY <1>7, <1>8

\* The cancelled run shows nothing.
LEMMA CancelledEnds ==
  ASSUME AppInv, PageStep, flow' = [flow EXCEPT ![Cancelled] = None],
         UNCHANGED <<screen, orphans, launch, cookie, impatient>>
  PROVE  AppInv'
<1>1. flow'[Cancelled] = None
  BY TypesAre, FlowsAre
<1>2. FlowFits(Cancelled)'
  BY <1>1 DEF FlowFits, Active
<1>3. QED
  BY <1>2, CancelledKeeps

\* The page is loaded: its boot effect asks whose session the browser has.
LEMMA LoadKeeps ==
  ASSUME AppInv, PageStep, NEW k, k = cookie', Load(k), UNCHANGED impatient
  PROVE  AppInv'
<1> DEFINE x == Ask("probe", k, None, None)
<1>1. screen' = Plain("booting") /\ screen' \in Screen
      /\ screen'.name = "booting"
  BY DEF Load, Plain, Screen
<1>2. /\ x \in Flow
      /\ x.request.step = "probe" /\ x.request.cookie = k /\ x.answer = None
      /\ RequestFits(x.request)
  BY AskProbe DEF PageStep
<1> HIDE DEF x
<1>3. flow' = [f \in Flows |-> IF f = Boot \/ (f = Cancelled /\ strict)
                               THEN x ELSE None]
  BY DEF Load, Booting, x
<1>4. /\ flow' \in [Flows -> Flow \cup {None}]
      /\ flow'[Boot] = x
      /\ \A f \in Flows : flow'[f] # None => flow'[f] = x
      /\ \A f \in Foreground : flow'[f] # None => f = Boot
      /\ flow'[Cancelled] # None => strict
  BY <1>2, <1>3, FlowsAre
<1>5. ASSUME NEW r \in orphans' PROVE r \in Request /\ RequestFits(r)'
  <2>1. RequestFits(r)
    <3>1. CASE r \in orphans
      BY <3>1 DEF AppInv
    <3>2. CASE r \notin orphans
      <4>1. PICK f \in Flows : flow[f] # None /\ r = flow[f].request
        BY <1>5, <3>2 DEF Load, Unanswered
      <4>2. QED
        BY <4>1 DEF AppInv, FlowFits, Active
    <3>3. QED
      BY <3>1, <3>2
  <2>2. QED
    BY <2>1, PageIs DEF RequestFits
<1>6. AppTypeOK'
  BY <1>1, <1>4, <1>5, PageIs, TypesKept DEF AppInv, AppTypeOK, PageStep
<1>7. ASSUME NEW f \in Flows PROVE FlowFits(f)'
  <2>1. CASE flow'[f] = None
    BY <2>1 DEF FlowFits, Active
  <2>2. CASE flow'[f] # None
    BY <1>2, <1>4, <2>2, SentFits DEF PageStep
  <2>3. QED
    BY <2>1, <2>2
<1>8. BootFits'
  BY <1>2, <1>4, FlowsAre DEF BootFits, Active, PageStep
<1>9. Follows(Boot)'
  BY <1>1, <1>2, <1>4 DEF Follows, Stored, Answered
<1>10. OneAtATime'
  BY <1>4, <1>9, FlowsAre DEF OneAtATime, Active
<1>11. /\ (screen.name = "persona" => launch = None)'
       /\ DashboardIsOfOne' /\ DashboardIsOfTheSession'
       /\ PersonaMeansSignedOut'
  BY <1>1 DEF DashboardIsOfOne, DashboardIsOfTheSession, PersonaMeansSignedOut
<1>12. QED
  BY <1>5, <1>6, <1>7, <1>8, <1>10, <1>11, PageIs DEF AppInv

LEMMA PlainKeeps ==
  ASSUME AppInv, PageStep, NEW f \in Flows, Active(f),
         NEW name \in {"error", "blank"}, Paint(f, Plain(name)),
         UNCHANGED <<launch, cookie, impatient>>
  PROVE  AppInv'
<1>1. Plain(name) \in Screen /\ Plain(name).name = name
  BY DEF Plain, Screen
<1>2. CASE f = Cancelled
  BY <1>2, CancelledEnds DEF Paint
<1>3. CASE f # Cancelled
  <2>1. f \in Foreground
    BY <1>3, FlowsAre
  <2>2. screen' = Plain(name) =>
          DashboardIsOfOne' /\ DashboardIsOfTheSession' /\ PersonaMeansSignedOut'
    BY <1>1
    DEF DashboardIsOfOne, DashboardIsOfTheSession, PersonaMeansSignedOut
  <2>3. QED
    BY <1>1, <2>1, <2>2, ShowKeeps
<1>4. QED
  BY <1>2, <1>3

\* The browser stores the cookie of an answer.
LEMMA StoreKeeps ==
  ASSUME AppInv, NEW f \in Flows, Store(f)
  PROVE  AppInv'
<1> DEFINE r == flow[f].request
           a == flow[f].answer
<1>1. /\ Active(f) /\ a # None /\ a.setCookie = "sent" /\ cookie' = a.token
      /\ flow' = [flow EXCEPT ![f].answer.setCookie = "stored"]
      /\ UNCHANGED <<strict, now, suspended, launch, sessions, screen, orphans,
                     impatient, failures>>
  BY DEF Store, Answered, Active
<1>2. /\ flow[f] \in Flow /\ a \in Answer
      /\ RequestFits(r) /\ AnswerFits(r, a)
  BY <1>1, TypesAre DEF AppInv, FlowFits, Active, Flow
<1>3. \/ r.step = "logout" /\ a.token = None
      \/ /\ r.step = "exchange" /\ a.token \in DOMAIN sessions
         /\ r.who \in LaunchData => sessions[a.token].by = r.who
  BY <1>1, <1>2 DEF AnswerFits
<1>4. PageStep
  BY <1>1, <1>3, TypesAre DEF PageStep
<1>5. PICK b : b = [a EXCEPT !.setCookie = "stored"]
  OBVIOUS
<1>6. /\ b \in Answer /\ b.setCookie = "stored"
      /\ b.status = a.status /\ b.user = a.user /\ b.token = a.token
  BY <1>2, <1>5 DEF Answer
<1>7. b # None
  BY <1>6, NoneIsNoRecord
<1>8. PICK x : x = [flow[f] EXCEPT !.answer = b]
  OBVIOUS
<1>9. /\ x \in Flow /\ x.answer = b
      /\ x.request = r /\ x.me = flow[f].me
  BY <1>2, <1>6, <1>8 DEF Flow
<1>10. flow' = [flow EXCEPT ![f] = x]
  BY <1>1, <1>2, <1>5, <1>8, TypesAre DEF Flow
<1>11. /\ flow' \in [Flows -> Flow \cup {None}] /\ flow'[f] = x
       /\ \A g \in Flows \ {f} : flow'[g] = flow[g]
  BY <1>9, <1>10, TypesAre
<1>12. FlowFits(f)'
  <2>1. PICK q : q = r
    OBVIOUS
  <2>2. RequestFits(q)'
    BY <1>2, <1>4, <2>1, PageIs
  <2>3. AnswerFits(q, b)'
    BY <1>1, <1>2, <1>6, <2>1 DEF AnswerFits, SignedIn
  <2>4. QED
    BY <1>9, <1>11, <2>1, <2>2, <2>3 DEF FlowFits
<1>13. CASE f = Cancelled
  <2>1. /\ strict /\ launch # None /\ r.step = "exchange" /\ r.who = launch
        /\ launch \in LaunchData
    BY <1>1, <1>3, <1>13, TypesAre DEF AppInv, BootFits
  <2>2. cookie' \in DOMAIN sessions /\ cookie' # None
    BY <1>1, <1>3, <2>1, TypesAre, Apart
  <2>3. Overtaken'
    BY <1>1, <1>3, <2>1, <2>2 DEF Overtaken
  <2>4. QED
    BY <1>1, <1>4, <1>9, <1>10, <1>12, <1>13, <2>1, <2>3, CancelledKeeps
<1>14. CASE f # Cancelled
  <2>1. f \in Foreground
    BY <1>14, FlowsAre
  <2>2. AppTypeOK'
    BY <1>1, <1>4, <1>11, PageIs, TypesKept DEF AppInv, AppTypeOK, PageStep
  <2>3. \A g \in Flows : FlowFits(g)'
    BY <1>4, <1>11, <1>12, PageIs
  <2>4. \A q \in orphans' : RequestFits(q)'
    BY <1>1, <1>4, PageIs DEF AppInv
  <2>5. BootFits'
    BY <1>1, <1>9, <1>11, <1>14, FlowsAre DEF AppInv, BootFits, Active
  <2>6. /\ f \in Foreground
        /\ ~impatient => Follows(f)
    BY <1>1, <2>1 DEF AppInv, OneAtATime
  <2>7. cookie' = None <=> r.step = "logout"
    <3>1. None \notin DOMAIN sessions
      BY TypesAre, Apart
    <3>2. QED
      BY <1>1, <1>3, <3>1
  <2>8. OneAtATime'
    <3>1. ASSUME ~impatient PROVE Follows(f)'
      <4>1. /\ r.step # "logout" => screen.name = "booting"
            /\ r.step = "logout" => screen.name = "dashboard"
        BY <2>6, <3>1 DEF Follows
      <4>2. QED
        BY <1>1, <1>3, <1>9, <1>11, <2>7, <4>1 DEF Follows
    <3>2. \A g \in Foreground : Active(g)' => Active(g)
      BY <1>1, <1>11, FlowsAre DEF Active
    <3>3. ASSUME ~impatient, NEW g \in Foreground, Active(g)' PROVE g = f
      BY <1>1, <2>1, <3>2, <3>3 DEF AppInv, OneAtATime
    <3>4. QED
      BY <1>1, <3>1, <3>3 DEF OneAtATime
  <2>9. ASSUME ~impatient, screen.name = "dashboard"
        PROVE  cookie' = None /\ LoggedOff'
    <3>1. r.step = "logout"
      BY <1>1, <2>6, <2>9 DEF Follows
    <3>2. f \in Clicks
      BY <1>1, <1>14, <3>1 DEF AppInv, BootFits, Flows
    <3>3. x # None /\ b # None
      BY <1>6, <1>9, NoneIsNoRecord
    <3>4. QED
      BY <1>6, <1>9, <1>11, <2>7, <3>1, <3>2, <3>3 DEF LoggedOff, Answered
  <2>10. DashboardIsOfOne' /\ DashboardIsOfTheSession'
    BY <1>1, <2>9 DEF AppInv, DashboardIsOfOne, DashboardIsOfTheSession
  <2>11. PersonaMeansSignedOut'
    <3>1. ~impatient => screen.name # "persona"
      BY <1>1, <2>6 DEF Follows
    <3>2. QED
      BY <1>1, <3>1 DEF PersonaMeansSignedOut
  <2>12. QED
    BY <1>1, <1>4, <2>2, <2>3, <2>4, <2>5, <2>8, <2>10, <2>11, PageIs DEF AppInv
<1>15. QED
  BY <1>13, <1>14

LEMMA ProbedKeeps ==
  ASSUME AppInv, NEW f \in Flows, Probed(f)
  PROVE  AppInv'
<1> DEFINE r == flow[f].request
           a == flow[f].answer
<1>1. At(f, "probe") /\ UNCHANGED Server
  BY DEF Probed
<1>2. /\ PageStep /\ UNCHANGED <<launch, impatient, cookie, failures>>
      /\ UNCHANGED <<strict, sessions, now>>
  BY <1>1, TypesAre DEF Server, PageStep
<1>3. /\ Active(f) /\ r.step = "probe" /\ a \in Answer
      /\ RequestFits(r) /\ AnswerFits(r, a)
  BY <1>1, AtIs
<1>4. f \in Foreground => (~impatient => Follows(f))
  BY <1>3 DEF AppInv, OneAtATime
<1>5. CASE Status(f) = 200 /\ GoOn(f, Ask("usage", cookie, None, a.user))
  <2>1. r.cookie # None /\ a.user \in {sessions[r.cookie].user, None}
    BY <1>3, <1>5 DEF AnswerFits, Status
  <2>2. PICK x : x = Ask("usage", cookie, None, a.user)
    OBVIOUS
  <2>3. a.user \in Users \cup {None}
    BY <1>3 DEF Answer
  <2>4. /\ x \in Flow /\ RequestFits(x.request) /\ x.answer = None
        /\ x.request.step = "usage" /\ x.request.cookie = cookie
        /\ x.me = a.user
    BY <2>2, <2>3, TypesAre, AskUsage
  <2>5. CASE f = Cancelled
    BY <1>2, <1>5, <2>5, CancelledEnds DEF GoOn, Continue
  <2>6. CASE f # Cancelled
    <3>1. f \in Foreground /\ Continue(f, x)
      BY <1>5, <2>2, <2>6, FlowsAre DEF GoOn
    <3>2. flow'[f] = x /\ screen' = screen
      BY <3>1, TypesAre DEF Continue
    <3>3. ASSUME ~impatient PROVE Follows(f)'
      <4>1. screen.name = "booting" /\ (cookie = r.cookie \/ Overtaken)
        BY <1>3, <1>4, <3>1, <3>3 DEF Follows
      <4>2. cookie # None
        BY <2>1, <4>1 DEF Overtaken
      <4>3. \/ a.user \in {sessions[cookie].user, None}
            \/ strict /\ launch # None /\ sessions[cookie].by = launch
        BY <2>1, <4>1 DEF Overtaken
      <4>4. QED
        BY <1>2, <2>4, <3>2, <4>1, <4>2, <4>3 DEF Follows, Stored, Answered
    <3>4. QED
      BY <1>2, <1>3, <2>4, <3>1, <3>3, GoOnKeeps
  <2>7. QED
    BY <2>5, <2>6
<1>6. CASE Status(f) \in {403, 500} /\ Paint(f, Plain("error"))
  BY <1>2, <1>3, <1>6, PlainKeeps
<1>7. CASE /\ Status(f) \in {0, 401} /\ launch = None
           /\ Paint(f, Plain("persona"))
  <2>1. Plain("persona") \in Screen /\ Plain("persona").name = "persona"
    BY DEF Plain, Screen
  <2>2. CASE f = Cancelled
    BY <1>2, <1>7, <2>2, CancelledEnds DEF Paint
  <2>3. CASE f # Cancelled
    <3>1. f \in Foreground
      BY <2>3, FlowsAre
    <3>2. screen' = Plain("persona") =>
            DashboardIsOfOne' /\ DashboardIsOfTheSession'
      BY <2>1 DEF DashboardIsOfOne, DashboardIsOfTheSession
    <3>3. PersonaMeansSignedOut'
      <4>1. SUFFICES ASSUME failures = 0, ~impatient PROVE ~SignedIn(cookie)'
        BY <1>2 DEF PersonaMeansSignedOut
      <4>2. cookie = r.cookie
        BY <1>3, <1>4, <1>7, <3>1, <4>1 DEF Follows, Overtaken
      <4>3. ~SignedIn(cookie)
        BY <1>3, <1>7, <4>1, <4>2 DEF AnswerFits, Status
      <4>4. QED
        BY <1>2, <4>3 DEF SignedIn
    <3>4. QED
      BY <1>2, <1>3, <1>7, <2>1, <3>1, <3>2, <3>3, ShowKeeps
  <2>4. QED
    BY <2>2, <2>3
<1>8. CASE /\ Status(f) \in {0, 401} /\ launch # None
           /\ Continue(f, Ask("exchange", cookie, launch, None))
  <2>1. PICK x : x = Ask("exchange", cookie, launch, None)
    OBVIOUS
  <2>2. /\ x \in Flow /\ RequestFits(x.request) /\ x.answer = None
        /\ x.request.step = "exchange" /\ x.request.who = launch
    BY <1>8, <2>1, TypesAre, AskExchange
  <2>3. CASE f = Cancelled
    <3>1. strict
      BY <1>3, <2>3 DEF AppInv, BootFits
    <3>2. /\ flow' = [flow EXCEPT ![Cancelled] = x]
          /\ UNCHANGED <<screen, orphans>>
      BY <1>8, <2>1, <2>3 DEF Continue
    <3>3. flow'[Cancelled] = x
      BY <3>2, TypesAre, FlowsAre
    <3>4. FlowFits(Cancelled)'
      BY <1>2, <2>2, <3>3, NoneIsNoRecord, SentFits
    <3>5. QED
      BY <1>2, <1>8, <2>2, <3>1, <3>2, <3>4, CancelledKeeps
  <2>4. CASE f # Cancelled
    <3>1. f \in Foreground /\ Continue(f, x)
      BY <1>8, <2>1, <2>4, FlowsAre
    <3>2. flow'[f] = x /\ screen' = screen
      BY <3>1, TypesAre DEF Continue
    <3>3. ~impatient => Follows(f)'
      BY <1>2, <1>3, <1>4, <2>2, <3>1, <3>2 DEF Follows, Stored, Answered
    <3>4. QED
      BY <1>2, <1>3, <2>2, <3>1, <3>3, GoOnKeeps
  <2>5. QED
    BY <2>3, <2>4
<1>9. QED
  BY <1>5, <1>6, <1>7, <1>8 DEF Probed

LEMMA ExchangedKeeps ==
  ASSUME AppInv, NEW f \in Flows, Exchanged(f)
  PROVE  AppInv'
<1> DEFINE r == flow[f].request
           a == flow[f].answer
<1>1. At(f, "exchange") /\ UNCHANGED Server
  BY DEF Exchanged
<1>2. /\ PageStep /\ UNCHANGED <<launch, impatient, cookie, failures>>
      /\ UNCHANGED <<strict, sessions, now>>
  BY <1>1, TypesAre DEF Server, PageStep
<1>3. /\ Active(f) /\ r.step = "exchange" /\ AnswerFits(r, a)
      /\ a.setCookie # "no" => Stored(f)
  BY <1>1, AtIs
<1>4. CASE Status(f) = 200 /\ GoOn(f, Ask("me", cookie, None, None))
  <2>1. CASE f = Cancelled
    BY <1>2, <1>4, <2>1, CancelledEnds DEF GoOn, Continue
  <2>2. CASE f # Cancelled
    <3>1. PICK x : x = Ask("me", cookie, None, None)
      OBVIOUS
    <3>2. /\ x \in Flow /\ RequestFits(x.request) /\ x.answer = None
          /\ x.request.step = "me" /\ x.request.cookie = cookie
      BY <3>1, TypesAre, AskMe
    <3>3. f \in Foreground /\ Continue(f, x)
      BY <1>4, <2>2, <3>1, FlowsAre DEF GoOn
    <3>4. flow'[f] = x /\ screen' = screen
      BY <3>3, TypesAre DEF Continue
    <3>5. ASSUME ~impatient PROVE Follows(f)'
      <4>1. Follows(f)
        BY <1>3, <3>3, <3>5 DEF AppInv, OneAtATime
      <4>2. Stored(f)
        BY <1>3, <1>4 DEF AnswerFits, Status
      <4>3. screen.name = "booting" /\ cookie # None
        BY <1>3, <4>1, <4>2 DEF Follows, Overtaken
      <4>4. QED
        BY <1>2, <3>2, <3>4, <4>3 DEF Follows, Stored, Answered
    <3>6. QED
      BY <1>2, <1>3, <3>2, <3>3, <3>5, GoOnKeeps
  <2>3. QED
    BY <2>1, <2>2
<1>5. CASE Paint(f, Plain("error"))
  BY <1>2, <1>3, <1>5, PlainKeeps
<1>6. QED
  BY <1>4, <1>5 DEF Exchanged

LEMMA MetKeeps ==
  ASSUME AppInv, NEW f \in Flows, Met(f)
  PROVE  AppInv'
<1> DEFINE r == flow[f].request
           a == flow[f].answer
<1>1. At(f, "me") /\ UNCHANGED Server
  BY DEF Met
<1>2. /\ PageStep
      /\ UNCHANGED <<launch, impatient, cookie, failures, strict, sessions>>
  BY <1>1, TypesAre DEF Server, PageStep
<1>3. /\ Active(f) /\ r.step = "me" /\ a \in Answer
      /\ RequestFits(r) /\ AnswerFits(r, a)
  BY <1>1, AtIs
<1>4. f \in Foreground
  BY <1>3, FlowsAre DEF AppInv, BootFits
<1>5. CASE /\ Status(f) = 200
           /\ Continue(f, Ask("usage", cookie, None, a.user))
  <2>1. r.cookie # None /\ a.user \in {sessions[r.cookie].user, None}
    BY <1>3, <1>5 DEF AnswerFits, Status
  <2>2. a.user \in Users \cup {None}
    BY <1>3 DEF Answer
  <2>3. PICK x : x = Ask("usage", cookie, None, a.user)
    OBVIOUS
  <2>4. /\ x \in Flow /\ RequestFits(x.request) /\ x.answer = None
        /\ x.request.step = "usage" /\ x.request.cookie = cookie
        /\ x.me = a.user
    BY <2>2, <2>3, TypesAre, AskUsage
  <2>5. Continue(f, x)
    BY <1>5, <2>3
  <2>6. flow'[f] = x /\ screen' = screen
    BY <2>5, TypesAre DEF Continue
  <2>7. ASSUME ~impatient PROVE Follows(f)'
    <3>1. Follows(f)
      BY <1>3, <1>4, <2>7 DEF AppInv, OneAtATime
    <3>2. screen.name = "booting" /\ (cookie = r.cookie \/ Overtaken)
      BY <1>3, <3>1 DEF Follows
    <3>3. cookie # None
      BY <2>1, <3>2 DEF Overtaken
    <3>4. \/ a.user \in {sessions[cookie].user, None}
          \/ strict /\ launch # None /\ sessions[cookie].by = launch
      BY <2>1, <3>2 DEF Overtaken
    <3>5. QED
      BY <1>2, <2>4, <2>6, <3>2, <3>3, <3>4 DEF Follows, Stored, Answered
  <2>8. QED
    BY <1>2, <1>3, <1>4, <2>4, <2>5, <2>7, GoOnKeeps
<1>6. CASE Paint(f, Plain("error"))
  BY <1>2, <1>3, <1>6, PlainKeeps
<1>7. QED
  BY <1>5, <1>6 DEF Met

LEMMA UsedKeeps ==
  ASSUME AppInv, NEW f \in Flows, Used(f)
  PROVE  AppInv'
<1> DEFINE r == flow[f].request
           a == flow[f].answer
           me == flow[f].me
<1>1. At(f, "usage") /\ UNCHANGED Server
  BY DEF Used
<1>2. /\ PageStep
      /\ UNCHANGED <<launch, impatient, cookie, failures, strict, sessions>>
  BY <1>1, TypesAre DEF Server, PageStep
<1>3. /\ Active(f) /\ r.step = "usage" /\ a \in Answer
      /\ RequestFits(r) /\ AnswerFits(r, a)
      /\ flow[f] \in Flow
  BY <1>1, AtIs
<1>4. f \in Foreground
  BY <1>3, FlowsAre DEF AppInv, BootFits
<1>5. CASE Paint(f, Plain("blank"))
  BY <1>2, <1>3, <1>5, PlainKeeps
<1>6. CASE me # None /\ Paint(f, Dashboard(me, a.user))
  <2>1. PICK shown : shown = Dashboard(me, a.user)
    OBVIOUS
  <2>2. /\ shown \in Screen /\ shown.name = "dashboard"
        /\ shown.me = me /\ shown.usage = a.user
    <3>1. me \in Users \cup {None} /\ a.user \in Users \cup {None}
      BY <1>3 DEF Flow, Answer
    <3>2. shown = [name |-> "dashboard", me |-> me, usage |-> a.user]
      BY <2>1 DEF Dashboard
    <3>3. QED
      BY <3>1, <3>2 DEF Screen
  <2>3. ASSUME screen' = shown
        PROVE  DashboardIsOfOne' /\ DashboardIsOfTheSession'
               /\ PersonaMeansSignedOut'
    <3>1. PersonaMeansSignedOut'
      BY <2>2, <2>3 DEF PersonaMeansSignedOut
    <3>2. SUFFICES ASSUME ~impatient
                   PROVE  DashboardIsOfOne' /\ DashboardIsOfTheSession'
      BY <1>2, <3>1 DEF DashboardIsOfOne, DashboardIsOfTheSession
    <3> DEFINE owner == sessions[cookie].user
               asked == sessions[r.cookie].user
    <3>3. Follows(f)
      BY <1>3, <1>4, <3>2 DEF AppInv, OneAtATime
    <3>4. /\ r.cookie \in DOMAIN sessions
          /\ cookie = r.cookie \/ Overtaken
          /\ \/ asked = me
             \/ strict /\ launch # None /\ sessions[r.cookie].by = launch
      BY <1>3, <1>6, <3>3 DEF Follows, RequestFits
    <3>5. cookie \in DOMAIN sessions
      BY <3>4, TypesAre DEF Overtaken
    <3>6. cookie # None
      BY <3>5, TypesAre, Apart
    <3>7. a.user \in {asked, None}
      BY <1>3 DEF AnswerFits
    <3>8. \A k \in DOMAIN sessions :
            launch # None /\ sessions[k].by = launch =>
              sessions[k].user = launch.user
      BY VouchedFor DEF AppInv, Vouched
    <3>9. DashboardIsOfOne'
      BY <1>2, <2>2, <2>3, <3>4, <3>7, <3>8 DEF DashboardIsOfOne
    <3>10. CASE me = owner
      <4>1. asked = owner
        BY <3>4, <3>5, <3>8, <3>10 DEF Overtaken
      <4>2. QED
        BY <1>2, <2>2, <2>3, <3>6, <3>7, <3>9, <3>10, <4>1
        DEF DashboardIsOfTheSession
    <3>11. CASE me # owner
      <4>1. strict /\ launch # None /\ sessions[cookie].by = launch
        BY <3>4, <3>11 DEF Overtaken
      <4>2. asked \in {me, owner}
        BY <3>4, <3>5, <3>8, <4>1
      <4>3. QED
        BY <1>2, <2>2, <2>3, <3>6, <3>7, <3>9, <3>11, <4>1, <4>2
        DEF DashboardIsOfTheSession
    <3>12. QED
      BY <3>10, <3>11
  <2>4. Paint(f, shown)
    BY <1>6, <2>1
  <2>5. QED
    BY <1>2, <1>3, <1>4, <2>2, <2>3, <2>4, ShowKeeps
<1>7. QED
  BY <1>5, <1>6 DEF Used

LEMMA LoggedOutKeeps ==
  ASSUME AppInv, NEW f \in Flows, LoggedOut(f)
  PROVE  AppInv'
<1> DEFINE r == flow[f].request
           a == flow[f].answer
<1>1. At(f, "logout") /\ UNCHANGED Server
  BY DEF LoggedOut
<1>2. /\ PageStep
      /\ UNCHANGED <<launch, impatient, cookie, failures>>
  BY <1>1, TypesAre DEF Server, PageStep
<1>3. /\ Active(f) /\ r.step = "logout" /\ AnswerFits(r, a)
      /\ a.setCookie # "no" => Stored(f)
  BY <1>1, AtIs
<1>4. f \in Foreground
  BY <1>3, FlowsAre DEF AppInv, BootFits
<1>5. CASE launch = None /\ Paint(f, Plain("persona"))
  <2>1. Plain("persona") \in Screen /\ Plain("persona").name = "persona"
    BY DEF Plain, Screen
  <2>2. screen' = Plain("persona") =>
          DashboardIsOfOne' /\ DashboardIsOfTheSession'
    BY <2>1 DEF DashboardIsOfOne, DashboardIsOfTheSession
  <2>3. PersonaMeansSignedOut'
    <3>1. SUFFICES ASSUME failures = 0, ~impatient PROVE ~SignedIn(cookie)'
      BY <1>2 DEF PersonaMeansSignedOut
    <3>2. Stored(f) /\ Follows(f)
      BY <1>3, <1>4, <3>1 DEF AppInv, OneAtATime, AnswerFits
    <3>3. cookie = None
      BY <1>3, <1>5, <3>2 DEF Follows, Overtaken
    <3>4. QED
      BY <1>2, <3>3 DEF SignedIn
  <2>4. QED
    BY <1>2, <1>3, <1>4, <1>5, <2>1, <2>2, <2>3, ShowKeeps
<1>6. CASE Load(cookie)
  <2>1. PICK k : k = cookie
    OBVIOUS
  <2>2. QED
    BY <1>2, <1>6, <2>1, LoadKeeps
<1>7. QED
  BY <1>5, <1>6 DEF LoggedOut

-----------------------------------------------------------------------------
(* Steps of the user *)

\* A button is clicked while no other function of the page runs.
LEMMA ClickKeeps ==
  ASSUME AppInv, PageStep, NEW f \in Clicks, flow[f] = None,
         NEW x \in Flow, flow' = [flow EXCEPT ![f] = x],
         RequestFits(x.request), x.answer = None,
         screen' \in Screen, impatient' \in BOOLEAN,
         UNCHANGED <<launch, cookie, orphans>>,
         ~impatient' => /\ \A g \in Foreground : ~Active(g)
                        /\ Follows(f)',
         (screen.name = "persona" => launch = None)',
         DashboardIsOfOne', DashboardIsOfTheSession', PersonaMeansSignedOut'
  PROVE  AppInv'
<1>1. f \in Flows /\ f # Cancelled /\ f # Boot /\ f \in Foreground
  BY FlowsAre, FlowsAssumption
<1>2. /\ flow' \in [Flows -> Flow \cup {None}]
      /\ flow'[f] = x
      /\ \A g \in Flows \ {f} : flow'[g] = flow[g]
  BY <1>1, TypesAre
<1>3. AppTypeOK'
  BY <1>2, PageIs, TypesKept DEF AppInv, AppTypeOK, PageStep
<1>4. ASSUME NEW g \in Flows PROVE FlowFits(g)'
  <2>1. CASE g = f /\ x # None
    BY <1>2, <2>1, SentFits DEF PageStep
  <2>2. CASE g = f /\ x = None
    BY <1>2, <2>2 DEF FlowFits, Active
  <2>3. CASE g # f
    BY <1>2, <2>3, PageIs
  <2>4. QED
    BY <2>1, <2>2, <2>3
<1>5. \A r \in orphans' : RequestFits(r)'
  BY PageIs DEF AppInv
<1>6. BootFits'
  BY <1>1, <1>2, FlowsAre DEF AppInv, BootFits, Active, PageStep
<1>7. OneAtATime'
  <2>1. ASSUME ~impatient', NEW g \in Foreground, Active(g)' PROVE g = f
    BY <1>2, <2>1, FlowsAre DEF Active
  <2>2. QED
    BY <2>1 DEF OneAtATime
<1>8. QED
  BY <1>3, <1>4, <1>5, <1>6, <1>7, PageIs DEF AppInv

LEMMA LoginPersonaKeeps ==
  ASSUME AppInv, NEW f \in Clicks, LoginPersona(f)
  PROVE  AppInv'
<1>1. /\ screen.name = "persona" /\ screen' = Plain("booting")
      /\ flow[f] = None
      /\ UNCHANGED <<strict, now, suspended, launch, cookie, sessions, orphans,
                     impatient, failures>>
  BY DEF LoginPersona, Click
<1>2. PICK u \in Users :
        flow' = [flow EXCEPT ![f] = Ask("exchange", cookie, u, None)]
  BY DEF LoginPersona, Click
<1>3. PICK x : x = Ask("exchange", cookie, u, None)
  OBVIOUS
<1>4. /\ x \in Flow /\ RequestFits(x.request) /\ x.answer = None
      /\ x.request.step = "exchange"
  BY <1>3, TypesAre, AskExchange
<1>5. PageStep
  BY <1>1, TypesAre DEF PageStep
<1>6. screen' \in Screen /\ screen'.name = "booting"
  BY <1>1 DEF Plain, Screen
<1>7. DashboardIsOfOne' /\ DashboardIsOfTheSession' /\ PersonaMeansSignedOut'
  BY <1>6
  DEF DashboardIsOfOne, DashboardIsOfTheSession, PersonaMeansSignedOut
<1>8. ASSUME ~impatient, NEW g \in Foreground PROVE ~Active(g)
  BY <1>1, <1>8 DEF AppInv, OneAtATime, Follows
<1>9. flow'[f] = x
  BY <1>2, <1>3, TypesAre, FlowsAre
<1>10. Follows(f)'
  BY <1>4, <1>6, <1>9 DEF Follows, Stored, Answered
<1>11. flow' = [flow EXCEPT ![f] = x]
  BY <1>2, <1>3
<1>12. impatient \in BOOLEAN
  BY DEF AppInv, AppTypeOK
<1>13. QED
  BY <1>1, <1>4, <1>5, <1>6, <1>7, <1>8, <1>10, <1>11, <1>12, ClickKeeps

LEMMA LogoutKeeps ==
  ASSUME AppInv, NEW f \in Clicks, Logout(f)
  PROVE  AppInv'
<1>1. /\ screen.name = "dashboard" /\ flow[f] = None
      /\ UNCHANGED <<strict, now, suspended, launch, cookie, sessions, screen,
                     orphans, failures>>
  BY DEF Logout, Click
<1>2. flow' = [flow EXCEPT ![f] = Ask("logout", cookie, None, None)]
  BY DEF Logout, Click
<1>3. impatient' = (impatient \/ \E g \in Clicks :
                     flow[g] # None /\ flow[g].request.step = "logout")
  BY DEF Logout
<1>4. PICK x : x = Ask("logout", cookie, None, None)
  OBVIOUS
<1>5. /\ x \in Flow /\ RequestFits(x.request) /\ x.answer = None
      /\ x.request.step = "logout"
  BY <1>4, TypesAre, AskLogout
<1>6. PageStep
  BY <1>1, TypesAre DEF PageStep
<1>7. impatient' \in BOOLEAN /\ (~impatient' => ~impatient)
  BY <1>3 DEF AppInv, AppTypeOK
<1>8. screen' \in Screen
  BY <1>1 DEF AppInv, AppTypeOK
<1>9. (screen.name = "persona" => launch = None)' /\ PersonaMeansSignedOut'
  BY <1>1 DEF PersonaMeansSignedOut
<1>10. DashboardIsOfOne' /\ DashboardIsOfTheSession'
  <2>1. \A g \in Clicks : flow[g] # None => flow'[g] = flow[g]
    BY <1>1, <1>2, TypesAre, FlowsAre
  <2>2. LoggedOff => LoggedOff'
    BY <2>1 DEF LoggedOff, Answered
  <2>3. QED
    BY <1>1, <1>7, <2>2 DEF AppInv, DashboardIsOfOne, DashboardIsOfTheSession
<1>11. ASSUME ~impatient', NEW g \in Foreground PROVE ~Active(g)
  <2>1. SUFFICES ASSUME Active(g) PROVE FALSE
    OBVIOUS
  <2>2. Follows(g)
    BY <1>7, <1>11, <2>1 DEF AppInv, OneAtATime
  <2>3. flow[g].request.step = "logout"
    BY <1>1, <2>2 DEF Follows
  <2>4. g \in Clicks
    BY <2>1, <2>3 DEF AppInv, BootFits, Foreground, Flows
  <2>5. QED
    BY <1>3, <1>11, <2>1, <2>3, <2>4 DEF Active
<1>12. flow' = [flow EXCEPT ![f] = x]
  BY <1>2, <1>4
<1>13. flow'[f] = x
  BY <1>12, TypesAre, FlowsAre
<1>14. Follows(f)'
  BY <1>1, <1>5, <1>13 DEF Follows, Stored, Answered
<1>15. QED
  BY <1>1, <1>5, <1>6, <1>7, <1>8, <1>9, <1>10, <1>11, <1>12, <1>14, ClickKeeps

LEMMA ReloadKeeps ==
  ASSUME AppInv, Reload
  PROVE  AppInv'
<1>1. /\ Load(cookie)
      /\ UNCHANGED <<strict, now, suspended, launch, cookie, sessions,
                     impatient, failures>>
  BY DEF Reload
<1>2. PageStep
  BY <1>1, TypesAre DEF PageStep
<1>3. PICK k : k = cookie
  OBVIOUS
<1>4. QED
  BY <1>1, <1>2, <1>3, LoadKeeps

LEMMA RelaunchKeeps ==
  ASSUME AppInv, Relaunch
  PROVE  AppInv'
<1>1. /\ Load(cookie) /\ launch' \in Launchable
      /\ UNCHANGED <<strict, now, suspended, cookie, sessions, impatient,
                     failures>>
  BY DEF Relaunch
<1>2. launch' \in LaunchData
  BY <1>1, LaunchableTyped DEF AppInv, AppTypeOK
<1>3. PageStep
  BY <1>1, <1>2, TypesAre DEF PageStep
<1>4. PICK k : k = cookie
  OBVIOUS
<1>5. QED
  BY <1>1, <1>3, <1>4, LoadKeeps

-----------------------------------------------------------------------------
(* The theorems *)

LEMMA AppInit ==
  ASSUME Init
  PROVE  AppInv
<1>1. /\ now = 2 /\ suspended \subseteq Suspendable /\ cookie = None
      /\ sessions = <<>> /\ screen = Plain("booting") /\ orphans = {}
      /\ impatient = FALSE /\ failures = 0
  BY DEF Init
<1>2. strict \in BOOLEAN /\ now \in 2 .. MaxTime
  BY <1>1, AppAssumption DEF Init
<1>3. launch \in LaunchData \cup {None}
  BY <1>2, LaunchableTyped DEF Init
<1>4. sessions \in Seq(Session) /\ DOMAIN sessions = {}
  BY <1>1
<1>5. screen \in Screen /\ screen.name = "booting"
  BY <1>1 DEF Plain, Screen
<1>6. PICK x : x = Ask("probe", None, None, None)
  OBVIOUS
<1>7. x = [request |-> [step |-> "probe", cookie |-> None, who |-> None],
           answer |-> None, me |-> None]
  BY <1>6 DEF Ask
<1>8. x.request = [step |-> "probe", cookie |-> None, who |-> None]
      /\ x.answer = None /\ x.me = None
  BY <1>7
<1>9. x.request \in Request
  BY <1>8 DEF Request, Steps
<1>10. x \in Flow /\ RequestFits(x.request) /\ x.request.step = "probe"
       /\ x.request.cookie = None
  <2>1. x \in Flow
    BY <1>7, <1>8, <1>9 DEF Flow
  <2>2. x.request.step = "probe" /\ x.request.cookie = None
    BY <1>8
  <2>3. QED
    BY <1>9, <2>1, <2>2 DEF RequestFits
<1>11. flow = [f \in Flows |-> IF f = Boot \/ (f = Cancelled /\ strict)
                               THEN x ELSE None]
  BY <1>6 DEF Init, Booting
<1>12. /\ flow \in [Flows -> Flow \cup {None}]
       /\ \A f \in Flows : flow[f] # None => flow[f] = x
       /\ \A f \in Foreground : flow[f] # None => f = Boot
       /\ flow[Cancelled] # None => strict
  BY <1>10, <1>11, FlowsAre
<1>13. AppTypeOK
  BY <1>1, <1>2, <1>3, <1>4, <1>5, <1>12 DEF AppTypeOK
<1>14. \A f \in Flows : FlowFits(f)
  BY <1>8, <1>10, <1>12 DEF FlowFits, Active
<1>15. BootFits
  BY <1>10, <1>12, FlowsAre DEF BootFits, Active
<1>16. OneAtATime
  <2>1. ASSUME NEW f \in Foreground, Active(f) PROVE Follows(f)
    <3>1. flow[f] = x
      BY <1>12, <2>1, FlowsAre DEF Active
    <3>2. QED
      BY <1>1, <1>5, <1>8, <1>10, <3>1 DEF Follows, Stored, Answered
  <2>2. QED
    BY <1>12, <2>1 DEF OneAtATime, Active
<1>17. /\ SessionsAreVouchedFor /\ DashboardIsOfOne /\ DashboardIsOfTheSession
       /\ PersonaMeansSignedOut
  BY <1>4, <1>5
  DEF SessionsAreVouchedFor, DashboardIsOfOne, DashboardIsOfTheSession,
      PersonaMeansSignedOut
<1>18. QED
  BY <1>1, <1>4, <1>5, <1>13, <1>14, <1>15, <1>16, <1>17 DEF AppInv

LEMMA ProceedKeeps ==
  ASSUME AppInv, NEW f \in Flows, Proceed(f)
  PROVE  AppInv'
BY ProbedKeeps, ExchangedKeeps, MetKeeps, UsedKeeps, LoggedOutKeeps DEF Proceed

LEMMA AppUnchanged ==
  ASSUME AppInv, UNCHANGED vars
  PROVE  AppInv'
<1>1. /\ UNCHANGED <<strict, now, suspended, launch, cookie, sessions, screen,
                     flow, orphans, impatient, failures>>
  BY DEF vars
<1>2. now' \in 2 .. MaxTime /\ sessions' \in Seq(Session) /\ Grows
      /\ SessionsAreVouchedFor'
  BY <1>1, TypesAre, NothingGrows, VouchedFor, VouchedForNext
  DEF AppInv, AppTypeOK
<1>3. QED
  BY <1>1, <1>2, ElsewhereKeeps

LEMMA AppNext ==
  ASSUME AppInv, [Next]_vars
  PROVE  AppInv'
<1>1. ASSUME NEW f \in Flows,
             Handle(f) \/ Store(f) \/ Break(f) \/ Proceed(f)
      PROVE  AppInv'
  BY <1>1, HandleKeeps, StoreKeeps, BreakKeeps, ProceedKeeps
<1>2. ASSUME NEW f \in Clicks, LoginPersona(f) \/ Logout(f) PROVE AppInv'
  BY <1>2, LoginPersonaKeeps, LogoutKeeps
<1>3. ASSUME NEW r \in orphans, HandleOrphan(r) PROVE AppInv'
  BY <1>3, HandleOrphanKeeps
<1>4. QED
  BY <1>1, <1>2, <1>3, ReloadKeeps, RelaunchKeeps, TickKeeps, AppUnchanged
  DEF Next

LEMMA AppInvariant == Spec => []AppInv
<1>1. Init => AppInv
  BY AppInit
<1>2. AppInv /\ [Next]_vars => AppInv'
  BY AppNext
<1>3. QED
  BY <1>1, <1>2, PTL DEF Spec

\* Every variable of the page, the browser and the API keeps its type; the
\* cookie is always that of a session that was opened.
THEOREM AppTypeCorrect == Spec => []AppTypeOK
<1>1. AppInv => AppTypeOK
  BY DEF AppInv
<1>2. QED
  BY <1>1, AppInvariant, PTL

\* A session opened with launch data is of the user a messenger signed it for,
\* and no older than the window of the data allows (telegram.ts:64-76).
THEOREM SessionsVouched == Spec => []SessionsAreVouchedFor
<1>1. AppInv => SessionsAreVouchedFor
  BY DEF AppInv
<1>2. QED
  BY <1>1, AppInvariant, PTL

\* The dashboard shows the account and the history of the one user the cookie
\* was given for, unless logout was clicked twice (App.tsx:44-58).
THEOREM DashboardIsOwn == Spec => []DashboardIsOfTheSession
<1>1. AppInv => DashboardIsOfTheSession
  BY DEF AppInv
<1>2. QED
  BY <1>1, AppInvariant, PTL

\* The persona screen means that the browser has no session that works, unless
\* a request failed or logout was clicked twice (App.tsx:72, 122).
THEOREM PersonaIsSignedOut == Spec => []PersonaMeansSignedOut
<1>1. AppInv => PersonaMeansSignedOut
  BY DEF AppInv
<1>2. QED
  BY <1>1, AppInvariant, PTL

\* A request that is handled late, even after its page is gone, revives no
\* session, prolongs none and gives none to another user: the table is inserted
\* into and deleted from, and never updated (postgres.ts:348-372).
THEOREM SessionsOnlyEnd ==
  Spec => [][\A k \in DOMAIN sessions :
               /\ k \in DOMAIN sessions'
               /\ sessions'[k].user = sessions[k].user
               /\ sessions'[k].by = sessions[k].by
               /\ sessions'[k].expires = sessions[k].expires
               /\ sessions[k].deleted => sessions'[k].deleted]_sessions
<1>1. ASSUME AppInv, [Next]_vars PROVE UNCHANGED sessions \/ Grows
  <2>1. ASSUME NEW f \in Flows, Handle(f) PROVE Grows
    <3>1. /\ Active(f) /\ sessions' = SessionsAfter(flow[f].request)
          /\ now' = now
      BY <2>1 DEF Handle, Unanswered, Active
    <3>2. RequestFits(flow[f].request)
      BY <1>1, <3>1 DEF AppInv, FlowFits
    <3>3. QED
      BY <1>1, <3>1, <3>2, TypesAre, SessionsGrow DEF AppInv
  <2>2. ASSUME NEW r \in orphans, HandleOrphan(r) PROVE Grows
    <3>1. sessions' = SessionsAfter(r) /\ now' = now
      BY <2>2 DEF HandleOrphan
    <3>2. RequestFits(r)
      BY <1>1 DEF AppInv
    <3>3. QED
      BY <1>1, <3>1, <3>2, TypesAre, SessionsGrow DEF AppInv
  <2>3. ASSUME NEW f \in Flows, Store(f) \/ Break(f) \/ Proceed(f)
        PROVE  UNCHANGED sessions
    BY <2>3 DEF Store, Break, Proceed, Probed, Exchanged, Met, Used, LoggedOut, Server
  <2>4. ASSUME NEW f \in Clicks, LoginPersona(f) \/ Logout(f)
        PROVE  UNCHANGED sessions
    BY <2>4 DEF LoginPersona, Logout
  <2>5. Reload \/ Relaunch \/ Tick \/ UNCHANGED vars => UNCHANGED sessions
    BY DEF Reload, Relaunch, Tick, vars
  <2>6. QED
    BY <1>1, <2>1, <2>2, <2>3, <2>4, <2>5 DEF Next
<1> DEFINE Ends(k) ==
             /\ k \in DOMAIN sessions'
             /\ sessions'[k].user = sessions[k].user
             /\ sessions'[k].by = sessions[k].by
             /\ sessions'[k].expires = sessions[k].expires
             /\ sessions[k].deleted => sessions'[k].deleted
<1>2. AppInv /\ [Next]_vars => [\A k \in DOMAIN sessions : Ends(k)]_sessions
  BY <1>1 DEF Grows
<1>3. QED
  BY <1>2, AppInvariant, PTL DEF Spec
=============================================================================
