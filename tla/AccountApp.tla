----------------------------- MODULE AccountApp -----------------------------
(***************************************************************************)
(* The account page (apps/account/src/App.tsx), the cookie of its browser, *)
(* and the routes it calls: GET /me and /me/usage, the two exchanges and   *)
(* DELETE /session.  A request carries the cookie of the moment it is      *)
(* sent, is handled later and answered later still; the browser stores the *)
(* cookie of an answer when its headers are there, and the page goes on    *)
(* when it is next run.  The exchange is one step, as AccountOpening has it. *)
(* A production build runs the boot effect once.  A development build runs *)
(* it, cleans it up at once and runs it again (StrictMode, main.tsx:9):    *)
(* the first run goes on with cancelled set.                               *)
(***************************************************************************)
EXTENDS InitData

CONSTANTS
  Boot,        \* the run of the boot effect
  Cancelled,   \* the run before it of a development build
  Clicks,      \* handlers of the page's buttons that may run at once, numbered
  Suspendable, \* users that may be suspended
  Skews,       \* how far a messenger's clock is from the server's
  SessionTtl,  \* config.sessionTtlSeconds
  MaxActs,     \* bound of the model on acts, of either build
  MaxTime, MaxLoads, MaxFailures   \* bounds of the model

Flows == {Boot, Cancelled} \cup Clicks

ASSUME FlowsAssumption ==
  /\ Clicks \subseteq Nat
  /\ Boot \notin Clicks /\ Cancelled \notin Clicks /\ Boot # Cancelled

\* The clock starts at 2, and a messenger's clock is never before 0.
ASSUME AppAssumption ==
  /\ Users # {}
  /\ SessionTtl \in Nat
  /\ MaxTime \in Nat \ {0, 1}
  /\ Skews \subseteq Int /\ \A s \in Skews : 2 + s >= 0
  /\ DOMAIN MaxActs \subseteq BOOLEAN

\* A persona is not launch data, and None is neither, nor an index.
ASSUME Apart ==
  /\ \A u \in Users : u \notin LaunchData
  /\ None \notin Nat /\ None \notin Users /\ None \notin LaunchData

VARIABLES
  strict,    \* a development build
  now,       \* the clock of the API
  suspended, \* users whose status is suspended
  launch,    \* host.initDataRaw; None in a browser
  cookie,    \* up_session: index of a session, or None
  sessions,  \* every session opened, deleted ones included
  screen,    \* what the page shows
  flow,      \* the asynchronous functions of the page
  orphans,   \* requests of pages that are gone, not handled yet
  impatient, \* history: a logout was clicked while another was under way
  failures,  \* counted against MaxFailures
  acts,      \* of the user, counted against MaxActs
  loads      \* among them, counted against MaxLoads

vars == <<strict, now, suspended, launch, cookie, sessions, screen, flow,
          orphans, impatient, failures, acts, loads>>

-----------------------------------------------------------------------------
Steps == {"probe", "exchange", "me", "usage", "logout"}

\* who: the launch data or the persona of an exchange
Request ==
  [step : Steps, cookie : Nat \cup {None},
   who : LaunchData \cup Users \cup {None}]

\* status 0: fetch itself failed.  setCookie: whether the answer sets the
\* cookie to token (None clears it), and whether the browser has stored it.
Answer ==
  [status : {0, 200, 204, 400, 401, 403, 500}, user : Users \cup {None},
   token : Nat \cup {None}, setCookie : {"no", "sent", "stored"}]

Flow ==
  [request : Request, answer : Answer \cup {None}, me : Users \cup {None}]

ASSUME NoneIsNoRecord == None \notin Answer \cup Flow

\* blank: rendering threw, and React has taken the page off.
Screen ==
  [name : {"booting", "persona", "dashboard", "error", "blank"},
   me : Users \cup {None}, usage : Users \cup {None}]

Plain(name) == [name |-> name, me |-> None, usage |-> None]

Dashboard(me, usage) == [name |-> "dashboard", me |-> me, usage |-> usage]

Reply(status) ==
  [status |-> status, user |-> None, token |-> None, setCookie |-> "no"]

Ask(step, k, who, me) ==
  [request |-> [step |-> step, cookie |-> k, who |-> who], answer |-> None,
   me |-> me]

Answered(f) == flow[f] # None /\ flow[f].answer # None

At(f, step) ==
  /\ Answered(f)
  /\ flow[f].request.step = step
  /\ flow[f].answer.setCookie # "sent"

Status(f) == flow[f].answer.status

-----------------------------------------------------------------------------
(* The server *)

\* resolveSessionUser: the user of a session that is there and not expired.
SignedIn(k) ==
  k # None /\ ~sessions[k].deleted /\ now < sessions[k].expires

ReadAnswer(k) ==
  IF ~SignedIn(k) THEN Reply(401)
  ELSE IF sessions[k].user \in suspended THEN Reply(403)
  ELSE [Reply(200) EXCEPT !.user = sessions[k].user]

\* by: the launch data it was opened with; None for a persona
NewSession(who) ==
  [user |-> IF who \in Users THEN who ELSE who.user,
   expires |-> now + SessionTtl, deleted |-> FALSE,
   by |-> IF who \in Users THEN None ELSE who]

ExchangeStatus(who) ==
  IF who \in Users THEN 200 ELSE StatusOf(Verdict(who, now))

AnswerTo(r) ==
  CASE r.step = "logout" -> [Reply(204) EXCEPT !.setCookie = "sent"]
    [] r.step \in {"probe", "me", "usage"} -> ReadAnswer(r.cookie)
    [] r.step = "exchange" /\ ExchangeStatus(r.who) # 200 ->
         Reply(ExchangeStatus(r.who))
    [] OTHER ->
         [Reply(200) EXCEPT !.token = Len(sessions) + 1, !.setCookie = "sent"]

\* MUTANT of SessionsAfter: the session is answered and not written.
SessionsUnwritten(r) ==
  IF r.step = "logout" /\ r.cookie # None
  THEN [sessions EXCEPT ![r.cookie].deleted = TRUE]
  ELSE sessions

\* DELETE /session asks for no valid session: what the cookie names is gone.
SessionsAfter(r) ==
  CASE r.step = "exchange" /\ ExchangeStatus(r.who) = 200 ->
         Append(sessions, NewSession(r.who))
    [] r.step = "logout" /\ r.cookie # None ->
         [sessions EXCEPT ![r.cookie].deleted = TRUE]
    [] OTHER -> sessions

Unanswered(f) == flow[f] # None /\ flow[f].answer = None

Handle(f) ==
  /\ Unanswered(f)
  /\ flow' = [flow EXCEPT ![f].answer = AnswerTo(flow[f].request)]
  /\ sessions' = SessionsAfter(flow[f].request)
  /\ UNCHANGED <<strict, now, suspended, launch, cookie, screen, orphans,
                 impatient, failures, acts, loads>>

\* The headers of the answer have come.
Store(f) ==
  /\ Answered(f) /\ flow[f].answer.setCookie = "sent"
  /\ cookie' = flow[f].answer.token
  /\ flow' = [flow EXCEPT ![f].answer.setCookie = "stored"]
  /\ UNCHANGED <<strict, now, suspended, launch, sessions, screen, orphans,
                 impatient, failures, acts, loads>>

\* The request or its answer is lost, or the handler fails before its write, or
\* what was read is lost behind the headers, and the page is given {} for it.
Break(f) ==
  /\ failures < MaxFailures
  /\ failures' = failures + 1
  /\ \/ /\ Unanswered(f)
        /\ \E status \in {0, 500} :
             flow' = [flow EXCEPT ![f].answer = Reply(status)]
     \/ /\ Answered(f) /\ Status(f) # 0
        /\ flow[f].answer.setCookie # "stored"
        /\ flow' = [flow EXCEPT ![f].answer = Reply(0)]
     \/ /\ Answered(f) /\ flow[f].answer.user # None
        /\ flow' = [flow EXCEPT ![f].answer = Reply(200)]
  /\ UNCHANGED <<strict, now, suspended, launch, cookie, sessions, screen,
                 orphans, impatient, acts, loads>>

\* A request whose page is gone is handled all the same, some time or never.
HandleOrphan(r) ==
  /\ orphans' = orphans \ {r}
  /\ sessions' = SessionsAfter(r)
  /\ UNCHANGED <<strict, now, suspended, launch, cookie, screen, flow,
                 impatient, failures, acts, loads>>

-----------------------------------------------------------------------------
(* The page *)

\* The runs of the boot effect ask who the browser's session is of.
Booting(k) ==
  [f \in Flows |-> IF f = Boot \/ (f = Cancelled /\ strict)
                   THEN Ask("probe", k, None, None) ELSE None]

\* The page is loaded again: its functions and their answers are dropped.
Load(k) ==
  /\ orphans' = orphans \cup
       {flow[f].request : f \in {g \in Flows :
          Unanswered(g) /\ flow[g].request.step \in {"exchange", "logout"}}}
  /\ flow' = Booting(k)
  /\ screen' = Plain("booting")

\* MUTANT of Paint: cancelled is not asked.
PaintCancelled(f, shown) ==
  /\ screen' = shown
  /\ flow' = [flow EXCEPT ![f] = None]
  /\ UNCHANGED orphans

\* setScreen, the last thing f does; a cancelled run does without, and for a
\* page that is taken off it does nothing.
Paint(f, shown) ==
  /\ screen' = IF f = Cancelled \/ screen.name = "blank" THEN screen ELSE shown
  /\ flow' = [flow EXCEPT ![f] = None]
  /\ UNCHANGED orphans

\* f sends the next request, cancelled or not.
Continue(f, next) ==
  /\ flow' = [flow EXCEPT ![f] = next]
  /\ UNCHANGED <<screen, orphans>>

\* f goes on unless it is cancelled.
GoOn(f, next) == Continue(f, IF f = Cancelled THEN None ELSE next)

Server == <<strict, now, suspended, launch, cookie, sessions, impatient,
            failures, acts, loads>>

\* No answer at all is taken for a 401.
Probed(f) ==
  /\ At(f, "probe")
  /\ UNCHANGED Server
  /\ \/ /\ Status(f) = 200
        /\ GoOn(f, Ask("usage", cookie, None, flow[f].answer.user))
     \/ /\ Status(f) \in {403, 500}
        /\ Paint(f, Plain("error"))
     \/ /\ Status(f) \in {0, 401} /\ launch = None
        /\ Paint(f, Plain("persona"))
     \/ /\ Status(f) \in {0, 401} /\ launch # None
        /\ Continue(f, Ask("exchange", cookie, launch, None))

Exchanged(f) ==
  /\ At(f, "exchange")
  /\ UNCHANGED Server
  /\ \/ /\ Status(f) = 200
        /\ GoOn(f, Ask("me", cookie, None, None))
     \/ /\ Status(f) # 200
        /\ Paint(f, Plain("error"))

\* MUTANT of Met: the failure is not caught.
MetUncaught(f) ==
  /\ At(f, "me")
  /\ UNCHANGED Server
  /\ Continue(f, IF Status(f) = 200
                  THEN Ask("usage", cookie, None, flow[f].answer.user)
                  ELSE None)

Met(f) ==
  /\ At(f, "me")
  /\ UNCHANGED Server
  /\ \/ /\ Status(f) = 200
        /\ Continue(f, Ask("usage", cookie, None, flow[f].answer.user))
     \/ /\ Status(f) # 200
        /\ Paint(f, Plain("error"))

\* A failure leaves the history empty; an account or a history {} throws.
Used(f) ==
  LET me == flow[f].me
      usage == flow[f].answer.user
      renders == me # None /\ (Status(f) = 200 => usage # None)
  IN  /\ At(f, "usage")
      /\ UNCHANGED Server
      /\ \/ renders /\ Paint(f, Dashboard(me, usage))
         \/ ~renders /\ Paint(f, Plain("blank"))

\* MUTANT of LoggedOut: inside a messenger the page is not loaded again.
LoggedOutInPlace(f) ==
  /\ At(f, "logout")
  /\ UNCHANGED Server
  /\ Paint(f, IF launch = None THEN Plain("persona") ELSE screen)

\* Whatever the answer: the persona screen, or the page again.
LoggedOut(f) ==
  /\ At(f, "logout")
  /\ UNCHANGED Server
  /\ \/ launch = None /\ Paint(f, Plain("persona"))
     \/ launch # None /\ Load(cookie)

Proceed(f) ==
  Probed(f) \/ Exchanged(f) \/ Met(f) \/ Used(f) \/ LoggedOut(f)

-----------------------------------------------------------------------------
(* The user *)

Act == acts < MaxActs[strict] /\ acts' = acts + 1

ActOfLoading == Act /\ loads < MaxLoads /\ loads' = loads + 1

\* Handlers are alike: the first that is free takes the click.
Click(f, request) ==
  /\ flow[f] = None /\ \A g \in Clicks : g < f => flow[g] # None
  /\ Act
  /\ flow' = [flow EXCEPT ![f] = request]

LoginPersona(f) ==
  /\ screen.name = "persona"
  /\ \E u \in Users : Click(f, Ask("exchange", cookie, u, None))
  /\ screen' = Plain("booting")
  /\ UNCHANGED <<strict, now, suspended, launch, cookie, sessions, orphans,
                 impatient, failures, loads>>

Logout(f) ==
  /\ screen.name = "dashboard"
  /\ Click(f, Ask("logout", cookie, None, None))
  /\ impatient' = (impatient \/ \E g \in Clicks :
                     flow[g] # None /\ flow[g].request.step = "logout")
  /\ UNCHANGED <<strict, now, suspended, launch, cookie, sessions, screen,
                 orphans, failures, loads>>

\* The retry button, or the browser's own.
Reload ==
  /\ ActOfLoading
  /\ Load(cookie)
  /\ UNCHANGED <<strict, now, suspended, launch, cookie, sessions, impatient,
                 failures>>

\* What a messenger may start the page with: data of one of its users, signed
\* now by its clock; of no user; for another bot; from a chat of a new kind; or
\* what is left of it after a redirect.
Launchable ==
  LET signed(p, u, t) ==
        [provider |-> p, empty |-> FALSE, duplicate |-> FALSE, parsed |-> TRUE,
         hash |-> TRUE, signed |-> TRUE, authDate |-> t, user |-> u,
         chat |-> "absent"]
      one == signed("max", CHOOSE u \in Users : TRUE, now)
  IN  {signed(p, u, now + s) : p \in Providers, u \in Users, s \in Skews} \cup
      {[one EXCEPT !.user = "absent"], [one EXCEPT !.signed = FALSE],
       [one EXCEPT !.chat = "unknown"], [one EXCEPT !.hash = FALSE],
       [one EXCEPT !.duplicate = TRUE], [one EXCEPT !.authDate = 0]}

\* The page is closed and opened from the messenger, maybe by another user.
Relaunch ==
  /\ launch # None
  /\ ActOfLoading
  /\ launch' \in {d \in Launchable : d.provider = launch.provider}
  /\ Load(cookie)
  /\ UNCHANGED <<strict, now, suspended, cookie, sessions, impatient,
                 failures>>

Tick ==
  /\ now < MaxTime
  /\ now' = now + 1
  /\ UNCHANGED <<strict, suspended, launch, cookie, sessions, screen, flow,
                 orphans, impatient, failures, acts, loads>>

Init ==
  /\ strict \in DOMAIN MaxActs
  /\ now = 2
  /\ suspended \in SUBSET Suspendable
  /\ launch \in Launchable \cup {None}
  /\ cookie = None
  /\ sessions = <<>>
  /\ screen = Plain("booting")
  /\ flow = Booting(None)
  /\ orphans = {}
  /\ impatient = FALSE
  /\ failures = 0
  /\ acts = 0 /\ loads = 0

Next ==
  \/ \E f \in Flows : Handle(f) \/ Store(f) \/ Break(f) \/ Proceed(f)
  \/ \E f \in Clicks : LoginPersona(f) \/ Logout(f)
  \/ \E r \in orphans : HandleOrphan(r)
  \/ Reload
  \/ Relaunch
  \/ Tick

\* Every fetch is settled, and the page goes on when it is.  No property needs
\* the cancelled run to go on.
Fairness ==
  \A f \in Flows \ {Cancelled} : WF_vars(Handle(f) \/ Store(f) \/ Proceed(f))

Spec == Init /\ [][Next]_vars /\ Fairness

-----------------------------------------------------------------------------
AppTypeOK ==
  /\ strict \in BOOLEAN
  /\ now \in 2..MaxTime
  /\ suspended \subseteq Suspendable
  /\ launch \in LaunchData \cup {None}
  /\ cookie \in DOMAIN sessions \cup {None}
  /\ \A k \in DOMAIN sessions : sessions[k] \in
       [user : Users, expires : Nat, deleted : BOOLEAN,
        by : LaunchData \cup {None}]
  /\ screen \in Screen
  /\ flow \in [Flows -> Flow \cup {None}]
  /\ orphans \subseteq Request
  /\ impatient \in BOOLEAN

\* A session was opened for the user a messenger vouched for, with its own
\* signature, unambiguously, and inside the window of the data: it never lives
\* longer than MaxAge + SessionTtl after the messenger signed
\* (telegram.ts:64-76, sessions.ts:19-21).
SessionsAreVouchedFor ==
  \A k \in DOMAIN sessions :
    LET d == sessions[k].by
        opened == sessions[k].expires - SessionTtl
    IN  d # None =>
          /\ d.user = sessions[k].user
          /\ d.signed /\ ~d.duplicate
          /\ opened - d.authDate <= MaxAge
          /\ d.authDate - opened <= FutureTolerance[d.provider]

\* The browser has stored that it is logged out; the page is about to go on.
LoggedOff ==
  \E f \in Clicks : /\ Answered(f) /\ flow[f].request.step = "logout"
                    /\ flow[f].answer.setCookie = "stored"

\* Account and history on the dashboard are of one user, the one the browser's
\* cookie was given for, whatever effects, logins and reloads overlapped, and
\* the cookie is gone only when the page is about to go too.  A second click on
\* logout breaks it: see the README.  In a development build the cancelled run
\* may log in, meanwhile, the user the page was opened by.
DashboardIsOfTheSession ==
  screen.name = "dashboard" /\ ~impatient =>
    IF cookie = None
    THEN LoggedOff /\ (screen.usage \in {screen.me, None} \/ strict)
    ELSE LET owner == sessions[cookie].user
         IN  \/ screen.me = owner /\ screen.usage \in {owner, None}
             \/ /\ strict /\ sessions[cookie].by = launch /\ screen.me # owner
                /\ screen.usage \in {screen.me, owner, None}

\* The screen that offers to log in is shown to a browser that has no session,
\* unless a request failed (App.tsx:72, 122).
PersonaMeansSignedOut ==
  screen.name = "persona" /\ failures = 0 /\ ~impatient => ~SignedIn(cookie)

\* The page leaves its spinner, whatever fails.
BootingEnds == screen.name = "booting" ~> screen.name # "booting"
=============================================================================
