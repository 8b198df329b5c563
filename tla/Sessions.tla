------------------------------ MODULE Sessions ------------------------------
(***************************************************************************)
(* Logging in to the dashboard with Discord, and out.  The API keeps its   *)
(* sessions in the browser's cookie (cookie_store): a request carries the  *)
(* session as the cookie has it when the request leaves, the API changes   *)
(* that copy, and the answer replaces the cookie.  All tabs share it.      *)
(*                                                                         *)
(* The API keeps nothing itself, so what it makes of a request is told in  *)
(* one action with the arrival of its answer.  An answer that leaves the   *)
(* session as it was may or may not set the cookie again.                  *)
(***************************************************************************)
EXTENDS Naturals

CONSTANTS
    Tabs,
    Pages,      \* the dashboard's pages, as RedirectTargetResolver resolves them
    Home,       \* /guilds
    Foreign,    \* an origin that is not under DASHBOARD_URL
    Users,      \* Discord accounts
    None,
    MaxRandom,  \* OAuth states and CSRF secrets issued
    MaxFaults   \* refusals of Discord, incomplete payloads, broken connections

ASSUME HomeAssumption  == Home \in Pages /\ Foreign \notin Pages
ASSUME NoneAssumption  == None \notin Pages \cup Users \cup Nat \cup {Foreign}
ASSUME BoundAssumption == MaxRandom \in Nat /\ MaxFaults \in Nat

Randoms == 1..MaxRandom
Maybe(S) == S \cup {None}

\* The OAuth token Discord gives for a login, and whose it is.
Token == [login : Randoms, user : Users]

ASSUME TokenAssumption == None \notin Token

Session == [secret : Maybe(Randoms),  \* _csrf_token
            state  : Maybe(Randoms),  \* discord_oauth_state
            target : Maybe(Pages),    \* dashboard_redirect_target
            token  : Maybe(Token),    \* discord_access_token
            user   : Maybe(Users)]    \* discord_user

NoSession == [secret |-> None, state |-> None, target |-> None, token |-> None, user |-> None]

\* A tab: where it is, the page it shows or will return to, the login form's
\* token, the OAuth state in Discord's address, the login that brought it here.
Tab == [at : {"blank", "login", "discord", "app", "refused"}, page : Pages \cup {Foreign},
        token : Maybe(Randoms), state : Maybe(Randoms), login : Maybe(Randoms)]

\* A request on its way: the session it carries and what Discord sent along.
Request == [kind : {"csrf", "start", "callback", "show", "destroy"},
            session : Session, user : Maybe(Users)]

VARIABLES
    jar,      \* the cookie: the session it holds
    tab,
    sent,     \* each tab's request, if one is on its way
    issued,   \* how many random values the API has issued
    started,  \* ghost: the page each login was started from
    faults

vars == <<jar, tab, sent, issued, started, faults>>

------------------------------------------------------------------------------
\* The browser.
Send(t, kind, user) ==
    /\ sent[t] = None
    /\ sent' = [sent EXCEPT ![t] = [kind |-> kind, session |-> jar, user |-> user]]

Blank(at, page) == [at |-> at, page |-> page, token |-> None, state |-> None, login |-> None]

\* requireSession: a page of the dashboard asks for the session first.
Visit(t, p) ==
    /\ Send(t, "show", None)
    /\ tab' = [tab EXCEPT ![t] = Blank("blank", p)]
    /\ UNCHANGED <<jar, issued, started, faults>>

\* LoginPage asks for its form's token as it mounts.
OpenLogin(t, p) ==
    /\ Send(t, "csrf", None)
    /\ tab' = [tab EXCEPT ![t] = Blank("login", p)]
    /\ UNCHANGED <<jar, issued, started, faults>>

\* The button is disabled until the token is there.
Submit(t) ==
    /\ tab[t].at = "login" /\ tab[t].token # None
    /\ Send(t, "start", None)
    /\ UNCHANGED <<jar, tab, issued, started, faults>>

\* Discord sends the browser back, with a code for an account or an error.
Return(t, u) ==
    /\ tab[t].at = "discord"
    /\ Send(t, "callback", u)
    /\ UNCHANGED <<jar, tab, issued, started, faults>>

\* handleLogout
Logout(t) ==
    /\ tab[t].at = "app"
    /\ Send(t, "destroy", None)
    /\ UNCHANGED <<jar, tab, issued, started, faults>>

------------------------------------------------------------------------------
\* The API.
Due(t, kind) == sent[t] # None /\ sent[t].kind = kind

\* The answer carries session s, and leaves the tab at to.
Answer(t, s, to) ==
    /\ jar' \in IF s = sent[t].session THEN {jar, s} ELSE {s}
    /\ sent' = [sent EXCEPT ![t] = None]
    /\ tab' = [tab EXCEPT ![t] = to]

Carried(t) == sent[t].session
Fresh      == issued + 1

\* form_authenticity_token: the session's secret, made when there is none.
Csrf(t) ==
    /\ Due(t, "csrf")
    /\ LET s == Carried(t)
           secret == IF s.secret = None THEN Fresh ELSE s.secret IN
       /\ secret \in Randoms
       /\ issued' = IF s.secret = None THEN Fresh ELSE issued
       /\ Answer(t, [s EXCEPT !.secret = secret], [tab[t] EXCEPT !.token = secret])
    /\ UNCHANGED <<started, faults>>

\* protect_from_forgery with: :exception
Verified(t, token) == token # None /\ token = Carried(t).secret

\* A form whose session is gone meanwhile: InvalidAuthenticityToken.
Refuse(t) ==
    /\ Due(t, "start")
    /\ ~Verified(t, tab[t].token)
    /\ Answer(t, Carried(t), Blank("refused", tab[t].page))
    /\ UNCHANGED <<issued, started, faults>>

\* MUTANT of Resolve: any origin is returned to.
ResolveAny(o) == o
\* RedirectTargetResolver.call
Resolve(o) == IF o \in Pages THEN o ELSE Home

\* MUTANT of Starting: a target that is there is kept.
StartingOnce(s, n, o) == [s EXCEPT !.state = n, !.target = IF @ = None THEN Resolve(o) ELSE @]
Starting(s, n, o)     == [s EXCEPT !.state = n, !.target = Resolve(o)]

\* SessionsController#start
Start(t) ==
    /\ Due(t, "start")
    /\ Verified(t, tab[t].token)
    /\ Fresh \in Randoms
    /\ issued' = Fresh
    /\ started' = [started EXCEPT ![Fresh] = tab[t].page]
    /\ Answer(t, Starting(Carried(t), Fresh, tab[t].page),
              [Blank("discord", tab[t].page) EXCEPT !.state = Fresh])
    /\ UNCHANGED faults

\* expected_state = session.delete(:discord_oauth_state)
Expected(t) ==
    /\ sent[t].user # None
    /\ Carried(t).state # None
    /\ tab[t].state = Carried(t).state

LoggedIn(s, token, user) ==
    [s EXCEPT !.state = None, !.target = None, !.token = token, !.user = user]

\* SessionsController#create, and success_redirect.
Create(t) ==
    /\ Due(t, "callback")
    /\ Expected(t)
    /\ LET s == Carried(t)  u == sent[t].user IN
       Answer(t, LoggedIn(s, [login |-> s.state, user |-> u], u),
              [Blank("app", s.target) EXCEPT !.login = s.state])
    /\ UNCHANGED <<issued, started, faults>>

\* MUTANT of Failed: the failure is reported, the session kept.
FailedInPart(s) == s
\* failure_redirect: reset_session
Failed(s) == NoSession

\* SessionPayloadBuilder raises on a user without a name: the token is in the
\* session by then, its user is not.
HalfWay(s, token) == [s EXCEPT !.token = token]

\* An error or the wrong state, no token, or no user.
CreateFails(t) ==
    /\ Due(t, "callback")
    /\ IF Expected(t) THEN faults < MaxFaults /\ faults' = faults + 1 ELSE UNCHANGED faults
    /\ LET s == [Carried(t) EXCEPT !.state = None]
           token == [login |-> Carried(t).state, user |-> sent[t].user] IN
       \/ Answer(t, Failed(s), Blank("login", Home))
       \/ /\ Expected(t)
          /\ Answer(t, Failed(HalfWay(s, token)), Blank("login", Home))
    /\ UNCHANGED <<issued, started>>

\* What is not rescued, a connection to Discord that breaks: the answer is an
\* error without a cookie.
CreateRaises(t) ==
    /\ Due(t, "callback")
    /\ Expected(t)
    /\ faults < MaxFaults /\ faults' = faults + 1
    /\ jar' = jar
    /\ Answer(t, Carried(t), Blank("refused", tab[t].page))
    /\ UNCHANGED <<issued, started>>

\* SessionsController#show, and where requireSession goes from there.
Show(t) ==
    /\ Due(t, "show")
    /\ Answer(t, Carried(t),
              Blank(IF Carried(t).user = None THEN "login" ELSE "app", tab[t].page))
    /\ UNCHANGED <<issued, started, faults>>

\* The request of handleLogout carries no X-CSRF-Token.
LogoutToken == None

\* SessionsController#destroy; the page goes to /login whatever the answer.
Destroy(t) ==
    /\ Due(t, "destroy")
    /\ Answer(t, IF Verified(t, LogoutToken) THEN NoSession ELSE Carried(t),
              Blank("login", Home))
    /\ UNCHANGED <<issued, started, faults>>

------------------------------------------------------------------------------
Init ==
    /\ jar = NoSession
    /\ tab = [t \in Tabs |-> Blank("blank", Home)]
    /\ sent = [t \in Tabs |-> None]
    /\ issued = 0
    /\ started = [n \in Randoms |-> None]
    /\ faults = 0

Browse(t) ==
    \/ \E p \in Pages \cup {Foreign} : OpenLogin(t, p)
    \/ \E p \in Pages : Visit(t, p)
    \/ \E u \in Maybe(Users) : Return(t, u)
    \/ Submit(t) \/ Logout(t)

Serve(t) ==
    \/ Csrf(t) \/ Start(t) \/ Refuse(t) \/ Show(t) \/ Destroy(t)
    \/ Create(t) \/ CreateFails(t) \/ CreateRaises(t)

Next == \E t \in Tabs : Browse(t) \/ Serve(t)

Spec == Init /\ [][Next]_vars

------------------------------------------------------------------------------
(***************************************************************************)
(* Properties.                                                             *)
(***************************************************************************)

\* Every variable has its type.
TypeOK ==
    /\ jar \in Session
    /\ tab \in [Tabs -> Tab]
    /\ sent \in [Tabs -> Maybe(Request)]
    /\ issued \in 0..MaxRandom
    /\ started \in [Randoms -> Maybe(Pages \cup {Foreign})]
    /\ faults \in 0..MaxFaults

\* Every copy of the session there is.
Sessions == {jar} \cup {sent[t].session : t \in {x \in Tabs : sent[x] # None}}

\* A login that succeeds leads to the page it was started from, if that is one
\* of the dashboard's, whichever tabs start and end other logins meanwhile and
\* in whatever order their answers replace the cookie.
ReturnsWhereItStarted ==
    \A t \in Tabs : tab[t].login # None =>
        tab[t].page = IF started[tab[t].login] = Foreign THEN Home ELSE started[tab[t].login]

\* A session has an account and a token for it, or neither: a login that fails
\* half-way, over another one or not, leaves nothing of either.
WholeOrNothing ==
    \A s \in Sessions : s.user = IF s.token = None THEN None ELSE s.token.user

\* Logging out ends the session: the cookie that comes back with the answer
\* holds no account.
LogoutEndsTheSession ==
    [][\A t \in Tabs :
        sent[t] # None /\ sent'[t] = None /\ sent[t].kind = "destroy" => jar'.user = None]_vars
------------------------------------------------------------------------------
(***************************************************************************)
(* The inductive invariant behind the two.                                 *)
(***************************************************************************)

\* A session with an OAuth state has the target of the login it belongs to:
\* the two are set together, in whichever copy.
Paired(s) ==
    s.state # None =>
        /\ s.state <= issued
        /\ started[s.state] # None
        /\ s.target = Resolve(started[s.state])

LoginsInStep ==
    /\ \A s \in Sessions : Paired(s)
    /\ \A t \in Tabs : tab[t].login # None => tab[t].login <= issued

SessionsInv == ReturnsWhereItStarted /\ WholeOrNothing /\ LoginsInStep
==============================================================================
