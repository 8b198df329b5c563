--------------------------- MODULE Sessions_proofs ---------------------------
(***************************************************************************)
(* Proofs about Sessions, for any number of tabs, pages, accounts and      *)
(* logins: a login returns to the page it was started from, and a session  *)
(* is of one login or of none.                                             *)
(***************************************************************************)
EXTENDS Sessions, TLAPS

LEMMA TypesInitially == Init => TypeOK
<1> SUFFICES ASSUME Init
             PROVE  TypeOK
  OBVIOUS
<1>1. issued \in 0..MaxRandom /\ faults \in 0..MaxFaults
  BY BoundAssumption DEF Init
<1>2. jar \in Session
  BY DEF Init, NoSession, Session, Maybe
<1>3. tab \in [Tabs -> Tab]
  BY HomeAssumption DEF Init, Blank, Tab, Maybe
<1>. QED BY <1>1, <1>2, <1>3 DEF Init, TypeOK, Maybe

\* Sending a request and moving to a page of the browser keep the types.
LEMMA BrowsingKeepsTypes ==
    ASSUME TypeOK, NEW t \in Tabs, Browse(t)
    PROVE  TypeOK'
<1> USE DEF TypeOK
<1>1. ASSUME NEW kind \in {"csrf", "start", "callback", "show", "destroy"},
             NEW u \in Maybe(Users), Send(t, kind, u)
      PROVE  sent' \in [Tabs -> Maybe(Request)]
  <2>1. [kind |-> kind, session |-> jar, user |-> u] \in Request
    BY DEF Request
  <2>. QED BY <1>1, <2>1 DEF Send, Maybe
<1>2. None \in Maybe(Users)
  BY DEF Maybe
<1>3. ASSUME NEW at \in {"blank", "login"}, NEW p \in Pages \cup {Foreign}
      PROVE  Blank(at, p) \in Tab
  BY DEF Blank, Tab, Maybe
<1>4. ASSUME NEW p \in Pages \cup {Foreign}, OpenLogin(t, p) PROVE TypeOK'
  BY <1>1, <1>2, <1>3, <1>4 DEF OpenLogin
<1>5. ASSUME NEW p \in Pages, Visit(t, p) PROVE TypeOK'
  BY <1>1, <1>2, <1>3, <1>5 DEF Visit
<1>6. ASSUME NEW u \in Maybe(Users), Return(t, u) PROVE TypeOK'
  BY <1>1, <1>6 DEF Return
<1>7. CASE Submit(t)
  BY <1>1, <1>2, <1>7 DEF Submit
<1>8. CASE Logout(t)
  BY <1>1, <1>2, <1>8 DEF Logout
<1>. QED BY <1>4, <1>5, <1>6, <1>7, <1>8 DEF Browse

\* An answer puts a session into the jar that is there or is the answer's.
LEMMA AnswerKeepsTypes ==
    ASSUME TypeOK, NEW t \in Tabs, NEW s \in Session, NEW to \in Tab, Answer(t, s, to)
    PROVE  /\ jar' \in Session /\ jar' \in {jar, s}
           /\ tab' \in [Tabs -> Tab]
           /\ sent' \in [Tabs -> Maybe(Request)]
BY DEF TypeOK, Answer, Maybe

\* The target a callback returns to is there because its state is.
LEMMA ServingKeepsTypes ==
    ASSUME TypeOK, LoginsInStep, NEW t \in Tabs, Serve(t)
    PROVE  TypeOK'
<1> USE DEF TypeOK
<1>1. sent[t] \in Request /\ Carried(t) \in Session
  BY DEF Serve, Csrf, Start, Refuse, Create, CreateFails, CreateRaises, Show, Destroy,
         Due, Carried,
         Maybe, Request
<1>2. tab[t] \in Tab /\ tab[t].page \in Pages \cup {Foreign}
  BY DEF Tab
<1>3. MaxRandom \in Nat /\ MaxFaults \in Nat
  BY BoundAssumption
<1>4. ASSUME NEW at \in {"login", "app", "refused", "discord"}, NEW p \in Pages \cup {Foreign}
      PROVE  Blank(at, p) \in Tab
  BY DEF Blank, Tab, Maybe
<1>5. CASE Csrf(t)
  <2> DEFINE secret == IF Carried(t).secret = None THEN Fresh ELSE Carried(t).secret
  <2>1. secret \in Randoms /\ issued' \in 0..MaxRandom /\ UNCHANGED <<started, faults>>
    BY <1>1, <1>3, <1>5 DEF Csrf, Fresh, Randoms
  <2>2. [Carried(t) EXCEPT !.secret = secret] \in Session
    BY <1>1, <2>1 DEF Session, Maybe
  <2>3. [tab[t] EXCEPT !.token = secret] \in Tab
    BY <1>2, <2>1 DEF Tab, Maybe
  <2>4. Answer(t, [Carried(t) EXCEPT !.secret = secret], [tab[t] EXCEPT !.token = secret])
    BY <1>5 DEF Csrf
  <2> HIDE DEF secret
  <2>. QED BY <2>1, <2>2, <2>3, <2>4, AnswerKeepsTypes
<1>6. CASE Start(t)
  <2> DEFINE s  == Starting(Carried(t), Fresh, tab[t].page)
             to == [Blank("discord", tab[t].page) EXCEPT !.state = Fresh]
  <2>1. /\ Fresh \in Randoms /\ issued' \in 0..MaxRandom /\ UNCHANGED faults
        /\ started' \in [Randoms -> Maybe(Pages \cup {Foreign})]
    BY <1>2, <1>3, <1>6 DEF Start, Fresh, Randoms, Maybe
  <2>2. s \in Session
    BY <1>1, <1>2, <2>1, HomeAssumption DEF Starting, Resolve, Session, Maybe
  <2>3. to \in Tab
    BY <1>2, <2>1 DEF Blank, Tab, Maybe
  <2>4. Answer(t, s, to)
    BY <1>6 DEF Start
  <2> HIDE DEF s, to
  <2>. QED BY <2>1, <2>2, <2>3, <2>4, AnswerKeepsTypes
<1>7. CASE Refuse(t)
  BY <1>1, <1>2, <1>4, <1>7, AnswerKeepsTypes DEF Refuse
<1>8. CASE Create(t)
  <2> DEFINE u  == sent[t].user
             token == [login |-> Carried(t).state, user |-> u]
             s  == LoggedIn(Carried(t), token, u)
             to == [Blank("app", Carried(t).target) EXCEPT !.login = Carried(t).state]
  <2>1. u \in Users /\ Carried(t).state \in Randoms
    BY <1>1, <1>8 DEF Create, Expected, Request, Session, Maybe
  <2>2. s \in Session
    BY <1>1, <2>1 DEF LoggedIn, Session, Token, Maybe
  <2>3. Carried(t).target \in Pages
    <3>1. Carried(t).state # None /\ Carried(t) \in Sessions
      BY <1>8 DEF Create, Expected, Due, Carried, Sessions
    <3>. QED BY <3>1, HomeAssumption DEF LoginsInStep, Paired, Resolve
  <2>4. to \in Tab
    BY <2>1, <2>3 DEF Blank, Tab, Maybe
  <2>5. Answer(t, s, to) /\ UNCHANGED <<issued, started, faults>>
    BY <1>8 DEF Create
  <2> HIDE DEF s, to
  <2>. QED BY <2>2, <2>4, <2>5, AnswerKeepsTypes
<1>9. CASE CreateFails(t)
  <2>1. NoSession \in Session /\ Blank("login", Home) \in Tab
    BY <1>4, HomeAssumption DEF NoSession, Session, Maybe
  <2>2. Answer(t, NoSession, Blank("login", Home)) /\ UNCHANGED <<issued, started>>
    BY <1>9 DEF CreateFails, Failed
  <2>3. faults' \in 0..MaxFaults
    BY <1>3, <1>9 DEF CreateFails
  <2>. QED BY <2>1, <2>2, <2>3, AnswerKeepsTypes
<1>10. CASE Show(t)
  BY <1>1, <1>2, <1>4, <1>10, AnswerKeepsTypes DEF Show
<1>11. CASE Destroy(t)
  <2>1. Carried(t) \in Session /\ Blank("login", Home) \in Tab
    BY <1>1, <1>4, HomeAssumption
  <2>2. Answer(t, Carried(t), Blank("login", Home)) /\ UNCHANGED <<issued, started, faults>>
    BY <1>11 DEF Destroy, Verified, LogoutToken
  <2>. QED BY <2>1, <2>2, AnswerKeepsTypes
<1>12. CASE CreateRaises(t)
  <2>1. Blank("refused", tab[t].page) \in Tab
    BY <1>2, <1>4
  <2>2. Answer(t, Carried(t), Blank("refused", tab[t].page)) /\ UNCHANGED <<issued, started>>
    BY <1>12 DEF CreateRaises
  <2>3. faults' \in 0..MaxFaults
    BY <1>3, <1>12 DEF CreateRaises
  <2>. QED BY <1>1, <2>1, <2>2, <2>3, AnswerKeepsTypes
<1>. QED BY <1>5, <1>6, <1>7, <1>8, <1>9, <1>10, <1>11, <1>12 DEF Serve

------------------------------------------------------------------------------
\* A step answers one tab's request at most: every copy of the session there
\* is afterwards was there before, or came with the answer.
LEMMA SessionsAfter ==
    ASSUME TypeOK, NEW t \in Tabs, NEW s, NEW to, Answer(t, s, to)
    PROVE  /\ Sessions' \subseteq Sessions \cup {s}
           /\ \A u \in Tabs \ {t} : tab'[u] = tab[u]
           /\ tab'[t] = to
BY DEF TypeOK, Answer, Sessions

LEMMA SessionsSent ==
    ASSUME TypeOK, NEW t \in Tabs, NEW kind, NEW u, Send(t, kind, u), UNCHANGED jar
    PROVE  Sessions' \subseteq Sessions
BY DEF TypeOK, Send, Sessions

\* What the invariant says of one copy, and of one tab.
Whole(s)     == s.user = IF s.token = None THEN None ELSE s.token.user
Returning(x) == x.login # None =>
    /\ x.login <= issued
    /\ x.page = IF started[x.login] = Foreign THEN Home ELSE started[x.login]

LEMMA InvAsParts ==
    SessionsInv <=> /\ \A s \in Sessions : Whole(s) /\ Paired(s)
                    /\ \A t \in Tabs : Returning(tab[t])
BY DEF SessionsInv, WholeOrNothing, LoginsInStep, ReturnsWhereItStarted, Whole, Returning

\* No tab ends a login by browsing, and no session is changed.
LEMMA BrowsingKeepsInv ==
    ASSUME TypeOK, SessionsInv, NEW t \in Tabs, Browse(t)
    PROVE  SessionsInv'
<1>1. UNCHANGED <<jar, issued, started>>
  BY DEF Browse, OpenLogin, Visit, Return, Submit, Logout
<1>2. Sessions' \subseteq Sessions
  <2>1. \E kind, u : Send(t, kind, u)
    BY DEF Browse, OpenLogin, Visit, Return, Submit, Logout
  <2>. QED BY <1>1, <2>1, SessionsSent
<1>3. \A u \in Tabs : tab'[u].login = None \/ tab'[u] = tab[u]
  BY DEF Browse, OpenLogin, Visit, Return, Submit, Logout, Blank, TypeOK
<1>4. \A s \in Sessions' : Whole(s) /\ Paired(s)'
  BY <1>1, <1>2, InvAsParts DEF Paired
<1>5. \A u \in Tabs : Returning(tab[u])'
  BY <1>1, <1>3, InvAsParts DEF Returning
<1>. QED BY <1>4, <1>5 DEF SessionsInv, WholeOrNothing, LoginsInStep, ReturnsWhereItStarted,
                           Whole, Returning

\* The same of the next state, for a session and a tab of this one.
PairedNext(s) ==
    s.state # None =>
        /\ s.state <= issued'
        /\ started'[s.state] # None
        /\ s.target = Resolve(started'[s.state])
ReturningNext(x) == x.login # None =>
    /\ x.login <= issued'
    /\ x.page = IF started'[x.login] = Foreign THEN Home ELSE started'[x.login]

\* An answer keeps the invariant if its own session and its tab do, and the
\* logins that were started stay as they were.
LEMMA AnswerKeepsInv ==
    ASSUME TypeOK, SessionsInv, NEW t \in Tabs, NEW s, NEW to, Answer(t, s, to),
           issued' \in Nat, issued <= issued',
           \A n \in Randoms : n <= issued => started'[n] = started[n],
           Whole(s), PairedNext(s), ReturningNext(to)
    PROVE  SessionsInv'
<1>1. issued \in Nat
  BY BoundAssumption DEF TypeOK
<1>2. \A x \in Sessions : x \in Session
  BY DEF Sessions, TypeOK, Maybe, Request
<1>3. \A x \in Sessions : Paired(x)'
  <2> SUFFICES ASSUME NEW x \in Sessions, x.state # None
               PROVE  Paired(x)'
    BY DEF Paired
  <2>1. x.state \in Randoms /\ x.state \in Nat
    BY <1>2 DEF Session, Maybe, Randoms
  <2>. QED BY <1>1, <2>1, InvAsParts DEF Paired
<1>4. \A u \in Tabs : Returning(tab[u])'
  <2> SUFFICES ASSUME NEW u \in Tabs, u # t
               PROVE  Returning(tab[u])'
    BY SessionsAfter DEF Returning, ReturningNext
  <2>1. tab'[u] = tab[u] /\ Returning(tab[u])
    BY SessionsAfter, InvAsParts
  <2>2. tab[u].login # None => tab[u].login \in Randoms /\ tab[u].login \in Nat
    BY DEF TypeOK, Tab, Maybe, Randoms
  <2>. QED BY <1>1, <2>1, <2>2 DEF Returning
<1>5. \A x \in Sessions' : Whole(x) /\ Paired(x)'
  BY <1>3, SessionsAfter, InvAsParts DEF Paired, PairedNext
<1>. QED BY <1>4, <1>5 DEF SessionsInv, WholeOrNothing, LoginsInStep, ReturnsWhereItStarted,
                           Whole, Returning

LEMMA ServingKeepsInv ==
    ASSUME TypeOK, SessionsInv, NEW t \in Tabs, Serve(t)
    PROVE  SessionsInv'
<1>1. sent[t] # None
  BY DEF Serve, Csrf, Start, Refuse, Create, CreateFails, CreateRaises, Show, Destroy,
         Due
<1>2. /\ Carried(t) \in Session /\ Whole(Carried(t)) /\ Paired(Carried(t))
      /\ sent[t] \in Request
  <2>1. Carried(t) \in Sessions
    BY <1>1 DEF Carried, Sessions
  <2>. QED BY <1>1, <2>1, InvAsParts DEF TypeOK, Carried, Maybe, Request
<1>3. issued \in Nat /\ tab[t] \in Tab /\ Returning(tab[t]) /\ None \notin Nat
  BY BoundAssumption, NoneAssumption, InvAsParts DEF TypeOK
<1>4. CASE Csrf(t)
  <2>1. PICK secret : /\ issued' = issued \/ issued' = issued + 1
                      /\ Answer(t, [Carried(t) EXCEPT !.secret = secret],
                                [tab[t] EXCEPT !.token = secret])
                      /\ UNCHANGED started
    BY <1>4 DEF Csrf, Fresh
  <2> DEFINE s  == [Carried(t) EXCEPT !.secret = secret]
             to == [tab[t] EXCEPT !.token = secret]
  <2>2. /\ s.state = Carried(t).state /\ s.target = Carried(t).target
        /\ s.token = Carried(t).token /\ s.user = Carried(t).user
    BY <1>2 DEF Session
  <2>3. to.login = tab[t].login /\ to.page = tab[t].page
    BY <1>3 DEF Tab
  <2>4. Carried(t).state # None => Carried(t).state \in Nat
    BY <1>2 DEF Session, Maybe, Randoms
  <2>5. tab[t].login # None => tab[t].login \in Nat
    BY <1>3 DEF Tab, Maybe, Randoms
  <2> HIDE DEF s, to
  <2>6. Whole(s) /\ PairedNext(s)
    BY <1>2, <1>3, <2>1, <2>2, <2>4 DEF Whole, Paired, PairedNext
  <2>7. ReturningNext(to)
    BY <1>3, <2>1, <2>3, <2>5 DEF Returning, ReturningNext
  <2>8. Answer(t, s, to)
    BY <2>1 DEF s, to
  <2>9. issued' \in Nat /\ issued <= issued'
    BY <1>3, <2>1
  <2>. QED BY <2>1, <2>6, <2>7, <2>8, <2>9, AnswerKeepsInv
<1>5. CASE Start(t)
  <2> DEFINE s  == Starting(Carried(t), Fresh, tab[t].page)
             to == [Blank("discord", tab[t].page) EXCEPT !.state = Fresh]
  <2>1. /\ Fresh \in Randoms /\ issued' = Fresh
        /\ started' = [started EXCEPT ![Fresh] = tab[t].page]
        /\ Answer(t, s, to)
    BY <1>5 DEF Start
  <2>2. started'[Fresh] = tab[t].page /\ tab[t].page # None
    BY <1>3, <2>1, NoneAssumption DEF TypeOK, Tab
  <2>3. /\ s.state = Fresh /\ s.target = Resolve(tab[t].page)
        /\ s.token = Carried(t).token /\ s.user = Carried(t).user
    BY <1>2 DEF Starting, Session
  <2>4. to.login = None
    BY DEF Blank
  <2> HIDE DEF s, to
  <2>5. issued' \in Nat /\ issued < issued'
    BY <1>3, <2>1 DEF Fresh
  <2>6. Whole(s) /\ PairedNext(s) /\ ReturningNext(to)
    BY <1>2, <2>1, <2>2, <2>3, <2>4, <2>5 DEF Whole, PairedNext, ReturningNext
  <2>7. \A n \in Randoms : n <= issued => started'[n] = started[n]
    BY <1>3, <2>1, <2>5 DEF TypeOK, Randoms
  <2>. QED BY <1>3, <2>1, <2>5, <2>6, <2>7, AnswerKeepsInv
<1>6. CASE Refuse(t) \/ CreateRaises(t) \/ Show(t) \/ Destroy(t)
  <2>1. /\ UNCHANGED <<issued, started>>
        /\ \E at, p : Answer(t, Carried(t), Blank(at, p))
    BY <1>6 DEF Refuse, CreateRaises, Show, Destroy, Verified, LogoutToken
  <2>2. \A at, p : ReturningNext(Blank(at, p))
    BY DEF ReturningNext, Blank
  <2>3. PairedNext(Carried(t))
    BY <1>2, <2>1 DEF Paired, PairedNext
  <2>. QED BY <1>2, <1>3, <2>1, <2>2, <2>3, AnswerKeepsInv
<1>7. CASE Create(t)
  <2> DEFINE u  == sent[t].user
             n  == Carried(t).state
             s  == LoggedIn(Carried(t), [login |-> n, user |-> u], u)
             to == [Blank("app", Carried(t).target) EXCEPT !.login = n]
  <2>1. Answer(t, s, to) /\ UNCHANGED <<issued, started>> /\ u # None /\ n # None
    BY <1>7 DEF Create, Expected
  <2>2. /\ n \in Randoms /\ n <= issued /\ started[n] # None
        /\ Carried(t).target = Resolve(started[n])
    BY <1>2, <2>1 DEF Session, Maybe, Paired
  <2>3. started[n] \in Pages \cup {Foreign}
    BY <2>2 DEF TypeOK, Maybe
  <2>4. to.login = n /\ to.page = Resolve(started[n])
    BY <2>2 DEF Blank
  <2>5. s.state = None /\ s.user = u /\ s.token = [login |-> n, user |-> u]
    BY <1>2 DEF LoggedIn, Session
  <2>6. [login |-> n, user |-> u] # None
    <3>1. u \in Users
      BY <1>2, <2>1 DEF Request, Maybe
    <3>. QED BY <2>2, <3>1, TokenAssumption DEF Token
  <2> HIDE DEF s, to, n, u
  <2>7. ReturningNext(to)
    BY <2>1, <2>2, <2>3, <2>4, HomeAssumption DEF ReturningNext, Resolve
  <2>8. Whole(s) /\ PairedNext(s)
    BY <2>5, <2>6 DEF Whole, PairedNext
  <2>. QED BY <1>3, <2>1, <2>7, <2>8, AnswerKeepsInv
<1>8. CASE CreateFails(t)
  <2>1. Answer(t, NoSession, Blank("login", Home)) /\ UNCHANGED <<issued, started>>
    BY <1>8 DEF CreateFails, Failed
  <2>2. Whole(NoSession) /\ PairedNext(NoSession) /\ ReturningNext(Blank("login", Home))
    BY DEF Whole, PairedNext, ReturningNext, NoSession, Blank
  <2>. QED BY <1>3, <2>1, <2>2, AnswerKeepsInv
<1>. QED BY <1>4, <1>5, <1>6, <1>7, <1>8 DEF Serve

------------------------------------------------------------------------------
LEMMA InvInitially == Init => SessionsInv
BY DEF Init, SessionsInv, WholeOrNothing, LoginsInStep, ReturnsWhereItStarted, Sessions, Paired,
       NoSession, Blank

LEMMA Kept == TypeOK /\ SessionsInv /\ [Next]_vars => TypeOK' /\ SessionsInv'
<1> SUFFICES ASSUME TypeOK, SessionsInv, [Next]_vars
             PROVE  TypeOK' /\ SessionsInv'
  OBVIOUS
<1>1. ASSUME NEW t \in Tabs, Browse(t) PROVE TypeOK' /\ SessionsInv'
  BY <1>1, BrowsingKeepsTypes, BrowsingKeepsInv
<1>2. ASSUME NEW t \in Tabs, Serve(t) PROVE TypeOK' /\ SessionsInv'
  BY <1>2, ServingKeepsTypes, ServingKeepsInv DEF SessionsInv
<1>3. CASE UNCHANGED vars
  BY <1>3 DEF vars, TypeOK, SessionsInv, WholeOrNothing, LoginsInStep, ReturnsWhereItStarted,
              Sessions, Paired
<1>. QED BY <1>1, <1>2, <1>3 DEF Next

\* Every copy of the session and every tab keeps its types.  Together with the
\* invariant: a tab never returns to a target that is not there.
THEOREM TypeCorrect == Spec => []TypeOK
<1>1. Init => TypeOK /\ SessionsInv
  BY TypesInitially, InvInitially
<1>. QED BY <1>1, Kept, PTL DEF Spec

\* A login that succeeds leads to the page it was started from (or home, if
\* that was not one of the dashboard's), for any number of tabs and logins.
THEOREM Returns == Spec => []ReturnsWhereItStarted
<1>1. Init => TypeOK /\ SessionsInv
  BY TypesInitially, InvInitially
<1>2. SessionsInv => ReturnsWhereItStarted
  BY DEF SessionsInv
<1>. QED BY <1>1, <1>2, Kept, PTL DEF Spec

\* No copy of the session has an account without its token, the token of
\* another account, or a token without an account.
THEOREM Wholes == Spec => []WholeOrNothing
<1>1. Init => TypeOK /\ SessionsInv
  BY TypesInitially, InvInitially
<1>2. SessionsInv => WholeOrNothing
  BY DEF SessionsInv
<1>. QED BY <1>1, <1>2, Kept, PTL DEF Spec
==============================================================================
