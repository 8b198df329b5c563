-------------------------- MODULE GuildAccess_proofs --------------------------
(***************************************************************************)
(* Proofs about GuildAccess, for any number of threads, users and guilds   *)
(* and any TTL: one call to Discord at a time, and no access more than     *)
(* MaxAge ticks after the right to it was lost.                            *)
(***************************************************************************)
EXTENDS GuildAccess, FiniteSetTheorems, TLAPS

\* What the types rest on: a request that is served has a user and a guild,
\* and a thread sleeps before its second attempt only.
TInv == TypeOK /\ Served /\ Attempts

LEMMA TypesInitially == Init => TInv
BY BoundAssumption DEF Init, TInv, TypeOK, Served, Attempts, At, Request, Idle, Steps

\* The steps of one thread, by what its request becomes.
LEMMA BecomesKeepsTypes ==
    ASSUME TInv, NEW t \in Threads, NEW r \in Request, Becomes(t, r),
           r.step = "idle" \/ (r.user \in Users /\ r.guild \in Guilds),
           r.step = "sleeping" => r.attempt = 0
    PROVE  req' \in [Threads -> Request] /\ Served' /\ Attempts'
BY DEF TInv, TypeOK, Becomes, Served, Attempts, At

LEMMA ThreadKeepsTypes ==
    ASSUME TInv, NEW t \in Threads, Proceed(t)
    PROVE  TInv'
<1> USE DEF TInv, TypeOK
<1>1. req[t] \in Request /\ ~At(t, "idle") /\ req[t].user \in Users /\ req[t].guild \in Guilds
  <2>1. ~At(t, "idle")
    BY DEF Proceed, Read, Lock, Recheck, Answered, Limited, Wake, Fail, Write, Decide, Finish, At
  <2>. QED BY <2>1 DEF Served
<1>2. TTL \in Nat
  BY TtlAssumption
<1>3. ASSUME NEW s \in Steps \ {"sleeping"}, GoesOn(t, s)
      PROVE  req' \in [Threads -> Request] /\ Served' /\ Attempts'
  <2> DEFINE r == [req[t] EXCEPT !.step = s]
  <2>1. r \in Request /\ r.step = s /\ r.user \in Users /\ r.guild \in Guilds
    BY <1>1 DEF Request
  <2>2. Becomes(t, r)
    BY <1>3 DEF GoesOn
  <2> HIDE DEF r
  <2>. QED BY <2>1, <2>2, BecomesKeepsTypes
<1>4. ASSUME NEW s \in {"deciding", "writing"}, Found(t, s), Live(req[t].user)
      PROVE  req' \in [Threads -> Request] /\ Served' /\ Attempts'
  <2> DEFINE r == [req[t] EXCEPT !.step = s, !.list = cache[req[t].user].guilds]
  <2>1. cache[req[t].user].guilds \in SUBSET Guilds
    BY <1>1, <1>4 DEF Live, Entry
  <2>2. r \in Request /\ r.step = s /\ r.user \in Users /\ r.guild \in Guilds
    BY <1>1, <2>1 DEF Request, Steps
  <2>3. Becomes(t, r)
    BY <1>4 DEF Found
  <2> HIDE DEF r
  <2>. QED BY <2>2, <2>3, BecomesKeepsTypes
<1>5. ASSUME Ends(t) PROVE req' \in [Threads -> Request] /\ Served' /\ Attempts'
  <2>1. Idle \in Request /\ Idle.step = "idle"
    BY DEF Idle, Request, Steps
  <2>. QED BY <1>5, <2>1, BecomesKeepsTypes DEF Ends
<1>6. CASE Read(t) \/ Lock(t) \/ Recheck(t)
  <2>1. req' \in [Threads -> Request] /\ Served' /\ Attempts'
    BY <1>3, <1>4, <1>6 DEF Read, Lock, Recheck, Steps
  <2>2. mutex' \in Threads \cup {None} /\ UNCHANGED <<discord, clock, cache, restarts>>
    BY <1>6 DEF Read, Lock, Recheck, Released
  <2>. QED BY <2>1, <2>2 DEF discord
<1>7. CASE Answered(t)
  <2> DEFINE r == [req[t] EXCEPT !.step = "writing", !.attempt = 0,
                                 !.list = Summary(req[t].user)]
  <2>1. Summary(req[t].user) \in SUBSET Guilds
    BY DEF Summary
  <2>2. r \in Request /\ r.step = "writing" /\ r.user \in Users /\ r.guild \in Guilds
    BY <1>1, <2>1 DEF Request, Steps
  <2>3. Becomes(t, r) /\ mutex' = None /\ UNCHANGED <<discord, clock, cache, restarts>>
    BY <1>7 DEF Answered, Released
  <2> HIDE DEF r
  <2>. QED BY <2>2, <2>3, BecomesKeepsTypes DEF discord
<1>8. CASE Limited(t)
  <2> DEFINE r == [req[t] EXCEPT !.step = "sleeping"]
  <2>1. r \in Request /\ r.user \in Users /\ r.guild \in Guilds /\ r.attempt = 0
    BY <1>1, <1>8 DEF Request, Steps, Limited, MayRetry
  <2>2. Becomes(t, r) /\ UNCHANGED <<discord, clock, cache, mutex, restarts>>
    BY <1>8 DEF Limited, GoesOn
  <2> HIDE DEF r
  <2>. QED BY <2>1, <2>2, BecomesKeepsTypes DEF discord
<1>9. CASE Wake(t)
  <2> DEFINE r == [req[t] EXCEPT !.step = "calling", !.attempt = @ + 1]
  <2>1. req[t].attempt + 1 \in {0, 1}
    BY <1>9 DEF Wake, Attempts
  <2>2. r \in Request /\ r.step = "calling" /\ r.user \in Users /\ r.guild \in Guilds
    BY <1>1, <2>1 DEF Request, Steps
  <2>3. Becomes(t, r) /\ UNCHANGED <<discord, clock, cache, mutex, restarts>>
    BY <1>9 DEF Wake
  <2> HIDE DEF r
  <2>. QED BY <2>2, <2>3, BecomesKeepsTypes DEF discord
<1>10. CASE Fail(t) \/ Finish(t)
  BY <1>5, <1>10 DEF Fail, Finish, Released, discord
<1>11. CASE Write(t)
  <2>1. [guilds |-> req[t].list, expires |-> clock + TTL] \in Entry
    BY <1>1, <1>2 DEF Request, Entry
  <2>2. cache' \in [Users -> Entry \cup {None}]
    BY <1>11, <2>1 DEF Write
  <2>. QED BY <1>3, <1>11, <2>2 DEF Write, Steps, discord
<1>12. CASE Decide(t)
  BY <1>3, <1>5, <1>12 DEF Decide, Steps, discord
<1>. QED BY <1>6, <1>7, <1>8, <1>9, <1>10, <1>11, <1>12 DEF Proceed

LEMMA TypesKept == TInv /\ [Next]_vars => TInv'
<1> SUFFICES ASSUME TInv, [Next]_vars
             PROVE  TInv'
  OBVIOUS
<1>1. ASSUME NEW t \in Threads, NEW u \in Users, NEW g \in Guilds, Arrive(t, u, g) PROVE TInv'
  <2> DEFINE r == [Idle EXCEPT !.step = "reading", !.user = u, !.guild = g]
  <2>1. r \in Request /\ r.step = "reading" /\ r.user \in Users /\ r.guild \in Guilds
    BY DEF Idle, Request, Steps
  <2>2. Becomes(t, r) /\ UNCHANGED <<discord, clock, cache, mutex, restarts>>
    BY <1>1 DEF Arrive
  <2> HIDE DEF r
  <2>. QED BY <2>1, <2>2, BecomesKeepsTypes DEF TInv, TypeOK, discord
<1>2. ASSUME NEW u \in Users, NEW g \in Guilds, NEW r \in Roles, ChangeRole(u, g, r) PROVE TInv'
  BY <1>2, BoundAssumption DEF ChangeRole, TInv, TypeOK, Served, Attempts, At
<1>3. CASE Tick
  BY <1>3, BoundAssumption DEF Tick, TInv, TypeOK, Served, Attempts, At, discord
<1>4. CASE Restart
  BY <1>4, BoundAssumption
     DEF Restart, TInv, TypeOK, Served, Attempts, At, discord, Idle, Request, Steps
<1>5. CASE UNCHANGED vars
  BY <1>5 DEF vars, discord, TInv, TypeOK, Served, Attempts, At
<1>. QED BY <1>1, <1>2, <1>3, <1>4, <1>5, ThreadKeepsTypes DEF Next

\* Every variable keeps its type; in particular no call is tried a third time.
THEOREM TypeCorrect == Spec => []TypeOK
<1>1. TInv => TypeOK
  BY DEF TInv
<1>. QED BY <1>1, TypesInitially, TypesKept, PTL DEF Spec

------------------------------------------------------------------------------
\* The holder of the mutex, and nobody else, is past it: for any number of
\* threads, through errors, sleeps and restarts.
THEOREM OneCalls == Spec => []OneCaller
<1>1. Init => OneCaller
  BY DEF Init, OneCaller, Inside, Idle
<1>2. TInv /\ OneCaller /\ [Next]_vars => OneCaller'
  <2> SUFFICES ASSUME TInv, OneCaller, [Next]_vars
               PROVE  OneCaller'
    OBVIOUS
  <2> USE DEF TInv, TypeOK, OneCaller, Inside, At
  <2>1. None \notin Threads
    BY NoneAssumption
  <2>2. ASSUME NEW t \in Threads, Proceed(t) PROVE OneCaller'
    <3>1. req[t] \in Request
      OBVIOUS
    <3>2. \A s \in Threads \ {t} : req'[s] = req[s]
      BY <2>2 DEF Proceed, Read, Lock, Recheck, Answered, Limited, Wake, Fail, Write, Decide,
                  Finish, Becomes, GoesOn, Found, Ends
    <3>3. CASE UNCHANGED mutex /\ (t \in Inside <=> t \in Inside')
      BY <3>2, <3>3
    <3>4. CASE Lock(t)
      BY <2>1, <3>1, <3>2, <3>4 DEF Lock, Free, GoesOn, Becomes, Request
    <3>5. CASE mutex' = None /\ t \in Inside /\ t \notin Inside'
      BY <2>1, <3>2, <3>5
    <3> USE DEF Request, Becomes, GoesOn, Found, Ends, Idle, Released
    <3>6. CASE Read(t)
      <4>1. CASE Live(req[t].user)
        <5>1. Found(t, "deciding") /\ UNCHANGED mutex /\ At(t, "reading")
          BY <3>6, <4>1 DEF Read
        <5>2. req'[t].step = "deciding"
          BY <3>1, <5>1
        <5>. QED BY <3>3, <5>1, <5>2
      <4>2. CASE ~Live(req[t].user)
        BY <3>1, <3>3, <3>6, <4>2 DEF Read
      <4>. QED BY <4>1, <4>2
    <3>7. CASE Recheck(t)
      <4>1. CASE Live(req[t].user)
        <5>1. Found(t, "writing") /\ mutex' = None /\ At(t, "holding")
          BY <3>7, <4>1 DEF Recheck
        <5>2. req'[t].step = "writing"
          BY <3>1, <5>1
        <5>. QED BY <3>5, <5>1, <5>2
      <4>2. CASE ~Live(req[t].user)
        BY <3>1, <3>3, <3>7, <4>2 DEF Recheck
      <4>. QED BY <4>1, <4>2
    <3>8. CASE Answered(t)
      BY <3>1, <3>5, <3>8 DEF Answered
    <3>9. CASE Limited(t)
      BY <3>1, <3>3, <3>9 DEF Limited
    <3>10. CASE Wake(t)
      BY <3>1, <3>3, <3>10 DEF Wake
    <3>11. CASE Fail(t)
      BY <3>1, <3>5, <3>11 DEF Fail
    <3>12. CASE Write(t)
      BY <3>1, <3>3, <3>12 DEF Write
    <3>13. CASE Decide(t)
      BY <3>1, <3>3, <3>13 DEF Decide
    <3>14. CASE Finish(t)
      BY <3>1, <3>3, <3>14 DEF Finish
    <3>. QED BY <2>2, <3>4, <3>6, <3>7, <3>8, <3>9, <3>10, <3>11, <3>12, <3>13, <3>14 DEF Proceed
  <2>3. ASSUME NEW t \in Threads, NEW u \in Users, NEW g \in Guilds, Arrive(t, u, g)
        PROVE  OneCaller'
    BY <2>3 DEF Arrive, Becomes, Idle
  <2>4. CASE Restart
    BY <2>4 DEF Restart, Idle
  <2>5. CASE UNCHANGED <<mutex, req>>
    BY <2>5
  <2>. QED BY <2>2, <2>3, <2>4, <2>5 DEF Next, ChangeRole, Tick, vars
<1>. QED BY <1>1, <1>2, TypesInitially, TypesKept, PTL DEF Spec

------------------------------------------------------------------------------
(***************************************************************************)
(* Slack: what it is worth to know how many threads have missed a list.    *)
(***************************************************************************)

LEMMA Product ==
    ASSUME NEW m \in Nat, NEW n \in Nat, m <= n, NEW d \in Nat
    PROVE  m * d \in Nat /\ m * d <= n * d /\ (m + 1) * d = m * d + d
<1>1. n - m \in Nat /\ n = m + (n - m)
  OBVIOUS
<1>2. \A k \in Nat : k * d \in Nat /\ (m + k) * d = m * d + k * d
  BY Z3
<1>. QED BY <1>1, <1>2, Z3

LEMMA SlackBounds ==
    ASSUME NEW M \in SUBSET Threads
    PROVE  /\ Slack(M) \in Nat /\ MaxAge \in Nat
           /\ Slack(M) <= MaxAge
           /\ M # Threads => TTL - 1 <= Slack(M)
<1> DEFINE n == Cardinality(Threads)
           k == Cardinality(Threads \ M)
<1>1. n \in Nat /\ k \in Nat /\ k <= n /\ TTL - 1 \in Nat
  BY ThreadsAssumption, TtlAssumption, FS_CardinalityType, FS_Subset
<1>2. M # Threads => k >= 1
  <2>1. IsFiniteSet(Threads \ M)
    BY ThreadsAssumption, FS_Subset
  <2>2. M # Threads => k # 0
    BY <2>1, FS_EmptySet
  <2>. QED BY <1>1, <2>2
<1>3. Slack(M) = k * (TTL - 1) /\ MaxAge = n * (TTL - 1)
  BY DEF Slack, MaxAge
<1> HIDE DEF n, k
<1>4. k * (TTL - 1) \in Nat /\ n * (TTL - 1) \in Nat /\ k * (TTL - 1) <= n * (TTL - 1)
  BY <1>1, Product
<1>5. k >= 1 => TTL - 1 <= k * (TTL - 1)
  <2>1. (0 + 1) * (TTL - 1) = 0 * (TTL - 1) + (TTL - 1)
    BY <1>1, Product
  <2>2. 0 * (TTL - 1) = 0 /\ 1 * (TTL - 1) = TTL - 1
    BY <1>1
  <2>3. k >= 1 => 1 * (TTL - 1) <= k * (TTL - 1)
    BY <1>1, Product
  <2>. QED BY <2>2, <2>3
<1>. QED BY <1>2, <1>3, <1>4, <1>5

\* The fewer have missed it, the more slack there is; by a TTL less one for
\* each.
LEMMA SlackGrows ==
    ASSUME NEW M \in SUBSET Threads, NEW N \in SUBSET M
    PROVE  /\ Slack(M) <= Slack(N)
           /\ N # M => Slack(M) + (TTL - 1) <= Slack(N)
<1> DEFINE k == Cardinality(Threads \ M)
           l == Cardinality(Threads \ N)
<1>1. /\ IsFiniteSet(Threads \ M) /\ IsFiniteSet(Threads \ N)
      /\ k \in Nat /\ l \in Nat /\ k <= l /\ TTL - 1 \in Nat
      /\ N # M => k # l
  <2>1. IsFiniteSet(Threads \ M) /\ IsFiniteSet(Threads \ N)
    BY ThreadsAssumption, FS_Subset
  <2>2. Threads \ M \in SUBSET (Threads \ N)
    OBVIOUS
  <2>3. k \in Nat /\ l \in Nat
    BY <2>1, FS_CardinalityType
  <2>4. k <= l /\ (l = k => Threads \ N = Threads \ M)
    BY <2>1, <2>2, FS_Subset
  <2>5. N # M => Threads \ N # Threads \ M
    OBVIOUS
  <2>. QED BY <2>1, <2>3, <2>4, <2>5, TtlAssumption
<1>2. Slack(M) = k * (TTL - 1) /\ Slack(N) = l * (TTL - 1)
  BY DEF Slack
<1> HIDE DEF k, l
<1>3. k * (TTL - 1) <= l * (TTL - 1) /\ (k + 1) * (TTL - 1) = k * (TTL - 1) + (TTL - 1)
  BY <1>1, Product
<1>4. k # l => (k + 1) * (TTL - 1) <= l * (TTL - 1)
  <2>1. k # l => k + 1 \in Nat /\ k + 1 <= l
    BY <1>1
  <2>. QED BY <1>1, <2>1, Product
<1>. QED BY <1>1, <1>2, <1>3, <1>4

------------------------------------------------------------------------------
(***************************************************************************)
(* The staleness of the lists.                                             *)
(***************************************************************************)

\* A later moment, or a shorter while, says more.
LEMMA WithinWeakens ==
    ASSUME TypeOK, NEW u \in Users, NEW g \in Guilds,
           NEW c \in Int, NEW d \in Int, NEW e \in Int, NEW f \in Int,
           Within(u, g, c, d), e + d <= c + f
    PROVE  Within(u, g, e, f)
<1>1. left[u][g] # None => left[u][g] \in Nat
  BY DEF TypeOK
<1>2. CASE Manageable(role[u][g])
  BY <1>2 DEF Within
<1>3. CASE left[u][g] # None /\ c < left[u][g] + d
  BY <1>1, <1>3 DEF Within
<1>. QED BY <1>2, <1>3 DEF Within

LEMMA Numbers ==
    ASSUME TypeOK
    PROVE  /\ clock \in Nat /\ TTL \in Nat /\ TTL >= 1
           /\ \A u \in Users : Missed(u) \in SUBSET Threads
           /\ \A u \in Users : Live(u) => /\ cache[u].expires \in Nat
                                          /\ clock + 1 <= cache[u].expires
                                          /\ cache[u].guilds \in SUBSET Guilds
<1>1. clock \in Nat /\ TTL \in Nat /\ TTL >= 1
  BY BoundAssumption, TtlAssumption DEF TypeOK
<1>2. ASSUME NEW u \in Users, Live(u)
      PROVE  /\ cache[u].expires \in Nat /\ clock < cache[u].expires
             /\ cache[u].guilds \in SUBSET Guilds
  BY <1>2 DEF Live, TypeOK, Entry
<1>. QED BY <1>1, <1>2 DEF Missed

\* A thread that leaves roles, clock and cache alone disturbs nobody else, if
\* it does not join those who missed a list that lives.
LEMMA ThreadStep ==
    ASSUME TInv, AccessInv, TInv', NEW t \in Threads,
           UNCHANGED <<role, left, clock, cache>>,
           \A s \in Threads \ {t} : req'[s] = req[s],
           \A u \in Users : Live(u) => Missed(u)' \subseteq Missed(u),
           ListInStep(t)'
    PROVE  AccessInv'
<1>1. TypeOK /\ TypeOK'
  BY DEF TInv
<1>2. \A u \in Users : Live(u)' <=> Live(u)
  BY DEF Live
<1>3. \A u, g, c, d : Within(u, g, c, d) => Within(u, g, c, d)'
  BY DEF Within
<1>4. ASSUME NEW u \in Users, Live(u)
      PROVE  /\ Missed(u)' # Threads
             /\ Slack(Missed(u)) \in Int /\ Slack(Missed(u)') \in Int
             /\ Slack(Missed(u)) <= Slack(Missed(u)')
  <2>1. Missed(u) \in SUBSET Threads /\ Missed(u)' \in SUBSET Missed(u) /\ Missed(u) # Threads
    BY <1>1, <1>4, Numbers DEF AccessInv, EntriesInStep
  <2>2. Missed(u)' \in SUBSET Threads /\ Missed(u)' # Threads
    BY <2>1
  <2>3. Slack(Missed(u)) \in Nat /\ Slack(Missed(u)') \in Nat
    BY <2>1, <2>2, SlackBounds
  <2>4. Slack(Missed(u)) <= Slack(Missed(u)')
    BY <2>1, SlackGrows
  <2>. QED BY <2>2, <2>3, <2>4
<1>5. EntriesInStep'
  <2>1. ASSUME NEW u \in Users, Live(u), NEW g \in cache[u].guilds
        PROVE  Within(u, g, cache[u].expires, 2 + Slack(Missed(u)'))
    <3>1. Within(u, g, cache[u].expires, 2 + Slack(Missed(u)))
      BY <2>1 DEF AccessInv, EntriesInStep
    <3>. QED BY <1>1, <1>4, <2>1, <3>1, Numbers, WithinWeakens
  <2>. QED BY <1>2, <1>3, <1>4, <2>1 DEF AccessInv, EntriesInStep
<1>6. ListsInStep'
  <2> SUFFICES ASSUME NEW s \in Threads, s # t
               PROVE  ListInStep(s)'
    BY DEF ListsInStep
  <2> DEFINE u == req[s].user
  <2>1. ListInStep(s) /\ req'[s] = req[s] /\ clock' = clock
    BY DEF AccessInv, ListsInStep
  <2>2. ASSUME At(s, "writing"), Live(u), NEW g \in req[s].list,
               Within(u, g, clock, 2 + Slack(Missed(u)) - TTL)
        PROVE  Within(u, g, clock, 2 + Slack(Missed(u)') - TTL)
    <3>1. u \in Users /\ req[s].list \in SUBSET Guilds
      BY <2>2 DEF AccessInv, Served, At, TInv, TypeOK, Request
    <3>. QED BY <1>1, <1>4, <2>2, <3>1, Numbers, WithinWeakens
  <2>3. At(s, "writing") => u \in Users
    BY DEF AccessInv, Served, At
  <2>. QED BY <1>2, <1>3, <2>1, <2>2, <2>3 DEF ListInStep, At
<1>. QED BY <1>5, <1>6 DEF AccessInv, TInv

\* What a thread may join or leave as its own request changes.
LEMMA MissedByOthers ==
    ASSUME TypeOK, NEW t \in Threads, \A s \in Threads \ {t} : req'[s] = req[s],
           NEW u \in Users, t \in Missed(u)' => t \in Missed(u)
    PROVE  Missed(u)' \subseteq Missed(u)
BY DEF Missed

LEMMA ProceedKeepsInv ==
    ASSUME TInv, AccessInv, TInv', NEW t \in Threads, Proceed(t), ~Write(t),
           NEW u \in Users, req[t].user = u
    PROVE  AccessInv'
<1>1. /\ TypeOK /\ req[t] \in Request /\ u \in Users
      /\ UNCHANGED <<role, left, clock, cache>>
      /\ \A s \in Threads \ {t} : req'[s] = req[s]
  <2>1. TypeOK /\ req[t] \in Request
    BY DEF TInv, TypeOK
  <2>2. ~At(t, "idle") /\ UNCHANGED <<role, left, clock, cache>>
    BY DEF Proceed, Read, Lock, Recheck, Answered, Limited, Wake, Fail, Decide, Finish, At, discord
  <2>3. \A s \in Threads \ {t} : req'[s] = req[s]
    BY <2>1 DEF TypeOK, Proceed, Read, Lock, Recheck, Answered, Limited, Wake, Fail, Decide,
                Finish, Becomes, GoesOn, Found, Ends
  <2>. QED BY <2>1, <2>2, <2>3 DEF AccessInv, Served
<1> USE DEF Becomes, GoesOn, Found, Ends, At
<1>2. CASE Live(u) /\ At(t, "reading") /\ Found(t, "deciding")
  <2>1. req'[t].step = "deciding" /\ req'[t].user = u /\ req'[t].list = cache[u].guilds
    BY <1>1, <1>2 DEF TypeOK, Request
  <2>2. ASSUME NEW g \in cache[u].guilds
        PROVE  Within(u, g, clock, 1 + MaxAge)
    <3>1. Within(u, g, cache[u].expires, 2 + Slack(Missed(u)))
      BY <1>1, <1>2, <2>2 DEF AccessInv, EntriesInStep
    <3>2. /\ Slack(Missed(u)) \in Nat /\ MaxAge \in Nat /\ Slack(Missed(u)) <= MaxAge
          /\ g \in Guilds /\ clock \in Nat /\ cache[u].expires \in Nat
          /\ clock + 1 <= cache[u].expires
      BY <1>1, <1>2, <2>2, Numbers, SlackBounds
    <3>. QED BY <1>1, <3>1, <3>2, WithinWeakens
  <2>3. ListInStep(t)'
    BY <1>1, <2>1, <2>2 DEF ListInStep, Within
  <2>4. \A v \in Users : t \notin Missed(v)'
    BY <2>1 DEF Missed
  <2>. QED BY <1>1, <2>3, <2>4, MissedByOthers, ThreadStep
<1>3. CASE Live(u) /\ At(t, "holding") /\ Found(t, "writing")
  <2>1. req'[t].step = "writing" /\ req'[t].user = u /\ req'[t].list = cache[u].guilds
    BY <1>1, <1>3 DEF TypeOK, Request
  <2>2. t \notin Missed(u)' /\ t \in Missed(u) /\ \A v \in Users : t \notin Missed(v)'
    BY <1>3, <2>1 DEF Missed
  <2>3. /\ Missed(u) \in SUBSET Threads /\ Missed(u)' \in SUBSET Missed(u)
        /\ Missed(u)' # Missed(u)
    <3>1. Missed(u)' \subseteq Missed(u)
      BY <1>1, <2>2, MissedByOthers
    <3>2. Missed(u) \in SUBSET Threads
      BY <1>1, Numbers
    <3>. QED BY <2>2, <3>1, <3>2
  <2>4. /\ Slack(Missed(u)) \in Nat /\ Slack(Missed(u)') \in Nat
        /\ Slack(Missed(u)) + (TTL - 1) <= Slack(Missed(u)')
    <3>1. Missed(u)' \in SUBSET Threads
      BY <2>3
    <3>2. Slack(Missed(u)) \in Nat /\ Slack(Missed(u)') \in Nat
      BY <2>3, <3>1, SlackBounds
    <3>. QED BY <2>3, <3>2, SlackGrows
  <2>5. ASSUME NEW g \in cache[u].guilds
        PROVE  Within(u, g, clock, 2 + Slack(Missed(u)') - TTL)
    <3>1. Within(u, g, cache[u].expires, 2 + Slack(Missed(u)))
      BY <1>1, <1>3, <2>5 DEF AccessInv, EntriesInStep
    <3>2. /\ g \in Guilds /\ clock \in Nat /\ TTL \in Nat /\ cache[u].expires \in Nat
          /\ clock + 1 <= cache[u].expires
      BY <1>1, <1>3, <2>5, Numbers
    <3>3. clock + (2 + Slack(Missed(u))) <= cache[u].expires + (2 + Slack(Missed(u)') - TTL)
      BY <2>4, <3>2
    <3>. QED BY <1>1, <2>4, <3>1, <3>2, <3>3, WithinWeakens
  <2>6. ListInStep(t)'
    BY <1>1, <1>3, <2>1, <2>5 DEF ListInStep, Within, Live
  <2>. QED BY <1>1, <2>2, <2>6, MissedByOthers, ThreadStep
<1>4. CASE Answered(t)
  <2>1. req'[t].step = "writing" /\ req'[t].user = u /\ req'[t].list = Summary(u)
    BY <1>1, <1>4 DEF TypeOK, Request, Answered
  <2>2. \A g \in Summary(u) : Manageable(role[u][g])
    BY DEF Summary
  <2>3. ListInStep(t)'
    BY <1>1, <2>1, <2>2 DEF ListInStep, Within
  <2>4. \A v \in Users : t \notin Missed(v)'
    BY <2>1 DEF Missed
  <2>. QED BY <1>1, <2>3, <2>4, MissedByOthers, ThreadStep
<1>5. CASE Decide(t)
  <2>1. \/ req'[t] = Idle
        \/ /\ req'[t].step = "granted" /\ req'[t].user = u /\ req'[t].guild = req[t].guild
           /\ req[t].guild \in req[t].list
    BY <1>1, <1>5 DEF TypeOK, Request, Decide
  <2>2. \A g \in req[t].list : Within(u, g, clock, 1 + MaxAge)
    BY <1>5 DEF AccessInv, ListsInStep, ListInStep, Decide
  <2>3. ListInStep(t)'
    BY <1>1, <2>1, <2>2 DEF ListInStep, Within, Idle
  <2>4. \A v \in Users : t \notin Missed(v)'
    BY <2>1 DEF Missed, Idle
  <2>. QED BY <1>1, <2>3, <2>4, MissedByOthers, ThreadStep
<1>6. CASE ~Live(u) /\ At(t, "reading") /\ GoesOn(t, "waiting")
  <2>1. req'[t].step = "waiting" /\ req'[t].user = u
    BY <1>1, <1>6 DEF TypeOK, Request
  <2>2. ListInStep(t)'
    BY <2>1 DEF ListInStep
  <2>3. \A v \in Users : Live(v) => t \notin Missed(v)'
    BY <1>6, <2>1 DEF Missed
  <2>. QED BY <1>1, <2>2, <2>3, MissedByOthers, ThreadStep
<1>7. CASE /\ req[t].step \in {"waiting", "holding", "calling", "sleeping"}
           /\ req'[t].step \in {"holding", "calling", "sleeping"}
           /\ req'[t].user = u
  <2>1. ListInStep(t)'
    BY <1>7 DEF ListInStep
  <2>2. \A v \in Users : t \in Missed(v)' => t \in Missed(v)
    BY <1>7 DEF Missed
  <2>. QED BY <1>1, <2>1, <2>2, MissedByOthers, ThreadStep
<1>8. CASE Ends(t)
  <2>1. req'[t].step = "idle"
    BY <1>1, <1>8 DEF TypeOK, Idle
  <2>2. ListInStep(t)' /\ \A v \in Users : t \notin Missed(v)'
    BY <2>1 DEF ListInStep, Missed
  <2>. QED BY <1>1, <2>2, MissedByOthers, ThreadStep
<1>9. CASE Read(t)
  BY <1>2, <1>6, <1>9 DEF Read
<1>10. CASE Recheck(t)
  <2>1. ~Live(u) => req'[t].step = "calling" /\ req'[t].user = u /\ req[t].step = "holding"
    BY <1>1, <1>10 DEF Recheck, TypeOK, Request
  <2>. QED BY <1>3, <1>7, <1>10, <2>1 DEF Recheck
<1>11. CASE Lock(t) \/ Limited(t) \/ Wake(t)
  <2>1. /\ req[t].step \in {"waiting", "calling", "sleeping"}
        /\ req'[t].step \in {"holding", "calling", "sleeping"}
        /\ req'[t].user = u
    <3>1. CASE Lock(t)
      BY <1>1, <3>1 DEF Lock, TypeOK, Request
    <3>2. CASE Limited(t)
      BY <1>1, <3>2 DEF Limited, TypeOK, Request
    <3>3. CASE Wake(t)
      BY <1>1, <3>3 DEF Wake, TypeOK, Request
    <3>. QED BY <1>11, <3>1, <3>2, <3>3
  <2>. QED BY <1>7, <2>1
<1>12. CASE Fail(t) \/ Finish(t)
  BY <1>8, <1>12 DEF Fail, Finish
<1>. QED BY <1>4, <1>5, <1>9, <1>10, <1>11, <1>12 DEF Proceed

\* The list that is written becomes the entry: as old as it was in hand.
LEMMA WriteKeepsInv ==
    ASSUME TInv, AccessInv, TInv', NEW t \in Threads, Write(t), NEW u \in Users, req[t].user = u
    PROVE  AccessInv'
<1>0. PICK missed : missed = Missed(u)
  OBVIOUS
<1>1. /\ TypeOK /\ req[t] \in Request /\ u \in Users /\ At(t, "writing") /\ ListInStep(t)
      /\ clock \in Nat /\ TTL \in Nat /\ TTL >= 1 /\ req[t].list \in SUBSET Guilds
  BY Numbers DEF TInv, TypeOK, Request, Write, AccessInv, Served, At, ListsInStep
<1>2. /\ UNCHANGED <<role, left, clock>>
      /\ cache' = [cache EXCEPT ![u] = [guilds |-> req[t].list, expires |-> clock + TTL]]
      /\ \A s \in Threads \ {t} : req'[s] = req[s]
      /\ req'[t].step = "deciding" /\ req'[t].user = u /\ req'[t].list = req[t].list
  BY <1>1 DEF Write, GoesOn, Becomes, discord, TypeOK, Request
<1>3. \A v \in Users : Missed(v)' = Missed(v)
  BY <1>1, <1>2 DEF Missed, At
<1>4. /\ missed # Threads
      /\ Slack(missed) \in Nat /\ MaxAge \in Nat
      /\ Slack(missed) <= MaxAge /\ TTL - 1 <= Slack(missed)
  <2>1. missed \in SUBSET Threads /\ missed # Threads
    BY <1>0, <1>1, Numbers DEF Missed, At
  <2>. QED BY <2>1, SlackBounds
<1>5. \A g \in req[t].list : Within(u, g, clock, 2 + Slack(missed) - TTL)
  <2> SUFFICES ASSUME NEW g \in req[t].list, Within(u, g, clock, 1)
               PROVE  Within(u, g, clock, 2 + Slack(missed) - TTL)
    BY <1>0, <1>1 DEF ListInStep
  <2>1. g \in Guilds /\ clock + 1 <= clock + (2 + Slack(missed) - TTL)
    BY <1>1, <1>4
  <2>. QED BY <1>1, <1>4, <2>1, WithinWeakens
<1>6. ASSUME NEW g \in req[t].list
      PROVE  /\ Within(u, g, clock + TTL, 2 + Slack(missed))
             /\ Within(u, g, clock, 1 + MaxAge)
  <2>1. /\ g \in Guilds /\ clock \in Int /\ clock + TTL \in Int
        /\ 2 + Slack(missed) - TTL \in Int /\ 2 + Slack(missed) \in Int /\ 1 + MaxAge \in Int
        /\ (clock + TTL) + (2 + Slack(missed) - TTL) <= clock + (2 + Slack(missed))
        /\ clock + (2 + Slack(missed) - TTL) <= clock + (1 + MaxAge)
    BY <1>1, <1>4
  <2>. QED BY <1>1, <1>5, <2>1, WithinWeakens
<1>7. \A v, g, c, d : Within(v, g, c, d) => Within(v, g, c, d)'
  BY <1>2 DEF Within
<1>8. /\ cache'[u].guilds = req[t].list /\ cache'[u].expires = clock + TTL /\ Live(u)'
      /\ \A v \in Users \ {u} : cache'[v] = cache[v] /\ (Live(v)' <=> Live(v))
  <2>1. cache'[u] = [guilds |-> req[t].list, expires |-> clock + TTL]
    BY <1>1, <1>2 DEF TypeOK
  <2>2. cache'[u] # None
    BY <1>1, <2>1, EntryAssumption DEF Entry
  <2>. QED BY <1>1, <1>2, <2>1, <2>2 DEF Live, TypeOK
<1>9. EntriesInStep'
  <2> SUFFICES ASSUME NEW v \in Users
               PROVE  /\ cache'[v] # None => cache'[v].expires <= clock' + TTL
                      /\ Live(v)' =>
                          /\ Missed(v)' # Threads
                          /\ \A g \in cache'[v].guilds :
                              Within(v, g, cache[v].expires, 2 + Slack(Missed(v)))'
    BY DEF EntriesInStep
  <2>1. CASE v = u
    BY <1>0, <1>1, <1>2, <1>3, <1>4, <1>6, <1>7, <1>8, <2>1
  <2>2. CASE v # u
    BY <1>2, <1>3, <1>7, <1>8, <2>2 DEF AccessInv, EntriesInStep
  <2>. QED BY <2>1, <2>2
<1>10. ASSUME NEW s \in Threads PROVE ListInStep(s)'
  <2>1. CASE s = t
    BY <1>2, <1>6, <1>7, <2>1 DEF ListInStep, At
  <2>2. CASE s # t
    <3>1. req'[s] = req[s] /\ ListInStep(s)
      BY <1>2, <2>2 DEF AccessInv, ListsInStep
    <3>2. At(s, "writing") => req[s].user \in Users
      BY DEF AccessInv, Served, At
    <3>. QED BY <1>2, <1>3, <1>7, <1>8, <3>1, <3>2 DEF ListInStep, At
  <2>. QED BY <2>1, <2>2
<1>. QED BY <1>9, <1>10 DEF AccessInv, ListsInStep, TInv

\* A right that is lost was there a moment ago.
LEMMA RoleKeepsInv ==
    ASSUME TInv, AccessInv, TInv', NEW u \in Users, NEW g \in Guilds, NEW r \in Roles,
           ChangeRole(u, g, r)
    PROVE  AccessInv'
<1>1. /\ TypeOK /\ clock \in Nat /\ TTL \in Nat /\ TTL >= 1
      /\ UNCHANGED <<clock, cache, req>>
      /\ role' = [role EXCEPT ![u][g] = r]
      /\ left' = IF Manageable(role[u][g]) /\ ~Manageable(r)
                 THEN [left EXCEPT ![u][g] = clock] ELSE left
      /\ r # role[u][g] /\ role[u][g] \in Roles
  BY Numbers DEF TInv, TypeOK, ChangeRole
<1>2. ASSUME NEW v \in Users, NEW h \in Guilds, NEW c \in Int, NEW d \in Int,
             Within(v, h, c, d), c < clock + d
      PROVE  Within(v, h, c, d)'
  <2>1. CASE v = u /\ h = g /\ Manageable(r)
    BY <1>1, <2>1 DEF Within, TypeOK
  <2>2. CASE v = u /\ h = g /\ ~Manageable(r)
    <3>1. Manageable(role[u][g])
      BY <1>1, <2>2 DEF Manageable, Roles
    <3>2. left'[u][g] = clock
      BY <1>1, <2>2, <3>1 DEF TypeOK
    <3>. QED BY <1>1, <1>2, <2>2, <3>2, NoneAssumption DEF Within
  <2>3. CASE v # u \/ h # g
    <3>1. role'[v][h] = role[v][h] /\ left'[v][h] = left[v][h]
      BY <1>1, <2>3 DEF TypeOK
    <3>. QED BY <1>2, <3>1 DEF Within
  <2>. QED BY <2>1, <2>2, <2>3
<1>3. \A v \in Users : Missed(v)' = Missed(v) /\ (Live(v)' <=> Live(v))
  BY <1>1 DEF Missed, Live
<1>4. ASSUME NEW v \in Users, Live(v)
      PROVE  /\ Slack(Missed(v)) \in Nat /\ TTL - 1 <= Slack(Missed(v))
             /\ cache[v].expires \in Nat /\ cache[v].expires <= clock + TTL
             /\ cache[v].guilds \in SUBSET Guilds
  <2>1. Missed(v) \in SUBSET Threads /\ Missed(v) # Threads
    BY <1>1, <1>4, Numbers DEF AccessInv, EntriesInStep
  <2>2. cache[v].expires <= clock + TTL
    BY <1>4 DEF AccessInv, EntriesInStep, Live
  <2>. QED BY <1>1, <1>4, <2>1, <2>2, Numbers, SlackBounds
<1>5. EntriesInStep'
  <2>1. ASSUME NEW v \in Users, Live(v), NEW h \in cache[v].guilds
        PROVE  Within(v, h, cache[v].expires, 2 + Slack(Missed(v)))'
    <3>1. Within(v, h, cache[v].expires, 2 + Slack(Missed(v)))
      BY <2>1 DEF AccessInv, EntriesInStep
    <3>2. cache[v].expires < clock + (2 + Slack(Missed(v)))
      BY <1>1, <1>4, <2>1
    <3>3. \A c, d : c = cache[v].expires /\ d = 2 + Slack(Missed(v)) =>
                Within(v, h, c, d)'
      BY <1>2, <1>4, <2>1, <3>1, <3>2
    <3>. QED BY <1>1, <1>3, <3>3
  <2>. QED BY <1>1, <1>3, <2>1 DEF AccessInv, EntriesInStep
<1>6. ASSUME NEW s \in Threads PROVE ListInStep(s)'
  <2>1. CASE ~(At(s, "writing") \/ At(s, "deciding") \/ At(s, "granted"))
    BY <1>1, <2>1 DEF ListInStep, At
  <2>2. CASE At(s, "writing") \/ At(s, "deciding") \/ At(s, "granted")
    <3>1. PICK v \in Users : req[s].user = v
      BY <2>2 DEF AccessInv, Served, At
    <3>2. req[s].list \in SUBSET Guilds /\ req[s].guild \in Guilds /\ ListInStep(s)
      BY <1>1, <2>2 DEF AccessInv, Served, At, TypeOK, Request, ListsInStep
    <3>3. MaxAge \in Nat
      BY SlackBounds
    <3>4. ASSUME NEW d \in Int, d >= 1, NEW h \in Guilds, Within(v, h, clock, d)
          PROVE  Within(v, h, clock, d)'
      <4>1. clock < clock + d
        BY <1>1, <3>4
      <4>2. \A c : c = clock => Within(v, h, c, d)'
        BY <1>1, <1>2, <3>4, <4>1
      <4>. QED BY <1>1, <4>2
    <3>5. Live(v) => 2 + Slack(Missed(v)) - TTL \in Int /\ 2 + Slack(Missed(v)) - TTL >= 1
      BY <1>1, <1>4
    <3>. QED BY <1>1, <1>3, <3>1, <3>2, <3>3, <3>4, <3>5 DEF ListInStep, At
  <2>. QED BY <2>1, <2>2
<1>. QED BY <1>5, <1>6 DEF AccessInv, ListsInStep, TInv

\* Time passes only while no list is in hand.
LEMMA TickKeepsInv ==
    ASSUME TInv, AccessInv, TInv', Tick
    PROVE  AccessInv'
<1>1. /\ TypeOK /\ clock \in Nat /\ TTL \in Nat
      /\ clock' = clock + 1 /\ UNCHANGED <<role, left, cache, req>>
      /\ \A t \in Threads : Patient(t)
  BY Numbers DEF TInv, Tick, discord
<1>2. \A v \in Users : Missed(v)' = Missed(v) /\ (Live(v)' => Live(v))
  <2> SUFFICES ASSUME NEW v \in Users, Live(v)'
               PROVE  Live(v)
    BY <1>1 DEF Missed
  <2>1. cache[v] # None /\ clock + 1 < cache[v].expires /\ cache[v].expires \in Nat
    BY <1>1 DEF Live, TypeOK, Entry
  <2>. QED BY <1>1, <2>1 DEF Live
<1>3. \A v \in Users : cache[v] # None => cache[v].expires <= clock' + TTL
  <2> SUFFICES ASSUME NEW v \in Users, cache[v] # None
               PROVE  cache[v].expires <= clock' + TTL
    OBVIOUS
  <2>1. cache[v].expires \in Nat /\ cache[v].expires <= clock + TTL
    BY <1>1 DEF AccessInv, EntriesInStep, TypeOK, Entry
  <2>. QED BY <1>1, <2>1
<1>4. \A v, g, c, d : Within(v, g, c, d) => Within(v, g, c, d)'
  BY <1>1 DEF Within
<1>5. EntriesInStep'
  BY <1>1, <1>2, <1>3, <1>4 DEF AccessInv, EntriesInStep
<1>6. ListsInStep'
  BY <1>1 DEF ListsInStep, ListInStep, Patient, At
<1>. QED BY <1>5, <1>6 DEF AccessInv, TInv

LEMMA InvKept == TInv /\ AccessInv /\ [Next]_vars => TInv' /\ AccessInv'
<1> SUFFICES ASSUME TInv, AccessInv, [Next]_vars, TInv'
             PROVE  AccessInv'
  BY TypesKept
<1>1. ASSUME NEW t \in Threads, Proceed(t) PROVE AccessInv'
  <2>1. PICK u \in Users : req[t].user = u
    <3>1. ~At(t, "idle")
      BY <1>1 DEF Proceed, Read, Lock, Recheck, Answered, Limited, Wake, Fail, Write, Decide,
                  Finish, At
    <3>. QED BY <3>1 DEF AccessInv, Served
  <2>. QED BY <1>1, <2>1, ProceedKeepsInv, WriteKeepsInv
<1>2. ASSUME NEW t \in Threads, NEW u \in Users, NEW g \in Guilds, Arrive(t, u, g)
      PROVE  AccessInv'
  <2>1. /\ req'[t].step = "reading" /\ TypeOK
        /\ UNCHANGED <<role, left, clock, cache>>
        /\ \A s \in Threads \ {t} : req'[s] = req[s]
    BY <1>2 DEF Arrive, Becomes, Idle, TInv, TypeOK, discord
  <2>2. ListInStep(t)' /\ \A v \in Users : t \notin Missed(v)'
    BY <2>1 DEF ListInStep, Missed, At
  <2>. QED BY <2>1, <2>2, MissedByOthers, ThreadStep
<1>3. CASE Restart
  BY <1>3 DEF Restart, AccessInv, EntriesInStep, ListsInStep, ListInStep, Live, At, Idle, TInv
<1>4. CASE UNCHANGED vars
  BY <1>4 DEF vars, discord, AccessInv, EntriesInStep, ListsInStep, ListInStep, Live, At, Missed,
              Within, TInv
<1>. QED BY <1>1, <1>2, <1>3, <1>4, RoleKeepsInv, TickKeepsInv DEF Next

\* Nobody is let in later than MaxAge = |Threads| * (TTL - 1) ticks after they
\* lost the right, however many threads queue for the mutex.
THEOREM Fresh == Spec => []AccessFresh
<1>1. Init => TInv /\ AccessInv
  <2>1. Init => AccessInv
    BY DEF Init, AccessInv, Served, Attempts, EntriesInStep, ListsInStep, ListInStep, Live, At, Idle
  <2>. QED BY <2>1, TypesInitially
<1>2. TInv /\ AccessInv => AccessFresh
  <2> SUFFICES ASSUME TInv, AccessInv
               PROVE  AccessFresh
    OBVIOUS
  <2> SUFFICES ASSUME NEW t \in Threads, At(t, "granted"),
                      NEW u \in Users, req[t].user = u, NEW g \in Guilds, req[t].guild = g
               PROVE  Manageable(role[u][g]) \/ (left[u][g] # None /\ clock <= left[u][g] + MaxAge)
    <3>1. \A t \in Threads : At(t, "granted") => req[t].user \in Users /\ req[t].guild \in Guilds
      BY DEF AccessInv, Served, At
    <3>. QED BY <3>1 DEF AccessFresh
  <2>1. Within(u, g, clock, 1 + MaxAge)
    BY DEF AccessInv, ListsInStep, ListInStep
  <2>2. MaxAge \in Nat
    BY SlackBounds
  <2>3. clock \in Nat /\ (left[u][g] # None => left[u][g] \in Nat)
    BY Numbers DEF TInv, TypeOK
  <2>. QED BY <2>1, <2>2, <2>3 DEF Within
<1>. QED BY <1>1, <1>2, InvKept, PTL DEF Spec
==============================================================================
