----------------------------- MODULE GuildAccess -----------------------------
(***************************************************************************)
(* Which guilds a dashboard user may manage, as the API decides it.  Every *)
(* request about a guild asks current_dashboard_guilds                     *)
(* (application_controller.rb) for the user's list: from Rails.cache while *)
(* an entry lives, else from Discord, one thread at a time under           *)
(* GUILD_FETCH_MUTEX.  The steps of a request:                             *)
(*                                                                         *)
(*   reading    Rails.cache.fetch looks for a live entry;                  *)
(*   waiting    it missed, and waits for the mutex;                        *)
(*   holding    it has the mutex and looks again;                          *)
(*   calling    it asks Discord;                                           *)
(*   sleeping   Discord said 429: it sleeps, mutex in hand, to ask again;  *)
(*   writing    the mutex is released, the list not yet in the cache:      *)
(*              fetch writes what its block returned, found or fetched;    *)
(*   deciding   ensure_guild_access! looks the guild up in the list;       *)
(*   granted    the controller's action runs.                              *)
(*                                                                         *)
(* Time is counted in ticks and passes only while every thread waits for   *)
(* something: the other steps take no time beside a TTL of two minutes.    *)
(* A list is as Discord has it when the answer arrives.                    *)
(***************************************************************************)
EXTENDS Naturals, FiniteSets

CONSTANTS
    Threads,     \* Puma's threads, one request each
    Users,       \* logged-in users, one access token each
    Guilds,
    None,        \* no entry, no holder, never
    TTL,         \* DISCORD_GUILD_CACHE_TTL
    MaxTime,     \* ticks in a behaviour
    MaxChanges,  \* changes of a role on Discord
    MaxRestarts  \* of the API

ASSUME NoneAssumption == None \notin Threads \cup Nat
ASSUME TtlAssumption  == TTL \in Nat \ {0}
ASSUME BoundAssumption == MaxTime \in Nat /\ MaxChanges \in Nat /\ MaxRestarts \in Nat
ASSUME ThreadsAssumption == IsFiniteSet(Threads)

\* A manager owns the guild or has its MANAGE_GUILD permission.
Roles == {"manager", "member"}
Steps == {"idle", "reading", "waiting", "holding", "calling", "sleeping",
          "writing", "deciding", "granted"}

\* A cached list, and when it expires.
Entry == [guilds : SUBSET Guilds, expires : Nat]

ASSUME EntryAssumption == None \notin Entry

\* What a thread serves: whose request about which guild, the list it has in
\* hand, and perform_json_request's attempt.
Request == [step : Steps, user : Users \cup {None}, guild : Guilds \cup {None},
            list : SUBSET Guilds, attempt : {0, 1}]

Idle == [step |-> "idle", user |-> None, guild |-> None, list |-> {}, attempt |-> 0]

VARIABLES
    role,     \* on Discord: each user's role in each guild
    left,     \* ghost: when the user last lost the right to manage the guild
    changes,  \* how many roles have changed
    clock,
    cache,    \* Rails.cache, by discord_guild_cache_key
    mutex,    \* the thread that holds GUILD_FETCH_MUTEX
    req,      \* the request each thread serves
    restarts

discord == <<role, left, changes>>
vars    == <<discord, clock, cache, mutex, req, restarts>>

------------------------------------------------------------------------------
\* GuildSummaryBuilder.manageable?
Manageable(r) == r = "manager"

\* GuildSummaryBuilder.call
Summary(u) == {g \in Guilds : Manageable(role[u][g])}

\* MUTANT of Live: an entry lives a tick longer.
LiveToTheEnd(u) == cache[u] # None /\ clock <= cache[u].expires
Live(u) == cache[u] # None /\ clock < cache[u].expires

Free == mutex = None

------------------------------------------------------------------------------
\* Discord, and time.
ChangeRole(u, g, r) ==
    /\ changes < MaxChanges
    /\ r # role[u][g]
    /\ changes' = changes + 1
    /\ role' = [role EXCEPT ![u][g] = r]
    /\ left' = IF Manageable(role[u][g]) /\ ~Manageable(r)
               THEN [left EXCEPT ![u][g] = clock] ELSE left
    /\ UNCHANGED <<clock, cache, mutex, req, restarts>>

At(t, s) == req[t].step = s

Patient(t) ==
    \/ req[t].step \in {"idle", "calling", "sleeping"}
    \/ At(t, "waiting") /\ ~Free

Tick ==
    /\ clock < MaxTime
    /\ \A t \in Threads : Patient(t)
    /\ clock' = clock + 1
    /\ UNCHANGED <<discord, cache, mutex, req, restarts>>

------------------------------------------------------------------------------
\* Thread t's request is r from here on.
Becomes(t, r) == req' = [req EXCEPT ![t] = r]

\* A request that has passed authenticate_session!.
Arrive(t, u, g) ==
    /\ At(t, "idle")
    /\ Becomes(t, [Idle EXCEPT !.step = "reading", !.user = u, !.guild = g])
    /\ UNCHANGED <<discord, clock, cache, mutex, restarts>>

\* Thread t goes on to s, with what it finds in the cache in hand.
Found(t, s) ==
    Becomes(t, [req[t] EXCEPT !.step = s, !.list = cache[req[t].user].guilds])

GoesOn(t, s) == Becomes(t, [req[t] EXCEPT !.step = s])

\* The request is over, its answer given.
Ends(t) == Becomes(t, Idle)

\* Rails.cache.fetch: a hit ends it, a miss runs the block.
Read(t) ==
    /\ At(t, "reading")
    /\ IF Live(req[t].user) THEN Found(t, "deciding") ELSE GoesOn(t, "waiting")
    /\ UNCHANGED <<discord, clock, cache, mutex, restarts>>

Lock(t) ==
    /\ At(t, "waiting")
    /\ Free
    /\ mutex' = t
    /\ GoesOn(t, "holding")
    /\ UNCHANGED <<discord, clock, cache, restarts>>

\* MUTANT of Released: an exception leaves the mutex locked.
HeldOnError(raised) == IF raised THEN mutex ELSE None
\* synchronize unlocks however its block ends.
Released(raised) == None

\* next cached if cached
Recheck(t) ==
    /\ At(t, "holding")
    /\ IF Live(req[t].user)
       THEN Found(t, "writing") /\ mutex' = Released(FALSE)
       ELSE GoesOn(t, "calling") /\ UNCHANGED mutex
    /\ UNCHANGED <<discord, clock, cache, restarts>>

Answered(t) ==
    /\ At(t, "calling")
    /\ Becomes(t, [req[t] EXCEPT !.step = "writing", !.attempt = 0,
                                 !.list = Summary(req[t].user)])
    /\ mutex' = Released(FALSE)
    /\ UNCHANGED <<discord, clock, cache, restarts>>

\* MUTANT of MayRetry: every 429 is slept off.
MayAlwaysRetry(n) == TRUE
MayRetry(n) == n = 0

\* 429 with a retry_after: sleep, then ask again.
Limited(t) ==
    /\ At(t, "calling") /\ MayRetry(req[t].attempt)
    /\ GoesOn(t, "sleeping")
    /\ UNCHANGED <<discord, clock, cache, mutex, restarts>>

Wake(t) ==
    /\ At(t, "sleeping")
    /\ Becomes(t, [req[t] EXCEPT !.step = "calling", !.attempt = @ + 1])
    /\ UNCHANGED <<discord, clock, cache, mutex, restarts>>

\* A second 429, one without retry_after, or any other error: 429 or 502.
Fail(t) ==
    /\ At(t, "calling")
    /\ Ends(t)
    /\ mutex' = Released(TRUE)
    /\ UNCHANGED <<discord, clock, cache, restarts>>

\* fetch stores its block's value, for a TTL from now.
Write(t) ==
    /\ At(t, "writing")
    /\ cache' = [cache EXCEPT ![req[t].user] = [guilds |-> req[t].list, expires |-> clock + TTL]]
    /\ GoesOn(t, "deciding")
    /\ UNCHANGED <<discord, clock, mutex, restarts>>

\* ensure_guild_access!: the action runs, or 404.
Decide(t) ==
    /\ At(t, "deciding")
    /\ IF req[t].guild \in req[t].list THEN GoesOn(t, "granted")
                                      ELSE Ends(t)
    /\ UNCHANGED <<discord, clock, cache, mutex, restarts>>

Finish(t) ==
    /\ At(t, "granted")
    /\ Ends(t)
    /\ UNCHANGED <<discord, clock, cache, mutex, restarts>>

\* The cache, the mutex and the requests live in the process.
Restart ==
    /\ restarts < MaxRestarts
    /\ restarts' = restarts + 1
    /\ cache' = [u \in Users |-> None]
    /\ mutex' = None
    /\ req' = [t \in Threads |-> Idle]
    /\ UNCHANGED <<discord, clock>>

------------------------------------------------------------------------------
Init ==
    /\ role \in [Users -> [Guilds -> Roles]]
    /\ left = [u \in Users |-> [g \in Guilds |-> None]]
    /\ changes = 0
    /\ clock = 0
    /\ cache = [u \in Users |-> None]
    /\ mutex = None
    /\ req = [t \in Threads |-> Idle]
    /\ restarts = 0

\* What a thread does once a request has arrived.
Proceed(t) ==
    \/ Read(t) \/ Lock(t) \/ Recheck(t)
    \/ Answered(t) \/ Limited(t) \/ Wake(t) \/ Fail(t)
    \/ Write(t) \/ Decide(t) \/ Finish(t)

Next ==
    \/ \E t \in Threads, u \in Users, g \in Guilds : Arrive(t, u, g)
    \/ \E t \in Threads : Proceed(t)
    \/ \E u \in Users, g \in Guilds, r \in Roles : ChangeRole(u, g, r)
    \/ Tick \/ Restart

Spec == Init /\ [][Next]_vars

\* Threads run, Discord answers, a sleep ends, and a thread that finds the
\* mutex free again and again gets it.  Requests need not arrive, roles need
\* not change, and the clock may stand.
Fairness == \A t \in Threads : WF_vars(Proceed(t)) /\ SF_vars(Lock(t))

FairSpec == Spec /\ Fairness

------------------------------------------------------------------------------
(***************************************************************************)
(* Properties.                                                             *)
(***************************************************************************)

\* Every variable has its type.
TypeOK ==
    /\ role \in [Users -> [Guilds -> Roles]]
    /\ left \in [Users -> [Guilds -> Nat \cup {None}]]
    /\ changes \in 0..MaxChanges
    /\ clock \in 0..MaxTime
    /\ cache \in [Users -> Entry \cup {None}]
    /\ mutex \in Threads \cup {None}
    /\ req \in [Threads -> Request]
    /\ restarts \in 0..MaxRestarts

Inside == {t \in Threads : req[t].step \in {"holding", "calling", "sleeping"}}

\* The API never has two calls for guild lists open at Discord, and makes none
\* while one of its threads sleeps off a 429, whoever's request that was: the
\* threads past the mutex are its holder, or nobody.
OneCaller == Inside = IF mutex = None THEN {} ELSE {mutex}

\* How stale a list may be.  A thread that missed before the list was fetched
\* may find it when it gets the mutex, and fetch stores it again for a TTL:
\* each thread but the one that fetched it may do so once, at the last moment.
MaxAge == Cardinality(Threads) * (TTL - 1)

\* Access is never granted to a guild the user could not manage at some moment
\* of the last MaxAge ticks.
AccessFresh ==
    \A t \in Threads : At(t, "granted") =>
        LET u == req[t].user  g == req[t].guild IN
        \/ Manageable(role[u][g])
        \/ left[u][g] # None /\ clock <= left[u][g] + MaxAge

\* Every request is answered: nobody waits for the mutex for ever, whatever
\* Discord refuses and whoever sleeps.
EveryRequestAnswered == \A t \in Threads : ~At(t, "idle") ~> At(t, "idle")
------------------------------------------------------------------------------
(***************************************************************************)
(* The inductive invariant behind AccessFresh.                             *)
(***************************************************************************)

Served == \A t \in Threads : ~At(t, "idle") => req[t].user \in Users /\ req[t].guild \in Guilds

\* A thread sleeps once, before its second attempt.
Attempts == \A t \in Threads : At(t, "sleeping") => req[t].attempt = 0

\* The threads that missed u's list and are not past the mutex's section.
Missed(u) ==
    {t \in Threads : req[t].user = u
                     /\ req[t].step \in {"waiting", "holding", "calling", "sleeping"}}

\* Each thread that is not among the missed may have prolonged an entry once.
Slack(missed) == Cardinality(Threads \ missed) * (TTL - 1)

\* u could manage g less than d ticks before time c, or can now.
Within(u, g, c, d) == Manageable(role[u][g]) \/ (left[u][g] # None /\ c < left[u][g] + d)

\* As long as u's entry lives nobody new misses it, and each thread of Missed
\* may prolong it once: the fewer are left, the older the list may be.
EntriesInStep ==
    \A u \in Users :
        /\ cache[u] # None => cache[u].expires <= clock + TTL
        /\ Live(u) =>
            /\ Missed(u) # Threads
            /\ \A g \in cache[u].guilds :
                Within(u, g, cache[u].expires, 2 + Slack(Missed(u)))

\* A list on its way to the cache is new, or was found in an entry that lives;
\* a list that is decided by is as old as an entry may be.
ListInStep(t) ==
    LET u == req[t].user IN
    /\ At(t, "writing") =>
        \/ \A g \in req[t].list : Within(u, g, clock, 1)
        \/ /\ Live(u)
           /\ \A g \in req[t].list : Within(u, g, clock, 2 + Slack(Missed(u)) - TTL)
    /\ At(t, "deciding") => \A g \in req[t].list : Within(u, g, clock, 1 + MaxAge)
    /\ At(t, "granted") => Within(u, req[t].guild, clock, 1 + MaxAge)

ListsInStep == \A t \in Threads : ListInStep(t)

AccessInv == Served /\ Attempts /\ EntriesInStep /\ ListsInStep
==============================================================================
