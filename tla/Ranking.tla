------------------------------- MODULE Ranking -------------------------------
(***************************************************************************)
(* The worker's ranking: what happens to the ranks table between the       *)
(* delivery of a Discord event and its answer.                             *)
(*                                                                         *)
(* MessageCommandController starts RankingService#trackMessage without     *)
(* awaiting it and parses the same message as a command meanwhile, so one  *)
(* delivery runs two strands of handlers; any number of deliveries are in  *)
(* progress (noAck), and queries go through a pool of connections, so they *)
(* reach PostgreSQL in any order.  Each query is one statement and atomic. *)
(* A slash command arrives as an interaction and is not tracked.           *)
(***************************************************************************)
EXTENDS ColorArgument, FiniteSets

CONSTANTS
    Guilds, NoGuild,  \* guild ids, and the empty one of a direct message
    Users,            \* user ids, as numbers: the leaderboard breaks ties by id
    Cooldown,         \* INTERVAL '2 minutes'
    Never,            \* a NULL last_message_at
    NoTime,           \* a timestamp Date.parse rejects
    Xps,              \* the experience randomXp() may draw
    PageSize,         \* rows of a leaderboard page
    NoColor,          \* a NULL color
    NoRank, NoMessage, NoAnswer,
    Messages,         \* the events that may arrive
    Deliveries,       \* handler invocations, each used once
    MaxFaults         \* failed queries and crashes a behaviour may have

MinXp == 10
MaxXp == 20

ASSUME XpAssumption   == Xps \subseteq MinXp..MaxXp
ASSUME TimeAssumption == Cooldown \in Nat /\ Never \notin Nat /\ NoTime \notin Nat
ASSUME UserAssumption == Users \subseteq Nat /\ IsFiniteSet(Users)
ASSUME RankAssumption ==
    NoRank \notin [score : Nat, last : Nat \cup {Never}, color : AnyColor \cup {NoColor}]
ASSUME BoundsAssumption == PageSize \in Nat \ {0} /\ MaxFaults \in Nat

Message == [guild   : Guilds \cup {NoGuild},
            user    : Users,
            author  : {"member", "bot", "system", "webhook", "interaction"},
            at      : Nat \cup {NoTime},
            command : {"none", "setcolor", "top"},
            color   : AnyColor \cup {NoColor},  \* what its argument is parsed to
            page    : Nat \ {0}]

ASSUME MessagesAssumption ==
    /\ Messages \subseteq Message
    /\ NoMessage \notin Message
    /\ \A m \in Messages : m.author = "interaction" => m.command # "setcolor"
    /\ \A m \in Messages : m.command = "setcolor" => m.color \in AnyColor

Members == Guilds \X Users
Rank    == [score : Nat, last : Nat \cup {Never}, color : AnyColor \cup {NoColor}]
Credit  == [at : Nat, xp : MinXp..MaxXp]
\* A row of a page: the rank printed before it, its user and score.
Line    == [rank : Nat, user : Users, score : Nat]
\* The summary line; position 0 stands for "You are not ranked yet".
Summary == [position : Nat, score : Nat]
Answer  == [rows : SUBSET Line, me : Summary]

ASSUME AnswerAssumption == NoAnswer \notin Answer

VARIABLES
    enabled,  \* Redis: the guilds whose ranking flag is set
    ranks,    \* the ranks table
    msg,      \* the event each delivery handles
    track,    \* where its trackMessage is
    cmd,      \* where its command is
    page,     \* the rows its leaderboard command has read
    answer,   \* the leaderboard it answered with
    credits,  \* ghost: the messages each member was given experience for
    faults

vars == <<enabled, ranks, msg, track, cmd, page, answer, credits, faults>>

Member(d) == <<msg[d].guild, msg[d].user>>

Fault == faults > 0 /\ faults' = faults - 1

------------------------------------------------------------------------------
(***************************************************************************)
(* Delivery: both strands run up to their first await.                     *)
(***************************************************************************)

\* trackMessage leaves direct messages and what people did not write alone.
Countable(m) == m.guild # NoGuild /\ m.author = "member"

\* parseMessage ignores bots; an interaction is a command already.
IsCommand(m) == m.command # "none" /\ m.author # "bot"

Deliver(d, m) ==
    /\ msg[d] = NoMessage
    /\ msg' = [msg EXCEPT ![d] = m]
    /\ track' = [track EXCEPT ![d] = IF Countable(m) THEN "asked" ELSE "done"]
    /\ cmd' = [cmd EXCEPT ![d] = IF IsCommand(m) THEN m.command ELSE "done"]
    /\ UNCHANGED <<enabled, ranks, page, answer, credits, faults>>

\* CacheSyncController, or an eviction, changes a guild's flag.
Toggle(g) ==
    /\ enabled' = IF g \in enabled THEN enabled \ {g} ELSE enabled \cup {g}
    /\ UNCHANGED <<ranks, msg, track, cmd, page, answer, credits, faults>>

------------------------------------------------------------------------------
(***************************************************************************)
(* trackMessage.                                                           *)
(***************************************************************************)

\* MUTANT of Counts: the timestamp is not parsed.
CountsAnyTime(m) == m.guild \in enabled
\* isRankingEnabled, as Redis answers it now, and a timestamp that parses.
Counts(m) == m.guild \in enabled /\ m.at # NoTime

ReadFlag(d) ==
    /\ track[d] = "asked"
    /\ track' = [track EXCEPT ![d] = IF Counts(msg[d]) THEN "counts" ELSE "done"]
    /\ UNCHANGED <<enabled, ranks, msg, cmd, page, answer, credits, faults>>

\* MUTANT of Earns: only the distance in time counts, not the direction.
EarnsEitherWay(rank, at) ==
    \/ rank = NoRank \/ rank.last = Never
    \/ at > rank.last + Cooldown \/ rank.last > at + Cooldown
\* A first message, or one more than the cooldown after the last that earned.
Earns(rank, at) == rank = NoRank \/ rank.last = Never \/ at > rank.last + Cooldown

\* MUTANT of Earned: the row's score is replaced.
EarnedAnew(rank, at, xp) == [score |-> xp, last |-> at,
                             color |-> IF rank = NoRank THEN NoColor ELSE rank.color]
Earned(rank, at, xp) ==
    IF rank = NoRank THEN [score |-> xp, last |-> at, color |-> NoColor]
    ELSE [rank EXCEPT !.score = @ + xp, !.last = at]

\* recordMessage: one upsert, conflict and cooldown decided in it.
RecordMessage(d, xp) ==
    LET m == Member(d)  at == msg[d].at IN
    /\ track[d] = "counts"
    /\ track' = [track EXCEPT ![d] = "done"]
    /\ IF Earns(ranks[m], at)
       THEN /\ ranks' = [ranks EXCEPT ![m] = Earned(@, at, xp)]
            /\ credits' = [credits EXCEPT ![m] = Append(@, [at |-> at, xp |-> xp])]
       ELSE UNCHANGED <<ranks, credits>>
    /\ UNCHANGED <<enabled, msg, cmd, page, answer, faults>>

\* Redis or PostgreSQL refuses: logged, and the message earns nothing.
TrackFails(d) ==
    /\ track[d] \in {"asked", "counts"}
    /\ Fault
    /\ track' = [track EXCEPT ![d] = "done"]
    /\ UNCHANGED <<enabled, ranks, msg, cmd, page, answer, credits>>

------------------------------------------------------------------------------
(***************************************************************************)
(* Commands.                                                               *)
(***************************************************************************)

\* MUTANT of Colored: the conflicting row is overwritten whole.
ColoredAnew(rank, color) == [score |-> 0, last |-> Never, color |-> color]
\* upsertColor: a new row starts at score 0 and has no last message.
Colored(rank, color) ==
    IF rank = NoRank THEN [score |-> 0, last |-> Never, color |-> color]
    ELSE [rank EXCEPT !.color = color]

SetColor(d) ==
    /\ cmd[d] = "setcolor"
    /\ cmd' = [cmd EXCEPT ![d] = "done"]
    /\ ranks' = IF msg[d].guild = NoGuild THEN ranks
                ELSE [ranks EXCEPT ![Member(d)] = Colored(@, msg[d].color)]
    /\ UNCHANGED <<enabled, msg, track, page, answer, credits, faults>>

\* isRankingEnabled, or no guild at all: a text answers.
CheckFlag(d) ==
    /\ cmd[d] = "top"
    /\ cmd' = [cmd EXCEPT ![d] = IF msg[d].guild \in enabled THEN "pages" ELSE "done"]
    /\ UNCHANGED <<enabled, ranks, msg, track, page, answer, credits, faults>>

Ranked(g) == {u \in Users : ranks[<<g, u>>] # NoRank}

\* ORDER BY score DESC, user_id ASC; row_number() of u.
PositionOf(g, u) ==
    1 + Cardinality({v \in Ranked(g) :
            LET other == ranks[<<g, v>>].score  own == ranks[<<g, u>>].score IN
            other > own \/ (other = own /\ v < u)})

\* LIMIT PageSize OFFSET (n - 1) * PageSize; rows are numbered from there.
OnPage(g, n) ==
    {u \in Ranked(g) : PositionOf(g, u) \in ((n - 1) * PageSize + 1)..(n * PageSize)}

PageOf(g, n) ==
    {[rank |-> PositionOf(g, u), user |-> u, score |-> ranks[<<g, u>>].score] :
        u \in OnPage(g, n)}

ReadPage(d) ==
    LET rows == PageOf(msg[d].guild, msg[d].page) IN
    /\ cmd[d] = "pages"
    /\ page' = [page EXCEPT ![d] = rows]
    /\ cmd' = [cmd EXCEPT ![d] = IF rows = {} THEN "done" ELSE "summary"]
    /\ UNCHANGED <<enabled, ranks, msg, track, answer, credits, faults>>

SummaryOf(g, u) ==
    IF u \in Ranked(g) THEN [position |-> PositionOf(g, u), score |-> ranks[<<g, u>>].score]
                       ELSE [position |-> 0, score |-> 0]

ReadSummary(d) ==
    /\ cmd[d] = "summary"
    /\ answer' = [answer EXCEPT ![d] = [rows |-> page[d],
                                        me   |-> SummaryOf(msg[d].guild, msg[d].user)]]
    /\ cmd' = [cmd EXCEPT ![d] = "done"]
    /\ page' = [page EXCEPT ![d] = {}]
    /\ UNCHANGED <<enabled, ranks, msg, track, credits, faults>>

\* A query fails: the handler throws and nothing is answered.
CommandFails(d) ==
    /\ cmd[d] # "done" /\ msg[d] # NoMessage
    /\ Fault
    /\ cmd' = [cmd EXCEPT ![d] = "done"]
    /\ page' = [page EXCEPT ![d] = {}]
    /\ UNCHANGED <<enabled, ranks, msg, track, answer, credits>>

\* The worker dies with everything in progress; noAck redelivers nothing.
Crash ==
    /\ Fault
    /\ track' = [d \in Deliveries |-> IF msg[d] = NoMessage THEN track[d] ELSE "done"]
    /\ cmd' = [d \in Deliveries |-> IF msg[d] = NoMessage THEN cmd[d] ELSE "done"]
    /\ page' = [d \in Deliveries |-> {}]
    /\ UNCHANGED <<enabled, ranks, msg, answer, credits>>

------------------------------------------------------------------------------
Init ==
    /\ enabled \in SUBSET Guilds
    /\ ranks = [m \in Members |-> NoRank]
    /\ msg = [d \in Deliveries |-> NoMessage]
    /\ track = [d \in Deliveries |-> "idle"]
    /\ cmd = [d \in Deliveries |-> "idle"]
    /\ page = [d \in Deliveries |-> {}]
    /\ answer = [d \in Deliveries |-> NoAnswer]
    /\ credits = [m \in Members |-> <<>>]
    /\ faults = MaxFaults

Tracking(d) == ReadFlag(d) \/ (\E xp \in Xps : RecordMessage(d, xp)) \/ TrackFails(d)

Commanding(d) ==
    \/ SetColor(d)
    \/ CheckFlag(d) \/ ReadPage(d) \/ ReadSummary(d)
    \/ CommandFails(d)

Next ==
    \/ \E d \in Deliveries : \/ \E m \in Messages : Deliver(d, m)
                             \/ Tracking(d)
                             \/ Commanding(d)
    \/ \E g \in Guilds : Toggle(g)
    \/ Crash

Spec == Init /\ [][Next]_vars

------------------------------------------------------------------------------
(***************************************************************************)
(* Properties.                                                             *)
(***************************************************************************)

\* Every variable has its type; in particular no message reaches the upsert
\* with a timestamp PostgreSQL cannot cast.
TypeOK ==
    /\ enabled \in SUBSET Guilds
    /\ ranks \in [Members -> Rank \cup {NoRank}]
    /\ msg \in [Deliveries -> Messages \cup {NoMessage}]
    /\ track \in [Deliveries -> {"idle", "asked", "counts", "done"}]
    /\ \A d \in Deliveries :
        /\ msg[d] = NoMessage => /\ track[d] = "idle" /\ cmd[d] = "idle"
                                 /\ page[d] = {} /\ answer[d] = NoAnswer
        /\ track[d] = "counts" => msg[d].guild \in Guilds /\ msg[d].at \in Nat
        /\ cmd[d] \in {"pages", "summary"} => msg[d].guild \in Guilds
    /\ cmd \in [Deliveries -> {"idle", "setcolor", "top", "pages", "summary", "done"}]
    /\ page \in [Deliveries -> SUBSET Line]
    /\ answer \in [Deliveries -> Answer \cup {NoAnswer}]
    /\ credits \in [Members -> Seq(Credit)]
    /\ faults \in 0..MaxFaults

\* However the messages of a member are reordered on their way to the table,
\* any two that earned experience were sent more than the cooldown apart.
CooldownRespected ==
    \A m \in Members : \A i, j \in 1..Len(credits[m]) :
        i < j => credits[m][j].at > credits[m][i].at + Cooldown

\* A score is worth the messages that earned it, no matter how colour changes
\* and messages raced to create the row: between MinXp and MaxXp for each.
ScoreExplained ==
    \A m \in Members :
        LET n == Len(credits[m]) IN
        IF ranks[m] = NoRank THEN n = 0
        ELSE ranks[m].score \in (MinXp * n)..(MaxXp * n)

\* The page and the summary of one answer come from two queries: users may
\* move between them, but somebody on the page is never told to be unranked,
\* nor that their score is lower than the page says.
AnswerAgrees ==
    \A d \in Deliveries : answer[d] # NoAnswer =>
        \A line \in answer[d].rows : line.user = msg[d].user =>
            /\ answer[d].me.position # 0
            /\ answer[d].me.score >= line.score

\* A member who types the color the table has for it, as the answer to
\* =setcolor printed it or as three channels, gets the same color again,
\* whether what was typed looks like a decimal number or not.
ColorReadsBack ==
    \A m \in Members :
        ranks[m] # NoRank /\ ranks[m].color # NoColor =>
            \A words \in Spellings(ranks[m].color) : ReadColor(words) = ranks[m].color

------------------------------------------------------------------------------
(***************************************************************************)
(* The inductive invariant behind them.                                    *)
(***************************************************************************)

\* A row remembers the last message that earned, and NULL until one did.
LastCredit ==
    \A m \in Members :
        LET n == Len(credits[m]) IN
        /\ ranks[m] = NoRank => n = 0
        /\ ranks[m] # NoRank =>
               /\ n = 0 => ranks[m].last = Never
               /\ n > 0 => ranks[m].last = credits[m][n].at

\* Pages in memory are not ahead of the table.
PagesBehind ==
    \A d \in Deliveries : \A line \in page[d] :
        LET rank == ranks[<<msg[d].guild, line.user>>] IN
        msg[d].guild \in Guilds /\ rank # NoRank /\ rank.score >= line.score

RankingInv ==
    /\ CooldownRespected /\ ScoreExplained /\ AnswerAgrees
    /\ LastCredit /\ PagesBehind
==============================================================================
