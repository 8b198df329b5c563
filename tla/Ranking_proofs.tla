---------------------------- MODULE Ranking_proofs ----------------------------
(***************************************************************************)
(* Proofs about Ranking, for every set of guilds, users and messages, every *)
(* number of deliveries and faults, and every cooldown; and about the       *)
(* colors of ColorArgument, for all bases, widths and sizes of a channel.   *)
(***************************************************************************)
EXTENDS Ranking, FiniteSetTheorems, SequenceTheorems, TLAPS

------------------------------------------------------------------------------
(***************************************************************************)
(* Lemmas about the operators.                                             *)
(***************************************************************************)

\* A message leaves the row it counts for a row.
LEMMA EarnedType ==
    ASSUME NEW rank \in Rank \cup {NoRank}, NEW at \in Nat, NEW xp \in Nat
    PROVE  Earned(rank, at, xp) \in Rank
<1>1. CASE rank = NoRank
  BY <1>1 DEF Earned, Rank
<1>2. CASE rank # NoRank
  <2>1. rank \in Rank /\ rank.score \in Nat
    BY <1>2 DEF Rank
  <2>2. rank.score + xp \in Nat
    BY <2>1
  <2>3. Earned(rank, at, xp) = [rank EXCEPT !.score = rank.score + xp, !.last = at]
    BY <1>2 DEF Earned
  <2> DEFINE sum == rank.score + xp
  <2> HIDE DEF sum
  <2>4. [rank EXCEPT !.score = sum, !.last = at] \in Rank
    BY <2>1, <2>2 DEF Rank, sum
  <2>. QED BY <2>3, <2>4 DEF sum
<1>. QED BY <1>1, <1>2

\* So does a colour.
LEMMA ColoredType ==
    ASSUME NEW rank \in Rank \cup {NoRank}, NEW color \in AnyColor \cup {NoColor}
    PROVE  Colored(rank, color) \in Rank
BY DEF Colored, Rank

\* Positions are numbers from 1.
LEMMA PositionType ==
    ASSUME NEW g, NEW u
    PROVE  PositionOf(g, u) \in Nat \ {0}
<1> DEFINE before == {v \in Ranked(g) :
            LET other == ranks[<<g, v>>].score  own == ranks[<<g, u>>].score IN
            other > own \/ (other = own /\ v < u)}
<1>1. before \subseteq Users
  BY DEF Ranked
<1>2. Cardinality(before) \in Nat
  BY <1>1, UserAssumption, FS_Subset, FS_CardinalityType
<1> HIDE DEF before
<1>3. 1 + Cardinality(before) \in Nat \ {0}
  BY <1>2
<1>. QED BY <1>3 DEF PositionOf, before

\* What a leaderboard reads has the type of what it shows.
LEMMA ReadTypes ==
    ASSUME TypeOK, NEW g \in Guilds, NEW n, NEW u \in Users
    PROVE  PageOf(g, n) \subseteq Line /\ SummaryOf(g, u) \in Summary
<1>1. \A v \in Ranked(g) : v \in Users /\ ranks[<<g, v>>].score \in Nat
  BY DEF TypeOK, Ranked, Members, Rank
<1>2. OnPage(g, n) \subseteq Ranked(g)
  BY DEF OnPage
<1>3. PageOf(g, n) \subseteq Line
  <2> SUFFICES ASSUME NEW v \in OnPage(g, n)
               PROVE  [rank |-> PositionOf(g, v), user |-> v, score |-> ranks[<<g, v>>].score] \in Line
    BY DEF PageOf
  <2>. QED BY <1>1, <1>2, PositionType DEF Line
<1>. QED BY <1>1, <1>3, PositionType DEF SummaryOf, Summary

------------------------------------------------------------------------------
(***************************************************************************)
(* Type correctness.                                                       *)
(***************************************************************************)

\* Every variable keeps its type: no message without a guild or with a bad
\* timestamp is recorded, no leaderboard is read without a guild.
THEOREM TypeCorrect == Spec => []TypeOK
<1> USE XpAssumption, TimeAssumption, RankAssumption, BoundsAssumption,
        MessagesAssumption, AnswerAssumption DEF MinXp, MaxXp
<1>1. ASSUME Init PROVE TypeOK
  BY <1>1 DEF Init, TypeOK
<1>2. TypeOK /\ [Next]_vars => TypeOK'
  <2> SUFFICES ASSUME TypeOK, [Next]_vars
               PROVE  TypeOK'
    OBVIOUS
  <2>1. ASSUME NEW d \in Deliveries, NEW m \in Messages, Deliver(d, m)
        PROVE  TypeOK'
    <3>1. m \in Message /\ m # NoMessage
      OBVIOUS
    <3>2. IsCommand(m) => m.command \in {"setcolor", "top"}
      BY <3>1 DEF IsCommand, Message
    <3>. QED BY <2>1, <3>1, <3>2 DEF Deliver, TypeOK
  <2>2. ASSUME NEW d \in Deliveries, ReadFlag(d)
        PROVE  TypeOK'
    <3>1. msg[d] \in Message
      BY <2>2 DEF ReadFlag, TypeOK
    <3>2. Counts(msg[d]) => msg[d].guild \in Guilds /\ msg[d].at \in Nat
      BY <3>1 DEF Counts, TypeOK, Message
    <3>. QED BY <2>2, <3>2 DEF ReadFlag, TypeOK
  <2>3. ASSUME NEW d \in Deliveries, NEW xp \in Xps, RecordMessage(d, xp)
        PROVE  TypeOK'
    <3> DEFINE m == Member(d)
               at == msg[d].at
    <3>1. msg[d] \in Message /\ at \in Nat /\ m \in Members /\ xp \in 10..20 /\ xp \in Nat
      BY <2>3 DEF RecordMessage, TypeOK, Member, Members, Message
    <3>2. ranks' \in [Members -> Rank \cup {NoRank}]
      <4>1. Earned(ranks[m], at, xp) \in Rank
        BY <3>1, EarnedType DEF TypeOK
      <4>. QED BY <2>3, <3>1, <4>1 DEF RecordMessage, TypeOK
    <3>3. credits' \in [Members -> Seq(Credit)]
      <4>1. [at |-> at, xp |-> xp] \in Credit
        BY <3>1 DEF Credit
      <4>2. Append(credits[m], [at |-> at, xp |-> xp]) \in Seq(Credit)
        BY <3>1, <4>1 DEF TypeOK
      <4>. QED BY <2>3, <3>1, <4>2 DEF RecordMessage, TypeOK
    <3>. QED BY <2>3, <3>1, <3>2, <3>3 DEF RecordMessage, TypeOK
  <2>4. ASSUME NEW d \in Deliveries, TrackFails(d)
        PROVE  TypeOK'
    BY <2>4 DEF TrackFails, Fault, TypeOK
  <2>5. ASSUME NEW d \in Deliveries, SetColor(d)
        PROVE  TypeOK'
    <3>1. /\ msg[d] \in Message /\ msg[d].color \in AnyColor \cup {NoColor}
          /\ msg[d].guild # NoGuild => Member(d) \in Members
      BY <2>5 DEF SetColor, TypeOK, Member, Members, Message
    <3>2. ranks' \in [Members -> Rank \cup {NoRank}]
      <4>1. msg[d].guild # NoGuild => Colored(ranks[Member(d)], msg[d].color) \in Rank
        BY <3>1, ColoredType DEF TypeOK
      <4>. QED BY <2>5, <3>1, <4>1 DEF SetColor, TypeOK
    <3>. QED BY <2>5, <3>2 DEF SetColor, TypeOK
  <2>6. ASSUME NEW d \in Deliveries, CheckFlag(d)
        PROVE  TypeOK'
    BY <2>6 DEF CheckFlag, TypeOK
  <2>7. ASSUME NEW d \in Deliveries, ReadPage(d)
        PROVE  TypeOK'
    <3>1. msg[d].guild \in Guilds /\ msg[d] \in Message
      BY <2>7 DEF ReadPage, TypeOK
    <3>2. PageOf(msg[d].guild, msg[d].page) \subseteq Line
      BY <3>1, ReadTypes DEF Message
    <3>. QED BY <2>7, <3>1, <3>2 DEF ReadPage, TypeOK
  <2>8. ASSUME NEW d \in Deliveries, ReadSummary(d)
        PROVE  TypeOK'
    <3>1. msg[d].guild \in Guilds /\ msg[d] \in Message
      BY <2>8 DEF ReadSummary, TypeOK
    <3>2. SummaryOf(msg[d].guild, msg[d].user) \in Summary
      BY <3>1, ReadTypes DEF Message
    <3>3. [rows |-> page[d], me |-> SummaryOf(msg[d].guild, msg[d].user)] \in Answer
      BY <3>2 DEF Answer, TypeOK
    <3>. QED BY <2>8, <3>1, <3>3 DEF ReadSummary, TypeOK
  <2>9. ASSUME NEW d \in Deliveries, CommandFails(d)
        PROVE  TypeOK'
    BY <2>9 DEF CommandFails, Fault, TypeOK
  <2>10. ASSUME NEW g \in Guilds, Toggle(g)
         PROVE  TypeOK'
    BY <2>10 DEF Toggle, TypeOK
  <2>11. CASE Crash
    BY <2>11 DEF Crash, Fault, TypeOK
  <2>12. CASE UNCHANGED vars
    BY <2>12 DEF vars, TypeOK
  <2>. QED
    BY <2>1, <2>2, <2>3, <2>4, <2>5, <2>6, <2>7, <2>8, <2>9, <2>10, <2>11, <2>12
       DEF Next, Tracking, Commanding
<1>. QED BY <1>1, <1>2, PTL DEF Spec

------------------------------------------------------------------------------
(***************************************************************************)
(* The ranking invariant, one kind of step at a time.                      *)
(***************************************************************************)

LEMMA RankingInitially == Init => RankingInv
BY DEF Init, RankingInv, CooldownRespected, ScoreExplained, AnswerAgrees,
       LastCredit, PagesBehind

\* Steps that change no row and give no credit.
LEMMA ReadSteps ==
    ASSUME RankingInv, UNCHANGED <<ranks, credits>>, PagesBehind', AnswerAgrees'
    PROVE  RankingInv'
BY DEF RankingInv, CooldownRespected, ScoreExplained, LastCredit

\* A row never loses score: what was read of it before stays below it.
LEMMA PagesStayBehind ==
    ASSUME PagesBehind, TypeOK, NEW m \in Members, NEW rank \in Rank,
           ranks' = [ranks EXCEPT ![m] = rank],
           ranks[m] # NoRank => rank.score >= ranks[m].score,
           UNCHANGED <<msg, page>>
    PROVE  PagesBehind'
<1> SUFFICES ASSUME NEW d \in Deliveries, NEW line \in page[d]
             PROVE  LET now == ranks'[<<msg[d].guild, line.user>>] IN
                    msg[d].guild \in Guilds /\ now # NoRank /\ now.score >= line.score
  BY DEF PagesBehind
<1> DEFINE n == <<msg[d].guild, line.user>>
<1>1. line.user \in Users /\ line.score \in Nat
  BY DEF TypeOK, Line
<1>2. msg[d].guild \in Guilds /\ ranks[n] # NoRank /\ ranks[n].score >= line.score
  BY DEF PagesBehind
<1>3. n \in Members /\ ranks[n] \in Rank
  BY <1>1, <1>2 DEF Members, TypeOK
<1>4. CASE n = m
  <2>1. ranks'[n] = rank /\ rank.score >= ranks[n].score /\ rank # NoRank
    BY <1>2, <1>3, <1>4, RankAssumption DEF TypeOK, Rank
  <2>. QED BY <1>1, <1>2, <1>3, <2>1 DEF Rank
<1>5. CASE n # m
  BY <1>2, <1>3, <1>5 DEF TypeOK
<1>. QED BY <1>4, <1>5

\* A recorded message: the credit it earns comes after the last one, by more
\* than the cooldown, and is worth its experience.
LEMMA RecordSteps ==
    ASSUME RankingInv, TypeOK, NEW d \in Deliveries, NEW xp \in Xps, RecordMessage(d, xp)
    PROVE  RankingInv'
<1> USE DEF RankingInv, MinXp, MaxXp
<1> DEFINE m == Member(d)
           at == msg[d].at
           rank == ranks[m]
           n == Len(credits[m])
           new == Earned(rank, at, xp)
<1>1. /\ msg[d] \in Message /\ at \in Nat /\ m \in Members /\ xp \in 10..20 /\ xp \in Nat
      /\ rank \in Rank \cup {NoRank} /\ credits[m] \in Seq(Credit) /\ n \in Nat
      /\ Cooldown \in Nat /\ UNCHANGED <<msg, page, answer>>
  BY MessagesAssumption, XpAssumption, TimeAssumption
     DEF RecordMessage, TypeOK, Member, Members, Message
<1>2. AnswerAgrees'
  BY <1>1 DEF AnswerAgrees
<1>3. CASE ~Earns(rank, at)
  <2>1. UNCHANGED <<ranks, credits>>
    BY <1>3 DEF RecordMessage
  <2>. QED BY <1>1, <1>2, <2>1, ReadSteps DEF PagesBehind
<1>4. CASE Earns(rank, at)
  <2>1. /\ ranks' = [ranks EXCEPT ![m] = new]
        /\ credits' = [credits EXCEPT ![m] = Append(@, [at |-> at, xp |-> xp])]
    BY <1>4 DEF RecordMessage
  <2>2. /\ credits'[m] = Append(credits[m], [at |-> at, xp |-> xp])
        /\ \A p \in Members \ {m} : credits'[p] = credits[p] /\ ranks'[p] = ranks[p]
        /\ ranks'[m] = new
    BY <1>1, <2>1 DEF TypeOK
  <2>3. /\ Len(credits'[m]) = n + 1 /\ credits'[m][n + 1].at = at
        /\ \A i \in 1..n : credits'[m][i] = credits[m][i]
    BY <1>1, <2>2
  <2>4. \A i \in 1..n : credits[m][i].at \in Nat
    <3> SUFFICES ASSUME NEW i \in 1..n PROVE credits[m][i].at \in Nat
      OBVIOUS
    <3>1. credits[m][i] \in Credit
      BY <1>1, ElementOfSeq
    <3>. QED BY <3>1 DEF Credit
  <2>5. new \in Rank /\ new # NoRank /\ new.last = at
        /\ new.score = (IF rank = NoRank THEN xp ELSE rank.score + xp)
    <3>1. new \in Rank
      BY <1>1, EarnedType
    <3>2. new # NoRank
      BY <3>1, RankAssumption DEF Rank
    <3>. QED BY <1>1, <3>1, <3>2 DEF Earned, Rank
  <2>6. n > 0 => at > credits[m][n].at + Cooldown
    <3> SUFFICES ASSUME n > 0 PROVE at > credits[m][n].at + Cooldown
      OBVIOUS
    <3>1. rank # NoRank /\ rank.last = credits[m][n].at
      BY <1>1 DEF LastCredit
    <3>2. rank.last \in Nat
      BY <1>1, <2>4, <3>1
    <3>. QED BY <1>4, <3>1, <3>2, TimeAssumption DEF Earns
  <2> HIDE DEF m, at, rank, n, new
  <2>7. CooldownRespected'
    <3> SUFFICES ASSUME NEW p \in Members,
                        NEW i \in 1..Len(credits'[p]), NEW j \in 1..Len(credits'[p]), i < j
                 PROVE  credits'[p][j].at > credits'[p][i].at + Cooldown
      BY DEF CooldownRespected
    <3>1. CASE p # m
      BY <2>2, <3>1 DEF CooldownRespected
    <3>2. CASE p = m /\ j <= n
      <4>1. i \in 1..n /\ j \in 1..n
        BY <1>1, <2>3, <3>2
      <4>2. credits[m][j].at > credits[m][i].at + Cooldown
        BY <1>1, <4>1, <3>2 DEF CooldownRespected, n
      <4>. QED BY <2>3, <3>2, <4>1, <4>2
    <3>3. CASE p = m /\ j = n + 1
      <4>0. i \in 1..(n + 1) /\ i < n + 1
        BY <2>3, <3>3
      <4>1. i \in 1..n /\ n \in 1..n /\ n > 0
        BY <1>1, <4>0
      <4>2. CASE i = n
        BY <2>3, <2>6, <3>3, <4>1, <4>2
      <4>3. CASE i < n
        <5>1. credits[m][n].at > credits[m][i].at + Cooldown
          BY <1>1, <4>1, <4>3 DEF CooldownRespected, n
        <5>2. credits[m][n].at \in Nat /\ credits[m][i].at \in Nat
          BY <2>4, <4>1
        <5>3. at > credits[m][n].at + Cooldown /\ at \in Nat /\ Cooldown \in Nat
          BY <1>1, <2>6, <4>1
        <5>4. at > credits[m][i].at + Cooldown
          BY <5>1, <5>2, <5>3
        <5>. QED BY <2>3, <3>3, <4>1, <5>4
      <4>. QED BY <1>1, <4>1, <4>2, <4>3
    <3>4. p = m => j <= n \/ j = n + 1
      BY <1>1, <2>3
    <3>. QED BY <3>1, <3>2, <3>3, <3>4
  <2>8. ScoreExplained'
    <3> SUFFICES ASSUME NEW p \in Members
                 PROVE  IF ranks'[p] = NoRank THEN Len(credits'[p]) = 0
                        ELSE ranks'[p].score \in (10 * Len(credits'[p]))..(20 * Len(credits'[p]))
      BY DEF ScoreExplained
    <3>1. CASE p # m
      BY <2>2, <3>1 DEF ScoreExplained
    <3>2. CASE p = m /\ rank = NoRank
      <4>1. n = 0
        BY <1>1, <3>2 DEF ScoreExplained, n, rank
      <4>2. Len(credits'[m]) = 1 /\ ranks'[m] # NoRank /\ ranks'[m].score = xp
        BY <2>2, <2>3, <2>5, <3>2, <4>1
      <4>. QED BY <1>1, <3>2, <4>2
    <3>3. CASE p = m /\ rank # NoRank
      <4>1. rank.score \in (10 * n)..(20 * n)
        BY <1>1, <3>3 DEF ScoreExplained, n, rank
      <4>2. rank.score + xp \in (10 * (n + 1))..(20 * (n + 1))
        BY <1>1, <4>1
      <4>. QED BY <2>2, <2>3, <2>5, <3>3, <4>2
    <3>. QED BY <3>1, <3>2, <3>3
  <2>9. LastCredit'
    <3> SUFFICES ASSUME NEW p \in Members
                 PROVE  /\ ranks'[p] = NoRank => Len(credits'[p]) = 0
                        /\ ranks'[p] # NoRank =>
                            /\ Len(credits'[p]) = 0 => ranks'[p].last = Never
                            /\ Len(credits'[p]) > 0 =>
                                ranks'[p].last = credits'[p][Len(credits'[p])].at
      BY DEF LastCredit
    <3>1. CASE p # m
      BY <2>2, <3>1 DEF LastCredit
    <3>2. CASE p = m
      BY <1>1, <2>2, <2>3, <2>5, <3>2
    <3>. QED BY <3>1, <3>2
  <2>10. PagesBehind'
    <3>1. rank # NoRank => new.score >= rank.score
      BY <1>1, <2>5 DEF Rank
    <3>. QED BY <1>1, <2>1, <2>5, <3>1, PagesStayBehind DEF rank
  <2>. QED BY <1>2, <2>7, <2>8, <2>9, <2>10
<1>. QED BY <1>3, <1>4

\* A colour neither gives nor takes score, on a new row or an old one.
LEMMA ColorSteps ==
    ASSUME RankingInv, TypeOK, NEW d \in Deliveries, SetColor(d)
    PROVE  RankingInv'
<1> USE DEF RankingInv, MinXp, MaxXp
<1> DEFINE m == Member(d)
           rank == ranks[m]
           new == Colored(rank, msg[d].color)
<1>1. msg[d] \in Message /\ UNCHANGED <<msg, page, answer, credits>>
  BY MessagesAssumption DEF SetColor, TypeOK
<1>2. AnswerAgrees' /\ CooldownRespected'
  BY <1>1 DEF AnswerAgrees, CooldownRespected
<1>3. CASE msg[d].guild = NoGuild
  BY <1>1, <1>2, <1>3, ReadSteps DEF SetColor, PagesBehind
<1>4. CASE msg[d].guild # NoGuild
  <2>1. m \in Members /\ rank \in Rank \cup {NoRank}
    BY <1>1, <1>4 DEF Member, Members, Message, TypeOK
  <2>2. ranks' = [ranks EXCEPT ![m] = new]
    BY <1>4 DEF SetColor
  <2>3. /\ new \in Rank /\ new # NoRank
        /\ rank # NoRank => new.score = rank.score /\ new.last = rank.last
        /\ rank = NoRank => new.score = 0 /\ new.last = Never
    <3>1. new \in Rank
      <4>1. msg[d].color \in AnyColor \cup {NoColor}
        BY <1>1 DEF Message
      <4>. QED BY <2>1, <4>1, ColoredType
    <3>2. new # NoRank
      BY <3>1, RankAssumption DEF Rank
    <3>. QED BY <2>1, <3>1, <3>2 DEF Colored, Rank
  <2>4. \A p \in Members : ranks'[p] = IF p = m THEN new ELSE ranks[p]
    BY <2>1, <2>2 DEF TypeOK
  <2> HIDE DEF m, rank, new
  <2>5. ScoreExplained'
    BY <1>1, <2>1, <2>3, <2>4 DEF ScoreExplained, rank
  <2>6. LastCredit'
    <3>1. \A p \in Members : Len(credits[p]) \in Nat
      BY DEF TypeOK
    <3>. QED BY <1>1, <2>1, <2>3, <2>4, <3>1 DEF LastCredit, rank
  <2>7. PagesBehind'
    <3>1. rank # NoRank => new.score >= rank.score
      BY <2>1, <2>3 DEF Rank
    <3>. QED BY <1>1, <2>1, <2>2, <2>3, <3>1, PagesStayBehind DEF rank
  <2>. QED BY <1>2, <2>5, <2>6, <2>7
<1>. QED BY <1>3, <1>4

\* A page shows rows of the table.
LEMMA PageSteps ==
    ASSUME RankingInv, TypeOK, NEW d \in Deliveries, ReadPage(d)
    PROVE  RankingInv'
<1> USE DEF RankingInv
<1>1. UNCHANGED <<ranks, credits, msg, answer>> /\ msg[d].guild \in Guilds
      /\ page' = [page EXCEPT ![d] = PageOf(msg[d].guild, msg[d].page)]
  BY DEF ReadPage, TypeOK
<1>2. \A line \in PageOf(msg[d].guild, msg[d].page) :
        LET rank == ranks[<<msg[d].guild, line.user>>] IN
        rank # NoRank /\ rank.score >= line.score
  <2>1. \A v \in Ranked(msg[d].guild) :
            ranks[<<msg[d].guild, v>>] # NoRank /\ ranks[<<msg[d].guild, v>>].score \in Nat
    BY <1>1 DEF Ranked, TypeOK, Members, Rank
  <2>2. OnPage(msg[d].guild, msg[d].page) \subseteq Ranked(msg[d].guild)
    BY DEF OnPage
  <2> TAKE line \in PageOf(msg[d].guild, msg[d].page)
  <2>3. PICK v \in OnPage(msg[d].guild, msg[d].page) :
            line = [rank |-> PositionOf(msg[d].guild, v), user |-> v,
                    score |-> ranks[<<msg[d].guild, v>>].score]
    BY Zenon DEF PageOf
  <2>. QED BY <2>1, <2>2, <2>3
<1>3. PagesBehind'
  BY <1>1, <1>2 DEF PagesBehind, TypeOK
<1>. QED BY <1>1, <1>3, ReadSteps DEF AnswerAgrees

\* The summary is read of a table that has only grown since the page.
LEMMA SummarySteps ==
    ASSUME RankingInv, TypeOK, NEW d \in Deliveries, ReadSummary(d)
    PROVE  RankingInv'
<1> USE DEF RankingInv
<1> DEFINE me == SummaryOf(msg[d].guild, msg[d].user)
<1>1. UNCHANGED <<ranks, credits, msg>> /\ page' = [page EXCEPT ![d] = {}]
      /\ answer' = [answer EXCEPT ![d] = [rows |-> page[d], me |-> me]]
  BY DEF ReadSummary
<1>2. \A line \in page[d] : line.user = msg[d].user =>
            me.position # 0 /\ me.score >= line.score
  <2> SUFFICES ASSUME NEW line \in page[d], line.user = msg[d].user
               PROVE  me.position # 0 /\ me.score >= line.score
    OBVIOUS
  <2>1. line.user \in Users
    BY DEF TypeOK, Line
  <2>2. msg[d].user \in Ranked(msg[d].guild)
        /\ ranks[<<msg[d].guild, msg[d].user>>].score >= line.score
    BY <2>1 DEF PagesBehind, Ranked
  <2>. QED BY <2>2, PositionType DEF SummaryOf
<1> HIDE DEF me
<1>3. AnswerAgrees'
  <2> SUFFICES ASSUME NEW e \in Deliveries, answer'[e] # NoAnswer,
                      NEW line \in answer'[e].rows, line.user = msg[e].user
               PROVE  answer'[e].me.position # 0 /\ answer'[e].me.score >= line.score
    BY <1>1 DEF AnswerAgrees
  <2>1. CASE e = d
    BY <1>1, <1>2, <2>1 DEF TypeOK
  <2>2. CASE e # d
    BY <1>1, <2>2 DEF TypeOK, AnswerAgrees
  <2>. QED BY <2>1, <2>2
<1>4. PagesBehind'
  BY <1>1 DEF PagesBehind, TypeOK
<1>. QED BY <1>1, <1>3, <1>4, ReadSteps

LEMMA RankingStays ==
    ASSUME RankingInv, TypeOK, [Next]_vars
    PROVE  RankingInv'
<1>1. ASSUME NEW d \in Deliveries, NEW m \in Messages, Deliver(d, m)
      PROVE  RankingInv'
  <2>1. UNCHANGED <<ranks, credits, page, answer>> /\ msg[d] = NoMessage
        /\ msg' = [msg EXCEPT ![d] = m]
    BY <1>1 DEF Deliver
  <2>2. page[d] = {} /\ answer[d] = NoAnswer
    BY <2>1 DEF TypeOK
  <2>. QED BY <2>1, <2>2, ReadSteps DEF RankingInv, PagesBehind, AnswerAgrees, TypeOK
<1>2. CASE UNCHANGED <<ranks, credits, msg, answer>>
           /\ \A d \in Deliveries : page'[d] = page[d] \/ page'[d] = {}
  BY <1>2, ReadSteps DEF RankingInv, PagesBehind, AnswerAgrees
<1>3. ASSUME NEW d \in Deliveries, CommandFails(d)
      PROVE  RankingInv'
  BY <1>2, <1>3 DEF CommandFails, TypeOK
<1>4. CASE Crash
  BY <1>2, <1>4 DEF Crash, TypeOK
<1>5. ASSUME NEW d \in Deliveries, ReadFlag(d) \/ TrackFails(d) \/ CheckFlag(d)
      PROVE  RankingInv'
  BY <1>2, <1>5 DEF ReadFlag, TrackFails, CheckFlag
<1>6. ASSUME NEW g \in Guilds, Toggle(g)
      PROVE  RankingInv'
  BY <1>2, <1>6 DEF Toggle
<1>7. CASE UNCHANGED vars
  BY <1>2, <1>7 DEF vars
<1>. QED
  BY <1>1, <1>3, <1>4, <1>5, <1>6, <1>7, RecordSteps, ColorSteps, PageSteps, SummarySteps
     DEF Next, Tracking, Commanding

------------------------------------------------------------------------------

\* However messages are reordered, two that earned a member experience were
\* sent more than the cooldown apart.
THEOREM Cooldowns == Spec => []CooldownRespected
<1>1. RankingInv => CooldownRespected
  BY DEF RankingInv
<1>. QED BY <1>1, RankingInitially, RankingStays, TypeCorrect, PTL DEF Spec

\* A score is worth between 10 and 20 for each message that earned it.
THEOREM Scores == Spec => []ScoreExplained
<1>1. RankingInv => ScoreExplained
  BY DEF RankingInv
<1>. QED BY <1>1, RankingInitially, RankingStays, TypeCorrect, PTL DEF Spec

\* A leaderboard's summary never contradicts its page about the asker.
THEOREM Answers == Spec => []AnswerAgrees
<1>1. RankingInv => AnswerAgrees
  BY DEF RankingInv
<1>. QED BY <1>1, RankingInitially, RankingStays, TypeCorrect, PTL DEF Spec

------------------------------------------------------------------------------
(***************************************************************************)
(* Induction over the numbers, from the well-foundedness of the strict     *)
(* subsets of a finite set, which needs no theorem with an operator for a  *)
(* parameter.                                                              *)
(***************************************************************************)

\* Sets of finite sets have minimal members.
LEMMA MinimalSet ==
    ASSUME NEW S, NEW F \in SUBSET FiniteSubsetsOf(S), F # {}
    PROVE  \E m \in F : \A n \in F : n \subseteq m => n = m
<1>1. PICK m \in F : \A n \in F : ~(<<n, m>> \in StrictSubsetOrdering(S))
  BY FS_StrictSubsetOrderingWellFounded, WFMin
<1>2. \A n \in F : n \subseteq m => n = m
  BY <1>1 DEF StrictSubsetOrdering, FiniteSubsetsOf
<1>. QED BY <1>2

\* Sets of numbers have least members.
LEMMA LeastNumber ==
    ASSUME NEW S \in SUBSET Nat, S # {}
    PROVE  \E m \in S : \A n \in S : m <= n
<1> DEFINE F == {1..n : n \in S}
<1>1. F \in SUBSET FiniteSubsetsOf(Nat)
  <2>1. ASSUME NEW n \in S
        PROVE  1..n \in FiniteSubsetsOf(Nat)
    <3>1. n \in Int /\ 1 \in Int
      OBVIOUS
    <3>2. IsFiniteSet(1..n)
      BY <3>1, FS_Interval
    <3>3. 1..n \in SUBSET Nat
      BY <3>1
    <3>. QED BY <3>2, <3>3 DEF FiniteSubsetsOf
  <2>. QED BY <2>1
<1>2. PICK i \in F : \A j \in F : j \subseteq i => j = i
  <2>1. F # {}
    OBVIOUS
  <2> HIDE DEF F
  <2>. QED BY <1>1, <2>1, MinimalSet
<1>3. PICK m \in S : i = 1..m
  OBVIOUS
<1>4. ASSUME NEW n \in S
      PROVE  m <= n
  <2> SUFFICES ASSUME n < m PROVE FALSE
    OBVIOUS
  <2>1. 1..n \in F /\ 1..n \subseteq 1..m
    OBVIOUS
  <2>2. 1..n = 1..m
    BY <1>2, <1>3, <2>1
  <2>3. m \in 1..m /\ m \notin 1..n
    OBVIOUS
  <2>. QED BY <2>2, <2>3
<1>. QED BY <1>4

\* Induction over the numbers.
LEMMA Inductive ==
    ASSUME NEW S, 0 \in S, \A n \in Nat : n \in S => n + 1 \in S
    PROVE  Nat \subseteq S
<1> SUFFICES ASSUME Nat \ S # {}
             PROVE  FALSE
  OBVIOUS
<1>1. PICK m \in Nat \ S : \A n \in Nat \ S : m <= n
  <2> DEFINE T == Nat \ S
  <2>1. T \in SUBSET Nat /\ T # {}
    OBVIOUS
  <2> HIDE DEF T
  <2>2. \E m \in T : \A n \in T : m <= n
    BY <2>1, LeastNumber
  <2>. QED BY <2>2 DEF T
<1>2. m # 0 /\ m - 1 \in Nat /\ m - 1 \notin Nat \ S
  BY <1>1
<1>. QED BY <1>2

------------------------------------------------------------------------------
(***************************************************************************)
(* Numbers and their digits.                                               *)
(***************************************************************************)

\* Division takes a number apart.
LEMMA Division ==
    ASSUME NEW n \in Nat, NEW b \in Nat \ {0}
    PROVE  n \div b \in Nat /\ n % b \in 0..(b - 1) /\ n = (n \div b) * b + (n % b)
OBVIOUS

\* What is left of a number gets smaller.
LEMMA Smaller ==
    ASSUME NEW n \in Nat, NEW b \in Nat \ {0, 1}
    PROVE  n \div b = 0 \/ n \div b <= n - 1
<1>1. n \div b \in Nat /\ n % b \in 0..(b - 1) /\ n = (n \div b) * b + (n % b)
  BY Division
<1> DEFINE q == n \div b
<1>2. q \in Nat /\ n >= q * b
  BY <1>1
<1> HIDE DEF q
<1>3. q * b >= q * 2
  BY <1>2
<1>. QED BY <1>2, <1>3 DEF q

\* Division keeps the order.
LEMMA DivisionGrows ==
    ASSUME NEW n \in Nat, NEW m \in Nat, n <= m, NEW b \in Nat \ {0}
    PROVE  n \div b <= m \div b
<1> DEFINE p == n \div b
           q == m \div b
<1>1. /\ p \in Nat /\ q \in Nat
      /\ n % b \in 0..(b - 1) /\ n = p * b + (n % b)
      /\ m % b \in 0..(b - 1) /\ m = q * b + (m % b)
  BY Division
<1> HIDE DEF p, q
<1> SUFFICES ASSUME q + 1 <= p
             PROVE  FALSE
  BY <1>1 DEF p, q
<1>2. (q + 1) * b <= p * b
  BY <1>1
<1>3. (q + 1) * b = q * b + b
  BY <1>1
<1>4. q * b \in Nat /\ p * b \in Nat
  BY <1>1
<1>. QED BY <1>1, <1>2, <1>3, <1>4

\* f[k] is what k divisions leave of n.
Divides(f, n, b, m) ==
    f \in [0..m -> Nat] /\ f[0] = n /\ \A k \in 1..m : f[k] = f[k - 1] \div b

\* A number has quotients, as many as one likes.
LEMMA SomeQuotients ==
    ASSUME NEW n \in Nat, NEW b \in Nat \ {0, 1}, NEW m \in Nat
    PROVE  \E f : Divides(f, n, b, m)
<1> DEFINE Reached == {i \in Nat : \E f : Divides(f, n, b, i)}
<1>1. 0 \in Reached
  <2>1. [k \in 0..0 |-> n] \in [0..0 -> Nat] /\ [k \in 0..0 |-> n][0] = n
    OBVIOUS
  <2>2. 1..0 = {}
    OBVIOUS
  <2>3. Divides([k \in 0..0 |-> n], n, b, 0)
    BY <2>1, <2>2 DEF Divides
  <2>. QED BY <2>3
<1>2. ASSUME NEW i \in Nat, i \in Reached
      PROVE  i + 1 \in Reached
  <2>0. PICK f : Divides(f, n, b, i)
    BY <1>2
  <2>1. /\ f \in [0..i -> Nat] /\ f[0] = n
        /\ \A k \in 1..i : f[k] = f[k - 1] \div b
    BY <2>0 DEF Divides
  <2> DEFINE g == [k \in 0..(i + 1) |-> IF k = i + 1 THEN f[i] \div b ELSE f[k]]
  <2>2. g \in [0..(i + 1) -> Nat]
    <3>1. f[i] \div b \in Nat
      BY <2>1, Division
    <3>2. \A k \in 0..(i + 1) : k # i + 1 => f[k] \in Nat
      BY <2>1
    <3>. QED BY <3>1, <3>2
  <2>3. g[0] = n
    BY <2>1
  <2>4. ASSUME NEW k \in 1..(i + 1)
        PROVE  g[k] = g[k - 1] \div b
    <3>1. g[k - 1] = f[k - 1]
      OBVIOUS
    <3>2. CASE k = i + 1
      BY <3>1, <3>2
    <3>3. CASE k # i + 1
      <4>1. k \in 1..i /\ g[k] = f[k]
        BY <3>3
      <4>. QED BY <2>1, <3>1, <4>1
    <3>. QED BY <3>2, <3>3
  <2> HIDE DEF g
  <2>5. Divides(g, n, b, i + 1)
    BY <2>2, <2>3, <2>4 DEF Divides
  <2>. QED BY <2>5
<1> HIDE DEF Reached
<1>3. Nat \subseteq Reached
  BY <1>1, <1>2, Inductive
<1>. QED BY <1>3 DEF Reached

\* The quotients are defined one by one, down to 0.
LEMMA QuotientsDescend ==
    ASSUME NEW n \in Nat, NEW b \in Nat \ {0, 1}
    PROVE  /\ Quotients(n, b) \in [0..(n + 1) -> Nat]
           /\ Quotients(n, b)[0] = n
           /\ \A k \in 1..(n + 1) : Quotients(n, b)[k] = Quotients(n, b)[k - 1] \div b
           /\ Quotients(n, b)[n + 1] = 0
<1> DEFINE IsLeft(f) == f = [k \in 0..(n + 1) |-> IF k = 0 THEN n ELSE f[k - 1] \div b]
           Left      == CHOOSE f : IsLeft(f)
<1>1. \E f : IsLeft(f)
  <2>1. PICK f : Divides(f, n, b, n + 1)
    BY SomeQuotients
  <2>2. \A k \in 0..(n + 1) : f[k] = IF k = 0 THEN n ELSE f[k - 1] \div b
    BY <2>1 DEF Divides
  <2>3. IsLeft(f)
    BY <2>1, <2>2 DEF Divides
  <2>. QED BY <2>3
<1>2. IsLeft(Left)
  BY <1>1
<1>3. Quotients(n, b) = Left
  BY DEF Quotients
<1> DEFINE Q == Quotients(n, b)
<1>4. Q = [k \in 0..(n + 1) |-> IF k = 0 THEN n ELSE Q[k - 1] \div b]
  BY <1>2, <1>3
<1> HIDE DEF IsLeft, Left, Q
<1>5. Q[0] = n /\ \A k \in 1..(n + 1) : Q[k] = Q[k - 1] \div b
  BY <1>4
<1> DEFINE Bounded == {k \in Nat : k <= n + 1 => Q[k] \in Nat /\ (Q[k] = 0 \/ Q[k] <= n - k)}
<1>6. 0 \in Bounded
  BY <1>5
<1>7. ASSUME NEW k \in Nat, k \in Bounded
      PROVE  k + 1 \in Bounded
  <2> SUFFICES ASSUME k + 1 <= n + 1
               PROVE  Q[k + 1] \in Nat /\ (Q[k + 1] = 0 \/ Q[k + 1] <= n - (k + 1))
    OBVIOUS
  <2>1. Q[k] \in Nat /\ (Q[k] = 0 \/ Q[k] <= n - k)
    BY <1>7
  <2>2. k + 1 \in 1..(n + 1) /\ (k + 1) - 1 = k
    OBVIOUS
  <2>3. Q[k + 1] = Q[k] \div b
    BY <1>5, <2>2
  <2> DEFINE q == Q[k] \div b
  <2>4. q \in Nat /\ (q = 0 \/ q <= Q[k] - 1)
    BY <2>1, Division, Smaller
  <2> HIDE DEF q
  <2>5. CASE Q[k] = 0
    <3>1. q = 0 \/ q <= 0 - 1
      BY <2>4, <2>5
    <3>2. q = 0
      BY <2>4, <3>1
    <3>. QED BY <2>3, <3>2 DEF q
  <2>6. CASE Q[k] # 0
    <3>1. q = 0 \/ q <= n - (k + 1)
      BY <2>1, <2>4, <2>6
    <3>. QED BY <2>3, <2>4, <3>1 DEF q
  <2>. QED BY <2>5, <2>6
<1> HIDE DEF Bounded
<1>8. Nat \subseteq Bounded
  BY <1>6, <1>7, Inductive
<1>9. \A k \in 0..(n + 1) : Q[k] \in Nat /\ (Q[k] = 0 \/ Q[k] <= n - k)
  BY <1>8 DEF Bounded
<1>10. Q \in [0..(n + 1) -> Nat]
  <2> DEFINE next(k) == IF k = 0 THEN n ELSE Q[k - 1] \div b
  <2>1. Q = [k \in 0..(n + 1) |-> next(k)]
    BY <1>4
  <2> HIDE DEF next
  <2>2. DOMAIN Q = 0..(n + 1) /\ Q = [k \in 0..(n + 1) |-> Q[k]]
    BY <2>1
  <2>. QED BY <1>9, <2>2
<1>11. Q[n + 1] = 0
  <2>1. n + 1 \in 0..(n + 1)
    OBVIOUS
  <2>2. Q[n + 1] \in Nat /\ (Q[n + 1] = 0 \/ Q[n + 1] <= n - (n + 1))
    BY <1>9, <2>1
  <2>. QED BY <2>2
<1>. QED BY <1>5, <1>10, <1>11 DEF Q

\* The digits of a number are what its quotients leave, the last ones first.
LEMMA WrittenDigits ==
    ASSUME NEW n \in Nat, NEW b \in Nat \ {0, 1}
    PROVE  LET Q == Quotients(n, b)  L == Len(Written(n, b)) IN
           /\ L \in 1..(n + 1)
           /\ Written(n, b) \in [1..L -> 0..(b - 1)]
           /\ Written(n, b) \in Seq(0..(b - 1))
           /\ \A i \in 1..L : Written(n, b)[i] = Q[L - i] % b
           /\ Q[L] = 0
           /\ \A j \in 1..(L - 1) : Q[j] # 0
<1> DEFINE Q  == Quotients(n, b)
           Ends(k) == Q[k] = 0 /\ \A j \in 1..(k - 1) : Q[j] # 0
           length == CHOOSE k \in 1..(n + 1) : Ends(k)
           word == [i \in 1..length |-> Q[length - i] % b]
<1>1. Q \in [0..(n + 1) -> Nat] /\ Q[n + 1] = 0
  BY QuotientsDescend
<1>2. Written(n, b) = word
  BY DEF Written
<1> HIDE DEF Q
<1>3. \E k \in 1..(n + 1) : Ends(k)
  <2> DEFINE T == {k \in 1..(n + 1) : Q[k] = 0}
  <2>1. T \in SUBSET Nat /\ n + 1 \in T
    BY <1>1
  <2> HIDE DEF T
  <2>2. PICK m \in T : \A k \in T : m <= k
    BY <2>1, LeastNumber
  <2>3. m \in 1..(n + 1) /\ Q[m] = 0
    BY DEF T
  <2>4. ASSUME NEW j \in 1..(m - 1)
        PROVE  Q[j] # 0
    <3>1. j \in 1..(n + 1) /\ ~(m <= j)
      BY <2>3
    <3>. QED BY <2>2, <3>1 DEF T
  <2>5. Ends(m)
    BY <2>3, <2>4
  <2> HIDE DEF Ends
  <2>. QED BY <2>3, <2>5
<1>4. length \in 1..(n + 1) /\ Ends(length)
  <2> HIDE DEF Ends
  <2>. QED BY <1>3
<1> HIDE DEF length
<1>5. word \in [1..length -> 0..(b - 1)]
  <2>1. ASSUME NEW i \in 1..length
        PROVE  Q[length - i] % b \in 0..(b - 1)
    <3>1. length - i \in 0..(n + 1)
      BY <1>4
    <3>2. Q[length - i] \in Nat
      BY <1>1, <3>1
    <3>. QED BY <3>2, Division
  <2>. QED BY <2>1
<1>6. \A i \in 1..length : word[i] = Q[length - i] % b
  OBVIOUS
<1> HIDE DEF word
<1>7. length \in Nat
  BY <1>4
<1>8. word \in Seq(0..(b - 1)) /\ Len(word) = length
  BY <1>5, <1>7
<1>. QED BY <1>2, <1>4, <1>5, <1>6, <1>8 DEF Q

\* R holds the values of the beginnings of a word.
Reads(R, word, b) ==
    R = [i \in 0..Len(word) |-> IF i = 0 THEN 0 ELSE R[i - 1] * b + word[i]]

\* Horner's rule: what is left of a number, at each of its digits.
LEMMA Horner ==
    ASSUME NEW word, Len(word) \in Nat, NEW b, NEW R, Reads(R, word, b)
    PROVE  Value(word, b) = R[Len(word)]
<1> DEFINE Read == CHOOSE f : Reads(f, word, b)
<1>1. Reads(Read, word, b)
  OBVIOUS
<1>2. Value(word, b) = Read[Len(word)]
  BY DEF Value, Reads
<1> HIDE DEF Read
<1>3. /\ Read = [i \in 0..Len(word) |-> IF i = 0 THEN 0 ELSE Read[i - 1] * b + word[i]]
      /\ R = [i \in 0..Len(word) |-> IF i = 0 THEN 0 ELSE R[i - 1] * b + word[i]]
  BY <1>1 DEF Reads
<1> DEFINE Same == {i \in Nat : i <= Len(word) => Read[i] = R[i]}
<1>4. 0 \in Same
  <2>1. R[0] = 0 /\ Read[0] = 0
    BY <1>3
  <2>. QED BY <2>1
<1>5. ASSUME NEW i \in Nat, i \in Same
      PROVE  i + 1 \in Same
  <2> SUFFICES ASSUME i + 1 <= Len(word)
               PROVE  Read[i + 1] = R[i + 1]
    OBVIOUS
  <2>1. i + 1 \in 0..Len(word) /\ i + 1 # 0 /\ (i + 1) - 1 = i /\ i <= Len(word)
    OBVIOUS
  <2>2. Read[i] = R[i]
    BY <1>5, <2>1
  <2>3. Read[i + 1] = Read[i] * b + word[i + 1]
    BY <1>3, <2>1
  <2>4. R[i + 1] = R[i] * b + word[i + 1]
    BY <1>3, <2>1
  <2>. QED BY <2>2, <2>3, <2>4
<1> HIDE DEF Same
<1>6. Nat \subseteq Same
  BY <1>4, <1>5, Inductive
<1>7. Read[Len(word)] = R[Len(word)]
  <2>1. \A i \in Nat : i <= Len(word) => Read[i] = R[i]
    BY <1>6 DEF Same
  <2>2. Len(word) <= Len(word)
    OBVIOUS
  <2>. QED BY <2>1, <2>2
<1>. QED BY <1>2, <1>7

\* A number written down is read again as what it was, also behind zeros.
LEMMA ReadsAgain ==
    ASSUME NEW n \in Nat, NEW b \in Nat \ {0, 1}, NEW w \in Nat, w >= Len(Written(n, b)),
           NEW word \in Seq(Nat), Len(word) = w,
           \A i \in 1..w :
              word[i] = IF i <= w - Len(Written(n, b)) THEN 0
                        ELSE Written(n, b)[i - (w - Len(Written(n, b)))]
    PROVE  Value(word, b) = n
<1> DEFINE Q == Quotients(n, b)
           L == Len(Written(n, b))
           R == [i \in 0..w |-> IF i <= w - L THEN 0 ELSE Q[w - i]]
<1>1. /\ L \in 1..(n + 1) /\ Q[L] = 0
      /\ \A i \in 1..L : Written(n, b)[i] = Q[L - i] % b
  BY WrittenDigits
<1>2. /\ Q \in [0..(n + 1) -> Nat] /\ Q[0] = n
      /\ \A k \in 1..(n + 1) : Q[k] = Q[k - 1] \div b
  BY QuotientsDescend
<1> HIDE DEF Q, L
<1>3. w >= L /\ \A i \in 1..w : word[i] = IF i <= w - L THEN 0 ELSE Written(n, b)[i - (w - L)]
  BY DEF L
<1>4. ASSUME NEW i \in 0..w, i # 0
      PROVE  R[i] = R[i - 1] * b + word[i]
  <2>1. i \in 1..w /\ i - 1 \in 0..w
    BY <1>4
  <2>2. CASE i <= w - L
    <3>1. R[i] = 0 /\ R[i - 1] = 0 /\ word[i] = 0
      BY <1>1, <1>3, <2>1, <2>2
    <3>2. 0 * b = 0
      OBVIOUS
    <3> HIDE DEF R
    <3>. QED BY <3>1, <3>2
  <2>3. CASE ~(i <= w - L)
    <3>1. i - (w - L) \in 1..L /\ L - (i - (w - L)) = w - i
      BY <1>1, <1>3, <2>1, <2>3
    <3>2. word[i] = Q[w - i] % b
      <4>1. word[i] = Written(n, b)[i - (w - L)]
        BY <1>3, <2>1, <2>3
      <4>2. Written(n, b)[i - (w - L)] = Q[L - (i - (w - L))] % b
        BY <1>1, <3>1
      <4>. QED BY <3>1, <4>1, <4>2
    <3>3. R[i] = Q[w - i]
      BY <2>3
    <3>4. R[i - 1] = Q[w - i + 1]
      <4>1. CASE i - 1 <= w - L
        <5>1. w - i + 1 = L
          BY <1>1, <2>1, <2>3, <4>1
        <5>2. R[i - 1] = 0
          BY <2>1, <4>1
        <5>. QED BY <1>1, <5>1, <5>2
      <4>2. CASE ~(i - 1 <= w - L)
        <5>1. w - (i - 1) = w - i + 1
          BY <2>1
        <5>. QED BY <2>1, <4>2, <5>1
      <4>. QED BY <4>1, <4>2
    <3>5. w - i \in 0..(n + 1) /\ w - i + 1 \in 1..(n + 1) /\ (w - i + 1) - 1 = w - i
      BY <1>1, <1>3, <2>1, <2>3
    <3>6. Q[w - i + 1] = Q[w - i] \div b
      BY <1>2, <3>5
    <3>7. Q[w - i] \in Nat
      BY <1>2, <3>5
    <3>8. Q[w - i] = (Q[w - i] \div b) * b + (Q[w - i] % b)
      BY <3>7, Division
    <3> HIDE DEF R
    <3>. QED BY <3>2, <3>3, <3>4, <3>6, <3>8
  <2>. QED BY <2>2, <2>3
<1>5. R[0] = 0 /\ R[w] = n
  <2>1. 0 \in 0..w /\ 0 <= w - L /\ w \in 0..w
    BY <1>1, <1>3
  <2>2. ~(w <= w - L) /\ w - w = 0
    BY <1>1
  <2>. QED BY <1>2, <2>1, <2>2
<1>6. R = [i \in 0..w |-> IF i = 0 THEN 0 ELSE R[i - 1] * b + word[i]]
  <2>1. R = [i \in 0..w |-> R[i]]
    OBVIOUS
  <2> HIDE DEF R
  <2>2. \A i \in 0..w : R[i] = IF i = 0 THEN 0 ELSE R[i - 1] * b + word[i]
    BY <1>4, <1>5
  <2>. QED BY <2>1, <2>2
<1> HIDE DEF R
<1>7. Value(word, b) = R[Len(word)]
  <2>1. Reads(R, word, b)
    BY <1>6, Zenon DEF Reads
  <2>2. Len(word) \in Nat
    OBVIOUS
  <2>. QED BY <2>1, <2>2, Horner
<1>. QED BY <1>5, <1>7

\* The larger number has the larger quotients.
LEMMA QuotientsGrow ==
    ASSUME NEW n \in Nat, NEW m \in Nat, n <= m, NEW b \in Nat \ {0, 1}
    PROVE  \A k \in 0..(n + 1) : Quotients(n, b)[k] <= Quotients(m, b)[k]
<1> DEFINE Q == Quotients(n, b)
           R == Quotients(m, b)
           Below == {k \in Nat : k <= n + 1 => Q[k] <= R[k]}
<1>1. /\ Q \in [0..(n + 1) -> Nat] /\ Q[0] = n
      /\ \A k \in 1..(n + 1) : Q[k] = Q[k - 1] \div b
  BY QuotientsDescend
<1>2. /\ R \in [0..(m + 1) -> Nat] /\ R[0] = m
      /\ \A k \in 1..(m + 1) : R[k] = R[k - 1] \div b
  BY QuotientsDescend
<1> HIDE DEF Q, R
<1>3. 0 \in Below
  BY <1>1, <1>2
<1>4. ASSUME NEW k \in Nat, k \in Below
      PROVE  k + 1 \in Below
  <2> SUFFICES ASSUME k + 1 <= n + 1
               PROVE  Q[k + 1] <= R[k + 1]
    OBVIOUS
  <2>1. k + 1 \in 1..(n + 1) /\ k + 1 \in 1..(m + 1) /\ (k + 1) - 1 = k
    OBVIOUS
  <2>2. Q[k] \in Nat /\ R[k] \in Nat /\ Q[k] <= R[k]
    BY <1>1, <1>2, <1>4, <2>1
  <2>3. Q[k] \div b <= R[k] \div b
    BY <2>2, DivisionGrows
  <2>. QED BY <1>1, <1>2, <2>1, <2>3
<1> HIDE DEF Below
<1>5. Nat \subseteq Below
  BY <1>3, <1>4, Inductive
<1>. QED BY <1>5 DEF Below, Q, R

------------------------------------------------------------------------------
(***************************************************************************)
(* Colors.                                                                 *)
(***************************************************************************)

\* parseInt reads a written number whole.
LEMMA ParsesWritten ==
    ASSUME NEW n \in Nat
    PROVE  ParseInt(Written(n, Decimal), Decimal) = n
<1> DEFINE word == Written(n, Decimal)
<1>1. Decimal \in Nat \ {0, 1} /\ Decimal - 1 < Minus
  BY BasesAssumption DEF Minus
<1>2. /\ Len(word) \in 1..(n + 1) /\ word \in Seq(0..(Decimal - 1))
      /\ word \in [1..Len(word) -> 0..(Decimal - 1)]
  BY <1>1, WrittenDigits
<1>3. Value(word, Decimal) = n
  <2>1. \A i \in 1..Len(word) : word[i] = IF i <= Len(word) - Len(word) THEN 0
                                          ELSE word[i - (Len(word) - Len(word))]
    BY <1>2
  <2>2. word \in Seq(Nat) /\ Len(word) \in Nat /\ Len(word) >= Len(word)
    BY <1>2
  <2>. QED BY <1>1, <2>1, <2>2, ReadsAgain
<1> HIDE DEF word
<1>. Len(word) \in Nat \ {0}
  BY <1>2
<1>4. Digits(word, Decimal) = Len(word)
  <2> DEFINE Stops(k) == /\ \A i \in 1..k : word[i] < Decimal
                         /\ k = Len(word) \/ word[k + 1] >= Decimal
  <2>1. Len(word) \in 0..Len(word) /\ Stops(Len(word))
    BY <1>1, <1>2
  <2>2. ASSUME NEW k \in 0..Len(word), Stops(k)
        PROVE  k = Len(word)
    <3> SUFFICES ASSUME k # Len(word)
                 PROVE  FALSE
      OBVIOUS
    <3>1. k + 1 \in 1..Len(word)
      OBVIOUS
    <3>2. word[k + 1] \in 0..(Decimal - 1)
      BY <1>2, <3>1, Zenon
    <3>. QED BY <1>1, <2>2, <3>2
  <2> HIDE DEF Stops
  <2>3. (CHOOSE k \in 0..Len(word) : Stops(k)) = Len(word)
    BY <2>1, <2>2
  <2>. QED BY <2>3 DEF Stops, Digits
<1>5. SubSeq(word, 1, Len(word)) = word
  BY <1>2
<1>6. Unsigned(word, Decimal) = n
  BY <1>3, <1>4, <1>5 DEF Unsigned
<1>7. word[1] # Minus
  BY <1>1, <1>2
<1>. QED BY <1>6, <1>7 DEF ParseInt, word

\* A hexadecimal color has all its digits, the leading zeros too, and they
\* are worth the color.
LEMMA HexadecimalColor ==
    ASSUME NEW color \in AnyColor
    PROVE  /\ FormatHexColor(color) \in [1..Width -> Digit]
           /\ FormatHexColor(color) \in Seq(Digit) /\ Len(FormatHexColor(color)) = Width
           /\ Value(FormatHexColor(color), Hex) = color
<1> DEFINE L == Len(Written(color, Hex))
           text == FormatHexColor(color)
           Zeros == [i \in 1..(Width - L) |-> 0]
<1>1. Hex \in Nat \ {0, 1} /\ Width \in Nat /\ color \in Nat /\ MaxColor \in Nat /\ color <= MaxColor
  BY BasesAssumption DEF AnyColor, MaxColor
<1>2. /\ L \in 1..(color + 1) /\ Written(color, Hex) \in [1..L -> Digit]
      /\ Written(color, Hex) \in Seq(Digit)
      /\ \A j \in 1..(L - 1) : Quotients(color, Hex)[j] # 0
  BY <1>1, WrittenDigits DEF Digit
<1>3. Width \in 1..(MaxColor + 1) /\ Quotients(MaxColor, Hex)[Width] = 0
  BY <1>1, WrittenDigits, WidthAssumption
<1>4. L <= Width
  <2> SUFFICES ASSUME Width < L
               PROVE  FALSE
    BY <1>1, <1>2
  <2>1. Width \in 1..(L - 1) /\ Width \in 0..(color + 1)
    BY <1>1, <1>2, <1>3
  <2>2. Quotients(color, Hex)[Width] <= 0
    BY <1>1, <1>3, <2>1, QuotientsGrow
  <2>3. Quotients(color, Hex)[Width] \in Nat
    BY <1>1, <2>1, QuotientsDescend
  <2>. QED BY <1>2, <2>1, <2>2, <2>3
<1>5. text = Zeros \o Written(color, Hex)
  BY DEF FormatHexColor, PadStart
<1>6. Zeros \in Seq(Digit) /\ Len(Zeros) = Width - L
  <2>1. Width - L \in Nat /\ 0 \in Digit
    BY <1>1, <1>2, <1>4 DEF Digit
  <2>. QED BY <2>1
<1> HIDE DEF L, Zeros, text
<1>7. /\ text \in Seq(Digit) /\ Len(text) = Width
      /\ \A i \in 1..Width : text[i] = IF i <= Width - L THEN 0
                                       ELSE Written(color, Hex)[i - (Width - L)]
  <2>1. text \in Seq(Digit) /\ Len(text) = Width
    BY <1>1, <1>2, <1>5, <1>6 DEF L
  <2>2. ASSUME NEW i \in 1..Width
        PROVE  text[i] = IF i <= Width - L THEN 0
                         ELSE Written(color, Hex)[i - (Width - L)]
    <3>1. CASE i <= Width - L
      <4>1. text[i] = Zeros[i]
        BY <1>1, <1>2, <1>5, <1>6, <3>1
      <4>2. Zeros[i] = 0
        BY <1>1, <1>2, <3>1 DEF Zeros
      <4>. QED BY <3>1, <4>1, <4>2
    <3>2. CASE ~(i <= Width - L)
      BY <1>1, <1>2, <1>5, <1>6, <3>2 DEF L
    <3>. QED BY <3>1, <3>2
  <2>. QED BY <2>1, <2>2
<1>8. text \in [1..Width -> Digit]
  BY <1>1, <1>7
<1>9. text \in Seq(Nat)
  BY <1>1, <1>7, <1>8 DEF Digit
<1>10. Value(text, Hex) = color
  BY <1>1, <1>4, <1>7, <1>9, ReadsAgain DEF L
<1>. QED BY <1>7, <1>8, <1>10 DEF text

\* A channel is shifted to its place: what << takes for the sign is not set.
LEMMA ShiftedChannel ==
    ASSUME NEW n \in 0..(Channel - 1), NEW unit \in {Channel, Channel * Channel}
    PROVE  Shifted(n, unit) = n * unit
<1> DEFINE square == Channel * Channel
           word   == Channel * Channel * Channel * Channel
<1>1. Channel \in Nat \ {0, 1} /\ n \in Nat /\ n # NaN /\ n <= Channel - 1
  BY BasesAssumption
<1>2. square \in Nat /\ Channel <= square /\ unit \in Nat /\ unit <= square
  BY <1>1
<1>3. n * unit \in Nat /\ n * unit <= n * square
  BY <1>1, <1>2
<1>4. n * square + square <= Channel * square
  <2>1. (n + 1) * square <= Channel * square
    BY <1>1, <1>2
  <2>2. (n + 1) * square = n * square + square
    BY <1>1, <1>2
  <2>. QED BY <2>1, <2>2
<1>5. word = Channel * (Channel * square)
  BY <1>1
<1>6. 2 * (Channel * square) <= word
  <2>1. Channel * square \in Nat
    BY <1>1, <1>2
  <2> DEFINE cube == Channel * square
  <2> HIDE DEF cube, word
  <2>2. 2 * cube <= Channel * cube
    BY <1>1, <2>1 DEF cube
  <2>. QED BY <1>5, <2>2 DEF cube
<1>7. square > 0 /\ Channel * square \in Nat /\ word \in Nat /\ n * square \in Nat
  BY <1>1, <1>2
<1> DEFINE bits == n * unit
<1>8. bits \in Nat /\ 2 * bits < word /\ word \in Nat \ {0}
  <2> DEFINE cube == Channel * square
             high == n * square
  <2>1. /\ bits \in Nat /\ high \in Nat /\ cube \in Nat /\ word \in Nat /\ square \in Nat \ {0}
        /\ bits <= high /\ high + square <= cube /\ 2 * cube <= word
    BY <1>2, <1>3, <1>4, <1>6, <1>7
  <2> HIDE DEF cube, high, bits, word, square
  <2>. QED BY <2>1
<1>9. bits % word = bits
  <2> HIDE DEF bits, word
  <2>. QED BY <1>8
<1>. QED BY <1>1, <1>8, <1>9 DEF Shifted

\* The channels are the color's digits to the base Channel.
LEMMA ChannelsOfColor ==
    ASSUME NEW color \in AnyColor
    PROVE  /\ Red(color) \in 0..(Channel - 1)
           /\ Green(color) \in 0..(Channel - 1)
           /\ Blue(color) \in 0..(Channel - 1)
           /\ color = Red(color) * (Channel * Channel) + Green(color) * Channel + Blue(color)
<1> DEFINE square == Channel * Channel
           r == color \div square
           q == color \div Channel
           h == q \div Channel
<1>1. /\ Channel \in Nat \ {0, 1} /\ color \in Nat
      /\ color <= Channel * Channel * Channel - 1
  BY BasesAssumption DEF AnyColor, MaxColor
<1>2. square \in Nat \ {0} /\ Channel * square = Channel * Channel * Channel
  BY <1>1
<1>3. /\ q \in Nat /\ color % Channel \in 0..(Channel - 1)
      /\ color = q * Channel + (color % Channel)
  BY <1>1, Division
<1>4. /\ h \in Nat /\ q % Channel \in 0..(Channel - 1)
      /\ q = h * Channel + (q % Channel)
  BY <1>1, <1>3, Division
<1>5. /\ r \in Nat /\ color % square \in 0..(square - 1)
      /\ color = r * square + (color % square)
  BY <1>1, <1>2, Division
<1> DEFINE low  == color % Channel
           mid  == q % Channel
           rest == color % square
<1>6. color = h * square + mid * Channel + low
  <2> HIDE DEF q, h, mid, low
  <2>1. q * Channel = h * square + mid * Channel
    BY <1>1, <1>4 DEF mid
  <2>. QED BY <1>3, <2>1 DEF low
<1>7. mid * Channel + low \in 0..(square - 1)
  <2> HIDE DEF q, h, mid, low
  <2>1. mid + 1 <= Channel /\ mid \in Nat /\ low \in 0..(Channel - 1)
    BY <1>1, <1>3, <1>4 DEF mid, low
  <2>2. (mid + 1) * Channel <= Channel * Channel
    BY <1>1, <2>1
  <2>3. (mid + 1) * Channel = mid * Channel + Channel /\ mid * Channel \in Nat
    BY <1>1, <2>1
  <2>. QED BY <1>1, <2>1, <2>2, <2>3
<1>8. r = h
  <2> DEFINE tail == mid * Channel + low
  <2>1. /\ color = h * square + tail /\ color = r * square + rest
        /\ tail \in 0..(square - 1) /\ rest \in 0..(square - 1)
        /\ h \in Nat /\ r \in Nat /\ square \in Nat \ {0}
    <3> HIDE DEF q, h, mid, low, r, rest, square
    <3>1. h * square \in Nat /\ mid * Channel \in Nat /\ low \in Nat
      BY <1>1, <1>2, <1>3, <1>4 DEF mid, low
    <3>. QED BY <1>2, <1>4, <1>5, <1>6, <1>7, <3>1 DEF rest
  <2> HIDE DEF tail, rest, square, h, r, mid, low, q
  <2>2. ASSUME NEW a \in Nat, NEW b \in Nat, a + 1 <= b
        PROVE  a * square + square <= b * square
    <3>1. (a + 1) * square <= b * square
      BY <2>1, <2>2
    <3>2. (a + 1) * square = a * square + square
      BY <2>1
    <3>. QED BY <3>1, <3>2
  <2>3. ~(h + 1 <= r)
    <3>1. h + 1 <= r => h * square + square <= r * square
      BY <2>1, <2>2
    <3>2. h * square \in Nat /\ r * square \in Nat
      BY <2>1
    <3>. QED BY <2>1, <3>1, <3>2
  <2>4. ~(r + 1 <= h)
    <3>1. r + 1 <= h => r * square + square <= h * square
      BY <2>1, <2>2
    <3>2. h * square \in Nat /\ r * square \in Nat
      BY <2>1
    <3>. QED BY <2>1, <3>1, <3>2
  <2>. QED BY <2>1, <2>3, <2>4
<1>9. r \in 0..(Channel - 1)
  <2> SUFFICES ASSUME Channel <= r
               PROVE  FALSE
    BY <1>1, <1>5
  <2> HIDE DEF r, square
  <2>1. Channel * square <= r * square
    BY <1>1, <1>2, <1>5
  <2>2. Channel * square \in Nat /\ r * square \in Nat /\ r * square <= color
    BY <1>1, <1>2, <1>5
  <2>. QED BY <1>1, <1>2, <2>1, <2>2
<1>10. Red(color) = r /\ Green(color) = mid /\ Blue(color) = low
  BY DEF Red, Green, Blue
<1> HIDE DEF q, h, mid, low, r, square
<1>11. color = r * square + mid * Channel + low
  BY <1>6, <1>8
<1>. QED BY <1>3, <1>4, <1>9, <1>10, <1>11 DEF mid, low, square

\* However a color is spelled, it is read as itself.
LEMMA SpellingsRead ==
    ASSUME NEW color \in AnyColor, NEW words \in Spellings(color)
    PROVE  ReadColor(words) = color
<1> DEFINE text == FormatHexColor(color)
           rgb  == <<Written(Red(color), Decimal), Written(Green(color), Decimal),
                     Written(Blue(color), Decimal)>>
<1>1. Width \in Nat \ {0} /\ Channel \in Nat \ {0, 1} /\ NaN \notin Int
  BY BasesAssumption
<1>2. CASE words = <<text>>
  <2>1. /\ text \in [1..Width -> Digit] /\ Len(text) = Width /\ Value(text, Hex) = color
    BY HexadecimalColor
  <2> HIDE DEF text
  <2>2. Compact(words) = text
    <3> DEFINE IsJoined(f) == f = [n \in 1..Len(words) |->
                                     IF n = 1 THEN words[1] ELSE f[n - 1] \o <<Other>> \o words[n]]
               Joined == CHOOSE f : IsJoined(f)
    <3>1. Len(words) = 1 /\ words[1] = text
      BY <1>2
    <3>2. IsJoined([n \in 1..1 |-> text])
      BY <3>1
    <3>3. Compact(words) = Joined[Len(words)]
      BY DEF Compact
    <3> HIDE DEF IsJoined
    <3>4. IsJoined(Joined)
      BY <3>2
    <3> HIDE DEF Joined
    <3>. QED BY <3>1, <3>3, <3>4 DEF IsJoined
  <2>3. Len(words) = 1 /\ ~IsNumber(text)
    BY <1>2, <2>1 DEF IsNumber
  <2>4. ReadColor(words) = ResolveText(text)
    BY <2>2, <2>3 DEF ReadColor
  <2>5. text \notin DOMAIN NamedColor
    BY <2>1, NamesAssumption
  <2>6. Len(text) \in 1..Width /\ \A i \in 1..Len(text) : text[i] \in Digit
    BY <1>1, <2>1
  <2>7. ResolveText(text) = InRange(color)
    BY <2>1, <2>5, <2>6 DEF ResolveText
  <2>. QED BY <2>4, <2>7 DEF InRange
<1>3. CASE words = rgb
  <2>1. /\ Red(color) \in 0..(Channel - 1) /\ Green(color) \in 0..(Channel - 1)
        /\ Blue(color) \in 0..(Channel - 1)
        /\ color = Red(color) * (Channel * Channel) + Green(color) * Channel + Blue(color)
    BY ChannelsOfColor
  <2>2. Red(color) \in Nat /\ Green(color) \in Nat /\ Blue(color) \in Nat
    BY <1>1, <2>1
  <2>3. /\ Len(words) = 3
        /\ ParseInt(words[1], Decimal) = Red(color)
        /\ ParseInt(words[2], Decimal) = Green(color)
        /\ ParseInt(words[3], Decimal) = Blue(color)
    BY <1>3, <2>2, ParsesWritten
  <2>4. Red(color) # NaN /\ Blue(color) # NaN
    BY <1>1, <2>2
  <2>5. ReadColor(words) = ResolveRgb(Red(color), Green(color), Blue(color))
    BY <2>3, <2>4 DEF ReadColor
  <2>6. /\ Shifted(Red(color), Channel * Channel) = Red(color) * (Channel * Channel)
        /\ Shifted(Green(color), Channel) = Green(color) * Channel
    BY <2>1, ShiftedChannel
  <2>7. ResolveRgb(Red(color), Green(color), Blue(color)) = InRange(color)
    BY <2>1, <2>4, <2>6 DEF ResolveRgb
  <2>. QED BY <2>5, <2>7 DEF InRange
<1>. QED BY <1>2, <1>3 DEF Spellings

------------------------------------------------------------------------------

\* Whatever color the table has for a member, printed as the answer to
\* =setcolor prints it or typed as three channels it is read as that color,
\* for all sizes of a color and the bases.
THEOREM ColorsReadBack == Spec => []ColorReadsBack
<1>1. TypeOK => ColorReadsBack
  <2> SUFFICES ASSUME TypeOK, NEW m \in Members, ranks[m] # NoRank, ranks[m].color # NoColor
               PROVE  \A words \in Spellings(ranks[m].color) :
                         ReadColor(words) = ranks[m].color
    BY DEF ColorReadsBack
  <2>1. ranks[m].color \in AnyColor
    BY DEF TypeOK, Rank
  <2>. QED BY <2>1, SpellingsRead
<1>. QED BY <1>1, TypeCorrect, PTL
==============================================================================
