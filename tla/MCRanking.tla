------------------------------ MODULE MCRanking ------------------------------
(* Ranking, and the color its setcolor takes, on small instances, for TLC. *)
EXTENDS Ranking

CONSTANT g1

Event(user, author, at, command) ==
    [guild |-> g1, user |-> user, author |-> author, at |-> at,
     command |-> command, color |-> NoColor, page |-> 1]

SetColorTo(user, at, words) ==
    [Event(user, "member", at, "setcolor") EXCEPT !.color = ReadColor(words)]

\* Messages around the cooldown of 2, of two members, in every order.
Chatter == {Event(1, "member", at, "none") : at \in {1, 3, 4, 7}} \cup
           {Event(2, "member", 1, "none")}

\* A hexadecimal color of decimal digits only, and one of three channels.
DecimalLooking == <<<<0, 1, 2>>>>
Channels       == <<<<1, 0>>, <<0>>, <<2>>>>

\* Commands racing with the messages that carry them; what never counts.
Commands ==
    {SetColorTo(1, 1, DecimalLooking), SetColorTo(1, 4, Channels)} \cup
    {Event(1, "member", 7, "top"), Event(2, "member", 1, "none"),
     Event(2, "interaction", NoTime, "top"), Event(1, "bot", 1, "top"),
     [Event(1, "member", NoTime, "top") EXCEPT !.page = 2],
     [SetColorTo(2, 4, Channels) EXCEPT !.guild = NoGuild]}

Everything == Chatter \cup Commands

\* A name no number looks like.
OneName == [text \in {<<Other, Other>>} |-> 1]
==============================================================================
