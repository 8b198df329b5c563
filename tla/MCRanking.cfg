SPECIFICATION Spec
CONSTANTS
    g1 = g1
    Guilds = {g1}
    NoGuild = NoGuild
    Users = {1, 2}
    Cooldown = 2
    Never = Never
    NoTime = NoTime
    Xps = {10, 20}
    PageSize = 1
    NoColor = NoColor
    NoRank = NoRank
    NoMessage = NoMessage
    NoAnswer = NoAnswer
    Messages <- Everything
    Deliveries = {d1, d2, d3}
    MaxFaults = 1
    Hex = 4  Decimal = 3  Width = 3  Channel = 4
    NamedColor <- OneName
    NaN = NaN  NotAColor = NotAColor
INVARIANTS TypeOK CooldownRespected ScoreExplained AnswerAgrees ColorReadsBack
CHECK_DEADLOCK FALSE
