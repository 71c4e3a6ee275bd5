CONSTANTS
    ana = ana
    bo = bo
    cy = cy
    codex = codex
    actions = actions
    reference = reference
    none = none
    Speakers = {ana, bo}
    Joiners = {ana, cy}
    Codex = codex
    ActionItems = actions
    Reference = reference
    Role <- RoleOf
    Id <- Ids
    IdLength = 3
    ShortId = 2
    Decomposed <- Characters
    Names <- NamesOf
    CodexName <- Codex_Agent
    ActionItemsName <- Action_Items
    RoleWord <- Words
    Participant <- ParticipantWord
    Aliases <- AliasWords
    MaxRoster = 4
    MaxConnections = 1
    NoName = none
SPECIFICATION Spec
INVARIANTS
    TokensDistinct
    OrderIndependent
    RostersAgree
    MessagesReachTheNamed
