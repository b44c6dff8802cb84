\* Two commands and two broken connections: redelivery of one and of both.
SPECIFICATION FairSpec
CONSTANTS
    MaxCommands = 2
    MaxReconnects = 2
INVARIANTS TypeOK NewestMotionWins
PROPERTIES SettledStays CommandsReported
