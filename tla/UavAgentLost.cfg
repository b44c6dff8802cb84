\* One command, no broken connection.
SPECIFICATION Spec
CONSTANTS
    MaxCommands = 1
    MaxReconnects = 0
INVARIANT CommandsApplied
