SPECIFICATION Spec
CONSTANTS
    People <- MCPeople
    MaxAmount = 4
INVARIANTS TypeOK SettlesTheGroup ShortPlan
PROPERTIES ImplementsSettlement Terminates
CHECK_DEADLOCK FALSE
