SPECIFICATION Spec
CONSTANTS
    Members <- MCMembers
    Creator <- MCCreator
    Weight <- MCWeight
    Amounts <- MCAmounts
    MaxExpenses = 2
    MaxCharges = 1
INVARIANTS TypeOK PlanClearsPositions ViewsAgree
CHECK_DEADLOCK FALSE
