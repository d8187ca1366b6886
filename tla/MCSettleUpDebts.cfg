SPECIFICATION Spec
CONSTANTS
    Members <- MCMembers
    Creator <- MCNoPrograms
    Weight <- MCWeight
    Amounts <- MCAmounts
    MaxExpenses = 2
    MaxCharges = 1
INVARIANT PlanClearsDebts
CHECK_DEADLOCK FALSE
