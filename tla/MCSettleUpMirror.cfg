SPECIFICATION Spec
CONSTANTS
    Members <- MCMembers
    Creator <- MCCreator
    Weight <- MCWeight
    Amounts <- MCAmounts
    MaxExpenses = 2
    MaxCharges = 1
INVARIANT DebtsShownToBothSides
CHECK_DEADLOCK FALSE
