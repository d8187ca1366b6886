SPECIFICATION FairSpec
CONSTANTS
    People <- MCPeople
    Weight <- MCWeight
    MaxWeight = 3
    Amounts = {1, 7}
    ItemAmounts <- MCItemAmounts
    Totals = {0, 3, 8}
    MaxItems = 2
    MaxFailures = 2
INVARIANTS TypeOK SharesAddUp FairShares ReceiptIsMet AmountsAsAsked StuckOnlyAfterFailure
PROPERTY WizardEnds
CHECK_DEADLOCK FALSE
