SPECIFICATION Spec
CONSTANTS
    ali = ali
    reza = reza
    Users = {ali, reza}
    InitialAdmins = {}
    Founders = {ali}
    FirstAdmins = {ali}
    Programs = {trip}
    Splits <- MCBothWays
    Teams = {{ali}, {ali, reza}}
    Amounts = {2}
    ExpenseIds = {1}
    PaymentIds = {1}
    ChargeIds = {1}
    MaxRecords = 1
    MaxDrafts = 2
    Nobody = Nobody
INVARIANTS RowsNameMembers ProgramAddsUp
CHECK_DEADLOCK FALSE
