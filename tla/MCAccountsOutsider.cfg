SPECIFICATION Spec
CONSTANTS
    ali = ali
    reza = reza
    Users = {ali, reza}
    InitialAdmins = {}
    Founders = {ali, reza}
    FirstAdmins = {ali}
    Programs = {trip}
    Splits <- MCSplits
    Teams = {{ali}}
    Amounts = {2}
    ExpenseIds = {1}
    PaymentIds = {1}
    ChargeIds = {1}
    MaxRecords = 2
    MaxDrafts = 1
    Nobody = Nobody
INVARIANT OnlyParticipantsShare
CHECK_DEADLOCK FALSE
