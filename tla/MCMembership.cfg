SPECIFICATION Spec
CONSTANTS
    ali = ali
    reza = reza
    sara = sara
    Users = {ali, reza, sara}
    InitialAdmins = {sara}
SYMMETRY MCSymmetry
INVARIANTS TypeOK ActiveAdminExists PendingIsNoAdmin
PROPERTIES RemovedStaysOut ImplementsRoles
CHECK_DEADLOCK FALSE
