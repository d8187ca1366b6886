SPECIFICATION Spec
CONSTANTS
    ali = ali
    reza = reza
    sara = sara
    Users = {ali, reza, sara}
    InitialAdmins = {sara}
PROPERTY AdminOnlyMenu
CHECK_DEADLOCK FALSE
