SPECIFICATION Spec
CONSTANTS
    None = None
    anna = anna
    Tasks = {t1, t2}
    Addresses = {a1}
    Names = {ann, ANN}
    Accounts = {anna}
    Users = {u1}
    Normal <- MCNormal
    Amount <- MCAmount
    Window <- MCWindow
    MaxTime = 3
SYMMETRY Symmetry
INVARIANTS
    HitsAreBounded
    ServedHasPaid
    AddressShieldsAccounts
PROPERTIES
    RefusedOnlyWhenSpent
CHECK_DEADLOCK FALSE
