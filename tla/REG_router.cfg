SPECIFICATION Spec
CONSTANTS
    Names = {"a", "b"}
    MaxIds = 3
    Admins = {admin1, admin2}
    Chats = {chat1}
    Offers <- MCOffers
    SSHRunner = TRUE
    MaxChanges = 3
    MaxFaults = 1
    MaxRestarts = 1
    None = None
CONSTRAINT OneMishap
SYMMETRY AdminSymmetry
INVARIANTS TypeOK RouterIsCurrent RightModel EnvKeyNotMasking
CHECK_DEADLOCK FALSE
