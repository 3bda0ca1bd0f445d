SPECIFICATION Spec
CONSTANTS
    MaxContacts = 3
    PtpMaxContacts = 2
    Positions = {0, 1, 2}
    FailureLimit = 2
INVARIANTS
    Nearest
    OutputFits
    NoStuckContact
