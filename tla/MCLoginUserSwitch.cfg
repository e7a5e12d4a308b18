SPECIFICATION Spec
CONSTANTS
    Settings <- UserSwitchSettings
    MaxLogins = 2
    MaxChallenges = 3
    Nil = Nil
    u1 = u1
    u2 = u2
SYMMETRY UserSymmetry
PROPERTIES UserSwitchNeedsLogOut
