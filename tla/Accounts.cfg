SPECIFICATION Spec
CONSTANTS
    r1 = r1
    r2 = r2
    login = login
    call = call
    Registrations <- TwoRegistrations
    Logins <- OneLogin
    Calls <- OneCall
    Spellings <- OneEmail
    Folded <- LowerCase
    Passwords <- ThreePasswords
    Long <- OnlyLong
    Key <- First72Bytes
    TokenTTL = 2
    MaxTime = 3
SYMMETRY RegistrationSymmetry
INVARIANTS
    TypeOK
    RegistrationStands
    KnownLogsIn
    AdmittedWhileValid
PROPERTY
    ImplementsDirectory
CHECK_DEADLOCK FALSE
