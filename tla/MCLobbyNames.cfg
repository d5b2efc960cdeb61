SPECIFICATION Spec
CONSTANTS
    Socket = {s1, s2, s3}
    Host = {h1, h2}
    Port <- MCPort
    Name <- MCName
    WellFormed <- MCWellFormed
    guestName <- MCGuestName
SYMMETRY MCSymmetry
INVARIANTS
    TypeOK
    SharedNamesAreGuestNames
