CONSTANTS
    p1 = p1
    p2 = p2
    n1 = n1
    n2 = n2
    n3 = n3
    n4 = n4
    n5 = n5
    n6 = n6
    f1 = f1
    f2 = f2
    f3 = f3
    f4 = f4
    f5 = f5
    Process <- MCTwo
    Regular <- MCRegular
    Nonce <- MCNonce
    File <- MCFile
    NoFile = NoFile
    Torn = Torn
    Overrun = FALSE
    MaxTries = 2
    MaxCrashes = 0
SPECIFICATION Spec
INVARIANTS Exclusion
