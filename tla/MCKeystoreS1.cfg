CONSTANTS
    k1 = k1
    ks = ks
    v1 = v1
    v2 = v2
    KeyIds <- MCKeyIds
    StaticKeyId = ks
    ki = ki
    IdentityKeyId = ki
    Values <- MCValues
    Passphrases = {TRUE}
    Faults = {"crash", "ioerror"}
    NoFile = NoFile
    Torn = Torn
    Absent = Absent
    NoKey = NoKey
SPECIFICATION Spec
INVARIANT OpenSucceeds
