CONSTANTS
    x1 = x1  x2 = x2  x3 = x3  rowA = rowA  rowB = rowB  s1 = s1
    p1 = p1  p2 = p2  k1 = k1  k2 = k2  cA = cA  cB = cB  cBad = cBad
    Export <- MCExport
    Row <- MCRow
    Known <- MCKnown
    Stamp <- MCStamp
    Attempts = 2
    NoFile = NoFile  NoName = NoName
    Post <- MCPost
    Caller <- MCCaller
    NoTarget = NoTarget
    MaxChanges = 3
    Cookie <- MCCookie
    Unsendable <- MCUnsendable
    Visit <- MCCaller
    NoCookie = NoCookie  NoDiagnosis = NoDiagnosis
    MaxFaults = 1
    MaxRequests = 4
SYMMETRY StoresSymmetry
SPECIFICATION Spec
CHECK_DEADLOCK FALSE
INVARIANT
    RemovedStaysAway
