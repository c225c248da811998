SPECIFICATION Spec
CONSTANTS
    o1 = o1
    Opps = {o1}
    NumUrls = 1
INVARIANT ConfirmedIsFinal
