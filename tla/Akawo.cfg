SPECIFICATION Spec
CONSTANTS
    ann = ann
    ben = ben
    cam = cam
    None = None
    i1 = i1
    i2 = i2
    i3 = i3
    p1 = p1
    p2 = p2
    Users = {ann, ben, cam}
    References = {p1, p2}
    Intents = {i1, i2, i3}
    Amount = 2
    Opening <- MCOpening
SYMMETRY Interchangeable
INVARIANT PaidIsBacked
INVARIANT CollectedIsReceived
