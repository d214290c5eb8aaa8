SPECIFICATION Spec
CONSTANTS
    ann = ann
    ben = ben
    annRice = annRice
    benRice = benRice
    rice = rice
    i1 = i1
    i2 = i2
    o1 = o1
    d1 = d1
    None = None
    Users = {ann, ben}
    Packages = {rice}
    Subscriptions = {annRice, benRice}
    OwnerOf <- MCOwnerOf
    PackageOf <- MCPackageOf
    Prices = {1, 2}
    Quantities = {1, 2}
    Capacity = 3
    Intents = {i1, i2}
    Opening <- MCOpening
    Orders = {o1}
    Distributions = {d1}
    MaxCodes = 2
SYMMETRY Interchangeable
INVARIANT PaidIsInEscrow
INVARIANT CollectedOnce
CHECK_DEADLOCK FALSE
