SPECIFICATION MCSpec
CONSTANTS
    None = None
    Nothing = Nothing
    ann = ann
    ben = ben
    goo = goo
    k1 = k1
    k2 = k2
    k3 = k3
    r1 = r1
    r2 = r2
    r3 = r3
    Users = {ann, ben, goo}
    Requests = {r1, r2, r3}
    Keys = {k1, k2, k3}
    MaxPinAttempts = 2
    MaxPins = 2
    Order <- MCOrder
    Opening <- MCOpening
    Configured = {ann, ben}
    old = old
    newer = newer
    airtime = airtime
    bundle = bundle
    local = local
    abroad = abroad
    typo = typo
    Products = {airtime, bundle}
    Servers = {old, newer}
    Catalogue <- MCCatalogue
    Spellings = {local, abroad, typo}
    Normalised <- MCNormalised
    Recognised = {local}
    Prices = {1, 2}
    Checks = {c1}
    c1 = c1
    Intents = {i1}
    i1 = i1
    BillKeys = {b1}
    b1 = b1
    Clients = {q1, q2}
    q1 = q1
    q2 = q2
SYMMETRY Interchangeable
CONSTRAINT OneDeployment
CONSTRAINT OneRoute
CHECK_DEADLOCK FALSE
INVARIANT LockIsEarned
INVARIANT NothingOverdrawn
INVARIANT BilledAsChecked
INVARIANT CatalogueIsCopied
PROPERTY MovesAsPromised
INVARIANT MoverIsNotRefused
