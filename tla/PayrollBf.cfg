SPECIFICATION Spec
CONSTANTS
    None = None
    v2025 = v2025
    v2026 = v2026
    Handlers = {h1}
    Inputs <- MCInputs
    Dates = {202412, 202501, 202512, 202601}
    Order <- MCOrder
    Law <- MCLaw
    Raises = {1, 52, 53, 1000}
    MaxStored = 1
    Faults = TRUE
INVARIANTS
    TypeOK
    OneVersionInForce
    StoredUnderItsLaw
    TaxExact
    RaiseCostsLittle
CHECK_DEADLOCK FALSE
