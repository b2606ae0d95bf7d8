SPECIFICATION Spec
CONSTANTS
    Readers <- MCReaders
    TaoPrices <- MCPrices
    Rates <- MCRate
    Scale = 100
    Emission = 3
    MaxChanges = 2
    MaxFaults = 2
    MaxCycles = 2
INVARIANT TypeOK
INVARIANT PricesWereQuoted
INVARIANT LiveBeatsRemembered
PROPERTY KnownPriceIsEnough
