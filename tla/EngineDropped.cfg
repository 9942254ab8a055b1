\* Every section there can be, on the engines of the catalogue.
SPECIFICATION EngineSpec
CONSTANTS
    Catalog <- MCCatalog
    Sections <- MCSections
INVARIANTS
    RulesEnforced
CHECK_DEADLOCK FALSE
