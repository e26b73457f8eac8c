SPECIFICATION UserSpec
CONSTANTS
    None = None
    MaxFailures = 2
    MaxActivations = 2
CHECK_DEADLOCK FALSE
INVARIANTS IdentityHolds MappingHolds
PROPERTIES SetupSettles ReadyIsWitnessed
