CONSTANTS
    Names <- MCNames
    Values <- MCValues
    v1 = v1
    v2 = v2
    Absent = Absent
    Torn = Torn
SPECIFICATION FairSpec
INVARIANT StoreSound
PROPERTIES RootHolds ImplementsAtomicStore CommitCompletes
