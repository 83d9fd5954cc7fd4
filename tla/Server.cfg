SPECIFICATION ServerSpec
CONSTANTS
    Tokens = {t1}
    Values = {a, b}
    DefaultValue = default
    Unsaved = unsaved
    Admins = {ann, bob}
    Callers = {c1, c2}
    Models = {"m1", "m2"}
    Seeds = {"m1"}
    Lists <- TwoLists
    Fetches = {f1, f2}
    MaxStops = 2
    Varied = {"schema", "settings", "prices"}
INVARIANT MigratedWhenUp
INVARIANT DeletedStaysDeleted
INVARIANT RuntimeIsSaved
INVARIANT EtagTellsMemory
PROPERTY PricesCatchUp
PROPERTY StartEnds
