CONSTANTS
    Name = {"A", "B", "C", "D"}
    None = "none"
    Lower <- MCLower
    Rank <- MCRank
    Vendors = {"postgresql", "cockroachdb", "sqlite", "mysql", "tidb", "mssql", "oracle", "clickhouse"}
    Typed = {"it"}
    Projects <- MCProjects
    Offered <- MCOffered
    Avoided = {"RenamesConstrained", "RenamesQueued", "StillQueued", "DropsSupport", "RefusesLate", "ReplacesColumn", "LosesUnique"}
    MaxOps = 2
SPECIFICATION Spec
CHECK_DEADLOCK FALSE
INVARIANTS DeferredValid NothingFails RefusedWhole Faithful
