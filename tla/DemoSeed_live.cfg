CONSTANTS
    Companies = {1}
    ann = ann
    bob = bob
    Users = {ann, bob, cid}
    Procs = {p}
    Seeder = Seeder
    MaxVersion = 2
    None = None
    DemoUsers <- Accounts
    DemoCompanies <- Tenants
    DemoRole <- Roster
SPECIFICATION SeedFairSpec
INVARIANTS
    RulesSurviveSeeding
PROPERTIES
    RefusedOnlyOverOthers
    SeedAndRequestsEnd
