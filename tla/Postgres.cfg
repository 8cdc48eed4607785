CONSTANTS
    m1 = m1
    m2 = m2
    Migrator <- TwoMigrators
    Files = 2
    Texts = 2
    Backups = 2
    Tests = 2
    Seconds = 2
    Captures = 2
    Imports = 2
    UseCases = 2
    Outputs = 2
    Systems = 2
    Remote = {router}
    Local = {ollama}
    Machines = {this, other}
    This = this
    Anywhere = null
    Evaluations = 3
    Horizon = 2
SPECIFICATION PostgresSpec
INVARIANTS
    MigrationsAreSound
    BackupsAreSound
    RowsAreObserved
PROPERTIES
    DumpsAreKept
    RankingHolds
CHECK_DEADLOCK FALSE
