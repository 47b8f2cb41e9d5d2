SPECIFICATION Spec
CONSTANTS
    agent = agent
    update_file = update_file
    delete_file = delete_file
    Agents = {agent}
    Capabilities = {update_file, delete_file}
    HighRisk = {delete_file}
    DailyBudget = 400
    Strict = TRUE
    Grammar <- MCGrammar
    Requests = {m1, m2}
    Kinds <- MCKinds
    NoKind = NoKind
SYMMETRY RequestSymmetry
INVARIANTS Durable OverspendBounded RunsChecked
PROPERTY StaysDisabled
CHECK_DEADLOCK FALSE
