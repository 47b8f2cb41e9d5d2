SPECIFICATION Spec
CONSTANTS
    Agents = {a1, a2}
    Seeds = {a1}
    Calls = {c1, c2}
    Sweeper = Sweeper
    Beater = Beater
    NoAgent = NoAgent
CHECK_DEADLOCK FALSE
INVARIANTS EmptyUnlessSeeded RoutesMatchMembers
PROPERTY StaleRemoved
