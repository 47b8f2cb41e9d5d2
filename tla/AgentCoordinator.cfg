SPECIFICATION Spec
CONSTANTS
    Agents = {a1, a2, a3}
    Proposals = {p1}
    Executions = {x1, x2}
    NoAgent = NoAgent
INVARIANTS OneExecution PlannerSeparate
PROPERTY Served
