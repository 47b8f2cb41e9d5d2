SPECIFICATION Spec
CONSTANTS
    Calls = {x1, x2}
    Nodes <- MCNodes
    Graphs <- MCGraphs
CHECK_DEADLOCK FALSE
INVARIANTS  ShownWasMeasured
PROPERTY Answered
