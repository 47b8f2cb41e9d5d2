SPECIFICATION Spec
CONSTANTS
    Voters = {v1, v2}
    Requirements = {2}
    VetoNum = 1
    VetoDen = 1
    MaxProposals = 2
    MaxCreated = 3
SYMMETRY VoterSymmetry
INVARIANTS TypeOK OnePlace StatusIsVerdict
PROPERTY ImplementsBallot
