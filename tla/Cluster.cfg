SPECIFICATION Spec
CONSTANTS
    First = n1
    Second = n2
    Nodes = {n1, n2, n3}
    MaxSlot = 2
    LeaderOf <- Schedule
    Proposals = {a, b}
    BatchSize = 1
    Total = 3
    Crashing = {n1}
    MaxCrashes = 1
SYMMETRY ProposalSymmetry
INVARIANTS
    TypeOK
    OneProposalPerSlot
    QuorumHoldsBlock
    
CHECK_DEADLOCK FALSE
PROPERTY
    ReachesAgreement
