CONSTANTS
    None = None
    Account = {r1, r2, r3, r4}
    Chain = {evm}
    Proposal = {p1}
    Thresholds = {1, 2, 3}
    DefaultThreshold = 1
    ProposalLifetime = 2
    MaxNonce = 3
SPECIFICATION Spec
SYMMETRY MCSymmetry
INVARIANTS
    TypeOK
    RelayerCountExact
    VotesDistinct
    ExecutedOnce
    NoncesConsecutive
PROPERTIES
    DecisionIsFinal
    NoDecisionMissed
