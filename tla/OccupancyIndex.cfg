CONSTANTS
    Groups <- MCGroups
    NoGroup = NoGroup
    Capacity <- MCCapacity
    Candidates <- MCCandidates
    MaxActive = 3
SPECIFICATION IndexSpec
INVARIANTS IndexIsFaithful
