SPECIFICATION Spec
CONSTANTS
    Counts <- MCCounts
    Validators <- MCValidators
INVARIANTS
    AccessorsFailClosed
    QuorumsIntersect
    HonestMembersSuffice
