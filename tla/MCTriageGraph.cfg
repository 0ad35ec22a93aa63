SPECIFICATION Spec
CONSTANTS
    None = None
    PolicyIds <- MCPolicyIds
    Spellings <- MCSpellings
    PhoneNumbers <- MCPhoneNumbers
    Renderings <- MCRenderings
    Dobs <- MCDobs
    Similarity <- MCSimilarity
    Metaphone <- MCMetaphone
    Trigram <- MCTrigram
    TRIGRAM_THRESHOLD = 30
    Policies <- MCPolicies
    Wordings = {"w1"}
    Answers = {"approve", "reject"}
    TOP_N = 2
    MATCH_THRESHOLD = 70
    Intakes <- MCIntakes
    LLMQueries <- MCLLMQueries
INVARIANTS
    TypeOK
    NodesHaveTheirInputs
    ResolutionIsJustified
    GivesUpOnlyWhenExhausted
    SelectionIsAmbiguous
    SelectionOnlyWhenExhausted
    NamedPolicyIsFound
    JudgmentsAreEarned
PROPERTIES
    ResultsStand
    EveryNodeIsProgress
    ReachesAHuman
