SPECIFICATION RunSpec
CONSTANTS
    None = None
    PolicyIds <- MCPolicyIds
    Spellings <- MCSpellings
    PhoneNumbers <- MCPhoneNumbers
    Renderings <- MCRenderings
    Dobs <- MCDobs
    Similarity <- MCSimilarity
    Metaphone <- MCMetaphone
    Trigram <- MCTrigram
    TRIGRAM_THRESHOLD = 30
    Policies <- MCPolicies
    Wordings = {"w1", "w2"}
    Answers = {"approve", "reject", "decline", "P1"}
    TOP_N = 3
    MATCH_THRESHOLD = 70
    Intakes <- RunIntakes
    LLMQueries <- RunLLMQueries
    Scripts <- MCScripts
    MAX_CRASHES = 2
INVARIANT RejectionWritesNothing
