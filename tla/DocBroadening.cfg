SPECIFICATION Spec
CONSTANTS
    None = None
    PolicyIds <- MCPolicyIds
    Spellings <- MCSpellings
    PhoneNumbers <- MCPhoneNumbers
    Renderings <- MCRenderings
    Dobs <- MCDobs
    Similarity <- MCSimilarity
    Metaphone <- MCMetaphone
    Trigram <- MCTrigram
    TRIGRAM_THRESHOLD = 30
    Policies <- MCPolicies
    Wordings = {"w1"}
    Answers = {"approve", "reject"}
    TOP_N = 3
    MATCH_THRESHOLD = 70
    Intakes <- FewIntakes
    LLMQueries <- FewLLMQueries
PROPERTY BroadeningLoosens
