CONSTANTS
    HashKeys = {"k", "j"}
    KeyPairs = {"p", "q"}
    Names = {"a", "b"}
    Requests = {1, 2}
    Scenarios <- SmallScenarios
SPECIFICATION Spec
INVARIANTS
    TypeOK
    AgentUnderstood
    OnlyAdmissible
    AnswersVerifiable
    Audited
PROPERTIES
    EveryRequestAnswered
