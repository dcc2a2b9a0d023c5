CONSTANTS
    HashKeys = {"k", "j"}
    KeyPairs = {"p", "q"}
    Names = {"a", "b"}
    Requests = {1, 2}
    Scenarios <- AuditedUpdate
SPECIFICATION Spec
INVARIANTS
    AllSinksNotified
