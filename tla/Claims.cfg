SPECIFICATION ClaimsSpec
CONSTANTS
    ZkTxs = {"xa", "xw", "xf"}
    ZkIds = {1, 2}
    ZkClients = {c1, c2}
    ZkFaults = 1
    ZkPays <- MCPays
    ZkRecipient <- MCRecipient
    ZkWallet <- MCWallet
    Callbacks = {b1, b2}
    Devices = {d1, d2}
    Answers = {v1}
    MaxCodes = 1
    CodeAttempts = 2
    Signers = {c1, c2}
    KeyEnvs = {"dev"}
    MaxBackups = 1
    KeyFaults = 1
    MaxKeys = 2
    MaxRestarts = 1
    AliasOwners = {"k1"}
    AliasAddresses = {"g1", "sol1"}
    AliasChain <- MCAliasChain
    AliasAdds = {"q1"}
    AliasRemoves = {"r1"}
    AliasIssues = {"i1"}
    AliasFinishes = {"f1", "f2", "f3"}
    MaxAliases = 2
    MaxTries = 2
    ErOffers = {"o1", "o2"}
    ErClaims = {"c1", "c2", "c3", "c4"}
    ErMaxWrong = 2
    RcAnswers = {"a1", "a2", "a3"}
    RcMaxWrong = 2
 
INVARIANT HandshakeOnce
INVARIANT CredentialForwarded
INVARIANT RecoveryTokenBounded
PROPERTY ZkNotified
PROPERTY StaleSignInCleared
PROPERTY RecoverySingleUse
\* Every row may be settled and every request answered.
CHECK_DEADLOCK FALSE
