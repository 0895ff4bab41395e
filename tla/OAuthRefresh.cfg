CONSTANTS
    chat = chat
    extraction = extraction
    login = login
    Readers = {chat, extraction}
    Logins = {login}
    Home <- HomeOf
    Backends = {"file", "vault"}
    TTL = 2
    Skew = 1
    LockTimeout = 1
    CodeTTL = 1
    MaxTime = 1
    MaxGrants = 3
    MaxFaults = 1
    None = None
SPECIFICATION LiveOAuthSpec
INVARIANTS
    SoleHolder
    StoredTokenLives
PROPERTIES
    RenewalsChain
    CallsEnd
CHECK_DEADLOCK FALSE
