SPECIFICATION FairSpec
CONSTANTS
    h1 = h1
    h2 = h2
    k1 = k1
    k2 = k2
    c1 = c1
    r1 = r1
    alice = alice
    bob = bob
    other = other
    agent = agent
    KeyName = {k1, k2}
    Secret = {c1}
    NoKey = NoKey
    Unset = Unset
    NotRegistered = NotRegistered
    NoValue = NoValue
    NoHeaders = NoHeaders
    Host = {h1, h2}
    ServiceName = {"web"}
    Configs <- Configs4
    Deployment <- Deployment6
    CAFiles = {"valid", "expired"}
    Request = {r1}
    Exchange <- Exchange3
    NoExchange = NoExchange
    Claim <- Claim1
    MaxEdits = 2
    MaxIssued = 1
INVARIANTS TypeOK KeptTokensVerify ServingCanSign UserSeenAsToken CredentialsStayApart
PROPERTY AdvertisedIsServed
