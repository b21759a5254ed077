SPECIFICATION Spec
CONSTANTS
    free = free
    small = small
    medium = medium
    large = large
    alice = alice
    bob = bob
    t1 = t1
    t2 = t2
    t3 = t3
    t4 = t4
    Tiers <- MCTiers
    Price <- MCPrice
    Bytes <- MCBytes
    Unlimited = {}
    MaxLimitBytes = 20
    FreeTier = free
    Users = {alice}
    Workers = {w1}
    Txs <- SeqTxs
    TxUser <- SeqUser
    TxSats <- SeqSats
    Exact <- SeqExact
    NoUser = NoUser
    NoTx = NoTx
    NoPaid = NoPaid
    MaxDeliveries = 2
    MaxUploads = 1
    MaxLogins = 1
    MaxReadBacks = 1
    MaxMonth = 2
    MaxRestarts = 1
CHECK_DEADLOCK FALSE
INVARIANTS SatsConserved StorageAccumulates RecordsAgree OncePerTx CrashCostsOneTier
