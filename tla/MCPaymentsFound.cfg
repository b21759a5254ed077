SPECIFICATION Spec
CONSTANTS
    free = free
    small = small
    medium = medium
    large = large
    alice = alice
    bob = bob
    t1 = t1
    t2 = t2
    t3 = t3
    t4 = t4
    Tiers <- MCTiers
    Price <- MCPrice
    Bytes <- MCBytes
    Unlimited = {}
    MaxLimitBytes = 20
    FreeTier = free
    Users = {alice}
    Workers = {w1, w2}
    Txs <- PairTxs
    TxUser <- PairUser
    TxSats <- PairSats
    Exact = {t1}
    NoUser = NoUser
    NoTx = NoTx
    NoPaid = NoPaid
    MaxDeliveries = 2
    MaxUploads = 1
    MaxLogins = 0
    MaxReadBacks = 0
    MaxMonth = 0
    MaxRestarts = 0
CHECK_DEADLOCK FALSE
INVARIANTS OncePerTx AlreadyProcessed StorageAccumulates
