SPECIFICATION Spec
CONSTANTS
    free = free
    small = small
    medium = medium
    large = large
    alice = alice
    bob = bob
    t1 = t1
    t2 = t2
    t3 = t3
    t4 = t4
    Tiers <- MCTiers
    Price <- MCPrice
    Bytes <- MCBytes
    Unlimited = {large}
    MaxLimitBytes = 20
    FreeTier = free
    Users = {alice}
    Workers = {w1, w2}
    Txs <- PairTxs
    TxUser <- PairUser
    TxSats <- PairSats
    Exact <- PairTxs
    NoUser = NoUser
    NoTx = NoTx
    NoPaid = NoPaid
    MaxDeliveries = 1
    MaxUploads = 1
    MaxLogins = 1
    MaxReadBacks = 1
    MaxMonth = 1
    MaxRestarts = 0
CHECK_DEADLOCK FALSE
INVARIANTS EventNeverLost PaidIsPublished CreditNeverNegative
