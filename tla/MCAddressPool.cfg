SPECIFICATION PoolFairSpec
CONSTANTS
    alice = alice
    bob = bob
    aliceHex = aliceHex
    aliceNpub = aliceNpub
    bobHex = bobHex
    Names <- OneEach
    Users = {alice, bob}
    KeyOf <- OneKeyOf
    HexNames = {aliceHex, bobHex}
    Addrs = {a1, a2}
    Agents = {g1, g2}
    Syncers = {s1, s2}
    MinBuffer = 0
    NoName = NoName
    NoAddr = NoAddr
INVARIANTS Exclusive PublishedOwned
PROPERTIES ImplementsBook JobsEnd
