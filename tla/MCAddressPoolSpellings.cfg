SPECIFICATION PoolSpec
CONSTANTS
    alice = alice
    bob = bob
    aliceHex = aliceHex
    aliceNpub = aliceNpub
    bobHex = bobHex
    Names <- Spellings
    Users = {alice, bob}
    KeyOf <- SpelledKeyOf
    HexNames = {aliceHex, bobHex}
    Addrs = {a1, a2}
    Agents = {g1, g2}
    Syncers = {s1, s2}
    MinBuffer = 0
    NoName = NoName
    NoAddr = NoAddr
INVARIANTS Exclusive PublishedOwned
PROPERTY ImplementsBook
SYMMETRY PoolSymmetry
