--------------------------- MODULE MCAddressPool ---------------------------
(***************************************************************************)
(* Instances of AddressPool for TLC: two goroutines and two sync workers   *)
(* meet over two addresses and two users.  In the larger instance, too     *)
(* large for liveness, Alice is known under both spellings of her key.     *)
(***************************************************************************)
EXTENDS AddressPool, TLC

CONSTANTS alice, bob, aliceHex, aliceNpub, bobHex

OneEach   == {aliceHex, bobHex}
OneKeyOf  == aliceHex :> alice @@ bobHex :> bob

Spellings == {aliceHex, aliceNpub, bobHex}
SpelledKeyOf == aliceHex :> alice @@ aliceNpub :> alice @@ bobHex :> bob

\* Goroutines, sync workers and addresses are interchangeable.
PoolSymmetry == Permutations(Agents) \cup Permutations(Syncers) \cup Permutations(Addrs)
=============================================================================
