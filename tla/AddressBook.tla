---------------------------- MODULE AddressBook ----------------------------
(***************************************************************************)
(* What the relay promises about Bitcoin addresses, with no goroutines and *)
(* no events: it learns addresses from the wallet, and hands an address    *)
(* nobody holds to a name that holds none.  Nothing is ever taken back or  *)
(* handed over, so a payment seen on an address has exactly one payer.     *)
(* AddressPool implements this specification.                              *)
(***************************************************************************)
CONSTANTS
    Names,      \* the key strings the statistics store files addresses under
    Addrs,      \* every address the wallet can generate
    NoAddr      \* "holds no address"

VARIABLES
    known,      \* the addresses learnt so far
    holds       \* the address each name holds

Init ==
    /\ known = {}
    /\ holds = [n \in Names |-> NoAddr]

Learn(a) ==
    /\ known' = known \cup {a}
    /\ UNCHANGED holds

Assign(n, a) ==
    /\ a \in known
    /\ holds[n] = NoAddr
    /\ \A m \in Names : holds[m] # a
    /\ holds' = [holds EXCEPT ![n] = a]
    /\ UNCHANGED known

Next ==
    \/ \E a \in Addrs : Learn(a)
    \/ \E n \in Names, a \in Addrs : Assign(n, a)

Spec == Init /\ [][Next]_<<known, holds>>
=============================================================================
