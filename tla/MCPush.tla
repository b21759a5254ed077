------------------------------- MODULE MCPush -------------------------------
(***************************************************************************)
(* Instances of Push for TLC: a gift wrap to Alice and Bob, and a reply of *)
(* Bob to an old note of Alice's that also mentions her.                   *)
(***************************************************************************)
EXTENDS Push, TLC

CONSTANTS alice, bob, nobody, wrap, reply, old, phoneA, phoneB, ws1, ws2

MCUsers   == {alice, bob, nobody}
MCEvents  == {wrap, reply, old}
MCKind    == wrap :> "wrap" @@ reply :> "note" @@ old :> "note"
MCAuthor  == wrap :> nobody @@ reply :> nobody @@ old :> bob
MCMention == wrap :> {alice, bob} @@ reply :> {alice} @@ old :> {}
MCRef     == wrap :> NoEvent @@ reply :> old @@ old :> NoEvent
MCDevices == {phoneA, phoneB}
MCOwner   == phoneA :> alice @@ phoneB :> bob
MCToken   == phoneA :> "A" @@ phoneB :> "A"

\* One connection, or the same gift wrap over two.
OneConn   == {ws1}
OneScript == ws1 :> <<reply, reply>>
TwoConns  == {ws1, ws2}
BothSend  == ws1 :> <<wrap>> @@ ws2 :> <<wrap>>
MCReqs    == {[kind |-> "register", dev |-> phoneA], [kind |-> "unregister", dev |-> phoneA]}
OneReq    == {[kind |-> "register", dev |-> phoneA]}
NoReqs    == {}
=============================================================================
