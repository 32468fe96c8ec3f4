----------------------------- MODULE MCPayment ------------------------------
(***************************************************************************)
(* Four nodes.  Node 1 has channels 1 and 2, with nodes 2 and 3; channel 3 *)
(* leads from node 2 to node 3; channel 4 from node 3 to node 4 is known   *)
(* only by the hint in the first invoice.  Both payments have two routes,  *)
(* the longer one with two nodes that want a fee.                          *)
(***************************************************************************)
EXTENDS Payment

CONSTANTS h1, h2

MCEnds == <<<<1, 2>>, <<1, 3>>, <<2, 3>>, <<3, 4>>>>

Terms(base, prop, delta, disable) ==
    [info |-> [fee_base_msat |-> base, fee_prop_millionths |-> prop,
               cltv_expiry_delta |-> delta], disable |-> disable]

Cheap == Terms(1, 100000, 3, FALSE)
Off == Terms(1, 100000, 3, TRUE)

MCUpdates == {Cheap, Off}
MCFirstUpdate == [c \in Announced |-> [d \in 1 .. 2 |-> Cheap]]
MCPayee == (h1 :> 4) @@ (h2 :> 3)
MCAmount == (h1 :> 1000) @@ (h2 :> 500)
MCRField == (h1 :> <<[sci |-> 4, node |-> 3, info |-> Terms(7, 0, 2, FALSE).info]>>)
              @@ (h2 :> <<>>)

=============================================================================
