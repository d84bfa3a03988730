---------------------------- MODULE TransferPool ----------------------------
(***************************************************************************)
(* What a stream promises about the memory it shares with the USB stack:   *)
(* transfers are lent when a stream starts, come back one at a time, and   *)
(* are given up only after the stream has been told to drain and none of   *)
(* them is lent any more.  IsoStream implements this with the counter      *)
(* dead_xfers instead of the set of lent transfers.                        *)
(***************************************************************************)
CONSTANTS Streams, Xfers

VARIABLES
    phase,  \* "off", "on" or "draining"
    lent    \* the transfers the USB stack may still write to

Init ==
    /\ phase = [s \in Streams |-> "off"]
    /\ lent = [s \in Streams |-> {}]

Lend(s) ==
    /\ phase[s] = "off"
    /\ phase' = [phase EXCEPT ![s] = "on"]
    /\ \E T \in SUBSET Xfers : lent' = [lent EXCEPT ![s] = T]

Return(s, x) ==
    /\ x \in lent[s]
    /\ lent' = [lent EXCEPT ![s] = @ \ {x}]
    /\ UNCHANGED phase

Drain(s) ==
    /\ phase[s] = "on"
    /\ phase' = [phase EXCEPT ![s] = "draining"]
    /\ UNCHANGED lent

Reclaim(s) ==
    /\ phase[s] = "draining"
    /\ lent[s] = {}
    /\ phase' = [phase EXCEPT ![s] = "off"]
    /\ UNCHANGED lent

Next ==
    \E s \in Streams :
        \/ Lend(s)
        \/ \E x \in Xfers : Return(s, x)
        \/ Drain(s)
        \/ Reclaim(s)

Spec == Init /\ [][Next]_<<phase, lent>>
=============================================================================
