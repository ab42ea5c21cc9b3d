----------------------------- MODULE MCLibrary -----------------------------
(***************************************************************************)
(* The parts of the crate that keep to themselves, checked side by side:   *)
(* the route manager, the anti-correlation layer and the payment           *)
(* interceptor.  They share no state and main.rs runs none of them, so a   *)
(* behaviour is one of one part while the other two stay as they began.    *)
(***************************************************************************)
EXTENDS RouteManager, AntiCorr, Payment

VARIABLE part       \* the part this behaviour is of

\* Every packet of up to six bytes (with four, the packet is all trailer), and
\* some on both sides of 16, the first length a trailer of this Base cannot tell.
MCPackets ==
    UNION {[1..n -> 0..1] : n \in 0..6} \cup
    {[i \in 1..n |-> b] : n \in 15..17, b \in 0..1}

StillLayer ==
    /\ sender = FromConfig([jitter |-> [enabled |-> FALSE, min_ms |-> 0, max_ms |-> 0],
                            padding |-> [enabled |-> FALSE, target_size |-> 0]])
    /\ receiver = sender
    /\ stage = "new" /\ delay = 0
    /\ data = <<>> /\ wire = <<>> /\ got = <<>>

LibraryInit ==
    \/ part = "route" /\ Init /\ StillLayer /\ PaymentInit
    \/ part = "layer" /\ Init /\ LayerInit /\ PaymentInit
    \/ part = "payment" /\ Init /\ StillLayer /\ PaymentInit

LibraryNext ==
    /\ UNCHANGED part
    /\ \/ part = "route" /\ Next /\ UNCHANGED <<layerVars, paymentVars>>
       \/ part = "layer" /\ LayerNext /\ UNCHANGED <<vars, paymentVars>>
       \/ part = "payment" /\ PaymentNext /\ UNCHANGED <<vars, layerVars>>

LibrarySpec == LibraryInit /\ [][LibraryNext]_<<vars, layerVars, paymentVars, part>>
============================================================================
