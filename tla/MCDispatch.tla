---------------------------- MODULE MCDispatch ----------------------------
(* Instances of Dispatch for TLC.  Of the three transports two share an    *)
(* id, as two tunnels without a label do.                                  *)
EXTENDS Dispatch, TLC

CONSTANTS t1, t2, t3, p1, p2, o1

MCIdOf == t1 :> "socks5-us" @@ t2 :> "socks5-(unlabelled)"
            @@ t3 :> "socks5-(unlabelled)"
MCPool3 == <<t1, t2, t3>>
===========================================================================
