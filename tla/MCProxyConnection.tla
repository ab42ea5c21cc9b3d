------------------------- MODULE MCProxyConnection -------------------------
(* The requests TLC sends through ProxyConnection: with and without        *)
(* headers, with data after a CONNECT, with a body that is as long as,     *)
(* shorter or longer than its Content-Length, with two Content-Lengths,    *)
(* and cut off in the middle of the request line or of a header.           *)
EXTENDS ProxyConnection

MCMethods == {"CONNECT", "HTTP"}

MCRequests ==
    {[method |-> "CONNECT", headers |-> h, cut |-> FALSE, data |-> d] :
        h \in {<<>>, <<{1}>>}, d \in 0..2}
    \cup {[method |-> "HTTP", headers |-> h, cut |-> FALSE, data |-> d] :
        h \in {<<{}>>, <<{1}>>, <<{2}, {}>>, <<{2}, {0}>>, <<{2}, {1}>>}, d \in 0..3}
    \cup {[method |-> m, headers |-> h, cut |-> TRUE, data |-> 0] :
        m \in MCMethods, h \in {<<>>, <<{}>>, <<{1}>>, <<{}, {}>>, <<{1}, {0}>>}}
    \cup {[method |-> m, headers |-> <<>>, cut |-> c, data |-> 0] :
        m \in {"malformed", "empty"}, c \in BOOLEAN}

(* Heads of every status, shorter than the limit, at it and beyond it.     *)
MCHeads == [status : {"200", "2xx", "other"}, size : {2}] \cup [status : {"200"}, size : {4, 5}]
===========================================================================
