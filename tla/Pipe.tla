-------------------------------- MODULE Pipe --------------------------------
(***************************************************************************)
(* What a relay between two connections promises: in each direction the    *)
(* far side receives a growing prefix of the bytes the near side has sent, *)
(* and nothing moves any more once the pipe is over.                       *)
(***************************************************************************)
EXTENDS Naturals, Sequences

CONSTANT Sides          \* the two directions, named by their senders

VARIABLES sent,         \* how many bytes each side has sent: 1, 2, ...
          got,          \* the bytes that have arrived from each side
          over

pipeVars == <<sent, got, over>>

Prefix(n) == [i \in 1..n |-> i]

Init == /\ sent = [s \in Sides |-> 0]
        /\ got = [s \in Sides |-> <<>>]
        /\ over = FALSE

\* The senders are not told when the pipe is over.
Send(s) == /\ sent' = [sent EXCEPT ![s] = @ + 1]
           /\ UNCHANGED <<got, over>>

Arrive(s) ==
    /\ ~over
    /\ \E n \in (Len(got[s]) + 1)..sent[s] :
          got' = [got EXCEPT ![s] = Prefix(n)]
    /\ over' \in BOOLEAN
    /\ UNCHANGED sent

Close == /\ ~over
         /\ over' = TRUE
         /\ UNCHANGED <<sent, got>>

Next == Close \/ \E s \in Sides : Send(s) \/ Arrive(s)

Spec == Init /\ [][Next]_pipeVars
=============================================================================
