---------------------------- MODULE RelayStream ----------------------------
(***************************************************************************)
(* src/relay/mod.rs, RelayStream::relay: a select loop that moves bytes    *)
(* between the agent and one server, and stops at the first end of stream  *)
(* or error of either.  Bytes are numbered per sender; a failed write_all  *)
(* may have written any proper prefix.  Sides are the senders: "agent"     *)
(* (upstream) and "server" (downstream); both branches of the select have  *)
(* the same shape.                                                         *)
(***************************************************************************)
EXTENDS Naturals, Sequences

CONSTANTS
    BufSize,        \* BUF_SIZE, the most one read returns
    MaxBytes        \* bound on the bytes each side sends

ASSUME StreamAssumption == BufSize \in Nat \ {0} /\ MaxBytes \in Nat

Sides == {"agent", "server"}

VARIABLES
    sent,           \* bytes each side has sent
    ended,          \* sides that have closed or reset their connection
    taken,          \* bytes the relay has read from each side
    got,            \* bytes the other side has received from each
    moved,          \* bytes_relayed_up ("agent") and bytes_relayed_down
    writing,        \* side whose chunk is being written, or "none"
    over            \* the loop is left

vars == <<sent, ended, taken, got, moved, writing, over>>

Init ==
    /\ sent = [s \in Sides |-> 0] /\ ended = {}
    /\ taken = [s \in Sides |-> 0] /\ got = [s \in Sides |-> <<>>]
    /\ moved = [s \in Sides |-> 0] /\ writing = "none" /\ over = FALSE

Send(s) ==
    /\ s \notin ended /\ sent[s] < MaxBytes
    /\ sent' = [sent EXCEPT ![s] = @ + 1]
    /\ UNCHANGED <<ended, taken, got, moved, writing, over>>

End(s) ==
    /\ s \notin ended
    /\ ended' = ended \cup {s}
    /\ UNCHANGED <<sent, taken, got, moved, writing, over>>

Selecting == ~over /\ writing = "none"

\* The select picks side s: a read returns 1 to BufSize bytes.
Read(s) ==
    /\ Selecting
    /\ \E n \in 1..BufSize :
          /\ taken[s] + n <= sent[s]
          /\ taken' = [taken EXCEPT ![s] = @ + n]
    /\ writing' = s
    /\ UNCHANGED <<sent, ended, got, moved, over>>

\* A mutation: the buffer is written from the start of the stream.
ChunkFromStart(s) == [i \in 1..taken[s] |-> i]

\* The bytes between what was delivered and what was read are in the buffer.
Chunk(s) == [i \in 1..(taken[s] - moved[s]) |-> moved[s] + i]

Written(s) ==
    /\ writing = s
    /\ got' = [got EXCEPT ![s] = @ \o Chunk(s)]
    /\ moved' = [moved EXCEPT ![s] = @ + Len(Chunk(s))]
    /\ writing' = "none"
    /\ UNCHANGED <<sent, ended, taken, over>>

WriteFails(s) ==
    /\ writing = s
    /\ \E n \in 0..(Len(Chunk(s)) - 1) :
          got' = [got EXCEPT ![s] = @ \o SubSeq(Chunk(s), 1, n)]
    /\ writing' = "none"
    /\ over' = TRUE
    /\ UNCHANGED <<sent, ended, taken, moved>>

\* A mutation: the end of one side is noticed only when the other has ended.
BothEnded(s) == ended = Sides

\* Ok(0), or a read error with bytes still unread, of side s.
HasEnded(s) == s \in ended

Stop(s) ==
    /\ Selecting
    /\ HasEnded(s)
    /\ over' = TRUE
    /\ UNCHANGED <<sent, ended, taken, got, moved, writing>>

ReadStep == \E s \in Sides : Read(s) \/ Stop(s)

WriteStep(s) == Written(s) \/ WriteFails(s)

Next ==
    \/ ReadStep
    \/ \E s \in Sides : WriteStep(s) \/ Send(s) \/ End(s)

Spec == Init /\ [][Next]_vars

\* The relay task is polled when a read is ready.  A write_all may stay pending
\* for ever, because the side it writes to does not read.
FairSpec == Spec /\ WF_vars(ReadStep)

---------------------------------------------------------------------------

P == INSTANCE Pipe WITH Sides <- Sides, sent <- sent, got <- got, over <- over

\* The relay is a pipe: in order, without gaps or repeats, also when a write
\* fails half way, and silent after its end.
ImplementsPipe == P!Spec

\* Once a side has ended the relay ends, unless it sits for ever in one
\* write_all, which is awaited inside a branch, outside of the select, to a
\* side that does not read: the end is then never noticed.
RelayEnds == ended # {} ~> (over \/ [](writing # "none"))
===========================================================================
