------------------------- MODULE RelayStreamProofs -------------------------
(***************************************************************************)
(* RelayStream::relay implements the pipe, for every buffer size and every *)
(* number of bytes.                                                        *)
(***************************************************************************)
EXTENDS RelayStream, TLAPS

\* The inductive invariant.  What has arrived from a side is a prefix of what
\* it sent; as long as the loop runs that is moved[s] bytes, and only the side
\* whose chunk is being written is ahead of it.
StreamInv ==
    /\ sent \in [Sides -> Nat]
    /\ taken \in [Sides -> Nat]
    /\ moved \in [Sides -> Nat]
    /\ got \in [Sides -> Seq(Nat)]
    /\ over \in BOOLEAN
    /\ \A s \in Sides :
          /\ moved[s] <= taken[s] /\ taken[s] <= sent[s]
          /\ writing = s => moved[s] < taken[s] /\ ~over
          /\ ~over => got[s] = P!Prefix(moved[s])
          /\ ~over /\ writing # s => taken[s] = moved[s]

\* Appending the next k numbers to a prefix of length m gives the prefix of
\* length m + k.
LEMMA PrefixGrows ==
    ASSUME NEW m \in Nat, NEW k \in Nat
    PROVE  /\ P!Prefix(m) \in Seq(Nat) /\ Len(P!Prefix(m)) = m
           /\ P!Prefix(m) \o [i \in 1..k |-> m + i] = P!Prefix(m + k)
<1> DEFINE c == [i \in 1..k |-> m + i]
           f == P!Prefix(m) \o c
<1>1. P!Prefix(m) \in Seq(Nat) /\ Len(P!Prefix(m)) = m
  BY DEF P!Prefix
<1>2. c \in Seq(Nat) /\ Len(c) = k
  OBVIOUS
<1>3. \A i \in 1..m : P!Prefix(m)[i] = i
  BY DEF P!Prefix
<1>4. f \in Seq(Nat) /\ Len(f) = m + k
  <2> HIDE DEF c
  <2> QED
    BY <1>1, <1>2
<1>5. \A i \in 1..(m + k) : f[i] = i
  <2> SUFFICES ASSUME NEW i \in 1..(m + k) PROVE f[i] = i
    OBVIOUS
  <2>1. CASE i <= m
    BY <2>1, <1>1, <1>2, <1>3
  <2>2. CASE i > m
    <3>1. i - m \in 1..k
      BY <2>2
    <3>2. f[i] = c[i - m]
      <4> HIDE DEF c
      <4> QED
        BY <2>2, <1>1, <1>2
    <3>3. c[i - m] = m + (i - m)
      BY <3>1
    <3> HIDE DEF c, f
    <3> QED
      BY <3>2, <3>3
  <2> HIDE DEF f
  <2> QED
    BY <2>1, <2>2
<1>6. P!Prefix(m + k) \in Seq(Nat) /\ Len(P!Prefix(m + k)) = m + k
  BY DEF P!Prefix
<1>7. \A i \in 1..(m + k) : P!Prefix(m + k)[i] = i
  BY DEF P!Prefix
<1> HIDE DEF f
<1>8. f = P!Prefix(m + k)
  BY <1>4, <1>5, <1>6, <1>7
<1> QED
  BY <1>1, <1>8 DEF f

\* The bytes in the buffer while a chunk of side s is written.
LEMMA ChunkAppended ==
    ASSUME StreamInv, NEW s \in Sides, writing = s
    PROVE  /\ ~over
           /\ taken[s] - moved[s] \in Nat \ {0}
           /\ Chunk(s) \in Seq(Nat)
           /\ Len(Chunk(s)) = taken[s] - moved[s]
           /\ \A n \in 0..Len(Chunk(s)) :
                 got[s] \o SubSeq(Chunk(s), 1, n) = P!Prefix(moved[s] + n)
           /\ got[s] \o Chunk(s) = P!Prefix(taken[s])
<1> DEFINE k == taken[s] - moved[s]
<1>1. /\ moved[s] \in Nat /\ taken[s] \in Nat /\ moved[s] < taken[s]
      /\ ~over /\ got[s] = P!Prefix(moved[s])
  BY DEF StreamInv
<1>2. k \in Nat \ {0} /\ moved[s] + k = taken[s]
  BY <1>1
<1>3. Chunk(s) = [i \in 1..k |-> moved[s] + i]
  BY DEF Chunk
<1> HIDE DEF k
<1>4. Chunk(s) \in Seq(Nat) /\ Len(Chunk(s)) = k
  BY <1>1, <1>2, <1>3
<1>5. ASSUME NEW n \in 0..k
      PROVE  got[s] \o SubSeq(Chunk(s), 1, n) = P!Prefix(moved[s] + n)
  <2>1. SubSeq(Chunk(s), 1, n) = [i \in 1..n |-> moved[s] + i]
    BY <1>1, <1>2, <1>3
  <2>2. n \in Nat
    BY <1>2
  <2>3. P!Prefix(moved[s]) \o [i \in 1..n |-> moved[s] + i] = P!Prefix(moved[s] + n)
    BY <1>1, <2>2, PrefixGrows
  <2> QED
    BY <1>1, <2>1, <2>3
<1>6. got[s] \o Chunk(s) = P!Prefix(taken[s])
  BY <1>1, <1>2, <1>3, PrefixGrows
<1> QED
  BY <1>1, <1>2, <1>4, <1>5, <1>6 DEF k

\* What a write that fails after n bytes leaves behind.
LEMMA FailedWrite ==
    ASSUME StreamInv, NEW s \in Sides, writing = s,
           NEW n \in 0..(Len(Chunk(s)) - 1)
    PROVE  /\ ~over /\ n \in Nat /\ n < taken[s] - moved[s]
           /\ got[s] \o SubSeq(Chunk(s), 1, n) = P!Prefix(moved[s] + n)
<1>1. /\ ~over /\ Len(Chunk(s)) = taken[s] - moved[s] /\ Len(Chunk(s)) \in Nat
      /\ \A k \in 0..Len(Chunk(s)) :
            got[s] \o SubSeq(Chunk(s), 1, k) = P!Prefix(moved[s] + k)
  BY ChunkAppended
<1>2. n \in 0..Len(Chunk(s)) /\ n \in Nat /\ n < Len(Chunk(s))
  BY <1>1
<1>3. got[s] \o SubSeq(Chunk(s), 1, n) = P!Prefix(moved[s] + n)
  BY <1>1, <1>2
<1> QED
  BY <1>1, <1>2, <1>3

\* The invariant holds initially.
LEMMA InitInv == Init => StreamInv
<1>1. P!Prefix(0) = <<>>
  BY DEF P!Prefix
<1> SUFFICES ASSUME Init PROVE StreamInv
  OBVIOUS
<1>2. /\ sent = [s \in Sides |-> 0] /\ taken = [s \in Sides |-> 0]
      /\ moved = [s \in Sides |-> 0] /\ got = [s \in Sides |-> <<>>]
      /\ writing = "none" /\ over = FALSE
  BY DEF Init
<1>3. \A s \in Sides : writing # s
  BY <1>2 DEF Sides
<1>4. /\ sent \in [Sides -> Nat] /\ taken \in [Sides -> Nat]
      /\ moved \in [Sides -> Nat] /\ over \in BOOLEAN
      /\ got \in [Sides -> Seq(Nat)]
  <2>1. <<>> \in Seq(Nat) /\ 0 \in Nat
    OBVIOUS
  <2>2. got \in [Sides -> Seq(Nat)]
    BY <1>2, <2>1
  <2> QED
    BY <1>2, <2>1, <2>2
<1>5. ASSUME NEW s \in Sides
      PROVE  /\ moved[s] = 0 /\ taken[s] = 0 /\ sent[s] = 0
             /\ got[s] = P!Prefix(moved[s])
  BY <1>1, <1>2
<1> QED
  BY <1>3, <1>4, <1>5 DEF StreamInv

\* Every step keeps it.
LEMMA NextInv == StreamInv /\ [Next]_vars => StreamInv'
<1> SUFFICES ASSUME StreamInv, [Next]_vars PROVE StreamInv'
  OBVIOUS
<1> USE StreamAssumption
<1>1. ASSUME NEW s \in Sides, Send(s) PROVE StreamInv'
  BY <1>1 DEF Send, StreamInv
<1>2. ASSUME NEW s \in Sides, End(s) PROVE StreamInv'
  BY <1>2 DEF End, StreamInv
<1>3. ASSUME NEW s \in Sides, Read(s) PROVE StreamInv'
  <2>1. ~over /\ writing = "none"
    BY <1>3 DEF Read, Selecting
  <2>2. PICK n \in 1..BufSize : /\ taken[s] + n <= sent[s]
                                /\ taken' = [taken EXCEPT ![s] = @ + n]
    BY <1>3 DEF Read
  <2>3. taken[s] = moved[s]
    BY <2>1 DEF StreamInv, Sides
  <2> QED
    BY <1>3, <2>1, <2>2, <2>3 DEF Read, StreamInv, Sides
<1>4. ASSUME NEW s \in Sides, Written(s) PROVE StreamInv'
  <2>1. /\ writing = s /\ ~over
        /\ got[s] \o Chunk(s) = P!Prefix(taken[s])
        /\ Len(Chunk(s)) = taken[s] - moved[s]
    BY <1>4, ChunkAppended DEF Written
  <2>2. taken[s] \in Nat /\ moved[s] \in Nat
    BY DEF StreamInv
  <2>3. got' = [got EXCEPT ![s] = P!Prefix(taken[s])]
    BY <1>4, <2>1 DEF Written
  <2>4. moved' = [moved EXCEPT ![s] = taken[s]]
    <3>1. moved[s] + Len(Chunk(s)) = taken[s]
      BY <2>1, <2>2
    <3>2. moved' = [moved EXCEPT ![s] = moved[s] + Len(Chunk(s))]
      BY <1>4 DEF Written
    <3> QED
      BY <3>1, <3>2
  <2>5. P!Prefix(taken[s]) \in Seq(Nat)
    BY <2>2, PrefixGrows
  <2>6. /\ got' \in [Sides -> Seq(Nat)] /\ moved' \in [Sides -> Nat]
        /\ got'[s] = P!Prefix(taken[s]) /\ moved'[s] = taken[s]
        /\ \A r \in Sides \ {s} : got'[r] = got[r] /\ moved'[r] = moved[r]
    BY <2>2, <2>3, <2>4, <2>5 DEF StreamInv
  <2>7. /\ taken' = taken /\ sent' = sent /\ over' = over /\ writing' = "none"
    BY <1>4 DEF Written
  <2>8. \A r \in Sides \ {s} : writing # r
    BY <2>1
  <2>9. ASSUME NEW r \in Sides
        PROVE  /\ moved'[r] <= taken'[r] /\ taken'[r] <= sent'[r]
               /\ writing' # r
               /\ ~over' => got'[r] = P!Prefix(moved'[r])
               /\ ~over' /\ writing' # r => taken'[r] = moved'[r]
    <3>1. writing' # r
      BY <2>7 DEF Sides
    <3>2. CASE r = s
      BY <2>1, <2>2, <2>6, <2>7, <3>1, <3>2 DEF StreamInv
    <3>3. CASE r # s
      BY <2>6, <2>7, <2>8, <3>1, <3>3 DEF StreamInv
    <3> QED
      BY <3>2, <3>3
  <2> QED
    BY <2>6, <2>7, <2>9 DEF StreamInv
<1>5. ASSUME NEW s \in Sides, WriteFails(s) PROVE StreamInv'
  <2>1. PICK n \in 0..(Len(Chunk(s)) - 1) :
           got' = [got EXCEPT ![s] = @ \o SubSeq(Chunk(s), 1, n)]
    BY <1>5 DEF WriteFails
  <2>2. got[s] \o SubSeq(Chunk(s), 1, n) = P!Prefix(moved[s] + n) /\ n \in Nat
    BY <1>5, FailedWrite DEF WriteFails
  <2>3. P!Prefix(moved[s] + n) \in Seq(Nat)
    <3>1. moved[s] + n \in Nat
      BY <2>2 DEF StreamInv
    <3> QED
      BY <3>1, PrefixGrows
  <2>4. got' \in [Sides -> Seq(Nat)]
    BY <2>1, <2>2, <2>3 DEF StreamInv
  <2> QED
    BY <1>5, <2>4 DEF WriteFails, StreamInv, Sides
<1>6. ASSUME NEW s \in Sides, Stop(s) PROVE StreamInv'
  BY <1>6 DEF Stop, Selecting, StreamInv, Sides
<1>7. CASE UNCHANGED vars
  BY <1>7 DEF vars, StreamInv
<1> QED
  BY <1>1, <1>2, <1>3, <1>4, <1>5, <1>6, <1>7 DEF Next, ReadStep, WriteStep

\* Every step of the relay is a step of the pipe or leaves it as it is.
LEMMA StepRefines ==
    ASSUME StreamInv, [Next]_vars
    PROVE  [P!Next]_(P!pipeVars)
<1> USE DEF P!pipeVars
<1>1. ASSUME NEW s \in Sides, Send(s) PROVE P!Next
  BY <1>1 DEF Send, P!Next, P!Send
<1>2. ASSUME NEW s \in Sides, End(s) \/ Read(s) PROVE UNCHANGED P!pipeVars
  BY <1>2 DEF End, Read
<1>3. ASSUME NEW s \in Sides, Written(s) PROVE P!Next
  <2>1. /\ ~over
        /\ got[s] \o Chunk(s) = P!Prefix(taken[s])
    BY <1>3, ChunkAppended DEF Written
  <2>2. Len(got[s]) = moved[s] /\ moved[s] < taken[s] /\ taken[s] <= sent[s]
    BY <1>3, <2>1, PrefixGrows DEF Written, StreamInv
  <2>3. taken[s] \in (Len(got[s]) + 1)..sent[s]
    BY <2>2 DEF StreamInv
  <2>4. P!Arrive(s)
    BY <1>3, <2>1, <2>3 DEF Written, P!Arrive, StreamInv
  <2> QED
    BY <2>4 DEF P!Next
<1>4. ASSUME NEW s \in Sides, WriteFails(s) PROVE P!Next
  <2>1. PICK n \in 0..(Len(Chunk(s)) - 1) :
           got' = [got EXCEPT ![s] = @ \o SubSeq(Chunk(s), 1, n)]
    BY <1>4 DEF WriteFails
  <2>2. /\ ~over /\ n \in Nat
        /\ n < taken[s] - moved[s]
        /\ got[s] \o SubSeq(Chunk(s), 1, n) = P!Prefix(moved[s] + n)
    BY <1>4, FailedWrite DEF WriteFails
  <2>3. /\ moved[s] \in Nat /\ taken[s] \in Nat /\ sent[s] \in Nat
        /\ taken[s] <= sent[s]
        /\ got[s] = P!Prefix(moved[s])
    BY <2>2 DEF StreamInv
  <2>4. Len(got[s]) = moved[s]
    BY <2>3, PrefixGrows
  <2>5. got' = [got EXCEPT ![s] = P!Prefix(moved[s] + n)]
    BY <2>1, <2>2
  <2>6. CASE n = 0
    <3>1. UNCHANGED got
      BY <2>3, <2>5, <2>6 DEF StreamInv
    <3> QED
      BY <1>4, <2>2, <3>1 DEF WriteFails, P!Next, P!Close
  <2>7. CASE n > 0
    <3>1. moved[s] + n \in (Len(got[s]) + 1)..sent[s]
      BY <2>2, <2>3, <2>4, <2>7
    <3>2. P!Arrive(s)
      BY <1>4, <2>2, <2>5, <3>1 DEF WriteFails, P!Arrive
    <3> QED
      BY <3>2 DEF P!Next
  <2> QED
    BY <2>2, <2>6, <2>7
<1>5. ASSUME NEW s \in Sides, Stop(s) PROVE P!Next
  BY <1>5 DEF Stop, Selecting, P!Next, P!Close
<1>6. CASE UNCHANGED vars
  BY <1>6 DEF vars
<1> QED
  BY <1>1, <1>2, <1>3, <1>4, <1>5, <1>6 DEF Next, ReadStep, WriteStep

\* RelayStream::relay is a pipe, whatever its buffer size and the traffic:
\* bytes arrive in order, without gaps or repeats, also when write_all fails
\* half way, and nothing arrives after the loop has ended.
THEOREM RelayImplementsPipe == Spec => ImplementsPipe
<1>1. Init => P!Init
  BY DEF Init, P!Init
<1>2. Spec => []StreamInv
  BY InitInv, NextInv, PTL DEF Spec
<1>3. StreamInv /\ [Next]_vars => [P!Next]_(P!pipeVars)
  BY StepRefines
<1> QED
  BY <1>1, <1>2, <1>3, PTL DEF Spec, ImplementsPipe, P!Spec
=============================================================================
