----------------------------- MODULE AntiCorr -----------------------------
(***************************************************************************)
(* src/anticorr/mod.rs: the anti-correlation layer.  Two ends, each with a *)
(* layer built from a configuration of its own, exchange one packet: the   *)
(* sender waits (pre_request) and pads (pad_outgoing), the receiver unpads *)
(* (unpad_incoming) whatever arrives.  An end whose padding is disabled    *)
(* sends and takes data as they are, so a receiver that unpads also meets  *)
(* packets that were never padded.                                         *)
(***************************************************************************)
EXTENDS Integers, Sequences

CONSTANTS
    Base,           \* number of values of a byte, 256 in the code
    Packets,        \* data the sender may be given
    Targets,        \* values of padding.target_size
    Delays          \* values of jitter.min_ms and jitter.max_ms

LENGTH_TRAILER_SIZE == 4

Byte == 0..(Base - 1)

ASSUME LayerAssumption ==
    /\ Base \in Nat /\ Base > 1
    /\ Packets \subseteq Seq(Byte)
    /\ Targets \subseteq Nat
    /\ Delays \subseteq Nat

VARIABLES
    sender,         \* the layer of the sending end
    receiver,       \* the layer of the receiving end
    stage,          \* how far the packet is
    delay,          \* jitter_applied of the AntiCorrStats
    data,           \* what pad_outgoing was given
    wire,           \* what it returned
    got             \* what unpad_incoming returned

layerVars == <<sender, receiver, stage, delay, data, wire, got>>

Jitter == [enabled : BOOLEAN, min_ms : Delays, max_ms : Delays]

Padding == [enabled : BOOLEAN, target_size : Targets]

AntiCorrelationConfig == [jitter : Jitter, padding : Padding]

TimingJitter == [enabled : BOOLEAN, min_ms : Nat, max_ms : Nat]

PacketPadder == [enabled : BOOLEAN, target_size : Nat]

AntiCorrelationLayer == [jitter : TimingJitter, padder : PacketPadder]

\* Types; what pad puts on the wire are bytes.
LayerTypeOK ==
    /\ {sender, receiver} \subseteq AntiCorrelationLayer
    /\ stage \in {"new", "ready", "sent", "received"}
    /\ delay \in Nat
    /\ {data, wire, got} \subseteq Seq(Byte)

\* TimingJitter::disabled and PacketPadder::disabled forget the numbers.
FromConfig(c) ==
    [jitter |-> IF c.jitter.enabled THEN c.jitter
                ELSE [enabled |-> FALSE, min_ms |-> 0, max_ms |-> 0],
     padder |-> IF c.padding.enabled THEN c.padding
                ELSE [enabled |-> FALSE, target_size |-> 0]]

LayerInit ==
    /\ \E s, r \in AntiCorrelationConfig :
          sender = FromConfig(s) /\ receiver = FromConfig(r)
    /\ stage = "new"
    /\ delay = 0
    /\ data = <<>> /\ wire = <<>> /\ got = <<>>

---------------------------------------------------------------------------

Larger(m, n) == IF m >= n THEN m ELSE n

\* lo..=hi of TimingJitter::apply.
DelayRange(j) == j.min_ms..Larger(j.max_ms, j.min_ms)

PreRequest ==
    /\ stage = "new"
    /\ stage' = "ready"
    /\ delay' \in IF sender.jitter.enabled THEN DelayRange(sender.jitter) ELSE {0}
    /\ UNCHANGED <<sender, receiver, data, wire, got>>

\* (original_len as u32).to_be_bytes()
Trailer(n) ==
    <<(((n \div Base) \div Base) \div Base) % Base,
      ((n \div Base) \div Base) % Base,
      (n \div Base) % Base,
      n % Base>>

\* A mutation: the room the trailer takes is not counted.
NeededBare(d) == Len(d)

Needed(d) == Len(d) + LENGTH_TRAILER_SIZE

\* The pad_byte as often as the target size asks for.
Zeros(p, d) == [i \in 1..(Larger(Needed(d), p.target_size) - Needed(d)) |-> 0]

Pad(p, d) ==
    IF p.enabled THEN (d \o Zeros(p, d)) \o Trailer(Len(d)) ELSE d

PadOutgoing(d) ==
    /\ stage = "ready"
    /\ stage' = "sent"
    /\ data' = d
    /\ wire' = Pad(sender.padder, d)
    /\ UNCHANGED <<sender, receiver, delay, got>>

TrailerStart(w) == Len(w) - LENGTH_TRAILER_SIZE

\* u32::from_be_bytes of the last four bytes.
Claimed(w) ==
    ((w[TrailerStart(w) + 1] * Base + w[TrailerStart(w) + 2]) * Base
        + w[TrailerStart(w) + 3]) * Base + w[TrailerStart(w) + 4]

\* Mutations: off by one; bounded by the packet instead of by its body.
BelowStart(w) == Claimed(w) < TrailerStart(w)

WithinPacket(w) == Claimed(w) <= Len(w)

\* The trailer's length is that of data the packet has room for.
WellFormed(w) == Claimed(w) <= TrailerStart(w)

Unpad(p, w) ==
    IF p.enabled /\ Len(w) >= LENGTH_TRAILER_SIZE
    THEN IF WellFormed(w) THEN SubSeq(w, 1, Claimed(w)) ELSE w
    ELSE w

UnpadIncoming ==
    /\ stage = "sent"
    /\ stage' = "received"
    /\ got' = Unpad(receiver.padder, wire)
    /\ UNCHANGED <<sender, receiver, delay, data, wire>>

LayerNext == PreRequest \/ (\E d \in Packets : PadOutgoing(d)) \/ UnpadIncoming

LayerSpec == LayerInit /\ [][LayerNext]_layerVars

---------------------------------------------------------------------------

\* Number of lengths the trailer tells apart, 2^32 in the code.
Lengths == ((Base * Base) * Base) * Base

\* "This allows the receiver to strip padding without external metadata"
\* (lines 191-192): what was padded comes back exactly, whatever target sizes the
\* two ends are configured with, for every length the trailer can tell.
RoundTrip ==
    /\ stage = "received"
    /\ sender.padder.enabled = receiver.padder.enabled
    /\ Len(data) < Lengths
    => got = data

\* All packets that fit the sender's target size look alike on the wire:
\* their size is the target size, and a larger packet grows by the trailer
\* only.
SizeHidden ==
    stage \in {"sent", "received"} /\ sender.padder.enabled =>
        Len(wire) = IF Len(data) + LENGTH_TRAILER_SIZE <= sender.padder.target_size
                    THEN sender.padder.target_size
                    ELSE Len(data) + LENGTH_TRAILER_SIZE

\* Of a packet whose trailer says anything at all, one that was never padded
\* included, unpad returns either the whole or a part of the body: never a
\* cut through the trailer.
WholeOrBody ==
    stage = "received" =>
        \/ got = wire
        \/ /\ Len(got) <= Len(wire) - LENGTH_TRAILER_SIZE
           /\ \A i \in 1..Len(got) : got[i] = wire[i]

\* The wait is never shorter than min_ms, also when max_ms is smaller.
JitterAtLeastMin ==
    stage # "new" /\ sender.jitter.enabled =>
        /\ delay >= sender.jitter.min_ms
        /\ delay <= Larger(sender.jitter.min_ms, sender.jitter.max_ms)
===========================================================================
