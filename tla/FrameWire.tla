------------------------------- MODULE FrameWire -------------------------------
(***************************************************************************)
(* What the media server promises of a stream: the transport packets of    *)
(* the file go out in order, each once, at most Chunk of them per datagram, *)
(* and no datagram holds packets of two frames.                            *)
(***************************************************************************)
EXTENDS Integers

CONSTANT Chunk   (* packets in a full datagram                             *)

VARIABLES
  starts,        (* positions of the file at which a frame begins          *)
  wire           (* number of packets sent so far                          *)

\* f begins the frame after the one that holds packet wire + 1.
NextFrame(f) ==
  /\ f \in starts /\ f > wire + 1
  /\ \A s \in starts : s <= wire + 1 \/ f <= s

Init == starts \subseteq Nat /\ wire = 0

Datagram ==
  /\ \E f \in starts :
       /\ NextFrame(f)
       /\ wire' = IF wire + Chunk < f THEN wire + Chunk ELSE f - 1
  /\ UNCHANGED starts

Spec == Init /\ [][Datagram]_<< starts, wire >>
===============================================================================
