----------------------------- MODULE TsByteStream -----------------------------
(***************************************************************************)
(* What the receive buffer of the player promises: a byte stream.  The     *)
(* network puts datagrams of some length at its end, the demultiplexer     *)
(* takes packets of PacketLen bytes from its front, and each packet taken  *)
(* is made of exactly the next PacketLen bytes of the stream.  That is so   *)
(* of a lossless stream, whose sender respects the capacity; of any other   *)
(* only the order of the calls is promised.  A byte is identified with its  *)
(* position in the stream.  PacketLen is positive, PutLens holds naturals   *)
(* and Capacity is one.                                                     *)
(***************************************************************************)
EXTENDS Integers

CONSTANTS
  PacketLen,     (* bytes taken at a time                                  *)
  PutLens,       (* lengths of the pieces the network puts                 *)
  Capacity       (* bytes the buffer can hold without losing any           *)

VARIABLES
  lossless,      (* rigid: whether the stream loses nothing                *)
  sent,          (* number of bytes put so far                             *)
  delivered,     (* number of bytes taken so far                           *)
  packet         (* the packet taken last, as stream positions             *)

streamVars == << lossless, sent, delivered, packet >>

PacketAt(p) == [ i \in 1 .. PacketLen |-> p + i - 1 ]

Init ==
  /\ lossless \in BOOLEAN
  /\ sent = 0
  /\ delivered = 0
  /\ packet = PacketAt(-PacketLen)

Put(n) ==
  /\ lossless => sent - delivered + n <= Capacity
  /\ sent' = sent + n
  /\ UNCHANGED << lossless, delivered, packet >>

Take ==
  /\ IF lossless
     THEN sent - delivered >= PacketLen /\ packet' = PacketAt(delivered)
     ELSE packet' \in [ 1 .. PacketLen -> Int ]
  /\ delivered' = delivered + PacketLen
  /\ UNCHANGED << lossless, sent >>

Next == Take \/ \E n \in PutLens : Put(n)

Spec == Init /\ [][Next]_streamVars
===============================================================================
