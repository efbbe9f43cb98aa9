------------------------------- MODULE FrameLog -------------------------------
(***************************************************************************)
(* What the delay meter promises to log of the video it receives: every    *)
(* frame once, when the next one begins, with the packets it came in, and  *)
(* at every key frame the frames since the last.  The meter is told of     *)
(* each packet what it is to it (got) and where its payload begins (head): *)
(*                                                                         *)
(*   "other"    not of the video                                           *)
(*   "more"     of the video, begins nothing                               *)
(*   "foreign"  begins a unit that is not a video frame                    *)
(*   "frame", "gop", "idr"   begins a frame: a plain one, the first of an  *)
(*              MPEG-2 group of pictures, an H.264 key frame, as far as    *)
(*              the meter can tell                                         *)
(***************************************************************************)
EXTENDS Integers

CONSTANTS
  PacketBytes    (* payload a packet is taken to have                      *)

VARIABLES
  got, head,     (* the last packet                                        *)
  open,          (* a frame has begun and not ended                        *)
  openIdr,       (* ... and it is a key frame                              *)
  packets,       (* packets of the open frame                              *)
  logged,        (* frames logged                                          *)
  index,         (* number the last of them was given                      *)
  size, keySize, (* of the last frame, of the last key frame               *)
  sinceKey,      (* frames begun since the last key frame                  *)
  gop            (* what was logged at the last key frame                  *)

vars == << got, head, open, openIdr, packets, logged, index, size, keySize, sinceKey, gop >>

Begins == {"foreign", "frame", "gop", "idr"}

Init ==
  /\ got = "other" /\ head = 4
  /\ open = FALSE /\ openIdr = FALSE /\ packets = 0
  /\ logged = 0 /\ index = -1 /\ size = 0 /\ keySize = 0
  /\ sinceKey = 0 /\ gop = 0

Other ==
  /\ got' = "other"
  /\ UNCHANGED << open, openIdr, packets, logged, index, size, keySize, sinceKey, gop >>

More ==
  /\ got' = "more"
  /\ packets' = IF open THEN packets + 1 ELSE packets
  /\ UNCHANGED << open, openIdr, logged, index, size, keySize, sinceKey, gop >>

\* The frame that was open is logged: the rest of its last packet and the head
\* of the packet that ends it are not its own, so that its size is a guess.
End ==
  IF open
  THEN /\ logged' = logged + 1 /\ index' = logged
       /\ size' = PacketBytes * packets - head'
       /\ keySize' = IF openIdr THEN size' ELSE keySize
  ELSE UNCHANGED << logged, index, size, keySize >>

Begin ==
  /\ got' \in Begins
  /\ End
  /\ open' = (got' # "foreign")
  /\ openIdr' = (got' = "idr")
  /\ packets' = IF open' THEN 1 ELSE 0
  /\ IF got' = "foreign" THEN UNCHANGED << sinceKey, gop >>
     ELSE IF got' = "frame" THEN sinceKey' = sinceKey + 1 /\ UNCHANGED gop
     ELSE sinceKey' = 0 /\ gop' = sinceKey + 1

Next == Other \/ More \/ Begin

Spec == Init /\ [][Next]_vars
===============================================================================
