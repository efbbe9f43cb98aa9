---------------------------- MODULE MCTSStreamInfo ----------------------------
(***************************************************************************)
(* Streams for the parser: of each the packets that it may be sent, in any *)
(* order and any of them again.                                            *)
(***************************************************************************)
EXTENDS TSStreamInfo

Plain == [ pid |-> 33, start |-> FALSE, afc |-> 1, head |-> 4, pcr |-> NoPcr,
           table |-> NoTable, pes |-> FALSE, pts |-> -1, codes |-> << >> ]
Pat(first, ok) == [ Plain EXCEPT !.pid = 0, !.start = TRUE, !.table = [ kind |-> "pat", fits |-> ok, pid |-> first ] ]
Pmt(v, a, t) ==
  [ Plain EXCEPT !.pid = 32, !.start = TRUE,
                 !.table = [ kind |-> "pmt", pcr |-> 33, video |-> v, audio |-> a, type |-> t ] ]
Frame(seq, stamp) == [ Plain EXCEPT !.start = TRUE, !.pes = TRUE, !.codes = seq, !.pts = stamp ]
WithClock(p, hi) == [ p EXCEPT !.afc = 3, !.head = 12, !.pcr = [ hi |-> hi, lo |-> 1 ] ]
Null == [ Plain EXCEPT !.pid = NullPID ]
Audio == [ Plain EXCEPT !.pid = 35, !.start = TRUE ]

Tables(t) == { Pat(32, TRUE), Pmt(33, 35, t) }
Idr == << "sps", "pps", "idr" >>

H264 == Tables(27) \cup
  { Frame(Idr, -1), [ Frame(<< "slice" >>, -1) EXCEPT !.afc = 3, !.head = 12 ], Plain, Audio, Null,
    [ Plain EXCEPT !.start = TRUE ],
    [ Frame(Idr, -1) EXCEPT !.afc = 2, !.head = 188 ], [ Frame(Idr, -1) EXCEPT !.afc = 0 ] }
Mpeg2 == Tables(2) \cup
  { Frame(<< "seq", "ext", "gop", "picture" >>, -1), Frame(<< "picture" >>, -1), Plain }
Avs == Tables(66) \cup
  { Frame(<< "seq", "ext", "gop" >>, -1), Frame(<< "gop", "seq", "ext" >>, -1), Frame(<< "gop" >>, -1), Plain }

\* Rows 8, 5 and 1 of a picture, alone and before or behind an extension.
Rows(t) == Tables(t) \cup
  { Frame(<< "seq", "pps", "idr" >>, -1), Frame(<< "seq", "pps", "slice", "idr" >>, -1),
    Frame(<< "seq", "ext", "pps", "idr" >>, -1), Frame(<< "seq", "pps", "slice", "ext", "gop" >>, -1),
    Frame(<< "gop" >>, -1), Plain }

\* 25 frames a second, beginning 5000 ticks late; 50 a second; within a
\* millisecond.
Rated(step) == Tables(27) \cup { Frame(Idr, 5000 + k * step) : k \in 0 .. 4 }

Clocked(p) == Tables(27) \cup { Frame(Idr, -1), p } \cup { WithClock(Frame(Idr, -1), hi) : hi \in {1, 63} }
Clocks == { Clocked(WithClock(Audio, 2)), Clocked(WithClock(Plain, 2)), Clocked(WithClock(Frame(Idr, -1), 64)),
            Clocked(WithClock(Frame(Idr, -1), 130)), Clocked(Null) }

\* A PAT that names the network first, one that is too long, a program without
\* sound, one that changes its video.
Odd == { { Pat(16, TRUE), Pmt(33, 35, 27), Frame(Idr, -1), Plain },
         Tables(27) \cup { Pat(32, FALSE), Frame(Idr, -1), Plain },
         { Pat(32, TRUE), Pmt(33, 0, 27), Frame(Idr, -1), Plain },
         { Pat(32, TRUE), Pmt(0, 35, 27), Pmt(33, 35, 27), Pmt(34, 35, 2), Pmt(34, 0, 2), Frame(Idr, -1),
           [ Frame(<< "gop" >>, -1) EXCEPT !.pid = 34 ], Plain } }

MCStreams == {H264, Mpeg2, Avs, Rows(66), Rows(1), Rated(3600), Rated(1800), Rated(60)} \cup Clocks \cup Odd
===============================================================================
