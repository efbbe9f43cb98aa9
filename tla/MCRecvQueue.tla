------------------------------ MODULE MCRecvQueue ------------------------------
(* Constants of the run of RecvQueue.cfg.                                    *)
EXTENDS RecvQueue

\* A paced sender, one that overruns the ring, one that falls silent, and one
\* some of whose datagrams are shorter than their header.
MCStreams ==
  { [ paced |-> TRUE, live |-> TRUE, short |-> FALSE ],
    [ paced |-> FALSE, live |-> TRUE, short |-> FALSE ],
    [ paced |-> FALSE, live |-> FALSE, short |-> FALSE ],
    [ paced |-> TRUE, live |-> TRUE, short |-> TRUE ] }

MCDatagramLens == {-1, 1, 2, 4}
===============================================================================
