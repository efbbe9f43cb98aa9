------------------------------- MODULE SendMedia -------------------------------
(***************************************************************************)
(* One stream of the media server (class SendMedia, TSMediaServer.cpp): the *)
(* reader thread (GetMediaData) gathers the TS packets of a file into       *)
(* frames and puts each into a buffer of a fixed pool; the sender thread    *)
(* (SendMediaUDP) takes a frame every 40 ms, gives the buffer back and     *)
(* sends the frame in datagrams; the client thread (ThreadClient) pauses,   *)
(* resumes and deletes the stream, or clears it away when its client hangs  *)
(* up.                                                                     *)
(*                                                                         *)
(* A packet is its position in the file; what the reader tells apart of it  *)
(* is its kind.  A frame is the pair of its first and last packet.         *)
(***************************************************************************)
EXTENDS Integers, Sequences

CONSTANTS
  Files,         (* the files a stream may be asked for: sequences of kinds *)
  BUFFNUM,       (* buffers of the pool (5)                                *)
  Chunk          (* packets in a full datagram (7)                         *)

\* Table packets, packets that start a video frame, and all the others.
Kinds == {"pat", "pmt", "start", "other"}

ASSUME SendMediaAssumption ==
  /\ Files \subseteq Seq(Kinds)
  /\ BUFFNUM \in Nat \ {0}
  /\ Chunk \in Nat \ {0}

VARIABLES
  file,                          (* the file of this stream                *)
  m_bPause, m_bStop,             (* flags of the object                    *)
  m_dequeFreeBuff, m_dequeUseBuff, frame,  (* the pool, what a buffer holds *)
  gpc, read, iPacketLen, bPAT_PID, bPMT_PID,  (* reader; iPacketLen in packets *)
  spc, SendPesPacket,            (* sender: label, rest of the frame       *)
  cpc,                           (* client                                 *)
  wire                           (* history: packets sent                  *)

poolVars == << m_dequeFreeBuff, m_dequeUseBuff, frame >>
readerVars == << gpc, read, iPacketLen, bPAT_PID, bPMT_PID >>
senderVars == << spc, SendPesPacket, wire >>
clientVars == << m_bPause, m_bStop, cpc >>
vars == << file, poolVars, readerVars, senderVars, clientVars >>

Buffers == 1 .. BUFFNUM
Frame(first, last) == << first, last >>
First(f) == f[1]
Last(f) == f[2]
Empty(f) == First(f) > Last(f)

\* Packets handed to the pool so far; the later ones read are in PESPack.
queued == read - iPacketLen

Init ==
  /\ file \in Files
  /\ m_bPause = FALSE /\ m_bStop = FALSE
  /\ m_dequeFreeBuff = [ i \in Buffers |-> i ]
  /\ m_dequeUseBuff = << >>
  /\ frame = [ b \in Buffers |-> Frame(1, 0) ]
  /\ gpc = "pause" /\ read = 0 /\ iPacketLen = 0
  /\ bPAT_PID = FALSE /\ bPMT_PID = FALSE
  /\ spc = "pause" /\ SendPesPacket = Frame(1, 0)
  /\ cpc = "serve"
  /\ wire = 0

\* The object is there.  A thread left behind by the delete, as the reader may be
\* by ClearLoop, is undefined from then on and not modelled further.
Gone == cpc \in {"deleted", "cleared"}
Alive == ~Gone

-------------------------------------------------------------------------------
(***************************************************************************)
(* The reader thread.  It tests the two flags one after the other.         *)
(***************************************************************************)

GetPause ==
  /\ Alive /\ gpc = "pause"
  /\ ~m_bPause
  /\ gpc' = "stop"
  /\ UNCHANGED << file, poolVars, read, iPacketLen, bPAT_PID, bPMT_PID, senderVars, clientVars >>

GetStop ==
  /\ Alive /\ gpc = "stop"
  /\ gpc' = IF m_bStop THEN "done" ELSE "read"
  /\ UNCHANGED << file, poolVars, read, iPacketLen, bPAT_PID, bPMT_PID, senderVars, clientVars >>

\* The packet read next begins a frame.
StartsFrame(kind) == bPMT_PID /\ kind = "start"

GetPacket ==
  /\ Alive /\ gpc = "read"
  /\ read < Len(file)
  /\ LET kind == file[read + 1]
     IN  /\ bPAT_PID' = (bPAT_PID \/ kind = "pat")
         /\ bPMT_PID' = (bPMT_PID \/ (bPAT_PID /\ kind = "pmt"))
         /\ IF StartsFrame(kind)
            THEN gpc' = "wait" /\ UNCHANGED << read, iPacketLen >>
            ELSE gpc' = "pause" /\ read' = read + 1 /\ iPacketLen' = iPacketLen + 1
  /\ UNCHANGED << file, poolVars, senderVars, clientVars >>

\* End of the file.  The frame gathered last stays in PESPack.
GetEof ==
  /\ Alive /\ gpc = "read"
  /\ read = Len(file)
  /\ gpc' = "done"
  /\ UNCHANGED << file, poolVars, read, iPacketLen, bPAT_PID, bPMT_PID, senderVars, clientVars >>

GetWait_NoTest ==
  /\ Alive /\ gpc = "wait"
  /\ gpc' = "fill"
  /\ UNCHANGED << file, poolVars, read, iPacketLen, bPAT_PID, bPMT_PID, senderVars, clientVars >>

\* while (m_dequeFreeBuff.size() == 0) Sleep(2), without the lock.
GetWait ==
  /\ Alive /\ gpc = "wait"
  /\ m_dequeFreeBuff # << >>
  /\ gpc' = "fill"
  /\ UNCHANGED << file, poolVars, read, iPacketLen, bPAT_PID, bPMT_PID, senderVars, clientVars >>

\* Under the lock: PESPack becomes the contents of a free buffer; then the new
\* packet is the first of the next frame.  (Without a free buffer the packet is
\* only appended; CheckedFreeStays says that this never happens.)
GetFill ==
  /\ Alive /\ gpc = "fill"
  /\ m_dequeFreeBuff # << >>
  /\ frame' = [ frame EXCEPT ![Head(m_dequeFreeBuff)] = Frame(queued + 1, read) ]
  /\ m_dequeFreeBuff' = Tail(m_dequeFreeBuff)
  /\ m_dequeUseBuff' = Append(m_dequeUseBuff, Head(m_dequeFreeBuff))
  /\ read' = read + 1 /\ iPacketLen' = 1
  /\ gpc' = "pause"
  /\ UNCHANGED << file, bPAT_PID, bPMT_PID, senderVars, clientVars >>

Reader == GetPause \/ GetStop \/ GetPacket \/ GetEof \/ GetWait \/ GetFill

-------------------------------------------------------------------------------
(***************************************************************************)
(* The sender thread.                                                      *)
(***************************************************************************)

SendPause ==
  /\ Alive /\ spc = "pause"
  /\ ~m_bPause
  /\ spc' = "stop"
  /\ UNCHANGED << file, poolVars, readerVars, SendPesPacket, wire, clientVars >>

SendStop ==
  /\ Alive /\ spc = "stop"
  /\ spc' = IF m_bStop THEN "done" ELSE "take"
  /\ UNCHANGED << file, poolVars, readerVars, SendPesPacket, wire, clientVars >>

SendTake_Newest ==
  /\ Alive /\ spc = "take"
  /\ m_dequeUseBuff # << >>
  /\ LET n == Len(m_dequeUseBuff)
         b == m_dequeUseBuff[n]
     IN  /\ SendPesPacket' = frame[b]
         /\ m_dequeUseBuff' = SubSeq(m_dequeUseBuff, 1, n - 1)
         /\ m_dequeFreeBuff' = Append(m_dequeFreeBuff, b)
         /\ spc' = IF Empty(frame[b]) THEN "pause" ELSE "send"
  /\ UNCHANGED << file, frame, readerVars, wire, clientVars >>

\* Under the lock: the oldest frame is copied out and its buffer given back.
SendTake ==
  /\ Alive /\ spc = "take"
  /\ m_dequeUseBuff # << >>
  /\ LET b == Head(m_dequeUseBuff)
     IN  /\ SendPesPacket' = frame[b]
         /\ m_dequeUseBuff' = Tail(m_dequeUseBuff)
         /\ m_dequeFreeBuff' = Append(m_dequeFreeBuff, b)
         /\ spc' = IF Empty(frame[b]) THEN "pause" ELSE "send"
  /\ UNCHANGED << file, frame, readerVars, wire, clientVars >>

SendNothing ==
  /\ Alive /\ spc = "take"
  /\ m_dequeUseBuff = << >>
  /\ spc' = "pause"
  /\ UNCHANGED << file, poolVars, readerVars, SendPesPacket, wire, clientVars >>

SendDatagram_OneOnly ==
  /\ Alive /\ spc = "send"
  /\ LET last == Last(SendPesPacket)
         sent == IF last - First(SendPesPacket) + 1 < Chunk THEN last
                 ELSE First(SendPesPacket) + Chunk - 1
     IN  /\ wire' = sent
         /\ SendPesPacket' = Frame(sent + 1, last)
         /\ spc' = "pause"
  /\ UNCHANGED << file, poolVars, readerVars, clientVars >>

\* One sendto of at most Chunk packets.
SendDatagram ==
  /\ Alive /\ spc = "send"
  /\ LET last == Last(SendPesPacket)
         sent == IF last - First(SendPesPacket) + 1 < Chunk THEN last
                 ELSE First(SendPesPacket) + Chunk - 1
     IN  /\ wire' = sent
         /\ SendPesPacket' = Frame(sent + 1, last)
         /\ spc' = IF sent = last THEN "pause" ELSE "send"
  /\ UNCHANGED << file, poolVars, readerVars, clientVars >>

Sender == SendPause \/ SendStop \/ SendTake \/ SendNothing \/ SendDatagram

-------------------------------------------------------------------------------
(***************************************************************************)
(* The client thread: streampause, streamresume and streamstop of the tid  *)
(* of this stream, one after the other, or the end of the connection.      *)
(***************************************************************************)

streampause ==
  /\ cpc = "serve"
  /\ m_bPause' = TRUE
  /\ UNCHANGED << file, poolVars, readerVars, senderVars, m_bStop, cpc >>

streamresume ==
  /\ cpc = "serve"
  /\ m_bPause' = FALSE
  /\ UNCHANGED << file, poolVars, readerVars, senderVars, m_bStop, cpc >>

streamstop ==
  /\ cpc = "serve"
  /\ cpc' = "stopping"
  /\ UNCHANGED << file, poolVars, readerVars, senderVars, m_bPause, m_bStop >>

\* One round of the loop that waits for both threads, then the delete.
StopLoop_ForgetStop ==
  /\ cpc = "stopping"
  /\ IF spc # "done" \/ gpc # "done"
     THEN UNCHANGED << m_bStop, cpc >>
     ELSE cpc' = "deleted" /\ UNCHANGED m_bStop
  /\ UNCHANGED << file, poolVars, readerVars, senderVars, m_bPause >>

StopLoop ==
  /\ cpc = "stopping"
  /\ IF spc # "done" \/ gpc # "done"
     THEN m_bStop' = TRUE /\ UNCHANGED cpc
     ELSE cpc' = "deleted" /\ UNCHANGED m_bStop
  /\ UNCHANGED << file, poolVars, readerVars, senderVars, m_bPause >>

\* The client hangs up: what it has not deleted is cleared.
disconnect ==
  /\ cpc = "serve"
  /\ cpc' = "clearing"
  /\ UNCHANGED << file, poolVars, readerVars, senderVars, m_bPause, m_bStop >>

\* The clearing waits in the same way, but for the sender only.
ClearLoop ==
  /\ cpc = "clearing"
  /\ IF spc # "done"
     THEN m_bStop' = TRUE /\ UNCHANGED cpc
     ELSE cpc' = "cleared" /\ UNCHANGED m_bStop
  /\ UNCHANGED << file, poolVars, readerVars, senderVars, m_bPause >>

Client == streampause \/ streamresume \/ streamstop \/ StopLoop \/ disconnect \/ ClearLoop

Ended ==
  /\ Gone
  /\ UNCHANGED vars

Next == Reader \/ Sender \/ Client \/ Ended

Spec == Init /\ [][Next]_vars

\* The scheduler runs both threads and the loops that wait for them.  Nobody
\* makes the client send a command or hang up.
FairSpec ==
  Spec /\ WF_vars(Reader) /\ WF_vars(Sender) /\ WF_vars(StopLoop) /\ WF_vars(ClearLoop)

-------------------------------------------------------------------------------
(***************************************************************************)
(* Properties.                                                             *)
(***************************************************************************)

\* Frames of the file; an empty one begins behind its end.
FrameSet == (1 .. Len(file) + 1) \X (0 .. Len(file))

TypeInv ==
  /\ file \in Files
  /\ m_bPause \in BOOLEAN /\ m_bStop \in BOOLEAN
  /\ m_dequeFreeBuff \in Seq(Buffers) /\ m_dequeUseBuff \in Seq(Buffers)
  /\ frame \in [ Buffers -> FrameSet ]
  /\ gpc \in {"pause", "stop", "read", "wait", "fill", "done"}
  /\ read \in 0 .. Len(file) /\ iPacketLen \in 0 .. read
  /\ bPAT_PID \in BOOLEAN /\ bPMT_PID \in BOOLEAN
  /\ spc \in {"pause", "stop", "take", "send", "done"}
  /\ SendPesPacket \in FrameSet
  /\ cpc \in {"serve", "stopping", "clearing", "deleted", "cleared"}
  /\ wire \in 0 .. Len(file)

\* The pool neither loses nor doubles a buffer: both queues together hold each
\* of the BUFFNUM buffers exactly once, whatever the two threads do.
Pool == m_dequeFreeBuff \o m_dequeUseBuff

BuffersConserved ==
  /\ Len(Pool) = BUFFNUM
  /\ \A i, j \in 1 .. Len(Pool) : Pool[i] = Pool[j] => i = j

\* The reader looks at the size of the free queue without the lock; the free
\* buffer it saw is still there when it holds the lock.
CheckedFreeStays == gpc = "fill" => m_dequeFreeBuff # << >>

\* Positions at which a frame begins: a video packet with payload start behind
\* a PMT that lies behind a PAT.
Starts ==
  { i \in 1 .. Len(file) :
      /\ file[i] = "start"
      /\ \E p \in 1 .. i - 1 : file[p] = "pmt" /\ \E a \in 1 .. p - 1 : file[a] = "pat" }

\* The datagrams carry the packets of the file in order, none lost or repeated,
\* through the pool and its reuse of buffers, and none holds two frames.
Wire == INSTANCE FrameWire WITH starts <- Starts

WireSpec == Wire!Spec

\* Every frame the reader put into the pool is sent, unless the client pauses
\* or deletes the stream: reader and sender never wait for each other.
FramesAreSent ==
  \A n \in UNION { 1 .. Len(f) : f \in Files } :
    queued >= n ~> (wire >= n \/ m_bPause \/ cpc # "serve")

\* An unpaused stream goes in the end: by the clearing wherever its threads are,
\* by streamstop if the reader has come to the end of the file.
DeletionsEnd ==
  ~m_bPause /\ (cpc = "clearing" \/ (cpc = "stopping" /\ gpc = "done")) ~> Gone

\* The manual says that the delete command is supported: streamstop of a stream
\* that plays completes, that is, both threads see the flag and leave.
StopCompletes == (cpc = "stopping" /\ ~m_bPause) ~> cpc = "deleted"
===============================================================================
