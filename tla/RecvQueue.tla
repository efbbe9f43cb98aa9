------------------------------- MODULE RecvQueue -------------------------------
(***************************************************************************)
(* The receive buffer of the player (class NewQueue, RecvQueue.cpp) with    *)
(* the three threads that meet in it: the receiver (udp_ts_recv), which    *)
(* copies every datagram into the ring; the decoder (decoder_threadFun ->  *)
(* read_data -> get_queue), which copies TS packets out of it; and the     *)
(* owner, which runs ~TSDecoder_Instance and then ~NewQueue.               *)
(*                                                                         *)
(* put_queue and get_queue copy under the critical section "locker" but    *)
(* compute the address of the copy, and get_queue also the write position, *)
(* before they enter it.  Each is therefore two steps: Enter takes the     *)
(* unlocked snapshot, Copy is the critical section.                        *)
(*                                                                         *)
(* A byte is its position in the received stream, Uninit is a byte nobody  *)
(* wrote.                                                                  *)
(***************************************************************************)
EXTENDS Integers

CONSTANTS
  bufsize,       (* size of the ring (Recv_Queue_size, 10 MB)              *)
  TSPACKETLEN,   (* bytes of a TS packet (188)                             *)
  DatagramLens,  (* payload lengths a datagram may have, RTP header removed;
                    negative for one that is shorter than its header        *)
  ReadPackets,   (* TS packets one read_data call asks for                 *)
  DtorLoops,     (* rounds a destructor waits for its thread (5)           *)
  MaxBytes,      (* bound: the network sends no more than this             *)
  Streams        (* the kinds of stream received, see stream               *)

ASSUME RecvQueueAssumption ==
  /\ bufsize \in Nat \ {0}
  /\ TSPACKETLEN \in 1 .. bufsize
  /\ DatagramLens \subseteq { n \in Int : n <= bufsize }
  /\ ReadPackets \in Nat \ {0}
  /\ DtorLoops \in Nat \ {0}
  /\ MaxBytes \in Nat
  /\ Streams \subseteq [ paced : BOOLEAN, live : BOOLEAN, short : BOOLEAN ]

VARIABLES
  buf, read_ptr, write_ptr,   (* the ring                                  *)
  m_bstop,                    (* NewQueue::m_bstop                         *)
  freed,                      (* free_queue has run                        *)
  rpc, size, dst,             (* receiver: label, datagram, copy address   *)
  dpc, src, pos, index,       (* decoder: label, snapshots, packets read   *)
  decoder_stop,               (* TSDecoder_Instance::m_bstop               *)
  opc, iloop,                 (* owner: label, rounds left                 *)
  tested,                     (* history: the thread the owner waits for has
                                 come to its loop test since it was told to stop *)
  stream,                     (* what kind of stream is received           *)
  received, taken, packet,    (* history: bytes put, bytes taken, last packet *)
  undefined                   (* history: a copy left the ring, or freed memory
                                 was used; the model ends there            *)

ringVars == << buf, read_ptr, write_ptr >>
receiverVars == << rpc, size, dst >>
decoderVars == << dpc, src, pos, index >>
ownerVars == << m_bstop, decoder_stop, freed, opc, iloop, tested >>
streamVars == << stream, received, taken, packet, undefined >>
vars == << ringVars, receiverVars, decoderVars, ownerVars, streamVars >>

\* The sender never runs a whole ring ahead of the decoder.
Paced == stream.paced

\* Data keeps arriving: a thread the destructor waits for gets back to its loop
\* test before the last Sleep ends.
LiveStream == stream.live

\* Some datagrams are shorter than their RTP header says it is.
ShortDatagrams == stream.short

Uninit == -1
Cells == 0 .. bufsize - 1
PacketAt(p) == [ i \in 1 .. TSPACKETLEN |-> p + i - 1 ]

-------------------------------------------------------------------------------
(***************************************************************************)
(* Ring arithmetic.  A definition named X_Fault is definition X with the    *)
(* slip its name says; it is used only to see which property notices.      *)
(***************************************************************************)

Advance(p, n) == (p + n) % bufsize

\* Bytes of a copy of n bytes at p that lie before the end of the ring.
HeadLen(p, n) == IF p + n > bufsize THEN bufsize - p ELSE n

\* Bytes get_queue believes it may read from r when the writer is at w.
Readable_FullWhenEqual(r, w) == (IF w <= r THEN w + bufsize ELSE w) - r
Readable_NoWrap(r, w) == w - r

Readable(r, w) == (IF w < r THEN w + bufsize ELSE w) - r

Init ==
  /\ buf = [ i \in Cells |-> Uninit ]
  /\ read_ptr = 0
  /\ write_ptr = 0
  /\ m_bstop = FALSE
  /\ freed = FALSE
  /\ rpc = "test" /\ size = 0 /\ dst = 0
  /\ dpc = "get" /\ src = 0 /\ pos = 0 /\ index = 0
  /\ decoder_stop = FALSE
  /\ opc = "run" /\ iloop = 0 /\ tested = FALSE
  /\ stream \in Streams
  /\ received = 0
  /\ taken = 0
  /\ packet = PacketAt(-TSPACKETLEN)
  /\ undefined = FALSE

-------------------------------------------------------------------------------
(***************************************************************************)
(* The receiver thread.                                                    *)
(***************************************************************************)

RecvTest ==
  /\ rpc = "test"
  /\ rpc' = IF m_bstop THEN "done" ELSE "recvfrom"
  /\ tested' = (tested \/ opc = "rcv_sleep")
  /\ UNCHANGED << ringVars, size, dst, decoderVars, m_bstop, decoder_stop, freed, opc, iloop, streamVars >>

\* The length of the header is taken off unseen, whatever is left.
RecvDatagram(n) ==
  /\ rpc = "recvfrom"
  /\ n < 0 => ShortDatagrams
  /\ received + n <= MaxBytes
  /\ Paced => received - taken + n < bufsize
  /\ size' = n
  /\ rpc' = "put"
  /\ UNCHANGED << ringVars, dst, decoderVars, ownerVars, streamVars >>

RecvError ==
  /\ rpc = "recvfrom"
  /\ rpc' = "test"
  /\ UNCHANGED << ringVars, size, dst, decoderVars, ownerVars, streamVars >>

\* The address is taken before the lock.  The overflow test that stands here
\* only logs and sleeps: the datagram is written whatever its outcome.
PutEnter ==
  /\ rpc = "put"
  /\ dst' = write_ptr
  /\ rpc' = "copy"
  /\ UNCHANGED << ringVars, size, decoderVars, ownerVars, streamVars >>

\* The bytes received .. received + n - 1 copied to address a, split at the
\* point write_ptr dictates.
CopyIn_HeadTwice(a, n) ==
  LET head == HeadLen(write_ptr, n)
  IN  [ i \in Cells |->
          IF i \in a .. a + head - 1 THEN received + (i - a)
          ELSE IF i < n - head THEN received + i
          ELSE buf[i] ]

CopyIn(a, n) ==
  LET head == HeadLen(write_ptr, n)
  IN  [ i \in Cells |->
          IF i \in a .. a + head - 1 THEN received + (i - a)
          ELSE IF i < n - head THEN received + head + i
          ELSE buf[i] ]

\* A negative size is a huge one for memcpy; and the address may be an old one.
PutFits == size >= 0 /\ dst + HeadLen(write_ptr, size) <= bufsize

PutCopy ==
  /\ rpc = "copy" /\ PutFits
  /\ buf' = CopyIn(dst, size)
  /\ write_ptr' = Advance(write_ptr, size)
  /\ received' = received + size
  /\ rpc' = "test"
  /\ UNCHANGED << read_ptr, size, dst, decoderVars, ownerVars, stream, taken, packet, undefined >>

\* A copy that leaves the ring, or any use of the queue after its destructor.
ReceiverAstray ==
  /\ \/ rpc = "copy" /\ ~PutFits
     \/ freed /\ rpc \in {"test", "put", "copy"}
  /\ undefined' = TRUE
  /\ UNCHANGED << ringVars, receiverVars, decoderVars, ownerVars, stream, received, taken, packet >>

Receiver ==
  /\ ~undefined
  /\ \/ \E n \in DatagramLens : RecvDatagram(n)
     \/ RecvError
     \/ ~freed /\ (RecvTest \/ PutEnter \/ PutCopy)
     \/ ReceiverAstray

-------------------------------------------------------------------------------
(***************************************************************************)
(* The decoder thread.  get_queue of the decoder asks the ring again and   *)
(* again, without looking at its own stop flag, until it has ReadPackets   *)
(* packets; the demultiplexer then asks for more or hands out a frame, and *)
(* only after a frame is the stop flag read.                               *)
(***************************************************************************)

GetEnter ==
  /\ dpc = "get"
  /\ src' = read_ptr
  /\ pos' = write_ptr
  /\ dpc' = IF m_bstop THEN "get" ELSE "copy"
  /\ UNCHANGED << ringVars, receiverVars, index, ownerVars, streamVars >>

GetTooFew ==
  /\ dpc = "copy"
  /\ Readable(read_ptr, pos) < TSPACKETLEN
  /\ dpc' = "get"
  /\ UNCHANGED << ringVars, receiverVars, src, pos, index, ownerVars, streamVars >>

CopyOut(a) ==
  LET head == HeadLen(read_ptr, TSPACKETLEN)
  IN  [ i \in 1 .. TSPACKETLEN |->
          IF i <= head THEN buf[a + i - 1] ELSE buf[i - head - 1] ]

\* The address may be that of a read_ptr the owner has reset since.
GetFits == src + HeadLen(read_ptr, TSPACKETLEN) <= bufsize

GetCopy ==
  /\ dpc = "copy" /\ GetFits
  /\ Readable(read_ptr, pos) >= TSPACKETLEN
  /\ packet' = CopyOut(src)
  /\ read_ptr' = Advance(read_ptr, TSPACKETLEN)
  /\ taken' = taken + TSPACKETLEN
  /\ IF index + 1 < ReadPackets
     THEN index' = index + 1 /\ dpc' = "get"
     ELSE index' = 0 /\ dpc' \in {"get", "test"}
  /\ UNCHANGED << buf, write_ptr, receiverVars, src, pos, ownerVars, stream, received, undefined >>

DecoderTest ==
  /\ dpc = "test"
  /\ dpc' = IF decoder_stop THEN "done" ELSE "get"
  /\ tested' = (tested \/ opc = "dec_sleep")
  /\ UNCHANGED << ringVars, receiverVars, src, pos, index, m_bstop, decoder_stop, freed, opc, iloop,
                  streamVars >>

DecoderAstray ==
  /\ \/ dpc = "copy" /\ Readable(read_ptr, pos) >= TSPACKETLEN /\ ~GetFits
     \/ freed /\ dpc # "done"
  /\ undefined' = TRUE
  /\ UNCHANGED << ringVars, receiverVars, decoderVars, ownerVars, stream, received, taken, packet >>

Decoder ==
  /\ ~undefined
  /\ \/ ~freed /\ (GetEnter \/ GetTooFew \/ GetCopy \/ DecoderTest)
     \/ DecoderAstray

-------------------------------------------------------------------------------
(***************************************************************************)
(* The owner: ~TSDecoder_Instance waits for the decoder, then the member's *)
(* destructor ~NewQueue waits for the receiver, empties and frees the ring. *)
(* A thread is gone when it has reset its thread id ("done").               *)
(***************************************************************************)

DtorStart ==
  /\ opc = "run"
  /\ opc' = "dec_test"
  /\ iloop' = DtorLoops
  /\ tested' = FALSE
  /\ UNCHANGED << ringVars, receiverVars, decoderVars, m_bstop, decoder_stop, freed, streamVars >>

DtorStopDecoder ==
  /\ opc = "dec_test"
  /\ IF iloop > 0 /\ dpc # "done"
     THEN decoder_stop' = TRUE /\ iloop' = iloop - 1 /\ opc' = "dec_sleep" /\ UNCHANGED tested
     ELSE iloop' = DtorLoops /\ opc' = "rcv_test" /\ tested' = FALSE /\ UNCHANGED decoder_stop
  /\ UNCHANGED << ringVars, receiverVars, decoderVars, m_bstop, freed, streamVars >>

DtorStopReceiver_NoWait ==
  /\ opc = "rcv_test"
  /\ m_bstop' = TRUE
  /\ opc' = "clean"
  /\ UNCHANGED << ringVars, receiverVars, decoderVars, decoder_stop, freed, iloop, tested, streamVars >>

DtorStopReceiver_WaitForever ==
  /\ opc = "rcv_test"
  /\ IF rpc # "done"
     THEN m_bstop' = TRUE /\ opc' = "rcv_sleep"
     ELSE opc' = "clean" /\ UNCHANGED m_bstop
  /\ UNCHANGED << ringVars, receiverVars, decoderVars, decoder_stop, freed, iloop, tested, streamVars >>

DtorStopReceiver ==
  /\ opc = "rcv_test"
  /\ IF iloop > 0 /\ rpc # "done"
     THEN m_bstop' = TRUE /\ iloop' = iloop - 1 /\ opc' = "rcv_sleep"
     ELSE opc' = "clean" /\ UNCHANGED << m_bstop, iloop >>
  /\ UNCHANGED << ringVars, receiverVars, decoderVars, decoder_stop, freed, tested, streamVars >>

\* Sleep returns.  On a live stream the thread has been at its loop test before
\* the last one does; what it found there is its own affair.
DtorWake ==
  /\ \/ /\ opc = "dec_sleep"
        /\ LiveStream /\ iloop = 0 => tested
        /\ opc' = "dec_test"
     \/ /\ opc = "rcv_sleep"
        /\ LiveStream /\ iloop = 0 => tested
        /\ opc' = "rcv_test"
  /\ UNCHANGED << ringVars, receiverVars, decoderVars, m_bstop, decoder_stop, freed, iloop, tested, streamVars >>

clean_RecvQue ==
  /\ opc = "clean"
  /\ read_ptr' = 0
  /\ write_ptr' = 0
  /\ opc' = "free"
  /\ UNCHANGED << buf, receiverVars, decoderVars, m_bstop, decoder_stop, freed, iloop, tested, streamVars >>

free_queue ==
  /\ opc = "free"
  /\ freed' = TRUE
  /\ opc' = "done"
  /\ UNCHANGED << ringVars, receiverVars, decoderVars, m_bstop, decoder_stop, iloop, tested, streamVars >>

Dtor ==
  /\ ~undefined
  /\ \/ DtorStopDecoder
     \/ DtorStopReceiver
     \/ DtorWake
     \/ clean_RecvQue
     \/ free_queue

Owner == (~undefined /\ DtorStart) \/ Dtor

Terminated ==
  /\ undefined \/ (opc = "done" /\ rpc = "done" /\ dpc = "done")
  /\ UNCHANGED vars

Next == Receiver \/ Decoder \/ Owner \/ Terminated

Spec == Init /\ [][Next]_vars

\* The scheduler runs every thread that can run.  Nothing makes the owner close
\* the player, and a blocked recvfrom returns only on a stream that is alive.
FairSpec ==
  /\ Spec
  /\ WF_vars(Receiver /\ (rpc = "recvfrom" => LiveStream))
  /\ WF_vars(Decoder)
  /\ WF_vars(Dtor)

-------------------------------------------------------------------------------
(***************************************************************************)
(* Properties.                                                             *)
(***************************************************************************)

TypeInv ==
  /\ buf \in [ Cells -> Int ]
  /\ read_ptr \in Cells /\ write_ptr \in Cells
  /\ m_bstop \in BOOLEAN /\ freed \in BOOLEAN /\ decoder_stop \in BOOLEAN
  /\ rpc \in {"test", "recvfrom", "put", "copy", "done"}
  /\ size \in Int /\ size <= bufsize /\ dst \in Cells
  /\ dpc \in {"get", "copy", "test", "done"}
  /\ src \in Cells /\ pos \in Cells /\ index \in 0 .. ReadPackets - 1
  /\ opc \in {"run", "dec_test", "dec_sleep", "rcv_test", "rcv_sleep", "clean", "free", "done"}
  /\ iloop \in 0 .. DtorLoops /\ tested \in BOOLEAN
  /\ stream \in Streams
  /\ received \in Nat /\ taken \in Nat
  /\ packet \in [ 1 .. TSPACKETLEN -> Int ]
  /\ undefined \in BOOLEAN

Backlog == (write_ptr - read_ptr) % bufsize

\* Whatever the sender's pace, and although put_queue overwrites unread bytes
\* and takes its copy address outside the lock: until the queue is emptied,
\* the bytes between read_ptr and write_ptr are the newest bytes received, in
\* order and without a hole.
RingHoldsLatest ==
  opc \notin {"free", "done"} =>
    \A k \in 1 .. Backlog : buf[(write_ptr - k) % bufsize] = received - k

\* Even when a live sender overruns the ring, the decoder is never handed
\* memory no datagram was copied to.
NoUninitDelivered ==
  LiveStream /\ taken > 0 => \A i \in 1 .. TSPACKETLEN : packet[i] # Uninit

\* On a live stream of whole datagrams nothing goes astray, at any pace: although
\* the copies use addresses of earlier indices and the destructor resets the
\* indices under them and then frees the ring, no copy reaches behind the ring
\* and no thread comes back to a queue that is gone.
NothingUndefined == undefined => ~LiveStream \/ ShortDatagrams

\* The destructors come back, whatever the two threads do and although no
\* datagram may ever arrive again: their waits are bounded.
DtorEnds == (~LiveStream /\ opc = "dec_test") ~> (opc = "done" \/ undefined)

\* Progress of get_queue: while a paced sender is received and nobody destroys
\* the player, a whole packet in the ring is eventually taken by the decoder.
PacketsFlow ==
  \A k \in 0 .. MaxBytes \div TSPACKETLEN :
    LET n == k * TSPACKETLEN
    IN  (Paced /\ LiveStream /\ taken = n /\ received - n >= TSPACKETLEN)
          ~> (taken > n \/ opc # "run" \/ undefined)

\* The ring is a byte stream, lossless for a paced and live sender: every packet
\* taken is made of the next bytes sent, none lost, repeated or reordered.
ByteStream == INSTANCE TsByteStream WITH
  lossless <- Paced /\ LiveStream,
  PacketLen <- TSPACKETLEN, PutLens <- { n \in DatagramLens : n >= 0 }, Capacity <- bufsize - 1,
  sent <- received, delivered <- taken

StreamSpec == ByteStream!Spec

===============================================================================
