---------------------------- MODULE RecvQueueProofs ----------------------------
(***************************************************************************)
(* Theorems about the receive buffer for every ring size, packet length,   *)
(* set of datagram lengths and number of waiting rounds.                   *)
(***************************************************************************)
EXTENDS RecvQueue, TLAPS

USE RecvQueueAssumption

-------------------------------------------------------------------------------
(***************************************************************************)
(* Ring arithmetic.                                                        *)
(***************************************************************************)

\* Advance wraps at most once, because no copy is longer than the ring.
LEMMA AdvanceWraps ==
  ASSUME NEW p \in Cells, NEW n \in 0 .. bufsize
  PROVE  /\ Advance(p, n) = IF p + n >= bufsize THEN p + n - bufsize ELSE p + n
         /\ Advance(p, n) \in Cells
<1>1. CASE p + n < bufsize
  BY <1>1 DEF Advance, Cells
<1>2. CASE p + n >= bufsize /\ p + n < 2 * bufsize
  BY <1>2 DEF Advance, Cells
<1> QED
  BY <1>1, <1>2 DEF Cells

\* The cell k places before p.
LEMMA CellBefore ==
  ASSUME NEW p \in Cells, NEW k \in 0 .. bufsize
  PROVE  /\ (p - k) % bufsize = IF p >= k THEN p - k ELSE p - k + bufsize
         /\ (p - k) % bufsize \in Cells
<1>1. CASE p >= k
  BY <1>1 DEF Cells
<1>2. CASE p < k
  BY <1>2 DEF Cells
<1> QED
  BY <1>1, <1>2 DEF Cells

\* A copy never needs more than the ring before its end.
LEMMA HeadFits ==
  ASSUME NEW p \in Cells, NEW n \in 0 .. bufsize
  PROVE  HeadLen(p, n) \in 0 .. n /\ p + HeadLen(p, n) <= bufsize
BY DEF HeadLen, Cells

-------------------------------------------------------------------------------
(***************************************************************************)
(* Type correctness.                                                       *)
(***************************************************************************)

LEMMA TypeInit == Init => TypeInv
<1> SUFFICES ASSUME Init PROVE TypeInv
  OBVIOUS
<1>1. buf \in [ Cells -> Int ]
  BY DEF Init, Uninit
<1>2. 0 \in Cells /\ 0 \in 0 .. ReadPackets - 1
  BY DEF Cells
<1>3. packet \in [ 1 .. TSPACKETLEN -> Int ]
  BY DEF Init, PacketAt
<1>4. /\ stream \in Streams /\ read_ptr = 0 /\ write_ptr = 0 /\ size = 0 /\ dst = 0 /\ src = 0 /\ pos = 0
      /\ index = 0 /\ iloop = 0 /\ received = 0 /\ taken = 0
      /\ rpc = "test" /\ dpc = "get" /\ opc = "run"
  BY DEF Init
<1>5. /\ m_bstop \in BOOLEAN /\ freed \in BOOLEAN /\ decoder_stop \in BOOLEAN
      /\ tested \in BOOLEAN /\ undefined \in BOOLEAN
  BY DEF Init
<1> QED
  BY <1>1, <1>2, <1>3, <1>4, <1>5 DEF TypeInv

LEMMA CopyInType ==
  ASSUME TypeInv, NEW a \in Cells, NEW n \in 0 .. bufsize
  PROVE  CopyIn(a, n) \in [ Cells -> Int ]
<1>1. HeadLen(write_ptr, n) \in Nat
  <2>1. write_ptr \in Cells
    BY DEF TypeInv
  <2>2. HeadLen(write_ptr, n) \in 0 .. n
    BY <2>1, HeadFits
  <2> QED
    BY <2>2
<1> QED
  BY <1>1 DEF CopyIn, TypeInv, Cells

LEMMA CopyOutType ==
  ASSUME TypeInv, GetFits
  PROVE  CopyOut(src) \in [ 1 .. TSPACKETLEN -> Int ]
<1> DEFINE head == HeadLen(read_ptr, TSPACKETLEN)
<1>1. /\ read_ptr \in Cells /\ src \in Cells /\ buf \in [ Cells -> Int ]
  BY DEF TypeInv
<1>2. head \in 0 .. TSPACKETLEN /\ src + head <= bufsize
  BY <1>1, HeadFits DEF GetFits
<1> HIDE DEF head
<1>3. ASSUME NEW i \in 1 .. TSPACKETLEN
      PROVE  (IF i <= head THEN buf[src + i - 1] ELSE buf[i - head - 1]) \in Int
  <2>1. CASE i <= head
    <3>1. src + i - 1 \in Cells
      BY <1>1, <1>2, <2>1 DEF Cells
    <3> QED
      BY <1>1, <2>1, <3>1
  <2>2. CASE ~(i <= head)
    <3>1. i - head - 1 \in Cells
      BY <1>2, <2>2 DEF Cells
    <3> QED
      BY <1>1, <2>2, <3>1
  <2> QED
    BY <2>1, <2>2
<1> QED
  BY <1>3 DEF CopyOut, head

\* What kind of stream is received never changes.
LEMMA StreamIsRigid ==
  ASSUME [Next]_vars
  PROVE  /\ stream' = stream
         /\ (Paced' <=> Paced) /\ (LiveStream' <=> LiveStream) /\ (ShortDatagrams' <=> ShortDatagrams)
<1> SUFFICES stream' = stream
  BY DEF Paced, LiveStream, ShortDatagrams
<1> USE DEF ringVars, receiverVars, decoderVars, ownerVars, streamVars
<1>1. CASE Receiver
  BY <1>1 DEF Receiver, RecvTest, RecvDatagram, RecvError, PutEnter, PutCopy, ReceiverAstray
<1>2. CASE Decoder
  BY <1>2 DEF Decoder, GetEnter, GetTooFew, GetCopy, DecoderTest, DecoderAstray
<1>3. CASE Owner
  BY <1>3 DEF Owner, Dtor, DtorStart, DtorStopDecoder, DtorStopReceiver, DtorWake,
              clean_RecvQue, free_queue
<1>4. CASE UNCHANGED vars
  BY <1>4 DEF vars
<1> QED
  BY <1>1, <1>2, <1>3, <1>4 DEF Next, Terminated

LEMMA TypeStep == TypeInv /\ [Next]_vars => TypeInv'
<1> SUFFICES ASSUME TypeInv, [Next]_vars PROVE TypeInv'
  OBVIOUS
<1> USE DEF ringVars, receiverVars, decoderVars, ownerVars, streamVars
<1>1. CASE RecvTest
  BY <1>1 DEF RecvTest, TypeInv
<1>2. ASSUME NEW n \in DatagramLens, RecvDatagram(n) PROVE TypeInv'
  BY <1>2 DEF RecvDatagram, TypeInv
<1>3. CASE RecvError
  BY <1>3 DEF RecvError, TypeInv
<1>4. CASE PutEnter
  BY <1>4 DEF PutEnter, TypeInv
<1>5. CASE PutCopy
  <2>0. size \in 0 .. bufsize
    BY <1>5 DEF PutCopy, PutFits, TypeInv
  <2>1. buf' \in [ Cells -> Int ]
    BY <1>5, <2>0, CopyInType DEF PutCopy, TypeInv
  <2>2. write_ptr' \in Cells
    BY <1>5, <2>0, AdvanceWraps DEF PutCopy, TypeInv
  <2>3. received' \in Nat
    BY <1>5, <2>0 DEF PutCopy, TypeInv
  <2> QED
    BY <1>5, <2>1, <2>2, <2>3 DEF PutCopy, TypeInv
<1>6. CASE GetEnter
  BY <1>6 DEF GetEnter, TypeInv
<1>7. CASE GetTooFew
  BY <1>7 DEF GetTooFew, TypeInv
<1>8. CASE GetCopy
  <2>1. packet' \in [ 1 .. TSPACKETLEN -> Int ]
    BY <1>8, CopyOutType DEF GetCopy
  <2>2. read_ptr' \in Cells
    BY <1>8, AdvanceWraps DEF GetCopy, TypeInv
  <2>3. taken' \in Nat
    BY <1>8 DEF GetCopy, TypeInv
  <2>4. index' \in 0 .. ReadPackets - 1 /\ dpc' \in {"get", "copy", "test", "done"}
    BY <1>8 DEF GetCopy, TypeInv
  <2> QED
    BY <1>8, <2>1, <2>2, <2>3, <2>4 DEF GetCopy, TypeInv
<1>9. CASE DecoderTest
  <2>1. tested' \in BOOLEAN /\ dpc' \in {"get", "copy", "test", "done"}
    BY <1>9 DEF DecoderTest
  <2> QED
    BY <1>9, <2>1 DEF DecoderTest, TypeInv
<1>10. CASE DtorStart
  <2>1. tested' \in BOOLEAN
    BY <1>10 DEF DtorStart
  <2>2. iloop' \in 0 .. DtorLoops /\ opc' = "dec_test"
    BY <1>10 DEF DtorStart
  <2> QED
    BY <1>10, <2>1, <2>2 DEF DtorStart, TypeInv
<1>11. CASE DtorStopDecoder
  <2>1. CASE iloop > 0 /\ dpc # "done"
    BY <1>11, <2>1 DEF DtorStopDecoder, TypeInv
  <2>2. CASE ~(iloop > 0 /\ dpc # "done")
    <3>1. opc' = "rcv_test" /\ iloop' \in 0 .. DtorLoops
      BY <1>11, <2>2 DEF DtorStopDecoder
    <3>2. tested' \in BOOLEAN
      BY <1>11, <2>2 DEF DtorStopDecoder
    <3>3. UNCHANGED << ringVars, receiverVars, decoderVars, m_bstop, freed, decoder_stop, streamVars >>
      BY <1>11, <2>2 DEF DtorStopDecoder
    <3> QED
      BY <3>1, <3>2, <3>3 DEF TypeInv
  <2> QED
    BY <2>1, <2>2
<1>12. CASE DtorStopReceiver
  <2>1. CASE iloop > 0 /\ rpc # "done"
    BY <1>12, <2>1 DEF DtorStopReceiver, TypeInv
  <2>2. CASE ~(iloop > 0 /\ rpc # "done")
    BY <1>12, <2>2 DEF DtorStopReceiver, TypeInv
  <2> QED
    BY <2>1, <2>2
<1>13. CASE DtorWake
  BY <1>13 DEF DtorWake, TypeInv
<1>14. CASE clean_RecvQue
  BY <1>14 DEF clean_RecvQue, TypeInv, Cells
<1>15. CASE free_queue
  BY <1>15 DEF free_queue, TypeInv
<1>16. CASE ReceiverAstray \/ DecoderAstray
  <2>1. /\ undefined' \in BOOLEAN
        /\ UNCHANGED << ringVars, receiverVars, decoderVars, ownerVars, stream, received, taken, packet >>
    BY <1>16 DEF ReceiverAstray, DecoderAstray
  <2> QED
    BY <2>1 DEF TypeInv
<1>17. CASE UNCHANGED vars
  BY <1>17 DEF vars, TypeInv
<1> QED
  BY <1>1, <1>2, <1>3, <1>4, <1>5, <1>6, <1>7, <1>8, <1>9, <1>10, <1>11,
     <1>12, <1>13, <1>14, <1>15, <1>16, <1>17
     DEF Next, Receiver, Decoder, Owner, Dtor, Terminated

\* The state of the ring, of its three threads and of the history has its type
\* in every reachable state, whatever the constants.
THEOREM TypeCorrect == Spec => []TypeInv
<1>1. Init => TypeInv
  BY TypeInit
<1>2. TypeInv /\ [Next]_vars => TypeInv'
  BY TypeStep
<1> QED
  BY <1>1, <1>2, PTL DEF Spec

-------------------------------------------------------------------------------
(***************************************************************************)
(* The ring holds the newest bytes.  RingHoldsLatest is not inductive: an   *)
(* overrun and a stale pos can move read_ptr past write_ptr, after which    *)
(* the "backlog" grows again over cells that were read long ago.  What is   *)
(* inductive does not mention read_ptr: the cell k places before write_ptr  *)
(* holds byte received - k, for every k up to the size of the ring; and as  *)
(* long as the ring has not been filled once, the pointers are counters and *)
(* the decoder's snapshot lies between them.                                *)
(***************************************************************************)

Live == opc \notin {"free", "done"}

NewestBytes ==
  \A k \in 1 .. bufsize : k <= received => buf[(write_ptr - k) % bufsize] = received - k

FirstLap ==
  received < bufsize =>
    /\ write_ptr = received
    /\ read_ptr = taken
    /\ taken <= received
    /\ dpc = "copy" => taken <= pos /\ pos <= received

RingInv ==
  Live =>
    /\ rpc = "copy" => dst = write_ptr
    /\ FirstLap
    /\ NewestBytes

LEMMA RingInit == Init => RingInv
BY DEF Init, RingInv, FirstLap, NewestBytes, Live

\* One copy of put_queue keeps the newest bytes in front of write_ptr.
LEMMA PutKeepsNewest ==
  ASSUME TypeInv, PutCopy, dst = write_ptr, NewestBytes
  PROVE  NewestBytes'
<1> SUFFICES ASSUME NEW k \in 1 .. bufsize, k <= received'
             PROVE  buf'[(write_ptr' - k) % bufsize] = received' - k
  BY DEF NewestBytes
<1> DEFINE head == HeadLen(write_ptr, size)
           c == (write_ptr' - k) % bufsize
<1>1. /\ write_ptr \in Cells /\ size \in 0 .. bufsize /\ received \in Nat
      /\ bufsize \in Nat \ {0} /\ buf \in [ Cells -> Int ]
  BY DEF TypeInv, PutCopy, PutFits
<1>2. write_ptr' = IF write_ptr + size >= bufsize THEN write_ptr + size - bufsize ELSE write_ptr + size
  BY <1>1, AdvanceWraps DEF PutCopy
<1>3. write_ptr' \in Cells
  BY <1>1, AdvanceWraps DEF PutCopy
<1>4. c = (IF write_ptr' >= k THEN write_ptr' - k ELSE write_ptr' - k + bufsize) /\ c \in Cells
  BY <1>3, CellBefore
<1>5. buf'[c] = IF c \in write_ptr .. write_ptr + head - 1 THEN received + (c - write_ptr)
                ELSE IF c < size - head THEN received + head + c
                ELSE buf[c]
  BY <1>4 DEF PutCopy, CopyIn
<1>6. received' = received + size
  BY DEF PutCopy
<1>7. head = IF write_ptr + size > bufsize THEN bufsize - write_ptr ELSE size
  BY DEF HeadLen
<1>11. head \in Int /\ c \in Int
  BY <1>1, <1>4, <1>7 DEF Cells
<1> HIDE DEF c, head
<1>8. ASSUME k <= size PROVE buf'[c] = received' - k
  <2>1. CASE c \in write_ptr .. write_ptr + head - 1
    <3>1. c - write_ptr = size - k
      BY <1>1, <1>2, <1>4, <1>7, <1>8, <2>1 DEF Cells
    <3> QED
      BY <1>1, <1>5, <1>6, <2>1, <3>1
  <2>2. CASE c \notin write_ptr .. write_ptr + head - 1
    <3>1. c < size - head /\ head + c = size - k
      BY <1>1, <1>2, <1>4, <1>7, <1>8, <2>2 DEF Cells
    <3>2. received + head + c = received + size - k
      BY <1>1, <1>11, <3>1
    <3> QED
      BY <1>1, <1>5, <1>6, <2>2, <3>1, <3>2
  <2> QED
    BY <2>1, <2>2
<1>9. ASSUME k > size PROVE buf'[c] = received' - k
  <2>1. k - size \in 1 .. bufsize /\ k - size <= received
    BY <1>1, <1>6, <1>9
  <2>2. buf[(write_ptr - (k - size)) % bufsize] = received - (k - size)
    BY <2>1 DEF NewestBytes
  <2>3. (write_ptr - (k - size)) % bufsize
          = IF write_ptr >= k - size THEN write_ptr - (k - size) ELSE write_ptr - (k - size) + bufsize
    BY <1>1, <2>1, CellBefore
  <2>4. c = (write_ptr - (k - size)) % bufsize
    BY <1>1, <1>2, <1>4, <1>9, <2>3 DEF Cells
  <2>5. buf'[c] = buf[c]
    BY <1>1, <1>2, <1>4, <1>5, <1>7, <1>9 DEF Cells
  <2> QED
    BY <1>1, <1>6, <2>2, <2>4, <2>5
<1>10. k <= size \/ k > size
  BY <1>1
<1> QED
  BY <1>8, <1>9, <1>10 DEF c

\* Steps that leave the ring, the history and the two snapshots alone.
LEMMA RingUntouched ==
  ASSUME RingInv, UNCHANGED << ringVars, received, taken, dst, pos >>,
         rpc' = "copy" => rpc = "copy", dpc' = "copy" => dpc = "copy",
         opc \in {"free", "done"} => opc' \in {"free", "done"}
  PROVE  RingInv'
BY DEF RingInv, FirstLap, NewestBytes, Live, ringVars

LEMMA RingStep == TypeInv /\ RingInv /\ [Next]_vars => RingInv'
<1> SUFFICES ASSUME TypeInv, RingInv, [Next]_vars PROVE RingInv'
  OBVIOUS
<1> USE DEF ringVars, receiverVars, decoderVars, ownerVars, streamVars
<1>1. CASE RecvTest
  BY <1>1, RingUntouched DEF RecvTest
<1>2. ASSUME NEW n \in DatagramLens, RecvDatagram(n) PROVE RingInv'
  BY <1>2, RingUntouched DEF RecvDatagram
<1>3. CASE RecvError
  BY <1>3, RingUntouched DEF RecvError
<1>4. CASE PutEnter
  BY <1>4 DEF PutEnter, RingInv, FirstLap, NewestBytes, Live
<1>5. CASE PutCopy
  <2> SUFFICES ASSUME Live' PROVE FirstLap' /\ NewestBytes'
    BY <1>5 DEF PutCopy, RingInv
  <2>1. dst = write_ptr /\ FirstLap /\ NewestBytes
    BY <1>5 DEF PutCopy, RingInv, Live
  <2>2. NewestBytes'
    BY <1>5, <2>1, PutKeepsNewest
  <2>3. FirstLap'
    <3>1. /\ write_ptr \in Cells /\ size \in 0 .. bufsize /\ received \in Nat /\ taken \in Nat
          /\ pos \in Cells
      BY <1>5 DEF TypeInv, PutCopy, PutFits
    <3>2. write_ptr' = IF write_ptr + size >= bufsize THEN write_ptr + size - bufsize ELSE write_ptr + size
      BY <1>5, <3>1, AdvanceWraps DEF PutCopy
    <3>3. received' = received + size /\ UNCHANGED << taken, read_ptr, pos, dpc >>
      BY <1>5 DEF PutCopy
    <3> QED
      BY <2>1, <3>1, <3>2, <3>3 DEF FirstLap, Cells
  <2> QED
    BY <2>2, <2>3
<1>6. CASE GetEnter
  BY <1>6 DEF GetEnter, RingInv, FirstLap, NewestBytes, Live, TypeInv
<1>7. CASE GetTooFew
  BY <1>7, RingUntouched DEF GetTooFew
<1>8. CASE GetCopy
  <2> SUFFICES ASSUME Live' PROVE (rpc = "copy" => dst = write_ptr) /\ FirstLap' /\ NewestBytes
    BY <1>8 DEF GetCopy, RingInv, NewestBytes
  <2>1. (rpc = "copy" => dst = write_ptr) /\ FirstLap /\ NewestBytes
    BY <1>8 DEF GetCopy, RingInv, Live
  <2>2. FirstLap'
    <3>1. /\ read_ptr \in Cells /\ pos \in Cells /\ received \in Nat /\ taken \in Nat
      BY DEF TypeInv
    <3>2. read_ptr' = IF read_ptr + TSPACKETLEN >= bufsize THEN read_ptr + TSPACKETLEN - bufsize
                      ELSE read_ptr + TSPACKETLEN
      BY <1>8, <3>1, AdvanceWraps DEF GetCopy
    <3>3. /\ taken' = taken + TSPACKETLEN /\ UNCHANGED << received, write_ptr >>
          /\ dpc = "copy" /\ dpc' # "copy" /\ Readable(read_ptr, pos) >= TSPACKETLEN
      BY <1>8 DEF GetCopy
    <3> QED
      BY <2>1, <3>1, <3>2, <3>3 DEF FirstLap, Cells, Readable
  <2> QED
    BY <2>1, <2>2
<1>9. CASE DecoderTest
  BY <1>9, RingUntouched DEF DecoderTest
<1>10. CASE DtorStart
  BY <1>10, RingUntouched DEF DtorStart
<1>11. CASE DtorStopDecoder
  BY <1>11, RingUntouched DEF DtorStopDecoder
<1>12. CASE DtorStopReceiver
  BY <1>12, RingUntouched DEF DtorStopReceiver
<1>13. CASE DtorWake
  BY <1>13, RingUntouched DEF DtorWake
<1>14. CASE clean_RecvQue
  BY <1>14 DEF clean_RecvQue, RingInv, Live
<1>15. CASE free_queue
  BY <1>15 DEF free_queue, RingInv, Live
<1>16. CASE ReceiverAstray \/ DecoderAstray
  BY <1>16, RingUntouched DEF ReceiverAstray, DecoderAstray
<1>17. CASE UNCHANGED vars
  BY <1>17, RingUntouched DEF vars
<1> QED
  BY <1>1, <1>2, <1>3, <1>4, <1>5, <1>6, <1>7, <1>8, <1>9, <1>10, <1>11,
     <1>12, <1>13, <1>14, <1>15, <1>16, <1>17
     DEF Next, Receiver, Decoder, Owner, Dtor, Terminated

LEMMA RingImpliesLatest == TypeInv /\ RingInv => RingHoldsLatest
<1> SUFFICES ASSUME TypeInv, RingInv, Live, NEW k \in 1 .. Backlog
             PROVE  buf[(write_ptr - k) % bufsize] = received - k
  BY DEF RingHoldsLatest, Live
<1>1. write_ptr \in Cells /\ read_ptr \in Cells /\ received \in Nat /\ taken \in Nat
  BY DEF TypeInv
<1>2. Backlog = IF write_ptr >= read_ptr THEN write_ptr - read_ptr ELSE write_ptr - read_ptr + bufsize
  BY <1>1, CellBefore DEF Backlog, Cells
<1>3. k \in 1 .. bufsize /\ k <= received
  BY <1>1, <1>2 DEF RingInv, FirstLap, Cells
<1> QED
  BY <1>3 DEF RingInv, NewestBytes

\* Until the queue is emptied, the bytes between read_ptr and write_ptr are the
\* newest bytes received, for every ring size and every pace of the sender:
\* the snapshots put_queue and get_queue take outside the lock never make the
\* ring hand out bytes in the place of others as long as it is not overrun
\* during a copy.
THEOREM RingKeepsLatest == Spec => []RingHoldsLatest
<1>1. Init => TypeInv /\ RingInv
  BY TypeInit, RingInit
<1>2. (TypeInv /\ RingInv) /\ [Next]_vars => (TypeInv /\ RingInv)'
  BY TypeStep, RingStep
<1>3. TypeInv /\ RingInv => RingHoldsLatest
  BY RingImpliesLatest
<1> QED
  BY <1>1, <1>2, <1>3, PTL DEF Spec

-------------------------------------------------------------------------------
(***************************************************************************)
(* The shutdown hand-shake.  The owner sleeps only after it has set the     *)
(* stop flag, so a thread that comes to its loop test meanwhile goes away,   *)
(* and a thread that is gone never comes back.  On a live stream it has      *)
(* come there before the last sleep ends, so that the owner leaves a         *)
(* waiting loop only when the thread it waits for is gone.                   *)
(***************************************************************************)

DecoderWaited ==
  /\ opc = "dec_sleep" => decoder_stop
  /\ opc \in {"dec_test", "dec_sleep"} /\ tested => dpc = "done"
  /\ opc = "dec_test" /\ iloop = 0 => dpc = "done"
  /\ opc \in {"rcv_test", "rcv_sleep", "clean", "free", "done"} => dpc = "done"

ReceiverWaited ==
  /\ opc = "rcv_sleep" => m_bstop
  /\ opc \in {"rcv_test", "rcv_sleep"} /\ tested => rpc = "done"
  /\ opc = "rcv_test" /\ iloop = 0 => rpc = "done"
  /\ opc \in {"clean", "free", "done"} => rpc = "done"

DtorInv ==
  /\ LiveStream => DecoderWaited /\ ReceiverWaited
  /\ freed => opc = "done"

LEMMA DtorInit == Init => DtorInv
<1> SUFFICES ASSUME Init PROVE DtorInv
  OBVIOUS
<1>1. opc = "run" /\ ~freed
  BY DEF Init
<1> QED
  BY <1>1 DEF DtorInv, DecoderWaited, ReceiverWaited

\* Steps of the two threads other than their loop tests.
LEMMA ThreadsWork ==
  ASSUME DtorInv, UNCHANGED ownerVars, LiveStream' <=> LiveStream,
         dpc = "done" => dpc' = "done", rpc = "done" => rpc' = "done"
  PROVE  DtorInv'
<1>1. /\ opc' = opc /\ iloop' = iloop /\ freed' = freed /\ tested' = tested
      /\ m_bstop' = m_bstop /\ decoder_stop' = decoder_stop
  BY DEF ownerVars
<1> QED
  BY <1>1 DEF DtorInv, DecoderWaited, ReceiverWaited

LEMMA DtorStep == TypeInv /\ DtorInv /\ [Next]_vars => DtorInv'
<1> SUFFICES ASSUME TypeInv, DtorInv, [Next]_vars PROVE DtorInv'
  OBVIOUS
<1>0. LiveStream' <=> LiveStream
  BY StreamIsRigid
<1> USE <1>0
<1> USE DEF ringVars, receiverVars, decoderVars, streamVars
<1>1. CASE RecvTest
  BY <1>1 DEF RecvTest, DtorInv, DecoderWaited, ReceiverWaited
<1>2. CASE (\E n \in DatagramLens : RecvDatagram(n)) \/ RecvError \/ PutEnter \/ PutCopy \/ ReceiverAstray
  BY <1>2, ThreadsWork DEF RecvDatagram, RecvError, PutEnter, PutCopy, ReceiverAstray
<1>3. CASE DecoderTest
  BY <1>3 DEF DecoderTest, DtorInv, DecoderWaited, ReceiverWaited
<1>4. CASE GetEnter \/ GetTooFew \/ GetCopy \/ DecoderAstray
  BY <1>4, ThreadsWork DEF GetEnter, GetTooFew, GetCopy, DecoderAstray
<1>5. CASE DtorStart
  BY <1>5 DEF DtorStart, DtorInv, DecoderWaited, ReceiverWaited
<1>6. CASE DtorStopDecoder
  <2>1. CASE iloop > 0 /\ dpc # "done"
    BY <1>6, <2>1 DEF DtorStopDecoder, DtorInv, DecoderWaited, ReceiverWaited
  <2>2. CASE ~(iloop > 0 /\ dpc # "done")
    <3>1. opc' = "rcv_test" /\ iloop' > 0 /\ freed' = freed /\ tested' = FALSE /\ dpc' = dpc
      BY <1>6, <2>2 DEF DtorStopDecoder
    <3>2. (LiveStream => dpc = "done") /\ ~freed
      BY <1>6, <2>2 DEF DtorStopDecoder, DtorInv, DecoderWaited, TypeInv
    <3> QED
      BY <3>1, <3>2 DEF DtorInv, DecoderWaited, ReceiverWaited
  <2> QED
    BY <2>1, <2>2
<1>7. CASE DtorStopReceiver
  <2>1. CASE iloop > 0 /\ rpc # "done"
    BY <1>7, <2>1 DEF DtorStopReceiver, DtorInv, DecoderWaited, ReceiverWaited
  <2>2. CASE ~(iloop > 0 /\ rpc # "done")
    <3>1. opc' = "clean" /\ freed' = freed /\ dpc' = dpc /\ rpc' = rpc
      BY <1>7, <2>2 DEF DtorStopReceiver
    <3>2. (LiveStream => rpc = "done" /\ dpc = "done") /\ ~freed
      BY <1>7, <2>2 DEF DtorStopReceiver, DtorInv, DecoderWaited, ReceiverWaited, TypeInv
    <3> QED
      BY <3>1, <3>2 DEF DtorInv, DecoderWaited, ReceiverWaited
  <2> QED
    BY <2>1, <2>2
<1>8. CASE DtorWake
  <2>1. /\ iloop' = iloop /\ freed' = freed /\ dpc' = dpc /\ rpc' = rpc /\ tested' = tested
    BY <1>8 DEF DtorWake
  <2> QED
    BY <1>8, <2>1 DEF DtorWake, DtorInv, DecoderWaited, ReceiverWaited
<1>9. CASE clean_RecvQue
  <2>1. opc = "clean" /\ opc' = "free" /\ freed' = freed /\ dpc' = dpc /\ rpc' = rpc
    BY <1>9 DEF clean_RecvQue
  <2> QED
    BY <2>1 DEF DtorInv, DecoderWaited, ReceiverWaited
<1>10. CASE free_queue
  BY <1>10 DEF free_queue, DtorInv, DecoderWaited, ReceiverWaited
<1>11. CASE UNCHANGED vars
  BY <1>11, ThreadsWork DEF vars
<1> QED
  BY <1>1, <1>2, <1>3, <1>4, <1>5, <1>6, <1>7, <1>8, <1>9, <1>10, <1>11
     DEF Next, Receiver, Decoder, Owner, Dtor, Terminated

\* A datagram on its way into the ring has one of the lengths there are, and a
\* negative one only where there are short datagrams.
InFlightInv ==
  rpc \in {"put", "copy"} => size \in DatagramLens /\ (size < 0 => ShortDatagrams)

LEMMA InFlightStep == InFlightInv /\ [Next]_vars => InFlightInv'
<1> SUFFICES ASSUME InFlightInv, [Next]_vars PROVE InFlightInv'
  OBVIOUS
<1>0. ShortDatagrams' <=> ShortDatagrams
  BY StreamIsRigid
<1> USE <1>0
<1> USE DEF InFlightInv, receiverVars
<1>1. CASE Receiver
  BY <1>1 DEF Receiver, RecvTest, RecvDatagram, RecvError, PutEnter, PutCopy, ReceiverAstray
<1>2. CASE Decoder
  BY <1>2 DEF Decoder, GetEnter, GetTooFew, GetCopy, DecoderTest, DecoderAstray
<1>3. CASE Owner
  BY <1>3 DEF Owner, Dtor, DtorStart, DtorStopDecoder, DtorStopReceiver, DtorWake, clean_RecvQue, free_queue
<1>4. CASE UNCHANGED vars
  BY <1>4 DEF vars
<1> QED
  BY <1>1, <1>2, <1>3, <1>4 DEF Next, Terminated

\* The address of get_queue is that of read_ptr until the owner resets it.
SnapshotInv == Live /\ dpc = "copy" => src = read_ptr

LEMMA SnapshotStep == SnapshotInv /\ [Next]_vars => SnapshotInv'
<1> SUFFICES ASSUME SnapshotInv, [Next]_vars PROVE SnapshotInv'
  OBVIOUS
<1> USE DEF ringVars, receiverVars, decoderVars, ownerVars, streamVars, SnapshotInv, Live
<1>1. CASE Receiver
  BY <1>1 DEF Receiver, RecvTest, RecvDatagram, RecvError, PutEnter, PutCopy, ReceiverAstray
<1>2. CASE Decoder
  BY <1>2 DEF Decoder, GetEnter, GetTooFew, GetCopy, DecoderTest, DecoderAstray
<1>3. CASE Owner
  BY <1>3 DEF Owner, Dtor, DtorStart, DtorStopDecoder, DtorStopReceiver, DtorWake, clean_RecvQue, free_queue
<1>4. CASE UNCHANGED vars
  BY <1>4 DEF vars
<1> QED
  BY <1>1, <1>2, <1>3, <1>4 DEF Next, Terminated

SafeInv == TypeInv /\ DtorInv /\ RingInv /\ InFlightInv /\ SnapshotInv

LEMMA SafeInit == Init => SafeInv
<1>1. Init => InFlightInv /\ SnapshotInv
  BY DEF Init, InFlightInv, SnapshotInv
<1> QED
  BY <1>1, TypeInit, DtorInit, RingInit DEF SafeInv

LEMMA SafeStep == SafeInv /\ [Next]_vars => SafeInv'
BY TypeStep, DtorStep, RingStep, InFlightStep, SnapshotStep DEF SafeInv

\* Until the destructor empties the ring, the addresses both copies use are
\* those of the present indices; then, on a live stream, both threads are gone.
LEMMA NobodyAstray ==
  ASSUME SafeInv, LiveStream, ~ShortDatagrams
  PROVE  ~ReceiverAstray /\ ~DecoderAstray
<1> USE DEF SafeInv
<1>1. opc \in {"clean", "free", "done"} => rpc = "done" /\ dpc = "done"
  BY DEF DtorInv, DecoderWaited, ReceiverWaited
<1>2. freed => rpc = "done" /\ dpc = "done"
  BY <1>1 DEF DtorInv
<1>3. ASSUME rpc = "copy" PROVE PutFits
  <2>1. dst = write_ptr
    BY <1>1, <1>3 DEF RingInv, Live
  <2>2. write_ptr \in Cells /\ size \in 0 .. bufsize
    BY <1>3 DEF TypeInv, InFlightInv
  <2> QED
    BY <2>1, <2>2, HeadFits DEF PutFits
<1>4. ASSUME dpc = "copy" PROVE GetFits
  <2>1. src = read_ptr
    BY <1>1, <1>4 DEF SnapshotInv, Live
  <2>2. read_ptr \in Cells /\ TSPACKETLEN \in 0 .. bufsize
    BY DEF TypeInv
  <2> QED
    BY <2>1, <2>2, HeadFits DEF GetFits
<1> QED
  BY <1>2, <1>3, <1>4 DEF ReceiverAstray, DecoderAstray

LEMMA UndefinedStep == SafeInv /\ NothingUndefined /\ [Next]_vars => NothingUndefined'
<1> SUFFICES ASSUME SafeInv, NothingUndefined, [Next]_vars, LiveStream, ~ShortDatagrams
             PROVE  ~undefined'
  BY StreamIsRigid DEF NothingUndefined
<1>0. ~undefined
  BY DEF NothingUndefined
<1>1. ~ReceiverAstray /\ ~DecoderAstray
  BY NobodyAstray
<1> USE DEF streamVars
<1>2. CASE Receiver
  BY <1>0, <1>1, <1>2 DEF Receiver, RecvTest, RecvDatagram, RecvError, PutEnter, PutCopy
<1>3. CASE Decoder
  BY <1>0, <1>1, <1>3 DEF Decoder, GetEnter, GetTooFew, GetCopy, DecoderTest
<1>4. CASE Owner
  BY <1>0, <1>4 DEF Owner, Dtor, DtorStart, DtorStopDecoder, DtorStopReceiver, DtorWake,
                    clean_RecvQue, free_queue
<1>5. CASE UNCHANGED vars
  BY <1>0, <1>5 DEF vars
<1> QED
  BY <1>2, <1>3, <1>4, <1>5 DEF Next, Terminated

\* While datagrams keep coming and none is shorter than its header, no copy of
\* put_queue or get_queue reaches behind the ring and neither thread uses the
\* queue after its destructor: for any ring, any pace of the sender and any
\* number of rounds the destructors wait.
THEOREM NothingGoesAstray == Spec => []NothingUndefined
<1>1. Init => SafeInv /\ NothingUndefined
  BY SafeInit DEF Init, NothingUndefined
<1>2. (SafeInv /\ NothingUndefined) /\ [Next]_vars => (SafeInv /\ NothingUndefined)'
  BY SafeStep, UndefinedStep
<1> QED
  BY <1>1, <1>2, PTL DEF Spec

-------------------------------------------------------------------------------
(***************************************************************************)
(* Refinement.  With a paced sender the distance of the pointers is the     *)
(* number of bytes received and not taken, less a whole ring when write_ptr *)
(* has wrapped, and the decoder's stale view of it can only be too small.   *)
(***************************************************************************)

PacedInv ==
  Paced /\ Live =>
    /\ taken <= received /\ received - taken < bufsize
    /\ rpc \in {"put", "copy"} => received - taken + size < bufsize
    /\ write_ptr - read_ptr \in {received - taken, received - taken - bufsize}
    /\ dpc = "copy" => src = read_ptr /\ Readable(read_ptr, pos) <= received - taken

LEMMA PacedInit == Init => PacedInv
BY DEF Init, PacedInv, Live

LEMMA PacedUntouched ==
  ASSUME Paced, PacedInv, UNCHANGED << ringVars, received, taken, size, src, pos >>,
         rpc' \in {"put", "copy"} => rpc \in {"put", "copy"},
         dpc' = "copy" => dpc = "copy",
         opc \in {"free", "done"} => opc' \in {"free", "done"}
  PROVE  PacedInv'
BY DEF PacedInv, Readable, Live, ringVars

LEMMA PacedStep ==
  ASSUME TypeInv, PacedInv, [Next]_vars
  PROVE  PacedInv'
<1> SUFFICES ASSUME Paced PROVE PacedInv'
  BY StreamIsRigid DEF PacedInv
<1> USE DEF ringVars, receiverVars, decoderVars, ownerVars, streamVars
<1>0. /\ read_ptr \in Cells /\ write_ptr \in Cells /\ pos \in Cells /\ size \in Int /\ size <= bufsize
      /\ received \in Nat /\ taken \in Nat
  BY DEF TypeInv
<1>1. CASE RecvTest
  BY <1>1, PacedUntouched DEF RecvTest
<1>2. ASSUME NEW n \in DatagramLens, RecvDatagram(n) PROVE PacedInv'
  BY <1>2 DEF RecvDatagram, PacedInv, Live, Readable
<1>3. CASE RecvError
  BY <1>3, PacedUntouched DEF RecvError
<1>4. CASE PutEnter
  BY <1>4 DEF PutEnter, PacedInv, Live, Readable
<1>5. CASE PutCopy
  <2> SUFFICES ASSUME Live' PROVE PacedInv'
    BY DEF PacedInv
  <2>0. size \in 0 .. bufsize
    BY <1>0, <1>5 DEF PutCopy, PutFits
  <2>1. write_ptr' = IF write_ptr + size >= bufsize THEN write_ptr + size - bufsize ELSE write_ptr + size
    BY <1>0, <1>5, <2>0, AdvanceWraps DEF PutCopy
  <2>2. /\ received' = received + size /\ rpc = "copy" /\ rpc' = "test"
        /\ read_ptr' = read_ptr /\ dpc' = dpc /\ src' = src /\ pos' = pos
        /\ taken' = taken /\ opc' = opc
    BY <1>5 DEF PutCopy
  <2>3. Live
    BY <2>2 DEF Live
  <2>5. Readable(read_ptr, pos) \in Int
    BY <1>0 DEF Readable, Cells
  <2>6. /\ taken <= received + size /\ received + size - taken < bufsize
        /\ write_ptr' - read_ptr \in {received + size - taken, received + size - taken - bufsize}
    BY <1>0, <2>0, <2>1, <2>2, <2>3 DEF PacedInv, Cells
  <2>7. dpc = "copy" => src = read_ptr /\ Readable(read_ptr, pos) <= received + size - taken
    BY <1>0, <2>0, <2>3, <2>5 DEF PacedInv
  <2>8. ASSUME dpc = "copy" PROVE src' = read_ptr' /\ Readable(read_ptr', pos') <= received' - taken'
    <3>1. src = read_ptr /\ Readable(read_ptr, pos) <= received + size - taken
      BY <2>7, <2>8
    <3>2. Readable(read_ptr', pos') = Readable(read_ptr, pos) /\ received' - taken' = received + size - taken
      BY <1>0, <2>2
    <3> QED
      BY <2>2, <3>1, <3>2
  <2>9. /\ taken' <= received' /\ received' - taken' < bufsize
        /\ write_ptr' - read_ptr' \in {received' - taken', received' - taken' - bufsize}
    BY <1>0, <2>1, <2>2, <2>6 DEF Cells
  <2>10. dpc' = dpc /\ rpc' = "test"
    BY <2>2
  <2> QED
    BY <2>8, <2>9, <2>10 DEF PacedInv
<1>6. CASE GetEnter
  <2> SUFFICES ASSUME Live' PROVE PacedInv'
    BY DEF PacedInv
  <2>1. /\ UNCHANGED << read_ptr, write_ptr, rpc, size, received, taken, opc >>
        /\ src' = read_ptr /\ pos' = write_ptr
    BY <1>6 DEF GetEnter
  <2>2. Live
    BY <2>1 DEF Live
  <2>3. Readable(read_ptr, write_ptr) <= received - taken
    BY <1>0, <2>2 DEF PacedInv, Readable, Cells
  <2>4. Readable(read_ptr', pos') <= received' - taken'
    BY <2>1, <2>3
  <2>5. /\ taken' <= received' /\ received' - taken' < bufsize
        /\ rpc' \in {"put", "copy"} => received' - taken' + size' < bufsize
        /\ write_ptr' - read_ptr' \in {received' - taken', received' - taken' - bufsize}
    BY <2>1, <2>2 DEF PacedInv
  <2> QED
    BY <2>1, <2>4, <2>5 DEF PacedInv
<1>7. CASE GetTooFew
  BY <1>7, PacedUntouched DEF GetTooFew
<1>8. CASE GetCopy
  <2> SUFFICES ASSUME Live' PROVE PacedInv'
    BY DEF PacedInv
  <2>1. read_ptr' = IF read_ptr + TSPACKETLEN >= bufsize THEN read_ptr + TSPACKETLEN - bufsize
                    ELSE read_ptr + TSPACKETLEN
    BY <1>0, <1>8, AdvanceWraps DEF GetCopy
  <2>2. /\ taken' = taken + TSPACKETLEN /\ dpc = "copy" /\ dpc' # "copy"
        /\ Readable(read_ptr, pos) >= TSPACKETLEN
        /\ UNCHANGED << write_ptr, rpc, size, received, opc >>
    BY <1>8 DEF GetCopy
  <2>3. Live
    BY <2>2 DEF Live
  <2>4. TSPACKETLEN <= received - taken
    BY <1>0, <2>2, <2>3 DEF PacedInv, Readable, Cells
  <2>5. /\ taken + TSPACKETLEN <= received /\ received - (taken + TSPACKETLEN) < bufsize
        /\ write_ptr - read_ptr' \in {received - (taken + TSPACKETLEN),
                                      received - (taken + TSPACKETLEN) - bufsize}
    BY <1>0, <2>1, <2>3, <2>4 DEF PacedInv, Cells
  <2>6. rpc \in {"put", "copy"} => received - (taken + TSPACKETLEN) + size < bufsize
    BY <1>0, <2>3 DEF PacedInv
  <2> QED
    BY <2>2, <2>5, <2>6 DEF PacedInv
<1>9. CASE DecoderTest
  BY <1>9, PacedUntouched DEF DecoderTest
<1>10. CASE DtorStart
  BY <1>10, PacedUntouched DEF DtorStart
<1>11. CASE DtorStopDecoder
  BY <1>11, PacedUntouched DEF DtorStopDecoder
<1>12. CASE DtorStopReceiver
  BY <1>12, PacedUntouched DEF DtorStopReceiver
<1>13. CASE DtorWake
  BY <1>13, PacedUntouched DEF DtorWake
<1>14. CASE clean_RecvQue
  BY <1>14 DEF clean_RecvQue, PacedInv, Live
<1>15. CASE free_queue
  BY <1>15 DEF free_queue, PacedInv, Live
<1>16. CASE ReceiverAstray \/ DecoderAstray
  BY <1>16, PacedUntouched DEF ReceiverAstray, DecoderAstray
<1>17. CASE UNCHANGED vars
  BY <1>17, PacedUntouched DEF vars
<1> QED
  BY <1>1, <1>2, <1>3, <1>4, <1>5, <1>6, <1>7, <1>8, <1>9, <1>10, <1>11,
     <1>12, <1>13, <1>14, <1>15, <1>16, <1>17
     DEF Next, Receiver, Decoder, Owner, Dtor, Terminated

\* The packet get_queue copies out starts at the first byte not taken yet.
LEMMA PacketIsNext ==
  ASSUME TypeInv, RingInv, Paced, PacedInv, Live, GetCopy
  PROVE  packet' = PacketAt(taken) /\ received - taken >= TSPACKETLEN
<1> DEFINE head == HeadLen(read_ptr, TSPACKETLEN)
<1>1. /\ read_ptr \in Cells /\ write_ptr \in Cells /\ pos \in Cells
      /\ received \in Nat /\ taken \in Nat /\ buf \in [ Cells -> Int ]
  BY DEF TypeInv
<1>2. src = read_ptr /\ received - taken >= TSPACKETLEN /\ received - taken < bufsize
  BY <1>1 DEF GetCopy, PacedInv, Readable, Cells
<1>3. write_ptr - read_ptr \in {received - taken, received - taken - bufsize}
  BY DEF PacedInv
<1>4. head = IF read_ptr + TSPACKETLEN > bufsize THEN bufsize - read_ptr ELSE TSPACKETLEN
  BY DEF HeadLen
<1> HIDE DEF head
<1>5. ASSUME NEW i \in 1 .. TSPACKETLEN
      PROVE  (IF i <= head THEN buf[read_ptr + i - 1] ELSE buf[i - head - 1]) = taken + i - 1
  <2> DEFINE k == received - taken - (i - 1)
             c == IF i <= head THEN read_ptr + i - 1 ELSE i - head - 1
  <2>1. k \in 1 .. bufsize /\ k <= received /\ received - k = taken + i - 1
    BY <1>1, <1>2
  <2>2. c \in Cells
    BY <1>1, <1>4 DEF Cells
  <2>3. (write_ptr - k) % bufsize = IF write_ptr >= k THEN write_ptr - k ELSE write_ptr - k + bufsize
    BY <1>1, <2>1, CellBefore
  <2>4. c = (write_ptr - k) % bufsize
    <3>1. read_ptr \in 0 .. bufsize - 1 /\ write_ptr \in 0 .. bufsize - 1 /\ bufsize \in Nat
      BY <1>1, RecvQueueAssumption DEF Cells
    <3>2. CASE write_ptr - read_ptr = received - taken
      <4>1. write_ptr - k = read_ptr + i - 1 /\ write_ptr >= k /\ write_ptr - k < bufsize
        BY <1>1, <2>1, <3>1, <3>2
      <4>2. i <= head
        BY <1>4, <3>1, <4>1, RecvQueueAssumption
      <4> QED
        BY <2>3, <4>1, <4>2
    <3>3. CASE write_ptr - read_ptr = received - taken - bufsize
      <4>1. write_ptr - k = read_ptr + i - 1 - bufsize
        BY <1>1, <2>1, <3>1, <3>3
      <4>2. i <= head <=> read_ptr + i - 1 < bufsize
        BY <1>4, <3>1, RecvQueueAssumption
      <4>3. i > head => head = bufsize - read_ptr
        BY <1>4, <3>1, RecvQueueAssumption
      <4>4. CASE i <= head
        BY <1>1, <2>1, <2>3, <3>1, <4>1, <4>2, <4>4
      <4>5. CASE i > head
        BY <1>1, <2>1, <2>3, <3>1, <4>1, <4>2, <4>3, <4>5
      <4> QED
        BY <4>4, <4>5, <3>1, <1>4, RecvQueueAssumption
    <3> QED
      BY <1>3, <3>2, <3>3
  <2>5. buf[(write_ptr - k) % bufsize] = received - k
    BY <2>1 DEF RingInv, NewestBytes
  <2>6. buf[c] = taken + i - 1
    BY <2>1, <2>4, <2>5
  <2> QED
    BY <2>6
<1>6. packet' = [ i \in 1 .. TSPACKETLEN |-> taken + i - 1 ]
  BY <1>2, <1>5 DEF GetCopy, CopyOut, head
<1> QED
  BY <1>2, <1>6 DEF PacketAt

\* Every step of the three threads is a step of the byte stream or a stutter.
LEMMA StepMaps ==
  ASSUME TypeInv, DtorInv, RingInv, PacedInv, InFlightInv, [Next]_vars
  PROVE  [ByteStream!Next]_(ByteStream!streamVars)
<1> USE DEF ringVars, receiverVars, decoderVars, ownerVars, streamVars, ByteStream!streamVars
<1>0. (Paced' /\ LiveStream') = (Paced /\ LiveStream)
  BY StreamIsRigid
<1>1. CASE RecvTest \/ RecvError \/ PutEnter \/ ReceiverAstray \/ \E n \in DatagramLens : RecvDatagram(n)
  BY <1>0, <1>1 DEF RecvTest, RecvError, PutEnter, RecvDatagram, ReceiverAstray
<1>2. CASE PutCopy
  <2>1. rpc = "copy" /\ size \in { n \in DatagramLens : n >= 0 }
    BY <1>2 DEF PutCopy, PutFits, InFlightInv
  <2>2. received' = received + size /\ taken' = taken /\ packet' = packet
    BY <1>2 DEF PutCopy
  <2>3. ASSUME Paced, LiveStream PROVE received - taken + size <= bufsize - 1
    <3>1. Live
      BY <2>1, <2>3 DEF DtorInv, ReceiverWaited, Live
    <3>2. received - taken + size < bufsize
      BY <2>1, <2>3, <3>1 DEF PacedInv
    <3>3. size \in Int /\ received \in Nat /\ taken \in Nat
      BY DEF TypeInv
    <3> QED
      BY <3>2, <3>3
  <2>4. ByteStream!Put(size)
    BY <1>0, <2>2, <2>3 DEF ByteStream!Put
  <2> QED
    BY <2>1, <2>4 DEF ByteStream!Next
<1>3. CASE GetEnter \/ GetTooFew \/ DecoderTest \/ DecoderAstray
  BY <1>0, <1>3 DEF GetEnter, GetTooFew, DecoderTest, DecoderAstray
<1>4. CASE GetCopy
  <2>1. taken' = taken + TSPACKETLEN /\ received' = received
    BY <1>4 DEF GetCopy
  <2>2. ASSUME Paced, LiveStream
        PROVE  packet' = PacketAt(taken) /\ received - taken >= TSPACKETLEN
    <3>1. Live
      BY <1>4, <2>2 DEF GetCopy, DtorInv, DecoderWaited, Live
    <3> QED
      BY <1>4, <2>2, <3>1, PacketIsNext
  <2>3. packet' \in [ 1 .. TSPACKETLEN -> Int ]
    BY <1>4, CopyOutType DEF GetCopy
  <2>4. ASSUME Paced, LiveStream PROVE ByteStream!Take
    BY <1>0, <2>1, <2>2, <2>4 DEF ByteStream!Take, ByteStream!PacketAt, PacketAt
  <2>5. ASSUME ~(Paced /\ LiveStream) PROVE ByteStream!Take
    BY <1>0, <2>1, <2>3, <2>5 DEF ByteStream!Take
  <2> QED
    BY <2>4, <2>5 DEF ByteStream!Next
<1>5. CASE Owner
  BY <1>0, <1>5 DEF Owner, Dtor, DtorStart, DtorStopDecoder, DtorStopReceiver, DtorWake, clean_RecvQue, free_queue
<1>6. CASE UNCHANGED vars
  BY <1>0, <1>6 DEF vars
<1> QED
  BY <1>1, <1>2, <1>3, <1>4, <1>5, <1>6 DEF Next, Receiver, Decoder, Terminated

\* The ring, its locks and its snapshots implement a byte stream: with a sender
\* that never runs a ring ahead and a stream that stays alive, the decoder
\* takes exactly the bytes received, in order, across every wrap of the ring.
THEOREM RingIsByteStream == Spec => StreamSpec
<1> DEFINE IInv == SafeInv /\ PacedInv
<1>1. Init => IInv
  BY SafeInit, PacedInit
<1>2. IInv /\ [Next]_vars => IInv'
  BY SafeStep, PacedStep DEF SafeInv
<1>3. Init => ByteStream!Init
  <2>1. (Paced /\ LiveStream) \in BOOLEAN
    OBVIOUS
  <2> QED
    BY <2>1 DEF Init, ByteStream!Init, PacketAt, ByteStream!PacketAt
<1>4. IInv /\ [Next]_vars => [ByteStream!Next]_(ByteStream!streamVars)
  BY StepMaps DEF SafeInv
<1> HIDE DEF IInv
<1> QED
  BY <1>1, <1>2, <1>3, <1>4, PTL DEF Spec, StreamSpec, ByteStream!Spec

-------------------------------------------------------------------------------
(***************************************************************************)
(* Nothing that was never written is delivered.  During the first lap the   *)
(* decoder's snapshot keeps it below received; afterwards every cell has    *)
(* been written, because the newest bufsize bytes fill the whole ring.      *)
(***************************************************************************)

\* A cell that some byte has reached holds the position of a byte.
LEMMA CellWritten ==
  ASSUME TypeInv, RingInv, Live, NEW c \in Cells, received >= bufsize \/ c < received
  PROVE  buf[c] # Uninit
<1> DEFINE k == IF received < bufsize \/ c < write_ptr THEN write_ptr - c ELSE write_ptr - c + bufsize
<1>1. write_ptr \in Cells /\ received \in Nat
  BY DEF TypeInv
<1>2. received < bufsize => write_ptr = received
  BY DEF RingInv, FirstLap
<1>3. k \in 1 .. bufsize /\ k <= received
  BY <1>1, <1>2 DEF Cells
<1>4. (write_ptr - k) % bufsize = IF write_ptr >= k THEN write_ptr - k ELSE write_ptr - k + bufsize
  BY <1>1, <1>3, CellBefore
<1>5. (write_ptr - k) % bufsize = c
  BY <1>1, <1>2, <1>4 DEF Cells
<1>6. buf[c] = received - k
  BY <1>3, <1>5 DEF RingInv, NewestBytes
<1> QED
  BY <1>1, <1>3, <1>6 DEF Uninit

\* Every byte of the packet get_queue copies out has been written.
LEMMA CopyOutWritten ==
  ASSUME TypeInv, RingInv, SnapshotInv, Live, GetCopy, NEW i \in 1 .. TSPACKETLEN
  PROVE  packet'[i] # Uninit
<1> DEFINE head == HeadLen(read_ptr, TSPACKETLEN)
           c == IF i <= head THEN read_ptr + i - 1 ELSE i - head - 1
<1>1. /\ read_ptr \in Cells /\ pos \in Cells /\ received \in Nat /\ taken \in Nat
      /\ src = read_ptr /\ dpc = "copy" /\ Readable(read_ptr, pos) >= TSPACKETLEN
  BY DEF TypeInv, SnapshotInv, GetCopy
<1>2. head = IF read_ptr + TSPACKETLEN > bufsize THEN bufsize - read_ptr ELSE TSPACKETLEN
  BY DEF HeadLen
<1>3. c \in Cells
  BY <1>1, <1>2 DEF Cells
<1>4. received < bufsize => c < received
  BY <1>1, <1>2 DEF RingInv, FirstLap, Readable, Cells
<1>5. received >= bufsize \/ c < received
  BY <1>1, <1>4
<1>6. buf[c] # Uninit
  BY <1>3, <1>5, CellWritten
<1>7. packet'[i] = buf[c]
  BY <1>1 DEF GetCopy, CopyOut
<1> QED
  BY <1>6, <1>7

LEMMA WrittenStep ==
  ASSUME SafeInv, NoUninitDelivered, [Next]_vars
  PROVE  NoUninitDelivered'
<1> USE DEF ringVars, receiverVars, decoderVars, ownerVars, streamVars
<1>0. LiveStream' <=> LiveStream
  BY StreamIsRigid
<1>1. CASE Receiver
  BY <1>0, <1>1 DEF Receiver, RecvTest, RecvDatagram, RecvError, PutEnter, PutCopy, ReceiverAstray,
                    NoUninitDelivered
<1>2. CASE GetEnter \/ GetTooFew \/ DecoderTest \/ DecoderAstray
  BY <1>0, <1>2 DEF GetEnter, GetTooFew, DecoderTest, DecoderAstray, NoUninitDelivered
<1>3. CASE GetCopy
  <2>1. ASSUME LiveStream, NEW i \in 1 .. TSPACKETLEN PROVE packet'[i] # Uninit
    <3>1. Live
      BY <1>3, <2>1 DEF GetCopy, SafeInv, DtorInv, DecoderWaited, Live
    <3> QED
      BY <1>3, <3>1, CopyOutWritten DEF SafeInv
  <2> QED
    BY <1>0, <2>1 DEF NoUninitDelivered
<1>4. CASE DtorStart \/ DtorStopDecoder \/ DtorStopReceiver \/ DtorWake \/ clean_RecvQue \/ free_queue
  BY <1>0, <1>4 DEF DtorStart, DtorStopDecoder, DtorStopReceiver, DtorWake, clean_RecvQue, free_queue,
                    NoUninitDelivered
<1>5. CASE UNCHANGED vars
  BY <1>0, <1>5 DEF vars, NoUninitDelivered
<1> QED
  BY <1>1, <1>2, <1>3, <1>4, <1>5 DEF Next, Decoder, Owner, Dtor, Terminated

\* However far a live sender overruns the ring, the decoder is handed only
\* memory a datagram was copied to.
THEOREM OnlyWrittenBytes == Spec => []NoUninitDelivered
<1>1. Init => SafeInv /\ NoUninitDelivered
  BY SafeInit DEF Init, NoUninitDelivered
<1>2. (SafeInv /\ NoUninitDelivered) /\ [Next]_vars => (SafeInv /\ NoUninitDelivered)'
  BY SafeStep, WrittenStep
<1> QED
  BY <1>1, <1>2, PTL DEF Spec

===============================================================================
