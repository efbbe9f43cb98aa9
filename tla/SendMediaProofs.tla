---------------------------- MODULE SendMediaProofs ----------------------------
(***************************************************************************)
(* Theorems about one stream of the media server for every set of files,   *)
(* every pool size and every datagram size.                                *)
(***************************************************************************)
EXTENDS SendMedia, TLAPS

USE SendMediaAssumption

-------------------------------------------------------------------------------
(***************************************************************************)
(* Type correctness.  The reader that holds a packet is not at the end of   *)
(* the file; the sender that sends has something left to send.             *)
(***************************************************************************)

TypeIInv ==
  /\ TypeInv
  /\ gpc \in {"wait", "fill"} => read < Len(file)
  /\ spc = "send" => ~Empty(SendPesPacket)

LEMMA TypeInit == Init => TypeIInv
<1> SUFFICES ASSUME Init PROVE TypeIInv
  OBVIOUS
<1>1. file \in Seq(Kinds) /\ Len(file) \in Nat
  BY DEF Init
<1>2. [ i \in Buffers |-> i ] \in Seq(Buffers) /\ << >> \in Seq(Buffers)
  BY DEF Buffers
<1>3. << 1, 0 >> \in FrameSet
  BY <1>1 DEF FrameSet
<1>4. m_bPause \in BOOLEAN /\ m_bStop \in BOOLEAN /\ bPAT_PID \in BOOLEAN /\ bPMT_PID \in BOOLEAN
  BY DEF Init
<1>5. frame \in [ Buffers -> FrameSet ]
  BY <1>3 DEF Init, Frame
<1> QED
  BY <1>1, <1>2, <1>3, <1>4, <1>5 DEF Init, TypeIInv, TypeInv, Frame

\* The frame the reader hands over is a frame of the file.
LEMMA FillType ==
  ASSUME TypeIInv, GetFill
  PROVE  /\ Head(m_dequeFreeBuff) \in Buffers
         /\ m_dequeFreeBuff' \in Seq(Buffers) /\ m_dequeUseBuff' \in Seq(Buffers)
         /\ frame' \in [ Buffers -> FrameSet ]
         /\ read' \in 0 .. Len(file) /\ iPacketLen' \in 0 .. read'
<1>1. /\ m_dequeFreeBuff \in Seq(Buffers) /\ m_dequeUseBuff \in Seq(Buffers)
      /\ m_dequeFreeBuff # << >> /\ Len(file) \in Nat
      /\ read \in 0 .. Len(file) /\ iPacketLen \in 0 .. read /\ read < Len(file)
  BY DEF TypeIInv, TypeInv, GetFill
<1>2. Head(m_dequeFreeBuff) \in Buffers /\ Tail(m_dequeFreeBuff) \in Seq(Buffers)
  BY <1>1
<1>3. Append(m_dequeUseBuff, Head(m_dequeFreeBuff)) \in Seq(Buffers)
  BY <1>1, <1>2
<1>4. Frame(queued + 1, read) \in FrameSet
  BY <1>1 DEF Frame, FrameSet, queued
<1>5. frame' \in [ Buffers -> FrameSet ]
  BY <1>4 DEF GetFill, TypeIInv, TypeInv
<1>6. read' \in 0 .. Len(file) /\ iPacketLen' \in 0 .. read'
  BY <1>1 DEF GetFill
<1> QED
  BY <1>2, <1>3, <1>5, <1>6 DEF GetFill

LEMMA TakeType ==
  ASSUME TypeIInv, SendTake
  PROVE  /\ Head(m_dequeUseBuff) \in Buffers
         /\ m_dequeFreeBuff' \in Seq(Buffers) /\ m_dequeUseBuff' \in Seq(Buffers)
         /\ SendPesPacket' = frame[Head(m_dequeUseBuff)]
         /\ SendPesPacket' \in FrameSet
         /\ spc' \in {"pause", "send"} /\ (spc' = "send" => ~Empty(SendPesPacket'))
<1>1. /\ m_dequeFreeBuff \in Seq(Buffers) /\ m_dequeUseBuff \in Seq(Buffers)
      /\ m_dequeUseBuff # << >> /\ frame \in [ Buffers -> FrameSet ]
  BY DEF TypeIInv, TypeInv, SendTake
<1>2. Head(m_dequeUseBuff) \in Buffers /\ Tail(m_dequeUseBuff) \in Seq(Buffers)
  BY <1>1
<1>3. Append(m_dequeFreeBuff, Head(m_dequeUseBuff)) \in Seq(Buffers)
  BY <1>1, <1>2
<1> QED
  BY <1>1, <1>2, <1>3 DEF SendTake

\* What a datagram leaves to send is a frame of the file again.
LEMMA DatagramType ==
  ASSUME TypeIInv, SendDatagram
  PROVE  /\ SendPesPacket' \in FrameSet /\ wire' \in 0 .. Len(file)
         /\ Last(SendPesPacket') = Last(SendPesPacket)
         /\ Last(SendPesPacket) \in wire' .. Len(file)
         /\ First(SendPesPacket') = wire' + 1
         /\ wire' = IF First(SendPesPacket) - 1 + Chunk < Last(SendPesPacket)
                    THEN First(SendPesPacket) - 1 + Chunk ELSE Last(SendPesPacket)
         /\ spc' = IF wire' = Last(SendPesPacket) THEN "pause" ELSE "send"
<1> DEFINE first == First(SendPesPacket)
           last == Last(SendPesPacket)
           sent == IF last - first + 1 < Chunk THEN last ELSE first + Chunk - 1
<1>1. SendPesPacket \in FrameSet /\ Len(file) \in Nat
  BY DEF TypeIInv, TypeInv
<1>2. first \in 1 .. Len(file) + 1 /\ last \in 0 .. Len(file) /\ first <= last
  BY <1>1 DEF TypeIInv, SendDatagram, Empty, First, Last, FrameSet
<1>3. wire' = sent /\ SendPesPacket' = << sent + 1, last >> /\ spc' = IF sent = last THEN "pause" ELSE "send"
  BY DEF SendDatagram, Frame
<1> HIDE DEF first, last
<1>4. sent \in first .. last /\ sent = IF first - 1 + Chunk < last THEN first - 1 + Chunk ELSE last
  BY <1>2
<1>5. << sent + 1, last >> \in FrameSet
  BY <1>1, <1>2, <1>4 DEF FrameSet
<1>6. sent \in 0 .. Len(file) /\ last \in sent .. Len(file)
  BY <1>1, <1>2, <1>4
<1>7. First(SendPesPacket') = sent + 1 /\ Last(SendPesPacket') = last
  BY <1>3 DEF First, Last
<1> QED
  BY <1>3, <1>4, <1>5, <1>6, <1>7 DEF first, last

LEMMA TypeStep == TypeIInv /\ [Next]_vars => TypeIInv'
<1> SUFFICES ASSUME TypeIInv, [Next]_vars PROVE TypeIInv'
  OBVIOUS
<1> USE DEF poolVars, readerVars, senderVars, clientVars, TypeIInv, FrameSet
<1>0. Len(file) \in Nat
  BY DEF TypeInv
<1>1. CASE GetPause
  BY <1>1 DEF GetPause, TypeInv
<1>2. CASE GetStop
  BY <1>2 DEF GetStop, TypeInv
<1>3. CASE GetPacket
  <2>1. /\ gpc = "read" /\ read < Len(file) /\ bPAT_PID' \in BOOLEAN /\ bPMT_PID' \in BOOLEAN
        /\ UNCHANGED << file, poolVars, senderVars, clientVars >>
    BY <1>3 DEF GetPacket
  <2>2. \/ gpc' = "wait" /\ read' = read /\ iPacketLen' = iPacketLen
        \/ gpc' = "pause" /\ read' = read + 1 /\ iPacketLen' = iPacketLen + 1
    BY <1>3 DEF GetPacket
  <2>3. read' \in 0 .. Len(file) /\ iPacketLen' \in 0 .. read'
    BY <1>0, <2>1, <2>2 DEF TypeInv
  <2> QED
    BY <2>1, <2>2, <2>3 DEF TypeInv
<1>4. CASE GetEof
  BY <1>4 DEF GetEof, TypeInv
<1>5. CASE GetWait
  BY <1>5 DEF GetWait, TypeInv
<1>6. CASE GetFill
  <2>1. gpc' = "pause" /\ UNCHANGED << file, bPAT_PID, bPMT_PID, senderVars, clientVars >>
    BY <1>6 DEF GetFill
  <2> QED
    BY <1>6, <2>1, FillType DEF TypeInv
<1>7. CASE SendPause
  BY <1>7 DEF SendPause, TypeInv
<1>8. CASE SendStop
  BY <1>8 DEF SendStop, TypeInv
<1>9. CASE SendTake
  <2>1. UNCHANGED << file, frame, readerVars, wire, clientVars >>
    BY <1>9 DEF SendTake
  <2> QED
    BY <1>9, <2>1, TakeType DEF TypeInv
<1>10. CASE SendNothing
  BY <1>10 DEF SendNothing, TypeInv
<1>11. CASE SendDatagram
  <2>1. UNCHANGED << file, poolVars, readerVars, clientVars >>
    BY <1>11 DEF SendDatagram
  <2>2. spc' \in {"pause", "send"} /\ (spc' = "send" => ~Empty(SendPesPacket'))
    <3>1. wire' # Last(SendPesPacket) => ~(wire' + 1 > Last(SendPesPacket))
      BY <1>0, <1>11, DatagramType
    <3> QED
      BY <1>11, <3>1, DatagramType DEF Empty
  <2> QED
    BY <1>11, <2>1, <2>2, DatagramType DEF TypeInv
<1>12. CASE streampause
  BY <1>12 DEF streampause, TypeInv
<1>13. CASE streamresume
  BY <1>13 DEF streamresume, TypeInv
<1>14. CASE streamstop
  BY <1>14 DEF streamstop, TypeInv
<1>15. CASE StopLoop
  <2>1. cpc' \in {"stopping", "deleted"} /\ m_bStop' \in BOOLEAN
    BY <1>15 DEF StopLoop, TypeInv
  <2>2. UNCHANGED << file, poolVars, readerVars, senderVars, m_bPause >>
    BY <1>15 DEF StopLoop
  <2> QED
    BY <2>1, <2>2 DEF TypeInv
<1>16. CASE disconnect
  BY <1>16 DEF disconnect, TypeInv
<1>17. CASE ClearLoop
  <2>1. cpc' \in {"clearing", "cleared"} /\ m_bStop' \in BOOLEAN
    BY <1>17 DEF ClearLoop, TypeInv
  <2>2. UNCHANGED << file, poolVars, readerVars, senderVars, m_bPause >>
    BY <1>17 DEF ClearLoop
  <2> QED
    BY <2>1, <2>2 DEF TypeInv
<1>18. CASE UNCHANGED vars
  BY <1>18 DEF vars, TypeInv
<1> QED
  BY <1>1, <1>2, <1>3, <1>4, <1>5, <1>6, <1>7, <1>8, <1>9, <1>10, <1>11,
     <1>12, <1>13, <1>14, <1>15, <1>16, <1>17, <1>18
     DEF Next, Reader, Sender, Client, Ended

\* The stream's state has its type in every reachable state: in particular no
\* frame reaches behind the file and no datagram behind its frame.
THEOREM SendMediaTypeCorrect == Spec => []TypeInv
<1>1. Init => TypeIInv
  BY TypeInit
<1>2. TypeIInv /\ [Next]_vars => TypeIInv'
  BY TypeStep
<1>3. TypeIInv => TypeInv
  BY DEF TypeIInv
<1> QED
  BY <1>1, <1>2, <1>3, PTL DEF Spec

-------------------------------------------------------------------------------
(***************************************************************************)
(* Conservation.  Put behind each other, the two queues change in one way   *)
(* only: the reader rotates them by one buffer, the sender does not change  *)
(* them at all.                                                            *)
(***************************************************************************)

LEMMA FillRotates ==
  ASSUME TypeIInv, GetFill
  PROVE  /\ Len(Pool') = Len(Pool) /\ Len(Pool) > 0
         /\ \A i \in 1 .. Len(Pool) :
              Pool'[i] = IF i < Len(Pool) THEN Pool[i + 1] ELSE Pool[1]
<1> DEFINE s == m_dequeFreeBuff
           t == m_dequeUseBuff
           n == Len(s)
           m == Len(t)
<1>1. s \in Seq(Buffers) /\ t \in Seq(Buffers) /\ s # << >> /\ n \in Nat \ {0} /\ m \in Nat
  BY DEF TypeIInv, TypeInv, GetFill
<1>2. m_dequeFreeBuff' = Tail(s) /\ m_dequeUseBuff' = Append(t, Head(s))
  BY DEF GetFill
<1>3. /\ Tail(s) \in Seq(Buffers) /\ Len(Tail(s)) = n - 1
      /\ \A i \in 1 .. n - 1 : Tail(s)[i] = s[i + 1]
  BY <1>1
<1>4. /\ Append(t, Head(s)) \in Seq(Buffers) /\ Len(Append(t, Head(s))) = m + 1
      /\ \A i \in 1 .. m : Append(t, Head(s))[i] = t[i]
      /\ Append(t, Head(s))[m + 1] = s[1]
  BY <1>1
<1>5. /\ Len(Pool) = n + m
      /\ \A i \in 1 .. n + m : Pool[i] = IF i <= n THEN s[i] ELSE t[i - n]
  BY <1>1 DEF Pool
<1>6. /\ Len(Pool') = n + m
      /\ \A i \in 1 .. n + m :
           Pool'[i] = IF i <= n - 1 THEN Tail(s)[i] ELSE Append(t, Head(s))[i - (n - 1)]
  BY <1>1, <1>2, <1>3, <1>4 DEF Pool
<1> HIDE DEF s, t, n, m
<1>7. ASSUME NEW i \in 1 .. n + m
      PROVE  Pool'[i] = IF i < n + m THEN Pool[i + 1] ELSE Pool[1]
  <2>1. CASE i <= n - 1
    BY <1>1, <1>3, <1>5, <1>6, <2>1
  <2>2. CASE i >= n /\ i < n + m
    <3>1. /\ ~(i <= n - 1) /\ ~(i + 1 <= n) /\ i + 1 \in 1 .. n + m
          /\ i - (n - 1) \in 1 .. m /\ i + 1 - n = i - (n - 1)
      BY <1>1, <2>2
    <3>2. Pool'[i] = Append(t, Head(s))[i - (n - 1)]
      BY <1>6, <3>1
    <3>3. Pool[i + 1] = t[i - (n - 1)]
      <4>1. Pool[i + 1] = t[i + 1 - n]
        BY <1>1, <1>5, <3>1
      <4> QED
        BY <3>1, <4>1
    <3>4. Append(t, Head(s))[i - (n - 1)] = t[i - (n - 1)]
      BY <1>4, <3>1
    <3> QED
      BY <2>2, <3>2, <3>3, <3>4
  <2>3. CASE i = n + m
    <3>1. i - (n - 1) = m + 1 /\ ~(i <= n - 1) /\ ~(i < n + m) /\ 1 \in 1 .. n + m /\ 1 <= n
      BY <1>1, <2>3
    <3>2. Pool'[i] = s[1]
      BY <1>4, <1>6, <3>1
    <3>3. Pool[1] = s[1]
      BY <1>5, <3>1
    <3> QED
      BY <3>1, <3>2, <3>3
  <2> QED
    BY <1>1, <2>1, <2>2, <2>3
<1>8. Len(Pool') = Len(Pool) /\ Len(Pool) > 0
  BY <1>1, <1>5, <1>6
<1>9. n + m = Len(Pool)
  BY <1>5
<1> QED
  BY <1>7, <1>8, <1>9

LEMMA TakeKeeps ==
  ASSUME TypeIInv, SendTake
  PROVE  Pool' = Pool
<1> DEFINE s == m_dequeFreeBuff
           t == m_dequeUseBuff
<1>1. s \in Seq(Buffers) /\ t \in Seq(Buffers) /\ t # << >>
  BY DEF TypeIInv, TypeInv, SendTake
<1>2. m_dequeUseBuff' = Tail(t) /\ m_dequeFreeBuff' = Append(s, Head(t))
  BY DEF SendTake
<1>3. Append(s, Head(t)) \o Tail(t) = s \o t
  BY <1>1
<1> QED
  BY <1>2, <1>3 DEF Pool

LEMMA ConservedInit == Init => BuffersConserved
<1> SUFFICES ASSUME Init PROVE BuffersConserved
  OBVIOUS
<1> DEFINE id == [ i \in 1 .. BUFFNUM |-> i ]
<1>1. id \in Seq(Nat) /\ Len(id) = BUFFNUM /\ \A i \in 1 .. BUFFNUM : id[i] = i
  OBVIOUS
<1>2. m_dequeFreeBuff = id /\ m_dequeUseBuff = << >>
  BY DEF Init, Buffers
<1> HIDE DEF id
<1>3. Pool = id
  BY <1>1, <1>2 DEF Pool
<1> QED
  BY <1>1, <1>3 DEF BuffersConserved

LEMMA ConservedStep == TypeIInv /\ BuffersConserved /\ [Next]_vars => BuffersConserved'
<1> SUFFICES ASSUME TypeIInv, BuffersConserved, [Next]_vars PROVE BuffersConserved'
  OBVIOUS
<1>1. CASE GetFill
  <2>1. Len(Pool') = Len(Pool) /\ Len(Pool) = BUFFNUM
    BY <1>1, FillRotates DEF BuffersConserved
  <2>2. ASSUME NEW i \in 1 .. BUFFNUM, NEW j \in 1 .. BUFFNUM, Pool'[i] = Pool'[j]
        PROVE  i = j
    <3> DEFINE nxt(k) == IF k < BUFFNUM THEN k + 1 ELSE 1
    <3>1. Pool'[i] = Pool[nxt(i)] /\ Pool'[j] = Pool[nxt(j)]
      BY <1>1, <2>1, FillRotates
    <3>2. nxt(i) \in 1 .. BUFFNUM /\ nxt(j) \in 1 .. BUFFNUM
      OBVIOUS
    <3>3. nxt(i) = nxt(j)
      BY <2>1, <2>2, <3>1, <3>2 DEF BuffersConserved
    <3> QED
      BY <3>3
  <2> QED
    BY <2>1, <2>2 DEF BuffersConserved
<1>2. CASE SendTake
  BY <1>2, TakeKeeps DEF BuffersConserved
<1>3. CASE UNCHANGED << m_dequeFreeBuff, m_dequeUseBuff >>
  BY <1>3 DEF BuffersConserved, Pool
<1> QED
  BY <1>1, <1>2, <1>3
     DEF Next, Reader, Sender, Client, Ended, vars, poolVars,
         GetPause, GetStop, GetPacket, GetEof, GetWait, SendPause, SendStop, SendNothing,
         SendDatagram, streampause, streamresume, streamstop, StopLoop, disconnect, ClearLoop

\* However the two threads interleave, the pool never loses a buffer and never
\* holds one twice: no frame is overwritten while it waits to be sent.
THEOREM PoolIsConserved == Spec => []BuffersConserved
<1>1. Init => TypeIInv /\ BuffersConserved
  BY TypeInit, ConservedInit
<1>2. (TypeIInv /\ BuffersConserved) /\ [Next]_vars => (TypeIInv /\ BuffersConserved)'
  BY TypeStep, ConservedStep
<1> QED
  BY <1>1, <1>2, PTL DEF Spec

-------------------------------------------------------------------------------
(***************************************************************************)
(* The unlocked test.                                                      *)
(***************************************************************************)

\* What the reader saw of the free queue without the lock still holds when it
\* has the lock: it is the only one that takes from that queue.
THEOREM CheckedBufferStays == Spec => []CheckedFreeStays
<1>1. Init => TypeIInv /\ CheckedFreeStays
  BY TypeInit DEF Init, CheckedFreeStays
<1>2. TypeIInv /\ CheckedFreeStays /\ [Next]_vars => CheckedFreeStays'
  <2> SUFFICES ASSUME TypeIInv, CheckedFreeStays, [Next]_vars PROVE CheckedFreeStays'
    OBVIOUS
  <2>1. CASE SendTake
    <3>1. m_dequeFreeBuff \in Seq(Buffers) /\ m_dequeFreeBuff' = Append(m_dequeFreeBuff, Head(m_dequeUseBuff))
      BY <2>1 DEF SendTake, TypeIInv, TypeInv
    <3>2. m_dequeFreeBuff' # << >>
      BY <3>1
    <3> QED
      BY <3>2 DEF CheckedFreeStays
  <2>2. CASE GetWait
    BY <2>2 DEF GetWait, CheckedFreeStays, poolVars
  <2>3. CASE gpc' # "fill"
    BY <2>3 DEF CheckedFreeStays
  <2>4. CASE UNCHANGED << gpc, m_dequeFreeBuff >>
    BY <2>4 DEF CheckedFreeStays
  <2> QED
    BY <2>1, <2>2, <2>3, <2>4
       DEF Next, Reader, Sender, Client, Ended, vars, poolVars, readerVars,
           GetPause, GetStop, GetPacket, GetEof, GetFill, SendPause, SendStop, SendNothing,
           SendDatagram, streampause, streamresume, streamstop, StopLoop, disconnect, ClearLoop
<1>3. TypeIInv /\ [Next]_vars => TypeIInv'
  BY TypeStep
<1> QED
  BY <1>1, <1>2, <1>3, PTL DEF Spec

-------------------------------------------------------------------------------
(***************************************************************************)
(* Refinement.  The frame on its way out, the frames in the use queue and   *)
(* PESPack continue each other without a gap, each ends where the next      *)
(* frame of the file begins, and none has such a place inside.             *)
(***************************************************************************)

NoStart(a, b) == \A s \in Starts : s <= a \/ s > b

WholeFrame(f) == First(f) <= Last(f) /\ Last(f) + 1 \in Starts /\ NoStart(First(f), Last(f))

taken == IF spc = "send" THEN Last(SendPesPacket) ELSE wire

\* First packet of the i-th frame of the use queue, and at its end of PESPack.
FirstOf(i) == IF i <= Len(m_dequeUseBuff) THEN First(frame[m_dequeUseBuff[i]]) ELSE queued + 1

TablesInv ==
  /\ bPAT_PID <=> \E a \in 1 .. read : file[a] = "pat"
  /\ bPMT_PID <=> \E p \in 1 .. read : file[p] = "pmt" /\ \E a \in 1 .. p - 1 : file[a] = "pat"

ReaderInv ==
  /\ gpc \in {"wait", "fill"} => read + 1 \in Starts
  /\ NoStart(queued + 1, read)
  /\ iPacketLen = 0 => read = 0

QueueInv ==
  /\ FirstOf(1) = taken + 1
  /\ \A i \in 1 .. Len(m_dequeUseBuff) :
       /\ WholeFrame(frame[m_dequeUseBuff[i]])
       /\ Last(frame[m_dequeUseBuff[i]]) + 1 = FirstOf(i + 1)

SenderInv ==
  spc = "send" =>
    /\ First(SendPesPacket) = wire + 1
    /\ Last(SendPesPacket) + 1 \in Starts
    /\ NoStart(wire + 1, Last(SendPesPacket))

WireInv == TablesInv /\ ReaderInv /\ QueueInv /\ SenderInv

LEMMA WireInit == Init => WireInv
<1> SUFFICES ASSUME Init PROVE WireInv
  OBVIOUS
<1>1. /\ read = 0 /\ iPacketLen = 0 /\ wire = 0 /\ spc = "pause" /\ gpc = "pause"
      /\ m_dequeUseBuff = << >> /\ ~bPAT_PID /\ ~bPMT_PID
  BY DEF Init
<1>2. Starts \subseteq Nat
  BY DEF Starts
<1>3. QueueInv
  BY <1>1 DEF QueueInv, FirstOf, taken, queued
<1>4. ReaderInv
  BY <1>1, <1>2 DEF ReaderInv, NoStart, queued
<1>5. TablesInv
  BY <1>1 DEF TablesInv
<1>6. SenderInv
  BY <1>1 DEF SenderInv
<1> QED
  BY <1>3, <1>4, <1>5, <1>6 DEF WireInv

LEMMA FrameInts ==
  ASSUME TypeIInv
  PROVE  /\ \A b \in Buffers : First(frame[b]) \in Int /\ Last(frame[b]) \in Int
         /\ First(SendPesPacket) \in Int /\ Last(SendPesPacket) \in Int
         /\ Starts \subseteq 1 .. Len(file) /\ Len(file) \in Nat
         /\ queued \in Nat /\ read \in Nat /\ wire \in Nat /\ iPacketLen \in Nat
         /\ m_dequeUseBuff \in Seq(Buffers) /\ m_dequeFreeBuff \in Seq(Buffers)
<1>1. Len(file) \in Nat /\ frame \in [ Buffers -> FrameSet ] /\ SendPesPacket \in FrameSet
  BY DEF TypeIInv, TypeInv
<1>2. \A f \in FrameSet : First(f) \in Int /\ Last(f) \in Int
  BY <1>1 DEF FrameSet, First, Last
<1>3. queued \in Nat /\ read \in Nat /\ wire \in Nat /\ iPacketLen \in Nat
  BY <1>1 DEF TypeIInv, TypeInv, queued
<1> QED
  BY <1>1, <1>2, <1>3 DEF Starts, TypeIInv, TypeInv

\* Steps that touch none of what WireInv speaks of but the labels.
LEMMA WireUntouched ==
  ASSUME WireInv,
         UNCHANGED << file, poolVars, read, iPacketLen, bPAT_PID, bPMT_PID, SendPesPacket, wire >>,
         gpc' \in {"wait", "fill"} => gpc \in {"wait", "fill"},
         spc' = "send" <=> spc = "send"
  PROVE  WireInv'
<1>1. Starts' = Starts /\ queued' = queued
  BY DEF Starts, queued
<1>2. TablesInv'
  BY DEF WireInv, TablesInv
<1>3. ReaderInv'
  BY <1>1 DEF WireInv, ReaderInv, NoStart
<1>4. QueueInv'
  BY <1>1 DEF WireInv, QueueInv, WholeFrame, NoStart, FirstOf, taken, poolVars
<1>5. SenderInv'
  BY <1>1 DEF WireInv, SenderInv, NoStart
<1> QED
  BY <1>2, <1>3, <1>4, <1>5 DEF WireInv

LEMMA WirePacket ==
  ASSUME TypeIInv, WireInv, GetPacket
  PROVE  WireInv'
<1>1. /\ gpc = "read" /\ read < Len(file) /\ Starts' = Starts /\ file' = file
      /\ UNCHANGED << poolVars, SendPesPacket, wire, spc >>
  BY DEF GetPacket, Starts, senderVars
<1>2. /\ read \in Nat /\ iPacketLen \in Nat /\ Len(file) \in Nat /\ Starts \subseteq 1 .. Len(file)
      /\ queued \in Nat
  BY FrameInts
<1>3. bPMT_PID /\ file[read + 1] = "start" <=> read + 1 \in Starts
  BY <1>1, <1>2 DEF WireInv, TablesInv, Starts
<1>4. \/ read + 1 \in Starts /\ gpc' = "wait" /\ read' = read /\ iPacketLen' = iPacketLen
      \/ read + 1 \notin Starts /\ gpc' = "pause" /\ read' = read + 1 /\ iPacketLen' = iPacketLen + 1
  BY <1>3 DEF GetPacket, StartsFrame
<1>5. queued' = queued
  BY <1>2, <1>4 DEF queued
<1>6. TablesInv'
  <2>1. /\ bPAT_PID' <=> (bPAT_PID \/ file[read + 1] = "pat")
        /\ bPMT_PID' <=> (bPMT_PID \/ (bPAT_PID /\ file[read + 1] = "pmt"))
    BY DEF GetPacket
  <2>2. TablesInv
    BY DEF WireInv
  <2>3. CASE read' = read /\ read + 1 \in Starts
    <3>1. file[read + 1] = "start"
      BY <1>3, <2>3
    <3> QED
      BY <1>1, <2>1, <2>2, <2>3, <3>1 DEF TablesInv
  <2>4. CASE read' = read + 1
    <3>1. \A P : (P \in 1 .. read + 1) <=> (P \in 1 .. read \/ P = read + 1)
      BY <1>2
    <3> QED
      BY <1>1, <2>1, <2>2, <2>4, <3>1 DEF TablesInv
  <2> QED
    BY <1>4, <2>3, <2>4
<1>7. ReaderInv'
  <2>1. ReaderInv
    BY DEF WireInv
  <2>2. CASE read + 1 \in Starts /\ gpc' = "wait" /\ read' = read /\ iPacketLen' = iPacketLen
    BY <1>1, <1>5, <2>1, <2>2 DEF ReaderInv, NoStart
  <2>3. CASE read + 1 \notin Starts /\ gpc' = "pause" /\ read' = read + 1 /\ iPacketLen' = iPacketLen + 1
    <3>1. \A s \in Starts : s <= queued + 1 \/ s > read + 1
      BY <1>2, <2>1, <2>3 DEF ReaderInv, NoStart
    <3>2. iPacketLen' # 0
      BY <1>2, <2>3
    <3> QED
      BY <1>1, <1>5, <2>3, <3>1, <3>2 DEF ReaderInv, NoStart
  <2> QED
    BY <1>4, <2>2, <2>3
<1>8. QueueInv' /\ SenderInv'
  BY <1>1, <1>5 DEF WireInv, QueueInv, SenderInv, WholeFrame, NoStart, FirstOf, taken, poolVars
<1> QED
  BY <1>6, <1>7, <1>8 DEF WireInv

LEMMA WireFill ==
  ASSUME TypeIInv, BuffersConserved, WireInv, GetFill
  PROVE  WireInv'
<1> DEFINE s == m_dequeFreeBuff
           t == m_dequeUseBuff
           h == Head(s)
           m == Len(t)
           F(i) == IF i <= Len(t') THEN First(frame'[t'[i]]) ELSE queued' + 1
<1>1. /\ gpc = "fill" /\ s # << >> /\ t' = Append(t, h) /\ read' = read + 1 /\ iPacketLen' = 1
      /\ frame' = [ frame EXCEPT ![h] = << queued + 1, read >> ] /\ gpc' = "pause"
      /\ Starts' = Starts /\ UNCHANGED << file, bPAT_PID, bPMT_PID, SendPesPacket, wire, spc >>
  BY DEF GetFill, Frame, Starts, senderVars
<1>2. /\ read \in Nat /\ iPacketLen \in Nat /\ wire \in Nat /\ Len(file) \in Nat
      /\ Starts \subseteq 1 .. Len(file) /\ queued \in Nat /\ queued = read - iPacketLen
      /\ s \in Seq(Buffers) /\ t \in Seq(Buffers) /\ m \in Nat
  BY FrameInts DEF queued
<1>3. read + 1 \in Starts
  BY <1>1 DEF WireInv, ReaderInv
<1>4. queued' = read
  BY <1>1, <1>2 DEF queued
<1>5. file[read + 1] = "start" /\ read >= 1 /\ iPacketLen # 0
  <2>0. \E p \in 1 .. (read + 1) - 1 : file[p] = "pmt" /\ \E a \in 1 .. p - 1 : file[a] = "pat"
    BY <1>3 DEF Starts
  <2>1. PICK p \in 1 .. (read + 1) - 1 : file[p] = "pmt"
    BY <2>0
  <2>2. read >= 1
    BY <1>2, <2>1
  <2>3. file[read + 1] = "start"
    BY <1>3 DEF Starts
  <2> QED
    BY <1>2, <2>2, <2>3 DEF WireInv, ReaderInv
<1>6. \A i \in 1 .. m : t[i] \in Buffers /\ t[i] # h
  <2> SUFFICES ASSUME NEW i \in 1 .. m PROVE t[i] \in Buffers /\ t[i] # h
    OBVIOUS
  <2>1. Len(s) \in Nat \ {0} /\ Len(s) + i \in 1 .. Len(s) + m /\ 1 \in 1 .. Len(s) + m /\ Len(s) + i # 1
    BY <1>1, <1>2
  <2>2. Len(Pool) = Len(s) + m /\ Pool[Len(s) + i] = t[i] /\ Pool[1] = h
    BY <1>1, <1>2, <2>1 DEF Pool
  <2> QED
    BY <1>2, <2>1, <2>2 DEF BuffersConserved
<1>7. /\ Len(t') = m + 1 /\ t'[m + 1] = h /\ \A i \in 1 .. m : t'[i] = t[i]
      /\ h \in Buffers
  BY <1>1, <1>2
<1>8. /\ frame'[h] = << queued + 1, read >>
      /\ \A i \in 1 .. m : frame'[t'[i]] = frame[t[i]]
  BY <1>1, <1>6, <1>7 DEF TypeIInv, TypeInv
<1> HIDE DEF s, t, h, m
<1>9. First(frame'[h]) = queued + 1 /\ Last(frame'[h]) = read
  BY <1>8 DEF First, Last
<1>10. /\ \A i \in 1 .. m + 1 : F(i) = FirstOf(i)
       /\ F(m + 2) = read + 1
  <2>1. FirstOf(m + 1) = queued + 1
    BY <1>2 DEF FirstOf, t, m
  <2>2. F(m + 1) = queued + 1
    BY <1>2, <1>7, <1>9
  <2>3. ASSUME NEW i \in 1 .. m PROVE F(i) = FirstOf(i)
    <3>1. i <= Len(t) /\ i <= Len(t')
      BY <1>2, <1>7 DEF m
    <3>2. FirstOf(i) = First(frame[t[i]]) /\ F(i) = First(frame'[t'[i]])
      BY <3>1 DEF FirstOf, t
    <3> QED
      BY <1>8, <3>2
  <2>4. F(m + 2) = read + 1
    BY <1>2, <1>4, <1>7
  <2>5. \A i \in 1 .. m + 1 : i \in 1 .. m \/ i = m + 1
    BY <1>2
  <2> HIDE DEF F
  <2> QED
    BY <2>1, <2>2, <2>3, <2>4, <2>5
<1>11. TablesInv'
  <2>1. \A P : (P \in 1 .. read + 1) <=> (P \in 1 .. read \/ P = read + 1)
    BY <1>2
  <2> QED
    BY <1>1, <1>5, <2>1 DEF WireInv, TablesInv
<1>12. ReaderInv'
  BY <1>1, <1>2, <1>4 DEF ReaderInv, NoStart
<1>13. SenderInv'
  BY <1>1 DEF WireInv, SenderInv, NoStart
<1> HIDE DEF F
<1>14. QueueInv'
  <2>1. F(1) = taken' + 1
    <3>1. taken' = taken /\ F(1) = FirstOf(1)
      BY <1>1, <1>2, <1>10 DEF taken
    <3> QED
      BY <3>1 DEF WireInv, QueueInv
  <2>2. ASSUME NEW i \in 1 .. m
        PROVE  WholeFrame(frame'[t'[i]]) /\ Last(frame'[t'[i]]) + 1 = F(i + 1)
    <3>1. WholeFrame(frame[t[i]]) /\ Last(frame[t[i]]) + 1 = FirstOf(i + 1)
      BY DEF WireInv, QueueInv, t, m
    <3>2. frame'[t'[i]] = frame[t[i]] /\ F(i + 1) = FirstOf(i + 1)
      BY <1>2, <1>8, <1>10
    <3> QED
      BY <3>1, <3>2
  <2>3. WholeFrame(frame'[h]) /\ Last(frame'[h]) + 1 = F(m + 2)
    <3>1. queued + 1 <= read
      BY <1>2, <1>5
    <3>2. NoStart(queued + 1, read)
      BY DEF WireInv, ReaderInv
    <3> QED
      BY <1>3, <1>9, <1>10, <3>1, <3>2 DEF WholeFrame
  <2>4. ASSUME NEW i \in 1 .. m + 1
        PROVE  WholeFrame(frame'[t'[i]]) /\ Last(frame'[t'[i]]) + 1 = F(i + 1)
    <3>1. CASE i \in 1 .. m
      BY <2>2, <3>1
    <3>2. CASE i = m + 1
      <4>1. t'[i] = h /\ i + 1 = m + 2
        BY <1>2, <1>7, <3>2
      <4> QED
        BY <2>3, <4>1
    <3> QED
      BY <1>2, <3>1, <3>2
  <2>5. FirstOf(1)' = F(1) /\ \A i \in 1 .. m + 1 : FirstOf(i + 1)' = F(i + 1)
    BY DEF FirstOf, F, t
  <2>6. m_dequeUseBuff' = t' /\ Len(m_dequeUseBuff') = m + 1
    BY <1>7 DEF t
  <2>7. ASSUME NEW i \in 1 .. Len(m_dequeUseBuff')
        PROVE  /\ WholeFrame(frame[m_dequeUseBuff[i]])'
               /\ Last(frame[m_dequeUseBuff[i]])' + 1 = FirstOf(i + 1)'
    <3>1. i \in 1 .. m + 1 /\ frame'[m_dequeUseBuff'[i]] = frame'[t'[i]]
      BY <2>6
    <3>2. WholeFrame(frame'[m_dequeUseBuff'[i]])
      BY <2>4, <3>1
    <3>3. WholeFrame(frame[m_dequeUseBuff[i]])'
      BY <1>1, <3>2 DEF WholeFrame, NoStart
    <3>4. Last(frame[m_dequeUseBuff[i]])' + 1 = FirstOf(i + 1)'
      BY <2>4, <2>5, <3>1
    <3> QED
      BY <3>3, <3>4
  <2>8. FirstOf(1)' = taken' + 1
    BY <2>1, <2>5
  <2> QED
    BY <2>7, <2>8 DEF QueueInv
<1> QED
  BY <1>11, <1>12, <1>13, <1>14 DEF WireInv

LEMMA WireTake ==
  ASSUME TypeIInv, WireInv, SendTake
  PROVE  WireInv'
<1> DEFINE t == m_dequeUseBuff
           n == Len(t)
<1>1. /\ spc = "take" /\ t # << >> /\ t' = Tail(t) /\ Starts' = Starts /\ queued' = queued
      /\ UNCHANGED << file, frame, gpc, read, iPacketLen, bPAT_PID, bPMT_PID, wire >>
  BY DEF SendTake, Starts, queued, readerVars
<1>2. t \in Seq(Buffers) /\ n \in Nat \ {0} /\ t[1] \in Buffers /\ Head(t) = t[1]
  BY <1>1, FrameInts
<1>3. Len(t') = n - 1 /\ \A i \in 1 .. n - 1 : t'[i] = t[i + 1]
  BY <1>1, <1>2
<1>4. SendPesPacket' = frame[t[1]] /\ spc' \in {"pause", "send"}
      /\ (spc' = "send" <=> ~Empty(frame[t[1]]))
  BY <1>2 DEF SendTake
<1>5. /\ WholeFrame(frame[t[1]]) /\ Last(frame[t[1]]) + 1 = FirstOf(2)
      /\ First(frame[t[1]]) = wire + 1
  <2>1. FirstOf(1) = First(frame[t[1]]) /\ taken = wire
    BY <1>1, <1>2 DEF FirstOf, taken
  <2>2. 1 \in 1 .. Len(m_dequeUseBuff) /\ 1 + 1 = 2
    BY <1>2
  <2> QED
    BY <2>1, <2>2 DEF WireInv, QueueInv
<1>6. spc' = "send" /\ taken' = Last(frame[t[1]])
  <2>1. First(frame[t[1]]) \in Int /\ Last(frame[t[1]]) \in Int
    BY <1>2, FrameInts
  <2> QED
    BY <1>4, <1>5, <2>1 DEF WholeFrame, Empty, taken
<1>7. \A i \in 1 .. n : FirstOf(i)' = FirstOf(i + 1)
  <2> SUFFICES ASSUME NEW i \in 1 .. n PROVE FirstOf(i)' = FirstOf(i + 1)
    OBVIOUS
  <2>1. CASE i <= n - 1
    BY <1>1, <1>2, <1>3, <2>1 DEF FirstOf
  <2>2. CASE i = n
    BY <1>1, <1>2, <1>3, <2>2 DEF FirstOf
  <2> QED
    BY <1>2, <2>1, <2>2
<1>8. QueueInv'
  <2>1. FirstOf(1)' = taken' + 1
    BY <1>2, <1>5, <1>6, <1>7
  <2>2. ASSUME NEW i \in 1 .. Len(m_dequeUseBuff')
        PROVE  /\ WholeFrame(frame[m_dequeUseBuff[i]])'
               /\ Last(frame[m_dequeUseBuff[i]])' + 1 = FirstOf(i + 1)'
    <3>1. i \in 1 .. n /\ i + 1 \in 1 .. n /\ t'[i] = t[i + 1]
      BY <1>2, <1>3
    <3>2. WholeFrame(frame[t[i + 1]]) /\ Last(frame[t[i + 1]]) + 1 = FirstOf((i + 1) + 1)
      BY <3>1 DEF WireInv, QueueInv
    <3>3. FirstOf(i + 1)' = FirstOf((i + 1) + 1)
      BY <1>7, <3>1
    <3>4. frame'[m_dequeUseBuff'[i]] = frame[t[i + 1]]
      BY <1>1, <3>1
    <3> QED
      BY <1>1, <3>2, <3>3, <3>4 DEF WholeFrame, NoStart
  <2> QED
    BY <2>1, <2>2 DEF QueueInv
<1>9. SenderInv'
  BY <1>1, <1>4, <1>5 DEF SenderInv, WholeFrame, NoStart
<1>10. TablesInv' /\ ReaderInv'
  BY <1>1 DEF WireInv, TablesInv, ReaderInv, NoStart
<1> QED
  BY <1>8, <1>9, <1>10 DEF WireInv

LEMMA WireDatagram ==
  ASSUME TypeIInv, WireInv, SendDatagram
  PROVE  WireInv' /\ Wire!Datagram
<1> DEFINE last == Last(SendPesPacket)
<1>1. /\ spc = "send" /\ Starts' = Starts /\ queued' = queued
      /\ UNCHANGED << file, poolVars, gpc, read, iPacketLen, bPAT_PID, bPMT_PID >>
  BY DEF SendDatagram, Starts, queued, readerVars
<1>2. First(SendPesPacket) = wire + 1 /\ last + 1 \in Starts /\ NoStart(wire + 1, last)
  BY <1>1 DEF WireInv, SenderInv
<1>3. /\ wire \in Nat /\ last \in Int /\ Starts \subseteq 1 .. Len(file) /\ Len(file) \in Nat
      /\ wire + 1 <= last
  <2>1. wire \in Nat /\ last \in Int /\ Starts \subseteq 1 .. Len(file) /\ Len(file) \in Nat
    BY FrameInts
  <2> QED
    BY <1>1, <1>2, <2>1 DEF TypeIInv, Empty
<1>4. /\ wire' = IF wire + Chunk < last THEN wire + Chunk ELSE last
      /\ spc' = IF wire' = last THEN "pause" ELSE "send"
      /\ First(SendPesPacket') = wire' + 1 /\ Last(SendPesPacket') = last
  <2>1. First(SendPesPacket) - 1 + Chunk = wire + Chunk
    BY <1>2, <1>3
  <2>2. /\ First(SendPesPacket') = wire' + 1 /\ Last(SendPesPacket') = Last(SendPesPacket)
        /\ wire' = IF First(SendPesPacket) - 1 + Chunk < Last(SendPesPacket)
                   THEN First(SendPesPacket) - 1 + Chunk ELSE Last(SendPesPacket)
        /\ spc' = IF wire' = Last(SendPesPacket) THEN "pause" ELSE "send"
    BY DatagramType
  <2> QED
    BY <2>1, <2>2
<1> HIDE DEF last
<1>5. taken' = taken
  BY <1>1, <1>4 DEF taken, last
<1>6. QueueInv'
  BY <1>1, <1>5 DEF WireInv, QueueInv, WholeFrame, NoStart, FirstOf, poolVars
<1>7. SenderInv'
  <2>1. NoStart(wire' + 1, last)
    BY <1>2, <1>3, <1>4 DEF NoStart
  <2> QED
    BY <1>1, <1>2, <1>4, <2>1 DEF SenderInv, NoStart
<1>8. TablesInv' /\ ReaderInv'
  BY <1>1 DEF WireInv, TablesInv, ReaderInv, NoStart
<1>9. Wire!Datagram
  <2>1. \A s \in Starts : s <= wire + 1 \/ last + 1 <= s
    BY <1>2, <1>3 DEF NoStart
  <2>2. last + 1 > wire + 1
    BY <1>3
  <2>3. ASSUME NEW f \in Starts, f = last + 1 PROVE Wire!Datagram
    <3>1. Wire!NextFrame(f)
      BY <2>1, <2>2, <2>3 DEF Wire!NextFrame
    <3>2. wire' = IF wire + Chunk < f THEN wire + Chunk ELSE f - 1
      BY <1>3, <1>4, <2>3
    <3> QED
      BY <1>1, <3>1, <3>2, Zenon DEF Wire!Datagram
  <2> QED
    BY <1>2, <2>3
<1> QED
  BY <1>6, <1>7, <1>8, <1>9 DEF WireInv

LEMMA WireStep ==
  ASSUME TypeIInv, BuffersConserved, WireInv, [Next]_vars
  PROVE  WireInv' /\ [Wire!Datagram]_<< Starts, wire >>
<1>1. CASE GetPacket
  BY <1>1, WirePacket DEF GetPacket, Starts, senderVars
<1>2. CASE GetFill
  BY <1>2, WireFill DEF GetFill, Starts, senderVars
<1>3. CASE SendTake
  BY <1>3, WireTake DEF SendTake, Starts
<1>4. CASE SendDatagram
  BY <1>4, WireDatagram
<1>5. CASE GetPause \/ GetStop \/ GetEof \/ GetWait
  BY <1>5, WireUntouched DEF GetPause, GetStop, GetEof, GetWait, senderVars, Starts
<1>6. CASE SendPause \/ SendStop \/ SendNothing
  BY <1>6, WireUntouched DEF SendPause, SendStop, SendNothing, readerVars, Starts
<1>7. CASE Client
  BY <1>7, WireUntouched
     DEF Client, streampause, streamresume, streamstop, StopLoop, disconnect, ClearLoop, readerVars, senderVars, Starts
<1>8. CASE UNCHANGED vars
  BY <1>8, WireUntouched DEF vars, readerVars, senderVars, Starts
<1> QED
  BY <1>1, <1>2, <1>3, <1>4, <1>5, <1>6, <1>7, <1>8 DEF Next, Reader, Sender, Ended

\* The stream implements its promise: for every file, every number of buffers
\* and every interleaving of the reader and the sender, the datagrams carry the
\* packets in the order of the file, each once, frame by frame.
THEOREM FramesGoOutInOrder == Spec => WireSpec
<1> DEFINE IInv == TypeIInv /\ BuffersConserved /\ WireInv
<1>1. Init => IInv
  BY TypeInit, ConservedInit, WireInit
<1>2. IInv /\ [Next]_vars => IInv' /\ [Wire!Datagram]_<< Starts, wire >>
  BY TypeStep, ConservedStep, WireStep
<1>3. Init => Wire!Init
  BY DEF Init, Wire!Init, Starts
<1> HIDE DEF IInv
<1> QED
  BY <1>1, <1>2, <1>3, PTL DEF Spec, WireSpec, Wire!Spec

===============================================================================
