--------------------------- MODULE DelayBufferProofs ---------------------------
(***************************************************************************)
(* Theorems about the buffer of the delay meter for every size of the      *)
(* buffer, length of a packet and set of datagram lengths.                 *)
(***************************************************************************)
EXTENDS DelayBuffer, TLAPS

USE DelayAssumption

-------------------------------------------------------------------------------
(***************************************************************************)
(* Type correctness, also when both threads are in the buffer at once: the *)
(* read index a packet is added to may be an old one or 0, but not a larger *)
(* one than the packet was copied from; the read index that is set to the  *)
(* write index may be negative, as the write index may be between its       *)
(* compaction and the copy behind it, which then leaves the buffer.         *)
(***************************************************************************)

Inserting == rpc # "recv"

TypeIInv ==
  /\ TypeInv
  /\ Inserting => len \in 1 .. recvd
  /\ write_index < 0 => rpc \in {"moveRead", "append"} \/ undefined
  /\ rpc = "grow" /\ ~undefined => write_index + len <= BufMax
  /\ read_index < 0 => write_index < 0
  /\ ppc = "storeRest" /\ loaded < 0 => write_index < 0
  /\ ppc = "load" /\ ~undefined => read_index \in 0 .. BufMax - PacketLen
  /\ ppc = "store" => loaded \in 0 .. BufMax - PacketLen

LEMMA TypeInit == Init => TypeIInv
<1> SUFFICES ASSUME Init PROVE TypeIInv
  OBVIOUS
<1>1. << >> \in Seq(0 .. MaxBytes)
  OBVIOUS
<1>2. [ i \in 0 .. BufMax - 1 |-> 0 ] \in [ 0 .. BufMax - 1 -> 0 .. MaxBytes ]
  OBVIOUS
<1>3. /\ paced \in BOOLEAN /\ paced \in Paces
      /\ m_mutex \in BOOLEAN /\ reset \in BOOLEAN /\ undefined \in BOOLEAN
  BY DEF Init
<1> QED
  BY <1>1, <1>2, <1>3 DEF Init, TypeIInv, TypeInv, Inserting

\* The bytes that PutCopy writes are bytes received.
LEMMA PutCopyType ==
  ASSUME TypeIInv, PutCopy
  PROVE  TypeIInv'
<1>1. /\ len \in 1 .. recvd /\ recvd \in 0 .. MaxBytes /\ write_index \in -BufMax .. BufMax
      /\ buffer \in [ 0 .. BufMax - 1 -> 0 .. MaxBytes ]
  BY DEF TypeIInv, TypeInv, PutCopy, Inserting
<1>2. \A i \in write_index .. write_index + len - 1 :
         recvd - len + 1 + i - write_index \in 0 .. MaxBytes
  BY <1>1
<1>3. buffer' \in [ 0 .. BufMax - 1 -> 0 .. MaxBytes ]
  BY <1>1, <1>2 DEF PutCopy
<1>4. undefined' \in BOOLEAN
  BY DEF PutCopy, TypeIInv, TypeInv
<1> QED
  BY <1>1, <1>3, <1>4 DEF PutCopy, TypeIInv, TypeInv, Inserting, parseVars

\* Bytes cut out of the buffer.
LEMMA CopyType ==
  ASSUME TypeIInv, NEW n \in Int, Copy(n), undefined = FALSE
  PROVE  /\ UDP_buf' \in Seq(0 .. MaxBytes) /\ undefined' \in BOOLEAN
         /\ ~undefined' =>
              /\ n >= 0 /\ read_index >= 0 /\ read_index + n <= BufMax
              /\ UDP_buf' = [ i \in 1 .. n |-> buffer[read_index + i - 1] ]
              /\ Len(UDP_buf') = n
<1>1. /\ read_index \in -BufMax .. BufMax
      /\ buffer \in [ 0 .. BufMax - 1 -> 0 .. MaxBytes ]
      /\ UDP_buf \in Seq(0 .. MaxBytes)
  BY DEF TypeIInv, TypeInv
<1>2. CASE n < 0 \/ read_index < 0 \/ read_index + n > BufMax
  BY <1>1, <1>2 DEF Copy
<1>3. CASE n >= 0 /\ read_index >= 0 /\ read_index + n <= BufMax
  <2>1. /\ UDP_buf' = [ i \in 1 .. n |-> buffer[read_index + i - 1] ]
        /\ undefined' = FALSE
    BY <1>1, <1>3 DEF Copy
  <2>2. \A i \in 1 .. n : read_index + i - 1 \in 0 .. BufMax - 1
    BY <1>1, <1>3
  <2>3. [ i \in 1 .. n |-> buffer[read_index + i - 1] ] \in [ 1 .. n -> 0 .. MaxBytes ]
    BY <1>1, <2>2
  <2>4. n \in Nat
    BY <1>3
  <2>5. UDP_buf' \in Seq(0 .. MaxBytes) /\ Len(UDP_buf') = n
    BY <2>1, <2>3, <2>4
  <2> QED
    BY <1>3, <2>1, <2>5
<1> QED
  BY <1>1, <1>2, <1>3

LEMMA GetPacketType ==
  ASSUME TypeIInv, GetPacket
  PROVE  TypeIInv'
<1>1. undefined = FALSE /\ read_index \in -BufMax .. BufMax
  BY DEF TypeIInv, TypeInv, GetPacket
<1>2. /\ UDP_buf' \in Seq(0 .. MaxBytes) /\ undefined' \in BOOLEAN
      /\ ~undefined' => read_index >= 0 /\ read_index + PacketLen <= BufMax
  <2>1. PacketLen \in Int /\ Copy(PacketLen)
    BY DEF GetPacket
  <2> QED
    BY <1>1, <2>1, CopyType
<1> QED
  BY <1>1, <1>2 DEF GetPacket, TypeIInv, TypeInv, Inserting, shared, recvVars

LEMMA GetRestType ==
  ASSUME TypeIInv, GetRest
  PROVE  TypeIInv'
<1>1. undefined = FALSE /\ Available \in Int
  BY DEF TypeIInv, TypeInv, GetRest, Available
<1>2. UDP_buf' \in Seq(0 .. MaxBytes) /\ undefined' \in BOOLEAN
  BY <1>1, CopyType DEF GetRest
<1> QED
  BY <1>1, <1>2 DEF GetRest, TypeIInv, TypeInv, Inserting, shared, recvVars

\* A length that is computed again cuts the chunk or adds bytes to it.
LEMMA RestLengthType ==
  ASSUME TypeIInv, RestLength
  PROVE  TypeIInv'
<1>1. /\ Available \in Int /\ UDP_buf \in Seq(0 .. MaxBytes) /\ 0 \in 0 .. MaxBytes
  BY DEF TypeIInv, TypeInv, Available
<1> HIDE DEF Available
<1>2. [ i \in 1 .. Available |-> IF i <= Len(UDP_buf) THEN UDP_buf[i] ELSE 0 ]
        \in [ 1 .. Available -> 0 .. MaxBytes ]
  BY <1>1
<1>3. UDP_buf' \in Seq(0 .. MaxBytes)
  <2>1. CASE Available >= 0
    <3>1. Available \in Nat
      BY <1>1, <2>1
    <3> QED
      BY <1>2, <3>1 DEF RestLength
  <2>2. CASE Available < 0
    <3>1. 1 .. Available = 1 .. 0
      BY <1>1, <2>2
    <3>2. UDP_buf' \in [ 1 .. 0 -> 0 .. MaxBytes ]
      BY <1>2, <3>1 DEF RestLength
    <3> QED
      BY <3>2
  <2> QED
    BY <1>1, <2>1, <2>2
<1> QED
  BY <1>3 DEF RestLength, TypeIInv, TypeInv, Inserting, shared, recvVars

\* What lies behind the read index is moved within the buffer.
LEMMA MoveType ==
  ASSUME TypeIInv, Move
  PROVE  TypeIInv'
<1>1. /\ read_index \in 0 .. BufMax /\ write_index \in -BufMax .. BufMax
      /\ buffer \in [ 0 .. BufMax - 1 -> 0 .. MaxBytes ] /\ undefined \in BOOLEAN
      /\ ~undefined
  BY DEF TypeIInv, TypeInv, Move
<1>2. \A i \in 0 .. BufMax - 1 : i < Available => read_index + i \in 0 .. BufMax - 1
  BY <1>1 DEF Available
<1>3. buffer' \in [ 0 .. BufMax - 1 -> 0 .. MaxBytes ] /\ undefined' \in BOOLEAN
  BY <1>1, <1>2 DEF Move
<1> QED
  BY <1>3 DEF Move, TypeIInv, TypeInv, Inserting, parseVars

LEMMA TypeStep == TypeIInv /\ [Next]_vars => TypeIInv'
<1> SUFFICES ASSUME TypeIInv, [Next]_vars PROVE TypeIInv'
  OBVIOUS
<1> USE DEF TypeIInv, TypeInv, Inserting
<1>0. /\ read_index \in -BufMax .. BufMax /\ write_index \in -BufMax .. BufMax
      /\ recvd \in 0 .. MaxBytes /\ loaded \in -BufMax .. BufMax /\ Len(UDP_buf) \in Nat
  OBVIOUS
<1>1. CASE UNCHANGED vars
  BY <1>1 DEF vars, shared, recvVars, parseVars
<1>2. ASSUME NEW n \in Datagrams, RecvDatagram(n) PROVE TypeIInv'
  <2>1. n \in 1 .. BufMax /\ recvd' = recvd + n /\ recvd' \in 0 .. MaxBytes /\ n \in 1 .. recvd'
    BY <1>0, <1>2 DEF RecvDatagram
  <2> QED
    BY <1>2, <2>1 DEF RecvDatagram, shared, parseVars
<1>3. CASE PutLock
  BY <1>3 DEF PutLock, AfterTest, parseVars
<1>4. CASE ResetWrite
  BY <1>4 DEF ResetWrite, parseVars
<1>5. CASE ResetRead
  BY <1>0, <1>5 DEF ResetRead, AfterTest, parseVars
<1>6. CASE Move
  BY <1>6, MoveType
<1>7. CASE MoveWrite
  BY <1>0, <1>7 DEF MoveWrite, Available, parseVars
<1>8. CASE MoveRead
  BY <1>0, <1>8 DEF MoveRead, parseVars
<1>9. CASE PutCopy
  BY <1>9, PutCopyType
<1>10. CASE Grow
  <2>1. write_index' \in 0 .. BufMax
    <3>1. write_index >= 0 /\ len \in Nat /\ write_index + len <= BufMax
      BY <1>0, <1>10 DEF Grow
    <3> QED
      BY <1>0, <1>10, <3>1 DEF Grow
  <2>2. m_mutex' \in BOOLEAN
    BY <1>10 DEF Grow
  <2>3. /\ rpc' = "recv" /\ undefined' = undefined /\ ~undefined /\ read_index >= 0
        /\ UNCHANGED << paced, buffer, read_index, len, recvd, reset, ppc, loaded, UDP_buf, written >>
    BY <1>0, <1>10 DEF Grow, parseVars
  <2>4. TypeInv'
    BY <2>1, <2>2, <2>3
  <2>5. ppc' = "storeRest" /\ loaded' < 0 => write_index' < 0
    BY <1>0, <1>10, <2>3 DEF Grow
  <2> QED
    BY <1>0, <2>1, <2>3, <2>4, <2>5
<1>11. CASE GetLock
  BY <1>11 DEF GetLock, recvVars
<1>12. CASE GetNothing
  BY <1>12 DEF GetNothing, recvVars, parseVars
<1>13. CASE GetPacket \/ GetRest \/ RestLength
  BY <1>13, GetPacketType, GetRestType, RestLengthType
<1>14. CASE GetLoad
  BY <1>0, <1>14 DEF GetLoad, shared, recvVars
<1>15. CASE GetStore
  <2>1. read_index' \in 0 .. BufMax
    BY <1>0, <1>15 DEF GetStore
  <2>2. m_mutex' \in BOOLEAN
    BY <1>15 DEF GetStore
  <2>3. /\ ppc' = "file" /\ undefined' = undefined
        /\ UNCHANGED << paced, buffer, write_index, rpc, len, recvd, reset, loaded, UDP_buf, written >>
    BY <1>15 DEF GetStore, recvVars
  <2>4. TypeInv'
    BY <1>0, <2>1, <2>2, <2>3
  <2> QED
    BY <1>0, <2>1, <2>3, <2>4
<1>17. CASE GetTest
  BY <1>17 DEF GetTest, shared, recvVars
<1>18. CASE RestLoad
  BY <1>0, <1>18 DEF RestLoad, shared, recvVars
<1>19. CASE RestStore
  BY <1>0, <1>19 DEF RestStore, recvVars
<1>16. CASE WriteTsFile
  <2>1. UDP_buf # << >> => UDP_buf[Len(UDP_buf)] \in 0 .. MaxBytes
    OBVIOUS
  <2> QED
    BY <1>16, <2>1 DEF WriteTsFile, shared, recvVars
<1> QED
  BY <1>1, <1>2, <1>3, <1>4, <1>5, <1>6, <1>7, <1>8, <1>9, <1>10, <1>11, <1>12, <1>13, <1>14,
     <1>15, <1>16, <1>17, <1>18, <1>19 DEF Next, Put, Parse

\* Paced or not, the variables of the delay meter keep their types; the write
\* index may become negative, and no larger than the buffer.
THEOREM DelayTypeCorrect == Spec => []TypeInv
<1>1. TypeIInv => TypeInv
  BY DEF TypeIInv
<1> QED
  BY <1>1, TypeInit, TypeStep, PTL DEF Spec

-------------------------------------------------------------------------------
(***************************************************************************)
(* A buffer that is never overfull.                                        *)
(***************************************************************************)

InPut == rpc \in {"move", "moveWrite", "moveRead", "append", "grow"}

\* The critical sections exclude each other, and there are no resets.
Exclusive ==
  /\ ~undefined /\ ~reset
  /\ rpc \notin {"resetWrite", "resetRead"}
  /\ ~(InPut /\ InGet)
  /\ m_mutex <=> InPut \/ InGet

\* The unread bytes: how many, where the first one is, and which the last is.
Count == IF rpc = "moveRead" THEN write_index ELSE write_index - read_index
Front == IF rpc \in {"moveWrite", "moveRead"} THEN 0 ELSE read_index
LastPut == IF Inserting THEN recvd - len ELSE recvd

RoomInv ==
  /\ write_index >= 0
  /\ Count >= 0 /\ Count <= LastPut
  /\ Inserting => Count + len <= BufMax
  /\ rpc = "append" => write_index + len <= BufMax

ContentInv ==
  /\ \A i \in 0 .. Count - 1 : buffer[Front + i] = LastPut - Count + i + 1
  /\ rpc = "grow" =>
       \A i \in 0 .. len - 1 : buffer[write_index + i] = LastPut + i + 1

\* The bytes before the unread ones.
Taken == LastPut - Count

\* What the parsing thread holds.
ChunkInv ==
  /\ ppc # "file" => written = Taken
  /\ ppc \in {"test", "packet", "rest"} => Count > 0
  /\ ppc = "packet" => Count >= PacketLen
  /\ ppc = "rest" => Count < PacketLen
  /\ ppc \in {"load", "store"} => Len(UDP_buf) = PacketLen /\ Count >= PacketLen
  /\ ppc \in {"length", "loadRest", "storeRest"} => Len(UDP_buf) = Count /\ Count > 0
  /\ ppc = "store" => loaded = read_index
  /\ ppc = "storeRest" => loaded = write_index
  /\ ppc = "file" => written + Len(UDP_buf) = Taken /\ Len(UDP_buf) > 0
  /\ ppc \in {"load", "store", "length", "loadRest", "storeRest", "file"} =>
       \A i \in 1 .. Len(UDP_buf) : UDP_buf[i] = written + i

PacedParts == Exclusive /\ RoomInv /\ ContentInv /\ ChunkInv
PacedInv == paced => PacedParts

LEMMA PacedInit == Init => PacedInv
BY DEF Init, PacedInv, PacedParts, Exclusive, RoomInv, ContentInv, ChunkInv, Count, Front, LastPut,
       Inserting, InPut, InGet, Taken

LEMMA CountsAreNumbers ==
  ASSUME TypeIInv, RoomInv
  PROVE  /\ Count \in Int /\ Front \in Int /\ LastPut \in Int
         /\ len \in Nat /\ recvd \in Nat
         /\ read_index \in 0 .. BufMax /\ write_index \in Int /\ write_index <= BufMax
         /\ UDP_buf \in Seq(0 .. MaxBytes) /\ Len(UDP_buf) \in Nat
         /\ written \in Nat
         /\ buffer \in [ 0 .. BufMax - 1 -> 0 .. MaxBytes ]
<1>1. /\ len \in Nat /\ recvd \in Nat
      /\ read_index \in 0 .. BufMax /\ write_index \in Int /\ write_index <= BufMax
      /\ UDP_buf \in Seq(0 .. MaxBytes)
      /\ written \in Nat
      /\ buffer \in [ 0 .. BufMax - 1 -> 0 .. MaxBytes ]
  BY DEF TypeIInv, TypeInv, RoomInv
<1> QED
  BY <1>1 DEF Count, Front, LastPut

\* A step of the receiving thread that neither adds nor moves bytes.
LEMMA ContentKept ==
  ASSUME ContentInv, buffer' = buffer, Front' = Front, Count' = Count, LastPut' = LastPut,
         rpc' # "grow"
  PROVE  ContentInv'
BY DEF ContentInv

\* What the parsing thread holds is not touched by the receiving thread.
LEMMA ChunkKept ==
  ASSUME TypeIInv, TypeIInv', ChunkInv, UNCHANGED parseVars,
         Taken' = Taken,
         InGet => UNCHANGED << read_index, write_index >> /\ Count' = Count
  PROVE  ChunkInv'
<1>1. /\ ppc' = ppc /\ UDP_buf' = UDP_buf /\ written' = written /\ loaded' = loaded
  BY DEF parseVars
<1>2. CASE InGet
  BY <1>1, <1>2 DEF ChunkInv, InGet
<1>3. CASE ~InGet
  BY <1>1, <1>3 DEF ChunkInv, InGet
<1> QED
  BY <1>2, <1>3

-------------------------------------------------------------------------------
(***************************************************************************)
(* The steps of the receiving thread.                                      *)
(***************************************************************************)

LEMMA RecvDatagramPaced ==
  ASSUME TypeIInv, TypeIInv', paced, PacedParts, NEW n \in Datagrams, RecvDatagram(n)
  PROVE  PacedParts'
<1> USE DEF PacedParts
<1>0. n \in 1 .. BufMax /\ len \in Nat /\ recvd \in Nat
      /\ read_index \in 0 .. BufMax /\ write_index \in Int
  BY CountsAreNumbers
<1>1. Exclusive'
  BY DEF RecvDatagram, Exclusive, InPut, InGet, shared, parseVars
<1>2. /\ Count' = Count /\ Count = write_index - read_index
      /\ Front' = Front /\ LastPut' = LastPut /\ rpc' = "put" /\ len' = n
  BY <1>0 DEF RecvDatagram, Count, Front, LastPut, Inserting, shared
<1>3. RoomInv'
  BY <1>0, <1>2 DEF RecvDatagram, RoomInv, Overfull, Available, Inserting, shared
<1>4. ContentInv'
  BY <1>2, ContentKept DEF RecvDatagram, shared
<1>5. ChunkInv'
  BY <1>0, <1>2, ChunkKept DEF RecvDatagram, shared, Taken
<1> QED
  BY <1>1, <1>3, <1>4, <1>5

LEMMA PutLockPaced ==
  ASSUME TypeIInv, TypeIInv', paced, PacedParts, PutLock
  PROVE  PacedParts'
<1> USE DEF PacedParts
<1>0. len \in Nat /\ read_index \in 0 .. BufMax /\ write_index \in Int
  BY CountsAreNumbers
<1>1. Count = write_index - read_index /\ ~Overfull(len)
  BY <1>0 DEF PutLock, Count, RoomInv, Overfull, Available, Inserting
<1>2. rpc' = AfterTest /\ m_mutex' = TRUE /\ reset' = reset
  BY <1>1 DEF PutLock
<1>3. AfterTest \in {"move", "append"} /\ (AfterTest = "append" => write_index + len <= BufMax)
  BY <1>0 DEF AfterTest, NoRoomBehind
<1>4. Exclusive'
  BY <1>2, <1>3 DEF PutLock, Exclusive, InPut, InGet, parseVars
<1>5. Count' = Count /\ Front' = Front /\ LastPut' = LastPut
  BY <1>2, <1>3 DEF PutLock, Count, Front, LastPut, Inserting
<1>6. RoomInv'
  BY <1>2, <1>3, <1>5 DEF PutLock, RoomInv, Inserting
<1>7. ContentInv'
  BY <1>2, <1>3, <1>5, ContentKept DEF PutLock
<1>8. ChunkInv'
  BY <1>5, ChunkKept, CountsAreNumbers DEF PutLock, Taken
<1> QED
  BY <1>4, <1>6, <1>7, <1>8

LEMMA MovePaced ==
  ASSUME TypeIInv, TypeIInv', paced, PacedParts, Move
  PROVE  PacedParts'
<1> USE DEF PacedParts
<1>0. /\ read_index \in 0 .. BufMax /\ write_index \in Int /\ write_index <= BufMax
      /\ buffer \in [ 0 .. BufMax - 1 -> 0 .. MaxBytes ]
  BY CountsAreNumbers
<1>1. Count = Available /\ Available = write_index - read_index /\ Available >= 0 /\ Front = read_index
  BY <1>0 DEF Move, Count, Front, Available, RoomInv
<1>2. /\ buffer' = [ i \in DOMAIN buffer |->
                       IF i < Available THEN buffer[read_index + i] ELSE buffer[i] ]
      /\ undefined' = undefined
  BY <1>0, <1>1 DEF Move
<1>3. Exclusive'
  BY <1>2 DEF Move, Exclusive, InPut, InGet, parseVars
<1>4. Count' = Count /\ Front' = 0 /\ LastPut' = LastPut
  BY <1>1 DEF Move, Count, Front, LastPut, Inserting, Available
<1>5. RoomInv'
  BY <1>4 DEF Move, RoomInv, Inserting
<1>6. ContentInv'
  <2>1. \A i \in 0 .. Count - 1 : buffer'[i] = buffer[read_index + i]
    BY <1>0, <1>1, <1>2
  <2>2. \A i \in 0 .. Count - 1 : buffer'[0 + i] = LastPut - Count + i + 1
    BY <1>0, <1>1, <2>1 DEF ContentInv
  <2> QED
    BY <1>4, <2>2 DEF ContentInv, Move
<1>7. ChunkInv'
  BY <1>4, ChunkKept, CountsAreNumbers DEF Move, Taken
<1> QED
  BY <1>3, <1>5, <1>6, <1>7

LEMMA MoveIndicesPaced ==
  ASSUME TypeIInv, TypeIInv', paced, PacedParts, MoveWrite \/ MoveRead
  PROVE  PacedParts'
<1> USE DEF PacedParts
<1>0. read_index \in 0 .. BufMax /\ write_index \in Int /\ len \in Nat
  BY CountsAreNumbers
<1>1. Exclusive' /\ ~InGet
  <2>1. /\ InPut /\ InPut' /\ ppc' = ppc /\ m_mutex' = m_mutex
        /\ undefined' = undefined /\ reset' = reset
        /\ rpc' \notin {"resetWrite", "resetRead"}
    BY DEF MoveWrite, MoveRead, InPut, parseVars
  <2> QED
    BY <2>1 DEF Exclusive, InGet
<1>2. /\ Count' = Count /\ Front' = Front /\ LastPut' = LastPut
      /\ rpc' = "append" => write_index' = Count
  <2>1. CASE MoveWrite
    BY <1>0, <2>1 DEF MoveWrite, Count, Front, LastPut, Inserting, Available
  <2>2. CASE MoveRead
    BY <1>0, <2>2 DEF MoveRead, Count, Front, LastPut, Inserting
  <2> QED
    BY <2>1, <2>2
<1>6. rpc' # "grow" /\ buffer' = buffer /\ len' = len /\ UNCHANGED parseVars
  BY DEF MoveWrite, MoveRead
<1>3. RoomInv'
  <2>1. write_index' >= 0
    BY <1>0 DEF MoveWrite, MoveRead, RoomInv, Count, Available
  <2> QED
    BY <1>2, <2>1 DEF MoveWrite, MoveRead, RoomInv, Inserting
<1>4. ContentInv'
  BY <1>2, <1>6, ContentKept
<1>5. ChunkInv'
  BY <1>1, <1>2, <1>6, ChunkKept, CountsAreNumbers DEF Taken
<1> QED
  BY <1>1, <1>3, <1>4, <1>5

LEMMA PutCopyPaced ==
  ASSUME TypeIInv, TypeIInv', paced, PacedParts, PutCopy
  PROVE  PacedParts'
<1> USE DEF PacedParts
<1>0. /\ read_index \in 0 .. BufMax /\ write_index \in Int /\ len \in Nat /\ recvd \in Nat
      /\ buffer \in [ 0 .. BufMax - 1 -> 0 .. MaxBytes ]
  BY CountsAreNumbers
<1>1. /\ Count = write_index - read_index /\ Front = read_index /\ LastPut = recvd - len
      /\ Count >= 0 /\ write_index >= 0 /\ write_index + len <= BufMax
  BY <1>0 DEF PutCopy, Count, Front, LastPut, RoomInv, Inserting
<1>2. /\ buffer' = [ i \in DOMAIN buffer |->
                       IF i \in write_index .. write_index + len - 1
                       THEN recvd - len + 1 + i - write_index ELSE buffer[i] ]
      /\ undefined' = undefined
  BY <1>0, <1>1 DEF PutCopy
<1>3. Exclusive'
  BY <1>2 DEF PutCopy, Exclusive, InPut, InGet, parseVars
<1>4. Count' = Count /\ Front' = Front /\ LastPut' = LastPut
  BY DEF PutCopy, Count, Front, LastPut, Inserting
<1>5. RoomInv'
  BY <1>4 DEF PutCopy, RoomInv, Inserting
<1>6. ContentInv'
  <2>1. ASSUME NEW i \in 0 .. Count - 1
        PROVE  buffer'[Front + i] = LastPut - Count + i + 1
    <3>1. Front + i \in 0 .. BufMax - 1 /\ Front + i < write_index
      BY <1>0, <1>1
    <3>2. buffer'[Front + i] = buffer[Front + i]
      BY <1>0, <1>1, <1>2, <3>1
    <3> QED
      BY <3>2 DEF ContentInv
  <2>2. ASSUME NEW i \in 0 .. len - 1
        PROVE  buffer'[write_index + i] = LastPut + i + 1
    <3>1. write_index + i \in 0 .. BufMax - 1
          /\ write_index + i \in write_index .. write_index + len - 1
      BY <1>0, <1>1
    <3> QED
      BY <1>0, <1>1, <1>2, <3>1
  <2>3. write_index' = write_index /\ len' = len
    BY DEF PutCopy
  <2> QED
    BY <1>4, <2>1, <2>2, <2>3 DEF ContentInv
<1>7. ChunkInv'
  BY <1>4, ChunkKept, CountsAreNumbers DEF PutCopy, Taken
<1> QED
  BY <1>3, <1>5, <1>6, <1>7

LEMMA GrowPaced ==
  ASSUME TypeIInv, TypeIInv', paced, PacedParts, Grow
  PROVE  PacedParts'
<1> USE DEF PacedParts
<1>0. /\ read_index \in 0 .. BufMax /\ write_index \in Int /\ len \in Nat /\ recvd \in Nat
  BY CountsAreNumbers
<1>1. /\ Count = write_index - read_index /\ Front = read_index /\ LastPut = recvd - len
      /\ Count >= 0
  BY <1>0 DEF Grow, Count, Front, LastPut, RoomInv, Inserting
<1>2. Exclusive'
  BY DEF Grow, Exclusive, InPut, InGet, parseVars
<1>3. Count' = Count + len /\ Front' = Front /\ LastPut' = LastPut + len
  BY <1>0, <1>1 DEF Grow, Count, Front, LastPut, Inserting
<1>4. RoomInv'
  BY <1>0, <1>1, <1>3 DEF Grow, RoomInv, Inserting
<1>5. ContentInv'
  <2>1. ASSUME NEW i \in 0 .. Count + len - 1
        PROVE  buffer[Front + i] = LastPut - Count + i + 1
    <3>1. CASE i < Count
      BY <1>0, <1>1, <3>1 DEF ContentInv
    <3>2. CASE i >= Count
      <4>1. i - Count \in 0 .. len - 1 /\ write_index + (i - Count) = Front + i
        BY <1>0, <1>1, <3>2
      <4>2. buffer[write_index + (i - Count)] = LastPut + (i - Count) + 1
        BY <4>1 DEF ContentInv, Grow
      <4> QED
        BY <1>0, <1>1, <4>1, <4>2
    <3> QED
      BY <1>0, <1>1, <3>1, <3>2
  <2>2. buffer' = buffer /\ rpc' # "grow"
    BY DEF Grow
  <2> QED
    BY <1>0, <1>1, <1>3, <2>1, <2>2 DEF ContentInv
<1>7. ~InGet /\ Taken' = Taken
  BY <1>0, <1>1, <1>3, CountsAreNumbers DEF Grow, Taken, Exclusive, InPut
<1>6. ChunkInv'
  BY <1>7, ChunkKept DEF Grow
<1> QED
  BY <1>2, <1>4, <1>5, <1>6

-------------------------------------------------------------------------------
(***************************************************************************)
(* The steps of the parsing thread.                                        *)
(***************************************************************************)

\* While the parsing thread is in its critical section or has left it, the
\* unread bytes lie at the read index.
LEMMA Plain ==
  ASSUME TypeIInv, ~InPut
  PROVE  Count = write_index - read_index /\ Front = read_index
BY DEF InPut, Count, Front

LEMMA GetLockPaced ==
  ASSUME TypeIInv, TypeIInv', paced, PacedParts, GetLock
  PROVE  PacedParts'
<1> USE DEF PacedParts
<1>1. ~InPut /\ InGet'
  BY DEF GetLock, Exclusive, InGet
<1>2. Exclusive'
  BY <1>1 DEF GetLock, Exclusive, InPut, recvVars
<1>3. /\ Count' = Count /\ Front' = Front /\ LastPut' = LastPut /\ Taken' = Taken
      /\ rpc' = rpc /\ len' = len
  BY DEF GetLock, Count, Front, LastPut, Inserting, Taken, recvVars
<1>4. RoomInv'
  BY <1>3 DEF GetLock, RoomInv, Inserting
<1>5. ContentInv'
  BY <1>1, <1>3, ContentKept DEF GetLock, InPut
<1>6. Count > 0
  <2>1. Count = Available
    BY <1>1, Plain DEF Available
  <2>2. Count \in Int
    BY CountsAreNumbers
  <2> QED
    BY <2>1, <2>2 DEF GetLock, Nothing
<1>7. ChunkInv'
  BY <1>3, <1>6 DEF GetLock, ChunkInv
<1> QED
  BY <1>2, <1>4, <1>5, <1>7

\* A step inside the critical section that leaves the buffer as it is.
LEMMA InsideGet ==
  ASSUME TypeIInv, TypeIInv', PacedParts, InGet, InGet',
         UNCHANGED << shared, recvVars, written >>, undefined' = undefined
  PROVE  /\ Exclusive' /\ RoomInv' /\ ContentInv'
         /\ ~InPut /\ Count' = Count /\ Taken' = Taken
         /\ Count = write_index - read_index /\ Front = read_index
<1> USE DEF PacedParts
<1>1. /\ Count' = Count /\ Front' = Front /\ LastPut' = LastPut /\ Taken' = Taken
      /\ rpc' = rpc /\ len' = len /\ recvd' = recvd /\ reset' = reset
      /\ buffer' = buffer /\ m_mutex' = m_mutex /\ write_index' = write_index
  BY DEF Count, Front, LastPut, Inserting, Taken, recvVars, shared
<1>2. ~InPut
  BY DEF Exclusive
<1>3. Exclusive'
  BY <1>1, <1>2 DEF Exclusive, InPut
<1>4. RoomInv'
  BY <1>1 DEF RoomInv, Inserting
<1>5. ContentInv'
  BY <1>1, <1>2, ContentKept DEF InPut
<1> QED
  BY <1>1, <1>2, <1>3, <1>4, <1>5, Plain

LEMMA GetTestPaced ==
  ASSUME TypeIInv, TypeIInv', paced, PacedParts, GetTest
  PROVE  PacedParts'
<1> USE DEF PacedParts
<1>1. InGet /\ InGet' /\ UNCHANGED << shared, recvVars, written >> /\ undefined' = undefined
  BY DEF GetTest, InGet
<1>2. /\ Exclusive' /\ RoomInv' /\ ContentInv' /\ Count' = Count /\ Taken' = Taken
      /\ Count = Available
  BY <1>1, InsideGet DEF Available
<1>3. Count \in Int
  BY CountsAreNumbers
<1>4. ChunkInv'
  BY <1>2, <1>3 DEF ChunkInv, GetTest
<1> QED
  BY <1>2, <1>4

\* What is copied is what lies at the read index.
LEMMA ChunkIsNext ==
  ASSUME TypeIInv, PacedParts, InGet, written = Taken, NEW n \in Int, 0 < n, n <= Count, Copy(n)
  PROVE  /\ Len(UDP_buf') = n /\ undefined' = undefined
         /\ \A i \in 1 .. Len(UDP_buf') : UDP_buf'[i] = written + i
<1> USE DEF PacedParts
<1>1. /\ read_index \in 0 .. BufMax /\ write_index \in Int /\ write_index <= BufMax
      /\ buffer \in [ 0 .. BufMax - 1 -> 0 .. MaxBytes ]
      /\ Count \in Int /\ LastPut \in Int /\ written \in Nat
      /\ undefined = FALSE
  BY CountsAreNumbers DEF Exclusive, TypeIInv, TypeInv
<1>2. ~InPut
  BY DEF Exclusive
<1>3. Count = write_index - read_index /\ Front = read_index /\ read_index + n <= BufMax
  BY <1>1, <1>2, Plain
<1>4. undefined' = FALSE
  BY <1>1, <1>3 DEF Copy
<1>5. UDP_buf' = [ i \in 1 .. n |-> buffer[read_index + i - 1] ] /\ Len(UDP_buf') = n
  BY <1>1, <1>4, CopyType
<1>6. ASSUME NEW i \in 1 .. n
      PROVE  UDP_buf'[i] = written + i
  <2>1. i - 1 \in 0 .. Count - 1 /\ read_index + i - 1 = Front + (i - 1)
    BY <1>1, <1>3
  <2>2. buffer[Front + (i - 1)] = LastPut - Count + (i - 1) + 1
    BY <2>1 DEF ContentInv
  <2>3. buffer[Front + (i - 1)] = written + i
    BY <1>1, <2>1, <2>2 DEF Taken
  <2>4. UDP_buf'[i] = buffer[read_index + i - 1]
    BY <1>5
  <2> QED
    BY <2>1, <2>3, <2>4
<1> QED
  BY <1>1, <1>4, <1>5, <1>6

LEMMA GetPacketPaced ==
  ASSUME TypeIInv, TypeIInv', paced, PacedParts, GetPacket
  PROVE  PacedParts'
<1> USE DEF PacedParts
<1>1. /\ InGet /\ InGet' /\ UNCHANGED << shared, recvVars, written >> /\ ppc' = "load"
      /\ written = Taken /\ Count >= PacketLen /\ Copy(PacketLen)
  BY DEF GetPacket, InGet, ChunkInv
<1>2. Count \in Int /\ PacketLen \in Int /\ 0 < PacketLen /\ PacketLen <= Count
  BY <1>1, CountsAreNumbers
<1>3. /\ Len(UDP_buf') = PacketLen /\ undefined' = undefined
      /\ \A i \in 1 .. Len(UDP_buf') : UDP_buf'[i] = written + i
  BY <1>1, <1>2, ChunkIsNext
<1>4. /\ Exclusive' /\ RoomInv' /\ ContentInv' /\ Count' = Count /\ Taken' = Taken
  BY <1>1, <1>3, InsideGet
<1>5. ChunkInv'
  BY <1>1, <1>3, <1>4 DEF ChunkInv
<1> QED
  BY <1>4, <1>5

LEMMA GetRestPaced ==
  ASSUME TypeIInv, TypeIInv', paced, PacedParts, GetRest
  PROVE  PacedParts'
<1> USE DEF PacedParts
<1>1. /\ InGet /\ InGet' /\ UNCHANGED << shared, recvVars, written >> /\ ppc' = "length"
      /\ written = Taken /\ Count > 0 /\ Copy(Available) /\ ~InPut
  BY DEF GetRest, InGet, ChunkInv, Exclusive
<1>2. Count \in Int /\ Available = Count
  BY <1>1, CountsAreNumbers, Plain DEF Available
<1>3. /\ Len(UDP_buf') = Count /\ undefined' = undefined
      /\ \A i \in 1 .. Len(UDP_buf') : UDP_buf'[i] = written + i
  BY <1>1, <1>2, ChunkIsNext
<1>4. /\ Exclusive' /\ RoomInv' /\ ContentInv' /\ Count' = Count /\ Taken' = Taken
  BY <1>1, <1>3, InsideGet
<1>5. ChunkInv'
  BY <1>1, <1>3, <1>4 DEF ChunkInv
<1> QED
  BY <1>4, <1>5

\* The length that is computed again is that of the copy.
LEMMA RestLengthPaced ==
  ASSUME TypeIInv, TypeIInv', paced, PacedParts, RestLength
  PROVE  PacedParts'
<1> USE DEF PacedParts
<1>1. /\ InGet /\ InGet' /\ UNCHANGED << shared, recvVars, written >> /\ ppc' = "loadRest"
      /\ undefined' = undefined /\ Len(UDP_buf) = Count /\ Count > 0 /\ written = Taken
      /\ \A i \in 1 .. Len(UDP_buf) : UDP_buf[i] = written + i
  BY DEF RestLength, InGet, ChunkInv
<1>2. /\ Exclusive' /\ RoomInv' /\ ContentInv' /\ Count' = Count /\ Taken' = Taken
      /\ Available = Count
  BY <1>1, InsideGet DEF Available
<1>3. UDP_buf \in Seq(0 .. MaxBytes) /\ Count \in Nat
  BY <1>1, CountsAreNumbers
<1>4. UDP_buf' = UDP_buf
  <2> HIDE DEF Available, Count
  <2>1. UDP_buf' = [ i \in 1 .. Len(UDP_buf) |-> UDP_buf[i] ]
    BY <1>1, <1>2 DEF RestLength
  <2> QED
    BY <1>3, <2>1
<1>5. ChunkInv'
  BY <1>1, <1>2, <1>4 DEF ChunkInv
<1> QED
  BY <1>2, <1>5

LEMMA LoadPaced ==
  ASSUME TypeIInv, TypeIInv', paced, PacedParts, GetLoad \/ RestLoad
  PROVE  PacedParts'
<1> USE DEF PacedParts
<1>1. /\ InGet /\ InGet' /\ UNCHANGED << shared, recvVars, written >> /\ undefined' = undefined
      /\ UDP_buf' = UDP_buf /\ read_index' = read_index /\ write_index' = write_index
  BY DEF GetLoad, RestLoad, InGet, shared
<1>2. /\ Exclusive' /\ RoomInv' /\ ContentInv' /\ Count' = Count /\ Taken' = Taken
  BY <1>1, InsideGet
<1>3. ChunkInv'
  BY <1>1, <1>2 DEF ChunkInv, GetLoad, RestLoad
<1> QED
  BY <1>2, <1>3

\* Both ways the read index goes up by the length of the chunk.
LEMMA StorePaced ==
  ASSUME TypeIInv, TypeIInv', paced, PacedParts, GetStore \/ RestStore
  PROVE  PacedParts'
<1> USE DEF PacedParts
<1>0. /\ read_index \in 0 .. BufMax /\ write_index \in Int /\ Len(UDP_buf) \in Nat
      /\ Count \in Int /\ LastPut \in Int /\ written \in Nat /\ len \in Nat
  BY CountsAreNumbers
<1>1. /\ ~InPut /\ Len(UDP_buf) \in 1 .. Count /\ written = Taken
      /\ \A i \in 1 .. Len(UDP_buf) : UDP_buf[i] = written + i
  <2>1. InGet /\ ppc \in {"store", "storeRest"}
    BY DEF GetStore, RestStore, InGet
  <2>2. ~InPut
    BY <2>1 DEF Exclusive
  <2>3. Len(UDP_buf) <= Count /\ Len(UDP_buf) > 0
    BY <1>0, <2>1 DEF ChunkInv
  <2> QED
    BY <1>0, <2>1, <2>2, <2>3 DEF ChunkInv
<1>9. read_index' = read_index + Len(UDP_buf)
  <2>1. CASE GetStore
    BY <2>1 DEF GetStore, ChunkInv
  <2>2. CASE RestStore
    <3>1. Count = write_index - read_index /\ read_index' = write_index /\ Len(UDP_buf) = Count
      BY <1>1, <2>2, Plain DEF RestStore, ChunkInv
    <3> QED
      BY <1>0, <3>1
  <2> QED
    BY <2>1, <2>2
<1>2. /\ rpc' = rpc /\ len' = len /\ recvd' = recvd /\ write_index' = write_index
      /\ buffer' = buffer /\ UDP_buf' = UDP_buf /\ written' = written
      /\ ppc' = "file" /\ m_mutex' = FALSE /\ undefined' = undefined /\ reset' = reset
  BY DEF GetStore, RestStore, recvVars
<1>3. Exclusive'
  BY <1>1, <1>2 DEF Exclusive, InPut, InGet
<1>4. /\ Count' = Count - Len(UDP_buf) /\ LastPut' = LastPut
      /\ Front = read_index /\ Front' = read_index + Len(UDP_buf)
  BY <1>0, <1>1, <1>2, <1>9 DEF InPut, Count, LastPut, Front, Inserting
<1>5. RoomInv'
  BY <1>0, <1>1, <1>2, <1>4 DEF RoomInv, Inserting, InPut
<1>6. ContentInv'
  <2>1. ASSUME NEW i \in 0 .. Count - Len(UDP_buf) - 1
        PROVE  buffer[read_index + Len(UDP_buf) + i] = LastPut - (Count - Len(UDP_buf)) + i + 1
    <3>1. /\ Len(UDP_buf) + i \in 0 .. Count - 1
          /\ Front + (Len(UDP_buf) + i) = read_index + Len(UDP_buf) + i
      BY <1>0, <1>1, <1>4
    <3>2. buffer[Front + (Len(UDP_buf) + i)] = LastPut - Count + (Len(UDP_buf) + i) + 1
      BY <3>1 DEF ContentInv
    <3> QED
      BY <1>0, <3>1, <3>2
  <2> QED
    BY <1>1, <1>2, <1>4, <2>1 DEF ContentInv, InPut
<1>7. Taken' = Taken + Len(UDP_buf)
  BY <1>0, <1>4 DEF Taken
<1>8. ChunkInv'
  BY <1>0, <1>1, <1>2, <1>7 DEF ChunkInv
<1> QED
  BY <1>3, <1>5, <1>6, <1>8

LEMMA WriteTsFilePaced ==
  ASSUME TypeIInv, TypeIInv', paced, PacedParts, WriteTsFile
  PROVE  PacedParts'
<1> USE DEF PacedParts
<1>0. Len(UDP_buf) \in Nat /\ written \in Nat /\ UDP_buf \in Seq(0 .. MaxBytes)
  BY CountsAreNumbers
<1>1. /\ written + Len(UDP_buf) = Taken /\ Len(UDP_buf) > 0
      /\ \A i \in 1 .. Len(UDP_buf) : UDP_buf[i] = written + i
  BY DEF WriteTsFile, ChunkInv
<1>2. /\ Count' = Count /\ Front' = Front /\ LastPut' = LastPut /\ Taken' = Taken
      /\ rpc' = rpc /\ len' = len /\ ppc' = "get" /\ buffer' = buffer
  BY DEF WriteTsFile, Count, Front, LastPut, Inserting, Taken, recvVars, shared
<1>3. Exclusive'
  BY DEF WriteTsFile, Exclusive, InPut, InGet, recvVars, shared
<1>4. RoomInv'
  BY <1>2 DEF WriteTsFile, RoomInv, Inserting, shared
<1>5. ContentInv'
  BY <1>2 DEF ContentInv, WriteTsFile, shared
<1>6. written' = Taken
  <2>1. UDP_buf # << >>
    BY <1>0, <1>1
  <2>2. UDP_buf[Len(UDP_buf)] = written + Len(UDP_buf)
    BY <1>0, <1>1
  <2> QED
    BY <1>1, <2>1, <2>2 DEF WriteTsFile
<1>7. ChunkInv'
  BY <1>2, <1>6 DEF ChunkInv
<1> QED
  BY <1>3, <1>4, <1>5, <1>7

-------------------------------------------------------------------------------
LEMMA PacedStep == TypeIInv /\ TypeIInv' /\ PacedInv /\ [Next]_vars => PacedInv'
<1> SUFFICES ASSUME TypeIInv, TypeIInv', PacedParts, [Next]_vars, paced
             PROVE  PacedParts'
  <2>1. [Next]_vars => paced' = paced
    BY DEF Next, Put, Parse, RecvDatagram, PutLock, ResetWrite, ResetRead, Move, MoveWrite,
         MoveRead, PutCopy, Grow, GetLock, GetNothing, GetTest, GetPacket, GetLoad, GetStore,
         GetRest, RestLength, RestLoad, RestStore, WriteTsFile, vars
  <2> QED
    BY <2>1 DEF PacedInv
<1>1. CASE UNCHANGED vars
  BY <1>1 DEF vars, shared, recvVars, parseVars, PacedParts, Exclusive, RoomInv, ContentInv, ChunkInv,
       Count, Front, LastPut, Taken, Inserting, InPut, InGet
<1>2. CASE ResetWrite \/ ResetRead
  BY <1>2 DEF ResetWrite, ResetRead, PacedParts, Exclusive
<1>3. CASE GetNothing
  <2>1. UNCHANGED vars
    BY <1>3 DEF GetNothing, vars, shared, TypeIInv, TypeInv
  <2> QED
    BY <1>1, <2>1
<1>4. CASE Put
  BY <1>2, <1>4, PutLockPaced, MovePaced, MoveIndicesPaced, PutCopyPaced, GrowPaced DEF Put
<1>5. CASE Parse
  BY <1>3, <1>5, GetLockPaced, GetTestPaced, GetPacketPaced, GetRestPaced, RestLengthPaced,
     LoadPaced, StorePaced, WriteTsFilePaced DEF Parse
<1> QED
  BY <1>1, <1>4, <1>5, RecvDatagramPaced DEF Next

\* While the buffer is never overfull, no copy and no memmove leaves it, for any
\* size and any lengths of the datagrams.
THEOREM PacedStaysInBuffer == Spec => []StaysInBuffer
<1>1. Init => TypeIInv /\ PacedInv
  BY TypeInit, PacedInit
<1>2. (TypeIInv /\ PacedInv) /\ [Next]_vars => (TypeIInv /\ PacedInv)'
  BY TypeStep, PacedStep
<1>3. TypeIInv /\ PacedInv => StaysInBuffer
  <2> SUFFICES ASSUME TypeIInv, PacedParts, paced, ~m_mutex
               PROVE  read_index <= write_index
    BY DEF PacedInv, PacedParts, Exclusive, StaysInBuffer
  <2>1. ~InPut
    BY DEF PacedParts, Exclusive
  <2>2. Count = write_index - read_index /\ Count >= 0
    BY <2>1, Plain DEF PacedParts, RoomInv
  <2> QED
    BY <2>2, CountsAreNumbers DEF PacedParts
<1> QED
  BY <1>1, <1>2, <1>3, PTL DEF Spec

\* While the buffer is never overfull, the chunks are the bytes received, each
\* once and in their order, and short only when there is nothing behind them.
THEOREM PacedChunksInOrder == Spec => ChunksInOrder
<1> DEFINE InOrder == paced /\ InGet /\ ppc' = "file" =>
        /\ \A i \in 1 .. Len(UDP_buf) : UDP_buf[i] = written + i
        /\ Len(UDP_buf) < PacketLen => read_index' = write_index
<1>1. Init => TypeIInv /\ PacedInv
  BY TypeInit, PacedInit
<1>2. (TypeIInv /\ PacedInv) /\ [Next]_vars => (TypeIInv /\ PacedInv)'
  BY TypeStep, PacedStep
<1>3. (TypeIInv /\ PacedInv) /\ [Next]_vars => InOrder
  <2> SUFFICES ASSUME TypeIInv, PacedParts, [Next]_vars, paced, InGet, ppc' = "file"
               PROVE  InOrder
    BY DEF PacedInv
  <2>1. GetStore \/ RestStore
    BY DEF Next, Put, Parse, RecvDatagram, PutLock, ResetWrite, ResetRead, Move, MoveWrite, MoveRead,
         PutCopy, Grow, GetLock, GetNothing, GetTest, GetPacket, GetLoad, GetStore, GetRest,
         RestLength, RestLoad, RestStore, WriteTsFile, InGet, vars, parseVars
  <2>2. \A i \in 1 .. Len(UDP_buf) : UDP_buf[i] = written + i
    BY <2>1 DEF GetStore, RestStore, PacedParts, ChunkInv
  <2>3. CASE GetStore
    BY <2>2, <2>3 DEF GetStore, PacedParts, ChunkInv
  <2>4. CASE RestStore
    BY <2>2, <2>4 DEF RestStore, PacedParts, ChunkInv
  <2> QED
    BY <2>1, <2>3, <2>4
<1> QED
  BY <1>1, <1>2, <1>3, PTL DEF Spec, ChunksInOrder

===============================================================================
