----------------------------- MODULE DelayBuffer ------------------------------
(***************************************************************************)
(* The delay meter (TimeDelayParse/Main): the receiving thread puts the    *)
(* datagrams of its socket into a linear buffer, the parsing thread takes  *)
(* chunks of at most one transport packet out of it, writes them to the    *)
(* recording and parses them.  A byte is identified with its position in   *)
(* what was received; 0 is a byte of memory that was never written, or of a *)
(* chunk taken earlier.                                                    *)
(*                                                                         *)
(* When the buffer is full PutInBuff unlocks, resets both indices without  *)
(* the lock, and unlocks again at its end.  The mutex is a default one: an *)
(* unlock by a thread that does not hold it succeeds and frees it for      *)
(* whoever comes, so that the steps between two accesses of shared memory  *)
(* are actions of their own.                                               *)
(*                                                                         *)
(* A definition named X_Fault is definition X with the slip its name says;  *)
(* it is used only to see which property notices.                          *)
(***************************************************************************)
EXTENDS Integers, Sequences

CONSTANTS
  BufMax,        (* buffer_max_size                                        *)
  PacketLen,     (* iGetlen                                                *)
  Datagrams,     (* lengths of the datagrams                               *)
  MaxBytes,      (* bound on the bytes received                            *)
  Paces          (* {TRUE}: no datagram comes that finds no room           *)

ASSUME DelayAssumption ==
  /\ PacketLen \in 1 .. BufMax /\ BufMax \in Nat /\ MaxBytes \in Nat
  /\ Datagrams \subseteq 1 .. BufMax
  /\ Paces \subseteq BOOLEAN

VARIABLES
  paced,         (* constant of a behaviour: an element of Paces           *)
  buffer,        (* bytes 0 .. BufMax - 1                                  *)
  read_index, write_index,
  m_mutex,       (* held by somebody                                       *)
  rpc, len,      (* receiving thread: place, length of the datagram        *)
  recvd,         (* bytes received                                         *)
  reset,         (* this PutInBuff went through the reset                  *)
  ppc, loaded,   (* parsing thread: place, value read for read_index       *)
  UDP_buf,       (* the chunk that GetBuff copied last, of length *ilen    *)
  written,       (* last byte written to the recording                     *)
  undefined      (* memmove got a negative length, or a copy left buffer   *)

shared == << buffer, read_index, write_index, m_mutex >>
recvVars == << rpc, len, recvd, reset >>
parseVars == << ppc, loaded, UDP_buf, written >>
vars == << paced, shared, recvVars, parseVars, undefined >>

Available == write_index - read_index
Overfull(n) == Available + n > BufMax                               \* line 233
NoRoomBehind(n) == BufMax - write_index < n                         \* line 246
Nothing_LessThanPacket == Available < PacketLen
Nothing == Available <= 0                                           \* line 266

-------------------------------------------------------------------------------
Init ==
  /\ paced \in Paces
  /\ buffer = [ i \in 0 .. BufMax - 1 |-> 0 ]
  /\ read_index = 0 /\ write_index = 0 /\ m_mutex = FALSE
  /\ rpc = "recv" /\ len = 0 /\ recvd = 0 /\ reset = FALSE
  /\ ppc = "get" /\ loaded = 0 /\ UDP_buf = << >> /\ written = 0
  /\ undefined = FALSE

(* TS_Recv_Thread and PutInBuff. *)

\* recvfrom gives a datagram.
RecvDatagram(n) ==
  /\ ~undefined /\ rpc = "recv" /\ recvd + n <= MaxBytes
  /\ paced => ~Overfull(n)
  /\ rpc' = "put" /\ len' = n /\ recvd' = recvd + n /\ reset' = FALSE
  /\ UNCHANGED << paced, shared, parseVars, undefined >>

AfterTest == IF NoRoomBehind(len) THEN "move" ELSE "append"

PutLock ==
  /\ ~undefined /\ rpc = "put" /\ ~m_mutex
  /\ IF Overfull(len)
     THEN rpc' = "resetWrite" /\ m_mutex' = FALSE /\ reset' = TRUE
     ELSE rpc' = AfterTest /\ m_mutex' = TRUE /\ UNCHANGED reset
  /\ UNCHANGED << paced, buffer, read_index, write_index, len, recvd,
                  parseVars, undefined >>

ResetWrite ==
  /\ ~undefined /\ rpc = "resetWrite"
  /\ write_index' = 0 /\ rpc' = "resetRead"
  /\ UNCHANGED << paced, buffer, read_index, m_mutex, len, recvd, reset,
                  parseVars, undefined >>

ResetRead ==
  /\ ~undefined /\ rpc = "resetRead"
  /\ read_index' = 0 /\ rpc' = AfterTest
  /\ UNCHANGED << paced, buffer, write_index, m_mutex, len, recvd, reset,
                  parseVars, undefined >>

\* memmove of what is still unread to the front.
Move ==
  /\ ~undefined /\ rpc = "move"
  /\ IF Available < 0 \/ read_index < 0
     THEN undefined' = TRUE /\ UNCHANGED buffer
     ELSE /\ buffer' = [ i \in DOMAIN buffer |->
                           IF i < Available THEN buffer[read_index + i]
                           ELSE buffer[i] ]
          /\ UNCHANGED undefined
  /\ rpc' = "moveWrite"
  /\ UNCHANGED << paced, read_index, write_index, m_mutex, len, recvd, reset,
                  parseVars >>

MoveWrite ==
  /\ ~undefined /\ rpc = "moveWrite"
  /\ write_index' = Available /\ rpc' = "moveRead"
  /\ UNCHANGED << paced, buffer, read_index, m_mutex, len, recvd, reset,
                  parseVars, undefined >>

MoveRead_Forgotten ==
  /\ ~undefined /\ rpc = "moveRead"
  /\ read_index' = read_index /\ rpc' = "append"
  /\ UNCHANGED << paced, buffer, write_index, m_mutex, len, recvd, reset,
                  parseVars, undefined >>

MoveRead ==
  /\ ~undefined /\ rpc = "moveRead"
  /\ read_index' = 0 /\ rpc' = "append"
  /\ UNCHANGED << paced, buffer, write_index, m_mutex, len, recvd, reset,
                  parseVars, undefined >>

\* memcpy of the datagram behind what is there.
PutCopy ==
  /\ ~undefined /\ rpc = "append"
  /\ IF write_index < 0 \/ write_index + len > BufMax
     THEN undefined' = TRUE /\ UNCHANGED buffer
     ELSE /\ buffer' = [ i \in DOMAIN buffer |->
                           IF i \in write_index .. write_index + len - 1
                           THEN recvd - len + 1 + i - write_index
                           ELSE buffer[i] ]
          /\ UNCHANGED undefined
  /\ rpc' = "grow"
  /\ UNCHANGED << paced, read_index, write_index, m_mutex, len, recvd, reset,
                  parseVars >>

\* write_index += recv_len and the unlock, which frees the mutex whoever has it.
Grow ==
  /\ ~undefined /\ rpc = "grow"
  /\ write_index' = write_index + len /\ m_mutex' = FALSE /\ rpc' = "recv"
  /\ UNCHANGED << paced, buffer, read_index, len, recvd, reset, parseVars,
                  undefined >>

(* Parse_recv_thread and GetBuff. *)

\* lock, and the test: with nothing there, unlock and try again after a sleep.
GetLock ==
  /\ ~undefined /\ ppc = "get" /\ ~m_mutex
  /\ ~Nothing
  /\ m_mutex' = TRUE /\ ppc' = "test"
  /\ UNCHANGED << paced, buffer, read_index, write_index, recvVars, loaded,
                  UDP_buf, written, undefined >>

GetNothing_KeepsLock ==
  /\ ~undefined /\ ppc = "get" /\ ~m_mutex
  /\ Nothing /\ m_mutex' = TRUE
  /\ UNCHANGED << paced, buffer, read_index, write_index, recvVars, parseVars,
                  undefined >>

GetNothing ==
  /\ ~undefined /\ ppc = "get" /\ ~m_mutex
  /\ Nothing /\ m_mutex' = FALSE
  /\ UNCHANGED << paced, buffer, read_index, write_index, recvVars, parseVars,
                  undefined >>

\* Is there a packet?
GetTest ==
  /\ ~undefined /\ ppc = "test"
  /\ ppc' = IF Available >= PacketLen THEN "packet" ELSE "rest"
  /\ UNCHANGED << paced, shared, recvVars, loaded, UDP_buf, written, undefined >>

\* memcpy of n bytes at the read index.
Copy(n) ==
  IF n < 0 \/ read_index < 0 \/ read_index + n > BufMax
  THEN undefined' = TRUE /\ UNCHANGED UDP_buf
  ELSE /\ UDP_buf' = [ i \in 1 .. n |-> buffer[read_index + i - 1] ]
       /\ UNCHANGED undefined

GetPacket ==
  /\ ~undefined /\ ppc = "packet"
  /\ Copy(PacketLen)
  /\ ppc' = "load"
  /\ UNCHANGED << paced, shared, recvVars, loaded, written >>

\* read_index += iGetlen reads the index ...
GetLoad ==
  /\ ~undefined /\ ppc = "load"
  /\ loaded' = read_index /\ ppc' = "store"
  /\ UNCHANGED << paced, shared, recvVars, UDP_buf, written, undefined >>

\* ... and writes it back; unlock.
GetStore ==
  /\ ~undefined /\ ppc = "store"
  /\ read_index' = loaded + PacketLen
  /\ m_mutex' = FALSE /\ ppc' = "file"
  /\ UNCHANGED << paced, buffer, write_index, recvVars, loaded, UDP_buf,
                  written, undefined >>

\* Less than a packet: all there is, ...
GetRest ==
  /\ ~undefined /\ ppc = "rest"
  /\ Copy(Available)
  /\ ppc' = "length"
  /\ UNCHANGED << paced, shared, recvVars, loaded, written >>

\* ... whose length is computed again for the caller, ...
RestLength ==
  /\ ~undefined /\ ppc = "length"
  /\ UDP_buf' = [ i \in 1 .. Available |-> IF i <= Len(UDP_buf) THEN UDP_buf[i] ELSE 0 ]
  /\ ppc' = "loadRest"
  /\ UNCHANGED << paced, shared, recvVars, loaded, written, undefined >>

\* ... and read_index = write_index reads the one index ...
RestLoad ==
  /\ ~undefined /\ ppc = "loadRest"
  /\ loaded' = write_index /\ ppc' = "storeRest"
  /\ UNCHANGED << paced, shared, recvVars, UDP_buf, written, undefined >>

\* ... and writes the other; unlock.
RestStore ==
  /\ ~undefined /\ ppc = "storeRest"
  /\ read_index' = loaded
  /\ m_mutex' = FALSE /\ ppc' = "file"
  /\ UNCHANGED << paced, buffer, write_index, recvVars, loaded, UDP_buf,
                  written, undefined >>

\* WriteTsFile and ParseTSData of the chunk, if its length is positive.
WriteTsFile ==
  /\ ~undefined /\ ppc = "file"
  /\ written' = IF UDP_buf = << >> THEN written ELSE UDP_buf[Len(UDP_buf)]
  /\ ppc' = "get"
  /\ UNCHANGED << paced, shared, recvVars, loaded, UDP_buf, undefined >>

-------------------------------------------------------------------------------
Put == \/ PutLock \/ ResetWrite \/ ResetRead
       \/ Move \/ MoveWrite \/ MoveRead \/ PutCopy \/ Grow

Parse == \/ GetLock \/ GetNothing \/ GetTest
         \/ GetPacket \/ GetLoad \/ GetStore
         \/ GetRest \/ RestLength \/ RestLoad \/ RestStore
         \/ WriteTsFile

Next == Put \/ Parse \/ \E n \in Datagrams : RecvDatagram(n)

Spec == Init /\ [][Next]_vars

\* Both threads loop for ever.  Datagrams need not come, but a thread that is
\* inside PutInBuff or GetBuff goes on, and no thread waits for ever for a
\* mutex that becomes free again and again.
Fairness ==
  /\ SF_vars(PutLock) /\ SF_vars(GetLock)
  /\ WF_vars(Put) /\ WF_vars(Parse)

FairSpec == Spec /\ Fairness

-------------------------------------------------------------------------------
(* Properties. *)

\* The variables have their types.
TypeInv ==
  /\ paced \in Paces /\ m_mutex \in BOOLEAN /\ reset \in BOOLEAN
  /\ undefined \in BOOLEAN
  /\ buffer \in [ 0 .. BufMax - 1 -> 0 .. MaxBytes ]
  /\ read_index \in -BufMax .. BufMax /\ write_index \in -BufMax .. BufMax
  /\ rpc \in { "recv", "put", "resetWrite", "resetRead", "move", "moveWrite",
               "moveRead", "append", "grow" }
  /\ len \in Datagrams \cup { 0 } /\ recvd \in 0 .. MaxBytes
  /\ ppc \in { "get", "test", "packet", "load", "store",
               "rest", "length", "loadRest", "storeRest", "file" }
  /\ loaded \in -BufMax .. BufMax /\ written \in 0 .. MaxBytes
  /\ UDP_buf \in Seq(0 .. MaxBytes)

\* While the buffer is never overfull, no copy of PutInBuff or GetBuff and no
\* memmove leaves the buffer, whatever the lengths of the datagrams and
\* wherever the unread bytes lie, and what is unread is never negative when a
\* thread enters a critical section.
StaysInBuffer ==
  paced => /\ ~undefined
           /\ ~m_mutex => read_index <= write_index

\* The parsing thread is inside its critical section.
InGet == ppc \notin { "get", "file" }

\* While the buffer is never overfull, the chunks that are parsed and recorded
\* are the bytes received, in their order, none twice and none left out, and a
\* chunk is shorter than a packet only if nothing was there behind it.
ChunksInOrder ==
  [][ paced /\ InGet /\ ppc' = "file" =>
        /\ \A i \in 1 .. Len(UDP_buf) : UDP_buf[i] = written + i
        /\ Len(UDP_buf) < PacketLen => read_index' = write_index
    ]_vars

\* While the buffer is never overfull, what was received is recorded in the end:
\* the last bytes do not wait for a packet to become full.
BytesFlow ==
  \A n \in 1 .. MaxBytes : paced /\ recvd >= n ~> written >= n

\* The double unlock never loses the mutex: with or without resets, a thread
\* that wants to put gets in, unless memory was corrupted before.
PutGetsIn == rpc = "put" ~> rpc # "put" \/ undefined

\* The message of PutInBuff (TimeDelayParser.cpp:236) says that the buffer "will
\* reset", and its comment (239) says so of the two assignments: once they are
\* made and until the new datagram is there, the buffer is empty.
ResetEmpties == reset /\ rpc = "append" => read_index = write_index
===============================================================================
