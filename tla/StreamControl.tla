----------------------------- MODULE StreamControl -----------------------------
(***************************************************************************)
(* The command side of the forwarding tool (TsMediaTool.cpp, V1.0): main   *)
(* accepts connections and starts a thread for each (ThreadClient); the    *)
(* threads create, pause, resume and delete streams through a map from tid  *)
(* to stream that they share without a lock, and a thread whose connection *)
(* ends clears the whole map; each stream has a thread that sends it.      *)
(*                                                                         *)
(* A connection and the thread that main started for it have the same name. *)
(* A stream object is a number; a node of the map is named by the object   *)
(* in it (an object is inserted once), and 0 is no object, end() or NULL.  *)
(* Operations of the map are taken as atomic.                              *)
(***************************************************************************)
EXTENDS Integers

CONSTANTS
  Clients,       (* connections                                            *)
  MaxStreams,    (* bound: objects that are ever created                   *)
  Ticks,         (* values of the tick counter (2^32)                      *)
  Envs           (* surroundings to consider, each a subset of Behaviours  *)

\* Clients that send streampause and streamresume, that send streamstop, that
\* are connected at the same time, perhaps before the thread of the last
\* connection runs; files that cannot be opened.
Behaviours == {"pause", "delete", "overlap", "nofile"}

ASSUME StreamControlAssumption ==
  /\ MaxStreams \in Nat
  /\ Ticks \in Nat \ {0}
  /\ Envs \subseteq SUBSET Behaviours

VARIABLES
  env,                           (* what the surroundings do               *)
  tick,                          (* GetTickCount()                         *)
  mapTidObject,                  (* tid -> object, 0 where there is none   *)
  heap, tpc, m_bStop, m_bPause,  (* the objects and their threads          *)
  socktmp,                       (* main's variable, the last connection   *)
  cpc, sClient, ulTid, pSendObject, itFind,   (* client threads            *)
  told,                          (* client: tid -> the stream it asked for *)
  hungup,                        (* connections the client has closed      *)
  crashed                        (* a freed object or a dead node was used *)

objectVars == << heap, tpc, m_bStop, m_bPause >>
localVars == << cpc, ulTid, pSendObject, itFind >>
clientVars == << told, hungup >>
vars == << env, tick, mapTidObject, objectVars, socktmp, sClient, localVars, clientVars, crashed >>

Streams == 1 .. MaxStreams
Tids == 0 .. Ticks - 1
None == 0

Init ==
  /\ env \in Envs
  /\ tick \in Tids
  /\ mapTidObject = [ t \in Tids |-> None ]
  /\ heap = [ o \in Streams |-> "unborn" ]
  /\ tpc = [ o \in Streams |-> "none" ]
  /\ m_bStop = [ o \in Streams |-> FALSE ] /\ m_bPause = [ o \in Streams |-> FALSE ]
  /\ socktmp \in Clients
  /\ cpc = [ c \in Clients |-> "connecting" ]
  /\ sClient = [ c \in Clients |-> c ]
  /\ ulTid = [ c \in Clients |-> 0 ]
  /\ pSendObject = [ c \in Clients |-> None ] /\ itFind = [ c \in Clients |-> None ]
  /\ told = [ c \in Clients |-> [ t \in Tids |-> None ] ]
  /\ hungup = {}
  /\ crashed = FALSE

-------------------------------------------------------------------------------
(***************************************************************************)
(* Time, connections and the threads of the streams.                       *)
(***************************************************************************)

\* GetTickCount() goes up and wraps.
Tick ==
  /\ tick' = (tick + 1) % Ticks
  /\ UNCHANGED << env, mapTidObject, objectVars, socktmp, sClient, localVars, clientVars, crashed >>

\* accept() writes socktmp; the new thread is given the address of socktmp, and
\* nothing keeps the next accept() from writing it again before the thread reads.
Accept(c) ==
  /\ cpc[c] = "connecting"
  /\ "overlap" \notin env => \A d \in Clients : cpc[d] \in {"connecting", "gone"}
  /\ socktmp' = c
  /\ cpc' = [ cpc EXCEPT ![c] = "starting" ]
  /\ UNCHANGED << env, tick, mapTidObject, objectVars, sClient, ulTid, pSendObject, itFind, clientVars, crashed >>

HangUp(c) ==
  /\ cpc[c] # "connecting" /\ c \notin hungup
  /\ hungup' = hungup \cup {c}
  /\ UNCHANGED << env, tick, mapTidObject, objectVars, socktmp, sClient, localVars, told, crashed >>

\* The thread of a stream tests m_bStop, waits while m_bPause, and reads (and
\* sends) until the file ends.  It returns without resetting m_threadID when it
\* cannot open the file.
SendMediaUDP(o) ==
  /\ heap[o] = "alive"
  /\ \/ tpc[o] = "open" /\ tpc' = [ tpc EXCEPT ![o] = "top" ]
     \/ "nofile" \in env /\ tpc[o] = "open" /\ tpc' = [ tpc EXCEPT ![o] = "nofile" ]
     \/ tpc[o] = "top" /\ tpc' = [ tpc EXCEPT ![o] = IF m_bStop[o] THEN "done" ELSE "pause" ]
     \/ tpc[o] = "pause" /\ ~m_bPause[o] /\ tpc' = [ tpc EXCEPT ![o] = "read" ]
     \/ tpc[o] = "read" /\ tpc' = [ tpc EXCEPT ![o] = "top" ]
     \/ tpc[o] = "read" /\ tpc' = [ tpc EXCEPT ![o] = "done" ]
  /\ UNCHANGED << env, tick, mapTidObject, heap, m_bStop, m_bPause, socktmp, sClient, localVars, clientVars, crashed >>

\* m_threadID != 0: _beginthreadex has set it, the thread's last line clears it.
Running(o) == tpc[o] # "done"

-------------------------------------------------------------------------------
(***************************************************************************)
(* A client thread.  The client, at the other end of sClient, sends the    *)
(* next command when it has the reply to the last one, for tids it was told; *)
(* when several threads have read the same socket, any of them gets it.     *)
(***************************************************************************)

At(c, label) == cpc[c] = label
Goto(c, label) == cpc' = [ cpc EXCEPT ![c] = label ]

ReadSocket(c) ==
  /\ At(c, "starting")
  /\ sClient' = [ sClient EXCEPT ![c] = socktmp ]
  /\ Goto(c, "recv")
  /\ UNCHANGED << env, tick, mapTidObject, objectVars, socktmp, ulTid, pSendObject, itFind, clientVars, crashed >>

InCommand(c) == cpc[c] \in {"insert", "pausing", "resuming", "stopping"}

Receives(c) ==
  /\ At(c, "recv") /\ sClient[c] \notin hungup
  /\ \A d \in Clients : sClient[d] = sClient[c] => ~InCommand(d)

StartFind_NoFind(c) ==
  /\ Receives(c)
  /\ Goto(c, "insert") /\ ulTid' = [ ulTid EXCEPT ![c] = tick ]
  /\ UNCHANGED << env, tick, mapTidObject, objectVars, socktmp, sClient, pSendObject, itFind, clientVars, crashed >>

\* streamstart takes the time as tid, and refuses one that is in the map.
StartFind(c) ==
  /\ Receives(c)
  /\ mapTidObject[tick] = None
  /\ Goto(c, "insert") /\ ulTid' = [ ulTid EXCEPT ![c] = tick ]
  /\ UNCHANGED << env, tick, mapTidObject, objectVars, socktmp, sClient, pSendObject, itFind, clientVars, crashed >>

\* The command's own variables are not read again: ulTid is left, pSendObject is
\* set before the next use.
Forget(c) ==
  /\ ulTid' = [ ulTid EXCEPT ![c] = 0 ]
  /\ pSendObject' = [ pSendObject EXCEPT ![c] = None ]

\* The new object starts its thread; map::insert keeps an entry that is there;
\* the reply tells the client the tid.
StartInsert(c) ==
  /\ At(c, "insert")
  /\ \E o \in Streams :
       /\ heap[o] = "unborn"
       /\ \A p \in Streams : heap[p] = "unborn" => o <= p
       /\ heap' = [ heap EXCEPT ![o] = "alive" ]
       /\ tpc' = [ tpc EXCEPT ![o] = "open" ]
       /\ mapTidObject' = IF mapTidObject[ulTid[c]] = None
                          THEN [ mapTidObject EXCEPT ![ulTid[c]] = o ] ELSE mapTidObject
       /\ told' = [ told EXCEPT ![sClient[c]][ulTid[c]] = o ]
  /\ Forget(c) /\ Goto(c, "recv")
  /\ UNCHANGED << env, tick, m_bStop, m_bPause, socktmp, sClient, itFind, hungup, crashed >>

\* find() of a tid the client was told; one that is gone changes nothing.
Find(c, label) ==
  \E t \in Tids :
    /\ told[sClient[c]][t] # None /\ mapTidObject[t] # None
    /\ ulTid' = [ ulTid EXCEPT ![c] = t ]
    /\ pSendObject' = [ pSendObject EXCEPT ![c] = mapTidObject[t] ]
    /\ Goto(c, label)

PauseOrResumeFind(c) ==
  /\ Receives(c) /\ "pause" \in env
  /\ Find(c, "pausing") \/ Find(c, "resuming")
  /\ UNCHANGED << env, tick, mapTidObject, objectVars, socktmp, sClient, itFind, clientVars, crashed >>

\* The object the thread holds has not been deleted by another.
Holds(c) == heap[pSendObject[c]] = "alive"

\* SetMediaPause through the pointer that find() gave.
SetMediaPause(c) ==
  /\ At(c, "pausing") \/ At(c, "resuming")
  /\ Holds(c)
  /\ m_bPause' = [ m_bPause EXCEPT ![pSendObject[c]] = At(c, "pausing") ]
  /\ Forget(c) /\ Goto(c, "recv")
  /\ UNCHANGED << env, tick, mapTidObject, heap, tpc, m_bStop, socktmp, sClient, itFind, clientVars, crashed >>

StopFind(c) ==
  /\ Receives(c) /\ "delete" \in env
  /\ Find(c, "stopping")
  /\ UNCHANGED << env, tick, mapTidObject, objectVars, socktmp, sClient, itFind, clientVars, crashed >>

StopWait_NoStop(c) ==
  /\ At(c, "stopping") \/ At(c, "clearing")
  /\ Holds(c) /\ Running(pSendObject[c])
  /\ UNCHANGED vars

\* A round of the loop that waits for the thread of the stream to end.
StopWait(c) ==
  /\ At(c, "stopping") \/ At(c, "clearing")
  /\ Holds(c) /\ Running(pSendObject[c])
  /\ m_bStop' = [ m_bStop EXCEPT ![pSendObject[c]] = TRUE ]
  /\ UNCHANGED << env, tick, mapTidObject, heap, tpc, m_bPause, socktmp, sClient, localVars, clientVars, crashed >>

\* The delete behind the loop.
Delete(c) ==
  /\ Holds(c) /\ ~Running(pSendObject[c])
  /\ heap' = [ heap EXCEPT ![pSendObject[c]] = "deleted" ]

\* streamstop leaves the entry in the map.  The client has no more use for it.
StopDelete(c) ==
  /\ At(c, "stopping")
  /\ Delete(c)
  /\ told' = [ told EXCEPT ![sClient[c]][ulTid[c]] = None ]
  /\ Forget(c) /\ Goto(c, "recv")
  /\ UNCHANGED << env, tick, mapTidObject, tpc, m_bStop, m_bPause, socktmp, sClient, itFind, hungup, crashed >>

\* The node begin() of the map points to, or end().
IsBegin(it, map) ==
  \/ it = None /\ \A t \in Tids : map[t] = None
  \/ it # None /\ \E t \in Tids : map[t] = it /\ \A u \in Tids : map[u] # None => t <= u

FindBegin(c, map) ==
  \E it \in Streams \cup {None} : IsBegin(it, map) /\ itFind' = [ itFind EXCEPT ![c] = it ]

Disconnect(c) ==
  /\ At(c, "recv") /\ sClient[c] \in hungup
  /\ FindBegin(c, mapTidObject)
  /\ Goto(c, "clear")
  /\ UNCHANGED << env, tick, mapTidObject, objectVars, socktmp, sClient, ulTid, pSendObject, clientVars, crashed >>

\* while (mapTidObject.size() > 0)
MapEmpty == \A t \in Tids : mapTidObject[t] = None

\* The node an iterator points to is in the map.
Valid(it) == it # None /\ \E t \in Tids : mapTidObject[t] = it

ClearEnd(c) ==
  /\ At(c, "clear") /\ MapEmpty
  /\ itFind' = [ itFind EXCEPT ![c] = None ]
  /\ Goto(c, "gone")
  /\ UNCHANGED << env, tick, mapTidObject, objectVars, socktmp, sClient, ulTid, pSendObject, clientVars, crashed >>

ClearNext(c) ==
  /\ At(c, "clear") /\ ~MapEmpty /\ Valid(itFind[c])
  /\ pSendObject' = [ pSendObject EXCEPT ![c] = itFind[c] ]
  /\ Goto(c, "clearing")
  /\ UNCHANGED << env, tick, mapTidObject, objectVars, socktmp, sClient, ulTid, itFind, clientVars, crashed >>

ClearDelete(c) ==
  /\ At(c, "clearing")
  /\ Delete(c)
  /\ Forget(c) /\ Goto(c, "erase")
  /\ UNCHANGED << env, tick, mapTidObject, tpc, m_bStop, m_bPause, socktmp, sClient, itFind, clientVars, crashed >>

ClearErase_Keep(c) ==
  /\ At(c, "erase") /\ Valid(itFind[c])
  /\ FindBegin(c, mapTidObject)
  /\ Goto(c, "clear")
  /\ UNCHANGED << env, tick, mapTidObject, objectVars, socktmp, sClient, ulTid, pSendObject, clientVars, crashed >>

ClearErase(c) ==
  /\ At(c, "erase") /\ Valid(itFind[c])
  /\ LET erased == [ t \in Tids |-> IF mapTidObject[t] = itFind[c] THEN None ELSE mapTidObject[t] ]
     IN  mapTidObject' = erased /\ FindBegin(c, erased)
  /\ Goto(c, "clear")
  /\ UNCHANGED << env, tick, objectVars, socktmp, sClient, ulTid, pSendObject, clientVars, crashed >>

\* The thread reads a deleted object or follows an iterator to no node.
UseFreed(c) ==
  /\ \/ cpc[c] \in {"pausing", "resuming", "stopping", "clearing"} /\ ~Holds(c)
     \/ At(c, "clear") /\ ~MapEmpty /\ ~Valid(itFind[c])
     \/ At(c, "erase") /\ ~Valid(itFind[c])
  /\ crashed' = TRUE
  /\ UNCHANGED << env, tick, mapTidObject, objectVars, socktmp, sClient, localVars, clientVars >>

-------------------------------------------------------------------------------
\* What the thread does by itself once it has a command or a closed connection.
ThreadClient(c) ==
  \/ ReadSocket(c) \/ StartInsert(c) \/ SetMediaPause(c)
  \/ StopWait(c) \/ StopDelete(c)
  \/ Disconnect(c) \/ ClearEnd(c) \/ ClearNext(c) \/ ClearDelete(c) \/ ClearErase(c)
  \/ UseFreed(c)

Command(c) == StartFind(c) \/ PauseOrResumeFind(c) \/ StopFind(c)

\* After a use of freed memory nothing is claimed.
Next ==
  \/ /\ ~crashed
     /\ \/ Tick
        \/ \E c \in Clients : Accept(c) \/ HangUp(c) \/ Command(c) \/ ThreadClient(c)
        \/ \E o \in Streams : SendMediaUDP(o)
  \/ crashed /\ UNCHANGED vars

Spec == Init /\ [][Next]_vars

\* Threads run.  Nobody makes a client connect, send a command or hang up.
FairSpec ==
  /\ Spec
  /\ \A c \in Clients : WF_vars(~crashed /\ ThreadClient(c))
  /\ \A o \in Streams : WF_vars(~crashed /\ SendMediaUDP(o))

-------------------------------------------------------------------------------
(***************************************************************************)
(* Properties.                                                             *)
(***************************************************************************)

TypeInv ==
  /\ env \in Envs
  /\ tick \in Tids
  /\ mapTidObject \in [ Tids -> Streams \cup {None} ]
  /\ heap \in [ Streams -> {"unborn", "alive", "deleted"} ]
  /\ tpc \in [ Streams -> {"none", "open", "nofile", "top", "pause", "read", "done"} ]
  /\ m_bStop \in [ Streams -> BOOLEAN ] /\ m_bPause \in [ Streams -> BOOLEAN ]
  /\ socktmp \in Clients
  /\ cpc \in [ Clients -> {"connecting", "starting", "recv", "insert", "pausing", "resuming",
                           "stopping", "clear", "clearing", "erase", "gone"} ]
  /\ sClient \in [ Clients -> Clients ]
  /\ ulTid \in [ Clients -> Tids ]
  /\ pSendObject \in [ Clients -> Streams \cup {None} ]
  /\ itFind \in [ Clients -> Streams \cup {None} ]
  /\ told \in [ Clients -> [ Tids -> Streams \cup {None} ] ]
  /\ hungup \subseteq Clients
  /\ crashed \in BOOLEAN

\* Clients that come one after the other and leave the deletion to the
\* disconnect bring no thread to use a deleted object or a dead iterator.
NeverUndefined == crashed => "delete" \in env \/ "overlap" \in env

\* Unless clients overlap, every stream that is alive can be found: no thread
\* sends on that no command and no disconnect can end.
NoOrphan ==
  "overlap" \notin env =>
    \A o \in Streams : heap[o] = "alive" => \E t \in Tids : mapTidObject[t] = o

\* Unless clients overlap, the tid a client was told names the stream it asked
\* for, and no other, even when the tick counter comes round.
TidNamesOwnStream ==
  "overlap" \notin env =>
    \A c \in Clients, t \in Tids :
      told[c][t] # None /\ c \notin hungup => mapTidObject[t] = told[c][t]

\* A session that has ended leaves no stream behind, so the next one starts on
\* an empty map.
NothingLeft ==
  "overlap" \notin env /\ (\A c \in Clients : cpc[c] \in {"connecting", "gone"}) =>
    \A o \in Streams : heap[o] # "alive"

\* The streamstop of a stream that is not paused and has a file returns.
StopEnds ==
  \A c \in Clients :
    (cpc[c] = "stopping" /\ ~m_bPause[pSendObject[c]] /\ "nofile" \notin env)
      ~> (cpc[c] # "stopping" \/ crashed)

\* A disconnect with no stream paused ends all streams and closes the socket.
CloseEnds ==
  \A c \in Clients :
    (cpc[c] = "clear" /\ (\A o \in Streams : ~m_bPause[o]) /\ "nofile" \notin env)
      ~> (cpc[c] = "gone" \/ crashed)

\* The manual says that the delete command is supported: with or without it, no
\* thread uses a deleted object.
DeleteIsSafe == "overlap" \notin env => ~crashed

\* The manual says that several streams can be forwarded: a client that is
\* connected keeps its streams until it deletes them itself.
StreamsOfOthersStay ==
  \A c \in Clients, t \in Tids :
    told[c][t] # None /\ c \notin hungup /\ cpc[c] # "stopping" => heap[told[c][t]] = "alive"
================================================================================
