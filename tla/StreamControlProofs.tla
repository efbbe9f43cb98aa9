------------------------- MODULE StreamControlProofs -------------------------
(***************************************************************************)
(* Theorems about StreamControl, for any clients, streams, number of ticks *)
(* and surroundings.                                                       *)
(***************************************************************************)
EXTENDS StreamControl, TLAPS

\* CreateUnique: the tick counter stays in its range when it wraps.
LEMMA TickWraps ==
  ASSUME NEW t \in Tids
  PROVE  (t + 1) % Ticks \in Tids
<1>1. Ticks \in Nat /\ Ticks > 0 /\ t + 1 \in Nat BY StreamControlAssumption DEF Tids
<1>2. (t + 1) % Ticks \in 0 .. Ticks - 1 BY <1>1
<1> QED BY <1>2 DEF Tids

\* ulTid of a thread with no command is in range.
LEMMA ZeroIsTid == 0 \in Tids
BY StreamControlAssumption DEF Tids

-------------------------------------------------------------------------------
(***************************************************************************)
(* Type correctness.                                                       *)
(***************************************************************************)

LEMMA TypeInit == Init => TypeInv
<1> SUFFICES ASSUME Init
             PROVE  TypeInv
  OBVIOUS
<1>1. env \in Envs /\ tick \in Tids /\ socktmp \in Clients /\ hungup \subseteq Clients /\ crashed \in BOOLEAN
  BY DEF Init
<1>2. /\ mapTidObject \in [ Tids -> Streams \cup {None} ]
      /\ told \in [ Clients -> [ Tids -> Streams \cup {None} ] ]
      /\ heap \in [ Streams -> {"unborn", "alive", "deleted"} ]
      /\ tpc \in [ Streams -> {"none", "open", "nofile", "top", "pause", "read", "done"} ]
      /\ m_bStop \in [ Streams -> BOOLEAN ] /\ m_bPause \in [ Streams -> BOOLEAN ]
  BY DEF Init
<1>3. /\ cpc \in [ Clients -> {"connecting", "starting", "recv", "insert", "pausing", "resuming",
                               "stopping", "clear", "clearing", "erase", "gone"} ]
      /\ sClient \in [ Clients -> Clients ]
      /\ ulTid \in [ Clients -> Tids ]
      /\ pSendObject \in [ Clients -> Streams \cup {None} ]
      /\ itFind \in [ Clients -> Streams \cup {None} ]
  BY ZeroIsTid DEF Init
<1> QED BY <1>1, <1>2, <1>3 DEF TypeInv

LEMMA TypeStep == TypeInv /\ [Next]_vars => TypeInv'
<1> SUFFICES ASSUME TypeInv, [Next]_vars
             PROVE  TypeInv'
  OBVIOUS
<1> USE DEF TypeInv, None, Goto, Forget, At, objectVars, localVars, clientVars
<1>1. CASE UNCHANGED vars
  BY <1>1 DEF vars
<1>2. CASE Tick
  BY <1>2, TickWraps DEF Tick
<1>3. ASSUME NEW c \in Clients, Accept(c)
      PROVE  TypeInv'
  BY <1>3 DEF Accept
<1>4. ASSUME NEW c \in Clients, HangUp(c)
      PROVE  TypeInv'
  BY <1>4 DEF HangUp
<1>5. ASSUME NEW c \in Clients, StartFind(c)
      PROVE  TypeInv'
  BY <1>5 DEF StartFind, Receives
<1>6. ASSUME NEW c \in Clients, PauseOrResumeFind(c)
      PROVE  TypeInv'
  <2>1. CASE Find(c, "pausing")
    BY <1>6, <2>1 DEF PauseOrResumeFind, Find
  <2>2. CASE Find(c, "resuming")
    BY <1>6, <2>2 DEF PauseOrResumeFind, Find
  <2> QED BY <1>6, <2>1, <2>2 DEF PauseOrResumeFind
<1>7. ASSUME NEW c \in Clients, StopFind(c)
      PROVE  TypeInv'
  BY <1>7 DEF StopFind, Receives, Find
<1>8. ASSUME NEW c \in Clients, ReadSocket(c)
      PROVE  TypeInv'
  BY <1>8 DEF ReadSocket
<1>9. ASSUME NEW c \in Clients, StartInsert(c)
      PROVE  TypeInv'
  BY <1>9, ZeroIsTid DEF StartInsert
<1>10. ASSUME NEW c \in Clients, SetMediaPause(c)
      PROVE  TypeInv'
  BY <1>10, ZeroIsTid DEF SetMediaPause
<1>11. ASSUME NEW c \in Clients, StopWait(c)
      PROVE  TypeInv'
  BY <1>11 DEF StopWait
<1>12. ASSUME NEW c \in Clients, StopDelete(c)
      PROVE  TypeInv'
  BY <1>12, ZeroIsTid DEF StopDelete, Delete
<1>13. ASSUME NEW c \in Clients, Disconnect(c)
      PROVE  TypeInv'
  BY <1>13 DEF Disconnect, FindBegin
<1>14. ASSUME NEW c \in Clients, ClearEnd(c)
      PROVE  TypeInv'
  BY <1>14 DEF ClearEnd
<1>15. ASSUME NEW c \in Clients, ClearNext(c)
      PROVE  TypeInv'
  BY <1>15 DEF ClearNext, Valid
<1>16. ASSUME NEW c \in Clients, ClearDelete(c)
      PROVE  TypeInv'
  BY <1>16, ZeroIsTid DEF ClearDelete, Delete
<1>17. ASSUME NEW c \in Clients, ClearErase(c)
      PROVE  TypeInv'
  BY <1>17 DEF ClearErase, FindBegin, Valid
<1>18. ASSUME NEW c \in Clients, UseFreed(c)
      PROVE  TypeInv'
  BY <1>18 DEF UseFreed
<1>19. ASSUME NEW o \in Streams, SendMediaUDP(o)
      PROVE  TypeInv'
  BY <1>19 DEF SendMediaUDP
<1> QED
  BY <1>1, <1>2, <1>3, <1>4, <1>5, <1>6, <1>7, <1>8, <1>9, <1>10, <1>11, <1>12, <1>13, <1>14, <1>15, <1>16, <1>17, <1>18, <1>19 DEF Next, Command, ThreadClient

\* The variables of the command side keep their types.
THEOREM TypeCorrect == Spec => []TypeInv
BY TypeInit, TypeStep, PTL DEF Spec

-------------------------------------------------------------------------------
(***************************************************************************)
(* Clients that come one after the other.  Only one client thread is at    *)
(* work then, so what it found in the map is still there when it uses it.  *)
(***************************************************************************)

Active(c) == cpc[c] \notin {"connecting", "gone"}

OneActive == \A c, d \in Clients : Active(c) /\ Active(d) => c = d

OwnSocket ==
  \A c \in Clients : sClient[c] = c /\ (cpc[c] = "starting" => socktmp = c)

InsertFree == \A c \in Clients : cpc[c] = "insert" => mapTidObject[ulTid[c]] = None

\* The object that is deleted is the one that is erased.
ClearsInStep ==
  \A c \in Clients :
    /\ cpc[c] = "clearing" => pSendObject[c] = itFind[c] /\ itFind[c] # None
    /\ cpc[c] = "erase" => itFind[c] # None /\ heap[itFind[c]] = "deleted"

Findable == \A o \in Streams : heap[o] = "alive" => \E t \in Tids : mapTidObject[t] = o

ToldLater ==
  \A c \in Clients : cpc[c] \in {"connecting", "starting"} => \A t \in Tids : told[c][t] = None

ClearsAfterHangUp ==
  \A c \in Clients : cpc[c] \in {"clear", "clearing", "erase", "gone"} => c \in hungup

ToldIsMapped ==
  \A c \in Clients, t \in Tids :
    told[c][t] # None /\ c \notin hungup => mapTidObject[t] = told[c][t]

IdleEmpty == (\A c \in Clients : ~Active(c)) => MapEmpty

SerialInv ==
  "overlap" \notin env =>
    /\ OneActive /\ OwnSocket /\ InsertFree /\ ClearsInStep /\ Findable
    /\ ToldLater /\ ClearsAfterHangUp /\ ToldIsMapped /\ IdleEmpty

\* Without streamstop, what is in the map is alive, except the node that is
\* about to be erased.
MapAlive ==
  \A t \in Tids :
    mapTidObject[t] # None =>
      \/ heap[mapTidObject[t]] = "alive"
      \/ \E c \in Clients : cpc[c] = "erase" /\ itFind[c] = mapTidObject[t]

HoldsWhatItUses ==
  \A c \in Clients :
    /\ cpc[c] # "stopping"
    /\ cpc[c] \in {"pausing", "resuming", "clearing"} =>
         pSendObject[c] \in Streams /\ heap[pSendObject[c]] = "alive"
    /\ cpc[c] = "clear" => MapEmpty \/ Valid(itFind[c])
    /\ cpc[c] \in {"clearing", "erase"} => Valid(itFind[c])

SafeInv ==
  "overlap" \notin env /\ "delete" \notin env => MapAlive /\ HoldsWhatItUses /\ ~crashed

LEMMA EnvIsRigid == [Next]_vars => env' = env
BY DEF Next, Command, ThreadClient, Tick, Accept, HangUp, StartFind, PauseOrResumeFind, StopFind,
     ReadSocket, StartInsert, SetMediaPause, StopWait, StopDelete, Disconnect, ClearEnd, ClearNext,
     ClearDelete, ClearErase, UseFreed, SendMediaUDP, vars
LEMMA SerialStep == TypeInv /\ SerialInv /\ [Next]_vars => SerialInv'
<1> SUFFICES ASSUME TypeInv, SerialInv, [Next]_vars, "overlap" \notin env, env' = env
             PROVE  SerialInv'
  BY EnvIsRigid DEF SerialInv
<1> USE DEF TypeInv, SerialInv, OneActive, OwnSocket, InsertFree, ClearsInStep, Findable, ToldLater,
       ClearsAfterHangUp, ToldIsMapped, IdleEmpty, MapEmpty, Active, At, Goto, Forget, None,
       objectVars, localVars, clientVars
<1>1. CASE UNCHANGED vars
  BY <1>1 DEF vars
<1>2. CASE Tick
  BY <1>2 DEF Tick
<1>3. ASSUME NEW c \in Clients, Accept(c)
      PROVE  SerialInv'
  BY <1>3 DEF Accept
<1>4. ASSUME NEW c \in Clients, HangUp(c)
      PROVE  SerialInv'
  BY <1>4 DEF HangUp
<1>5. ASSUME NEW c \in Clients, StartFind(c)
      PROVE  SerialInv'
  BY <1>5 DEF StartFind, Receives
<1>6. ASSUME NEW c \in Clients, PauseOrResumeFind(c)
      PROVE  SerialInv'
  <2>1. CASE Find(c, "pausing")
    BY <1>6, <2>1 DEF PauseOrResumeFind, Find, Receives
  <2>2. CASE Find(c, "resuming")
    BY <1>6, <2>2 DEF PauseOrResumeFind, Find, Receives
  <2> QED BY <1>6, <2>1, <2>2 DEF PauseOrResumeFind
<1>7. ASSUME NEW c \in Clients, StopFind(c)
      PROVE  SerialInv'
  BY <1>7 DEF StopFind, Receives, Find
<1>8. ASSUME NEW c \in Clients, ReadSocket(c)
      PROVE  SerialInv'
  BY <1>8 DEF ReadSocket
<1>9. ASSUME NEW c \in Clients, StartInsert(c)
      PROVE  SerialInv'
  <2>1. sClient[c] = c /\ mapTidObject[ulTid[c]] = None
    BY <1>9 DEF StartInsert
  <2>2. PICK o \in Streams :
          /\ heap[o] = "unborn"
          /\ heap' = [ heap EXCEPT ![o] = "alive" ]
          /\ mapTidObject' = IF mapTidObject[ulTid[c]] = None
                             THEN [ mapTidObject EXCEPT ![ulTid[c]] = o ] ELSE mapTidObject
          /\ told' = [ told EXCEPT ![sClient[c]][ulTid[c]] = o ]
    BY <1>9 DEF StartInsert
  <2>3. /\ heap[o] = "unborn"
        /\ heap' = [ heap EXCEPT ![o] = "alive" ]
        /\ mapTidObject' = [ mapTidObject EXCEPT ![ulTid[c]] = o ]
        /\ told' = [ told EXCEPT ![c][ulTid[c]] = o ]
    BY <2>1, <2>2
  <2>4. /\ cpc[c] = "insert" /\ cpc' = [ cpc EXCEPT ![c] = "recv" ]
        /\ ulTid[c] \in Tids /\ o # None
        /\ UNCHANGED << socktmp, sClient, itFind, hungup >>
    BY <1>9 DEF StartInsert, Streams
  <2>5. OneActive' /\ OwnSocket' /\ InsertFree' /\ ClearsInStep' /\ ClearsAfterHangUp' /\ IdleEmpty'
    BY <2>3, <2>4
  <2>6. Findable'
    <3>1. ASSUME NEW p \in Streams, heap'[p] = "alive", p # o
          PROVE  \E t \in Tids : mapTidObject'[t] = p
      <4>1. PICK t \in Tids : mapTidObject[t] = p
        BY <2>3, <3>1
      <4>2. t # ulTid[c]
        BY <2>1, <4>1, <3>1 DEF Streams
      <4> QED BY <2>3, <4>1, <4>2
    <3>2. mapTidObject'[ulTid[c]] = o
      BY <2>3, <2>4
    <3> QED BY <2>4, <3>1, <3>2
  <2>7. ToldLater'
    BY <2>3, <2>4
  <2>8. ToldIsMapped'
    BY <2>3, <2>4
  <2> QED BY <2>5, <2>6, <2>7, <2>8
<1>10. ASSUME NEW c \in Clients, SetMediaPause(c)
      PROVE  SerialInv'
  BY <1>10 DEF SetMediaPause
<1>11. ASSUME NEW c \in Clients, StopWait(c)
      PROVE  SerialInv'
  BY <1>11 DEF StopWait
<1>12. ASSUME NEW c \in Clients, StopDelete(c)
      PROVE  SerialInv'
  BY <1>12 DEF StopDelete, Delete
<1>13. ASSUME NEW c \in Clients, Disconnect(c)
      PROVE  SerialInv'
  BY <1>13 DEF Disconnect, FindBegin
<1>14. ASSUME NEW c \in Clients, ClearEnd(c)
      PROVE  SerialInv'
  BY <1>14 DEF ClearEnd
<1>15. ASSUME NEW c \in Clients, ClearNext(c)
      PROVE  SerialInv'
  BY <1>15 DEF ClearNext, Valid
<1>16. ASSUME NEW c \in Clients, ClearDelete(c)
      PROVE  SerialInv'
  BY <1>16 DEF ClearDelete, Delete
<1>17. ASSUME NEW c \in Clients, ClearErase(c)
      PROVE  SerialInv'
  BY <1>17 DEF ClearErase, FindBegin, Valid
<1>18. ASSUME NEW c \in Clients, UseFreed(c)
      PROVE  SerialInv'
  BY <1>18 DEF UseFreed
<1>19. ASSUME NEW o \in Streams, SendMediaUDP(o)
      PROVE  SerialInv'
  BY <1>19 DEF SendMediaUDP
<1> QED
  BY <1>1, <1>2, <1>3, <1>4, <1>5, <1>6, <1>7, <1>8, <1>9, <1>10, <1>11, <1>12, <1>13, <1>14, <1>15, <1>16, <1>17, <1>18, <1>19 DEF Next, Command, ThreadClient

\* While one client thread is at work, the others are not, and unless it is about
\* to erase a node, whatever is in the map is alive.
LEMMA OnlyAtWork ==
  ASSUME OneActive, MapAlive, NEW c \in Clients,
         Active(c)
  PROVE  /\ \A d \in Clients : d # c => cpc[d] \in {"connecting", "gone"}
         /\ cpc[c] # "erase" =>
              \A t \in Tids : mapTidObject[t] # None => heap[mapTidObject[t]] = "alive"
<1>1. \A d \in Clients : d # c => cpc[d] \in {"connecting", "gone"}
  BY DEF OneActive, Active
<1>2. cpc[c] # "erase" => \A d \in Clients : cpc[d] # "erase"
  BY <1>1
<1> QED BY <1>1, <1>2 DEF MapAlive

LEMMA SafeStep == TypeInv /\ SerialInv /\ SafeInv /\ [Next]_vars => SafeInv'
<1> SUFFICES ASSUME TypeInv, SerialInv, SafeInv, [Next]_vars, env' = env,
                    "overlap" \notin env, "delete" \notin env
             PROVE  SafeInv'
  BY EnvIsRigid DEF SafeInv
<1> USE DEF TypeInv, SafeInv, MapAlive, HoldsWhatItUses, MapEmpty, Valid, At, Goto, Forget, None,
       objectVars, localVars, clientVars
<1> OneActive /\ OwnSocket /\ InsertFree /\ ClearsInStep
  BY DEF SerialInv
<1>1. CASE UNCHANGED vars
  BY <1>1 DEF vars
<1>2. CASE Tick
  BY <1>2 DEF Tick
<1>3. ASSUME NEW c \in Clients, Accept(c)
      PROVE  SafeInv'
  BY <1>3 DEF Accept
<1>4. ASSUME NEW c \in Clients, HangUp(c)
      PROVE  SafeInv'
  BY <1>4 DEF HangUp
<1>5. ASSUME NEW c \in Clients, StartFind(c)
      PROVE  SafeInv'
  BY <1>5 DEF StartFind, Receives
<1>6. ASSUME NEW c \in Clients, PauseOrResumeFind(c)
      PROVE  SafeInv'
  <2>1. cpc[c] = "recv"
    BY <1>6 DEF PauseOrResumeFind, Receives
  <2>2. PICK t \in Tids :
          /\ mapTidObject[t] # None
          /\ pSendObject' = [ pSendObject EXCEPT ![c] = mapTidObject[t] ]
          /\ cpc' = [ cpc EXCEPT ![c] = "pausing" ] \/ cpc' = [ cpc EXCEPT ![c] = "resuming" ]
    BY <1>6 DEF PauseOrResumeFind, Find
  <2>3. \A u \in Tids : mapTidObject[u] # None => heap[mapTidObject[u]] = "alive"
    BY <2>1, OnlyAtWork DEF Active
  <2>4. UNCHANGED << mapTidObject, heap, itFind, crashed >>
    BY <1>6 DEF PauseOrResumeFind
  <2>5. MapAlive'
    BY <2>3, <2>4
  <2>6. mapTidObject[t] \in Streams /\ heap[mapTidObject[t]] = "alive"
    BY <2>2, <2>3
  <2>7. HoldsWhatItUses'
    BY <2>1, <2>2, <2>4, <2>6
  <2> QED BY <2>4, <2>5, <2>7
<1>7. ASSUME NEW c \in Clients, StopFind(c)
      PROVE  SafeInv'
  BY <1>7 DEF StopFind, Receives, Find
<1>8. ASSUME NEW c \in Clients, ReadSocket(c)
      PROVE  SafeInv'
  BY <1>8 DEF ReadSocket
<1>9. ASSUME NEW c \in Clients, StartInsert(c)
      PROVE  SafeInv'
  <2>1. cpc[c] = "insert" /\ sClient[c] = c /\ mapTidObject[ulTid[c]] = None
    BY <1>9 DEF StartInsert, OwnSocket, InsertFree
  <2>2. PICK o \in Streams :
          /\ heap[o] = "unborn"
          /\ heap' = [ heap EXCEPT ![o] = "alive" ]
          /\ mapTidObject' = IF mapTidObject[ulTid[c]] = None
                             THEN [ mapTidObject EXCEPT ![ulTid[c]] = o ] ELSE mapTidObject
    BY <1>9 DEF StartInsert
  <2>3. mapTidObject' = [ mapTidObject EXCEPT ![ulTid[c]] = o ]
    BY <2>1, <2>2
  <2>4. cpc' = [ cpc EXCEPT ![c] = "recv" ] /\ UNCHANGED << itFind, crashed >>
    BY <1>9 DEF StartInsert
  <2>5. \A u \in Tids : mapTidObject[u] # None => heap[mapTidObject[u]] = "alive"
    BY <2>1, OnlyAtWork DEF Active
  <2>6. \A d \in Clients : d # c => cpc[d] \in {"connecting", "gone"}
    BY <2>1, OnlyAtWork DEF Active
  <2>7. MapAlive'
    <3>1. ASSUME NEW u \in Tids, mapTidObject'[u] # None
          PROVE  heap'[mapTidObject'[u]] = "alive"
      <4>1. CASE u = ulTid[c]
        BY <2>2, <2>3, <4>1
      <4>2. CASE u # ulTid[c]
        BY <2>2, <2>3, <2>5, <3>1, <4>2
      <4> QED BY <4>1, <4>2
    <3> QED BY <3>1
  <2>8. HoldsWhatItUses'
    <3>1. cpc'[c] = "recv" /\ \A d \in Clients : d # c => cpc'[d] \in {"connecting", "gone"}
      BY <2>4, <2>6
    <3> QED BY <3>1
  <2> QED BY <2>4, <2>7, <2>8
<1>10. ASSUME NEW c \in Clients, SetMediaPause(c)
      PROVE  SafeInv'
  BY <1>10 DEF SetMediaPause
<1>11. ASSUME NEW c \in Clients, StopWait(c)
      PROVE  SafeInv'
  BY <1>11 DEF StopWait
<1>12. ASSUME NEW c \in Clients, StopDelete(c)
      PROVE  SafeInv'
  BY <1>12 DEF StopDelete, Delete
<1>13. ASSUME NEW c \in Clients, Disconnect(c)
      PROVE  SafeInv'
  <2>1. /\ cpc[c] = "recv" /\ cpc' = [ cpc EXCEPT ![c] = "clear" ]
        /\ UNCHANGED << mapTidObject, heap, pSendObject, crashed >>
    BY <1>13 DEF Disconnect
  <2>2. PICK it \in Streams \cup {None} :
          IsBegin(it, mapTidObject) /\ itFind' = [ itFind EXCEPT ![c] = it ]
    BY <1>13 DEF Disconnect, FindBegin
  <2>3. \A u \in Tids : mapTidObject[u] # None => heap[mapTidObject[u]] = "alive"
    BY <2>1, OnlyAtWork DEF Active
  <2>4. \A d \in Clients : d # c => cpc[d] \in {"connecting", "gone"}
    BY <2>1, OnlyAtWork DEF Active
  <2>5. MapAlive'
    BY <2>1, <2>3
  <2>6. MapEmpty \/ Valid(it)
    BY <2>2 DEF IsBegin
  <2>7. HoldsWhatItUses'
    BY <2>1, <2>2, <2>4, <2>6
  <2> QED BY <2>1, <2>5, <2>7
<1>14. ASSUME NEW c \in Clients, ClearEnd(c)
      PROVE  SafeInv'
  BY <1>14 DEF ClearEnd
<1>15. ASSUME NEW c \in Clients, ClearNext(c)
      PROVE  SafeInv'
  <2>1. /\ cpc[c] = "clear" /\ cpc' = [ cpc EXCEPT ![c] = "clearing" ]
        /\ pSendObject' = [ pSendObject EXCEPT ![c] = itFind[c] ]
        /\ itFind[c] # None /\ Valid(itFind[c])
        /\ UNCHANGED << mapTidObject, heap, itFind, crashed >>
    BY <1>15 DEF ClearNext
  <2>2. \A u \in Tids : mapTidObject[u] # None => heap[mapTidObject[u]] = "alive"
    BY <2>1, OnlyAtWork DEF Active
  <2>3. \A d \in Clients : d # c => cpc[d] \in {"connecting", "gone"}
    BY <2>1, OnlyAtWork DEF Active
  <2>4. MapAlive'
    BY <2>1, <2>2
  <2>5. itFind[c] \in Streams /\ heap[itFind[c]] = "alive"
    BY <2>1, <2>2
  <2>6. HoldsWhatItUses'
    BY <2>1, <2>3, <2>5
  <2> QED BY <2>1, <2>4, <2>6
<1>16. ASSUME NEW c \in Clients, ClearDelete(c)
      PROVE  SafeInv'
  <2>1. /\ cpc[c] = "clearing" /\ cpc' = [ cpc EXCEPT ![c] = "erase" ]
        /\ heap' = [ heap EXCEPT ![pSendObject[c]] = "deleted" ]
        /\ UNCHANGED << mapTidObject, itFind, crashed >>
    BY <1>16 DEF ClearDelete, Delete
  <2>2. pSendObject[c] = itFind[c] /\ Valid(itFind[c])
    BY <2>1 DEF ClearsInStep
  <2>3. \A u \in Tids : mapTidObject[u] # None => heap[mapTidObject[u]] = "alive"
    BY <2>1, OnlyAtWork DEF Active
  <2>4. \A d \in Clients : d # c => cpc[d] \in {"connecting", "gone"}
    BY <2>1, OnlyAtWork DEF Active
  <2>5. MapAlive'
    <3>1. ASSUME NEW u \in Tids, mapTidObject[u] # None, mapTidObject[u] # itFind[c]
          PROVE  heap'[mapTidObject[u]] = "alive"
      BY <2>1, <2>2, <2>3, <3>1
    <3>2. cpc'[c] = "erase"
      BY <2>1
    <3> QED BY <2>1, <3>1, <3>2
  <2>6. HoldsWhatItUses'
    <3>1. cpc'[c] = "erase" /\ \A d \in Clients : d # c => cpc'[d] \in {"connecting", "gone"}
      BY <2>1, <2>4
    <3>2. Valid(itFind[c])'
      BY <2>1, <2>2
    <3> QED BY <3>1, <3>2, SMTT(30)
  <2> QED BY <2>1, <2>5, <2>6
<1>17. ASSUME NEW c \in Clients, ClearErase(c)
      PROVE  SafeInv'
  <2> DEFINE erased == [ t \in Tids |-> IF mapTidObject[t] = itFind[c] THEN None ELSE mapTidObject[t] ]
  <2>1. /\ cpc[c] = "erase" /\ cpc' = [ cpc EXCEPT ![c] = "clear" ]
        /\ mapTidObject' = erased
        /\ UNCHANGED << heap, pSendObject, crashed >>
    BY <1>17 DEF ClearErase
  <2>2. PICK it \in Streams \cup {None} : IsBegin(it, erased) /\ itFind' = [ itFind EXCEPT ![c] = it ]
    BY <1>17 DEF ClearErase, FindBegin
  <2>3. \A d \in Clients : d # c => cpc[d] \in {"connecting", "gone"}
    BY <2>1, OnlyAtWork DEF Active
  <2>4. \A t \in Tids : erased[t] # None => erased[t] = mapTidObject[t] /\ mapTidObject[t] # itFind[c]
    OBVIOUS
  <2>5. \A t \in Tids : erased[t] # None => heap[erased[t]] = "alive"
    BY <2>3, <2>4, SMTT(30)
  <2> HIDE DEF erased
  <2>6. MapAlive'
    BY <2>1, <2>5
  <2>7. (\A t \in Tids : erased[t] = None) \/ (it # None /\ \E t \in Tids : erased[t] = it)
    BY <2>2 DEF IsBegin
  <2>8. MapEmpty' \/ Valid(it)'
    <3>1. CASE \A t \in Tids : erased[t] = None
      BY <2>1, <3>1
    <3>2. CASE it # None /\ \E t \in Tids : erased[t] = it
      BY <2>1, <3>2
    <3> QED BY <2>7, <3>1, <3>2
  <2>9. HoldsWhatItUses'
    <3>1. cpc'[c] = "clear" /\ \A d \in Clients : d # c => cpc'[d] \in {"connecting", "gone"}
      BY <2>1, <2>3
    <3>2. itFind'[c] = it
      BY <2>2
    <3> QED BY <2>8, <3>1, <3>2, SMTT(30)
  <2> QED BY <2>1, <2>6, <2>9
<1>18. ASSUME NEW c \in Clients, UseFreed(c)
      PROVE  SafeInv'
  <2>1. cpc[c] = "erase" \/ cpc[c] = "clear" => MapEmpty \/ Valid(itFind[c])
    OBVIOUS
  <2> QED BY <1>18, <2>1 DEF UseFreed, Holds
<1>19. ASSUME NEW o \in Streams, SendMediaUDP(o)
      PROVE  SafeInv'
  BY <1>19 DEF SendMediaUDP
<1> QED
  BY <1>1, <1>2, <1>3, <1>4, <1>5, <1>6, <1>7, <1>8, <1>9, <1>10, <1>11, <1>12, <1>13, <1>14, <1>15, <1>16, <1>17, <1>18, <1>19 DEF Next, Command, ThreadClient

LEMMA SerialInit == Init => SerialInv /\ SafeInv
BY DEF Init, SerialInv, SafeInv, OneActive, Active, OwnSocket, InsertFree, ClearsInStep, Findable,
     ToldLater, ClearsAfterHangUp, ToldIsMapped, IdleEmpty, MapEmpty, MapAlive, HoldsWhatItUses, None

LEMMA SerialCorrect == Spec => [](SerialInv /\ SafeInv)
BY SerialInit, SerialStep, SafeStep, TypeCorrect, PTL DEF Spec

\* Clients that come one after the other: no thread sends on that neither a
\* command nor a disconnect can reach through the map.
THEOREM StreamsAreFound == Spec => []NoOrphan
<1>1. SerialInv => NoOrphan
  BY DEF SerialInv, Findable, NoOrphan
<1> QED BY <1>1, SerialCorrect, PTL

\* Clients that come one after the other: a tid names the stream that the client
\* was given it for, although tids are taken from a counter that comes round.
THEOREM TidsStayApart == Spec => []TidNamesOwnStream
<1>1. SerialInv => TidNamesOwnStream
  BY DEF SerialInv, ToldIsMapped, TidNamesOwnStream
<1> QED BY <1>1, SerialCorrect, PTL

\* A session that has ended leaves no stream behind.
THEOREM SessionsStartEmpty == Spec => []NothingLeft
<1>1. ASSUME SerialInv
      PROVE  NothingLeft
  <2> SUFFICES ASSUME "overlap" \notin env, \A c \in Clients : cpc[c] \in {"connecting", "gone"},
                      NEW o \in Streams, heap[o] = "alive"
               PROVE  FALSE
    BY DEF NothingLeft
  <2>1. MapEmpty
    BY <1>1 DEF SerialInv, IdleEmpty, Active
  <2>2. PICK t \in Tids : mapTidObject[t] = o
    BY <1>1 DEF SerialInv, Findable
  <2> QED BY <2>1, <2>2 DEF MapEmpty, Streams, None
<1> QED BY <1>1, SerialCorrect, PTL

\* Without streamstop and without clients at once, no thread uses a deleted
\* object or an iterator to an erased node.
THEOREM NothingFreedIsUsed == Spec => []NeverUndefined
<1>1. SafeInv => NeverUndefined
  BY DEF SafeInv, NeverUndefined
<1> QED BY <1>1, SerialCorrect, PTL

-------------------------------------------------------------------------------
(***************************************************************************)
(* Clients that come one after the other, with streamstop: a client loses  *)
(* no stream that it did not delete.                                       *)
(***************************************************************************)

Born == \A t \in Tids : mapTidObject[t] # None => heap[mapTidObject[t]] # "unborn"

OneTidEach ==
  \A t, u \in Tids : mapTidObject[t] # None /\ mapTidObject[t] = mapTidObject[u] => t = u

StopsOwn ==
  \A c \in Clients :
    cpc[c] = "stopping" => pSendObject[c] = mapTidObject[ulTid[c]] /\ told[c][ulTid[c]] # None

ToldAlive ==
  \A c \in Clients, t \in Tids :
    told[c][t] # None /\ c \notin hungup => heap[told[c][t]] = "alive"

KeepInv == "overlap" \notin env => Born /\ OneTidEach /\ StopsOwn /\ ToldAlive

\* A step that leaves the streams and the tables alone and begins no streamstop.
Quiet ==
  /\ UNCHANGED << mapTidObject, heap, told >>
  /\ hungup \subseteq hungup'
  /\ \A c \in Clients :
       cpc'[c] = "stopping" =>
         cpc[c] = "stopping" /\ pSendObject'[c] = pSendObject[c] /\ ulTid'[c] = ulTid[c]

LEMMA KeepQuiet ==
  ASSUME Born, OneTidEach, StopsOwn, ToldAlive, Quiet
  PROVE  Born' /\ OneTidEach' /\ StopsOwn' /\ ToldAlive'
<1>1. Born' /\ OneTidEach'
  BY DEF Quiet, Born, OneTidEach
<1>2. StopsOwn'
  BY DEF Quiet, StopsOwn
<1>3. ToldAlive'
  BY DEF Quiet, ToldAlive
<1> QED BY <1>1, <1>2, <1>3

\* While a client thread is at work, the other clients have been told nothing or
\* have hung up.
LEMMA OthersNeedNothing ==
  ASSUME SerialInv, "overlap" \notin env, NEW c \in Clients, Active(c)
  PROVE  \A d \in Clients, t \in Tids : told[d][t] # None /\ d \notin hungup => d = c
<1> SUFFICES ASSUME NEW d \in Clients, NEW t \in Tids, told[d][t] # None, d \notin hungup, d # c
             PROVE  FALSE
  OBVIOUS
<1>1. cpc[d] \in {"connecting", "gone"}
  BY DEF SerialInv, OneActive, Active
<1>2. cpc[d] # "connecting"
  BY DEF SerialInv, ToldLater
<1>3. cpc[d] # "gone"
  BY DEF SerialInv, ClearsAfterHangUp
<1> QED BY <1>1, <1>2, <1>3

\* The other threads are not in a streamstop.
LEMMA OthersDoNotStop ==
  ASSUME SerialInv, "overlap" \notin env, NEW c \in Clients, Active(c)
  PROVE  \A d \in Clients : d # c => cpc[d] # "stopping"
BY DEF SerialInv, OneActive, Active

LEMMA KeepStep == TypeInv /\ SerialInv /\ KeepInv /\ [Next]_vars => KeepInv'
<1> SUFFICES ASSUME TypeInv, SerialInv, [Next]_vars, "overlap" \notin env,
                    Born, OneTidEach, StopsOwn, ToldAlive
             PROVE  Born' /\ OneTidEach' /\ StopsOwn' /\ ToldAlive'
  BY EnvIsRigid DEF KeepInv
<1> DEFINE Kept == Born' /\ OneTidEach' /\ StopsOwn' /\ ToldAlive'
<1>1. ASSUME NEW c \in Clients, StopFind(c)
      PROVE  Kept
  <2>1. cpc[c] = "recv" /\ sClient[c] = c
    BY <1>1 DEF StopFind, Receives, At, SerialInv, OwnSocket
  <2>2. PICK t \in Tids :
          /\ told[c][t] # None
          /\ ulTid' = [ ulTid EXCEPT ![c] = t ]
          /\ pSendObject' = [ pSendObject EXCEPT ![c] = mapTidObject[t] ]
          /\ cpc' = [ cpc EXCEPT ![c] = "stopping" ]
    BY <1>1, <2>1 DEF StopFind, Find, Goto
  <2>3. UNCHANGED << mapTidObject, heap, told, hungup >>
    BY <1>1 DEF StopFind, objectVars, clientVars
  <2>4. Born' /\ OneTidEach' /\ ToldAlive'
    BY <2>3 DEF Born, OneTidEach, ToldAlive
  <2>5. StopsOwn'
    BY <2>2, <2>3 DEF StopsOwn, TypeInv
  <2> QED BY <2>4, <2>5
<1>2. ASSUME NEW c \in Clients, StartInsert(c)
      PROVE  Kept
  <2>1. cpc[c] = "insert" /\ sClient[c] = c /\ mapTidObject[ulTid[c]] = None /\ ulTid[c] \in Tids
    BY <1>2 DEF StartInsert, At, SerialInv, OwnSocket, InsertFree, TypeInv
  <2>2. PICK o \in Streams :
          /\ heap[o] = "unborn"
          /\ heap' = [ heap EXCEPT ![o] = "alive" ]
          /\ mapTidObject' = [ mapTidObject EXCEPT ![ulTid[c]] = o ]
          /\ told' = [ told EXCEPT ![c][ulTid[c]] = o ]
    BY <1>2, <2>1 DEF StartInsert
  <2>3. cpc' = [ cpc EXCEPT ![c] = "recv" ] /\ hungup' = hungup
    BY <1>2 DEF StartInsert, Goto
  <2>4. \A d \in Clients : cpc'[d] # "stopping"
    BY <2>1, <2>3, OthersDoNotStop DEF Active, TypeInv
  <2>5. \A t \in Tids : mapTidObject[t] # o
    BY <2>2 DEF Born, Streams, None
  <2>6. Born' /\ OneTidEach'
    BY <2>1, <2>2, <2>5 DEF Born, OneTidEach, TypeInv, Streams, None
  <2>7. ToldAlive'
    BY <2>1, <2>2, <2>3 DEF ToldAlive, TypeInv
  <2> QED BY <2>4, <2>6, <2>7 DEF StopsOwn
<1>3. ASSUME NEW c \in Clients, StopDelete(c)
      PROVE  Kept
  <2>1. /\ cpc[c] = "stopping" /\ sClient[c] = c /\ ulTid[c] \in Tids
        /\ pSendObject[c] = mapTidObject[ulTid[c]] /\ told[c][ulTid[c]] # None
    BY <1>3 DEF StopDelete, At, SerialInv, OwnSocket, StopsOwn, TypeInv
  <2>2. /\ heap' = [ heap EXCEPT ![pSendObject[c]] = "deleted" ]
        /\ told' = [ told EXCEPT ![c][ulTid[c]] = None ]
        /\ cpc' = [ cpc EXCEPT ![c] = "recv" ]
        /\ UNCHANGED << mapTidObject, hungup >>
    BY <1>3, <2>1 DEF StopDelete, Delete, Goto
  <2>3. Born' /\ OneTidEach'
    BY <2>2 DEF Born, OneTidEach, TypeInv
  <2>4. StopsOwn'
    BY <2>1, <2>2, OthersDoNotStop DEF StopsOwn, Active, TypeInv
  <2>5. ASSUME NEW d \in Clients, NEW t \in Tids, told'[d][t] # None, d \notin hungup
        PROVE  heap'[told'[d][t]] = "alive"
    <3>1. told'[d][t] = told[d][t] /\ (d = c => t # ulTid[c])
      BY <2>1, <2>2, <2>5 DEF TypeInv
    <3>2. d = c
      BY <2>1, <2>5, <3>1, OthersNeedNothing DEF Active
    <3>3. told[c][t] = mapTidObject[t] /\ mapTidObject[t] # None
      BY <2>5, <3>1, <3>2 DEF SerialInv, ToldIsMapped
    <3>4. mapTidObject[t] # pSendObject[c]
      BY <2>1, <3>1, <3>2, <3>3 DEF OneTidEach
    <3>5. heap[told[c][t]] = "alive"
      BY <2>5, <3>1, <3>2 DEF ToldAlive
    <3> QED BY <2>2, <3>1, <3>2, <3>3, <3>4, <3>5 DEF TypeInv
  <2>6. ToldAlive'
    BY <2>2, <2>5 DEF ToldAlive
  <2> QED BY <2>3, <2>4, <2>6
<1>4. ASSUME NEW c \in Clients, cpc[c] \in {"clearing", "erase"},
             heap' = heap \/ heap' = [ heap EXCEPT ![pSendObject[c]] = "deleted" ],
             \A t \in Tids : mapTidObject'[t] = mapTidObject[t] \/ mapTidObject'[t] = None,
             cpc'[c] # "stopping", \A d \in Clients : d # c => cpc'[d] = cpc[d],
             UNCHANGED << told, hungup >>
      PROVE  Kept
  <2>1. c \in hungup
    BY <1>4 DEF SerialInv, ClearsAfterHangUp
  <2>2. \A d \in Clients, t \in Tids : told[d][t] = None \/ d \in hungup
    BY <1>4, <2>1, OthersNeedNothing DEF Active
  <2>3. ToldAlive'
    BY <1>4, <2>2 DEF ToldAlive
  <2>4. StopsOwn'
    BY <1>4, OthersDoNotStop DEF StopsOwn, Active
  <2>5. Born'
    BY <1>4 DEF Born, TypeInv
  <2>6. OneTidEach'
    BY <1>4 DEF OneTidEach
  <2> QED BY <2>3, <2>4, <2>5, <2>6
<1>5. ASSUME NEW c \in Clients, ClearDelete(c)
      PROVE  Kept
  BY <1>4, <1>5 DEF ClearDelete, Delete, At, Goto, TypeInv, clientVars
<1>6. ASSUME NEW c \in Clients, ClearErase(c)
      PROVE  Kept
  BY <1>4, <1>6 DEF ClearErase, At, Goto, TypeInv, objectVars, clientVars
<1>7. ASSUME NEW c \in Clients,
             \/ Accept(c) \/ HangUp(c) \/ StartFind(c) \/ PauseOrResumeFind(c) \/ ReadSocket(c)
             \/ SetMediaPause(c) \/ StopWait(c) \/ Disconnect(c) \/ ClearEnd(c) \/ ClearNext(c)
             \/ UseFreed(c)
      PROVE  Quiet
  BY <1>7 DEF Quiet, Accept, HangUp, StartFind, PauseOrResumeFind, Find, ReadSocket, SetMediaPause,
       StopWait, Disconnect, ClearEnd, ClearNext, UseFreed, Forget, At, Goto, Receives, TypeInv,
       objectVars, localVars, clientVars
<1>8. Tick \/ UNCHANGED vars \/ (\E o \in Streams : SendMediaUDP(o)) => Quiet
  BY DEF Quiet, Tick, SendMediaUDP, vars, objectVars, localVars, clientVars
<1> QED BY <1>1, <1>2, <1>3, <1>5, <1>6, <1>7, <1>8, KeepQuiet DEF Next, Command, ThreadClient

\* Clients that come one after the other keep every stream until they delete it
\* themselves, with streamstop too, and whatever tids come round: only clients
\* that are connected at once lose theirs.
THEOREM AloneStreamsStay == Spec => []("overlap" \notin env => StreamsOfOthersStay)
<1>1. Init => KeepInv
  BY DEF Init, KeepInv, Born, OneTidEach, StopsOwn, ToldAlive, None
<1>2. KeepInv => ("overlap" \notin env => StreamsOfOthersStay)
  BY DEF KeepInv, ToldAlive, StreamsOfOthersStay
<1> QED BY <1>1, <1>2, KeepStep, SerialCorrect, TypeCorrect, PTL DEF Spec
===============================================================================
