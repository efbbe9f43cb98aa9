-------------------------- MODULE PlayerSessionProofs --------------------------
(***************************************************************************)
(* Theorems about PlayerSession, for any number of plays, decoders and     *)
(* media.  They all rest on one fact: as long as no goodbye has brought two *)
(* handlers to run at once, at most one thread is in a handler, so that the *)
(* members of the dialog change one handler at a time.                     *)
(***************************************************************************)
EXTENDS PlayerSession, TLAPS

-------------------------------------------------------------------------------
(* The invariant. *)

LabelInv ==
  /\ pc \in [ Threads -> WindowLabels \cup StatusLabels ]
  /\ pc[UI] \in WindowLabels
  /\ \A k \in Clients : pc[k] \in StatusLabels

\* A goodbye ends the RTCP thread that posts it, and a client has none of either
\* before it has connected.
Goodbyes ==
  /\ \A k \in Clients :
       /\ messages[k] + rtcp[k] <= MaxMedia
       /\ client[k] = "unborn" => messages[k] = 0 /\ rtcp[k] = 0
  /\ pc[UI] = "connect" /\ m_rtsptheClient # NULL =>
       messages[m_rtsptheClient] = 0 /\ rtcp[m_rtsptheClient] = 0

TInv == TypeInv /\ LabelInv /\ Goodbyes

\* At most one thread is in a handler.
Alone ==
  /\ \A k \in Clients : pc[k] \in Handling => pc[UI] \in {"idle", "quit"}
  /\ \A j, k \in Clients : pc[j] \in Handling /\ pc[k] \in Handling => j = k

At(labels) == \E t \in Threads : pc[t] \in labels

\* The pointer to the decoder dangles between its delete and its reset only.
DecoderHeld ==
  /\ \A d \in Decoders : decoder[d] = "alive" => d = m_pInstance
  /\ m_pInstance # NULL =>
       decoder[m_pInstance] = "alive" \/ At({"set", "reset", "disconnect", "delete", "finish"})
  /\ At({"set", "reset", "disconnect", "delete", "finish"}) =>
       \A d \in Decoders : decoder[d] # "alive"
  /\ pc[UI] \in {"init", "initfile"} => m_pInstance = NULL

\* So does the pointer to the client.
ClientHeld ==
  /\ m_rtsptheClient # NULL => client[m_rtsptheClient] = "alive" \/ At({"finish"})
  /\ pc[UI] \in {"connect", "play"} => m_rtsptheClient # NULL

OnAir(k) == session[k] = "playing" /\ numMedia[k] > 0

\* A session is played while the dialog plays, or is about to say so, or is
\* about to tear it down.
OnAirHeld ==
  \A k \in Clients :
    OnAir(k) =>
      /\ k = m_rtsptheClient /\ m_ifileType = "rtsp"
      /\ m_bPlaying \/ At({"release", "set", "uninit", "disconnect"})
      /\ pc[UI] \notin {"renew", "new", "connect", "play"} /\ ~At({"delete", "finish"})

\* What was asked of the server and is not known to the dialog.  Clients are born
\* in their order.
AskedHeld ==
  /\ \A k \in Clients :
       Asked(k) => client[k] # "unborn" /\ ((WillBeAsked(k) /\ ~At({"delete", "finish"})) \/ PlayedAgain(k))
  /\ \A j, k \in Clients : client[k] # "unborn" /\ j < k => client[j] # "unborn"

Buttons ==
  /\ m_bPlaying \/ m_pInstance # NULL \/ pc[UI] \in {"init", "initfile"} =>
       stopEnabled
  /\ m_bPlaying => ~playEnabled
  /\ m_bPlaying => ~At({"uninit", "disconnect", "delete", "finish", "renew", "new", "connect", "play", "release", "set"})
  /\ pc[UI] \in {"renew", "new", "connect", "play"} => m_ifileType = "rtsp"

Held == Alone /\ DecoderHeld /\ ClientHeld /\ OnAirHeld /\ AskedHeld /\ Buttons

PInv == (fault = "handler" => overlap) /\ (~overlap => Held)

-------------------------------------------------------------------------------
(* The steps. *)

LEMMA Names ==
  /\ UI \in Threads /\ UI \notin Clients /\ Clients \subseteq Threads
  /\ \A t \in Threads : t \in Clients \/ t = UI
BY PlayerAssumption DEF Threads, UI, Clients

LEMMA Steps ==
  Next /\ Runs =>
    \/ OnBnClickedOk \/ OpenFile \/ OnBnClickedButton1 \/ OnBnClickedCancel \/ OnTimer \/ DeleteOldClient
    \/ NewClient \/ Connect \/ ConnectPlay \/ Release \/ Enter \/ InitDecoder
    \/ \E t \in Threads :
         StopBegin(t) \/ StopUninit(t) \/ StopDisconnect(t) \/ StopDelete(t) \/ StopFinish(t)
    \/ \E k \in Clients :
         StatusStart(k) \/ StatusGet(k) \/ \E goodbye \in BOOLEAN : RtcpDatagram(k, goodbye)
BY Names DEF Next, Clicks, Handlers, Stop, PlayerStatusCheck

\* Where the threads are.
LEMMA LabelsStep ==
  ASSUME LabelInv, Next, Runs
  PROVE  LabelInv'
<1> USE DEF Goto, LabelInv, WindowLabels, StatusLabels, Handling, dialogVars, sessionVars
<1>1. CASE OnBnClickedOk
  BY <1>1, Names DEF OnBnClickedOk, Starts
<1>2. CASE OpenFile
  BY <1>2, Names DEF OpenFile, Starts
<1>3. CASE OnBnClickedButton1
  BY <1>3, Names DEF OnBnClickedButton1, Starts
<1>4. CASE OnBnClickedCancel
  BY <1>4, Names DEF OnBnClickedCancel, Starts
<1>5. CASE OnTimer
  BY <1>5, Names DEF OnTimer, Starts
<1>6. CASE DeleteOldClient
  BY <1>6, Names DEF DeleteOldClient
<1>7. CASE NewClient
  BY <1>7, Names DEF NewClient
<1>8. CASE Connect
  BY <1>8, Names DEF Connect
<1>9. CASE ConnectPlay
  BY <1>9, Names DEF ConnectPlay
<1>10. CASE Release
  BY <1>10, Names DEF Release
<1>11. CASE Enter
  BY <1>11, Names DEF Enter
<1>12. CASE InitDecoder
  BY <1>12, Names DEF InitDecoder
<1>13. ASSUME NEW t \in Threads, StopBegin(t) PROVE LabelInv'
  BY <1>13, Names DEF StopBegin
<1>14. ASSUME NEW t \in Threads, StopUninit(t) PROVE LabelInv'
  BY <1>14, Names DEF StopUninit
<1>15. ASSUME NEW t \in Threads, StopDisconnect(t) PROVE LabelInv'
  BY <1>15, Names DEF StopDisconnect
<1>16. ASSUME NEW t \in Threads, StopDelete(t) PROVE LabelInv'
  BY <1>16, Names DEF StopDelete
<1>17. ASSUME NEW t \in Threads, StopFinish(t) PROVE LabelInv'
  BY <1>17, Names DEF StopFinish, Finished
<1>18. ASSUME NEW k \in Clients, StatusStart(k) PROVE LabelInv'
  BY <1>18, Names DEF StatusStart
<1>19. ASSUME NEW k \in Clients, StatusGet(k) PROVE LabelInv'
  BY <1>19, Names DEF StatusGet
<1>20. ASSUME NEW k \in Clients, NEW goodbye \in BOOLEAN, RtcpDatagram(k, goodbye) PROVE LabelInv'
  BY <1>20, Names DEF RtcpDatagram
<1> HIDE DEF LabelInv, WindowLabels, StatusLabels, Handling
<1> QED
  BY <1>1, <1>2, <1>3, <1>4, <1>5, <1>6, <1>7, <1>8, <1>9, <1>10, <1>11, <1>12, <1>13, <1>14,
     <1>15, <1>16, <1>17, <1>18, <1>19, <1>20, Names, Steps

\* Types.
LEMMA TypeStep ==
  ASSUME TInv, Next, Runs
  PROVE  TypeInv'
<1>0. pc' \in [ Threads -> WindowLabels \cup StatusLabels ]
  BY LabelsStep DEF TInv, TypeInv, LabelInv
<1> USE DEF TInv, TypeInv, NULL, dialogVars, sessionVars
<1>1. CASE OnBnClickedOk
  BY <1>1, <1>0 DEF OnBnClickedOk, Starts
<1>2. CASE OpenFile
  BY <1>2, <1>0 DEF OpenFile, Starts
<1>3. CASE OnBnClickedButton1
  BY <1>3, <1>0 DEF OnBnClickedButton1, Starts
<1>4. CASE OnBnClickedCancel
  BY <1>4, <1>0 DEF OnBnClickedCancel, Starts
<1>5. CASE OnTimer
  BY <1>5, <1>0 DEF OnTimer, Starts
<1>6. CASE DeleteOldClient
  BY <1>6, <1>0 DEF DeleteOldClient, DeleteClient
<1>7. CASE NewClient
  BY <1>7, <1>0 DEF NewClient, NextOf
<1>8. CASE Connect
  <2>1. CASE UNCHANGED << numMedia, rtcp >>
    <3>1. session' \in { session, [ session EXCEPT ![m_rtsptheClient] = "setup" ] }
      BY <1>8, <2>1 DEF Connect
    <3>2. session' \in [ Clients -> {"none", "setup", "unanswered", "playing"} ]
      BY <1>0, <3>1
    <3> QED
      BY <1>0, <1>8, <2>1, <3>2 DEF Connect
  <2>2. CASE ~UNCHANGED << numMedia, rtcp >>
    <3>1. PICK n \in 0 .. MaxMedia :
            /\ numMedia' = [ numMedia EXCEPT ![m_rtsptheClient] = n ]
            /\ rtcp' = [ rtcp EXCEPT ![m_rtsptheClient] = n ]
            /\ session' = [ session EXCEPT ![m_rtsptheClient] = "setup" ]
      BY <1>8, <2>2 DEF Connect
    <3>2. /\ numMedia' \in [ Clients -> 0 .. MaxMedia ] /\ rtcp' \in [ Clients -> 0 .. MaxMedia ]
          /\ session' \in [ Clients -> {"none", "setup", "unanswered", "playing"} ]
      BY <3>1
    <3> QED
      BY <1>0, <1>8, <3>2 DEF Connect
  <2> QED
    BY <2>1, <2>2
<1>9. CASE ConnectPlay
  BY <1>9, <1>0 DEF ConnectPlay, Alive
<1>10. CASE Release
  BY <1>10, <1>0 DEF Release, DeleteDecoder
<1>11. CASE Enter
  BY <1>11, <1>0 DEF Enter
<1>12. CASE InitDecoder
  BY <1>12, <1>0 DEF InitDecoder, NextOf
<1>13. ASSUME NEW t \in Threads, StopBegin(t) PROVE TypeInv'
  BY <1>13, <1>0 DEF StopBegin
<1>14. ASSUME NEW t \in Threads, StopUninit(t) PROVE TypeInv'
  BY <1>14, <1>0 DEF StopUninit, DeleteDecoder
<1>15. ASSUME NEW t \in Threads, StopDisconnect(t) PROVE TypeInv'
  BY <1>15, <1>0 DEF StopDisconnect, Alive
<1>16. ASSUME NEW t \in Threads, StopDelete(t) PROVE TypeInv'
  BY <1>16, <1>0 DEF StopDelete, DeleteClient
<1>17. ASSUME NEW t \in Threads, StopFinish(t) PROVE TypeInv'
  BY <1>17, <1>0 DEF StopFinish
<1>18. ASSUME NEW k \in Clients, StatusStart(k) PROVE TypeInv'
  BY <1>18, <1>0 DEF StatusStart
<1>19. ASSUME NEW k \in Clients, StatusGet(k) PROVE TypeInv'
  <2>1. messages[k] > 0 /\ messages' = [ messages EXCEPT ![k] = @ - 1 ] /\ UNCHANGED rtcp
    BY <1>19 DEF StatusGet
  <2>2. messages[k] - 1 \in 0 .. MaxMedia
    BY <2>1, PlayerAssumption
  <2> QED
    BY <1>0, <1>19, <2>1, <2>2 DEF StatusGet
<1>20. ASSUME NEW k \in Clients, NEW goodbye \in BOOLEAN, RtcpDatagram(k, goodbye) PROVE TypeInv'
  <2>1. CASE ~goodbye
    BY <1>20, <2>1 DEF RtcpDatagram
  <2>2. CASE goodbye
    <3>1. /\ rtcp' = [ rtcp EXCEPT ![k] = @ - 1 ] /\ rtcp[k] > 0
          /\ messages' = messages \/ messages' = [ messages EXCEPT ![k] = @ + 1 ]
      BY <1>20, <2>2 DEF RtcpDatagram
    <3>2. messages[k] + rtcp[k] <= MaxMedia
      BY DEF Goodbyes
    <3>3. rtcp[k] - 1 \in 0 .. MaxMedia /\ messages[k] + 1 \in 0 .. MaxMedia
      BY <3>1, <3>2, PlayerAssumption
    <3>4. rtcp' \in [ Clients -> 0 .. MaxMedia ] /\ messages' \in [ Clients -> 0 .. MaxMedia ]
      BY <3>1, <3>3
    <3> QED
      BY <1>20, <3>4 DEF RtcpDatagram
  <2> QED
    BY <2>1, <2>2
<1> HIDE DEF TInv, TypeInv, NULL
<1> QED
  BY <1>1, <1>2, <1>3, <1>4, <1>5, <1>6, <1>7, <1>8, <1>9, <1>10, <1>11, <1>12, <1>13, <1>14,
     <1>15, <1>16, <1>17, <1>18, <1>19, <1>20, Names, Steps

\* Goodbyes come from the threads of a client that has connected.
LEMMA GoodbyesStep ==
  ASSUME TInv, Next, Runs
  PROVE  Goodbyes'
<1> USE DEF Goto, dialogVars, sessionVars, TInv, TypeInv, Goodbyes, NULL
<1>1. CASE OnBnClickedOk
  BY <1>1, Names, PlayerAssumption DEF OnBnClickedOk, Starts, OthersHandle
<1>2. CASE OpenFile
  BY <1>2, Names, PlayerAssumption DEF OpenFile, Starts, OthersHandle
<1>3. CASE OnBnClickedButton1
  BY <1>3, Names, PlayerAssumption DEF OnBnClickedButton1, Starts, OthersHandle
<1>4. CASE OnBnClickedCancel
  BY <1>4, Names, PlayerAssumption DEF OnBnClickedCancel, Starts, OthersHandle
<1>5. CASE OnTimer
  BY <1>5, Names, PlayerAssumption DEF OnTimer, Starts, OthersHandle
<1>6. CASE DeleteOldClient
  BY <1>6, Names, PlayerAssumption DEF DeleteOldClient, DeleteClient
<1>7. CASE NewClient
  <2>1. PICK k \in Clients :
          /\ client[k] = "unborn" /\ client' = [ client EXCEPT ![k] = "alive" ]
          /\ m_rtsptheClient' = k
    BY <1>7 DEF NewClient, NextOf
  <2>2. messages' = messages /\ rtcp' = rtcp
    BY <1>7 DEF NewClient
  <2> QED
    BY <2>1, <2>2, PlayerAssumption
<1>8. CASE Connect
  <2>1. pc[UI] = "connect" /\ messages' = messages /\ client' = client /\ m_rtsptheClient' = m_rtsptheClient
    BY <1>8 DEF Connect
  <2>2. CASE rtcp' = rtcp
    BY <2>1, <2>2
  <2>3. CASE rtcp' # rtcp
    <3>1. PICK n \in 0 .. MaxMedia :
            /\ rtcp' = [ rtcp EXCEPT ![m_rtsptheClient] = n ]
            /\ pc' = [ pc EXCEPT ![UI] = "play" ]
      BY <1>8, <2>3 DEF Connect
    <3>2. m_rtsptheClient # NULL /\ client[m_rtsptheClient] = "alive" /\ pc'[UI] = "play"
      BY <1>8, <2>3, <3>1, Names DEF Connect, Alive
    <3>3. messages[m_rtsptheClient] + n <= MaxMedia
      BY <2>1, <3>2, PlayerAssumption
    <3> QED
      BY <2>1, <3>1, <3>2, <3>3, PlayerAssumption
  <2> QED
    BY <2>2, <2>3
<1>9. CASE ConnectPlay
  <2>1. /\ messages' = messages /\ rtcp' = rtcp /\ client' = client /\ m_rtsptheClient' = m_rtsptheClient
        /\ pc[UI] # "connect"
    BY <1>9 DEF ConnectPlay
  <2>2. pc'[UI] # "connect"
    BY <1>9, Names DEF ConnectPlay
  <2> QED
    BY <2>1, <2>2
<1>10. CASE Release
  BY <1>10, Names, PlayerAssumption DEF Release, DeleteDecoder
<1>11. CASE Enter
  BY <1>11, Names, PlayerAssumption DEF Enter
<1>12. CASE InitDecoder
  BY <1>12, Names, PlayerAssumption DEF InitDecoder, NextOf
<1>13. ASSUME NEW t \in Threads, StopBegin(t) PROVE Goodbyes'
  BY <1>13, Names, PlayerAssumption DEF StopBegin
<1>14. ASSUME NEW t \in Threads, StopUninit(t) PROVE Goodbyes'
  BY <1>14, Names, PlayerAssumption DEF StopUninit, DeleteDecoder
<1>15. ASSUME NEW t \in Threads, StopDisconnect(t) PROVE Goodbyes'
  BY <1>15, Names, PlayerAssumption DEF StopDisconnect, Alive
<1>16. ASSUME NEW t \in Threads, StopDelete(t) PROVE Goodbyes'
  BY <1>16, Names, PlayerAssumption DEF StopDelete, DeleteClient
<1>17. ASSUME NEW t \in Threads, StopFinish(t) PROVE Goodbyes'
  BY <1>17, Names, PlayerAssumption DEF StopFinish, Finished
<1>18. ASSUME NEW k \in Clients, StatusStart(k) PROVE Goodbyes'
  BY <1>18, Names, PlayerAssumption DEF StatusStart
<1>19. ASSUME NEW k \in Clients, StatusGet(k) PROVE Goodbyes'
  BY <1>19, Names, PlayerAssumption DEF StatusGet, OthersHandle
<1>20. ASSUME NEW k \in Clients, NEW goodbye \in BOOLEAN, RtcpDatagram(k, goodbye) PROVE Goodbyes'
  <2>1. client' = client /\ m_rtsptheClient' = m_rtsptheClient /\ pc' = pc /\ rtcp[k] > 0
    BY <1>20 DEF RtcpDatagram
  <2>2. CASE ~goodbye
    BY <1>20, <2>1, <2>2 DEF RtcpDatagram
  <2>3. CASE goodbye
    <3>1. /\ rtcp' = [ rtcp EXCEPT ![k] = @ - 1 ]
          /\ messages' = messages \/ messages' = [ messages EXCEPT ![k] = @ + 1 ]
      BY <1>20, <2>3 DEF RtcpDatagram
    <3>2. /\ rtcp'[k] = rtcp[k] - 1 /\ messages'[k] \in {messages[k], messages[k] + 1}
          /\ \A j \in Clients : j # k => rtcp'[j] = rtcp[j] /\ messages'[j] = messages[j]
      BY <3>1
    <3>3. \A j \in Clients : messages'[j] + rtcp'[j] <= MaxMedia
      BY <3>2, PlayerAssumption
    <3> QED
      BY <2>1, <3>2, <3>3
  <2> QED
    BY <2>2, <2>3
<1> HIDE DEF TInv, TypeInv, Goodbyes, NULL
<1> QED
  BY <1>1, <1>2, <1>3, <1>4, <1>5, <1>6, <1>7, <1>8, <1>9, <1>10, <1>11, <1>12, <1>13, <1>14,
     <1>15, <1>16, <1>17, <1>18, <1>19, <1>20, Names, Steps

LEMMA OverlapStays ==
  ASSUME TInv, Next, Runs, ~overlap'
  PROVE  ~overlap
BY DEF Next, Clicks, Handlers, Stop, PlayerStatusCheck, Starts,
   OnBnClickedOk, OpenFile, OnBnClickedButton1, OnBnClickedCancel, OnTimer,
   DeleteOldClient, NewClient, Connect, ConnectPlay, Release,
   Enter, InitDecoder, StopBegin, StopUninit, StopDisconnect,
   StopDelete, StopFinish, StatusStart, StatusGet, RtcpDatagram, TInv, TypeInv, dialogVars, sessionVars

\* No second handler begins.
LEMMA AloneStep ==
  ASSUME TInv, ~overlap, ~overlap', Held, Next, Runs
  PROVE  Alone'
<1> USE DEF Goto, dialogVars, sessionVars, TInv, TypeInv, LabelInv, WindowLabels, StatusLabels,
            Handling, Held, Alone
<1>1. CASE OnBnClickedOk
  <2>1. \A k \in Clients : pc[k] \notin Handling
    BY <1>1, Names DEF OnBnClickedOk, Starts, OthersHandle
  <2>2. \A k \in Clients : pc'[k] = pc[k]
    BY <1>1, Names DEF OnBnClickedOk
  <2> QED
    BY <2>1, <2>2
<1>2. CASE OpenFile
  BY <1>2, Names DEF OpenFile, Starts, OthersHandle
<1>3. CASE OnBnClickedButton1
  BY <1>3, Names DEF OnBnClickedButton1, Starts, OthersHandle
<1>4. CASE OnBnClickedCancel
  BY <1>4, Names DEF OnBnClickedCancel, Starts, OthersHandle
<1>5. CASE OnTimer
  BY <1>5, Names DEF OnTimer, Starts, OthersHandle
<1>6. CASE DeleteOldClient
  BY <1>6, Names DEF DeleteOldClient, DeleteClient
<1>7. CASE NewClient
  BY <1>7, Names DEF NewClient, NextOf
<1>8. CASE Connect
  BY <1>8, Names DEF Connect, Alive
<1>9. CASE ConnectPlay
  BY <1>9, Names DEF ConnectPlay, Alive
<1>10. CASE Release
  BY <1>10, Names DEF Release, DeleteDecoder
<1>11. CASE Enter
  BY <1>11, Names DEF Enter
<1>12. CASE InitDecoder
  BY <1>12, Names DEF InitDecoder, NextOf
<1>13. ASSUME NEW t \in Threads, StopBegin(t) PROVE Alone'
  BY <1>13, Names DEF StopBegin
<1>14. ASSUME NEW t \in Threads, StopUninit(t) PROVE Alone'
  BY <1>14, Names DEF StopUninit, DeleteDecoder
<1>15. ASSUME NEW t \in Threads, StopDisconnect(t) PROVE Alone'
  BY <1>15, Names DEF StopDisconnect, Alive
<1>16. ASSUME NEW t \in Threads, StopDelete(t) PROVE Alone'
  BY <1>16, Names DEF StopDelete, DeleteClient
<1>17. ASSUME NEW t \in Threads, StopFinish(t) PROVE Alone'
  BY <1>17, Names DEF StopFinish, Finished
<1>18. ASSUME NEW k \in Clients, StatusStart(k) PROVE Alone'
  BY <1>18, Names DEF StatusStart
<1>19. ASSUME NEW k \in Clients, StatusGet(k) PROVE Alone'
  BY <1>19, Names DEF StatusGet, OthersHandle
<1>20. ASSUME NEW k \in Clients, NEW goodbye \in BOOLEAN, RtcpDatagram(k, goodbye) PROVE Alone'
  BY <1>20, Names DEF RtcpDatagram
<1> HIDE DEF TInv, TypeInv, LabelInv, WindowLabels, StatusLabels, Handling, Held, Alone
<1> QED
  BY <1>1, <1>2, <1>3, <1>4, <1>5, <1>6, <1>7, <1>8, <1>9, <1>10, <1>11, <1>12, <1>13, <1>14,
     <1>15, <1>16, <1>17, <1>18, <1>19, <1>20, Names, Steps

\* The decoder is deleted and its pointer reset by one handler.
LEMMA DecoderStep ==
  ASSUME TInv, ~overlap, ~overlap', Held, Next, Runs
  PROVE  DecoderHeld'
<1> USE DEF Goto, dialogVars, sessionVars, TInv, TypeInv, LabelInv, WindowLabels, StatusLabels,
            Handling, Held, Alone, DecoderHeld, At, NULL, Decoders
<1>1. CASE OnBnClickedOk
  BY <1>1, Names DEF OnBnClickedOk, Starts, OthersHandle
<1>2. CASE OpenFile
  BY <1>2, Names DEF OpenFile, Starts, OthersHandle
<1>3. CASE OnBnClickedButton1
  BY <1>3, Names DEF OnBnClickedButton1, Starts, OthersHandle
<1>4. CASE OnBnClickedCancel
  BY <1>4, Names DEF OnBnClickedCancel, Starts, OthersHandle
<1>5. CASE OnTimer
  BY <1>5, Names DEF OnTimer, Starts, OthersHandle
<1>6. CASE DeleteOldClient
  BY <1>6, Names DEF DeleteOldClient, DeleteClient
<1>7. CASE NewClient
  <2>1. UNCHANGED << decoder, m_pInstance >> /\ pc[UI] = "new" /\ \A t \in Threads : pc[t] \notin Handling
    BY <1>7, Names DEF NewClient
  <2>2. pc'[UI] = "connect" /\ \A k \in Clients : pc'[k] \in {pc[k], "starting"}
    BY <1>7, Names DEF NewClient
  <2>3. ~At({"set", "reset", "disconnect", "delete", "finish"})
    BY <2>1, Names
  <2>4. ~At({"set", "reset", "disconnect", "delete", "finish"})'
    BY <2>1, <2>2, Names
  <2> QED
    BY <2>1, <2>2, <2>3, <2>4
<1>8. CASE Connect
  BY <1>8, Names DEF Connect, Alive
<1>9. CASE ConnectPlay
  BY <1>9, Names DEF ConnectPlay, Alive
<1>10. CASE Release
  <2>1. pc[UI] \in {"release", "reopen"} /\ (\A k \in Clients : pc[k] \notin Handling)
    BY <1>10 DEF Release
  <2>2. ~At({"set", "reset", "disconnect", "delete", "finish"})
    BY <2>1, Names
  <2>3. m_pInstance = NULL \/ decoder[m_pInstance] = "alive"
    BY <2>2
  <2>4. \A d \in Decoders : decoder[d] = "alive" => d = m_pInstance /\ d # NULL
    BY Names
  <2>5. \A d \in Decoders : decoder'[d] # "alive"
    <3>1. CASE m_pInstance = NULL
      BY <1>10, <2>4, <3>1 DEF Release, DeleteDecoder
    <3>2. CASE m_pInstance # NULL
      <4>1. decoder' = [ decoder EXCEPT ![m_pInstance] = "dead" ]
        BY <1>10, <2>3, <3>2 DEF Release, DeleteDecoder
      <4> QED
        BY <2>4, <3>2, <4>1
    <3> QED
      BY <3>1, <3>2
  <2>6. pc'[UI] \in {"set", "reset"} /\ m_pInstance' = m_pInstance
    BY <1>10, Names DEF Release
  <2> QED
    BY <2>5, <2>6, Names
<1>11. CASE Enter
  BY <1>11, Names DEF Enter
<1>12. CASE InitDecoder
  <2>1. m_pInstance = NULL /\ \A d \in Decoders : decoder[d] # "alive"
    BY <1>12 DEF InitDecoder
  <2>2. pc[UI] \in {"init", "initfile"} /\ \A t \in Threads : pc[t] \in Handling => FALSE
    BY <1>12, Names DEF InitDecoder
  <2>3. pc'[UI] = "idle" /\ ~At({"set", "reset", "disconnect", "delete", "finish"})'
    <3>1. pc'[UI] = "idle" /\ \A k \in Clients : pc'[k] = pc[k]
      BY <1>12, Names DEF InitDecoder
    <3>2. \A k \in Clients : pc[k] \in {"unborn", "starting", "waiting", "gone"}
      BY <2>2, Names
    <3> QED
      BY <3>1, <3>2, Names
  <2>4. \E d \in Decoders : decoder' = [ decoder EXCEPT ![d] = "alive" ] /\ m_pInstance' = d
    BY <1>12 DEF InitDecoder
  <2> QED
    BY <2>1, <2>3, <2>4
<1>13. ASSUME NEW t \in Threads, StopBegin(t) PROVE DecoderHeld'
  BY <1>13, Names DEF StopBegin
<1>14. ASSUME NEW t \in Threads, StopUninit(t) PROVE DecoderHeld'
  <2>1. pc[t] = "uninit" /\ (\A u \in Threads : u # t => pc[u] \notin Handling \cup {"set", "reset"})
    BY <1>14, Names DEF StopUninit
  <2>2. ~At({"set", "reset", "disconnect", "delete", "finish"})
    BY <2>1
  <2>3. m_pInstance = NULL \/ decoder[m_pInstance] = "alive"
    BY <2>2
  <2>4. \A d \in Decoders : decoder[d] = "alive" => d = m_pInstance /\ d # NULL
    BY Names
  <2>5. \A d \in Decoders : decoder'[d] # "alive"
    <3>1. CASE m_pInstance = NULL
      BY <1>14, <2>4, <3>1 DEF StopUninit, DeleteDecoder
    <3>2. CASE m_pInstance # NULL
      <4>1. decoder' = [ decoder EXCEPT ![m_pInstance] = "dead" ]
        BY <1>14, <2>3, <3>2 DEF StopUninit, DeleteDecoder
      <4> QED
        BY <2>4, <3>2, <4>1
    <3> QED
      BY <3>1, <3>2
  <2>6. pc'[t] = "disconnect" /\ m_pInstance' = m_pInstance /\ pc'[UI] \notin {"init", "initfile"}
    BY <1>14, <2>1, Names DEF StopUninit
  <2> QED
    BY <2>5, <2>6, Names
<1>15. ASSUME NEW t \in Threads, StopDisconnect(t) PROVE DecoderHeld'
  BY <1>15, Names DEF StopDisconnect, Alive
<1>16. ASSUME NEW t \in Threads, StopDelete(t) PROVE DecoderHeld'
  BY <1>16, Names DEF StopDelete, DeleteClient
<1>17. ASSUME NEW t \in Threads, StopFinish(t) PROVE DecoderHeld'
  BY <1>17, Names DEF StopFinish, Finished
<1>18. ASSUME NEW k \in Clients, StatusStart(k) PROVE DecoderHeld'
  BY <1>18, Names DEF StatusStart
<1>19. ASSUME NEW k \in Clients, StatusGet(k) PROVE DecoderHeld'
  BY <1>19, Names DEF StatusGet, OthersHandle
<1>20. ASSUME NEW k \in Clients, NEW goodbye \in BOOLEAN, RtcpDatagram(k, goodbye) PROVE DecoderHeld'
  BY <1>20, Names DEF RtcpDatagram
<1> HIDE DEF TInv, TypeInv, LabelInv, WindowLabels, StatusLabels, Handling, Held, Alone,
             DecoderHeld, At, NULL, Decoders
<1> QED
  BY <1>1, <1>2, <1>3, <1>4, <1>5, <1>6, <1>7, <1>8, <1>9, <1>10, <1>11, <1>12, <1>13, <1>14,
     <1>15, <1>16, <1>17, <1>18, <1>19, <1>20, Names, Steps

\* The client is deleted and its pointer reset by one handler.
LEMMA ClientStep ==
  ASSUME TInv, ~overlap, ~overlap', Held, Next, Runs
  PROVE  ClientHeld'
<1> USE DEF Goto, dialogVars, sessionVars, TInv, TypeInv, LabelInv, WindowLabels, StatusLabels,
            Handling, Held, Alone, ClientHeld, At, NULL, Clients
<1>1. CASE OnBnClickedOk
  BY <1>1, Names DEF OnBnClickedOk, Starts, OthersHandle
<1>2. CASE OpenFile
  BY <1>2, Names DEF OpenFile, Starts, OthersHandle
<1>3. CASE OnBnClickedButton1
  BY <1>3, Names DEF OnBnClickedButton1, Starts, OthersHandle
<1>4. CASE OnBnClickedCancel
  BY <1>4, Names DEF OnBnClickedCancel, Starts, OthersHandle
<1>5. CASE OnTimer
  BY <1>5, Names DEF OnTimer, Starts, OthersHandle
<1>6. CASE DeleteOldClient
  BY <1>6, Names DEF DeleteOldClient, DeleteClient
<1>7. CASE NewClient
  BY <1>7, Names DEF NewClient, NextOf
<1>8. CASE Connect
  BY <1>8, Names DEF Connect, Alive
<1>9. CASE ConnectPlay
  BY <1>9, Names DEF ConnectPlay, Alive
<1>10. CASE Release
  BY <1>10, Names DEF Release, DeleteDecoder
<1>11. CASE Enter
  BY <1>11, Names DEF Enter
<1>12. CASE InitDecoder
  BY <1>12, Names DEF InitDecoder, NextOf
<1>13. ASSUME NEW t \in Threads, StopBegin(t) PROVE ClientHeld'
  BY <1>13, Names DEF StopBegin
<1>14. ASSUME NEW t \in Threads, StopUninit(t) PROVE ClientHeld'
  BY <1>14, Names DEF StopUninit, DeleteDecoder
<1>15. ASSUME NEW t \in Threads, StopDisconnect(t) PROVE ClientHeld'
  BY <1>15, Names DEF StopDisconnect, Alive
<1>16. ASSUME NEW t \in Threads, StopDelete(t) PROVE ClientHeld'
  BY <1>16, Names DEF StopDelete, DeleteClient
<1>17. ASSUME NEW t \in Threads, StopFinish(t) PROVE ClientHeld'
  BY <1>17, Names DEF StopFinish, Finished
<1>18. ASSUME NEW k \in Clients, StatusStart(k) PROVE ClientHeld'
  BY <1>18, Names DEF StatusStart
<1>19. ASSUME NEW k \in Clients, StatusGet(k) PROVE ClientHeld'
  BY <1>19, Names DEF StatusGet, OthersHandle
<1>20. ASSUME NEW k \in Clients, NEW goodbye \in BOOLEAN, RtcpDatagram(k, goodbye) PROVE ClientHeld'
  BY <1>20, Names DEF RtcpDatagram
<1> HIDE DEF TInv, TypeInv, LabelInv, WindowLabels, StatusLabels, Handling, Held, Alone,
             ClientHeld, At, NULL, Clients
<1> QED
  BY <1>1, <1>2, <1>3, <1>4, <1>5, <1>6, <1>7, <1>8, <1>9, <1>10, <1>11, <1>12, <1>13, <1>14,
     <1>15, <1>16, <1>17, <1>18, <1>19, <1>20, Names, Steps

\* What the server plays is what the dialog plays.
LEMMA OnAirStep ==
  ASSUME TInv, ~overlap, ~overlap', Held, Next, Runs
  PROVE  OnAirHeld'
<1> USE DEF Goto, dialogVars, sessionVars, TInv, TypeInv, LabelInv, WindowLabels, StatusLabels,
            Handling, Held, Alone, ClientHeld, OnAirHeld, OnAir, Buttons, At, NULL, Clients
<1>1. CASE OnBnClickedOk
  BY <1>1, Names DEF OnBnClickedOk, Starts, OthersHandle
<1>2. CASE OpenFile
  BY <1>2, Names DEF OpenFile, Starts, OthersHandle
<1>3. CASE OnBnClickedButton1
  BY <1>3, Names DEF OnBnClickedButton1, Starts, OthersHandle
<1>4. CASE OnBnClickedCancel
  BY <1>4, Names DEF OnBnClickedCancel, Starts, OthersHandle
<1>5. CASE OnTimer
  BY <1>5, Names DEF OnTimer, Starts, OthersHandle
<1>6. CASE DeleteOldClient
  BY <1>6, Names DEF DeleteOldClient, DeleteClient
<1>7. CASE NewClient
  BY <1>7, Names DEF NewClient, NextOf
<1>8. CASE Connect
  <2>1. pc[UI] = "connect" /\ ~At({"delete", "finish"})
    BY <1>8, Names DEF Connect
  <2>2. \A k \in Clients : ~OnAir(k)
    BY <2>1
  <2>3. \A k \in Clients : ~OnAir(k)'
    <3>1. CASE UNCHANGED numMedia
      <4>1. session' \in { session, [ session EXCEPT ![m_rtsptheClient] = "setup" ] }
        BY <1>8, <3>1 DEF Connect
      <4> QED
        BY <2>2, <3>1, <4>1
    <3>2. CASE ~UNCHANGED numMedia
      <4>1. PICK n \in 0 .. MaxMedia :
              /\ numMedia' = [ numMedia EXCEPT ![m_rtsptheClient] = n ]
              /\ session' = [ session EXCEPT ![m_rtsptheClient] = "setup" ]
        BY <1>8, <3>2 DEF Connect
      <4> QED
        BY <2>2, <4>1
    <3> QED
      BY <3>1, <3>2
  <2> QED
    BY <2>3
<1>9. CASE ConnectPlay
  <2>1. pc[UI] = "play" /\ m_ifileType = "rtsp" /\ \A t \in Threads : pc[t] \notin Handling
    BY <1>9, Names DEF ConnectPlay
  <2>2. \A k \in Clients : ~OnAir(k)
    BY <2>1
  <2>3. m_ifileType' = "rtsp" /\ m_rtsptheClient' = m_rtsptheClient /\ numMedia' = numMedia
    BY <1>9, <2>1 DEF ConnectPlay
  <2>4. \A k \in Clients : session'[k] = "playing" /\ numMedia[k] > 0 =>
          k = m_rtsptheClient /\ pc'[UI] = "release"
    <3>1. CASE session' \in { session, [ session EXCEPT ![m_rtsptheClient] = "unanswered" ] }
      BY <2>2, <3>1
    <3>2. CASE session' \notin { session, [ session EXCEPT ![m_rtsptheClient] = "unanswered" ] }
      <4>1. /\ session' = [ session EXCEPT ![m_rtsptheClient] = "playing" ]
            /\ pc'[UI] = "release" \/ numMedia[m_rtsptheClient] = 0
        BY <1>9, <3>2, Names DEF ConnectPlay
      <4> QED
        BY <2>2, <4>1
    <3> QED
      BY <3>1, <3>2
  <2>5. ~At({"delete", "finish"})'
    BY <1>9, <2>1, Names DEF ConnectPlay
  <2> QED
    BY <2>3, <2>4, <2>5, Names
<1>10. CASE Release
  BY <1>10, Names DEF Release, DeleteDecoder
<1>11. CASE Enter
  <2>1. pc[UI] \in {"set", "reset"} /\ \A t \in Threads : pc[t] \notin Handling
    BY <1>11, Names DEF Enter
  <2>2. /\ UNCHANGED << session, numMedia, m_rtsptheClient, m_ifileType >>
        /\ pc'[UI] \in {"init", "initfile"} /\ (\A t \in Threads : pc'[t] \notin {"delete", "finish"})
        /\ m_bPlaying' = (m_bPlaying \/ pc[UI] = "set")
    BY <1>11, <2>1, Names DEF Enter
  <2>3. \A k \in Clients : OnAir(k) => m_bPlaying \/ pc[UI] = "set"
    BY <2>1, Names
  <2> QED
    BY <2>1, <2>2, <2>3
<1>12. CASE InitDecoder
  BY <1>12, Names DEF InitDecoder, NextOf
<1>13. ASSUME NEW t \in Threads, StopBegin(t) PROVE OnAirHeld'
  BY <1>13, Names DEF StopBegin
<1>14. ASSUME NEW t \in Threads, StopUninit(t) PROVE OnAirHeld'
  BY <1>14, Names DEF StopUninit, DeleteDecoder
<1>15. ASSUME NEW t \in Threads, StopDisconnect(t) PROVE OnAirHeld'
  <2>1. pc[t] = "disconnect" /\ ~m_bPlaying /\ (\A u \in Threads : u # t => pc[u] \notin Handling)
        /\ ~At({"finish"})
    BY <1>15, Names DEF StopDisconnect
  <2>2. \A k \in Clients : ~OnAir(k)'
    <3>1. \A k \in Clients : OnAir(k) => k = m_rtsptheClient /\ m_ifileType = "rtsp"
      BY Names
    <3>2. numMedia' = numMedia
      BY <1>15 DEF StopDisconnect
    <3>3. CASE m_rtsptheClient = NULL \/ m_ifileType # "rtsp"
      <4>1. session' = session
        BY <1>15, <3>3 DEF StopDisconnect
      <4> QED
        BY <3>1, <3>2, <3>3, <4>1
    <3>4. CASE ~(m_rtsptheClient = NULL \/ m_ifileType # "rtsp")
      <4>1. session' = [ session EXCEPT ![m_rtsptheClient] = "none" ]
        BY <1>15, <2>1, <3>4 DEF StopDisconnect, Alive
      <4> QED
        BY <3>1, <3>2, <4>1
    <3> QED
      BY <3>3, <3>4
  <2> QED
    BY <2>2
<1>16. ASSUME NEW t \in Threads, StopDelete(t) PROVE OnAirHeld'
  BY <1>16, Names DEF StopDelete, DeleteClient
<1>17. ASSUME NEW t \in Threads, StopFinish(t) PROVE OnAirHeld'
  BY <1>17, Names DEF StopFinish, Finished
<1>18. ASSUME NEW k \in Clients, StatusStart(k) PROVE OnAirHeld'
  BY <1>18, Names DEF StatusStart
<1>19. ASSUME NEW k \in Clients, StatusGet(k) PROVE OnAirHeld'
  BY <1>19, Names DEF StatusGet, OthersHandle
<1>20. ASSUME NEW k \in Clients, NEW goodbye \in BOOLEAN, RtcpDatagram(k, goodbye) PROVE OnAirHeld'
  BY <1>20, Names DEF RtcpDatagram
<1> HIDE DEF TInv, TypeInv, LabelInv, WindowLabels, StatusLabels, Handling, Held, Alone,
             ClientHeld, OnAirHeld, OnAir, Buttons, At, NULL, Clients
<1> QED
  BY <1>1, <1>2, <1>3, <1>4, <1>5, <1>6, <1>7, <1>8, <1>9, <1>10, <1>11, <1>12, <1>13, <1>14,
     <1>15, <1>16, <1>17, <1>18, <1>19, <1>20, Names, Steps

\* What the server was asked to play, the dialog asks it to stop, or has
\* forgotten because play was pressed again.
LEMMA AskedStep ==
  ASSUME TInv, ~overlap, ~overlap', Held, Next, Runs
  PROVE  AskedHeld'
<1> USE DEF Goto, dialogVars, sessionVars, TInv, TypeInv, LabelInv, WindowLabels, StatusLabels,
            Handling, Held, Alone, ClientHeld, AskedHeld, Asked, WillBeAsked, PlayedAgain, Buttons, At, NULL, Clients
<1>1. CASE OnBnClickedOk
  BY <1>1, Names DEF OnBnClickedOk, Starts, OthersHandle
<1>2. CASE OpenFile
  BY <1>2, Names DEF OpenFile, Starts, OthersHandle
<1>3. CASE OnBnClickedButton1
  BY <1>3, Names DEF OnBnClickedButton1, Starts, OthersHandle
<1>4. CASE OnBnClickedCancel
  BY <1>4, Names DEF OnBnClickedCancel, Starts, OthersHandle
<1>5. CASE OnTimer
  BY <1>5, Names DEF OnTimer, Starts, OthersHandle
<1>6. CASE DeleteOldClient
  <2>1. \A k \in Clients : client'[k] # "unborn" <=> client[k] # "unborn"
    BY <1>6 DEF DeleteOldClient, DeleteClient
  <2>2. pc'[UI] = "new" /\ session' = session
    BY <1>6, Names DEF DeleteOldClient
  <2> QED
    BY <2>1, <2>2
<1>7. CASE NewClient
  BY <1>7, Names DEF NewClient, NextOf
<1>8. CASE Connect
  <2>1. /\ pc[UI] = "connect" /\ pc'[UI] \in {"connect", "idle", "play"} /\ \A k \in Clients : pc'[k] = pc[k]
        /\ UNCHANGED << client, m_rtsptheClient, m_ifileType >>
    BY <1>8, Names DEF Connect
  <2>2. session' \in { session, [ session EXCEPT ![m_rtsptheClient] = "setup" ] }
    BY <1>8 DEF Connect
  <2>3. \A k \in Clients : Asked(k)' => Asked(k)
    BY <2>2
  <2>4. At({"delete", "finish"})' <=> At({"delete", "finish"})
    BY <2>1, Names
  <2>5. \A k \in Clients : (PlayedAgain(k)' <=> PlayedAgain(k)) /\ (WillBeAsked(k)' <=> WillBeAsked(k))
    BY <2>1
  <2> HIDE DEF Asked, WillBeAsked, PlayedAgain, At
  <2> QED
    BY <2>1, <2>3, <2>4, <2>5
<1>9. CASE ConnectPlay
  <2>1. /\ pc[UI] = "play" /\ pc'[UI] \in {"play", "idle", "release"} /\ \A k \in Clients : pc'[k] = pc[k]
        /\ UNCHANGED << client, m_rtsptheClient, m_ifileType >>
    BY <1>9, Names DEF ConnectPlay
  <2>2. m_ifileType = "rtsp" /\ ~At({"delete", "finish"})'
    BY <2>1, Names
  <2>3. \/ session' = session
        \/ /\ \A k \in Clients : k # m_rtsptheClient => session'[k] = session[k]
           /\ m_rtsptheClient # NULL /\ client[m_rtsptheClient] = "alive"
    BY <1>9 DEF ConnectPlay, Alive
  <2>4. \A k \in Clients : PlayedAgain(k)' <=> PlayedAgain(k)
    BY <2>1
  <2>5. \A k \in Clients : Asked(k)' => client[k] # "unborn" /\ (WillBeAsked(k)' \/ PlayedAgain(k))
    <3> SUFFICES ASSUME NEW k \in Clients, Asked(k)'
                 PROVE  client[k] # "unborn" /\ (WillBeAsked(k)' \/ PlayedAgain(k))
      OBVIOUS
    <3>1. CASE session'[k] = session[k]
      <4>1. Asked(k)
        BY <3>1
      <4> QED
        BY <2>1, <4>1
    <3>2. CASE session'[k] # session[k]
      <4>1. k = m_rtsptheClient /\ client[k] = "alive"
        BY <2>3, <3>2
      <4> QED
        BY <2>1, <2>2, <4>1
    <3> QED
      BY <3>1, <3>2
  <2> HIDE DEF Asked, WillBeAsked, PlayedAgain, At
  <2> QED
    BY <2>1, <2>2, <2>4, <2>5
<1>10. CASE Release
  BY <1>10, Names DEF Release, DeleteDecoder
<1>11. CASE Enter
  BY <1>11, Names DEF Enter
<1>12. CASE InitDecoder
  BY <1>12, Names DEF InitDecoder, NextOf
<1>13. ASSUME NEW t \in Threads, StopBegin(t) PROVE AskedHeld'
  BY <1>13, Names DEF StopBegin
<1>14. ASSUME NEW t \in Threads, StopUninit(t) PROVE AskedHeld'
  BY <1>14, Names DEF StopUninit, DeleteDecoder
<1>15. ASSUME NEW t \in Threads, StopDisconnect(t) PROVE AskedHeld'
  <2>1. /\ pc[t] = "disconnect" /\ (\A u \in Threads : u # t => pc[u] \notin Handling) /\ ~At({"finish"})
        /\ UNCHANGED << client, m_rtsptheClient, m_ifileType >>
    BY <1>15, Names DEF StopDisconnect
  <2>2. \A k \in Clients : Asked(k)' => Asked(k) /\ ~WillBeAsked(k)
    <3>1. CASE m_rtsptheClient = NULL \/ m_ifileType # "rtsp"
      <4>1. session' = session
        BY <1>15, <3>1 DEF StopDisconnect
      <4> QED
        BY <3>1, <4>1
    <3>2. CASE ~(m_rtsptheClient = NULL \/ m_ifileType # "rtsp")
      <4>1. session' = [ session EXCEPT ![m_rtsptheClient] = "none" ]
        BY <1>15, <2>1, <3>2 DEF StopDisconnect, Alive
      <4> QED
        BY <4>1
    <3> QED
      BY <3>1, <3>2
  <2>3. pc[UI] \notin {"renew", "new"} \/ t = UI
    BY <2>1, Names
  <2>4. pc'[UI] \in {pc[UI], "delete"} /\ (t = UI => pc'[UI] = "delete") /\ pc[UI] \notin {"renew", "new"}
    BY <1>15, <2>1, <2>3, Names DEF StopDisconnect
  <2>5. \A k \in Clients : PlayedAgain(k)' <=> PlayedAgain(k)
    BY <2>1, <2>4
  <2> HIDE DEF Asked, WillBeAsked, PlayedAgain, At
  <2> QED
    BY <2>1, <2>2, <2>5
<1>16. ASSUME NEW t \in Threads, StopDelete(t) PROVE AskedHeld'
  <2>1. pc[t] = "delete" /\ At({"delete", "finish"})
        /\ UNCHANGED << session, m_rtsptheClient, m_ifileType >>
    BY <1>16, Names DEF StopDelete
  <2>2. \A k \in Clients : client'[k] # "unborn" <=> client[k] # "unborn"
    BY <1>16 DEF StopDelete, DeleteClient
  <2>3. pc'[UI] = pc[UI] \/ t = UI
    BY <1>16, Names DEF StopDelete
  <2>4. \A k \in Clients : PlayedAgain(k) => PlayedAgain(k)'
    BY <2>1, <2>2, <2>3
  <2>5. \A k \in Clients : Asked(k)' <=> Asked(k)
    BY <2>1
  <2> HIDE DEF Asked, WillBeAsked, PlayedAgain, At
  <2> QED
    BY <2>1, <2>2, <2>4, <2>5
<1>17. ASSUME NEW t \in Threads, StopFinish(t) PROVE AskedHeld'
  BY <1>17, Names DEF StopFinish, Finished
<1>18. ASSUME NEW k \in Clients, StatusStart(k) PROVE AskedHeld'
  BY <1>18, Names DEF StatusStart
<1>19. ASSUME NEW k \in Clients, StatusGet(k) PROVE AskedHeld'
  BY <1>19, Names DEF StatusGet, OthersHandle
<1>20. ASSUME NEW k \in Clients, NEW goodbye \in BOOLEAN, RtcpDatagram(k, goodbye) PROVE AskedHeld'
  BY <1>20, Names DEF RtcpDatagram
<1> HIDE DEF TInv, TypeInv, LabelInv, WindowLabels, StatusLabels, Handling, Held, Alone,
             ClientHeld, AskedHeld, Asked, WillBeAsked, PlayedAgain, Buttons, At, NULL, Clients
<1> QED
  BY <1>1, <1>2, <1>3, <1>4, <1>5, <1>6, <1>7, <1>8, <1>9, <1>10, <1>11, <1>12, <1>13, <1>14,
     <1>15, <1>16, <1>17, <1>18, <1>19, <1>20, Names, Steps

\* The buttons follow.
LEMMA ButtonsStep ==
  ASSUME TInv, ~overlap, ~overlap', Held, Next, Runs
  PROVE  Buttons'
<1> USE DEF Goto, dialogVars, sessionVars, TInv, TypeInv, LabelInv, WindowLabels, StatusLabels,
            Handling, Held, Alone, Buttons, At, NULL
<1>1. CASE OnBnClickedOk
  BY <1>1, Names DEF OnBnClickedOk, Starts, OthersHandle
<1>2. CASE OpenFile
  BY <1>2, Names DEF OpenFile, Starts, OthersHandle
<1>3. CASE OnBnClickedButton1
  BY <1>3, Names DEF OnBnClickedButton1, Starts, OthersHandle
<1>4. CASE OnBnClickedCancel
  BY <1>4, Names DEF OnBnClickedCancel, Starts, OthersHandle
<1>5. CASE OnTimer
  BY <1>5, Names DEF OnTimer, Starts, OthersHandle
<1>6. CASE DeleteOldClient
  BY <1>6, Names DEF DeleteOldClient, DeleteClient
<1>7. CASE NewClient
  BY <1>7, Names DEF NewClient, NextOf
<1>8. CASE Connect
  BY <1>8, Names DEF Connect, Alive
<1>9. CASE ConnectPlay
  BY <1>9, Names DEF ConnectPlay, Alive
<1>10. CASE Release
  BY <1>10, Names DEF Release, DeleteDecoder
<1>11. CASE Enter
  BY <1>11, Names DEF Enter
<1>12. CASE InitDecoder
  BY <1>12, Names DEF InitDecoder, NextOf
<1>13. ASSUME NEW t \in Threads, StopBegin(t) PROVE Buttons'
  BY <1>13, Names DEF StopBegin
<1>14. ASSUME NEW t \in Threads, StopUninit(t) PROVE Buttons'
  BY <1>14, Names DEF StopUninit, DeleteDecoder
<1>15. ASSUME NEW t \in Threads, StopDisconnect(t) PROVE Buttons'
  BY <1>15, Names DEF StopDisconnect, Alive
<1>16. ASSUME NEW t \in Threads, StopDelete(t) PROVE Buttons'
  BY <1>16, Names DEF StopDelete, DeleteClient
<1>17. ASSUME NEW t \in Threads, StopFinish(t) PROVE Buttons'
  BY <1>17, Names DEF StopFinish, Finished
<1>18. ASSUME NEW k \in Clients, StatusStart(k) PROVE Buttons'
  BY <1>18, Names DEF StatusStart
<1>19. ASSUME NEW k \in Clients, StatusGet(k) PROVE Buttons'
  BY <1>19, Names DEF StatusGet, OthersHandle
<1>20. ASSUME NEW k \in Clients, NEW goodbye \in BOOLEAN, RtcpDatagram(k, goodbye) PROVE Buttons'
  BY <1>20, Names DEF RtcpDatagram
<1> HIDE DEF TInv, TypeInv, LabelInv, WindowLabels, StatusLabels, Handling, Held, Alone,
             Buttons, At, NULL
<1> QED
  BY <1>1, <1>2, <1>3, <1>4, <1>5, <1>6, <1>7, <1>8, <1>9, <1>10, <1>11, <1>12, <1>13, <1>14,
     <1>15, <1>16, <1>17, <1>18, <1>19, <1>20, Names, Steps

\* Objects that a handler uses are alive.
LEMMA FaultStep ==
  ASSUME TInv, ~overlap, ~overlap', Held, fault = "none", Next, Runs
  PROVE  fault' # "handler"
<1> USE DEF Goto, dialogVars, sessionVars, TInv, TypeInv, LabelInv, WindowLabels, StatusLabels,
            Handling, Held, Alone, DecoderHeld, ClientHeld, At, NULL
<1>1. CASE OnBnClickedOk
  BY <1>1, Names DEF OnBnClickedOk, Starts, OthersHandle
<1>2. CASE OpenFile
  BY <1>2, Names DEF OpenFile, Starts, OthersHandle
<1>3. CASE OnBnClickedButton1
  BY <1>3, Names DEF OnBnClickedButton1, Starts, OthersHandle
<1>4. CASE OnBnClickedCancel
  BY <1>4, Names DEF OnBnClickedCancel, Starts, OthersHandle
<1>5. CASE OnTimer
  BY <1>5, Names DEF OnTimer, Starts, OthersHandle
<1>6. CASE DeleteOldClient
  BY <1>6, Names DEF DeleteOldClient, DeleteClient
<1>7. CASE NewClient
  BY <1>7, Names DEF NewClient, NextOf
<1>8. CASE Connect
  BY <1>8, Names DEF Connect, Alive
<1>9. CASE ConnectPlay
  BY <1>9, Names DEF ConnectPlay, Alive
<1>10. CASE Release
  BY <1>10, Names DEF Release, DeleteDecoder
<1>11. CASE Enter
  BY <1>11, Names DEF Enter
<1>12. CASE InitDecoder
  BY <1>12, Names DEF InitDecoder, NextOf
<1>13. ASSUME NEW t \in Threads, StopBegin(t) PROVE fault' # "handler"
  BY <1>13, Names DEF StopBegin
<1>14. ASSUME NEW t \in Threads, StopUninit(t) PROVE fault' # "handler"
  BY <1>14, Names DEF StopUninit, DeleteDecoder
<1>15. ASSUME NEW t \in Threads, StopDisconnect(t) PROVE fault' # "handler"
  BY <1>15, Names DEF StopDisconnect, Alive
<1>16. ASSUME NEW t \in Threads, StopDelete(t) PROVE fault' # "handler"
  BY <1>16, Names DEF StopDelete, DeleteClient
<1>17. ASSUME NEW t \in Threads, StopFinish(t) PROVE fault' # "handler"
  BY <1>17, Names DEF StopFinish, Finished
<1>18. ASSUME NEW k \in Clients, StatusStart(k) PROVE fault' # "handler"
  BY <1>18, Names DEF StatusStart
<1>19. ASSUME NEW k \in Clients, StatusGet(k) PROVE fault' # "handler"
  BY <1>19, Names DEF StatusGet, OthersHandle
<1>20. ASSUME NEW k \in Clients, NEW goodbye \in BOOLEAN, RtcpDatagram(k, goodbye) PROVE fault' # "handler"
  BY <1>20, Names DEF RtcpDatagram
<1> HIDE DEF TInv, TypeInv, LabelInv, WindowLabels, StatusLabels, Handling, Held, Alone,
             DecoderHeld, ClientHeld, At, NULL
<1> QED
  BY <1>1, <1>2, <1>3, <1>4, <1>5, <1>6, <1>7, <1>8, <1>9, <1>10, <1>11, <1>12, <1>13, <1>14,
     <1>15, <1>16, <1>17, <1>18, <1>19, <1>20, Names, Steps

-------------------------------------------------------------------------------
(* The theorems. *)

LEMMA PInit == Init => TInv /\ PInv
<1> SUFFICES ASSUME Init PROVE TInv /\ PInv
  OBVIOUS
<1>1. pc[UI] = "idle" /\ \A k \in Clients : pc[k] = "unborn"
  BY Names DEF Init
<1>2. TInv
  <2>1. LabelInv
    <3>1. pc \in [ Threads -> {"idle", "unborn"} ]
      BY DEF Init
    <3> QED
      BY <1>1, <3>1 DEF LabelInv, WindowLabels, StatusLabels
  <2>2. Goodbyes
    BY <1>1, PlayerAssumption DEF Init, Goodbyes
  <2>3. TypeInv
    <3>1. 0 \in 0 .. MaxMedia
      BY PlayerAssumption
    <3> QED
      BY <2>1, <3>1 DEF Init, TypeInv, LabelInv, NULL
  <2> QED
    BY <2>1, <2>2, <2>3 DEF TInv
<1>3. Alone /\ ClientHeld /\ Buttons
  BY <1>1, Names DEF Init, Alone, ClientHeld, Buttons, Handling, At, NULL
<1>4. DecoderHeld
  BY <1>1, Names DEF Init, DecoderHeld, At, NULL
<1>5. OnAirHeld
  BY <1>1 DEF Init, OnAirHeld, OnAir
<1>6. AskedHeld
  BY <1>1 DEF Init, AskedHeld, Asked
<1> QED
  BY <1>2, <1>3, <1>4, <1>5, <1>6 DEF Init, PInv, Held

LEMMA PStep == TInv /\ PInv /\ [Next]_vars => (TInv /\ PInv)'
<1> SUFFICES ASSUME TInv, PInv, [Next]_vars PROVE (TInv /\ PInv)'
  OBVIOUS
<1>1. CASE UNCHANGED vars
  BY <1>1 DEF TInv, TypeInv, LabelInv, Goodbyes, PInv, Held, Alone, DecoderHeld, ClientHeld,
     OnAirHeld, OnAir, AskedHeld, Asked, WillBeAsked, PlayedAgain, Buttons, At, vars, dialogVars, sessionVars
<1>2. CASE Next /\ Runs
  <2>1. TInv'
    BY <1>2, LabelsStep, TypeStep, GoodbyesStep DEF TInv
  <2>2. ASSUME ~overlap' PROVE Held' /\ fault' # "handler"
    <3>1. ~overlap /\ Held /\ fault = "none"
      BY <1>2, <2>2, OverlapStays DEF PInv, Runs
    <3>2. Alone' /\ DecoderHeld' /\ ClientHeld' /\ OnAirHeld' /\ AskedHeld' /\ Buttons'
      BY <1>2, <2>2, <3>1, AloneStep, DecoderStep, ClientStep, OnAirStep, AskedStep, ButtonsStep
    <3>3. fault' # "handler"
      BY <1>2, <2>2, <3>1, FaultStep
    <3> QED
      BY <3>2, <3>3 DEF Held
  <2> QED
    BY <2>1, <2>2 DEF PInv, TInv, TypeInv
<1>3. CASE Next /\ ~Runs
  BY <1>1, <1>3 DEF Next
<1> QED
  BY <1>1, <1>2, <1>3

\* Dialog, objects, sessions and threads keep their types.
THEOREM PlayerTypeCorrect == Spec => []TypeInv
<1>1. TInv => TypeInv
  BY DEF TInv
<1> QED
  BY <1>1, PInit, PStep, PTL DEF Spec

\* No handler uses or deletes a dead decoder or client unless two of them run
\* at once.
THEOREM HandlersUseTheLiving == Spec => []HandlersSafe
<1>1. PInv => HandlersSafe
  BY DEF PInv, HandlersSafe
<1> QED
  BY <1>1, PInit, PStep, PTL DEF Spec

\* Then, too, the dialog owns the only decoder there is.
THEOREM NoDecoderLeft == Spec => []OneDecoder
<1>1. PInv => OneDecoder
  BY DEF PInv, Held, DecoderHeld, OneDecoder
<1> QED
  BY <1>1, PInit, PStep, PTL DEF Spec

\* What is asked of the server and known is known to be the dialog's; what is not
\* known is the dialog's until play is pressed again.
LEMMA AskedOrForgotten ==
  ASSUME TInv, Held
  PROVE  \A k \in Clients : Asked(k) => WillBeAsked(k) \/ (Unknown(k) /\ PlayedAgain(k))
<1> SUFFICES ASSUME NEW k \in Clients, Asked(k), ~WillBeAsked(k)
             PROVE  Unknown(k) /\ PlayedAgain(k)
  OBVIOUS
<1>1. PlayedAgain(k)
  BY DEF Held, AskedHeld
<1>2. ~OnAir(k)
  BY DEF Held, OnAirHeld, WillBeAsked
<1>3. numMedia[k] \in Nat
  BY PlayerAssumption DEF TInv, TypeInv
<1> QED
  BY <1>1, <1>2, <1>3 DEF OnAir, Asked, Unknown

\* And what the server was asked to play is what the dialog will tear down, or
\* was not known to be played when play was pressed again.
THEOREM NoSessionLeft == Spec => []PlayingIsTornDown
<1>1. TInv /\ PInv => PlayingIsTornDown
  BY AskedOrForgotten DEF PInv, PlayingIsTornDown
<1> QED
  BY <1>1, PInit, PStep, PTL DEF Spec

\* While the window waits for the user, the stop button works if there is
\* anything to stop, and the play button does not if something plays.
THEOREM StopIsOffered == Spec => []CanBeStopped
<1>1. PInv => CanBeStopped
  BY DEF PInv, Held, Buttons, CanBeStopped
<1> QED
  BY <1>1, PInit, PStep, PTL DEF Spec

-------------------------------------------------------------------------------
(***************************************************************************)
(* What brings two handlers together.                                      *)
(***************************************************************************)

\* A goodbye for client k has ended one of its RTCP threads and is not waiting
\* for the status thread any more.
Parted(k) == messages[k] + rtcp[k] < numMedia[k]

PartedInv ==
  /\ \A k \in Clients :
       /\ messages[k] + rtcp[k] <= numMedia[k]
       /\ client[k] = "unborn" => numMedia[k] = 0
       /\ pc[k] \in Handling => Parted(k)
  /\ pc[UI] = "connect" /\ m_rtsptheClient # NULL => numMedia[m_rtsptheClient] = 0
  /\ overlap => \E k \in Clients : Parted(k)

\* A step that neither takes nor posts a goodbye, connects nothing and begins
\* no handler on a status thread.
CountsStay ==
  /\ UNCHANGED << messages, rtcp, numMedia >>
  /\ \A k \in Clients :
       /\ client'[k] = "unborn" => client[k] = "unborn"
       /\ pc'[k] \in Handling => pc[k] \in Handling
  /\ pc'[UI] = "connect" /\ m_rtsptheClient' # NULL =>
       \/ pc[UI] = "connect" /\ m_rtsptheClient' = m_rtsptheClient
       \/ m_rtsptheClient' \in Clients /\ client[m_rtsptheClient'] = "unborn"
  /\ overlap' => overlap \/ \E k \in Clients : pc[k] \in Handling

LEMMA PartedStays ==
  ASSUME PartedInv, CountsStay
  PROVE  PartedInv'
<1>1. \A k \in Clients : Parted(k)' <=> Parted(k)
  BY DEF CountsStay, Parted
<1>2. overlap' => \E k \in Clients : Parted(k)
  BY DEF PartedInv, CountsStay
<1>3. pc'[UI] = "connect" /\ m_rtsptheClient' # NULL => numMedia[m_rtsptheClient'] = 0
  BY DEF PartedInv, CountsStay
<1> QED BY <1>1, <1>2, <1>3 DEF PartedInv, CountsStay

LEMMA PartedStep ==
  ASSUME TInv, PartedInv, Next, Runs
  PROVE  PartedInv'
<1> USE DEF Goto, dialogVars, sessionVars
<1>1. CASE OnBnClickedOk \/ OpenFile \/ OnBnClickedButton1 \/ OnBnClickedCancel \/ OnTimer
  <2>1. /\ UNCHANGED << messages, rtcp, numMedia, client >>
        /\ overlap' = (overlap \/ OthersHandle(UI)) /\ pc[UI] = "idle"
        /\ \E label \in {"idle", "release", "renew", "reopen", "begin"} : pc' = [ pc EXCEPT ![UI] = label ]
    <3>1. pc[UI] = "idle" => pc = [ pc EXCEPT ![UI] = "idle" ]
      BY Names DEF TInv, TypeInv
    <3> QED BY <1>1, <3>1 DEF OnBnClickedOk, OpenFile, OnBnClickedButton1, OnBnClickedCancel, OnTimer, Starts
  <2>2. pc'[UI] # "connect" /\ \A k \in Clients : pc'[k] = pc[k]
    BY <2>1, Names DEF TInv, TypeInv
  <2>3. OthersHandle(UI) => \E k \in Clients : pc[k] \in Handling
    BY Names DEF OthersHandle
  <2> QED BY <2>1, <2>2, <2>3, PartedStays DEF CountsStay
<1>2. CASE NewClient
  <2>1. PICK k \in Clients :
          /\ client[k] = "unborn" /\ client' = [ client EXCEPT ![k] = "alive" ]
          /\ m_rtsptheClient' = k
          /\ pc' = [ pc EXCEPT ![UI] = "connect", ![k] = "starting" ]
    BY <1>2 DEF NewClient, NextOf
  <2>2. UNCHANGED << messages, rtcp, numMedia, overlap >>
    BY <1>2 DEF NewClient
  <2>3. \A j \in Clients : (client'[j] = "unborn" => client[j] = "unborn")
                           /\ (pc'[j] \in Handling => pc[j] \in Handling)
    BY <2>1, Names DEF TInv, TypeInv, Handling
  <2> QED BY <2>1, <2>2, <2>3, PartedStays DEF CountsStay
<1>3. CASE Connect
  <2>1. pc[UI] = "connect" /\ UNCHANGED << client, m_rtsptheClient, messages, overlap >>
    BY <1>3 DEF Connect
  <2>2. \A k \in Clients : pc'[k] = pc[k]
    BY <1>3, Names DEF Connect, TInv, TypeInv
  <2>3. CASE UNCHANGED << numMedia, rtcp >>
    BY <2>1, <2>2, <2>3, PartedStays DEF CountsStay
  <2>4. CASE ~UNCHANGED << numMedia, rtcp >>
    <3> DEFINE m == m_rtsptheClient
    <3>1. PICK n \in 0 .. MaxMedia :
            /\ numMedia' = [ numMedia EXCEPT ![m] = n ] /\ rtcp' = [ rtcp EXCEPT ![m] = n ]
            /\ pc' = [ pc EXCEPT ![UI] = "play" ]
      BY <1>3, <2>4 DEF Connect
    <3>2. m # NULL /\ m \in Clients /\ client[m] = "alive"
      BY <1>3, <2>4 DEF Connect, Alive, TInv, TypeInv
    <3>3. messages[m] = 0 /\ rtcp[m] = 0 /\ numMedia[m] = 0
      BY <2>1, <3>2 DEF TInv, Goodbyes, PartedInv
    <3>4. ~Parted(m)
      BY <3>3 DEF Parted
    <3>5. pc'[UI] = "play"
      BY <3>1, Names DEF TInv, TypeInv
    <3>6. /\ numMedia'[m] = n /\ rtcp'[m] = n /\ messages'[m] = 0
          /\ \A k \in Clients : k # m => numMedia'[k] = numMedia[k] /\ rtcp'[k] = rtcp[k] /\ messages'[k] = messages[k]
      BY <2>1, <3>1, <3>2, <3>3 DEF TInv, TypeInv
    <3>7. \A k \in Clients : k # m => (Parted(k)' <=> Parted(k))
      BY <3>6 DEF Parted
    <3>8. \A k \in Clients : messages'[k] + rtcp'[k] <= numMedia'[k]
      BY <3>6, PlayerAssumption DEF PartedInv
    <3>9. \A k \in Clients : client'[k] = "unborn" => numMedia'[k] = 0
      BY <2>1, <3>2, <3>6 DEF PartedInv
    <3>10. \A k \in Clients : pc'[k] \in Handling => Parted(k)'
      BY <2>2, <3>4, <3>7 DEF PartedInv
    <3>11. overlap' => \E k \in Clients : Parted(k)'
      BY <2>1, <3>4, <3>7 DEF PartedInv
    <3> QED BY <3>5, <3>8, <3>9, <3>10, <3>11 DEF PartedInv
  <2> QED BY <2>3, <2>4
<1>4. CASE DeleteOldClient
  BY <1>4, Names, PartedStays DEF DeleteOldClient, DeleteClient, CountsStay, TInv, TypeInv
<1>5. CASE ConnectPlay \/ Release \/ Enter \/ InitDecoder
  <2>1. /\ UNCHANGED << messages, rtcp, numMedia, client, overlap >>
        /\ pc[UI] # "connect"
        /\ \E label \in {"play", "idle", "release", "set", "reset", "init", "initfile"} :
             pc' = [ pc EXCEPT ![UI] = label ]
    <3>1. pc[UI] = "play" => pc = [ pc EXCEPT ![UI] = "play" ]
      BY Names DEF TInv, TypeInv
    <3> QED BY <1>5, <3>1 DEF ConnectPlay, Release, Enter, InitDecoder
  <2>2. pc'[UI] # "connect" /\ \A k \in Clients : pc'[k] = pc[k]
    BY <2>1, Names DEF TInv, TypeInv
  <2> QED BY <2>1, <2>2, PartedStays DEF CountsStay
<1>6. ASSUME NEW t \in Threads,
             StopBegin(t) \/ StopUninit(t) \/ StopDisconnect(t) \/ StopDelete(t) \/ StopFinish(t)
      PROVE  PartedInv'
  <2>1. /\ UNCHANGED << messages, rtcp, numMedia, overlap >>
        /\ pc[t] \in Handling
        /\ m_rtsptheClient' \in {m_rtsptheClient, NULL}
        /\ \E label \in Handling \cup {"gone", "quit", "idle"} : pc' = [ pc EXCEPT ![t] = label ]
    BY <1>6 DEF StopBegin, StopUninit, StopDisconnect, StopDelete, StopFinish, Finished, Handling
  <2>2. \A k \in Clients : client'[k] = "unborn" => client[k] = "unborn"
    BY <1>6 DEF StopBegin, StopUninit, StopDisconnect, StopDelete, StopFinish, DeleteClient, TInv, TypeInv
  <2>3. \A k \in Clients : pc'[k] \in Handling => pc[k] \in Handling
    BY <2>1, Names DEF TInv, TypeInv
  <2>4. pc'[UI] = "connect" => pc[UI] = "connect"
    BY <2>1, Names DEF TInv, TypeInv, Handling
  <2> QED BY <2>1, <2>2, <2>3, <2>4, PartedStays DEF CountsStay
<1>7. ASSUME NEW k \in Clients, StatusStart(k)
      PROVE  PartedInv'
  BY <1>7, Names, PartedStays DEF StatusStart, CountsStay, TInv, TypeInv, Handling
<1>8. ASSUME NEW k \in Clients, StatusGet(k)
      PROVE  PartedInv'
  <2>1. /\ UNCHANGED << rtcp, numMedia, client, m_rtsptheClient >>
        /\ messages' = [ messages EXCEPT ![k] = @ - 1 ]
        /\ pc' = [ pc EXCEPT ![k] = "begin" ] \/ pc' = [ pc EXCEPT ![k] = "gone" ]
    BY <1>8 DEF StatusGet
  <2>2. /\ messages'[k] = messages[k] - 1
        /\ \A j \in Clients : j # k => messages'[j] = messages[j] /\ pc'[j] = pc[j]
        /\ pc'[UI] = pc[UI]
    BY <2>1, Names DEF TInv, TypeInv
  <2>3. \A j \in Clients : messages[j] \in Nat /\ rtcp[j] \in Nat /\ numMedia[j] \in Nat
    BY PlayerAssumption DEF TInv, TypeInv
  <2>4. Parted(k)' /\ \A j \in Clients : j # k => (Parted(j)' <=> Parted(j))
    BY <2>1, <2>2, <2>3 DEF PartedInv, Parted
  <2>5. \A j \in Clients : messages'[j] + rtcp'[j] <= numMedia'[j]
    BY <2>1, <2>2, <2>3 DEF PartedInv
  <2>6. pc'[UI] = "connect" /\ m_rtsptheClient' # NULL => numMedia'[m_rtsptheClient'] = 0
    BY <2>1, <2>2 DEF PartedInv
  <2> QED BY <2>1, <2>2, <2>4, <2>5, <2>6 DEF PartedInv
<1>9. ASSUME NEW k \in Clients, NEW goodbye \in BOOLEAN, RtcpDatagram(k, goodbye)
      PROVE  PartedInv'
  <2>1. UNCHANGED << client, m_rtsptheClient, numMedia, pc, overlap >>
    BY <1>9 DEF RtcpDatagram
  <2>2. CASE ~goodbye
    BY <1>9, <2>1, <2>2, PartedStays DEF RtcpDatagram, CountsStay
  <2>3. CASE goodbye
    <3>1. /\ rtcp' = [ rtcp EXCEPT ![k] = @ - 1 ]
          /\ messages' = messages \/ messages' = [ messages EXCEPT ![k] = @ + 1 ]
      BY <1>9, <2>3 DEF RtcpDatagram
    <3>2. /\ rtcp'[k] = rtcp[k] - 1 /\ messages'[k] \in {messages[k], messages[k] + 1}
          /\ \A j \in Clients : j # k => rtcp'[j] = rtcp[j] /\ messages'[j] = messages[j]
      BY <3>1 DEF TInv, TypeInv
    <3>3. \A j \in Clients : messages[j] \in Nat /\ rtcp[j] \in Nat /\ numMedia[j] \in Nat
      BY PlayerAssumption DEF TInv, TypeInv
    <3>4. \A j \in Clients : messages'[j] + rtcp'[j] <= messages[j] + rtcp[j]
      BY <3>2, <3>3
    <3>5. /\ \A j \in Clients : messages'[j] \in Int /\ rtcp'[j] \in Int
      BY <3>2, <3>3
    <3>6. \A j \in Clients : Parted(j) => Parted(j)'
      BY <2>1, <3>3, <3>4, <3>5 DEF Parted
    <3>7. \A j \in Clients : messages'[j] + rtcp'[j] <= numMedia'[j]
      BY <2>1, <3>3, <3>4, <3>5 DEF PartedInv
    <3> QED BY <2>1, <3>6, <3>7 DEF PartedInv
  <2> QED BY <2>2, <2>3
<1> QED BY <1>1, <1>2, <1>3, <1>4, <1>5, <1>6, <1>7, <1>8, <1>9, Steps

LEMMA PartedInit == Init => PartedInv
<1> SUFFICES ASSUME Init PROVE PartedInv
  OBVIOUS
<1>1. pc[UI] = "idle" /\ \A k \in Clients : pc[k] = "unborn"
  BY Names DEF Init
<1> QED BY <1>1 DEF Init, PartedInv, Handling

LEMMA PartedAlways == Spec => []PartedInv
<1>1. TInv /\ PartedInv /\ [Next]_vars => PartedInv'
  <2>1. UNCHANGED vars /\ PartedInv => PartedInv'
    BY DEF vars, dialogVars, sessionVars, PartedInv, Parted
  <2> QED BY <2>1, PartedStep DEF Next
<1> QED BY <1>1, PartedInit, PInit, PStep, PTL DEF Spec

\* Only a goodbye from the server brings two handlers to run at once.
THEOREM GoodbyesOverlap == Spec => [](overlap => \E k \in Clients : Parted(k))
<1>1. PartedInv => (overlap => \E k \in Clients : Parted(k))
  BY DEF PartedInv
<1> QED BY <1>1, PartedAlways, PTL

\* So until a status thread has taken a goodbye (or one was posted to a thread
\* that could not take it), whatever the user clicks: no handler uses a dead
\* object, the dialog owns the only decoder, what the server was asked to play
\* will be torn down or was not known to be played when play was pressed again,
\* and what plays can be stopped.
THEOREM SafeUntilGoodbye ==
  Spec => []((\A k \in Clients : messages[k] + rtcp[k] = numMedia[k]) =>
               /\ fault # "handler"
               /\ \A d \in Decoders : decoder[d] = "alive" => d = m_pInstance
               /\ \A k \in Clients : Asked(k) => WillBeAsked(k) \/ (Unknown(k) /\ PlayedAgain(k))
               /\ pc[UI] = "idle" => (m_bPlaying \/ m_pInstance # NULL => stopEnabled))
<1>1. ASSUME TInv, PInv, PartedInv, \A k \in Clients : messages[k] + rtcp[k] = numMedia[k]
      PROVE  /\ fault # "handler"
             /\ \A d \in Decoders : decoder[d] = "alive" => d = m_pInstance
             /\ \A k \in Clients : Asked(k) => WillBeAsked(k) \/ (Unknown(k) /\ PlayedAgain(k))
             /\ pc[UI] = "idle" => (m_bPlaying \/ m_pInstance # NULL => stopEnabled)
  <2>1. \A k \in Clients : numMedia[k] \in Nat
    BY <1>1, PlayerAssumption DEF TInv, TypeInv
  <2>2. \A k \in Clients : ~Parted(k)
    BY <1>1, <2>1 DEF Parted
  <2>3. ~overlap
    BY <1>1, <2>2 DEF PartedInv
  <2>4. Held
    BY <1>1, <2>3 DEF PInv
  <2>5. \A k \in Clients : Asked(k) => WillBeAsked(k) \/ (Unknown(k) /\ PlayedAgain(k))
    BY <1>1, <2>4, AskedOrForgotten
  <2>6. /\ \A d \in Decoders : decoder[d] = "alive" => d = m_pInstance
        /\ m_bPlaying \/ m_pInstance # NULL => stopEnabled
    BY <2>4 DEF Held, DecoderHeld, Buttons
  <2> QED BY <1>1, <2>3, <2>5, <2>6 DEF PInv
<1> QED BY <1>1, PartedAlways, PInit, PStep, PTL DEF Spec
===============================================================================
