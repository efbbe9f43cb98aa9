----------------------------- MODULE PlayerSession -----------------------------
(***************************************************************************)
(* The session of the player: the dialog (BBCV-PlayerDlg.cpp) with its      *)
(* handlers for play, stop, open file, quit and the timer, which run on the *)
(* thread of the window; the RTSP client (RTSPclient.cpp), whose Connect   *)
(* starts a thread per medium that listens for an RTCP goodbye; and the    *)
(* thread PlayerStatusCheck of every RTSP play, which runs the handler of   *)
(* the stop button when a goodbye is posted to it.                         *)
(*                                                                         *)
(* Objects are numbers in the order of their creation, 0 is NULL.  A status *)
(* thread has the number of the client it was started for, the window's    *)
(* thread is UI.  A destructor is one step: an object is dead from its      *)
(* beginning.                                                              *)
(***************************************************************************)
EXTENDS Integers

CONSTANTS
  MaxClients,    (* bound: RTSP plays                                      *)
  MaxDecoders,   (* bound: decoders created                                *)
  MaxMedia       (* bound: media a session announces                       *)

ASSUME PlayerAssumption ==
  MaxClients \in Nat /\ MaxDecoders \in Nat /\ MaxMedia \in Nat

VARIABLES
  m_bPlaying, m_ifileType, m_pInstance, m_rtsptheClient,   (* the dialog   *)
  playEnabled, stopEnabled, ticking,     (* its buttons; SetTimer was called *)
  quitting,                              (* the handler of the quit button runs *)
  decoder, client,                       (* the objects                    *)
  numMedia, rtcp,                        (* client: media, RTCP threads running *)
  session,                               (* what the client has asked of the server; "none" also *)
                                         (* after TEARDOWN                *)
  pc, messages,                          (* threads; goodbyes posted to them *)
  overlap,                               (* history: two handlers at once  *)
  fault                                  (* what has used a dead object    *)

dialogVars == << m_bPlaying, m_ifileType, m_pInstance, m_rtsptheClient, playEnabled, stopEnabled, ticking, quitting >>
sessionVars == << client, numMedia, rtcp, session, messages >>
vars == << dialogVars, decoder, sessionVars, pc, overlap, fault >>

NULL == 0
UI == 0
Clients == 1 .. MaxClients
Decoders == 1 .. MaxDecoders
Threads == {UI} \cup Clients

Handling == {"begin", "uninit", "disconnect", "delete", "finish"}

Init ==
  /\ m_bPlaying = FALSE /\ m_ifileType = "udp" /\ m_pInstance = NULL /\ m_rtsptheClient = NULL
  /\ playEnabled = TRUE /\ stopEnabled = FALSE /\ ticking = FALSE /\ quitting = FALSE
  /\ decoder = [ d \in Decoders |-> "unborn" ]
  /\ client = [ k \in Clients |-> "unborn" ]
  /\ numMedia = [ k \in Clients |-> 0 ] /\ rtcp = [ k \in Clients |-> 0 ]
  /\ session = [ k \in Clients |-> "none" ]
  /\ pc = [ t \in Threads |-> IF t = UI THEN "idle" ELSE "unborn" ]
  /\ messages = [ k \in Clients |-> 0 ]
  /\ overlap = FALSE /\ fault = "none"

Goto(t, label) == pc' = [ pc EXCEPT ![t] = label ]

\* A thread other than t is in the handler of the stop button, or, for a status
\* thread t, the window's thread is in any handler.
OthersHandle(t) ==
  \E u \in Threads \ {t} : pc[u] \in Handling \/ (u = UI /\ pc[u] \notin {"idle", "quit"})

\* The oldest object of its kind that has not been created.
NextOf(heap, o) == heap[o] = "unborn" /\ \A p \in DOMAIN heap : heap[p] = "unborn" => o <= p

\* delete of an object, of NULL or of a dead object.
DeleteDecoder(d) ==
  IF d = NULL THEN UNCHANGED << decoder, fault >>
  ELSE IF decoder[d] = "alive" THEN decoder' = [ decoder EXCEPT ![d] = "dead" ] /\ UNCHANGED fault
  ELSE fault' = "handler" /\ UNCHANGED decoder

DeleteClient(k) ==
  IF k = NULL THEN UNCHANGED << client, fault >>
  ELSE IF client[k] = "alive" THEN client' = [ client EXCEPT ![k] = "dead" ] /\ UNCHANGED fault
  ELSE fault' = "handler" /\ UNCHANGED client

-------------------------------------------------------------------------------
(***************************************************************************)
(* Play.                                                                   *)
(***************************************************************************)

\* The window's thread takes the next message.
Starts == pc[UI] = "idle" /\ overlap' = (overlap \/ OthersHandle(UI))

\* The handler refuses while m_bPlaying, and an address it cannot read.
OnBnClickedOk ==
  /\ Starts /\ playEnabled /\ ~m_bPlaying
  /\ \E d \in Decoders : decoder[d] = "unborn"
  /\ \/ m_ifileType' = "udp" /\ pc' \in { pc, [ pc EXCEPT ![UI] = "release" ] }
     \/ /\ \E k \in Clients : client[k] = "unborn"
        /\ m_ifileType' = "rtsp" /\ Goto(UI, "renew")
  /\ UNCHANGED << m_bPlaying, m_pInstance, m_rtsptheClient, playEnabled, stopEnabled, ticking, quitting,
                  decoder, sessionVars, fault >>

DeleteOldClient ==
  /\ pc[UI] = "renew"
  /\ DeleteClient(m_rtsptheClient)
  /\ m_rtsptheClient' = NULL
  /\ Goto(UI, "new")
  /\ UNCHANGED << m_bPlaying, m_ifileType, m_pInstance, playEnabled, stopEnabled, ticking, quitting,
                  decoder, numMedia, rtcp, session, messages, overlap >>

\* The new client is told the id of the status thread that is started for it.
NewClient ==
  /\ pc[UI] = "new"
  /\ \E k \in Clients :
       /\ NextOf(client, k)
       /\ client' = [ client EXCEPT ![k] = "alive" ]
       /\ m_rtsptheClient' = k
       /\ pc' = [ pc EXCEPT ![UI] = "connect", ![k] = "starting" ]
  /\ UNCHANGED << m_bPlaying, m_ifileType, m_pInstance, playEnabled, stopEnabled, ticking, quitting,
                  decoder, numMedia, rtcp, session, messages, overlap, fault >>

\* CRTSPclient::Connect runs on the window's thread with the pointer it has.
Alive(k) == k # NULL /\ client[k] = "alive"

\* Connect up to the start of the RTCP threads: one per medium the server has
\* described and set up, or an error at any of these requests, which may leave a
\* session that is set up.
Connect ==
  /\ pc[UI] = "connect"
  /\ IF ~Alive(m_rtsptheClient)
     THEN fault' = "handler" /\ UNCHANGED << numMedia, rtcp, session, pc >>
     ELSE /\ UNCHANGED fault
          /\ \/ /\ session' \in { session, [ session EXCEPT ![m_rtsptheClient] = "setup" ] }
                /\ Goto(UI, "idle") /\ UNCHANGED << numMedia, rtcp >>
             \/ \E n \in 0 .. MaxMedia :
                  /\ numMedia' = [ numMedia EXCEPT ![m_rtsptheClient] = n ]
                  /\ rtcp' = [ rtcp EXCEPT ![m_rtsptheClient] = n ]
                  /\ session' = [ session EXCEPT ![m_rtsptheClient] = "setup" ]
                  /\ Goto(UI, "play")
  /\ UNCHANGED << dialogVars, decoder, client, messages, overlap >>

\* PLAY and its reply.  The request may not be sent, or the server, which may
\* have begun to play, not answer so that the client can read it.  Without media
\* the port need not be set: the test of its range may refuse it.
ConnectPlay ==
  /\ pc[UI] = "play"
  /\ IF ~Alive(m_rtsptheClient)
     THEN fault' = "handler" /\ UNCHANGED << session, pc >>
     ELSE /\ UNCHANGED fault
          /\ \/ /\ session' \in { session, [ session EXCEPT ![m_rtsptheClient] = "unanswered" ] }
                /\ Goto(UI, "idle")
             \/ /\ session' = [ session EXCEPT ![m_rtsptheClient] = "playing" ]
                /\ \/ Goto(UI, "release")
                   \/ numMedia[m_rtsptheClient] = 0 /\ Goto(UI, "idle")
  /\ UNCHANGED << dialogVars, decoder, client, numMedia, rtcp, messages, overlap >>

\* The old decoder goes: in play, and in open file ("reopen").
Release ==
  /\ pc[UI] \in {"release", "reopen"}
  /\ DeleteDecoder(m_pInstance)
  /\ Goto(UI, IF pc[UI] = "release" THEN "set" ELSE "reset")
  /\ UNCHANGED << dialogVars, sessionVars, overlap >>

Enter_NoButtons ==
  /\ pc[UI] \in {"set", "reset"}
  /\ m_pInstance' = NULL
  /\ m_bPlaying' = (m_bPlaying \/ pc[UI] = "set")
  /\ playEnabled' = FALSE /\ stopEnabled' = (stopEnabled \/ pc[UI] = "set")
  /\ Goto(UI, IF pc[UI] = "set" THEN "init" ELSE "initfile")
  /\ UNCHANGED << m_ifileType, m_rtsptheClient, ticking, quitting, decoder, sessionVars, overlap, fault >>

\* Only play sets m_bPlaying; both set the buttons.
Enter ==
  /\ pc[UI] \in {"set", "reset"}
  /\ m_pInstance' = NULL
  /\ m_bPlaying' = (m_bPlaying \/ pc[UI] = "set")
  /\ playEnabled' = FALSE /\ stopEnabled' = TRUE
  /\ Goto(UI, IF pc[UI] = "set" THEN "init" ELSE "initfile")
  /\ UNCHANGED << m_ifileType, m_rtsptheClient, ticking, quitting, decoder, sessionVars, overlap, fault >>

\* The init_TS_Decoder of the instance never returns -1, so that the other one
\* always gives a decoder; play then sets the timers.
InitDecoder ==
  /\ pc[UI] \in {"init", "initfile"}
  /\ \E d \in Decoders :
       /\ NextOf(decoder, d)
       /\ decoder' = [ decoder EXCEPT ![d] = "alive" ]
       /\ m_pInstance' = d
  /\ ticking' = (ticking \/ pc[UI] = "init")
  /\ Goto(UI, "idle")
  /\ UNCHANGED << m_bPlaying, m_ifileType, m_rtsptheClient, playEnabled, stopEnabled, quitting,
                  sessionVars, overlap, fault >>

OpenFile_KeepDecoder ==
  /\ Starts
  /\ \E d \in Decoders : decoder[d] = "unborn"
  /\ Goto(UI, "reset")
  /\ UNCHANGED << dialogVars, decoder, sessionVars, fault >>

\* OnBnClickedButton3.
OpenFile ==
  /\ Starts
  /\ \E d \in Decoders : decoder[d] = "unborn"
  /\ Goto(UI, "reopen")
  /\ UNCHANGED << dialogVars, decoder, sessionVars, fault >>

\* The timers are never both killed; the handler asks the decoder for its volume
\* and rate.
OnTimer ==
  /\ Starts /\ ticking
  /\ fault' = IF m_pInstance # NULL /\ decoder[m_pInstance] # "alive" THEN "handler" ELSE fault
  /\ UNCHANGED << dialogVars, decoder, sessionVars, pc >>

-------------------------------------------------------------------------------
(***************************************************************************)
(* Stop: OnBnClickedButton1, run by the window's thread for the button and  *)
(* by a status thread for a goodbye.  OnBnClickedCancel does the same and   *)
(* then ends the dialog.                                                   *)
(***************************************************************************)

OnBnClickedButton1 ==
  /\ Starts /\ stopEnabled
  /\ Goto(UI, "begin")
  /\ UNCHANGED << dialogVars, decoder, sessionVars, fault >>

StopBegin(t) ==
  /\ pc[t] = "begin"
  /\ m_bPlaying' = FALSE
  /\ Goto(t, "uninit")
  /\ UNCHANGED << m_ifileType, m_pInstance, m_rtsptheClient, playEnabled, stopEnabled, ticking, quitting,
                  decoder, sessionVars, overlap, fault >>

StopUninit(t) ==
  /\ pc[t] = "uninit"
  /\ DeleteDecoder(m_pInstance)
  /\ Goto(t, "disconnect")
  /\ UNCHANGED << dialogVars, sessionVars, overlap >>

StopDisconnect_Never(t) ==
  /\ pc[t] = "disconnect"
  /\ Goto(t, "delete")
  /\ UNCHANGED << dialogVars, decoder, sessionVars, overlap, fault >>

\* Disconnect sends TEARDOWN and leaves m_bstop false: the RTCP threads stay.
StopDisconnect(t) ==
  /\ pc[t] = "disconnect"
  /\ IF m_rtsptheClient = NULL \/ m_ifileType # "rtsp" THEN UNCHANGED << session, fault >>
     ELSE IF Alive(m_rtsptheClient)
     THEN session' = [ session EXCEPT ![m_rtsptheClient] = "none" ] /\ UNCHANGED fault
     ELSE fault' = "handler" /\ UNCHANGED session
  /\ Goto(t, "delete")
  /\ UNCHANGED << dialogVars, decoder, client, numMedia, rtcp, messages, overlap >>

StopDelete(t) ==
  /\ pc[t] = "delete"
  /\ DeleteClient(m_rtsptheClient)
  /\ Goto(t, "finish")
  /\ UNCHANGED << dialogVars, decoder, numMedia, rtcp, session, messages, overlap >>

Finished(t) == Goto(t, IF t # UI THEN "gone" ELSE IF quitting THEN "quit" ELSE "idle")

StopFinish_KeepInstance(t) ==
  /\ pc[t] = "finish"
  /\ m_rtsptheClient' = NULL
  /\ playEnabled' = TRUE /\ stopEnabled' = FALSE
  /\ Finished(t)
  /\ UNCHANGED << m_bPlaying, m_ifileType, m_pInstance, ticking, quitting, decoder, sessionVars, overlap, fault >>

\* The buttons of a dialog that ends do not matter.
StopFinish(t) ==
  /\ pc[t] = "finish"
  /\ m_rtsptheClient' = NULL /\ m_pInstance' = NULL
  /\ playEnabled' = TRUE /\ stopEnabled' = FALSE
  /\ Finished(t)
  /\ UNCHANGED << m_bPlaying, m_ifileType, ticking, quitting, decoder, sessionVars, overlap, fault >>

OnBnClickedCancel ==
  /\ Starts
  /\ quitting' = TRUE
  /\ Goto(UI, "begin")
  /\ UNCHANGED << m_bPlaying, m_ifileType, m_pInstance, m_rtsptheClient, playEnabled, stopEnabled, ticking,
                  decoder, sessionVars, fault >>

Stop(t) == StopBegin(t) \/ StopUninit(t) \/ StopDisconnect(t) \/ StopDelete(t) \/ StopFinish(t)

-------------------------------------------------------------------------------
(***************************************************************************)
(* Goodbyes.                                                               *)
(***************************************************************************)

\* A datagram for an RTCP thread of client k, whose fields the thread reads then.
\* A goodbye is posted to the status thread, if that has its queue, and ends the
\* RTCP thread.
RtcpDatagram(k, goodbye) ==
  /\ rtcp[k] > 0
  /\ fault' = IF client[k] = "alive" THEN fault ELSE "datagram"
  /\ IF goodbye
     THEN /\ messages' = IF pc[k] = "waiting" THEN [ messages EXCEPT ![k] = @ + 1 ] ELSE messages
          /\ rtcp' = [ rtcp EXCEPT ![k] = @ - 1 ]
     ELSE UNCHANGED << messages, rtcp >>
  /\ UNCHANGED << dialogVars, decoder, client, numMedia, session, pc, overlap >>

StatusStart(k) ==
  /\ pc[k] = "starting"
  /\ Goto(k, "waiting")
  /\ UNCHANGED << dialogVars, decoder, sessionVars, overlap, fault >>

StatusGet_Leave(k) ==
  /\ pc[k] = "waiting" /\ messages[k] > 0
  /\ messages' = [ messages EXCEPT ![k] = @ - 1 ]
  /\ Goto(k, "gone")
  /\ UNCHANGED << dialogVars, decoder, client, numMedia, rtcp, session, overlap, fault >>

\* PlayerStatusCheck gets a message: it leaves when nothing plays, and stops what
\* plays otherwise.
StatusGet(k) ==
  /\ pc[k] = "waiting" /\ messages[k] > 0
  /\ messages' = [ messages EXCEPT ![k] = @ - 1 ]
  /\ IF m_bPlaying
     THEN Goto(k, "begin") /\ overlap' = (overlap \/ OthersHandle(k))
     ELSE Goto(k, "gone") /\ UNCHANGED overlap
  /\ UNCHANGED << dialogVars, decoder, client, numMedia, rtcp, session, fault >>

PlayerStatusCheck(k) == StatusStart(k) \/ StatusGet(k) \/ Stop(k)

-------------------------------------------------------------------------------
Clicks == OnBnClickedOk \/ OpenFile \/ OnBnClickedButton1 \/ OnBnClickedCancel \/ OnTimer

Handlers ==
  \/ DeleteOldClient \/ NewClient \/ Connect \/ ConnectPlay
  \/ Release \/ Enter \/ InitDecoder
  \/ Stop(UI)

\* Nothing is claimed once a dead object was used; quitting ends the process.
Runs == fault = "none" /\ pc[UI] # "quit"

Next ==
  \/ /\ Runs
     /\ \/ Clicks \/ Handlers
        \/ \E k \in Clients :
             PlayerStatusCheck(k) \/ \E goodbye \in BOOLEAN : RtcpDatagram(k, goodbye)
  \/ ~Runs /\ UNCHANGED vars

Spec == Init /\ [][Next]_vars

\* Threads run.  Nobody clicks or sends a datagram by necessity.
FairSpec ==
  /\ Spec
  /\ WF_vars(Runs /\ Handlers)
  /\ \A k \in Clients : WF_vars(Runs /\ PlayerStatusCheck(k))

-------------------------------------------------------------------------------
(***************************************************************************)
(* Properties.                                                             *)
(***************************************************************************)

WindowLabels ==
  Handling \cup {"idle", "renew", "new", "connect", "play", "release", "reopen",
                 "set", "reset", "init", "initfile", "quit"}
StatusLabels == Handling \cup {"unborn", "starting", "waiting", "gone"}

TypeInv ==
  /\ m_bPlaying \in BOOLEAN /\ m_ifileType \in {"udp", "rtsp"}
  /\ m_pInstance \in Decoders \cup {NULL} /\ m_rtsptheClient \in Clients \cup {NULL}
  /\ playEnabled \in BOOLEAN /\ stopEnabled \in BOOLEAN /\ ticking \in BOOLEAN /\ quitting \in BOOLEAN
  /\ decoder \in [ Decoders -> {"unborn", "alive", "dead"} ]
  /\ client \in [ Clients -> {"unborn", "alive", "dead"} ]
  /\ numMedia \in [ Clients -> 0 .. MaxMedia ] /\ rtcp \in [ Clients -> 0 .. MaxMedia ]
  /\ session \in [ Clients -> {"none", "setup", "unanswered", "playing"} ]
  /\ pc \in [ Threads -> WindowLabels \cup StatusLabels ]
  /\ messages \in [ Clients -> 0 .. MaxMedia ]
  /\ overlap \in BOOLEAN /\ fault \in {"none", "datagram", "handler"}

\* Whatever the user plays, opens and stops, and however far a connection gets
\* before it fails: no handler uses or deletes a dead decoder or client, unless
\* a goodbye brought two handlers to run at once.
HandlersSafe == fault = "handler" => overlap

\* Unless two handlers ran at once, the dialog owns the only decoder there is:
\* none is left behind with its threads, its port and the window.
OneDecoder ==
  ~overlap => \A d \in Decoders : decoder[d] = "alive" => d = m_pInstance

\* The server was asked to play for client k, and not to stop.
Asked(k) == session[k] \in {"unanswered", "playing"}

\* Stop and quit would ask it.
WillBeAsked(k) == k = m_rtsptheClient /\ m_ifileType = "rtsp"

\* The dialog does not know that client k is played: its PLAY was not answered, or
\* it has no media and its port was refused.
Unknown(k) == session[k] = "unanswered" \/ numMedia[k] = 0

\* Since client k was made, the play button has been pressed once more.
PlayedAgain(k) ==
  m_ifileType = "udp" \/ pc[UI] \in {"renew", "new"} \/ \E j \in Clients : j > k /\ client[j] # "unborn"

\* Unless two handlers ran at once, a session the server was asked to play is
\* that of the client the dialog has and will tear down.  One is forgotten, and
\* may be played on, only if the dialog does not know that it is played and the
\* user then presses play again; stop and quit forget none.
PlayingIsTornDown ==
  ~overlap =>
    \A k \in Clients :
      Asked(k) => WillBeAsked(k) \/ (Unknown(k) /\ PlayedAgain(k))

\* While the window waits for the user, what plays can be stopped.
CanBeStopped ==
  ~overlap /\ pc[UI] = "idle" /\ (\A k \in Clients : pc[k] \notin Handling) =>
    (m_bPlaying \/ m_pInstance # NULL => stopEnabled) /\ (m_bPlaying => ~playEnabled)

\* A goodbye that reaches the status thread ends what plays.
GoodbyeStops ==
  \A k \in Clients :
    (pc[k] = "waiting" /\ messages[k] > 0) ~> (~m_bPlaying \/ fault # "none" \/ pc[UI] = "quit")
===============================================================================
