------------------------------ MODULE VideoHandoff ------------------------------
(***************************************************************************)
(* The way of a picture from the decoder thread (decoder_threadFun,        *)
(* Decoder.cpp) to the display thread (DisplayThread, D3D9VideoPlayer.cpp). *)
(* The decoder copies it into one of two buffers, under the buffer's lock,  *)
(* points m_pOutBuffer at it and posts a message that carries the lock; the *)
(* display thread enters the lock of the message, shows whatever            *)
(* m_pOutBuffer points at, and throws away the messages that have come in   *)
(* the meantime.  A second lock guards the surface, which the decoder       *)
(* creates anew when the size of the pictures changes: one that takes the   *)
(* picture as it is or, where the hardware has none, one in RGB, for which  *)
(* the display thread converts the picture before it takes that lock.       *)
(*                                                                         *)
(* Pictures are numbered; all from MaxFrame on have the same number.  The   *)
(* model begins when init_TS_Decoder has made the buffers and the locks.    *)
(***************************************************************************)
EXTENDS Integers, Sequences

CONSTANTS
  MaxFrame,      (* bound: numbers of pictures                             *)
  Sizes,         (* sizes of pictures                                      *)
  Formats,       (* what the graphics hardware has surfaces for            *)
  QueueMax,      (* messages a thread's queue holds (10000)                *)
  Lags           (* how many pictures late the display may be              *)

None == -1    \* no buffer, no size, no surface

\* m_nRGBorYUV: the surface takes the picture as it is, or converted.
YUV == 1
RGB == 2

ASSUME VideoHandoffAssumption ==
  /\ MaxFrame \in Nat \ {0}
  /\ Sizes \subseteq Nat
  /\ Formats \subseteq {YUV, RGB}
  /\ QueueMax \in Nat /\ QueueMax >= 2
  /\ Lags \subseteq Nat \ {0}

VARIABLES
  lag,                              (* how late the display may be         *)
  dpc, frame, size, m_iCurrentOutBuf,  (* decoder thread                   *)
  m_yuvBuff, m_csVideoYUV,          (* the two buffers and their locks     *)
  m_pOutBuffer, queue,              (* shared; a message is the lock       *)
  m_xLen, m_pd3dSurface, m_nRGBorYUV, m_csDDraw,  (* size, surface and its lock *)
  vpc, csLock, pobuf, top, m_pRgbbuf,  (* display thread                   *)
  shown,                            (* history: << top, bottom >> on screen *)
  failed                            (* history: Direct3D has refused       *)

decoderVars == << dpc, frame, size, m_iCurrentOutBuf >>
surfaceVars == << m_xLen, m_pd3dSurface, m_nRGBorYUV, failed >>
displayVars == << vpc, csLock, pobuf, top, m_pRgbbuf, shown >>
vars == << lag, decoderVars, m_yuvBuff, m_csVideoYUV, m_pOutBuffer, queue,
           surfaceVars, m_csDDraw, displayVars >>

Bufs == {0, 1}
Half == 0       \* contents of a buffer that is being written

Init ==
  /\ lag \in Lags
  /\ dpc = "decode" /\ frame = 0 /\ size \in Sizes /\ m_iCurrentOutBuf = 0
  /\ m_yuvBuff = [ b \in Bufs |-> Half ]
  /\ m_csVideoYUV = [ b \in Bufs |-> "free" ]
  /\ m_pOutBuffer = None /\ queue = << >>
  /\ m_xLen = None /\ m_pd3dSurface = None /\ m_nRGBorYUV = YUV /\ m_csDDraw = "free"
  /\ vpc = "none" /\ csLock = 0 /\ pobuf = None /\ top = Half /\ m_pRgbbuf = << Half, Half >>
  /\ shown = << Half, Half >>
  /\ failed = FALSE

-------------------------------------------------------------------------------
(***************************************************************************)
(* Decoder thread.                                                         *)
(***************************************************************************)

\* ff_avcodec_decode_video gives a picture.
Decode ==
  /\ dpc = "decode"
  /\ frame' = IF frame < MaxFrame THEN frame + 1 ELSE frame
  /\ size' \in Sizes
  /\ dpc' = "param"
  /\ UNCHANGED << lag, m_iCurrentOutBuf, m_yuvBuff, m_csVideoYUV, m_pOutBuffer, queue,
                  surfaceVars, m_csDDraw, displayVars >>

NeedsSurface == size # m_xLen \/ m_pd3dSurface = None

StartPlay_Missing == UNCHANGED vpc

\* StartPlay, if there is no display thread.
StartPlay == vpc' = IF vpc = "none" THEN "starting" ELSE vpc

\* SetVideoParam when the surface is right, and when a new one is made: the
\* old device goes first, the old surface only when there is a new device.
SetVideoParam_KeepSurface ==
  /\ dpc = "param"
  /\ \/ ~NeedsSurface /\ UNCHANGED surfaceVars
     \/ /\ NeedsSurface /\ m_csDDraw = "free"
        /\ m_xLen' = size
        /\ m_pd3dSurface' = IF m_pd3dSurface = None THEN size ELSE m_pd3dSurface
        /\ m_nRGBorYUV' \in Formats
        /\ UNCHANGED failed
  /\ StartPlay
  /\ dpc' = "fill"
  /\ UNCHANGED << lag, frame, size, m_iCurrentOutBuf, m_yuvBuff, m_csVideoYUV, m_pOutBuffer, queue,
                  m_csDDraw, csLock, pobuf, top, m_pRgbbuf, shown >>

SetVideoParam ==
  /\ dpc = "param"
  /\ \/ ~NeedsSurface /\ UNCHANGED surfaceVars
     \/ /\ NeedsSurface /\ m_csDDraw = "free"
        /\ m_xLen' = size /\ m_pd3dSurface' = size /\ m_nRGBorYUV' \in Formats
        /\ UNCHANGED failed
  /\ StartPlay
  /\ dpc' = "fill"
  /\ UNCHANGED << lag, frame, size, m_iCurrentOutBuf, m_yuvBuff, m_csVideoYUV, m_pOutBuffer, queue,
                  m_csDDraw, csLock, pobuf, top, m_pRgbbuf, shown >>

\* SetVideoParam returns early when there is no device (the old surface is
\* kept) or no surface.  The caller goes on all the same.
SetVideoParamFails ==
  /\ dpc = "param"
  /\ NeedsSurface /\ m_csDDraw = "free"
  /\ m_xLen' = size
  /\ m_pd3dSurface' \in {m_pd3dSurface, None}
  /\ failed' = TRUE
  /\ dpc' = "fill"
  /\ UNCHANGED << lag, frame, size, m_iCurrentOutBuf, m_yuvBuff, m_csVideoYUV, m_pOutBuffer, queue,
                  m_nRGBorYUV, m_csDDraw, displayVars >>

\* The pace: with this picture, at most lag pictures whose message the display
\* thread has neither come round to nor thrown away.
InTime == 1 + Len(queue) + (IF vpc = "enter" THEN 1 ELSE 0) <= lag

FillBegin_NoLock ==
  /\ dpc = "fill"
  /\ InTime
  /\ m_csVideoYUV' = [ m_csVideoYUV EXCEPT ![m_iCurrentOutBuf] = "decoder" ]
  /\ m_yuvBuff' = [ m_yuvBuff EXCEPT ![m_iCurrentOutBuf] = Half ]
  /\ dpc' = "filling"
  /\ UNCHANGED << lag, frame, size, m_iCurrentOutBuf, m_pOutBuffer, queue, surfaceVars, m_csDDraw, displayVars >>

FillBegin ==
  /\ dpc = "fill"
  /\ InTime
  /\ m_csVideoYUV[m_iCurrentOutBuf] = "free"
  /\ m_csVideoYUV' = [ m_csVideoYUV EXCEPT ![m_iCurrentOutBuf] = "decoder" ]
  /\ m_yuvBuff' = [ m_yuvBuff EXCEPT ![m_iCurrentOutBuf] = Half ]
  /\ dpc' = "filling"
  /\ UNCHANGED << lag, frame, size, m_iCurrentOutBuf, m_pOutBuffer, queue, surfaceVars, m_csDDraw, displayVars >>

FillEnd ==
  /\ dpc = "filling"
  /\ m_yuvBuff' = [ m_yuvBuff EXCEPT ![m_iCurrentOutBuf] = frame ]
  /\ m_csVideoYUV' = [ m_csVideoYUV EXCEPT ![m_iCurrentOutBuf] = "free" ]
  /\ dpc' = "set"
  /\ UNCHANGED << lag, frame, size, m_iCurrentOutBuf, m_pOutBuffer, queue, surfaceVars, m_csDDraw, displayVars >>

SetOutBuffer_Other ==
  /\ dpc = "set"
  /\ m_iCurrentOutBuf' = 1 - m_iCurrentOutBuf
  /\ m_pOutBuffer' = 1 - m_iCurrentOutBuf
  /\ dpc' = "post"
  /\ UNCHANGED << lag, frame, size, m_yuvBuff, m_csVideoYUV, queue, surfaceVars, m_csDDraw, displayVars >>

\* The other buffer is the next to fill, this one the next to show.
SetOutBuffer ==
  /\ dpc = "set"
  /\ m_iCurrentOutBuf' = 1 - m_iCurrentOutBuf
  /\ m_pOutBuffer' = m_iCurrentOutBuf
  /\ dpc' = "post"
  /\ UNCHANGED << lag, frame, size, m_yuvBuff, m_csVideoYUV, queue, surfaceVars, m_csDDraw, displayVars >>

\* PostThreadMessage fails when the thread has no queue yet or it is full.
HasRoom == vpc \notin {"none", "starting"} /\ Len(queue) < QueueMax

Post ==
  /\ dpc = "post"
  /\ queue' = IF HasRoom THEN Append(queue, m_pOutBuffer) ELSE queue
  /\ dpc' = "decode"
  /\ UNCHANGED << lag, frame, size, m_iCurrentOutBuf, m_yuvBuff, m_csVideoYUV, m_pOutBuffer,
                  surfaceVars, m_csDDraw, displayVars >>

-------------------------------------------------------------------------------
(***************************************************************************)
(* Display thread.                                                         *)
(***************************************************************************)

\* PeekMessage makes the queue.
MakeQueue ==
  /\ vpc = "starting"
  /\ vpc' = "get"
  /\ UNCHANGED << lag, decoderVars, m_yuvBuff, m_csVideoYUV, m_pOutBuffer, queue, surfaceVars, m_csDDraw,
                  csLock, pobuf, top, m_pRgbbuf, shown >>

GetMessage ==
  /\ vpc = "get" /\ queue # << >>
  /\ csLock' = Head(queue)
  /\ queue' = Tail(queue)
  /\ vpc' = "enter"
  /\ UNCHANGED << lag, decoderVars, m_yuvBuff, m_csVideoYUV, m_pOutBuffer, surfaceVars, m_csDDraw,
                  pobuf, top, m_pRgbbuf, shown >>

\* The lock that came with the message.
Enter ==
  /\ vpc = "enter"
  /\ m_csVideoYUV[csLock] = "free"
  /\ m_csVideoYUV' = [ m_csVideoYUV EXCEPT ![csLock] = "display" ]
  /\ vpc' = "read"
  /\ UNCHANGED << lag, decoderVars, m_yuvBuff, m_pOutBuffer, queue, surfaceVars, m_csDDraw,
                  csLock, pobuf, top, m_pRgbbuf, shown >>

ReadOutBuffer ==
  /\ vpc = "read"
  /\ pobuf' = m_pOutBuffer
  /\ vpc' = "choose"
  /\ UNCHANGED << lag, decoderVars, m_yuvBuff, m_csVideoYUV, m_pOutBuffer, queue, surfaceVars, m_csDDraw,
                  csLock, top, m_pRgbbuf, shown >>

\* m_nRGBorYUV is read without the surface's lock.
ChooseFunc ==
  /\ vpc = "choose"
  /\ vpc' = IF m_nRGBorYUV = RGB THEN "convert" ELSE "draw"
  /\ UNCHANGED << lag, decoderVars, m_yuvBuff, m_csVideoYUV, m_pOutBuffer, queue, surfaceVars, m_csDDraw,
                  csLock, pobuf, top, m_pRgbbuf, shown >>

\* DisplayRGBFunc converts the picture, in two halves, before it takes the
\* surface's lock.
ConvertBegin ==
  /\ vpc = "convert"
  /\ top' = m_yuvBuff[pobuf]
  /\ vpc' = "converting"
  /\ UNCHANGED << lag, decoderVars, m_yuvBuff, m_csVideoYUV, m_pOutBuffer, queue, surfaceVars, m_csDDraw,
                  csLock, pobuf, m_pRgbbuf, shown >>

ConvertEnd ==
  /\ vpc = "converting"
  /\ m_pRgbbuf' = << top, m_yuvBuff[pobuf] >>
  /\ vpc' = "drawRGB"
  /\ UNCHANGED << lag, decoderVars, m_yuvBuff, m_csVideoYUV, m_pOutBuffer, queue, surfaceVars, m_csDDraw,
                  csLock, pobuf, top, shown >>

\* Both functions copy under the surface's lock: nothing without a surface or
\* one that cannot be mapped, else DisplayFunc the picture in two halves.
DrawNothing ==
  /\ vpc \in {"draw", "drawRGB"} /\ m_csDDraw = "free"
  /\ failed' = (failed \/ m_pd3dSurface # None)
  /\ vpc' = "leave"
  /\ UNCHANGED << lag, decoderVars, m_yuvBuff, m_csVideoYUV, m_pOutBuffer, queue, m_xLen, m_pd3dSurface,
                  m_nRGBorYUV, m_csDDraw, csLock, pobuf, top, m_pRgbbuf, shown >>

DrawBegin_NoLock ==
  /\ vpc = "draw" /\ m_csDDraw = "free"
  /\ m_pd3dSurface # None
  /\ top' = m_yuvBuff[pobuf]
  /\ vpc' = "drawing"
  /\ UNCHANGED << lag, decoderVars, m_yuvBuff, m_csVideoYUV, m_pOutBuffer, queue, surfaceVars, m_csDDraw,
                  csLock, pobuf, m_pRgbbuf, shown >>

DrawBegin ==
  /\ vpc = "draw" /\ m_csDDraw = "free"
  /\ m_pd3dSurface # None
  /\ m_csDDraw' = "display"
  /\ top' = m_yuvBuff[pobuf]
  /\ vpc' = "drawing"
  /\ UNCHANGED << lag, decoderVars, m_yuvBuff, m_csVideoYUV, m_pOutBuffer, queue, surfaceVars,
                  csLock, pobuf, m_pRgbbuf, shown >>

DrawEnd ==
  /\ vpc = "drawing"
  /\ shown' = << top, m_yuvBuff[pobuf] >>
  /\ m_csDDraw' = "free"
  /\ vpc' = "leave"
  /\ UNCHANGED << lag, decoderVars, m_yuvBuff, m_csVideoYUV, m_pOutBuffer, queue, surfaceVars,
                  csLock, pobuf, top, m_pRgbbuf >>

\* DisplayRGBFunc copies m_pRgbbuf, which nothing else writes.
DrawRGBBegin ==
  /\ vpc = "drawRGB" /\ m_csDDraw = "free"
  /\ m_pd3dSurface # None
  /\ m_csDDraw' = "display"
  /\ vpc' = "drawingRGB"
  /\ UNCHANGED << lag, decoderVars, m_yuvBuff, m_csVideoYUV, m_pOutBuffer, queue, surfaceVars,
                  csLock, pobuf, top, m_pRgbbuf, shown >>

DrawRGBEnd ==
  /\ vpc = "drawingRGB"
  /\ shown' = m_pRgbbuf
  /\ m_csDDraw' = "free"
  /\ vpc' = "leave"
  /\ UNCHANGED << lag, decoderVars, m_yuvBuff, m_csVideoYUV, m_pOutBuffer, queue, surfaceVars,
                  csLock, pobuf, top, m_pRgbbuf >>

\* The block's variables go, and what was converted is not read again.
Leave ==
  /\ vpc = "leave"
  /\ m_csVideoYUV' = [ m_csVideoYUV EXCEPT ![csLock] = "free" ]
  /\ csLock' = 0 /\ pobuf' = None /\ top' = Half /\ m_pRgbbuf' = << Half, Half >>
  /\ vpc' = "drain"
  /\ UNCHANGED << lag, decoderVars, m_yuvBuff, m_pOutBuffer, queue, surfaceVars, m_csDDraw, shown >>

\* while (PeekMessage(...)); the picture of a message that goes here is shown
\* with the next message, if there is one.
Drain ==
  /\ vpc = "drain"
  /\ queue' = << >>
  /\ vpc' = "get"
  /\ UNCHANGED << lag, decoderVars, m_yuvBuff, m_csVideoYUV, m_pOutBuffer, surfaceVars, m_csDDraw,
                  csLock, pobuf, top, m_pRgbbuf, shown >>

-------------------------------------------------------------------------------
Decoder ==
  \/ Decode \/ SetVideoParam \/ SetVideoParamFails
  \/ FillBegin \/ FillEnd \/ SetOutBuffer \/ Post

Display ==
  \/ MakeQueue \/ GetMessage \/ Enter \/ ReadOutBuffer
  \/ ChooseFunc \/ ConvertBegin \/ ConvertEnd
  \/ DrawNothing \/ DrawBegin \/ DrawEnd \/ DrawRGBBegin \/ DrawRGBEnd
  \/ Leave \/ Drain

Next == Decoder \/ Display

Spec == Init /\ [][Next]_vars

\* The stream goes on and both threads run; a thread that waits for a critical
\* section gets it if it is free again and again.
FairSpec == Spec /\ SF_vars(Decoder) /\ SF_vars(Display)

-------------------------------------------------------------------------------
(***************************************************************************)
(* Properties.                                                             *)
(***************************************************************************)

Frames == 0 .. MaxFrame

TypeInv ==
  /\ lag \in Lags
  /\ dpc \in {"decode", "param", "fill", "filling", "set", "post"}
  /\ frame \in Frames /\ size \in Sizes /\ m_iCurrentOutBuf \in Bufs
  /\ m_yuvBuff \in [ Bufs -> Frames ]
  /\ m_csVideoYUV \in [ Bufs -> {"free", "decoder", "display"} ]
  /\ m_pOutBuffer \in Bufs \cup {None}
  /\ queue \in Seq(Bufs) /\ Len(queue) <= QueueMax
  /\ m_xLen \in Sizes \cup {None} /\ m_pd3dSurface \in Sizes \cup {None}
  /\ m_nRGBorYUV \in {YUV, RGB} /\ m_csDDraw \in {"free", "display"}
  /\ vpc \in {"none", "starting", "get", "enter", "read", "choose", "convert", "converting",
              "draw", "drawing", "drawRGB", "drawingRGB", "leave", "drain"}
  /\ csLock \in Bufs /\ pobuf \in Bufs \cup {None}
  /\ top \in Frames /\ m_pRgbbuf \in Frames \X Frames /\ shown \in Frames \X Frames
  /\ failed \in BOOLEAN

\* As long as the display is at most two pictures late, a picture is shown whole,
\* although the lock the display holds may be that of the other buffer.
NoTornPicture ==
  lag <= 2 /\ shown # << Half, Half >> => shown[1] = shown[2] /\ shown[1] # Half

\* However late the display is, whole pictures never go back in time.
Whole(s) == s[1] = s[2] /\ s[1] # Half

NeverBack ==
  [][ Whole(shown) /\ Whole(shown') => shown[1] <= shown'[1] ]_vars

\* A copy to the surface is under way.
Drawing == vpc \in {"drawing", "drawingRGB"}

\* The surface that is drawn on has the size the copy goes by, even when the
\* size of the pictures changes under way, unless Direct3D has refused.
SurfaceFits == Drawing /\ ~failed => m_pd3dSurface = m_xLen

\* The surface that a picture is being copied to is not released, and the size
\* the copy goes by does not change, before the picture is on the screen.
SurfaceStays == [][ Drawing => UNCHANGED << m_xLen, m_pd3dSurface >> ]_vars

\* Decoder and display never wait for each other for good, and the display
\* does not throw all messages away: at most two pictures late, it comes up to
\* each picture.
PicturesAreShown ==
  \A n \in 1 .. MaxFrame : lag <= 2 /\ frame >= n ~> (shown[2] >= n \/ failed)
===============================================================================
