-------------------------- MODULE VideoHandoffProofs ---------------------------
(***************************************************************************)
(* Theorems about VideoHandoff, for any number of pictures, sizes and      *)
(* queue: its types, that the surface stays and fits while it is drawn on, *)
(* that no picture is torn while the display is at most two late, and that *)
(* none goes back in time however late it is.                              *)
(***************************************************************************)
EXTENDS VideoHandoff, TLAPS

-------------------------------------------------------------------------------
(* Types. *)

DecoderType ==
  /\ lag \in Lags
  /\ dpc \in {"decode", "param", "fill", "filling", "set", "post"}
  /\ frame \in Frames /\ size \in Sizes /\ m_iCurrentOutBuf \in Bufs

BufferType ==
  /\ m_yuvBuff \in [ Bufs -> Frames ]
  /\ m_csVideoYUV \in [ Bufs -> {"free", "decoder", "display"} ]

MessageType ==
  /\ m_pOutBuffer \in Bufs \cup {None}
  /\ queue \in Seq(Bufs) /\ Len(queue) <= QueueMax

SurfaceType ==
  /\ m_xLen \in Sizes \cup {None} /\ m_pd3dSurface \in Sizes \cup {None}
  /\ m_nRGBorYUV \in {YUV, RGB} /\ m_csDDraw \in {"free", "display"}
  /\ failed \in BOOLEAN

DisplayType ==
  /\ vpc \in {"none", "starting", "get", "enter", "read", "choose", "convert", "converting",
              "draw", "drawing", "drawRGB", "drawingRGB", "leave", "drain"}
  /\ csLock \in Bufs /\ pobuf \in Bufs \cup {None}
  /\ top \in Frames /\ m_pRgbbuf \in Frames \X Frames /\ shown \in Frames \X Frames

\* Where the display thread has the address of a picture it may still read.
Picturing == {"choose", "convert", "converting", "draw", "drawing"}

\* What is posted and what is drawn is a buffer.
PointersSet ==
  /\ dpc = "post" => m_pOutBuffer \in Bufs
  /\ m_pOutBuffer = None => queue = << >> /\ vpc \in {"none", "starting", "get"}
  /\ vpc \in Picturing => pobuf \in Bufs

TInv ==
  DecoderType /\ BufferType /\ MessageType /\ SurfaceType /\ DisplayType /\ PointersSet

\* Numbers of buffers and pictures.
LEMMA Numbers ==
  /\ 0 \in Bufs /\ 1 \in Bufs /\ None \notin Bufs /\ (\A b \in Bufs : 1 - b \in Bufs /\ 1 - b # b /\ 1 - (1 - b) = b)
  /\ Half \in Frames
  /\ \A n \in Frames : n \in Nat /\ (n < MaxFrame => n + 1 \in Frames) /\ (n >= MaxFrame => n > 0)
BY VideoHandoffAssumption DEF Bufs, None, Half, Frames

LEMMA TInit == Init => TInv
<1> SUFFICES ASSUME Init PROVE TInv
  OBVIOUS
<1>1. DecoderType /\ BufferType /\ MessageType
  <2>1. DecoderType
    <3>1. lag \in Lags /\ size \in Sizes /\ dpc = "decode" /\ frame = Half /\ m_iCurrentOutBuf = 0
      BY DEF Init, Half
    <3> QED BY <3>1, Numbers DEF DecoderType
  <2>2. BufferType
    BY Numbers, VideoHandoffAssumption DEF Init, BufferType
  <2>3. MessageType
    BY Numbers, VideoHandoffAssumption DEF Init, MessageType
  <2> QED BY <2>1, <2>2, <2>3
<1>2. SurfaceType /\ DisplayType /\ PointersSet
  BY Numbers DEF Init, SurfaceType, DisplayType, PointersSet, Picturing, Bufs
<1> QED
  BY <1>1, <1>2 DEF TInv

\* The decoder's steps keep the types.
LEMMA TDecoder ==
  ASSUME TInv, Decoder
  PROVE  TInv'
<1> USE DEF TInv, DecoderType, BufferType, MessageType, SurfaceType, DisplayType, PointersSet, Picturing
<1>1. CASE Decode
  BY <1>1, Numbers DEF Decode, surfaceVars, displayVars
<1>2. CASE SetVideoParam
  BY <1>2, VideoHandoffAssumption DEF SetVideoParam, StartPlay, surfaceVars
<1>3. CASE SetVideoParamFails
  BY <1>3 DEF SetVideoParamFails, displayVars
<1>4. CASE FillBegin
  BY <1>4, Numbers DEF FillBegin, surfaceVars, displayVars
<1>5. CASE FillEnd
  BY <1>5 DEF FillEnd, surfaceVars, displayVars
<1>6. CASE SetOutBuffer
  BY <1>6, Numbers DEF SetOutBuffer, surfaceVars, displayVars
<1>7. CASE Post
  BY <1>7, VideoHandoffAssumption, Numbers DEF Post, HasRoom, surfaceVars, displayVars
<1> QED
  BY <1>1, <1>2, <1>3, <1>4, <1>5, <1>6, <1>7 DEF Decoder

\* The display thread's steps keep the types.
LEMMA TDisplay ==
  ASSUME TInv, Display
  PROVE  TInv'
<1> USE DEF TInv, DecoderType, BufferType, MessageType, SurfaceType, DisplayType, PointersSet, Picturing
<1>1. CASE MakeQueue
  BY <1>1 DEF MakeQueue, decoderVars, surfaceVars
<1>2. CASE GetMessage
  BY <1>2, VideoHandoffAssumption DEF GetMessage, decoderVars, surfaceVars
<1>3. CASE Enter
  BY <1>3 DEF Enter, decoderVars, surfaceVars
<1>4. CASE ReadOutBuffer
  BY <1>4 DEF ReadOutBuffer, decoderVars, surfaceVars
<1>5. CASE DrawNothing
  BY <1>5 DEF DrawNothing, decoderVars
<1>6. CASE DrawBegin
  BY <1>6 DEF DrawBegin, decoderVars, surfaceVars
<1>7. CASE DrawEnd
  BY <1>7 DEF DrawEnd, decoderVars, surfaceVars
<1>8. CASE Leave
  BY <1>8, Numbers DEF Leave, decoderVars, surfaceVars
<1>9. CASE Drain
  BY <1>9, VideoHandoffAssumption DEF Drain, decoderVars, surfaceVars
<1>10. CASE ChooseFunc
  BY <1>10 DEF ChooseFunc, decoderVars, surfaceVars
<1>11. CASE ConvertBegin
  BY <1>11 DEF ConvertBegin, decoderVars, surfaceVars
<1>12. CASE ConvertEnd
  BY <1>12 DEF ConvertEnd, decoderVars, surfaceVars
<1>13. CASE DrawRGBBegin
  BY <1>13 DEF DrawRGBBegin, decoderVars, surfaceVars
<1>14. CASE DrawRGBEnd
  BY <1>14 DEF DrawRGBEnd, decoderVars, surfaceVars
<1> QED
  BY <1>1, <1>2, <1>3, <1>4, <1>5, <1>6, <1>7, <1>8, <1>9, <1>10, <1>11, <1>12, <1>13, <1>14 DEF Display

LEMMA TStep == TInv /\ [Next]_vars => TInv'
<1>1. TInv /\ UNCHANGED vars => TInv'
  BY DEF TInv, DecoderType, BufferType, MessageType, SurfaceType, DisplayType, PointersSet,
         Picturing, vars, decoderVars, surfaceVars, displayVars
<1> QED
  BY <1>1, TDecoder, TDisplay DEF Next

\* Threads, buffers, locks, queue and surface keep their types.
THEOREM VideoTypeCorrect == Spec => []TypeInv
<1>1. TInv => TypeInv
  BY DEF TInv, DecoderType, BufferType, MessageType, SurfaceType, DisplayType, TypeInv
<1> QED
  BY <1>1, TInit, TStep, PTL DEF Spec

-------------------------------------------------------------------------------
(* The surface. *)

SurfaceInv ==
  /\ Drawing <=> m_csDDraw = "display"
  /\ ~failed => m_pd3dSurface = m_xLen

LEMMA SurfaceStep ==
  ASSUME TInv, SurfaceInv, [Next]_vars
  PROVE  SurfaceInv' /\ (Drawing => UNCHANGED << m_xLen, m_pd3dSurface >>)
<1> USE DEF SurfaceInv, Drawing
<1>1. CASE UNCHANGED vars
  BY <1>1 DEF vars, surfaceVars, displayVars
<1>2. CASE Decode \/ FillBegin \/ FillEnd \/ SetOutBuffer \/ Post
  BY <1>2 DEF Decode, FillBegin, FillEnd, SetOutBuffer, Post, surfaceVars, displayVars
<1>3. CASE SetVideoParam
  BY <1>3 DEF SetVideoParam, StartPlay, surfaceVars
<1>4. CASE SetVideoParamFails
  BY <1>4 DEF SetVideoParamFails, displayVars
<1>5. CASE MakeQueue \/ GetMessage \/ Enter \/ ReadOutBuffer \/ Leave \/ Drain
  BY <1>5 DEF MakeQueue, GetMessage, Enter, ReadOutBuffer, Leave, Drain, surfaceVars
<1>8. CASE ChooseFunc \/ ConvertBegin \/ ConvertEnd
  BY <1>8 DEF ChooseFunc, ConvertBegin, ConvertEnd, surfaceVars
<1>6. CASE DrawNothing
  BY <1>6 DEF DrawNothing
<1>7. CASE DrawBegin \/ DrawEnd \/ DrawRGBBegin \/ DrawRGBEnd
  BY <1>7 DEF DrawBegin, DrawEnd, DrawRGBBegin, DrawRGBEnd, surfaceVars
<1> QED
  BY <1>1, <1>2, <1>3, <1>4, <1>5, <1>6, <1>7, <1>8 DEF Next, Decoder, Display

\* The surface that is drawn on fits the size the copy goes by.
THEOREM DrawnSurfaceFits == Spec => []SurfaceFits
<1>1. Init => SurfaceInv
  BY DEF Init, SurfaceInv, Drawing
<1>2. SurfaceInv => SurfaceFits
  BY DEF SurfaceInv, SurfaceFits
<1> QED
  BY <1>1, <1>2, TInit, TStep, SurfaceStep, PTL DEF Spec

\* The surface that is drawn on is neither released nor replaced.
THEOREM DrawnSurfaceStays == Spec => SurfaceStays
<1>1. Init => SurfaceInv
  BY DEF Init, SurfaceInv, Drawing
<1>2. TInv /\ SurfaceInv /\ [Next]_vars => [ Drawing => UNCHANGED << m_xLen, m_pd3dSurface >> ]_vars
  BY SurfaceStep
<1> QED
  BY <1>1, <1>2, TInit, TStep, SurfaceStep, PTL DEF Spec, SurfaceStays

-------------------------------------------------------------------------------
(* Nothing torn.  Up to two pictures late, the display comes up to the      *)
(* messages of the two buffers in turn, so that a buffer it draws from      *)
(* without its lock is one that the decoder cannot reach: the decoder       *)
(* first needs the lock that the display does hold.                         *)

\* The buffer of the newest message that has been posted.
Newest == IF dpc = "post" THEN m_iCurrentOutBuf ELSE 1 - m_iCurrentOutBuf

\* The message that the display has taken and not yet come round to.
InHand == IF vpc = "enter" THEN 1 ELSE 0

Backlog ==
  /\ vpc \in {"none", "starting"} => queue = << >>
  /\ lag <= 2 =>
       /\ Len(queue) + InHand <= 2
       /\ dpc \in {"filling", "set", "post"} => Len(queue) + InHand <= 1
       /\ Len(queue) = 1 => queue[1] = Newest
       /\ Len(queue) = 2 => queue[1] = 1 - Newest /\ queue[2] = Newest
       /\ vpc = "enter" /\ Len(queue) = 0 => csLock = Newest
       /\ vpc = "enter" /\ Len(queue) = 1 => csLock = 1 - Newest

Locks ==
  \A b \in Bufs :
    /\ m_csVideoYUV[b] = "decoder" <=> dpc = "filling" /\ b = m_iCurrentOutBuf
    /\ m_csVideoYUV[b] = "display" <=>
         vpc \in Picturing \cup {"read", "drawRGB", "drawingRGB", "leave"} /\ b = csLock

Filled ==
  /\ dpc # "decode" => frame # Half
  /\ dpc = "set" => m_yuvBuff[m_iCurrentOutBuf] # Half
  /\ m_pOutBuffer # None =>
       m_pOutBuffer = 1 - m_iCurrentOutBuf /\ m_yuvBuff[m_pOutBuffer] # Half

Holding ==
  lag <= 2 =>
    /\ dpc = "set" /\ vpc \in Picturing \cup {"read"} => csLock # m_iCurrentOutBuf
    /\ vpc \in Picturing =>
         /\ m_yuvBuff[pobuf] # Half
         /\ pobuf # csLock => csLock = m_iCurrentOutBuf /\ dpc \notin {"filling", "set"}
    /\ vpc \in {"converting", "drawing"} => top = m_yuvBuff[pobuf]
    /\ vpc \in {"drawRGB", "drawingRGB"} => m_pRgbbuf[1] = m_pRgbbuf[2] /\ m_pRgbbuf[1] # Half

TornInv == Backlog /\ Locks /\ Filled /\ Holding /\ NoTornPicture

\* A lock belongs to the thread that is in its section.
LEMMA LocksStep ==
  ASSUME TInv, TornInv, Next
  PROVE  Locks'
<1> USE DEF TInv, DecoderType, BufferType, MessageType, DisplayType, TornInv, Locks, Bufs, Picturing
<1>1. CASE Decode
  BY <1>1 DEF Decode, decoderVars, surfaceVars, displayVars
<1>2. CASE SetVideoParam
  BY <1>2 DEF SetVideoParam, StartPlay, decoderVars, surfaceVars, displayVars
<1>3. CASE SetVideoParamFails
  BY <1>3 DEF SetVideoParamFails, decoderVars, surfaceVars, displayVars
<1>4. CASE FillBegin
  BY <1>4 DEF FillBegin, InTime, decoderVars, surfaceVars, displayVars
<1>5. CASE FillEnd
  BY <1>5 DEF FillEnd, decoderVars, surfaceVars, displayVars
<1>6. CASE SetOutBuffer
  BY <1>6 DEF SetOutBuffer, decoderVars, surfaceVars, displayVars
<1>7. CASE Post
  BY <1>7 DEF Post, HasRoom, decoderVars, surfaceVars, displayVars
<1>8. CASE MakeQueue
  BY <1>8 DEF MakeQueue, decoderVars, surfaceVars, displayVars
<1>9. CASE GetMessage
  BY <1>9 DEF GetMessage, decoderVars, surfaceVars, displayVars
<1>10. CASE Enter
  BY <1>10 DEF Enter, decoderVars, surfaceVars, displayVars
<1>11. CASE ReadOutBuffer
  BY <1>11 DEF ReadOutBuffer, decoderVars, surfaceVars, displayVars
<1>12. CASE DrawNothing
  BY <1>12 DEF DrawNothing, decoderVars, surfaceVars, displayVars
<1>13. CASE DrawBegin
  BY <1>13 DEF DrawBegin, decoderVars, surfaceVars, displayVars
<1>14. CASE DrawEnd
  BY <1>14 DEF DrawEnd, decoderVars, surfaceVars, displayVars
<1>15. CASE Leave
  BY <1>15 DEF Leave, decoderVars, surfaceVars, displayVars
<1>16. CASE Drain
  BY <1>16 DEF Drain, decoderVars, surfaceVars, displayVars
<1>17. CASE ChooseFunc
  BY <1>17 DEF ChooseFunc, decoderVars, surfaceVars, displayVars
<1>18. CASE ConvertBegin
  BY <1>18 DEF ConvertBegin, decoderVars, surfaceVars, displayVars
<1>19. CASE ConvertEnd
  BY <1>19 DEF ConvertEnd, decoderVars, surfaceVars, displayVars
<1>20. CASE DrawRGBBegin
  BY <1>20 DEF DrawRGBBegin, decoderVars, surfaceVars, displayVars
<1>21. CASE DrawRGBEnd
  BY <1>21 DEF DrawRGBEnd, decoderVars, surfaceVars, displayVars
<1> QED
  BY <1>1, <1>2, <1>3, <1>4, <1>5, <1>6, <1>7, <1>8, <1>9, <1>10, <1>11, <1>12, <1>13, <1>14, <1>15, <1>16, <1>17, <1>18, <1>19, <1>20, <1>21 DEF Next, Decoder, Display

\* The picture that m_pOutBuffer points at is complete.
LEMMA FilledStep ==
  ASSUME TInv, TornInv, Next
  PROVE  Filled'
<1> USE DEF TInv, DecoderType, BufferType, MessageType, DisplayType, TornInv, Filled, Locks, Bufs, None, Half, PointersSet, Picturing
<1>1. CASE Decode
  BY <1>1, VideoHandoffAssumption DEF Decode, Frames, surfaceVars, displayVars
<1>2. CASE SetVideoParam
  BY <1>2, Numbers DEF SetVideoParam, StartPlay, decoderVars, surfaceVars, displayVars
<1>3. CASE SetVideoParamFails
  BY <1>3, Numbers DEF SetVideoParamFails, decoderVars, surfaceVars, displayVars
<1>4. CASE FillBegin
  BY <1>4, Numbers DEF FillBegin, InTime, decoderVars, surfaceVars, displayVars
<1>5. CASE FillEnd
  BY <1>5, Numbers DEF FillEnd, decoderVars, surfaceVars, displayVars
<1>6. CASE SetOutBuffer
  BY <1>6, Numbers DEF SetOutBuffer, decoderVars, surfaceVars, displayVars
<1>7. CASE Post
  BY <1>7, Numbers DEF Post, HasRoom, decoderVars, surfaceVars, displayVars
<1>8. CASE MakeQueue
  BY <1>8, Numbers DEF MakeQueue, decoderVars, surfaceVars, displayVars
<1>9. CASE GetMessage
  BY <1>9, Numbers DEF GetMessage, decoderVars, surfaceVars, displayVars
<1>10. CASE Enter
  BY <1>10, Numbers DEF Enter, decoderVars, surfaceVars, displayVars
<1>11. CASE ReadOutBuffer
  BY <1>11, Numbers DEF ReadOutBuffer, decoderVars, surfaceVars, displayVars
<1>12. CASE DrawNothing
  BY <1>12, Numbers DEF DrawNothing, decoderVars, surfaceVars, displayVars
<1>13. CASE DrawBegin
  BY <1>13, Numbers DEF DrawBegin, decoderVars, surfaceVars, displayVars
<1>14. CASE DrawEnd
  BY <1>14, Numbers DEF DrawEnd, decoderVars, surfaceVars, displayVars
<1>15. CASE Leave
  BY <1>15, Numbers DEF Leave, decoderVars, surfaceVars, displayVars
<1>16. CASE Drain
  BY <1>16, Numbers DEF Drain, decoderVars, surfaceVars, displayVars
<1>17. CASE ChooseFunc
  BY <1>17, Numbers DEF ChooseFunc, decoderVars, surfaceVars, displayVars
<1>18. CASE ConvertBegin
  BY <1>18, Numbers DEF ConvertBegin, decoderVars, surfaceVars, displayVars
<1>19. CASE ConvertEnd
  BY <1>19, Numbers DEF ConvertEnd, decoderVars, surfaceVars, displayVars
<1>20. CASE DrawRGBBegin
  BY <1>20, Numbers DEF DrawRGBBegin, decoderVars, surfaceVars, displayVars
<1>21. CASE DrawRGBEnd
  BY <1>21, Numbers DEF DrawRGBEnd, decoderVars, surfaceVars, displayVars
<1> QED
  BY <1>1, <1>2, <1>3, <1>4, <1>5, <1>6, <1>7, <1>8, <1>9, <1>10, <1>11, <1>12, <1>13, <1>14, <1>15, <1>16, <1>17, <1>18, <1>19, <1>20, <1>21 DEF Next, Decoder, Display

\* The messages name the two buffers in turn.
LEMMA BacklogStep ==
  ASSUME TInv, TornInv, Next
  PROVE  Backlog'
<1> USE DEF TInv, DecoderType, BufferType, MessageType, DisplayType, TornInv, Backlog, InHand, Newest, Filled, Bufs, None, PointersSet, Picturing
<1>1. CASE Decode
  BY <1>1, VideoHandoffAssumption DEF Decode, decoderVars, surfaceVars, displayVars
<1>2. CASE SetVideoParam
  BY <1>2, VideoHandoffAssumption DEF SetVideoParam, StartPlay, decoderVars, surfaceVars, displayVars
<1>3. CASE SetVideoParamFails
  BY <1>3, VideoHandoffAssumption DEF SetVideoParamFails, decoderVars, surfaceVars, displayVars
<1>4. CASE FillBegin
  BY <1>4, VideoHandoffAssumption DEF FillBegin, InTime, decoderVars, surfaceVars, displayVars
<1>5. CASE FillEnd
  BY <1>5, VideoHandoffAssumption DEF FillEnd, decoderVars, surfaceVars, displayVars
<1>6. CASE SetOutBuffer
  BY <1>6, VideoHandoffAssumption DEF SetOutBuffer, decoderVars, surfaceVars, displayVars
<1>7. CASE Post
  <2>1. /\ vpc' = vpc /\ csLock' = csLock /\ lag' = lag /\ m_iCurrentOutBuf' = m_iCurrentOutBuf
        /\ dpc = "post" /\ dpc' = "decode" /\ m_pOutBuffer = 1 - m_iCurrentOutBuf
    BY <1>7 DEF Post, displayVars
  <2>2. CASE vpc \in {"none", "starting"}
    BY <1>7, <2>1, <2>2 DEF Post, HasRoom
  <2>3. CASE vpc \notin {"none", "starting"} /\ lag <= 2
    <3>1. Len(queue) < QueueMax
      BY <2>1, <2>3, VideoHandoffAssumption
    <3>2. queue' = Append(queue, m_pOutBuffer)
      BY <1>7, <2>3, <3>1 DEF Post, HasRoom
    <3>3. Len(queue) \in {0, 1}
      <4>1. Len(queue) \in Nat /\ InHand \in {0, 1}
        OBVIOUS
      <4>2. Len(queue) + InHand <= 1
        BY <2>1, <2>3
      <4>3. \A n \in Nat : \A k \in {0, 1} : n + k <= 1 => n \in {0, 1}
        OBVIOUS
      <4> QED
        BY <4>1, <4>2, <4>3
    <3>4. Len(queue') = Len(queue) + 1 /\ queue'[Len(queue) + 1] = m_pOutBuffer
          /\ (Len(queue) = 1 => queue'[1] = queue[1])
      BY <3>2, <3>3
    <3>5. CASE Len(queue) = 0
      BY <2>1, <2>3, <3>4, <3>5
    <3>6. CASE Len(queue) = 1
      BY <2>1, <2>3, <3>4, <3>6
    <3> QED
      BY <3>3, <3>5, <3>6
  <2> QED
    BY <2>1, <2>2, <2>3, VideoHandoffAssumption
<1>8. CASE MakeQueue
  BY <1>8, VideoHandoffAssumption DEF MakeQueue, decoderVars, surfaceVars, displayVars
<1>9. CASE GetMessage
  <2>1. /\ vpc = "get" /\ vpc' = "enter" /\ lag' = lag /\ dpc' = dpc
        /\ m_iCurrentOutBuf' = m_iCurrentOutBuf /\ queue # << >> /\ csLock' = queue[1]
    BY <1>9 DEF GetMessage, decoderVars
  <2>2. /\ Len(queue) \in Nat /\ Len(queue) >= 1 /\ Len(queue') = Len(queue) - 1
        /\ (Len(queue) = 2 => queue'[1] = queue[2])
    BY <1>9 DEF GetMessage
  <2>3. CASE Len(queue) = 1
    BY <2>1, <2>2, <2>3, VideoHandoffAssumption
  <2>4. CASE Len(queue) = 2
    BY <2>1, <2>2, <2>4, VideoHandoffAssumption
  <2>5. CASE Len(queue) > 2
    BY <2>1, <2>2, <2>5, VideoHandoffAssumption
  <2> QED
    BY <2>2, <2>3, <2>4, <2>5
<1>10. CASE Enter
  BY <1>10, VideoHandoffAssumption DEF Enter, decoderVars, surfaceVars, displayVars
<1>11. CASE ReadOutBuffer
  BY <1>11, VideoHandoffAssumption DEF ReadOutBuffer, decoderVars, surfaceVars, displayVars
<1>12. CASE DrawNothing
  BY <1>12, VideoHandoffAssumption DEF DrawNothing, decoderVars, surfaceVars, displayVars
<1>13. CASE DrawBegin
  BY <1>13, VideoHandoffAssumption DEF DrawBegin, decoderVars, surfaceVars, displayVars
<1>14. CASE DrawEnd
  BY <1>14, VideoHandoffAssumption DEF DrawEnd, decoderVars, surfaceVars, displayVars
<1>15. CASE Leave
  BY <1>15, VideoHandoffAssumption DEF Leave, decoderVars, surfaceVars, displayVars
<1>16. CASE Drain
  BY <1>16, VideoHandoffAssumption DEF Drain, decoderVars, surfaceVars, displayVars
<1>17. CASE ChooseFunc
  BY <1>17, VideoHandoffAssumption DEF ChooseFunc, decoderVars, surfaceVars, displayVars
<1>18. CASE ConvertBegin
  BY <1>18, VideoHandoffAssumption DEF ConvertBegin, decoderVars, surfaceVars, displayVars
<1>19. CASE ConvertEnd
  BY <1>19, VideoHandoffAssumption DEF ConvertEnd, decoderVars, surfaceVars, displayVars
<1>20. CASE DrawRGBBegin
  BY <1>20, VideoHandoffAssumption DEF DrawRGBBegin, decoderVars, surfaceVars, displayVars
<1>21. CASE DrawRGBEnd
  BY <1>21, VideoHandoffAssumption DEF DrawRGBEnd, decoderVars, surfaceVars, displayVars
<1> QED
  BY <1>1, <1>2, <1>3, <1>4, <1>5, <1>6, <1>7, <1>8, <1>9, <1>10, <1>11, <1>12, <1>13, <1>14, <1>15, <1>16, <1>17, <1>18, <1>19, <1>20, <1>21 DEF Next, Decoder, Display

\* The buffer that is drawn from is out of the decoder's reach.
LEMMA HoldingStep ==
  ASSUME TInv, TornInv, Next
  PROVE  Holding'
<1> USE DEF TInv, DecoderType, BufferType, MessageType, DisplayType, TornInv, Holding, Backlog, InHand, Newest, Locks, Filled, Bufs, None, Half, PointersSet, Picturing
<1>1. CASE Decode
  BY <1>1 DEF Decode, decoderVars, surfaceVars, displayVars
<1>2. CASE SetVideoParam
  BY <1>2 DEF SetVideoParam, StartPlay, decoderVars, surfaceVars, displayVars
<1>3. CASE SetVideoParamFails
  BY <1>3 DEF SetVideoParamFails, decoderVars, surfaceVars, displayVars
<1>4. CASE FillBegin
  BY <1>4 DEF FillBegin, InTime, decoderVars, surfaceVars, displayVars
<1>5. CASE FillEnd
  BY <1>5 DEF FillEnd, decoderVars, surfaceVars, displayVars
<1>6. CASE SetOutBuffer
  BY <1>6 DEF SetOutBuffer, decoderVars, surfaceVars, displayVars
<1>7. CASE Post
  BY <1>7 DEF Post, HasRoom, decoderVars, surfaceVars, displayVars
<1>8. CASE MakeQueue
  BY <1>8 DEF MakeQueue, decoderVars, surfaceVars, displayVars
<1>9. CASE GetMessage
  BY <1>9 DEF GetMessage, decoderVars, surfaceVars, displayVars
<1>10. CASE Enter
  BY <1>10 DEF Enter, decoderVars, surfaceVars, displayVars
<1>11. CASE ReadOutBuffer
  BY <1>11 DEF ReadOutBuffer, decoderVars, surfaceVars, displayVars
<1>12. CASE DrawNothing
  BY <1>12 DEF DrawNothing, decoderVars, surfaceVars, displayVars
<1>13. CASE DrawBegin
  BY <1>13 DEF DrawBegin, decoderVars, surfaceVars, displayVars
<1>14. CASE DrawEnd
  BY <1>14 DEF DrawEnd, decoderVars, surfaceVars, displayVars
<1>15. CASE Leave
  BY <1>15 DEF Leave, decoderVars, surfaceVars, displayVars
<1>16. CASE Drain
  BY <1>16 DEF Drain, decoderVars, surfaceVars, displayVars
<1>17. CASE ChooseFunc
  BY <1>17 DEF ChooseFunc, decoderVars, surfaceVars, displayVars
<1>18. CASE ConvertBegin
  BY <1>18 DEF ConvertBegin, decoderVars, surfaceVars, displayVars
<1>19. CASE ConvertEnd
  BY <1>19 DEF ConvertEnd, decoderVars, surfaceVars, displayVars
<1>20. CASE DrawRGBBegin
  BY <1>20 DEF DrawRGBBegin, decoderVars, surfaceVars, displayVars
<1>21. CASE DrawRGBEnd
  BY <1>21 DEF DrawRGBEnd, decoderVars, surfaceVars, displayVars
<1> QED
  BY <1>1, <1>2, <1>3, <1>4, <1>5, <1>6, <1>7, <1>8, <1>9, <1>10, <1>11, <1>12, <1>13, <1>14, <1>15, <1>16, <1>17, <1>18, <1>19, <1>20, <1>21 DEF Next, Decoder, Display

\* What comes on the screen is one picture.
LEMMA TornStep ==
  ASSUME TInv, TornInv, Next
  PROVE  NoTornPicture'
<1> USE DEF TInv, DecoderType, BufferType, MessageType, DisplayType, TornInv, Holding, NoTornPicture, Half, PointersSet, Picturing
<1>1. CASE Decode
  BY <1>1 DEF Decode, decoderVars, surfaceVars, displayVars
<1>2. CASE SetVideoParam
  BY <1>2 DEF SetVideoParam, StartPlay, decoderVars, surfaceVars, displayVars
<1>3. CASE SetVideoParamFails
  BY <1>3 DEF SetVideoParamFails, decoderVars, surfaceVars, displayVars
<1>4. CASE FillBegin
  BY <1>4 DEF FillBegin, InTime, decoderVars, surfaceVars, displayVars
<1>5. CASE FillEnd
  BY <1>5 DEF FillEnd, decoderVars, surfaceVars, displayVars
<1>6. CASE SetOutBuffer
  BY <1>6 DEF SetOutBuffer, decoderVars, surfaceVars, displayVars
<1>7. CASE Post
  BY <1>7 DEF Post, HasRoom, decoderVars, surfaceVars, displayVars
<1>8. CASE MakeQueue
  BY <1>8 DEF MakeQueue, decoderVars, surfaceVars, displayVars
<1>9. CASE GetMessage
  BY <1>9 DEF GetMessage, decoderVars, surfaceVars, displayVars
<1>10. CASE Enter
  BY <1>10 DEF Enter, decoderVars, surfaceVars, displayVars
<1>11. CASE ReadOutBuffer
  BY <1>11 DEF ReadOutBuffer, decoderVars, surfaceVars, displayVars
<1>12. CASE DrawNothing
  BY <1>12 DEF DrawNothing, decoderVars, surfaceVars, displayVars
<1>13. CASE DrawBegin
  BY <1>13 DEF DrawBegin, decoderVars, surfaceVars, displayVars
<1>14. CASE DrawEnd
  BY <1>14 DEF DrawEnd, decoderVars, surfaceVars, displayVars
<1>15. CASE Leave
  BY <1>15 DEF Leave, decoderVars, surfaceVars, displayVars
<1>16. CASE Drain
  BY <1>16 DEF Drain, decoderVars, surfaceVars, displayVars
<1>17. CASE ChooseFunc
  BY <1>17 DEF ChooseFunc, decoderVars, surfaceVars, displayVars
<1>18. CASE ConvertBegin
  BY <1>18 DEF ConvertBegin, decoderVars, surfaceVars, displayVars
<1>19. CASE ConvertEnd
  BY <1>19 DEF ConvertEnd, decoderVars, surfaceVars, displayVars
<1>20. CASE DrawRGBBegin
  BY <1>20 DEF DrawRGBBegin, decoderVars, surfaceVars, displayVars
<1>21. CASE DrawRGBEnd
  BY <1>21 DEF DrawRGBEnd, decoderVars, surfaceVars, displayVars
<1> QED
  BY <1>1, <1>2, <1>3, <1>4, <1>5, <1>6, <1>7, <1>8, <1>9, <1>10, <1>11, <1>12, <1>13, <1>14, <1>15, <1>16, <1>17, <1>18, <1>19, <1>20, <1>21 DEF Next, Decoder, Display

LEMMA TornInit == Init => TornInv
BY VideoHandoffAssumption
   DEF Init, TornInv, Backlog, InHand, Newest, Locks, Filled, Holding, NoTornPicture, Bufs, None, Half, Picturing

LEMMA TornKeeps == TInv /\ TornInv /\ [Next]_vars => TornInv'
<1>1. TornInv /\ UNCHANGED vars => TornInv'
  BY DEF TornInv, Backlog, InHand, Newest, Locks, Filled, Holding, NoTornPicture, Picturing,
         vars, decoderVars, surfaceVars, displayVars
<1>2. TInv /\ TornInv /\ Next => TornInv'
  BY LocksStep, FilledStep, BacklogStep, HoldingStep, TornStep DEF TornInv
<1> QED
  BY <1>1, <1>2

\* As long as the display is at most two pictures late, what it shows is one
\* whole picture, although the lock it holds may be that of the other buffer.
THEOREM NothingTorn == Spec => []NoTornPicture
<1>1. TornInv => NoTornPicture
  BY DEF TornInv
<1> QED
  BY <1>1, TInit, TStep, TornInit, TornKeeps, PTL DEF Spec

-------------------------------------------------------------------------------
(* Nothing goes back in time.  The display throws away all messages after  *)
(* each picture, so that the next message it takes was posted later, when  *)
(* m_pOutBuffer already pointed at the newest picture; the decoder writes  *)
(* to the other buffer only.  This needs no bound on how late it is.       *)

\* The contents n of a buffer, if complete, are not older than the picture shown.
NotOlder(n) == n = Half \/ shown[1] <= n

\* There is a message that the display will show a picture for.
Coming == vpc \in {"enter", "read"} \/ (vpc = "get" /\ queue # << >>)

\* Nothing is newer than the decoder's picture.
Bounds ==
  /\ \A b \in Bufs : m_yuvBuff[b] <= frame
  /\ top <= frame /\ shown[1] <= frame

\* What the decoder hands over is its picture.
HandedOver ==
  /\ dpc = "set" => m_yuvBuff[m_iCurrentOutBuf] = frame
  /\ dpc = "post" => m_yuvBuff[m_pOutBuffer] = frame

\* What will be shown, or is being drawn, is not older than what is shown.
NextShown ==
  /\ Coming => m_pOutBuffer # None /\ shown[1] <= m_yuvBuff[m_pOutBuffer]
  /\ vpc \in Picturing => NotOlder(m_yuvBuff[pobuf])
  /\ vpc \in {"converting", "drawing"} => NotOlder(top)
  /\ vpc \in {"drawRGB", "drawingRGB"} => NotOlder(m_pRgbbuf[1]) /\ m_pRgbbuf[1] <= frame

OrderInv == Bounds /\ HandedOver /\ NextShown

\* Of what a step shows, the upper half is not older than what was shown.
Forward == Whole(shown') => shown[1] <= shown'[1]

LEMMA OrderInit == Init => OrderInv
BY DEF Init, OrderInv, Bounds, HandedOver, NextShown, Coming, NotOlder, Bufs, Half, Picturing

LEMMA OrderStep ==
  ASSUME TInv, TornInv, OrderInv, Next
  PROVE  OrderInv' /\ Forward
<1> USE DEF TInv, DecoderType, BufferType, MessageType, DisplayType, PointersSet, Picturing, TornInv, Backlog, Filled,
            OrderInv, Bounds, HandedOver, NextShown, Coming, NotOlder, Forward, Whole, Bufs, None, Half, Frames
<1>1. CASE Decode
  BY <1>1, Numbers DEF Decode, decoderVars, surfaceVars, displayVars
<1>2. CASE SetVideoParam
  BY <1>2 DEF SetVideoParam, StartPlay, decoderVars, surfaceVars, displayVars
<1>3. CASE SetVideoParamFails
  BY <1>3 DEF SetVideoParamFails, decoderVars, surfaceVars, displayVars
<1>4. CASE FillBegin
  BY <1>4 DEF FillBegin, decoderVars, surfaceVars, displayVars
<1>5. CASE FillEnd
  BY <1>5 DEF FillEnd, decoderVars, surfaceVars, displayVars
<1>6. CASE SetOutBuffer
  BY <1>6, Numbers DEF SetOutBuffer, decoderVars, surfaceVars, displayVars
<1>7. CASE Post
  BY <1>7 DEF Post, HasRoom, decoderVars, surfaceVars, displayVars
<1>8. CASE MakeQueue
  BY <1>8 DEF MakeQueue, decoderVars, surfaceVars, displayVars
<1>9. CASE GetMessage
  BY <1>9 DEF GetMessage, decoderVars, surfaceVars, displayVars
<1>10. CASE Enter
  BY <1>10 DEF Enter, decoderVars, surfaceVars, displayVars
<1>11. CASE ReadOutBuffer
  BY <1>11 DEF ReadOutBuffer, decoderVars, surfaceVars, displayVars
<1>12. CASE DrawNothing
  BY <1>12 DEF DrawNothing, decoderVars, surfaceVars, displayVars
<1>13. CASE DrawBegin
  BY <1>13 DEF DrawBegin, decoderVars, surfaceVars, displayVars
<1>14. CASE DrawEnd
  BY <1>14 DEF DrawEnd, decoderVars, surfaceVars, displayVars
<1>15. CASE Leave
  BY <1>15 DEF Leave, decoderVars, surfaceVars, displayVars
<1>16. CASE Drain
  BY <1>16 DEF Drain, decoderVars, surfaceVars, displayVars
<1>17. CASE ChooseFunc
  BY <1>17 DEF ChooseFunc, decoderVars, surfaceVars, displayVars
<1>18. CASE ConvertBegin
  BY <1>18 DEF ConvertBegin, decoderVars, surfaceVars, displayVars
<1>19. CASE ConvertEnd
  BY <1>19 DEF ConvertEnd, decoderVars, surfaceVars, displayVars
<1>20. CASE DrawRGBBegin
  BY <1>20 DEF DrawRGBBegin, decoderVars, surfaceVars, displayVars
<1>21. CASE DrawRGBEnd
  BY <1>21 DEF DrawRGBEnd, decoderVars, surfaceVars, displayVars
<1> QED
  BY <1>1, <1>2, <1>3, <1>4, <1>5, <1>6, <1>7, <1>8, <1>9, <1>10, <1>11, <1>12, <1>13, <1>14, <1>15, <1>16, <1>17, <1>18, <1>19, <1>20, <1>21 DEF Next, Decoder, Display

\* However late the display is, whole pictures never go back in time.
THEOREM PicturesInOrder == Spec => NeverBack
<1>1. TInv /\ TornInv /\ OrderInv /\ [Next]_vars => OrderInv'
  <2>1. OrderInv /\ UNCHANGED vars => OrderInv'
    BY DEF OrderInv, Bounds, HandedOver, NextShown, Coming, NotOlder, Picturing,
           vars, decoderVars, surfaceVars, displayVars
  <2> QED
    BY <2>1, OrderStep
<1>2. TInv /\ TornInv /\ OrderInv /\ [Next]_vars
        => [ Whole(shown) /\ Whole(shown') => shown[1] <= shown'[1] ]_vars
  BY OrderStep DEF Forward
<1> QED
  BY <1>1, <1>2, TInit, TStep, TornInit, TornKeeps, OrderInit, PTL DEF Spec, NeverBack
===============================================================================
