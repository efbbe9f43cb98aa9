----------------------------- MODULE TSStreamInfo -----------------------------
(***************************************************************************)
(* The parser of the delay meter (TimeDelayParse/Main/TSStreamInfo.cpp):   *)
(* ParseStreamFrame is given one transport packet after the other by the   *)
(* parsing thread.  It finds the PIDs of the program in the PAT and the    *)
(* PMT, keeps the program clock, measures the frame rate by the time       *)
(* stamps, and logs every video frame when the next one begins.            *)
(*                                                                         *)
(* A packet is a record of what the parser reads in it:                    *)
(*   pid, start, afc   header: payload_unit_start_indicator and            *)
(*                     adaption_field_control                              *)
(*   head      bytes before the payload, adaptation field included         *)
(*   pcr       program clock: its first byte (hi) and the other 25 bits of  *)
(*             its base as one value (lo), or NoPcr                        *)
(*   table     what the first section says: NoTable, the first entry of a  *)
(*             PAT, or a PMT (0: no such stream)                           *)
(*   pes       the payload begins with 00 00 01 E0                         *)
(*   pts       time stamp in ticks of 90 kHz, or -1                        *)
(*   codes     the start codes in the packet, in order: the bytes B3, B5,  *)
(*             B8 and 00 of MPEG-2, or by the five low bits that are a NAL *)
(*             type of H.264 (7, 8, 5, 1), whatever the byte means in AVS  *)
(*             or MPEG-1, where slices of rows have them                   *)
(*                                                                         *)
(* A definition named X_Fault is definition X with the slip its name says;  *)
(* it is used only to see which property notices.                          *)
(***************************************************************************)
EXTENDS Integers, Sequences

CONSTANTS
  Streams,       (* sets of packets that streams are made of               *)
  MaxFrames,     (* bound on the frames begun                              *)
  MaxMore        (* bound on the packets counted between two starts        *)

PACKET_SIZE == 188
NullPID == 8191
NoPcr == [ hi |-> -1, lo |-> 0 ]
NoTable == [ kind |-> "none" ]
Pats == [ kind : {"pat"}, fits : BOOLEAN, pid : Nat ]
Pmts == [ kind : {"pmt"}, pcr : Nat, video : Nat, audio : Nat, type : {1, 2, 27, 66} ]
Pcrs == {NoPcr} \cup [ hi : 0 .. 255, lo : Nat ]
Packets ==
  [ pid : 0 .. NullPID, start : BOOLEAN, afc : 0 .. 3, head : Nat, pcr : Pcrs,
    table : {NoTable} \cup Pats \cup Pmts, pes : BOOLEAN, pts : Int,
    codes : Seq({"seq", "ext", "gop", "picture", "sps", "pps", "idr", "slice"}) ]

\* Tables come in packets of their own without an adaptation field, PID 0 is
\* that of the PAT, and the PID that a PAT names first is, if anything is sent
\* there, that of a PMT.
ASSUME StreamAssumption ==
  /\ MaxFrames \in Nat /\ MaxMore \in Nat
  /\ \A s \in Streams : s \subseteq Packets
  /\ \A s \in Streams : \A p \in s :
        /\ (p.pid = 0) <=> (p.table.kind = "pat")
        /\ p.table.kind # "none" => p.head = 4 /\ p.afc = 1 /\ p.start /\ ~p.pes
        /\ p.pcr # NoPcr => p.afc \in {2, 3}
        /\ p.table.kind = "pmt" => p.table.video # p.pid
        /\ \A q \in s : p.table.kind = "pat" /\ q.pid = p.table.pid => q.table.kind = "pmt"

VARIABLES
  stream,        (* constant of a behaviour: an element of Streams         *)
  m_iPMTPID, m_iPCRPID, m_iVideoPID, m_iAudioPID, m_iVideoCodeType,
  m_llPCR,
  m_llLastPts, m_iFrameRate,
  m_bPesBeginFlag, m_bIFramebeginFlag,
  m_itsStreamPacketNumber, m_iframesize, m_iIframeSize,
  m_llFrameNum, m_llFrameTotal, m_iFramTotal,
  printedIndex, printedGop,      (* last numbers in the two logs           *)
  undefined,                     (* integer division by zero               *)
  got, head,                     (* observer: what the last packet was     *)
  clock                          (* observer: last clock of the program      *)

pidVars == << m_iPMTPID, m_iPCRPID, m_iVideoPID, m_iAudioPID >>
rateVars == << m_llLastPts, m_iFrameRate, undefined >>
frameVars == << m_bPesBeginFlag, m_bIFramebeginFlag, m_iframesize, m_iIframeSize,
                m_llFrameNum, m_llFrameTotal, m_iFramTotal, printedIndex, printedGop >>
vars == << stream, pidVars, m_iVideoCodeType, m_llPCR, rateVars, frameVars,
           m_itsStreamPacketNumber, got, head, clock >>

-------------------------------------------------------------------------------
(* The pieces of ParseStreamFrame. *)

\* Line 1265: the first packet of a frame is counted for the frame before.
Counted(p) ==
  IF p.pid = m_iVideoPID /\ m_bPesBeginFlag THEN m_itsStreamPacketNumber + 1 ELSE m_itsStreamPacketNumber

HasAdaptation_Alone(p) == p.afc = 2
HasAdaptation(p) == p.afc \in {2, 3}

\* Lines 1385-1396: the first byte is shifted in an int of 32 bits, so that its
\* bit 7 is lost and its bit 6 becomes the sign of all of the result.  The base
\* -x stands for what the unsigned * 300 and / 300 make of it, 2^64 \div 300 - x.
Base(pcr) ==
  [ hi |-> IF (pcr.hi % 128) >= 64 THEN (pcr.hi % 128) - 128 ELSE pcr.hi % 128, lo |-> pcr.lo ]

Missing == m_iPCRPID = 0 \/ m_iVideoPID = 0 \/ m_iAudioPID = 0
ReadsPat_PmtFirst(p) == m_iPMTPID = 0 /\ p.pid # m_iPMTPID /\ p.table.kind = "pat"
ReadsPat(p) == m_iPMTPID = 0 /\ p.table.kind = "pat"
ReadsPmt(p) == ~ReadsPat(p) /\ p.pid = m_iPMTPID /\ Missing /\ p.table.kind = "pmt"

\* Lines 1314-1356 and Adjust_PMT_table, in which a stream that is not listed
\* leaves its PID alone.
ReadTables(p) ==
  IF ReadsPat(p) THEN m_iPMTPID' = p.table.pid /\ UNCHANGED << m_iPCRPID, m_iVideoPID, m_iAudioPID >>
  ELSE IF ReadsPmt(p)
  THEN /\ m_iPCRPID' = p.table.pcr
       /\ m_iVideoPID' = IF p.table.video # 0 THEN p.table.video ELSE m_iVideoPID
       /\ m_iAudioPID' = IF p.table.audio # 0 THEN p.table.audio ELSE m_iAudioPID
       /\ UNCHANGED m_iPMTPID
  ELSE UNCHANGED pidVars

VideoType(p) == IF ReadsPmt(p) /\ p.table.video # 0 THEN p.table.type ELSE m_iVideoCodeType

ReadClock(p) ==
  m_llPCR' = IF HasAdaptation(p) /\ p.pcr # NoPcr THEN Base(p.pcr) ELSE m_llPCR

\* Lines 762-782: m_llPts - m_llLastPts is unsigned, a step back is a huge one.
\* The ticks are divided as integers, and so is the quotient.
Rate(ticks) == IF ticks < 0 THEN 0 ELSE 1000 \div (ticks \div 90)

\* Line 773.
Plausible_First(rate) == rate <= 30 /\ rate >= 15
Plausible(rate) == m_llLastPts # 0 /\ rate <= 30 /\ rate >= 15

MeasureRate(p) ==
  LET ticks == p.pts - m_llLastPts IN
  IF p.pts = -1 \/ ticks = 0 THEN UNCHANGED rateVars
  ELSE IF ticks \in 1 .. 89 THEN undefined' = TRUE /\ UNCHANGED << m_llLastPts, m_iFrameRate >>
  ELSE /\ m_llLastPts' = p.pts
       /\ m_iFrameRate' = IF Plausible(Rate(ticks)) THEN Rate(ticks) ELSE m_iFrameRate
       /\ UNCHANGED undefined

\* ParseH264ES.  Of H.264 the first slice decides; of MPEG-2 a group header.  A
\* stream of another type, AVS or MPEG-1, is taken for MPEG-2 from the start code
\* on at which it has shown both a sequence header and an extension; until then
\* for H.264 if it has shown a sequence header and what could be a PPS, and a
\* slice ends the search.
Has(codes, c) == \E i \in 1 .. Len(codes) : codes[i] = c

FirstSliceIsIdr(codes) ==
  \E i \in 1 .. Len(codes) : codes[i] = "idr" /\ \A j \in 1 .. i - 1 : codes[j] # "slice"

GopBehindBoth(codes) ==
  \E i, j, k \in 1 .. Len(codes) :
    codes[i] = "seq" /\ codes[j] = "ext" /\ codes[k] = "gop" /\ i < k /\ j < k

\* A slice that ends the search in a stream of another type.
EndsSearch(codes, k) ==
  /\ codes[k] \in {"idr", "slice"}
  /\ \E i, j \in 1 .. k - 1 : codes[i] = "seq" /\ codes[j] = "pps"
  /\ \A i \in 1 .. k - 1 : codes[i] # "ext"

Searched(codes) == \A k \in 1 .. Len(codes) : ~EndsSearch(codes, k)

EndsInIdr(codes) ==
  \E k \in 1 .. Len(codes) :
    codes[k] = "idr" /\ EndsSearch(codes, k) /\ \A j \in 1 .. k - 1 : ~EndsSearch(codes, j)

LooksMpeg2(codes) == Has(codes, "seq") /\ Has(codes, "ext") /\ Searched(codes)

Kind(codes, type) ==
  CASE type = 27 -> IF FirstSliceIsIdr(codes) THEN "idr" ELSE "frame"
    [] type = 2 -> IF Has(codes, "gop") THEN "gop" ELSE "frame"
    [] OTHER -> IF EndsInIdr(codes) THEN "idr"
                ELSE IF GopBehindBoth(codes) /\ Searched(codes) THEN "gop" ELSE "frame"

\* Lines 1418-1433 and RecordVideoInfo; m_itsStreamPacketNumber is counted first.
EndFrame_KeepCount(p) ==
  IF m_bPesBeginFlag
  THEN /\ m_iframesize' = 184 * Counted(p) - p.head
       /\ m_itsStreamPacketNumber' = Counted(p)
       /\ printedIndex' = m_llFrameTotal /\ m_llFrameTotal' = m_llFrameNum
       /\ m_iIframeSize' = IF m_bIFramebeginFlag THEN m_iframesize' ELSE m_iIframeSize
  ELSE /\ m_itsStreamPacketNumber' = Counted(p)
       /\ UNCHANGED << m_iframesize, m_iIframeSize, printedIndex, m_llFrameTotal >>

EndFrame(p) ==
  IF m_bPesBeginFlag
  THEN /\ m_iframesize' = 184 * Counted(p) - p.head
       /\ m_itsStreamPacketNumber' = 0
       /\ printedIndex' = m_llFrameTotal /\ m_llFrameTotal' = m_llFrameNum
       /\ m_iIframeSize' = IF m_bIFramebeginFlag THEN m_iframesize' ELSE m_iIframeSize
  ELSE /\ m_itsStreamPacketNumber' = Counted(p)
       /\ UNCHANGED << m_iframesize, m_iIframeSize, printedIndex, m_llFrameTotal >>

\* EndFrame clears it.
StillIdr == ~m_bPesBeginFlag /\ m_bIFramebeginFlag

\* Adjust_PES_Pakcet from line 806 and the end of ParseH264ES.
BeginFrame(kind) ==
  /\ m_bPesBeginFlag' = TRUE
  /\ m_llFrameNum' = m_llFrameNum + 1
  /\ m_bIFramebeginFlag' = (StillIdr \/ kind = "idr")
  /\ IF kind = "frame" THEN UNCHANGED << m_iFramTotal, printedGop >>
     ELSE m_iFramTotal' = m_llFrameNum' /\ printedGop' = m_llFrameNum' - m_iFramTotal

BeginOther ==
  /\ m_bPesBeginFlag' = FALSE /\ m_bIFramebeginFlag' = StillIdr
  /\ UNCHANGED << m_llFrameNum, m_iFramTotal, printedGop >>

-------------------------------------------------------------------------------
\* The constructor leaves m_llPCR, m_llLastPts and m_iFrameRate alone: they are
\* zero because the meter is the first object main makes, on fresh pages.
Init ==
  /\ stream \in Streams
  /\ m_iPMTPID = 0 /\ m_iPCRPID = 0 /\ m_iVideoPID = 0 /\ m_iAudioPID = 0
  /\ m_iVideoCodeType = 1
  /\ m_llPCR = [ hi |-> 0, lo |-> 0 ] /\ m_llLastPts = 0 /\ m_iFrameRate = 0
  /\ m_bPesBeginFlag = FALSE /\ m_bIFramebeginFlag = FALSE
  /\ m_itsStreamPacketNumber = 0 /\ m_iframesize = 0 /\ m_iIframeSize = 0
  /\ m_llFrameNum = 0 /\ m_llFrameTotal = 0 /\ m_iFramTotal = 0
  /\ printedIndex = -1 /\ printedGop = 0
  /\ undefined = FALSE
  /\ got = "other" /\ head = 4 /\ clock = [ hi |-> 0, lo |-> 0 ]

(* ParseStreamFrame, one action for each way through it. *)

\* A clock on the PID that the PMT says.
OfProgram(p) ==
  p.pcr # NoPcr /\ \E q \in stream : q.table.kind = "pmt" /\ q.table.pcr = p.pid

Given(p) ==
  /\ ~undefined
  /\ head' = p.head
  /\ clock' = IF OfProgram(p) THEN p.pcr ELSE clock
  /\ UNCHANGED stream

Uncounted == UNCHANGED << pidVars, m_iVideoCodeType, m_llPCR, rateVars, frameVars >>

NullPacket(p) ==
  /\ p.pid = NullPID
  /\ Given(p) /\ got' = "other"
  /\ Uncounted /\ UNCHANGED m_itsStreamPacketNumber

\* A packet of the video that begins nothing, or what is taken for one.
Passed(p) == got' = IF p.pid = m_iVideoPID THEN "more" ELSE "other"

\* Lines 1270 and 1288, and 1327: a PAT that does not fit into a packet.
LeftAtOnce(p) ==
  /\ p.pid # NullPID /\ m_itsStreamPacketNumber < MaxMore
  /\ \/ ~p.start
     \/ p.afc = 0
     \/ ReadsPat(p) /\ ~p.table.fits
  /\ Given(p) /\ Passed(p)
  /\ m_itsStreamPacketNumber' = Counted(p)
  /\ Uncounted

Begins(p) ==
  /\ p.pid # NullPID /\ p.start /\ p.afc # 0
  /\ ~(ReadsPat(p) /\ ~p.table.fits)

\* Line 1407.
Empty(p) == HasAdaptation(p) /\ p.head >= PACKET_SIZE

\* Up to line 1412.
PlainStart(p) ==
  /\ Begins(p) /\ m_itsStreamPacketNumber < MaxMore
  /\ Given(p) /\ Passed(p)
  /\ ReadTables(p) /\ ReadClock(p)
  /\ m_iVideoCodeType' = VideoType(p)
  /\ Empty(p) \/ p.pid # m_iVideoPID'
  /\ m_itsStreamPacketNumber' = Counted(p)
  /\ UNCHANGED << rateVars, frameVars >>

\* Lines 1412-1436, with a unit that is not E0 or with a frame.
OtherStart(p) ==
  /\ Begins(p) /\ ~p.pes
  /\ Given(p) /\ got' = "foreign"
  /\ ReadTables(p) /\ ReadClock(p)
  /\ m_iVideoCodeType' = VideoType(p)
  /\ ~Empty(p) /\ p.pid = m_iVideoPID'
  /\ EndFrame(p) /\ BeginOther
  /\ UNCHANGED rateVars

FrameStart(p) ==
  /\ Begins(p) /\ p.pes /\ m_llFrameNum < MaxFrames
  /\ Given(p) /\ got' = Kind(p.codes, VideoType(p))
  /\ ReadTables(p) /\ ReadClock(p)
  /\ ~Empty(p) /\ p.pid = m_iVideoPID'
  /\ m_iVideoCodeType' = IF VideoType(p) \notin {2, 27} /\ LooksMpeg2(p.codes) THEN 2 ELSE VideoType(p)
  /\ EndFrame(p) /\ MeasureRate(p)
  /\ BeginFrame(got')

ParseStreamFrame(p) ==
  NullPacket(p) \/ LeftAtOnce(p) \/ PlainStart(p) \/ OtherStart(p) \/ FrameStart(p)

Next == \E p \in stream : ParseStreamFrame(p)

\* A stream repeats its tables and its video goes on.
Fairness ==
  /\ WF_vars(\E p \in stream : p.table.kind = "pat" /\ ParseStreamFrame(p))
  /\ WF_vars(\E p \in stream : p.table.kind = "pmt" /\ ParseStreamFrame(p))
  /\ WF_vars(\E p \in stream : FrameStart(p))

Spec == Init /\ [][Next]_vars /\ Fairness

-------------------------------------------------------------------------------
(* Properties. *)

TypeInv ==
  /\ stream \in Streams
  /\ \A id \in {m_iPMTPID, m_iPCRPID, m_iVideoPID, m_iAudioPID} : id \in Nat
  /\ m_iVideoCodeType \in {1, 2, 27, 66}
  /\ m_llPCR \in [ hi : -64 .. 63, lo : Nat ] /\ clock \in Pcrs
  /\ m_llLastPts \in Int /\ m_iFrameRate \in 0 .. 30 /\ undefined \in BOOLEAN
  /\ m_bPesBeginFlag \in BOOLEAN /\ m_bIFramebeginFlag \in BOOLEAN
  /\ m_itsStreamPacketNumber \in Nat /\ m_iframesize \in Int /\ m_iIframeSize \in Int
  /\ m_llFrameNum \in Nat /\ m_llFrameTotal \in Nat /\ m_iFramTotal \in Nat
  /\ printedIndex \in Int /\ printedGop \in Nat
  /\ got \in {"other", "more", "foreign", "frame", "gop", "idr"} /\ head \in Nat

\* The logs are those of FrameLog: every frame is logged once, when the next
\* unit of the video begins, with the number after that of the frame before and
\* the size of its own packets, although the flag, the counter of packets (which
\* runs one ahead), the two counters of frames and the mark of the key frame are
\* all updated by the packet of the next frame; and a key frame logs the frames
\* since the last.  What is a key frame is as Kind says, the reading of the
\* parser, which may be wrong of AVS and MPEG-1.
Log == INSTANCE FrameLog WITH
  PacketBytes <- 184, open <- m_bPesBeginFlag, openIdr <- m_bIFramebeginFlag,
  packets <- IF m_bPesBeginFlag THEN m_itsStreamPacketNumber + 1 ELSE m_itsStreamPacketNumber,
  logged <- m_llFrameTotal, index <- printedIndex,
  size <- m_iframesize, keySize <- m_iIframeSize,
  sinceKey <- m_llFrameNum - m_iFramTotal, gop <- printedGop
LogSpec == Log!Spec

Stamps == { p.pts : p \in { q \in stream : q.pes /\ q.pts # -1 } }

\* The time stamps are those of pictures t ticks apart, in any order, and do not
\* begin within a millisecond of zero.
Apart(t) == t >= 90 /\ \A a, b \in Stamps : a >= 90 /\ (a - b) % t = 0

\* The rate that is kept is the true one: frames that are lost or come in the
\* order of decoding make gaps of several periods, or negative ones, but as long
\* as twice the period is below the window of line 773, only neighbours count.
\* (A stream of 30 frames or more a second does not meet the condition: two
\* periods of it are accepted as 15 or more.)
RateTrue ==
  \A a, b \in Stamps :
    Apart(b - a) /\ Rate(2 * (b - a)) < 15 => ~undefined /\ m_iFrameRate \in {0, Rate(b - a)}

\* The clock that the delays are printed against is the last the program sent,
\* if no other PID carries a clock, all come in packets that begin a unit, and
\* the base is below 2^31, which is six hours and a half.
PcrExact ==
  (\A p \in stream : p.pcr # NoPcr => OfProgram(p) /\ p.start /\ p.pid # NullPID /\ p.pcr.hi < 64)
    => m_llPCR = clock

\* One PAT that fits and names first the one PMT, whose video sends frames.
Steady ==
  \E p, q \in stream :
    /\ { r \in stream : r.table.kind # "none" } = {p, q}
    /\ p.table.kind = "pat" /\ p.table.fits /\ p.table.pid = q.pid
    /\ q.table.kind = "pmt"
    /\ \E r \in stream : r.pes /\ r.pid = q.table.video /\ r.start /\ r.afc # 0 /\ ~Empty(r)
    /\ \A a, b \in Stamps : a >= 90 /\ (a < b => b - a >= 90)

\* A steady stream is metered, in whatever order its packets begin to come: the
\* PIDs, of which the first to be read stay, are not taken from anything else.
Metered == Steady => <>(m_llFrameTotal >= 1)
===============================================================================
