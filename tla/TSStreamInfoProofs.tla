-------------------------- MODULE TSStreamInfoProofs ---------------------------
(***************************************************************************)
(* Theorems about TSStreamInfo, for all streams and without bounds on the  *)
(* time stamps, sizes and PIDs: its types, that its logs are those of      *)
(* FrameLog, and that the clock is exact.                                  *)
(***************************************************************************)
EXTENDS TSStreamInfo, TLAPS

\* The actions of Next, by the packet given.
LEMMA StreamStep ==
  ASSUME stream \in Streams, NEW p \in stream
  PROVE  /\ p \in Packets
         /\ (p.pid = 0) <=> (p.table.kind = "pat")
         /\ p.table.kind # "none" => p.head = 4 /\ p.afc = 1 /\ p.start /\ ~p.pes
         /\ p.pcr # NoPcr => p.afc \in {2, 3}
         /\ p.table.kind = "pmt" => p.table.video # p.pid
BY StreamAssumption

\* What a table may say.
LEMMA TableTypes ==
  ASSUME NEW p \in Packets
  PROVE  /\ p.pid \in Nat /\ p.head \in Nat /\ p.pcr \in Pcrs /\ p.pts \in Int /\ p.pes \in BOOLEAN
         /\ p.start \in BOOLEAN /\ p.afc \in 0 .. 3
         /\ p.table.kind = "pat" => p.table \in Pats
         /\ p.table.kind = "pmt" => p.table \in Pmts
<1>1. p.table \in {NoTable} \cup Pats \cup Pmts
  BY DEF Packets
<1>2. NoTable.kind = "none" /\ (\A t \in Pats : t.kind = "pat") /\ (\A t \in Pmts : t.kind = "pmt")
  BY DEF NoTable, Pats, Pmts
<1>3. 0 .. NullPID \subseteq Nat
  BY DEF NullPID
<1> QED
  BY <1>1, <1>2, <1>3, Zenon DEF Packets

\* A shifted clock fits its type, and is the clock itself below 2^31.
LEMMA BaseType ==
  ASSUME NEW c \in Pcrs, c # NoPcr
  PROVE  /\ c.hi \in Int /\ Base(c) \in [ hi : -64 .. 63, lo : Nat ]
         /\ c.hi \in 0 .. 63 => Base(c) = c
BY SMTT(30) DEF Pcrs, NoPcr, Base

\* A rate that is plausible is one of 15 to 30.
LEMMA RateType ==
  ASSUME NEW ticks \in Int, ticks \notin 0 .. 89, Plausible(Rate(ticks))
  PROVE  Rate(ticks) \in 0 .. 30
<1>1. CASE ticks < 0
  BY <1>1 DEF Rate
<1>2. CASE ticks >= 90
  <2>1. ticks \div 90 \in Nat /\ ticks \div 90 > 0
    BY <1>2, SMTT(30)
  <2>2. 1000 \div (ticks \div 90) \in Int
    BY <2>1
  <2> QED
    BY <1>2, <2>2 DEF Rate, Plausible
<1> QED
  BY <1>1, <1>2

\* The kinds of a frame.
LEMMA KindType ==
  ASSUME NEW codes, NEW type
  PROVE  Kind(codes, type) \in {"frame", "gop", "idr"}
BY DEF Kind

-------------------------------------------------------------------------------
(* Types. *)

TablesType ==
  /\ m_iPMTPID \in Nat /\ m_iPCRPID \in Nat /\ m_iVideoPID \in Nat /\ m_iAudioPID \in Nat
  /\ m_iVideoCodeType \in {1, 2, 27, 66}

ClockType ==
  m_llPCR \in [ hi : -64 .. 63, lo : Nat ] /\ clock \in Pcrs

RateVarsType ==
  m_llLastPts \in Int /\ m_iFrameRate \in 0 .. 30 /\ undefined \in BOOLEAN

FrameType ==
  /\ m_bPesBeginFlag \in BOOLEAN /\ m_bIFramebeginFlag \in BOOLEAN
  /\ m_itsStreamPacketNumber \in Nat /\ m_iframesize \in Int /\ m_iIframeSize \in Int
  /\ m_llFrameNum \in Nat /\ m_llFrameTotal \in Nat /\ m_iFramTotal \in Nat
  /\ printedIndex \in Int /\ m_iFramTotal <= m_llFrameNum /\ printedGop \in Nat

ObserverType ==
  got \in {"other", "more", "foreign", "frame", "gop", "idr"} /\ head \in Nat

TInv ==
  stream \in Streams /\ TablesType /\ ClockType /\ RateVarsType /\ FrameType /\ ObserverType

\* Reading tables keeps the types of the PIDs.
LEMMA TablesKeep ==
  ASSUME TInv, NEW p \in stream, ReadTables(p)
  PROVE  /\ m_iPMTPID' \in Nat /\ m_iPCRPID' \in Nat /\ m_iVideoPID' \in Nat /\ m_iAudioPID' \in Nat
         /\ VideoType(p) \in {1, 2, 27, 66}
<1>1. p \in Packets
  BY StreamStep DEF TInv
<1>2. CASE ReadsPat(p)
  <2>1. p.table \in Pats
    BY <1>1, <1>2, TableTypes DEF ReadsPat
  <2> QED
    BY <1>2, <2>1 DEF TInv, TablesType, ReadTables, ReadsPmt, VideoType, Pats, pidVars
<1>3. CASE ReadsPmt(p)
  <2>1. p.table \in Pmts
    BY <1>1, <1>3, TableTypes DEF ReadsPmt
  <2> QED
    BY <1>3, <2>1 DEF TInv, TablesType, ReadTables, ReadsPmt, VideoType, Pmts, pidVars
<1>4. CASE ~ReadsPat(p) /\ ~ReadsPmt(p)
  BY <1>4 DEF TInv, TablesType, ReadTables, VideoType, pidVars
<1> QED
  BY <1>2, <1>3, <1>4

\* Reading the clock keeps its type.
LEMMA ClockKeeps ==
  ASSUME TInv, NEW p \in stream, ReadClock(p), Given(p)
  PROVE  ClockType'
<1>1. p \in Packets /\ p.pcr \in Pcrs
  BY StreamStep, TableTypes DEF TInv
<1>2. p.pcr # NoPcr => Base(p.pcr) \in [ hi : -64 .. 63, lo : Nat ]
  BY <1>1, BaseType
<1> QED
  BY <1>1, <1>2 DEF TInv, ClockType, ReadClock, Given

\* Counting a packet.
LEMMA CountType ==
  ASSUME TInv, NEW p
  PROVE  Counted(p) \in Nat
BY DEF TInv, FrameType, Counted

\* Measuring the rate keeps the types.
LEMMA RateKeeps ==
  ASSUME TInv, NEW p \in Packets, MeasureRate(p)
  PROVE  RateVarsType'
<1> DEFINE ticks == p.pts - m_llLastPts
<1>1. p.pts \in Int /\ ticks \in Int
  BY TableTypes DEF TInv, RateVarsType
<1>2. ticks \notin 0 .. 89 /\ Plausible(Rate(ticks)) => Rate(ticks) \in 0 .. 30
  BY <1>1, RateType
<1>3. CASE p.pts = -1 \/ ticks = 0
  BY <1>3 DEF TInv, RateVarsType, MeasureRate, rateVars
<1>4. CASE p.pts # -1 /\ ticks # 0 /\ ticks \in 1 .. 89
  BY <1>4 DEF TInv, RateVarsType, MeasureRate
<1>5. CASE p.pts # -1 /\ ticks # 0 /\ ticks \notin 1 .. 89
  <2>1. ticks \notin 0 .. 89
    BY <1>1, <1>5
  <2> HIDE DEF ticks
  <2>2. m_llLastPts' = p.pts /\ UNCHANGED undefined
        /\ m_iFrameRate' = IF Plausible(Rate(ticks)) THEN Rate(ticks) ELSE m_iFrameRate
    BY <1>5 DEF MeasureRate, ticks
  <2> QED
    BY <1>1, <1>2, <2>1, <2>2 DEF TInv, RateVarsType
<1> QED
  BY <1>3, <1>4, <1>5

\* Ending a frame keeps the types.
LEMMA EndKeeps ==
  ASSUME TInv, NEW p \in Packets, EndFrame(p)
  PROVE  /\ m_itsStreamPacketNumber' \in Nat /\ m_iframesize' \in Int /\ m_iIframeSize' \in Int
         /\ m_llFrameTotal' \in Nat /\ printedIndex' \in Int
<1>1. Counted(p) \in Nat /\ p.head \in Nat
  BY CountType, TableTypes
<1> QED
  BY <1>1 DEF TInv, FrameType, EndFrame

\* Every step keeps the types.
LEMMA TStep ==
  ASSUME TInv, [Next]_vars
  PROVE  TInv'
<1>1. CASE UNCHANGED vars
  BY <1>1 DEF TInv, TablesType, ClockType, RateVarsType, FrameType, ObserverType,
              vars, pidVars, rateVars, frameVars
<1>2. ASSUME NEW p \in stream, ParseStreamFrame(p) PROVE TInv'
  <2>1. p \in Packets /\ p.head \in Nat /\ p.pcr \in Pcrs /\ Counted(p) \in Nat
    BY StreamStep, TableTypes, CountType DEF TInv
  <2>2. CASE NullPacket(p) \/ LeftAtOnce(p)
    <3>1. got' \in {"other", "more"}
      BY <2>2 DEF NullPacket, LeftAtOnce, Passed
    <3>2. m_itsStreamPacketNumber' \in Nat
      BY <2>1, <2>2 DEF NullPacket, LeftAtOnce, TInv, FrameType
    <3>3. Given(p) /\ Uncounted
      BY <2>2 DEF NullPacket, LeftAtOnce
    <3> QED
      BY <2>1, <3>1, <3>2, <3>3 DEF Given, Uncounted, TInv, TablesType, ClockType, RateVarsType,
         FrameType, ObserverType, pidVars, rateVars, frameVars
  <2>3. CASE PlainStart(p)
    <3>1. ClockType' /\ TablesType'
      BY <2>3, ClockKeeps, TablesKeep DEF PlainStart, TablesType
    <3> QED
      BY <2>1, <2>3, <3>1 DEF PlainStart, Given, Passed, TInv, RateVarsType,
         FrameType, ObserverType, rateVars, frameVars
  <2>4. CASE OtherStart(p)
    <3>1. ClockType' /\ TablesType'
      BY <2>4, ClockKeeps, TablesKeep DEF OtherStart, TablesType
    <3>2. FrameType'
      <4>1. EndFrame(p) /\ BeginOther
        BY <2>4 DEF OtherStart
      <4> QED
        BY <2>1, <4>1, EndKeeps DEF BeginOther, StillIdr, TInv, FrameType
    <3> QED
      BY <2>1, <2>4, <3>1, <3>2 DEF OtherStart, Given, TInv, RateVarsType, ObserverType, rateVars
  <2>5. CASE FrameStart(p)
    <3>1. ClockType' /\ TablesType'
      BY <2>5, ClockKeeps, TablesKeep DEF FrameStart, TablesType
    <3>2. RateVarsType'
      BY <2>1, <2>5, RateKeeps DEF FrameStart
    <3>3. FrameType'
      <4>1. EndFrame(p) /\ BeginFrame(got')
        BY <2>5 DEF FrameStart
      <4>2. /\ m_llFrameNum' = m_llFrameNum + 1 /\ m_bPesBeginFlag' = TRUE /\ m_bIFramebeginFlag' \in BOOLEAN
            /\ \/ m_iFramTotal' = m_iFramTotal /\ printedGop' = printedGop
               \/ m_iFramTotal' = m_llFrameNum' /\ printedGop' = m_llFrameNum' - m_iFramTotal
        BY <4>1 DEF BeginFrame, StillIdr, TInv, FrameType
      <4> QED
        BY <2>1, <4>1, <4>2, EndKeeps DEF TInv, FrameType
    <3>4. got' \in {"frame", "gop", "idr"}
      BY <2>5, KindType DEF FrameStart
    <3> QED
      BY <2>1, <2>5, <3>1, <3>2, <3>3, <3>4 DEF FrameStart, Given, TInv, ObserverType
  <2> QED
    BY <1>2, <2>2, <2>3, <2>4, <2>5 DEF ParseStreamFrame
<1> QED
  BY <1>1, <1>2 DEF Next

\* The types at the beginning.
LEMMA ParserInit == Init => TInv
<1> SUFFICES ASSUME Init PROVE TInv
  OBVIOUS
<1>1. ClockType
  <2>1. m_llPCR = [ hi |-> 0, lo |-> 0 ] /\ clock = [ hi |-> 0, lo |-> 0 ]
    BY DEF Init
  <2> QED
    BY <2>1 DEF ClockType, Pcrs
<1>2. /\ m_bPesBeginFlag \in BOOLEAN /\ m_bIFramebeginFlag \in BOOLEAN
      /\ m_itsStreamPacketNumber = 0 /\ m_iframesize = 0 /\ m_iIframeSize = 0
      /\ m_llFrameNum = 0 /\ m_llFrameTotal = 0 /\ m_iFramTotal = 0
      /\ printedIndex = -1 /\ printedGop = 0
  BY Zenon DEF Init
<1>3. FrameType
  BY <1>2 DEF FrameType
<1>4. TablesType
  <2>1. m_iPMTPID = 0 /\ m_iPCRPID = 0 /\ m_iVideoPID = 0 /\ m_iAudioPID = 0 /\ m_iVideoCodeType = 1
    BY Zenon DEF Init
  <2> QED
    BY <2>1 DEF TablesType
<1>5. RateVarsType
  <2>1. m_llLastPts = 0 /\ m_iFrameRate = 0 /\ undefined \in BOOLEAN
    BY Zenon DEF Init
  <2> QED
    BY <2>1 DEF RateVarsType
<1>6. stream \in Streams /\ got = "other" /\ head = 4
  BY Zenon DEF Init
<1> QED
  BY <1>1, <1>3, <1>4, <1>5, <1>6 DEF TInv, ObserverType

\* PIDs, clock, rate, counters and logs keep their types, whatever packets that
\* meet StreamAssumption a stream is made of.
THEOREM ParserTypeCorrect == Spec => []TypeInv
<1>1. Init => TInv
  BY ParserInit
<1>2. TInv => TypeInv
  BY DEF TInv, TablesType, ClockType, RateVarsType, FrameType, ObserverType, TypeInv
<1> QED
  BY <1>1, <1>2, TStep, PTL DEF Spec

-------------------------------------------------------------------------------
(***************************************************************************)
(* The logs.  A packet that begins a unit of the video is counted for the  *)
(* frame before, so that the counter is one behind the packets while a     *)
(* frame is open; and the two counters of frames differ by the open one.   *)
(***************************************************************************)

LogInv ==
  /\ m_llFrameNum = m_llFrameTotal + (IF m_bPesBeginFlag THEN 1 ELSE 0)
  /\ m_bIFramebeginFlag => m_bPesBeginFlag
  /\ ~m_bPesBeginFlag => m_itsStreamPacketNumber = 0

\* A packet that begins a unit of the video was counted: the table that first
\* says that its PID is the video's is not on that PID.
LEMMA StartIsCounted ==
  ASSUME TInv, NEW p \in stream, ReadTables(p), p.pid = m_iVideoPID'
  PROVE  p.pid = m_iVideoPID
<1>1. p.table.kind = "pmt" => p.table.video # p.pid
  BY StreamStep DEF TInv
<1>2. CASE ReadsPmt(p) /\ ~ReadsPat(p)
  BY <1>1, <1>2 DEF ReadTables, ReadsPmt
<1>3. CASE ~ReadsPmt(p) \/ ReadsPat(p)
  BY <1>3 DEF ReadTables, pidVars, ReadsPmt
<1> QED
  BY <1>2, <1>3

\* Ending a frame, as FrameLog does it.
LEMMA EndIsLogged ==
  ASSUME TInv, LogInv, NEW p \in Packets, EndFrame(p), p.pid = m_iVideoPID, head' = p.head
  PROVE  /\ Log!End
         /\ m_itsStreamPacketNumber' = 0
         /\ m_llFrameTotal' = m_llFrameNum
<1>1. CASE m_bPesBeginFlag
  <2>1. Counted(p) = m_itsStreamPacketNumber + 1
    BY <1>1 DEF Counted
  <2> QED
    BY <1>1, <2>1 DEF EndFrame, Log!End, LogInv, TInv, FrameType
<1>2. CASE ~m_bPesBeginFlag
  <2>1. Counted(p) = 0
    BY <1>2 DEF Counted, LogInv
  <2> QED
    BY <1>2, <2>1 DEF EndFrame, Log!End, LogInv, TInv, FrameType
<1> QED
  BY <1>1, <1>2

\* Every step is one of FrameLog and keeps the relation of the counters.
LEMMA LogStep ==
  ASSUME TInv, LogInv, [Next]_vars
  PROVE  LogInv' /\ [Log!Next]_(Log!vars)
<1>1. CASE UNCHANGED vars
  BY <1>1 DEF LogInv, Log!vars, vars, frameVars
<1>2. ASSUME NEW p \in stream, ParseStreamFrame(p) PROVE LogInv' /\ Log!Next
  <2>0. p \in Packets
    BY StreamStep DEF TInv
  <2>1. ASSUME got' = "other", Counted(p) = m_itsStreamPacketNumber \/ p.pid # m_iVideoPID,
               m_itsStreamPacketNumber' = m_itsStreamPacketNumber, UNCHANGED frameVars
        PROVE  LogInv' /\ Log!Other
    BY <2>1 DEF LogInv, Log!Other, frameVars
  <2>2. ASSUME Passed(p), m_itsStreamPacketNumber' = Counted(p), UNCHANGED frameVars
        PROVE  LogInv' /\ Log!Next
    <3>1. CASE p.pid = m_iVideoPID
      BY <2>2, <3>1 DEF Passed, Counted, LogInv, Log!More, Log!Next, TInv, FrameType, frameVars
    <3>2. CASE p.pid # m_iVideoPID
      BY <2>1, <2>2, <3>2 DEF Passed, Counted, Log!Next
    <3> QED
      BY <3>1, <3>2
  <2>3. CASE NullPacket(p)
    <3>1. got' = "other" /\ m_itsStreamPacketNumber' = m_itsStreamPacketNumber /\ UNCHANGED frameVars
      BY <2>3 DEF NullPacket, Uncounted
    <3> QED
      BY <3>1 DEF LogInv, Log!Other, Log!Next, frameVars
  <2>4. CASE LeftAtOnce(p)
    BY <2>2, <2>4 DEF LeftAtOnce, Uncounted
  <2>5. CASE PlainStart(p)
    BY <2>2, <2>5 DEF PlainStart
  <2>6. ASSUME EndFrame(p), head' = p.head, p.pid = m_iVideoPID
        PROVE  Log!End /\ m_itsStreamPacketNumber' = 0 /\ m_llFrameTotal' = m_llFrameNum
    BY <2>0, <2>6, EndIsLogged
  <2>7. CASE OtherStart(p)
    <3>1. EndFrame(p) /\ BeginOther /\ got' = "foreign" /\ head' = p.head /\ ReadTables(p) /\ p.pid = m_iVideoPID'
      BY <2>7 DEF OtherStart, Given
    <3>2. Log!End /\ m_itsStreamPacketNumber' = 0 /\ m_llFrameTotal' = m_llFrameNum
      BY <2>6, <3>1, StartIsCounted
    <3>3. ~m_bPesBeginFlag' /\ ~m_bIFramebeginFlag' /\ m_bIFramebeginFlag' \in BOOLEAN /\ m_bPesBeginFlag' = FALSE
          /\ UNCHANGED << m_llFrameNum, m_iFramTotal, printedGop >>
      BY <3>1 DEF BeginOther, StillIdr, LogInv
    <3>4. LogInv'
      BY <3>2, <3>3 DEF LogInv, TInv, FrameType
    <3>5. Log!Begin
      BY <3>1, <3>2, <3>3 DEF Log!Begin, Log!Begins
    <3> QED
      BY <3>4, <3>5 DEF Log!Next
  <2>8. CASE FrameStart(p)
    <3>1. /\ EndFrame(p) /\ BeginFrame(got') /\ head' = p.head /\ ReadTables(p) /\ p.pid = m_iVideoPID'
          /\ got' = Kind(p.codes, VideoType(p))
      BY <2>8 DEF FrameStart, Given
    <3>2. Log!End /\ m_itsStreamPacketNumber' = 0 /\ m_llFrameTotal' = m_llFrameNum
      BY <2>6, <3>1, StartIsCounted
    <3>3. got' \in {"frame", "gop", "idr"}
      BY <3>1, KindType
    <3>4. /\ m_bPesBeginFlag' = TRUE /\ m_llFrameNum' = m_llFrameNum + 1
          /\ m_bIFramebeginFlag' = (got' = "idr")
          /\ IF got' = "frame" THEN UNCHANGED << m_iFramTotal, printedGop >>
             ELSE m_iFramTotal' = m_llFrameNum' /\ printedGop' = m_llFrameNum' - m_iFramTotal
      BY <3>1 DEF BeginFrame, StillIdr, LogInv
    <3>5. LogInv'
      BY <3>2, <3>4 DEF LogInv, TInv, FrameType
    <3>6. Log!Begin
      <4>1. got' \in Log!Begins /\ got' # "foreign"
        BY <3>3 DEF Log!Begins
      <4>2. m_itsStreamPacketNumber' + 1 = 1
        BY <3>2
      <4>3. CASE got' = "frame"
        <5>1. m_llFrameNum' - m_iFramTotal' = (m_llFrameNum - m_iFramTotal) + 1
          BY <3>4, <4>3 DEF TInv, FrameType
        <5> QED
          BY <3>2, <3>4, <4>1, <4>2, <4>3, <5>1 DEF Log!Begin
      <4>4. CASE got' # "frame"
        <5>1. m_llFrameNum' - m_iFramTotal' = 0 /\ printedGop' = (m_llFrameNum - m_iFramTotal) + 1
          BY <3>4, <4>4 DEF TInv, FrameType
        <5> QED
          BY <3>2, <3>4, <4>1, <4>2, <4>4, <5>1 DEF Log!Begin
      <4> QED
        BY <4>3, <4>4
    <3> QED
      BY <3>5, <3>6 DEF Log!Next
  <2> QED
    BY <1>2, <2>3, <2>4, <2>5, <2>7, <2>8 DEF ParseStreamFrame
<1> QED
  BY <1>1, <1>2 DEF Next

\* Every frame is logged once, when the next unit begins, with its own number,
\* packets and kind, and every key frame with the frames since the last: the
\* parser implements FrameLog, for any packets that meet StreamAssumption, in any
\* order.  The kind is what the parser reads (Kind); that no other packet than the
\* first of a unit begins a frame, and that a PMT does not come on the PID of its
\* own video, is what the assumption is for.
THEOREM LogsAreFrameLog == Spec => LogSpec
<1>1. Init => TInv
  BY ParserInit
<1>2. Init => LogInv /\ Log!Init
  BY DEF Init, LogInv, Log!Init
<1> QED
  BY <1>1, <1>2, TStep, LogStep, PTL DEF Spec, LogSpec, Log!Spec

-------------------------------------------------------------------------------
(* The clock. *)

\* Every step keeps the clock exact.
LEMMA ClockStep ==
  ASSUME TInv, PcrExact, [Next]_vars
  PROVE  PcrExact'
<1>0. stream' = stream
  BY DEF Next, ParseStreamFrame, NullPacket, LeftAtOnce, PlainStart, OtherStart, FrameStart, Given, vars
<1> SUFFICES ASSUME \A q \in stream : q.pcr # NoPcr => OfProgram(q) /\ q.start /\ q.pid # NullPID /\ q.pcr.hi < 64
             PROVE  m_llPCR' = clock'
  BY <1>0 DEF PcrExact, OfProgram
<1>1. m_llPCR = clock
  BY DEF PcrExact
<1>2. CASE UNCHANGED vars
  BY <1>1, <1>2 DEF vars
<1>3. ASSUME NEW p \in stream, ParseStreamFrame(p) PROVE m_llPCR' = clock'
  <2>1. p \in Packets /\ p.pcr \in Pcrs /\ p.start \in BOOLEAN
        /\ (p.table.kind # "none" => p.afc = 1) /\ (p.pcr # NoPcr => p.afc \in {2, 3})
    BY StreamStep, TableTypes DEF TInv
  <2>2. CASE p.pcr = NoPcr
    <3>1. clock' = clock
      BY <1>3, <2>2 DEF ParseStreamFrame, NullPacket, LeftAtOnce, PlainStart, OtherStart, FrameStart, Given, OfProgram
    <3>2. m_llPCR' = m_llPCR
      BY <1>3, <2>2 DEF ParseStreamFrame, NullPacket, LeftAtOnce, PlainStart, OtherStart, FrameStart,
         Uncounted, ReadClock
    <3> QED
      BY <1>1, <3>1, <3>2
  <2>3. CASE p.pcr # NoPcr
    <3>1. OfProgram(p) /\ p.start /\ p.pid # NullPID /\ p.pcr.hi < 64 /\ p.afc \in {2, 3}
      BY <2>1, <2>3
    <3>2. p.table.kind # "pat"
      BY <2>1, <3>1
    <3>3. ~NullPacket(p) /\ ~LeftAtOnce(p)
      BY <3>1, <3>2 DEF NullPacket, LeftAtOnce, ReadsPat
    <3>4. ReadClock(p) /\ Given(p)
      BY <1>3, <3>3 DEF ParseStreamFrame, PlainStart, OtherStart, FrameStart
    <3>5. p.pcr.hi \in 0 .. 63
      BY <2>1, <2>3, <3>1 DEF Pcrs
    <3>6. Base(p.pcr) = p.pcr
      BY <2>1, <2>3, <3>5, BaseType
    <3> QED
      BY <2>3, <3>1, <3>4, <3>6 DEF ReadClock, HasAdaptation, Given
  <2> QED
    BY <2>2, <2>3
<1> QED
  BY <1>2, <1>3 DEF Next

\* The delays are printed against the last clock the program sent, as long as
\* the clocks come where the parser looks for them and below 2^31.
THEOREM ClockIsExact == Spec => []PcrExact
<1>1. Init => PcrExact
  BY DEF Init, PcrExact
<1> QED
  BY <1>1, ParserInit, TStep, ClockStep, PTL DEF Spec

-------------------------------------------------------------------------------
(* The frame rate. *)

\* A multiple of t that is more than t is at least two of it.
LEMMA NextMultiple ==
  ASSUME NEW t \in Nat, t > 0, NEW d \in Nat, d > 0, d % t = 0, d # t
  PROVE  d >= 2 * t
<1>1. d < t => d % t = d
  BY SMTT(30)
<1>2. d >= t /\ d < 2 * t => d % t = d - t
  BY SMTT(30)
<1> QED
  BY <1>1, <1>2

\* A quotient does not grow with its divisor.
LEMMA QuotientFalls ==
  ASSUME NEW m \in Nat, NEW n \in Nat, n > 0, m >= n
  PROVE  1000 \div m <= 1000 \div n
<1> DEFINE q == 1000 \div m
           r == 1000 \div n
<1>1. q \in Nat /\ r \in Nat
  BY SMTT(30)
<1>2. m * q <= 1000
  BY SMTT(30)
<1>3. 1000 < n * (r + 1)
  BY SMTT(30)
<1> HIDE DEF q, r
<1>4. CASE q > r
  <2>1. n * (r + 1) <= n * q
    BY <1>1, <1>4, SMTT(30)
  <2>2. n * q <= m * q
    BY <1>1, SMTT(30)
  <2> QED
    BY <2>1, <2>2, <1>1, <1>2, <1>3
<1> QED
  BY <1>1, <1>4 DEF q, r

\* Of more ticks the rate is less.
LEMMA RateFalls ==
  ASSUME NEW t \in Nat, t >= 90, NEW d \in Nat, d >= 2 * t
  PROVE  Rate(d) <= Rate(2 * t)
<1>1. d \div 90 >= (2 * t) \div 90 /\ d \div 90 \in Nat /\ (2 * t) \div 90 \in Nat /\ (2 * t) \div 90 > 0
  BY SMTT(30)
<1>2. 1000 \div (d \div 90) <= 1000 \div ((2 * t) \div 90)
  BY <1>1, QuotientFalls
<1> QED
  BY <1>2 DEF Rate

\* Measuring between pictures t ticks apart, one of which may be a step back.
LEMMA RateMeasured ==
  ASSUME TInv, m_llLastPts \in {0} \cup Stamps,
         NEW t \in Int, Apart(t), Rate(2 * t) < 15, ~undefined, m_iFrameRate \in {0, Rate(t)},
         NEW p \in stream, p.pes, MeasureRate(p)
  PROVE  ~undefined' /\ m_iFrameRate' \in {0, Rate(t)}
<1> DEFINE ticks == p.pts - m_llLastPts
<1>0. p \in Packets /\ p.pts \in Int /\ ticks \in Int /\ t \in Nat /\ t >= 90 /\ m_llLastPts \in Int
  BY StreamStep, TableTypes DEF TInv, RateVarsType, Apart
<1>1. CASE p.pts = -1 \/ ticks = 0
  BY <1>1 DEF MeasureRate, rateVars
<1>2. CASE p.pts # -1 /\ ticks # 0
  <2>1. p.pts \in Stamps
    BY <1>2 DEF Stamps
  <2>2. CASE m_llLastPts = 0
    <3>1. ticks >= 90
      BY <1>0, <2>1, <2>2 DEF Apart
    <3>2. ~Plausible(Rate(ticks))
      BY <2>2 DEF Plausible
    <3> QED
      BY <1>0, <1>2, <3>1, <3>2 DEF MeasureRate
  <2>3. CASE m_llLastPts \in Stamps
    <3>1. ticks % t = 0
      BY <2>1, <2>3 DEF Apart
    <3>2. CASE ticks < 0
      <4>1. ~Plausible(Rate(ticks))
        BY <1>0, <3>2 DEF Plausible, Rate
      <4> QED
        BY <1>0, <1>2, <3>2, <4>1 DEF MeasureRate
    <3>3. CASE ticks = t
      BY <1>0, <1>2, <3>3 DEF MeasureRate
    <3>4. CASE ticks > 0 /\ ticks # t
      <4> HIDE DEF ticks
      <4>1. ticks \in Nat /\ ticks >= 2 * t
        BY <1>0, <3>1, <3>4, NextMultiple
      <4>2. Rate(ticks) <= Rate(2 * t)
        BY <1>0, <4>1, RateFalls
      <4>3. Rate(ticks) \in Int /\ Rate(2 * t) \in Int
        <5>1. ticks \div 90 \in Nat /\ ticks \div 90 > 0 /\ (2 * t) \div 90 \in Nat /\ (2 * t) \div 90 > 0
          BY <1>0, <4>1, SMTT(30)
        <5> QED
          BY <1>0, <4>1, <5>1 DEF Rate
      <4>4. ~Plausible(Rate(ticks))
        BY <4>2, <4>3 DEF Plausible
      <4>5. ticks \notin 1 .. 89
        BY <1>0, <4>1
      <4> QED
        BY <1>2, <4>4, <4>5 DEF MeasureRate, ticks
    <3> QED
      BY <1>0, <1>2, <3>2, <3>3, <3>4
  <2> QED
    BY <2>2, <2>3
<1> QED
  BY <1>1, <1>2

RateInv == RateTrue /\ m_llLastPts \in {0} \cup Stamps

\* Every step keeps the rate true.
LEMMA RateStep ==
  ASSUME TInv, RateInv, [Next]_vars
  PROVE  RateInv'
<1>0. stream' = stream /\ Stamps' = Stamps
  BY DEF Next, ParseStreamFrame, NullPacket, LeftAtOnce, PlainStart, OtherStart, FrameStart, Given, vars, Stamps
<1>1. CASE UNCHANGED rateVars
  BY <1>0, <1>1 DEF RateInv, RateTrue, Apart, rateVars
<1>2. ASSUME NEW p \in stream, FrameStart(p) PROVE RateInv'
  <2>1. p.pes /\ MeasureRate(p) /\ ~undefined
    BY <1>2 DEF FrameStart, Given
  <2>2. m_llLastPts' \in {0} \cup Stamps
    BY <2>1 DEF MeasureRate, rateVars, RateInv, Stamps
  <2>3. ASSUME NEW a \in Stamps, NEW b \in Stamps, Apart(b - a), Rate(2 * (b - a)) < 15
        PROVE  ~undefined' /\ m_iFrameRate' \in {0, Rate(b - a)}
    <3>1. b - a \in Int
      BY StreamStep, TableTypes DEF Stamps, TInv
    <3> QED
      BY <2>1, <2>3, <3>1, RateMeasured DEF RateInv, RateTrue
  <2> QED
    BY <1>0, <2>2, <2>3 DEF RateInv, RateTrue, Apart
<1>3. ASSUME NEW p \in stream, ParseStreamFrame(p), ~FrameStart(p) PROVE UNCHANGED rateVars
  BY <1>3 DEF ParseStreamFrame, NullPacket, LeftAtOnce, PlainStart, OtherStart, Uncounted
<1> QED
  BY <1>1, <1>2, <1>3 DEF Next, vars

\* However frames are lost or reordered, the rate that is kept is that of
\* neighbours, if two periods fall out of the window.
THEOREM RateIsTrue == Spec => []RateTrue
<1>1. Init => RateInv
  BY DEF Init, RateInv, RateTrue
<1>2. RateInv => RateTrue
  BY DEF RateInv
<1> QED
  BY <1>1, <1>2, ParserInit, TStep, RateStep, PTL DEF Spec
===============================================================================
