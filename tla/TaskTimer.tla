------------------------------- MODULE TaskTimer -------------------------------
(***************************************************************************)
(* The timer service of Switch_Config (TaskTimer.cpp on Thread.cpp): a list *)
(* of timers ordered by expiry date, a thread that calls the handlers that *)
(* are due, and a user that registers and removes timers, and in the end   *)
(* stops, awaits and destroys the service.                                 *)
(*                                                                         *)
(* The list is guarded by m_mutex, but process_timeout takes a timer that  *)
(* has to fire again out of it and puts it back without the mutex, so that *)
(* its search for the place and its insertion are two steps.  signal() sets *)
(* the flag of the condition without the condition's mutex: it may fall    *)
(* between the waiter's test of the flag and its sleep.                    *)
(*                                                                         *)
(* A timer is the number of its registration, which is also its mTimerId:  *)
(* the calls of registerTimer come one at a time.  A date is a second.     *)
(***************************************************************************)
EXTENDS SequencesExt, Integers

CONSTANTS
  MaxTimers,     (* bound: timers that are ever registered                 *)
  MaxTime,       (* bound: the clock stops here                            *)
  Dates,         (* dates at which a timer may be asked to fire first      *)
  Counts,        (* how often; a count below 1 still fires once            *)
  Intervals,     (* seconds between                                        *)
  Envs           (* what the user does, each a subset of {"cancel", "end"}  *)

ASSUME TaskTimerAssumption ==
  /\ MaxTimers \in Nat /\ MaxTime \in Nat
  /\ Dates \subseteq Nat /\ Counts \subseteq Int /\ Intervals \subseteq Nat
  /\ Envs \subseteq SUBSET {"cancel", "end"}

VARIABLES
  env, clock,
  m_lstHanders,                           (* the list                      *)
  mExpire_Date, mLeftCount, mInterval,    (* the timers                    *)
  m_bExit, m_bSignaled, m_mutex,          (* m_mutex: the user holds it    *)
  tpc, tmp_lst, now, nextsec, titer, deadline,   (* the timer thread       *)
  upc, uiter, registered,                 (* the user                      *)
  first, asked, fired, closed,            (* history: as ordered, as done  *)
  overtaken,                              (* history: an insertion met the unlocked one *)
  crashed                                 (* a dead node or object was used *)

timerVars == << mExpire_Date, mLeftCount, mInterval >>
conditionVars == << m_bExit, m_bSignaled, m_mutex >>
threadVars == << tpc, tmp_lst, now, nextsec, titer, deadline >>
userVars == << upc, uiter, registered >>
historyVars == << first, asked, fired, closed, overtaken, crashed >>
vars == << env, clock, m_lstHanders, timerVars, conditionVars, threadVars, userVars, historyVars >>

Timers == 1 .. MaxTimers

\* Iterators: a node is named by its timer.
End == 0          \* end()
PushFront == -1  \* the list was seen empty: push_front

Init ==
  /\ env \in Envs /\ clock = 0
  /\ m_lstHanders = << >>
  /\ mExpire_Date = [ i \in Timers |-> 0 ] /\ mLeftCount = [ i \in Timers |-> 0 ]
  /\ mInterval = [ i \in Timers |-> 0 ]
  /\ m_bExit = FALSE /\ m_bSignaled = FALSE /\ m_mutex = FALSE
  /\ tpc = "test" /\ tmp_lst = << >> /\ now = 0 /\ nextsec = 0 /\ titer = End /\ deadline = 0
  /\ upc = "idle" /\ uiter = End /\ registered = 0
  /\ first = [ i \in Timers |-> 0 ] /\ asked = [ i \in Timers |-> 0 ]
  /\ fired = [ i \in Timers |-> 0 ] /\ closed = [ i \in Timers |-> 0 ]
  /\ overtaken = FALSE /\ crashed = FALSE

Tick ==
  /\ clock < MaxTime
  /\ clock' = clock + 1
  /\ UNCHANGED << env, m_lstHanders, timerVars, conditionVars, threadVars, userVars, historyVars >>

-------------------------------------------------------------------------------
(***************************************************************************)
(* pushTimer.                                                              *)
(***************************************************************************)

\* Where the search of pushTimer for timer i stops.
Search_Append(i) == IF m_lstHanders = << >> THEN PushFront ELSE End

Search(i) ==
  LET later == { k \in DOMAIN m_lstHanders : mExpire_Date[m_lstHanders[k]] >= mExpire_Date[i] }
  IN  IF m_lstHanders = << >> THEN PushFront
      ELSE IF later = {} THEN End
      ELSE m_lstHanders[Min(later)]

\* The node an iterator points to is in the list.
Valid(it) == it \in {End, PushFront} \cup ToSet(m_lstHanders)

Inserted(i, it) ==
  IF it = PushFront THEN << i >> \o m_lstHanders
  ELSE IF it = End THEN Append(m_lstHanders, i)
  ELSE InsertAt(m_lstHanders, CHOOSE k \in DOMAIN m_lstHanders : m_lstHanders[k] = it, i)

\* The insertion before a node, which may be a dead one, and the first half of
\* signal(): the flag.
Insert_NoFlag(i, it) ==
  /\ m_lstHanders' = IF Valid(it) THEN Inserted(i, it) ELSE m_lstHanders
  /\ crashed' = ~Valid(it)
  /\ UNCHANGED m_bSignaled

Insert(i, it) ==
  /\ m_lstHanders' = IF Valid(it) THEN Inserted(i, it) ELSE m_lstHanders
  /\ crashed' = ~Valid(it)
  /\ m_bSignaled' = TRUE

\* Both threads are between search and insertion.
Overlap == tpc = "insert" /\ upc = "insert"

-------------------------------------------------------------------------------
(***************************************************************************)
(* The timer thread.                                                       *)
(***************************************************************************)

RunTest_Forever ==
  /\ tpc = "test"
  /\ tpc' = "process"
  /\ nextsec' = 0
  /\ UNCHANGED << env, clock, m_lstHanders, timerVars, conditionVars, tmp_lst, now, titer, deadline,
                  userVars, historyVars >>

RunTest ==
  /\ tpc = "test"
  /\ tpc' = IF m_bExit THEN "exit" ELSE "process"
  /\ nextsec' = 0
  /\ UNCHANGED << env, clock, m_lstHanders, timerVars, conditionVars, tmp_lst, now, titer, deadline,
                  userVars, historyVars >>

\* The loop of process_timeout ends: nothing there, which the head of the loop
\* sees without the mutex, or nothing due.
ProcessEnd ==
  /\ tpc = "process"
  /\ \/ m_lstHanders = << >> /\ UNCHANGED << now, nextsec >>
     \/ /\ ~m_mutex /\ m_lstHanders # << >>
        /\ mExpire_Date[Head(m_lstHanders)] > clock
        /\ now' = clock
        /\ nextsec' = mExpire_Date[Head(m_lstHanders)] - clock
  /\ tpc' = "repush"
  /\ UNCHANGED << env, clock, m_lstHanders, timerVars, conditionVars, tmp_lst, titer, deadline,
                  userVars, historyVars >>

Fire_KeepDate(i, ret) ==
  /\ fired' = [ fired EXCEPT ![i] = @ + 1 ]
  /\ mLeftCount' = [ mLeftCount EXCEPT ![i] = @ - 1 ]
  /\ IF mLeftCount[i] - 1 <= 0 \/ ret < 0
     THEN closed' = [ closed EXCEPT ![i] = @ + 1 ] /\ UNCHANGED << mExpire_Date, tmp_lst >>
     ELSE tmp_lst' = Append(tmp_lst, i) /\ UNCHANGED << closed, mExpire_Date >>

Fire_Forget(i, ret) ==
  /\ fired' = [ fired EXCEPT ![i] = @ + 1 ]
  /\ mLeftCount' = [ mLeftCount EXCEPT ![i] = @ - 1 ]
  /\ mExpire_Date' = [ mExpire_Date EXCEPT ![i] = @ + mInterval[i] ]
  /\ closed' = IF mLeftCount[i] - 1 <= 0 \/ ret < 0 THEN [ closed EXCEPT ![i] = @ + 1 ] ELSE closed
  /\ UNCHANGED tmp_lst

\* A handler is called; ret is what it returns.
Fire(i, ret) ==
  /\ fired' = [ fired EXCEPT ![i] = @ + 1 ]
  /\ mLeftCount' = [ mLeftCount EXCEPT ![i] = @ - 1 ]
  /\ IF mLeftCount[i] - 1 <= 0 \/ ret < 0
     THEN closed' = [ closed EXCEPT ![i] = @ + 1 ] /\ UNCHANGED << mExpire_Date, tmp_lst >>
     ELSE /\ mExpire_Date' = [ mExpire_Date EXCEPT ![i] = @ + mInterval[i] ]
          /\ tmp_lst' = Append(tmp_lst, i)
          /\ UNCHANGED closed

ProcessHead_NoLock ==
  /\ tpc = "process" /\ m_lstHanders # << >>
  /\ mExpire_Date[Head(m_lstHanders)] <= clock
  /\ now' = clock
  /\ nextsec' = mExpire_Date[Head(m_lstHanders)] - clock
  /\ \E ret \in {-1, 0} : Fire(Head(m_lstHanders), ret)
  /\ m_lstHanders' = Tail(m_lstHanders)
  /\ UNCHANGED << env, clock, mInterval, conditionVars, tpc, titer, deadline, userVars,
                  first, asked, overtaken, crashed >>

\* A round of the loop, under the mutex: the head is due.
ProcessHead ==
  /\ tpc = "process" /\ ~m_mutex /\ m_lstHanders # << >>
  /\ mExpire_Date[Head(m_lstHanders)] <= clock
  /\ now' = clock
  /\ nextsec' = mExpire_Date[Head(m_lstHanders)] - clock
  /\ \E ret \in {-1, 0} : Fire(Head(m_lstHanders), ret)
  /\ m_lstHanders' = Tail(m_lstHanders)
  /\ UNCHANGED << env, clock, mInterval, conditionVars, tpc, titer, deadline, userVars,
                  first, asked, overtaken, crashed >>

\* The second loop of process_timeout, without the mutex.
RepushSearch ==
  /\ tpc = "repush" /\ tmp_lst # << >>
  /\ titer' = Search(Head(tmp_lst))
  /\ tpc' = "insert"
  /\ UNCHANGED << env, clock, m_lstHanders, timerVars, conditionVars, tmp_lst, now, nextsec, deadline,
                  userVars, historyVars >>

RepushInsert ==
  /\ tpc = "insert"
  /\ Insert(Head(tmp_lst), titer)
  /\ overtaken' = (overtaken \/ Overlap)
  /\ tmp_lst' = Tail(tmp_lst)
  /\ titer' = End /\ tpc' = "repush"
  /\ UNCHANGED << env, clock, timerVars, m_bExit, m_mutex, now, nextsec, deadline, userVars,
                  first, asked, fired, closed >>

RepushEnd ==
  /\ tpc = "repush" /\ tmp_lst = << >>
  /\ tpc' = "wait"
  /\ UNCHANGED << env, clock, m_lstHanders, timerVars, conditionVars, tmp_lst, now, nextsec, titer,
                  deadline, userVars, historyVars >>

\* wait(ms): the test of the flag.
WaitTest ==
  /\ tpc = "wait"
  /\ IF m_bSignaled
     THEN m_bSignaled' = FALSE /\ tpc' = "test" /\ UNCHANGED deadline
     ELSE /\ tpc' = "presleep" /\ UNCHANGED m_bSignaled
          /\ deadline' = clock + (IF nextsec <= 0 THEN 1 ELSE nextsec)
  /\ UNCHANGED << env, clock, m_lstHanders, timerVars, m_bExit, m_mutex, tmp_lst, now, nextsec, titer,
                  userVars, historyVars >>

Sleep ==
  /\ tpc = "presleep"
  /\ tpc' = "asleep"
  /\ UNCHANGED << env, clock, m_lstHanders, timerVars, conditionVars, tmp_lst, now, nextsec, titer,
                  deadline, userVars, historyVars >>

\* The sleep ends: woken with the flag set, which is cleared, or by the timeout,
\* which leaves the flag.  At the end of the model's time every timeout is due.
WakeUp ==
  /\ \/ tpc = "woken" /\ m_bSignaled' = FALSE
     \/ tpc = "asleep" /\ (clock >= deadline \/ clock = MaxTime) /\ UNCHANGED m_bSignaled
  /\ tpc' = "test"
  /\ UNCHANGED << env, clock, m_lstHanders, timerVars, m_bExit, m_mutex, tmp_lst, now, nextsec, titer,
                  deadline, userVars, historyVars >>

\* uninitialize: the thread takes itself off the list of threads, and goes on to
\* use the object until it has released the mutex.
Leave ==
  /\ \/ tpc = "exit" /\ ~m_mutex /\ tpc' = "leaving"
     \/ tpc = "leaving" /\ tpc' = "gone"
  /\ UNCHANGED << env, clock, m_lstHanders, timerVars, conditionVars, tmp_lst, now, nextsec, titer,
                  deadline, userVars, historyVars >>

TimerThread ==
  \/ RunTest \/ ProcessEnd \/ ProcessHead
  \/ RepushSearch \/ RepushInsert \/ RepushEnd
  \/ WaitTest \/ Sleep \/ WakeUp \/ Leave

-------------------------------------------------------------------------------
(***************************************************************************)
(* The user.                                                               *)
(***************************************************************************)

RegisterSearch(date, count, interval) ==
  /\ upc = "idle" /\ registered < MaxTimers
  /\ LET i == registered + 1
     IN  /\ mExpire_Date' = [ mExpire_Date EXCEPT ![i] = date ]
         /\ mLeftCount' = [ mLeftCount EXCEPT ![i] = count ]
         /\ mInterval' = [ mInterval EXCEPT ![i] = interval ]
         /\ first' = [ first EXCEPT ![i] = date ]
         /\ asked' = [ asked EXCEPT ![i] = count ]
         /\ registered' = i
  /\ m_mutex' = TRUE
  /\ upc' = "search"
  /\ UNCHANGED << env, clock, m_lstHanders, m_bExit, m_bSignaled, threadVars, uiter,
                  fired, closed, overtaken, crashed >>

RegisterFound ==
  /\ upc = "search"
  /\ uiter' = Search(registered)
  /\ upc' = "insert"
  /\ UNCHANGED << env, clock, m_lstHanders, timerVars, conditionVars, threadVars, registered, historyVars >>

RegisterInsert ==
  /\ upc = "insert"
  /\ Insert(registered, uiter)
  /\ overtaken' = (overtaken \/ Overlap)
  /\ uiter' = End /\ upc' = "signal"
  /\ UNCHANGED << env, clock, timerVars, m_bExit, m_mutex, threadVars, registered,
                  first, asked, fired, closed >>

\* The second half of signal() wakes the thread if it sleeps; the mutex is
\* released.
RegisterSignal ==
  /\ upc = "signal"
  /\ tpc' = IF tpc = "asleep" THEN "woken" ELSE tpc
  /\ m_mutex' = FALSE
  /\ upc' = "idle"
  /\ UNCHANGED << env, clock, m_lstHanders, timerVars, m_bExit, m_bSignaled, tmp_lst, now, nextsec,
                  titer, deadline, uiter, registered, historyVars >>

removeTimer_NoClose(i) ==
  /\ upc = "idle" /\ "cancel" \in env
  /\ \E k \in DOMAIN m_lstHanders :
       m_lstHanders[k] = i /\ m_lstHanders' = RemoveAt(m_lstHanders, k)
  /\ UNCHANGED << env, clock, timerVars, conditionVars, threadVars, userVars, historyVars >>

\* Under the mutex.  A timer that is not in the list is silently not removed.
removeTimer(i) ==
  /\ upc = "idle" /\ "cancel" \in env
  /\ \E k \in DOMAIN m_lstHanders :
       m_lstHanders[k] = i /\ m_lstHanders' = RemoveAt(m_lstHanders, k)
  /\ closed' = [ closed EXCEPT ![i] = @ + 1 ]
  /\ UNCHANGED << env, clock, timerVars, conditionVars, threadVars, userVars,
                  first, asked, fired, overtaken, crashed >>

stop ==
  /\ upc = "idle" /\ "end" \in env
  /\ m_bExit' = TRUE
  /\ upc' = "awaiting"
  /\ UNCHANGED << env, clock, m_lstHanders, timerVars, m_bSignaled, m_mutex, threadVars, uiter, registered,
                  historyVars >>

\* wait() has seen that count() is 0; the destructors run: every timer left is
\* closed, and a thread that is still in uninitialize uses a dead object.
Destroy ==
  /\ upc = "awaiting" /\ tpc \in {"leaving", "gone"}
  /\ closed' = [ i \in Timers |-> IF i \in ToSet(m_lstHanders) THEN closed[i] + 1 ELSE closed[i] ]
  /\ m_lstHanders' = << >>
  /\ upc' = "destroyed"
  /\ crashed' = (tpc = "leaving")
  /\ UNCHANGED << env, clock, timerVars, conditionVars, threadVars, uiter, registered,
                  first, asked, fired, overtaken >>

UserCall == RegisterFound \/ RegisterInsert \/ RegisterSignal \/ Destroy

User ==
  \/ UserCall
  \/ \E d \in Dates, c \in Counts, s \in Intervals : RegisterSearch(d, c, s)
  \/ \E i \in Timers : removeTimer(i)
  \/ stop

Next ==
  \/ ~crashed /\ (Tick \/ TimerThread \/ User)
  \/ (crashed \/ upc = "destroyed") /\ UNCHANGED vars

Spec == Init /\ [][Next]_vars

\* Time goes on, the thread runs, and a call that has begun goes on.  Nobody
\* makes the user call.
FairSpec ==
  /\ Spec
  /\ WF_vars(~crashed /\ Tick)
  /\ WF_vars(~crashed /\ TimerThread)
  /\ WF_vars(~crashed /\ UserCall)

-------------------------------------------------------------------------------
(***************************************************************************)
(* Properties.                                                             *)
(***************************************************************************)

TypeInv ==
  /\ env \in Envs /\ clock \in 0 .. MaxTime
  /\ m_lstHanders \in Seq(Timers) /\ tmp_lst \in Seq(Timers)
  /\ mExpire_Date \in [ Timers -> Nat ] /\ mLeftCount \in [ Timers -> Int ]
  /\ mInterval \in [ Timers -> Nat ]
  /\ m_bExit \in BOOLEAN /\ m_bSignaled \in BOOLEAN /\ m_mutex \in BOOLEAN
  /\ tpc \in {"test", "process", "repush", "insert", "wait", "presleep", "asleep", "woken",
              "exit", "leaving", "gone"}
  /\ now \in 0 .. MaxTime /\ nextsec \in Int /\ deadline \in Nat
  /\ titer \in Timers \cup {End, PushFront} /\ uiter \in Timers \cup {End, PushFront}
  /\ upc \in {"idle", "search", "insert", "signal", "awaiting", "destroyed"}
  /\ registered \in 0 .. MaxTimers
  /\ first \in [ Timers -> Nat ] /\ asked \in [ Timers -> Int ]
  /\ fired \in [ Timers -> Nat ] /\ closed \in [ Timers -> Nat ]
  /\ overtaken \in BOOLEAN /\ crashed \in BOOLEAN

\* The comment on pushTimer: the head is the one to fire first.  So it is, as
\* long as no insertion of a registration falls between the unlocked search and
\* insertion of the timer thread, or the other way round.
HeadIsEarliest ==
  ~overtaken =>
    \A k \in DOMAIN m_lstHanders :
      mExpire_Date[Head(m_lstHanders)] <= mExpire_Date[m_lstHanders[k]]

\* While the thread sleeps and the flag is clear, it sleeps no longer than any
\* timer in the list was away when it looked; only a signal that came between
\* the test of the flag and the sleep, and then left the flag set, is missed.
NoOversleep ==
  tpc = "asleep" /\ ~m_bSignaled /\ ~overtaken =>
    \A k \in DOMAIN m_lstHanders : nextsec > 0 /\ now + nextsec <= mExpire_Date[m_lstHanders[k]]

\* The calls that a timer asked for n of them gets, if its handler never fails.
Calls(n) == IF n < 1 THEN 1 ELSE n

\* A timer fires no more often than asked, once if it was asked for no call at
\* all, and its n-th call comes no earlier than n - 1 intervals after its first
\* date.
FiresAsOrdered ==
  \A i \in 1 .. registered :
    /\ fired[i] <= Calls(asked[i])
    /\ fired[i] > 0 => clock >= first[i] + (fired[i] - 1) * mInterval[i]

\* Timer_close deletes the handler.  A timer that is closed is neither in the
\* list nor on its way back into it, and when the service is gone every handler
\* that was registered has been closed exactly once, also one that was being put
\* back when stop() was called.
ClosedOnce ==
  /\ \A i \in Timers : closed[i] <= 1
  /\ \A i \in ToSet(m_lstHanders) \cup ToSet(tmp_lst) : closed[i] = 0
  /\ upc = "destroyed" => \A i \in 1 .. registered : closed[i] = 1

\* The unlocked insertion can spoil the order of the list, but follows a dead
\* iterator only where timers are removed; and the destructors meet the thread at
\* worst in uninitialize.
NeverUndefined ==
  crashed => "cancel" \in env \/ (upc = "destroyed" /\ tpc = "leaving")

\* A timer that is registered fires until it is closed, or the service is
\* stopped.
TimersFire ==
  \A i \in Timers :
    (i \in ToSet(m_lstHanders)) ~> (closed[i] = 1 \/ m_bExit \/ crashed)

\* The owner that has called stop() gets to destroy the service: the thread
\* sleeps at most until its timeout, although stop() does not wake it.
StopEnds == (upc = "awaiting") ~> (upc = "destroyed" \/ crashed)
===============================================================================
