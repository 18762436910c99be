--------------------------- MODULE Daytime_proofs ---------------------------
(***************************************************************************)
(* Proofs about DAYTIME composed with LOCATION, for any places, sunrises,  *)
(* sunsets and fixed times, any length of the day and of the events, and   *)
(* any bound: every state has its type; once DAYTIME has started it is     *)
(* never left without an alarm as long as no offset is negative; and day   *)
(* and night follow the sun of the place, or the times that were set.      *)
(***************************************************************************)
EXTENDS Daytime, SequenceTheorems, TLAPS

LEMMA AppendType ==
  ASSUME NEW S, NEW q \in Seq(S), NEW x \in S
  PROVE  Append(q, x) \in Seq(S)
  OBVIOUS

LEMMA TailType ==
  ASSUME NEW S, NEW q \in Seq(S), q # <<>>
  PROVE  Head(q) \in S /\ Tail(q) \in Seq(S)
  OBVIOUS

LEMMA SeqMonotone ==
  ASSUME NEW S, NEW T, S \subseteq T, NEW q \in Seq(S)
  PROVE  q \in Seq(T)
  <1>1. Len(q) \in Nat /\ DOMAIN q = 1..Len(q) /\ \A i \in 1..Len(q) : q[i] \in T
    OBVIOUS
  <1>2. q = [i \in 1..Len(q) |-> q[i]]
    OBVIOUS
  <1> QED
    BY <1>1, <1>2, IsASeq

\* What is published has the type of a message, and so have the copies of the
\* same static object that were in the pipe already.
LEMMA PublishType ==
  ASSUME NEW S, NEW q \in Seq(S), NEW kind, NEW arg, [kind |-> kind, arg |-> arg] \in S
  PROVE  Publish(q, kind, arg) \in Seq(S)
  <1> DEFINE msg == [kind |-> kind, arg |-> arg]
             rewritten == [i \in DOMAIN q |-> IF q[i].kind = kind THEN msg ELSE q[i]]
  <1>1. rewritten \in Seq(S)
    <2>1. Len(q) \in Nat /\ DOMAIN rewritten = 1..Len(q)
      OBVIOUS
    <2>2. \A i \in 1..Len(q) : rewritten[i] \in S
      OBVIOUS
    <2> QED
      BY <2>1, <2>2, IsASeq
  <1> QED
    BY <1>1, AppendType DEF Publish

-----------------------------------------------------------------------------
\* What the pipe of DAYTIME may hold: a place only once LOCATION has one.
LocUpd == [kind : {"LOC_UPD"}, arg : IF current_loc = NoLoc THEN {NoLoc} ELSE Locs \cup {NoLoc}]
EventReq == [kind : DayEvents, arg : TimeOfDay \cup {NoTime}]
DayMsg == LocUpd \cup EventReq

\* LOCATION and its pipe have their types, the pipe of DAYTIME its messages, and
\* where LOCATION does not run the place is configured.
LocInv == /\ LocTypeOK /\ dayQ \in Seq(DayMsg)
          /\ loop = "init" /\ ~loc_alive => current_loc # NoLoc

\* The conjuncts of TypeOK that are about DAYTIME's own variables.
DayTypeOK ==
  /\ clock \in TimeOfDay
  /\ phase \in {"waiting", "started", "stopped"}
  /\ fixed \in [DayEvents -> TimeOfDay \cup {NoTime}]
  /\ offset \in Offsets
  /\ events \in [DayEvents -> Past .. 2 * DayLength]
  /\ day_time \in {"UNKNOWN", "DAY", "NIGHT"}
  /\ next_event \in DayEvents \cup {"UNKNOWN"}
  /\ in_event \in BOOLEAN
  /\ alarm \in {Off} \cup 0 .. 4 * DayLength

\* Once started, DAYTIME has a place to compute events for, and its timer is armed
\* or expires now.
Located == phase = "started" => current_loc # NoLoc
Armed == phase = "started" /\ Offsets \subseteq Nat => alarm # Off

\* The inductive invariant.
IInv == LocInv /\ DayTypeOK /\ Located /\ Armed

LEMMA InvTypes == IInv => TypeOK
  <1> SUFFICES ASSUME IInv PROVE TypeOK
    OBVIOUS
  <1> DEFINE Msg == [kind : {"LOC_UPD"}, arg : Locs \cup {NoLoc}]
                    \cup [kind : DayEvents, arg : TimeOfDay \cup {NoTime}]
  <1>1. DayMsg \subseteq Msg
    BY DEF DayMsg, LocUpd, EventReq
  <1>2. dayQ \in Seq(Msg)
    BY <1>1, SeqMonotone DEF IInv, LocInv
  <1> QED
    BY <1>2 DEF IInv, LocInv, DayTypeOK, TypeOK

LEMMA OneMessage ==
  ASSUME NEW l \in Locs \cup {NoLoc}, l = NoLoc \/ current_loc # NoLoc
  PROVE  [kind |-> "LOC_UPD", arg |-> l] \in DayMsg
  BY DEF DayMsg, LocUpd

\* A place is never forgotten while the loop runs, so messages stay messages.
LEMMA KeepMessages ==
  ASSUME NEW q \in Seq(DayMsg), current_loc # NoLoc => current_loc' # NoLoc
  PROVE  q \in Seq(DayMsg')
  <1>1. DayMsg \subseteq DayMsg'
    BY DEF DayMsg, LocUpd, EventReq
  <1> QED
    BY <1>1, SeqMonotone

LEMMA OwnRequest ==
  ASSUME LocInv, NEW kind \in {"own", "user"}, NEW l \in Locs
  PROVE  Publish(locQ, kind, l) \in Seq([kind : {"own", "user"}, arg : Locs])
  BY PublishType DEF LocInv, LocTypeOK

LEMMA LocStart ==
  ASSUME LocInv, LoopStarted, UNCHANGED dayQ
  PROVE  LocInv' /\ UNCHANGED <<loc_alive, current_loc>> /\ loop' = "running"
  <1>1. locQ' \in Seq([kind : {"own", "user"}, arg : Locs])
    BY OwnRequest DEF LoopStarted, LoadCache, LocInv, LocTypeOK
  <1>2. client' \in {client, "asked"} /\ loc_timer' \in {loc_timer, "now"}
    BY DEF LoopStarted, GeoclueInit
  <1>3. dayQ' \in Seq(DayMsg')
    BY KeepMessages DEF LocInv, LoopStarted
  <1> QED
    BY <1>1, <1>2, <1>3 DEF LoopStarted, LocInv, LocTypeOK

LEMMA LocReply ==
  ASSUME LocInv, GetClientReply
  PROVE  LocInv'
  <1>1. dayQ' \in Seq(DayMsg')
    BY KeepMessages DEF LocInv, GetClientReply
  <1> QED
    BY <1>1 DEF GetClientReply, LocInv, LocTypeOK

LEMMA LocAnswers ==
  ASSUME LocInv, NEW l \in Locs, GeoclueLocation(l) \/ UserLocation(l)
  PROVE  LocInv'
  <1>1. locQ' \in Seq([kind : {"own", "user"}, arg : Locs])
    BY OwnRequest DEF GeoclueLocation, UserLocation
  <1>2. loc_timer' \in {loc_timer, "gone"}
    BY DEF GeoclueLocation, UserLocation
  <1>3. dayQ' \in Seq(DayMsg')
    BY KeepMessages DEF LocInv, GeoclueLocation, UserLocation
  <1> QED
    BY <1>1, <1>2, <1>3 DEF GeoclueLocation, UserLocation, LocInv, LocTypeOK

LEMMA LocReceive ==
  ASSUME LocInv, ReceiveLocationReq
  PROVE  LocInv'
  <1> DEFINE l == Head(locQ).arg
  <1>1. l \in Locs /\ locQ' \in Seq([kind : {"own", "user"}, arg : Locs])
    <2>1. locQ # <<>> /\ locQ' = Tail(locQ)
      BY DEF ReceiveLocationReq
    <2>2. locQ \in Seq([kind : {"own", "user"}, arg : Locs])
      BY DEF LocInv, LocTypeOK
    <2>3. Head(locQ) \in [kind : {"own", "user"}, arg : Locs]
      BY <2>1, <2>2, TailType
    <2> QED
      BY <2>1, <2>2, <2>3, TailType
  <1>2. current_loc' \in {current_loc, l} /\ (current_loc # NoLoc => current_loc' # NoLoc)
    BY <1>1, LocationAssumption DEF ReceiveLocationReq
  <1>3. dayQ' \in Seq(DayMsg')
    <2>1. CASE UNCHANGED dayQ
      BY <1>2, <2>1, KeepMessages DEF LocInv
    <2>2. CASE dayQ' = Publish(dayQ, "LOC_UPD", l) /\ current_loc' = l
      <3>1. [kind |-> "LOC_UPD", arg |-> l] \in DayMsg'
        BY <1>1, <2>2, LocationAssumption DEF DayMsg, LocUpd
      <3>2. dayQ \in Seq(DayMsg')
        BY <1>2, KeepMessages DEF LocInv
      <3> QED
        BY <2>2, <3>1, <3>2, PublishType
    <2> QED
      BY <2>1, <2>2 DEF ReceiveLocationReq
  <1> QED
    BY <1>1, <1>2, <1>3 DEF ReceiveLocationReq, LocInv, LocTypeOK

LEMMA LocTimer ==
  ASSUME LocInv, TimerExpires
  PROVE  LocInv'
  <1>1. dayQ' \in Seq(DayMsg)
    BY OneMessage, PublishType DEF TimerExpires, LocInv
  <1>2. dayQ' \in Seq(DayMsg')
    BY <1>1, KeepMessages DEF TimerExpires
  <1>3. locQ' \in Seq([kind : {"own", "user"}, arg : Locs])
    BY EmptySeq DEF TimerExpires
  <1>4. client' \in {client, "none"}
    BY DEF TimerExpires
  <1> QED
    BY <1>2, <1>3, <1>4 DEF TimerExpires, LocInv, LocTypeOK

LEMMA LocRestarts ==
  ASSUME LocInv, LoopStopped \/ Crash
  PROVE  LocInv' /\ loop' = "init"
  <1>1. Reset /\ cache' \in {cache, current_loc}
    BY DEF LoopStopped, Crash
  <1>2. <<>> \in Seq(DayMsg') /\ <<>> \in Seq([kind : {"own", "user"}, arg : Locs])
    BY EmptySeq
  <1>3. loc_alive' \in BOOLEAN /\ current_loc' \in Locs \cup {NoLoc}
        /\ (~loc_alive' => current_loc' # NoLoc)
    BY <1>1, LocationAssumption DEF Reset
  <1> QED
    BY <1>1, <1>2, <1>3 DEF Reset, LocInv, LocTypeOK

-----------------------------------------------------------------------------
LEMMA Constants ==
  /\ DayLength \in Nat /\ EventDuration \in Nat
  /\ 1 <= EventDuration /\ EventDuration < DayLength
  /\ Past = -(EventDuration + 1) /\ Past \in Int
  BY DaytimeAssumption DEF Past

LEMMA SunTimeType ==
  ASSUME TypeOK, current_loc # NoLoc, NEW e \in DayEvents
  PROVE  SunTime(e) \in TimeOfDay
  <1>1. current_loc \in Locs /\ fixed[e] \in TimeOfDay \cup {NoTime}
    BY DEF TypeOK, LocTypeOK
  <1>2. SunTimes[current_loc][e] \in TimeOfDay
    BY <1>1, DaytimeAssumption
  <1> QED
    BY <1>1, <1>2 DEF SunTime

\* An event of today, of yesterday or of tomorrow; tomorrow's is still ahead.
LEMMA CalculateType ==
  ASSUME TypeOK, current_loc # NoLoc, NEW e \in DayEvents, NEW d \in {-1, 0, 1}
  PROVE  Calculate(e, d) \in Past .. 2 * DayLength /\ (d = 1 => Calculate(e, d) >= 1)
  <1> DEFINE t == SunTime(e) - clock + d * DayLength
  <1>1. SunTime(e) \in 0 .. DayLength - 1 /\ clock \in 0 .. DayLength - 1
    BY SunTimeType DEF TypeOK, TimeOfDay
  <1>2. t \in Int /\ t <= 2 * DayLength /\ (d = 1 => t >= 1)
    BY <1>1, Constants
  <1>3. Calculate(e, d) = IF t < Past THEN Past ELSE t
    BY DEF Calculate
  <1> HIDE DEF t
  <1> QED
    BY <1>2, <1>3, Constants

\* get_next_events keeps the events' type, and leaves no sunset that is over.
LEMMA NextEventsType ==
  ASSUME TypeOK, current_loc # NoLoc
  PROVE  /\ NextEvents \in [DayEvents -> Past .. 2 * DayLength]
         /\ NextEvents["SUNSET"] + EventDuration > 1
  <1> DEFINE shift == IF 1 >= Calculate("SUNSET", 0) + EventDuration THEN 1 ELSE 0
             sunset == Calculate("SUNSET", shift)
             early == IF Calculate("SUNRISE", shift) > sunset THEN 1 ELSE 0
  <1>1. "SUNSET" \in DayEvents /\ "SUNRISE" \in DayEvents
    BY DEF DayEvents
  <1>2. shift \in {0, 1} /\ early \in {0, 1} /\ shift - early \in {-1, 0, 1}
    OBVIOUS
  <1>3. sunset \in Past .. 2 * DayLength /\ Calculate("SUNRISE", shift - early) \in Past .. 2 * DayLength
    BY <1>1, <1>2, CalculateType
  <1>4. sunset + EventDuration > 1
    BY <1>1, CalculateType, Constants
  <1>5. events \in [DayEvents -> Past .. 2 * DayLength]
    BY DEF TypeOK
  <1>6. NextEvents = IF 1 >= events["SUNSET"] + EventDuration
                       THEN [e \in DayEvents |-> IF e = "SUNSET" THEN sunset
                                                 ELSE Calculate("SUNRISE", shift - early)]
                       ELSE events
    BY DEF NextEvents
  <1> HIDE DEF shift, sunset, early
  <1>7. CASE 1 >= events["SUNSET"] + EventDuration
    BY <1>1, <1>3, <1>4, <1>6, <1>7
  <1>8. CASE ~(1 >= events["SUNSET"] + EventDuration)
    <2>1. events["SUNSET"] \in Int
      BY <1>1, <1>5, Constants
    <2> QED
      BY <1>5, <1>6, <1>8, <2>1, Constants
  <1> QED
    BY <1>7, <1>8

\* The next event is not over yet, whichever it is.
LEMMA NextEventAhead ==
  ASSUME NEW ev \in [DayEvents -> Past .. 2 * DayLength], ev["SUNSET"] + EventDuration > 1
  PROVE  /\ NextEvent(ev) \in DayEvents
         /\ ev[NextEvent(ev)] \in Past .. 2 * DayLength
         /\ ev[NextEvent(ev)] + EventDuration > 1
  <1>1. NextEvent(ev) \in DayEvents
    BY DEF NextEvent, DayEvents
  <1>2. ev[NextEvent(ev)] + EventDuration > 1
    <2>1. CASE 1 < ev["SUNRISE"] + EventDuration
      <3>1. ev["SUNRISE"] \in Int
        BY Constants DEF DayEvents
      <3> QED
        BY <2>1, <3>1, Constants DEF NextEvent
    <2>2. CASE ~(1 < ev["SUNRISE"] + EventDuration)
      BY <2>2 DEF NextEvent
    <2> QED
      BY <2>1, <2>2
  <1> QED
    BY <1>1, <1>2

(***************************************************************************)
(* An event that is not over has a timer: at its beginning, at the event   *)
(* itself, or at its end.  Only a negative offset could move that one to   *)
(* the present or before, which disarms the timer for good.                *)
(***************************************************************************)
LEMMA AlarmAhead ==
  ASSUME NEW t \in Past .. 2 * DayLength, t + EventDuration > 1, TypeOK
  PROVE  /\ SetTimeout(t + offset + TimeRange(t)) \in {Off} \cup 0 .. 4 * DayLength
         /\ Offsets \subseteq Nat => SetTimeout(t + offset + TimeRange(t)) # Off
  <1>1. t \in Int /\ offset \in Int /\ offset <= DayLength
        /\ (Offsets \subseteq Nat => offset \in Nat)
    BY Constants, DaytimeAssumption DEF TypeOK
  <1>2. TimeRange(t) \in Int /\ TimeRange(t) <= EventDuration /\ t + TimeRange(t) > 0
    <2>1. CASE ~Near(t)
      BY <1>1, <2>1, Constants DEF Near, TimeRange
    <2>2. CASE Near(t) /\ t > 1
      BY <1>1, <2>2, Constants DEF TimeRange
    <2>3. CASE Near(t) /\ t <= 1
      BY <1>1, <2>3, Constants DEF TimeRange
    <2> QED
      BY <1>1, <2>1, <2>2, <2>3
  <1> QED
    BY <1>1, <1>2, Constants DEF SetTimeout, Off

-----------------------------------------------------------------------------
LEMMA Relocate ==
  ASSUME IInv, LocInv', current_loc # NoLoc => current_loc' # NoLoc,
         UNCHANGED <<clock, phase, confVars, sunVars, alarm>>
  PROVE  IInv'
  BY DEF IInv, DayTypeOK, Located, Armed, confVars, sunVars

\* An expired timer, as after a start and a reset, is no missing one.
LEMMA ExpiredTimer == 0 \in {Off} \cup 0 .. 4 * DayLength /\ 0 # Off
  BY Constants DEF Off

LEMMA ForgottenSunset ==
  ASSUME IInv, ResetDaytime
  PROVE  /\ events' \in [DayEvents -> Past .. 2 * DayLength]
         /\ alarm' = 0 /\ UNCHANGED <<day_time, next_event, in_event>>
  <1>1. Past \in Past .. 2 * DayLength
    BY Constants
  <1> QED
    BY <1>1 DEF ResetDaytime, IInv, DayTypeOK

LEMMA StartStep ==
  ASSUME IInv, Start
  PROVE  IInv'
  <1>1. LocInv' /\ UNCHANGED <<loc_alive, current_loc, dayQ, clock, confVars>>
    BY LocStart DEF Start, IInv
  <1>2. CASE loc_alive
    <2>1. UNCHANGED <<phase, sunVars, alarm>>
      BY <1>2 DEF Start
    <2> QED
      BY <1>1, <2>1, Relocate
  <1>3. CASE ~loc_alive
    <2>1. StartDaytime /\ current_loc # NoLoc
      BY <1>3 DEF Start, LoopStarted, IInv, LocInv
    <2> QED
      BY <1>1, <2>1, ExpiredTimer
         DEF StartDaytime, IInv, DayTypeOK, Located, Armed, confVars, sunVars
  <1> QED
    BY <1>2, <1>3

LEMMA LocateStep ==
  ASSUME IInv, Locate
  PROVE  IInv'
  <1>1. LocInv
    BY DEF IInv
  <1>2. LocInv'
    BY <1>1, LocReply, LocReceive, LocTimer, LocAnswers DEF Locate
  <1>3. current_loc # NoLoc => current_loc' # NoLoc
    <2>1. CASE ReceiveLocationReq
      <3>1. locQ \in Seq([kind : {"own", "user"}, arg : Locs]) /\ locQ # <<>>
        BY <2>1, <1>1 DEF ReceiveLocationReq, LocInv, LocTypeOK
      <3>2. Head(locQ) \in [kind : {"own", "user"}, arg : Locs]
        BY <3>1, TailType
      <3> QED
        BY <2>1, <3>2, LocationAssumption DEF ReceiveLocationReq
    <2>2. CASE UNCHANGED current_loc
      BY <2>2
    <2> QED
      BY <2>1, <2>2 DEF Locate, GetClientReply, TimerExpires, GeoclueLocation, UserLocation
  <1>4. UNCHANGED <<clock, phase, confVars, sunVars, alarm>>
    BY DEF Locate
  <1> QED
    BY <1>2, <1>3, <1>4, Relocate

LEMMA RebootStep ==
  ASSUME IInv, Reboot
  PROVE  IInv'
  <1>1. LocInv'
    BY LocRestarts DEF Reboot, IInv
  <1>2. Past \in Past .. 2 * DayLength
    BY Constants
  <1> QED
    BY <1>1, <1>2 DEF Reboot, IInv, DayTypeOK, Located, Armed, NoTime

LEMMA SetEventStep ==
  ASSUME IInv, NEW e \in DayEvents, NEW t \in FixedTimes[e], SetEvent(e, t)
  PROVE  IInv'
  <1>1. t \in TimeOfDay \cup {NoTime}
    BY DaytimeAssumption
  <1>2. [kind |-> e, arg |-> t] \in DayMsg
    BY <1>1 DEF DayMsg, EventReq
  <1>3. dayQ' \in Seq(DayMsg)
    BY <1>2, PublishType DEF SetEvent, IInv, LocInv
  <1>4. UNCHANGED <<locVars, clock, phase, fixed, offset, sunVars, alarm>>
    BY DEF SetEvent
  <1>5. LocInv'
    BY <1>3, <1>4, KeepMessages DEF locVars, IInv, LocInv, LocTypeOK
  <1> QED
    BY <1>4, <1>5, Relocate DEF locVars, confVars

LEMMA SetOffsetStep ==
  ASSUME IInv, NEW os \in Offsets, SetOffset(os)
  PROVE  IInv'
  <1>1. UNCHANGED <<locVars, dayQ, clock, phase, fixed>> /\ offset' = os /\ ResetDaytime
    BY DEF SetOffset
  <1>2. LocInv'
    BY <1>1, KeepMessages DEF locVars, IInv, LocInv, LocTypeOK
  <1> QED
    BY <1>1, <1>2, ForgottenSunset, ExpiredTimer
       DEF locVars, IInv, DayTypeOK, Located, Armed

\* What a step does to the pipe and to LOCATION when DAYTIME reads a message.
LEMMA ReceivedMessage ==
  ASSUME IInv, NEW kinds, Received(kinds)
  PROVE  /\ Head(dayQ) \in DayMsg /\ Head(dayQ).kind \in kinds
         /\ LocInv' /\ UNCHANGED <<locVars, clock, offset>>
  <1>1. dayQ \in Seq(DayMsg) /\ dayQ # <<>> /\ dayQ' = Tail(dayQ)
    BY DEF Received, IInv, LocInv
  <1>2. Head(dayQ) \in DayMsg /\ dayQ' \in Seq(DayMsg)
    BY <1>1, TailType
  <1>3. dayQ' \in Seq(DayMsg')
    BY <1>2, KeepMessages DEF Received, locVars
  <1> QED
    BY <1>2, <1>3 DEF Received, locVars, IInv, LocInv, LocTypeOK

LEMMA FirstLocationStep ==
  ASSUME IInv, FirstLocation
  PROVE  IInv'
  <1>1. /\ Head(dayQ) \in DayMsg /\ Head(dayQ).kind = "LOC_UPD"
        /\ LocInv' /\ UNCHANGED <<locVars, clock, offset, fixed>>
    BY ReceivedMessage DEF FirstLocation
  <1>2. CASE Head(dayQ).arg = NoLoc
    BY <1>1, <1>2 DEF FirstLocation, locVars, IInv, DayTypeOK, Located, Armed
  <1>3. CASE Head(dayQ).arg # NoLoc
    <2>1. Head(dayQ) \in LocUpd
      BY <1>1 DEF DayMsg, EventReq, DayEvents
    <2>2. current_loc # NoLoc
      BY <1>3, <2>1 DEF LocUpd
    <2>3. StartDaytime
      BY <1>3 DEF FirstLocation
    <2> QED
      BY <1>1, <2>2, <2>3, ExpiredTimer
         DEF StartDaytime, locVars, sunVars, IInv, DayTypeOK, Located, Armed
  <1> QED
    BY <1>2, <1>3

LEMMA DropStep ==
  ASSUME IInv, Drop
  PROVE  IInv'
  <1>1. LocInv' /\ UNCHANGED <<locVars, clock, offset>>
    BY ReceivedMessage DEF Drop
  <1> QED
    BY <1>1, Relocate DEF Drop, locVars, confVars

LEMMA NewLocationStep ==
  ASSUME IInv, NewLocation
  PROVE  IInv'
  <1>1. LocInv' /\ UNCHANGED <<locVars, clock, offset, phase, fixed>> /\ ResetDaytime
    BY ReceivedMessage DEF NewLocation
  <1> QED
    BY <1>1, ForgottenSunset, ExpiredTimer DEF locVars, IInv, DayTypeOK, Located, Armed

LEMMA NewEventTimeStep ==
  ASSUME IInv, NewEventTime
  PROVE  IInv'
  <1>1. /\ Head(dayQ) \in DayMsg /\ Head(dayQ).kind \in DayEvents
        /\ LocInv' /\ UNCHANGED <<locVars, clock, offset, phase>> /\ ResetDaytime
    BY ReceivedMessage DEF NewEventTime
  <1>2. Head(dayQ).arg \in TimeOfDay \cup {NoTime}
    BY <1>1 DEF DayMsg, LocUpd, EventReq, DayEvents
  <1>3. fixed' \in [DayEvents -> TimeOfDay \cup {NoTime}]
    BY <1>1, <1>2 DEF NewEventTime, IInv, DayTypeOK
  <1> QED
    BY <1>1, <1>3, ForgottenSunset, ExpiredTimer DEF locVars, IInv, DayTypeOK, Located, Armed

LEMMA AlarmExpiresStep ==
  ASSUME IInv, AlarmExpires
  PROVE  IInv'
  <1>1. TypeOK /\ current_loc # NoLoc /\ CheckDaytime
    BY InvTypes DEF AlarmExpires, IInv, Located
  <1>2. /\ events' \in [DayEvents -> Past .. 2 * DayLength]
        /\ events'["SUNSET"] + EventDuration > 1
    BY <1>1, NextEventsType DEF CheckDaytime
  <1>3. /\ next_event' \in DayEvents
        /\ events'[next_event'] \in Past .. 2 * DayLength
        /\ events'[next_event'] + EventDuration > 1
    BY <1>1, <1>2, NextEventAhead DEF CheckDaytime
  <1>4. /\ alarm' \in {Off} \cup 0 .. 4 * DayLength
        /\ Offsets \subseteq Nat => alarm' # Off
    BY <1>1, <1>3, AlarmAhead DEF CheckDaytime
  <1>5. day_time' \in {"DAY", "NIGHT"} /\ in_event' \in BOOLEAN
    <2>1. in_event' = Near(events'[next_event'])
      BY <1>1, Zenon DEF CheckDaytime
    <2>2. in_event' \in BOOLEAN
      BY <2>1, Zenon DEF Near
    <2> QED
      BY <1>1, <2>2 DEF CheckDaytime
  <1>6. UNCHANGED <<locVars, dayQ, clock, phase, confVars>>
    BY DEF AlarmExpires
  <1>7. LocInv'
    BY <1>6, KeepMessages DEF locVars, IInv, LocInv, LocTypeOK
  <1> QED
    BY <1>2, <1>3, <1>4, <1>5, <1>6, <1>7
       DEF locVars, confVars, IInv, DayTypeOK, Located, Armed

LEMMA TickStep ==
  ASSUME IInv, Tick
  PROVE  IInv'
  <1>1. UNCHANGED <<locVars, dayQ, phase, confVars, day_time, next_event, in_event>>
    BY DEF Tick
  <1>2. LocInv'
    BY <1>1, KeepMessages DEF locVars, IInv, LocInv, LocTypeOK
  <1>3. clock' \in TimeOfDay
    BY Constants DEF Tick, TimeOfDay, IInv, DayTypeOK
  <1>4. events' \in [DayEvents -> Past .. 2 * DayLength]
    BY Constants DEF Tick, IInv, DayTypeOK
  <1>5. alarm' \in {Off} \cup 0 .. 4 * DayLength /\ (alarm # Off => alarm' # Off)
    BY Constants DEF Tick, IInv, DayTypeOK, Off
  <1> QED
    BY <1>1, <1>2, <1>3, <1>4, <1>5
       DEF locVars, confVars, IInv, DayTypeOK, Located, Armed

LEMMA InvStep == IInv /\ [Next]_vars => IInv'
  <1> SUFFICES ASSUME IInv, [Next]_vars PROVE IInv'
    OBVIOUS
  <1>1. CASE UNCHANGED vars
    <2>1. UNCHANGED <<locVars, dayQ, clock, phase, confVars, sunVars, alarm>>
      BY <1>1 DEF vars
    <2>2. LocInv'
      BY <2>1, KeepMessages DEF locVars, IInv, LocInv, LocTypeOK
    <2> QED
      BY <2>1, <2>2, Relocate DEF locVars
  <1>2. ASSUME NEW e \in DayEvents, NEW t \in FixedTimes[e], SetEvent(e, t)
        PROVE  IInv'
    BY <1>2, SetEventStep
  <1>3. ASSUME NEW os \in Offsets, SetOffset(os) PROVE IInv'
    BY <1>3, SetOffsetStep
  <1> QED
    BY <1>1, <1>2, <1>3, StartStep, LocateStep, RebootStep, FirstLocationStep, DropStep,
       NewLocationStep, NewEventTimeStep, AlarmExpiresStep, TickStep DEF Next

LEMMA InvInit == Init => IInv
  <1> SUFFICES ASSUME Init PROVE IInv
    OBVIOUS
  <1>1. <<>> \in Seq(DayMsg) /\ <<>> \in Seq([kind : {"own", "user"}, arg : Locs])
    BY EmptySeq
  <1>2. LocInv
    BY <1>1, LocationAssumption DEF Init, LocInit, LocInv, LocTypeOK
  <1>3. Past \in Past .. 2 * DayLength
    BY Constants
  <1> QED
    BY <1>2, <1>3 DEF Init, DayInit, IInv, DayTypeOK, Located, Armed, NoTime

\* Every reachable state of DAYTIME, LOCATION and their pipes has its type.
THEOREM TypeCorrect == Spec => []TypeOK
  BY InvInit, InvStep, InvTypes, PTL DEF Spec

(***************************************************************************)
(* If no offset a user gives is negative, DAYTIME always has an alarm once *)
(* it has started: whatever is written, wherever the computer goes and     *)
(* however long it sleeps, day and night keep following one another.       *)
(***************************************************************************)
THEOREM AlarmIsSet == ASSUME Offsets \subseteq Nat PROVE Spec => []AlarmSet
  <1>1. IInv => AlarmSet
    BY DEF IInv, Armed, AlarmSet, Settled, Running
  <1> QED
    BY <1>1, InvInit, InvStep, PTL DEF Spec

\* DAYTIME never computes a sunrise or a sunset without a place to do it for.
THEOREM StartedIsLocated == Spec => []Located
  <1>1. IInv => Located
    BY DEF IInv
  <1> QED
    BY <1>1, InvInit, InvStep, PTL DEF Spec
-----------------------------------------------------------------------------
(***************************************************************************)
(* The inductive invariant of DayFollowsSun.  Once DAYTIME has read of the *)
(* last move, its events are the sun's: the sunset of this place, and the  *)
(* sunrise before it, unless that is over for long; or the sunset is over, *)
(* or was forgotten, and both are computed when the timer expires.         *)
(***************************************************************************)
LocRead == \A i \in 1 .. Len(dayQ) : dayQ[i].kind # "LOC_UPD"
SunsetOver == 1 >= events["SUNSET"] + EventDuration

\* The sunrise that belongs to a sunset at `sunset'.
SunriseOf(sunset) ==
  sunset + SunTime("SUNRISE") - SunTime("SUNSET")
    - (IF SunTime("SUNRISE") > SunTime("SUNSET") THEN DayLength ELSE 0)
Clamped(t) == IF t < Past THEN Past ELSE t

EventsKnown ==
  /\ events["SUNSET"] <= DayLength
  /\ \/ events["SUNSET"] = SunTime("SUNSET") - clock - DayLength
     \/ events["SUNSET"] = SunTime("SUNSET") - clock
     \/ events["SUNSET"] = SunTime("SUNSET") - clock + DayLength
  /\ events["SUNRISE"] = Clamped(SunriseOf(events["SUNSET"]))

\* What was told last, and the timer that runs until the event that ends it.
ToldSun ==
  \/ /\ day_time = "NIGHT" /\ events["SUNRISE"] > 0
     /\ alarm = events["SUNRISE"] - EventDuration
  \/ /\ day_time = "DAY" /\ events["SUNRISE"] <= 0 /\ events["SUNSET"] > 0
     /\ alarm = events["SUNSET"] - EventDuration

SunInv ==
  /\ phase # "started" => SunsetOver
  /\ phase = "started" /\ LocRead =>
       /\ SunsetOver \/ EventsKnown
       /\ alarm # 0 /\ ~in_event /\ offset = 0 => ~SunsetOver /\ alarm > 0 /\ ToldSun

LEMMA NextSecond ==
  ASSUME NEW t \in TimeOfDay
  PROVE  (t + 1) % DayLength = IF t + 1 = DayLength THEN 0 ELSE t + 1
  <1>1. t \in 0 .. DayLength - 1 /\ DayLength \in Nat /\ DayLength > 0
    BY Constants DEF TimeOfDay
  <1>2. CASE t + 1 = DayLength
    <2>1. DayLength % DayLength = 0
      BY <1>1
    <2> QED
      BY <1>2, <2>1
  <1>3. CASE t + 1 # DayLength
    BY <1>1, <1>3
  <1> QED
    BY <1>2, <1>3

\* The sun's times and what is relative to them are numbers.
LEMMA SunTypes ==
  ASSUME IInv, phase = "started"
  PROVE  /\ SunTime("SUNRISE") \in 0 .. DayLength - 1 /\ SunTime("SUNSET") \in 0 .. DayLength - 1
         /\ clock \in 0 .. DayLength - 1 /\ offset \in Int
         /\ events["SUNRISE"] \in Past .. 2 * DayLength
         /\ events["SUNSET"] \in Past .. 2 * DayLength
  <1>1. TypeOK /\ current_loc # NoLoc
    BY InvTypes DEF IInv, Located
  <1>2. "SUNSET" \in DayEvents /\ "SUNRISE" \in DayEvents
    BY DEF DayEvents
  <1>3. /\ SunTime("SUNRISE") \in 0 .. DayLength - 1 /\ SunTime("SUNSET") \in 0 .. DayLength - 1
        /\ clock \in 0 .. DayLength - 1
    BY <1>1, <1>2, SunTimeType DEF TypeOK, TimeOfDay
  <1>4. offset \in Int
    BY <1>1, DaytimeAssumption DEF TypeOK
  <1>5. events["SUNRISE"] \in Past .. 2 * DayLength /\ events["SUNSET"] \in Past .. 2 * DayLength
    BY <1>1, <1>2 DEF TypeOK
  <1> QED
    BY <1>3, <1>4, <1>5

\* What the timer was armed for is what the sun does, until it expires.
LEMMA ToldIsTrue ==
  ASSUME IInv, phase = "started", EventsKnown, ToldSun, alarm > 0
  PROVE  day_time = "DAY" <=> Between(SunTime("SUNRISE"), clock, SunTime("SUNSET"))
  <1> DEFINE r == SunTime("SUNRISE")
             s == SunTime("SUNSET")
             R == events["SUNRISE"]
             S == events["SUNSET"]
             ahead == s + R - r
  <1>1. /\ r \in 0 .. DayLength - 1 /\ s \in 0 .. DayLength - 1
        /\ clock \in 0 .. DayLength - 1 /\ R \in Past .. 2 * DayLength
        /\ S \in Past .. 2 * DayLength
    BY SunTypes
  <1>2. /\ S <= DayLength
        /\ S = s - clock - DayLength \/ S = s - clock \/ S = s - clock + DayLength
        /\ R = LET t == S + r - s - (IF r > s THEN DayLength ELSE 0)
               IN IF t < Past THEN Past ELSE t
    BY DEF EventsKnown, SunriseOf, Clamped
  <1>3. \/ day_time = "NIGHT" /\ R > 0 /\ alarm = R - EventDuration
        \/ day_time = "DAY" /\ R <= 0 /\ S > 0 /\ alarm = S - EventDuration
    BY DEF ToldSun
  <1> HIDE DEF r, s, R, S
  <1>4. CASE day_time = "NIGHT" /\ R > 0
    <2>1. R = S + r - s - (IF r > s THEN DayLength ELSE 0)
      BY <1>1, <1>2, <1>4, Constants
    <2>2. ~Between(r, clock, s)
      BY <1>1, <1>2, <1>4, <2>1, Constants DEF Between
    <2> QED
      BY <1>4, <2>2 DEF r, s
  <1>5. CASE day_time = "DAY" /\ R <= 0 /\ S > 0
    <2>1. S + r - s - (IF r > s THEN DayLength ELSE 0) <= 0
      BY <1>1, <1>2, <1>5, Constants
    <2>2. Between(r, clock, s)
      BY <1>1, <1>2, <1>5, <2>1, Constants DEF Between
    <2> QED
      BY <1>5, <2>2 DEF r, s
  <1> QED
    BY <1>3, <1>4, <1>5

\* get_next_events gives the next sunset that is not over, and the sunrise before it.
LEMMA NextEventsKnown ==
  ASSUME IInv, phase = "started", SunsetOver \/ EventsKnown,
         events' = NextEvents, UNCHANGED <<clock, fixed, current_loc>>
  PROVE  ~SunsetOver' /\ EventsKnown'
  <1> DEFINE r == SunTime("SUNRISE")
             s == SunTime("SUNSET")
             shift == IF 1 >= Calculate("SUNSET", 0) + EventDuration THEN 1 ELSE 0
             sunset == Calculate("SUNSET", shift)
             early == IF Calculate("SUNRISE", shift) > sunset THEN 1 ELSE 0
             sunrise == Calculate("SUNRISE", shift - early)
  <1>1. /\ r \in 0 .. DayLength - 1 /\ s \in 0 .. DayLength - 1
        /\ clock \in 0 .. DayLength - 1 /\ events["SUNSET"] \in Past .. 2 * DayLength
    BY SunTypes
  <1>2. r' = r /\ s' = s
    BY DEF SunTime
  <1>3. CASE ~SunsetOver
    <2>1. UNCHANGED events
      BY <1>3 DEF NextEvents, SunsetOver
    <2> QED
      BY <1>2, <1>3, <2>1 DEF SunsetOver, EventsKnown, SunriseOf, Clamped
  <1>4. CASE SunsetOver
    <2>1. /\ events' = [e \in DayEvents |-> IF e = "SUNSET" THEN sunset ELSE sunrise]
      BY <1>4 DEF NextEvents, SunsetOver
    <2>2. events'["SUNSET"] = sunset /\ events'["SUNRISE"] = sunrise
      <3> HIDE DEF sunset, sunrise
      <3> QED
        BY <2>1 DEF DayEvents
    <2>3. /\ Calculate("SUNSET", 0) = Clamped(s - clock + 0 * DayLength)
          /\ Calculate("SUNSET", 1) = Clamped(s - clock + 1 * DayLength)
          /\ Calculate("SUNRISE", 0) = Clamped(r - clock + 0 * DayLength)
          /\ Calculate("SUNRISE", 1) = Clamped(r - clock + 1 * DayLength)
          /\ Calculate("SUNRISE", -1) = Clamped(r - clock + (-1) * DayLength)
      BY DEF Calculate, Clamped
    <2>4. /\ 0 * DayLength = 0 /\ 1 * DayLength = DayLength /\ (-1) * DayLength = -DayLength
          /\ 0 - 0 = 0 /\ 0 - 1 = -1 /\ 1 - 0 = 1 /\ 1 - 1 = 0
      BY Constants
    <2>5. \/ shift = 0 /\ s - clock + EventDuration > 1 /\ sunset = s - clock
          \/ shift = 1 /\ s - clock + EventDuration <= 1 /\ sunset = s - clock + DayLength
      <3>1. CASE 1 >= Calculate("SUNSET", 0) + EventDuration
        <4>1. shift = 1 /\ sunset = Clamped(s - clock + DayLength)
          BY <2>3, <2>4, <3>1
        <4>2. s - clock + EventDuration <= 1
          <5> HIDE DEF s
          <5> QED
            BY <1>1, <2>3, <2>4, <3>1, Constants DEF Clamped
        <4>3. Clamped(s - clock + DayLength) = s - clock + DayLength
          <5> HIDE DEF s
          <5> QED
            BY <1>1, Constants DEF Clamped
        <4> HIDE DEF shift, sunset, s
        <4> QED
          BY <4>1, <4>2, <4>3
      <3>2. CASE ~(1 >= Calculate("SUNSET", 0) + EventDuration)
        <4>1. shift = 0 /\ sunset = Calculate("SUNSET", 0)
          BY <3>2
        <4>2. Calculate("SUNSET", 0) = s - clock /\ s - clock + EventDuration > 1
          <5> HIDE DEF s
          <5> QED
            BY <1>1, <2>3, <2>4, <3>2, Constants DEF Clamped
        <4> HIDE DEF shift, sunset, s
        <4> QED
          BY <4>1, <4>2
      <3> QED
        BY <3>1, <3>2
    <2>6. sunrise = Clamped(sunset + r - s - (IF r > s THEN DayLength ELSE 0))
      <3>1. CASE shift = 0 /\ s - clock + EventDuration > 1 /\ sunset = s - clock
        <4>1. Calculate("SUNRISE", shift) = Clamped(r - clock)
          BY <1>1, <2>3, <2>4, <3>1
        <4>2. early = IF Clamped(r - clock) > s - clock THEN 1 ELSE 0
          <5> HIDE DEF shift, sunset, r, s
          <5> QED
            BY <3>1, <4>1
        <4>3. early = IF r > s THEN 1 ELSE 0
          <5> HIDE DEF early, r, s
          <5> QED
            BY <1>1, <3>1, <4>2, Constants DEF Clamped
        <4>4. sunrise = Clamped(r - clock - (IF r > s THEN DayLength ELSE 0))
          <5>1. CASE r > s
            <6>1. sunrise = Calculate("SUNRISE", -1)
              <7> HIDE DEF shift, early, r, s
              <7> QED
                BY <2>4, <3>1, <4>3, <5>1
            <6>2. r - clock + (-1) * DayLength = r - clock - DayLength
              BY <1>1, Constants
            <6> QED
              BY <2>3, <5>1, <6>1, <6>2
          <5>2. CASE ~(r > s)
            <6>1. sunrise = Calculate("SUNRISE", 0)
              <7> HIDE DEF shift, early, r, s
              <7> QED
                BY <2>4, <3>1, <4>3, <5>2
            <6>2. r - clock + 0 * DayLength = r - clock - 0
              BY <1>1, Constants
            <6> QED
              BY <2>3, <5>2, <6>1, <6>2
          <5> QED
            BY <5>1, <5>2
        <4>5. r - clock - (IF r > s THEN DayLength ELSE 0)
                = sunset + r - s - (IF r > s THEN DayLength ELSE 0)
          <5> HIDE DEF sunset, r, s
          <5> QED
            BY <1>1, <3>1, Constants
        <4> QED
          BY <4>4, <4>5
      <3>2. CASE shift = 1 /\ s - clock + EventDuration <= 1 /\ sunset = s - clock + DayLength
        <4>1. Calculate("SUNRISE", shift) = Clamped(r - clock + DayLength)
          BY <1>1, <2>3, <2>4, <3>2
        <4>2. early = IF Clamped(r - clock + DayLength) > s - clock + DayLength THEN 1 ELSE 0
          <5> HIDE DEF shift, sunset, r, s
          <5> QED
            BY <3>2, <4>1
        <4>3. early = IF r > s THEN 1 ELSE 0
          <5> HIDE DEF early, r, s
          <5> QED
            BY <1>1, <3>2, <4>2, Constants DEF Clamped
        <4>4. sunrise = Clamped(r - clock + (IF r > s THEN 0 ELSE DayLength))
          <5>1. CASE r > s
            <6>1. sunrise = Calculate("SUNRISE", 0)
              <7> HIDE DEF shift, early, r, s
              <7> QED
                BY <2>4, <3>2, <4>3, <5>1
            <6>2. r - clock + 0 * DayLength = r - clock + 0
              BY <1>1, Constants
            <6> QED
              BY <2>3, <5>1, <6>1, <6>2
          <5>2. CASE ~(r > s)
            <6>1. sunrise = Calculate("SUNRISE", 1)
              <7> HIDE DEF shift, early, r, s
              <7> QED
                BY <2>4, <3>2, <4>3, <5>2
            <6> QED
              BY <2>3, <2>4, <5>2, <6>1
          <5> QED
            BY <5>1, <5>2
        <4>5. r - clock + (IF r > s THEN 0 ELSE DayLength)
                = sunset + r - s - (IF r > s THEN DayLength ELSE 0)
          <5> HIDE DEF sunset, r, s
          <5> QED
            BY <1>1, <3>2, Constants
        <4> QED
          BY <4>4, <4>5
      <3> QED
        BY <2>5, <3>1, <3>2
    <2> HIDE DEF sunset, sunrise, shift
    <2>7. ~SunsetOver'
      BY <1>1, <2>2, <2>5, Constants DEF SunsetOver
    <2>8. sunset <= DayLength
      BY <1>1, <2>5, Constants
    <2>9. EventsKnown'
      BY <1>2, <2>2, <2>5, <2>6, <2>8 DEF EventsKnown, SunriseOf, Clamped
    <2> QED
      BY <2>7, <2>9
  <1> QED
    BY <1>3, <1>4

\* A sunrise comes before its sunset.
LEMMA SunriseFirst ==
  ASSUME IInv, phase = "started", EventsKnown, ~SunsetOver
  PROVE  events["SUNRISE"] <= events["SUNSET"]
  <1>1. /\ SunTime("SUNRISE") \in 0 .. DayLength - 1 /\ SunTime("SUNSET") \in 0 .. DayLength - 1
        /\ events["SUNSET"] \in Past .. 2 * DayLength
    BY SunTypes
  <1> QED
    BY <1>1, Constants DEF EventsKnown, SunriseOf, Clamped, SunsetOver

LEMMA SunCheck ==
  ASSUME IInv, IInv', SunInv, AlarmExpires
  PROVE  SunInv'
  <1>1. /\ phase = "started" /\ CheckDaytime
        /\ UNCHANGED <<locVars, dayQ, clock, phase, confVars>>
    BY DEF AlarmExpires
  <1>2. ASSUME LocRead'
        PROVE  /\ (SunsetOver \/ EventsKnown)'
               /\ (alarm # 0 /\ ~in_event /\ offset = 0 => ~SunsetOver /\ alarm > 0 /\ ToldSun)'
    <2>1. LocRead
      BY <1>1, <1>2 DEF LocRead
    <2>2. ~SunsetOver' /\ EventsKnown'
      BY <1>1, <2>1, NextEventsKnown DEF SunInv, CheckDaytime, locVars, confVars
    <2> DEFINE R == events'["SUNRISE"]
               S == events'["SUNSET"]
    <2>3. R \in Past .. 2 * DayLength /\ S \in Past .. 2 * DayLength
      BY DEF IInv, DayTypeOK, DayEvents
    <2>4. S + EventDuration > 1
      BY <2>2, <2>3, Constants DEF SunsetOver
    <2>5. ASSUME ~in_event', offset' = 0
          PROVE  alarm' > 0 /\ ToldSun'
      <3>1. /\ day_time' = IF IsNight(events') THEN "NIGHT" ELSE "DAY"
            /\ next_event' = NextEvent(events')
            /\ in_event' = Near(events'[next_event'])
            /\ alarm' = SetTimeout(events'[next_event'] + offset + TimeRange(events'[next_event']))
        BY <1>1 DEF CheckDaytime
      <3>2. offset = 0 /\ ~Near(events'[next_event'])
        BY <1>1, <2>5, <3>1 DEF confVars
      <3>3. CASE 1 < R + EventDuration
        <4>1. events'[next_event'] = R
          BY <3>1, <3>3 DEF NextEvent
        <4>2. R > 1 + EventDuration
          BY <2>3, <3>2, <3>3, <4>1, Constants DEF Near
        <4>3. day_time' = "NIGHT"
          <5>1. 1 < R
            BY <2>3, <4>2, Constants
          <5> QED
            BY <3>1, <5>1 DEF IsNight
        <4>4. alarm' = R - EventDuration
          <5>1. alarm' = SetTimeout(R + 0 + (-EventDuration))
            BY <3>1, <3>2, <4>1 DEF TimeRange
          <5> QED
            BY <2>3, <4>2, <5>1, Constants DEF SetTimeout
        <4> QED
          BY <2>3, <4>2, <4>3, <4>4, Constants DEF ToldSun
      <3>4. CASE ~(1 < R + EventDuration)
        <4>1. events'[next_event'] = S
          BY <3>1, <3>4 DEF NextEvent
        <4>2. S > 1 + EventDuration
          BY <2>3, <2>4, <3>2, <4>1, Constants DEF Near
        <4>3. R <= 0
          BY <2>3, <3>4, Constants
        <4>4. day_time' = "DAY"
          <5>1. ~(1 > S) /\ ~(1 < R)
            BY <2>3, <4>2, <4>3, Constants
          <5> QED
            BY <3>1, <5>1 DEF IsNight
        <4>5. alarm' = S - EventDuration
          <5>1. alarm' = SetTimeout(S + 0 + (-EventDuration))
            BY <3>1, <3>2, <4>1 DEF TimeRange
          <5> QED
            BY <2>3, <4>2, <5>1, Constants DEF SetTimeout
        <4> QED
          BY <2>3, <4>2, <4>3, <4>4, <4>5, Constants DEF ToldSun
      <3> QED
        BY <3>3, <3>4
    <2> QED
      BY <2>2, <2>5
  <1> QED
    BY <1>1, <1>2 DEF SunInv

LEMMA SunTick ==
  ASSUME IInv, IInv', SunInv, Tick
  PROVE  SunInv'
  <1>1. phase = "started" /\ UNCHANGED <<locVars, dayQ, phase, confVars, day_time, in_event>>
    BY DEF Tick
  <1>2. UNCHANGED <<SunTime("SUNRISE"), SunTime("SUNSET")>>
    BY <1>1 DEF SunTime, locVars, confVars
  <1> DEFINE r == SunTime("SUNRISE")
             s == SunTime("SUNSET")
             R == events["SUNRISE"]
             S == events["SUNSET"]
             Rn == events'["SUNRISE"]
             Sn == events'["SUNSET"]
  <1>3. /\ r \in 0 .. DayLength - 1 /\ s \in 0 .. DayLength - 1 /\ clock \in 0 .. DayLength - 1
        /\ R \in Past .. 2 * DayLength /\ S \in Past .. 2 * DayLength
    BY <1>1, SunTypes
  <1>4. /\ Rn = IF R > Past THEN R - 1 ELSE Past
        /\ Sn = IF S > Past THEN S - 1 ELSE Past
        /\ alarm' = IF alarm > 0 THEN alarm - 1 ELSE alarm
    BY DEF Tick, DayEvents
  <1>5. clock' = IF clock + 1 = DayLength THEN 0 ELSE clock + 1
    BY <1>3, NextSecond DEF Tick, TimeOfDay
  <1>6. alarm \in Int
    BY Constants DEF IInv, DayTypeOK, Off
  <1>7. ASSUME LocRead', ~SunsetOver'
        PROVE  ~SunsetOver /\ EventsKnown'
    <2>1. LocRead
      BY <1>1, <1>7 DEF LocRead
    <2> HIDE DEF r, s, R, S, Rn, Sn
    <2>2. Sn + EventDuration > 1
      <3>1. ~(1 >= Sn + EventDuration)
        BY <1>7 DEF SunsetOver, Sn
      <3> QED
        BY <1>3, <1>4, <3>1, Constants
    <2>3. S > Past /\ Sn = S - 1 /\ S + EventDuration > 1
      BY <1>3, <1>4, <2>2, Constants
    <2>4. ~SunsetOver
      BY <1>3, <2>3, Constants DEF SunsetOver, S
    <2>5. EventsKnown
      BY <1>1, <2>1, <2>4 DEF SunInv
    <2>6. /\ S <= DayLength
          /\ S = s - clock - DayLength \/ S = s - clock \/ S = s - clock + DayLength
          /\ R = Clamped(S + r - s - (IF r > s THEN DayLength ELSE 0))
      BY <2>5 DEF EventsKnown, SunriseOf, S, R, s, r
    <2>7. Sn <= DayLength
      BY <1>3, <2>3, <2>6, Constants
    <2>8. Sn = s - clock' - DayLength \/ Sn = s - clock' \/ Sn = s - clock' + DayLength
      BY <1>3, <1>5, <2>2, <2>3, <2>6, Constants
    <2>9. Rn = Clamped(Sn + r - s - (IF r > s THEN DayLength ELSE 0))
      BY <1>3, <1>4, <2>3, <2>6, Constants DEF Clamped
    <2>10. EventsKnown'
      BY <1>2, <2>7, <2>8, <2>9 DEF EventsKnown, SunriseOf, Clamped, Sn, Rn, s, r
    <2> QED
      BY <2>4, <2>10
  <1>8. ASSUME LocRead', alarm' # 0, ~in_event', offset' = 0
        PROVE  ~SunsetOver' /\ alarm' > 0 /\ ToldSun'
    <2>1. LocRead /\ ~in_event /\ offset = 0
      BY <1>1, <1>8 DEF LocRead, confVars
    <2>2. alarm # 0
      BY <1>4, <1>8
    <2>3. ~SunsetOver /\ alarm > 0 /\ ToldSun
      BY <1>1, <2>1, <2>2 DEF SunInv
    <2>4. EventsKnown
      BY <1>1, <2>1, <2>3 DEF SunInv
    <2>5. R <= S
      BY <1>1, <2>3, <2>4, SunriseFirst
    <2>6. alarm' = alarm - 1 /\ alarm' > 0
      BY <1>4, <1>6, <1>8, <2>3
    <2>7. \/ day_time = "NIGHT" /\ R > 0 /\ alarm = R - EventDuration
          \/ day_time = "DAY" /\ R <= 0 /\ S > 0 /\ alarm = S - EventDuration
      BY <2>3 DEF ToldSun
    <2> HIDE DEF R, S, Rn, Sn
    <2>8. CASE day_time = "NIGHT" /\ R > 0 /\ alarm = R - EventDuration
      <3>1. Rn > 0 /\ alarm' = Rn - EventDuration /\ Sn + EventDuration > 1
        BY <1>3, <1>4, <2>5, <2>6, <2>8, Constants
      <3>2. ToldSun'
        BY <1>1, <2>8, <3>1 DEF ToldSun, Rn
      <3>3. ~SunsetOver'
        BY <1>3, <1>4, <3>1, Constants DEF SunsetOver, Sn
      <3> QED
        BY <2>6, <3>2, <3>3
    <2>9. CASE day_time = "DAY" /\ R <= 0 /\ S > 0 /\ alarm = S - EventDuration
      <3>1. Rn <= 0 /\ Sn > 0 /\ alarm' = Sn - EventDuration /\ Sn + EventDuration > 1
        BY <1>3, <1>4, <2>6, <2>9, Constants
      <3>2. ToldSun'
        BY <1>1, <2>9, <3>1 DEF ToldSun, Rn, Sn
      <3>3. ~SunsetOver'
        BY <1>3, <1>4, <3>1, Constants DEF SunsetOver, Sn
      <3> QED
        BY <2>6, <3>2, <3>3
    <2> QED
      BY <2>7, <2>8, <2>9
  <1> QED
    BY <1>1, <1>7, <1>8 DEF SunInv

-----------------------------------------------------------------------------
\* A message that is published stays unread, and those before it keep their kinds.
LEMMA PublishKinds ==
  ASSUME NEW S, NEW q \in Seq(S), NEW kind, NEW arg
  PROVE  /\ Len(Publish(q, kind, arg)) = Len(q) + 1
         /\ Publish(q, kind, arg)[Len(q) + 1].kind = kind
         /\ \A i \in 1 .. Len(q) : Publish(q, kind, arg)[i].kind = q[i].kind
  <1> DEFINE msg == [kind |-> kind, arg |-> arg]
             rewritten == [i \in DOMAIN q |-> IF q[i].kind = kind THEN msg ELSE q[i]]
  <1>1. rewritten \in Seq(S \cup {msg})
    <2>1. Len(q) \in Nat /\ DOMAIN rewritten = 1..Len(q)
      OBVIOUS
    <2>2. \A i \in 1..Len(q) : rewritten[i] \in S \cup {msg}
      OBVIOUS
    <2> QED
      BY <2>1, <2>2, IsASeq
  <1>2. Len(q) \in Nat /\ Len(rewritten) = Len(q)
    <2>1. Len(q) \in Nat /\ DOMAIN rewritten = 1 .. Len(q)
      OBVIOUS
    <2>2. DOMAIN rewritten = 1 .. Len(rewritten) /\ Len(rewritten) \in Nat
      <3> HIDE DEF rewritten
      <3> QED
        BY <1>1
    <2> HIDE DEF rewritten
    <2> QED
      BY <2>1, <2>2
  <1>3. \A i \in 1 .. Len(q) : rewritten[i].kind = q[i].kind
    OBVIOUS
  <1>4. Publish(q, kind, arg) = Append(rewritten, msg)
    BY DEF Publish
  <1>5. msg.kind = kind
    OBVIOUS
  <1> HIDE DEF rewritten, msg
  <1> QED
    BY <1>1, <1>2, <1>3, <1>4, <1>5

\* A move is told: once DAYTIME has read all of LOCATION's, it knows the place.
LEMMA MovesAreTold ==
  ASSUME IInv, Locate, LocRead'
  PROVE  LocRead /\ UNCHANGED current_loc
  <1>1. dayQ \in Seq(DayMsg)
    BY DEF IInv, LocInv
  <1>2. ASSUME NEW l, dayQ' = Publish(dayQ, "LOC_UPD", l) PROVE FALSE
    <2>1. Len(dayQ) \in Nat
      BY <1>1
    <2>2. Len(dayQ') = Len(dayQ) + 1 /\ dayQ'[Len(dayQ) + 1].kind = "LOC_UPD"
      BY <1>1, <1>2, PublishKinds
    <2>3. Len(dayQ) + 1 \in 1 .. Len(dayQ')
      BY <2>1, <2>2
    <2> QED
      BY <2>2, <2>3 DEF LocRead
  <1>3. UNCHANGED <<dayQ, current_loc>>
    BY <1>2 DEF Locate, GetClientReply, ReceiveLocationReq, TimerExpires,
               GeoclueLocation, UserLocation
  <1> QED
    BY <1>3 DEF LocRead

\* What SunInv is about does not change, nor what is left to read.
LEMMA SunKept ==
  ASSUME SunInv, LocRead' => LocRead /\ UNCHANGED current_loc,
         UNCHANGED <<clock, phase, confVars, sunVars, alarm>>
  PROVE  SunInv'
  <1>1. SunsetOver' = SunsetOver
    BY DEF SunsetOver, sunVars
  <1>2. ASSUME LocRead' PROVE EventsKnown' = EventsKnown /\ ToldSun' = ToldSun
    BY <1>2 DEF EventsKnown, ToldSun, SunriseOf, Clamped, SunTime, confVars, sunVars
  <1> QED
    BY <1>1, <1>2 DEF SunInv, confVars, sunVars

\* A timer that expires now, with a sunset that is over or forgotten.
LEMMA SunAnew ==
  ASSUME SunsetOver', alarm' = 0 \/ phase' # "started"
  PROVE  SunInv'
  BY DEF SunInv

LEMMA SunForgotten ==
  ASSUME IInv, ResetDaytime
  PROVE  SunInv'
  <1>1. events'["SUNSET"] = Past /\ alarm' = 0
    BY DEF ResetDaytime, IInv, DayTypeOK, DayEvents
  <1>2. SunsetOver'
    BY <1>1, Constants DEF SunsetOver
  <1> QED
    BY <1>1, <1>2, SunAnew

LEMMA SunStep == IInv /\ IInv' /\ SunInv /\ [Next]_vars => SunInv'
  <1> SUFFICES ASSUME IInv, IInv', SunInv, [Next]_vars PROVE SunInv'
    OBVIOUS
  <1>1. CASE Start
    <2>1. UNCHANGED <<current_loc, dayQ, clock, confVars>>
      BY <1>1 DEF Start, LoopStarted
    <2>2. CASE loc_alive
      <3>1. UNCHANGED <<phase, sunVars, alarm>>
        BY <1>1, <2>2 DEF Start
      <3> QED
        BY <2>1, <3>1, SunKept DEF LocRead
    <2>3. CASE ~loc_alive
      <3>1. alarm' = 0 /\ UNCHANGED events
        BY <1>1, <2>3 DEF Start, StartDaytime, sunVars
      <3>2. CASE SunsetOver
        BY <3>1, <3>2, SunAnew DEF SunsetOver
      <3>3. CASE ~SunsetOver
        <4>1. phase = "started"
          BY <3>3 DEF SunInv
        <4>2. ASSUME LocRead' PROVE EventsKnown'
          BY <2>1, <3>1, <3>3, <4>1, <4>2
             DEF SunInv, LocRead, EventsKnown, SunriseOf, Clamped, SunTime, confVars
        <4>3. phase' = "started"
          BY <1>1, <2>3 DEF Start, StartDaytime
        <4> QED
          BY <3>1, <4>2, <4>3 DEF SunInv
      <3> QED
        BY <3>2, <3>3
    <2> QED
      BY <2>2, <2>3
  <1>2. CASE Locate
    BY <1>2, MovesAreTold, SunKept DEF Locate
  <1>3. CASE Reboot
    <2>1. phase' = "waiting" /\ events'["SUNSET"] = Past
      BY <1>3 DEF Reboot, DayEvents
    <2>2. SunsetOver'
      BY <2>1, Constants DEF SunsetOver
    <2> QED
      BY <2>1, <2>2, SunAnew
  <1>4. ASSUME NEW e \in DayEvents, NEW t \in FixedTimes[e], SetEvent(e, t)
        PROVE  SunInv'
    <2>1. dayQ \in Seq(DayMsg) /\ dayQ' = Publish(dayQ, e, t)
      BY <1>4 DEF SetEvent, IInv, LocInv
    <2>2. Len(dayQ) \in Nat
      BY <2>1
    <2>3. /\ Len(dayQ') = Len(dayQ) + 1
          /\ \A i \in 1 .. Len(dayQ) : dayQ'[i].kind = dayQ[i].kind
      BY <2>1, PublishKinds
    <2>4. \A i \in 1 .. Len(dayQ) : i \in 1 .. Len(dayQ')
      BY <2>2, <2>3
    <2>5. LocRead' => LocRead
      BY <2>3, <2>4 DEF LocRead
    <2> QED
      BY <1>4, <2>5, SunKept DEF SetEvent, locVars, confVars
  <1>5. ASSUME NEW os \in Offsets, SetOffset(os) PROVE SunInv'
    BY <1>5, SunForgotten DEF SetOffset
  <1>6. CASE FirstLocation
    <2>1. phase # "started" /\ UNCHANGED events /\ (phase' # "started" \/ alarm' = 0)
      BY <1>6 DEF FirstLocation, StartDaytime, sunVars
    <2>2. SunsetOver'
      BY <2>1 DEF SunInv, SunsetOver
    <2> QED
      BY <2>1, <2>2, SunAnew
  <1>7. CASE Drop
    <2>1. phase # "started" /\ UNCHANGED <<phase, events>>
      BY <1>7 DEF Drop, sunVars
    <2>2. SunsetOver'
      BY <2>1 DEF SunInv, SunsetOver
    <2> QED
      BY <2>1, <2>2, SunAnew
  <1>8. CASE NewLocation \/ NewEventTime
    BY <1>8, SunForgotten DEF NewLocation, NewEventTime
  <1>9. CASE AlarmExpires
    BY <1>9, SunCheck
  <1>10. CASE Tick
    BY <1>10, SunTick
  <1>11. CASE UNCHANGED vars
    BY <1>11, SunKept DEF vars, locVars, LocRead
  <1> QED
    BY <1>1, <1>2, <1>3, <1>4, <1>5, <1>6, <1>7, <1>8, <1>9, <1>10, <1>11 DEF Next

(***************************************************************************)
(* Outside of the events' windows, and unless an offset moves them, what   *)
(* DAYTIME tells is what the sun does at the place the computer is at: for *)
(* any sunrise and sunset, the sunrise that falls after its sunset and     *)
(* days that end within an event included, and however long the computer   *)
(* sleeps.  It needs to know what the timer was armed for, since day and   *)
(* night are not looked at again before it expires.                        *)
(***************************************************************************)
THEOREM DayIsDay == Spec => []DayFollowsSun
  <1>1. Init => SunInv
    <2> SUFFICES ASSUME Init PROVE SunInv
      OBVIOUS
    <2>1. phase = "waiting" /\ events["SUNSET"] = Past
      BY DEF Init, DayInit, DayEvents
    <2> QED
      BY <2>1, Constants DEF SunInv, SunsetOver
  <1>2. IInv /\ SunInv => DayFollowsSun
    <2> SUFFICES ASSUME IInv, SunInv, Settled, ~in_event, offset = 0
                 PROVE  day_time = "DAY" <=> Between(SunTime("SUNRISE"), clock, SunTime("SUNSET"))
      BY DEF DayFollowsSun
    <2>1. phase = "started" /\ alarm # 0 /\ Len(dayQ) = 0
      BY DEF Settled, Running
    <2>2. LocRead
      <3>1. 1 .. 0 = {}
        OBVIOUS
      <3> QED
        BY <2>1, <3>1 DEF LocRead
    <2>3. EventsKnown /\ alarm > 0 /\ ToldSun
      BY <2>1, <2>2 DEF SunInv
    <2> QED
      BY <2>1, <2>3, ToldIsTrue
  <1> QED
    BY <1>1, <1>2, InvInit, InvStep, SunStep, PTL DEF Spec
=============================================================================
