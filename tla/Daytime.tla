------------------------------ MODULE Daytime ------------------------------
(***************************************************************************)
(* DAYTIME, composed with LOCATION: is it day or night, and is the sun     *)
(* rising or setting?  The module computes the next sunrise and sunset of  *)
(* its location, publishes what has changed and arms one timer for the     *)
(* next thing to happen: an event begins, takes place, or ends.            *)
(*                                                                         *)
(* Time goes round a small day.  Everything the code compares is compared  *)
(* with the present, so times are kept relative to it: events[e] is e's    *)
(* time minus now, and whatever is over for long is Past.                  *)
(***************************************************************************)
EXTENDS Location, Integers

CONSTANTS
  DayLength,      \* seconds of a day
  SunTimes,       \* sunrise and sunset of each location, seconds into the day
  FixedTimes,     \* the times a user may write for each of the two, NoTime for none
  EventDuration,  \* conf.day_conf.event_duration
  Offsets,        \* the offsets a user may give to both events
  Sleeps          \* TRUE: the computer may sleep over an alarm

DayEvents == {"SUNRISE", "SUNSET"}
TimeOfDay == 0 .. DayLength - 1
Past == -(EventDuration + 1)
Off == -1
NoTime == -1

ASSUME DaytimeAssumption ==
  /\ DayLength \in Nat \ {0}
  /\ SunTimes \in [Locs -> [DayEvents -> TimeOfDay]]
  /\ FixedTimes \in [DayEvents -> SUBSET (TimeOfDay \cup {NoTime})]
  /\ EventDuration \in 1 .. DayLength - 1
  /\ Offsets \subseteq -DayLength .. DayLength /\ 0 \in Offsets
  /\ Sleeps \in BOOLEAN

VARIABLES
  clock,       \* the time of the day
  phase,       \* DAYTIME: "waiting" for a location, "started" or "stopped"
  fixed,       \* conf.day_conf.day_events: fixed times, or NoTime
  offset,      \* conf.day_conf.events_os
  events,      \* state.day_events, relative to now
  day_time,    \* state.day_time
  next_event,  \* state.next_event
  in_event,    \* state.in_event
  alarm        \* day_fd: seconds left, 0 once expired, or Off

confVars == <<fixed, offset>>
sunVars == <<events, day_time, next_event, in_event>>
vars == <<locVars, dayQ, clock, phase, confVars, sunVars, alarm>>

TypeOK ==
  /\ LocTypeOK
  /\ dayQ \in Seq([kind : {"LOC_UPD"}, arg : Locs \cup {NoLoc}]
                  \cup [kind : DayEvents, arg : TimeOfDay \cup {NoTime}])
  /\ clock \in TimeOfDay
  /\ phase \in {"waiting", "started", "stopped"}
  /\ fixed \in [DayEvents -> TimeOfDay \cup {NoTime}]
  /\ offset \in Offsets
  /\ events \in [DayEvents -> Past .. 2 * DayLength]
  /\ day_time \in {"UNKNOWN", "DAY", "NIGHT"}
  /\ next_event \in DayEvents \cup {"UNKNOWN"}
  /\ in_event \in BOOLEAN
  /\ alarm \in {Off} \cup 0 .. 4 * DayLength

DayInit ==
  /\ phase = "waiting"
  /\ fixed = [e \in DayEvents |-> NoTime]
  /\ offset \in Offsets
  /\ events = [e \in DayEvents |-> Past]
  /\ day_time = "UNKNOWN" /\ next_event = "UNKNOWN" /\ in_event = FALSE
  /\ alarm = Off

Init == LocInit /\ cache = NoLoc /\ clock \in TimeOfDay /\ DayInit

-----------------------------------------------------------------------------
\* calculate_sunrise, calculate_sunset: fixed by the user, or the location's.
SunTime(e) == IF fixed[e] # NoTime THEN fixed[e] ELSE SunTimes[current_loc][e]
Calculate(e, dayshift) ==
  LET t == SunTime(e) - clock + dayshift * DayLength IN IF t < Past THEN Past ELSE t

\* Mutant: today's events are computed even when they are over.
NextEventsToday ==
  IF 1 >= events["SUNSET"] + EventDuration
    THEN [e \in DayEvents |-> Calculate(e, 0)]
    ELSE events

(***************************************************************************)
(* get_next_events: a new day's events once the sunset's event is over,    *)
(* tomorrow's if today's is too.  A sunrise that falls after its sunset is *)
(* the one of the day before.  "1" is the second the code adds to now.     *)
(***************************************************************************)
NextEvents ==
  LET shift == IF 1 >= Calculate("SUNSET", 0) + EventDuration THEN 1 ELSE 0
      sunset == Calculate("SUNSET", shift)
      early == IF Calculate("SUNRISE", shift) > sunset THEN 1 ELSE 0
  IN  IF 1 >= events["SUNSET"] + EventDuration
        THEN [e \in DayEvents |-> IF e = "SUNSET" THEN sunset
                                  ELSE Calculate("SUNRISE", shift - early)]
        ELSE events

\* check_next_event.
IsNight(ev) == 1 > ev["SUNSET"] \/ 1 < ev["SUNRISE"]
NextEvent(ev) == IF 1 < ev["SUNRISE"] + EventDuration THEN "SUNRISE" ELSE "SUNSET"

Near(t) == 1 - EventDuration <= t /\ t <= 1 + EventDuration

\* check_state: state.event_time_range.
TimeRange(t) ==
  CASE ~Near(t) -> -EventDuration
    [] Near(t) /\ t > 1 -> 0
    [] Near(t) /\ t <= 1 -> EventDuration

\* set_timeout: what is not ahead disarms the timer.
SetTimeout(sec) == IF sec > 0 THEN sec ELSE Off

\* check_daytime.
CheckDaytime ==
  /\ events' = NextEvents
  /\ day_time' = IF IsNight(events') THEN "NIGHT" ELSE "DAY"
  /\ next_event' = NextEvent(events')
  /\ in_event' = Near(events'[next_event'])
  /\ alarm' = LET t == events'[next_event'] IN SetTimeout(t + offset + TimeRange(t))

\* Mutant: the events of the old place stay until they are over.
ResetAlarmOnly == alarm' = 0 /\ UNCHANGED sunVars

\* reset_daytime: forget the sunset, and let the timer expire now.
ResetDaytime ==
  /\ events' = [events EXCEPT !["SUNSET"] = Past]
  /\ alarm' = 0
  /\ UNCHANGED <<day_time, next_event, in_event>>

StartDaytime == phase' = "started" /\ alarm' = 0 /\ UNCHANGED sunVars

-----------------------------------------------------------------------------
\* The loop starts; without LOCATION there is nothing to wait for.
Start ==
  /\ LoopStarted
  /\ IF loc_alive THEN UNCHANGED <<phase, sunVars, alarm>> ELSE StartDaytime
  /\ UNCHANGED <<dayQ, clock, confVars>>

Locate ==
  /\ \/ GetClientReply \/ ReceiveLocationReq \/ TimerExpires
     \/ \E l \in Locs : GeoclueLocation(l) \/ UserLocation(l)
  /\ UNCHANGED <<clock, phase, confVars, sunVars, alarm>>

\* Clight stops or crashes and starts again; the user may have edited the configuration file meanwhile.
Reboot ==
  /\ LoopStopped \/ Crash
  /\ phase' = "waiting"
  /\ fixed' = [e \in DayEvents |-> NoTime]
  /\ offset' \in Offsets
  /\ events' = [e \in DayEvents |-> Past]
  /\ day_time' = "UNKNOWN" /\ next_event' = "UNKNOWN" /\ in_event' = FALSE
  /\ alarm' = Off
  /\ UNCHANGED clock

\* set_event: the Sunrise or Sunset property is written.
SetEvent(e, t) ==
  /\ loop = "running" /\ Len(dayQ) < MaxLocPending
  /\ dayQ' = Publish(dayQ, e, t)
  /\ UNCHANGED <<locVars, clock, phase, fixed, offset, sunVars, alarm>>

\* set_os: the offset is written in place.
SetOffset(os) ==
  /\ loop = "running" /\ phase = "started" /\ os # offset
  /\ offset' = os
  /\ ResetDaytime
  /\ UNCHANGED <<locVars, dayQ, clock, phase, fixed>>

Received(kinds) ==
  /\ loop = "running" /\ dayQ # <<>> /\ Head(dayQ).kind \in kinds
  /\ dayQ' = Tail(dayQ)
  /\ UNCHANGED <<locVars, clock, offset>>

\* receive_waiting_loc: without any location it is DAY, for good.
FirstLocation ==
  /\ phase = "waiting" /\ Received({"LOC_UPD"})
  /\ IF Head(dayQ).arg = NoLoc
       THEN phase' = "stopped" /\ day_time' = "DAY"
            /\ UNCHANGED <<events, next_event, in_event, alarm>>
       ELSE StartDaytime
  /\ UNCHANGED fixed

\* Requests are dropped before that, and everything is once it has stopped.
Drop ==
  /\ \/ phase = "waiting" /\ Received(DayEvents)
     \/ phase = "stopped" /\ Received({"LOC_UPD"} \cup DayEvents)
  /\ UNCHANGED <<phase, fixed, sunVars, alarm>>

NewLocation ==
  /\ phase = "started" /\ Received({"LOC_UPD"})
  /\ ResetDaytime
  /\ UNCHANGED <<phase, fixed>>

NewEventTime ==
  /\ phase = "started" /\ Received(DayEvents)
  /\ fixed' = [fixed EXCEPT ![Head(dayQ).kind] = Head(dayQ).arg]
  /\ ResetDaytime
  /\ UNCHANGED phase

\* receive, FD_UPD.
AlarmExpires ==
  /\ loop = "running" /\ phase = "started" /\ alarm = 0
  /\ CheckDaytime
  /\ UNCHANGED <<locVars, dayQ, clock, phase, confVars>>

\* A second goes by; only a computer that sleeps lets it pass an alarm.  Nothing
\* looks at the time before DAYTIME has started.
Tick ==
  /\ phase = "started" /\ loop = "running"
  /\ alarm # 0 \/ Sleeps
  /\ clock' = (clock + 1) % DayLength
  /\ events' = [e \in DayEvents |-> IF events[e] > Past THEN events[e] - 1 ELSE Past]
  /\ alarm' = IF alarm > 0 THEN alarm - 1 ELSE alarm
  /\ UNCHANGED <<locVars, dayQ, phase, confVars, day_time, next_event, in_event>>

Next == \/ Start \/ Locate \/ Reboot
        \/ \E e \in DayEvents : \E t \in FixedTimes[e] : SetEvent(e, t)
        \/ \E os \in Offsets : SetOffset(os)
        \/ FirstLocation \/ Drop \/ NewLocation \/ NewEventTime
        \/ AlarmExpires \/ Tick

Spec == Init /\ [][Next]_vars

\* The loop reads its pipes, and 30 seconds pass; geoclue owes no answer.
FairSpec ==
  /\ Spec
  /\ WF_vars(ReceiveLocationReq /\ UNCHANGED <<clock, phase, confVars, sunVars, alarm>>)
  /\ WF_vars(TimerExpires /\ UNCHANGED <<clock, phase, confVars, sunVars, alarm>>)
  /\ WF_vars(FirstLocation \/ Drop \/ NewLocation \/ NewEventTime)

-----------------------------------------------------------------------------
Running == loop = "running" /\ phase = "started" /\ current_loc # NoLoc
Settled == Running /\ dayQ = <<>> /\ alarm # 0

(***************************************************************************)
(* DAYTIME is never left without an alarm: whatever changed, and however   *)
(* long the computer slept, day and night keep following one another.      *)
(***************************************************************************)
AlarmSet == Settled => alarm # Off

(***************************************************************************)
(* Outside of the events' windows, it is day between the location's        *)
(* sunrise and sunset and night otherwise, wherever the computer moved.    *)
(***************************************************************************)
Between(a, t, b) == IF a <= b THEN a <= t /\ t < b ELSE a <= t \/ t < b
DayFollowsSun ==
  Settled /\ ~in_event /\ offset = 0 =>
    (day_time = "DAY" <=> Between(SunTime("SUNRISE"), clock, SunTime("SUNSET")))

(***************************************************************************)
(* DAYTIME learns where it is, or that nobody knows, however geoclue, the  *)
(* cache and the 30 seconds race; GAMMA and BACKLIGHT wait for it.         *)
(***************************************************************************)
DaytimeToldWhere == loop = "running" ~> (phase # "waiting" \/ loop # "running")

(***************************************************************************)
(* A location that was cached is in use again after a restart, also where  *)
(* geoclue is missing or its client fails.                                 *)
(***************************************************************************)
CachedLocationUsed ==
  loop = "running" /\ cache # NoLoc /\ loc_alive ~> (current_loc # NoLoc \/ loop # "running")
=============================================================================
