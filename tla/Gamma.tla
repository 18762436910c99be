------------------------------- MODULE Gamma -------------------------------
(***************************************************************************)
(* GAMMA: the temperature of the screen follows the time of the day, as    *)
(* DAYTIME tells it, or the backlight, in ambient mode.  A long transition *)
(* lasts for a whole sunrise or sunset, and DAYTIME is not listened to     *)
(* while it does.  Paused, the module remembers that DAYTIME told.         *)
(*                                                                         *)
(* The day has six parts: 0 is day, 1 and 2 are sunset, before it and      *)
(* after, 3 is night, 4 and 5 are sunrise.  Levels of backlight are small  *)
(* numbers, and only the level a transition leads to is told.              *)
(***************************************************************************)
EXTENDS Integers, Sequences

CONSTANTS
  MaxTemp,    \* temperatures are 1 .. MaxTemp
  MaxLevel,   \* levels of the backlight are 0 .. MaxLevel
  Awake,      \* parts of the day that go by between two alarms of DAYTIME
  Asleep,     \* and while the computer is suspended
  MaxPending  \* messages unread beyond which nothing else happens

Temps == 1 .. MaxTemp
Levels == 0 .. MaxLevel
Days == {"DAY", "NIGHT"}
None == 0       \* no temperature: the screen's own, or "as configured" in a request

ASSUME GammaAssumption ==
  /\ MaxTemp \in Nat \ {0} /\ MaxLevel \in Nat \ {0} /\ MaxPending \in Nat \ {0}
  /\ Awake \subseteq -5 .. 12 /\ Asleep \subseteq -5 .. 12

VARIABLES
  sun,                \* the part of the day at DAYTIME's last alarm
  daytime,            \* DAYTIME: "waiting", "started" or "stopped" without a location
  new_day,            \* the date is not that of on_daytime_req's last call
  suspended,          \* state.suspended
  display_on,         \* ~ state.display_state
  current_bl_pct,     \* state.current_bl_pct
  bl_target,          \* where the backlight's transition leads
  conf_temp,          \* conf.gamma_conf.temp
  ambient_gamma, long_transition,  \* conf.gamma_conf
  gammaQ,             \* the pipe of GAMMA
  phase,              \* "waiting", "running", "paused" or "dead"
  should_sync_temp, long_transitioning,
  toggled,            \* is_toggled
  target,             \* what Clightd was told last
  current_temp,       \* state.current_temp
  missed              \* history: the target is not what GAMMA would set now, see SetTemp and Miss

envVars == <<sun, daytime, suspended, display_on, current_bl_pct, bl_target>>
confVars == <<conf_temp, ambient_gamma>>
syncVars == <<new_day, should_sync_temp>>
setVars == <<long_transitioning, target, missed>>
vars == <<envVars, confVars, long_transition, gammaQ, phase, syncVars, setVars, toggled, current_temp>>

Msg == [kind : {"DAYTIME_UPD", "NEXT_DAYEVT_UPD", "SYNC", "SUSPEND_UPD"}]
       \cup [kind : {"BL_UPD"}, new : Levels] \cup [kind : {"AMB_GAMMA_REQ"}, new : BOOLEAN]
       \cup [kind : {"TEMP_REQ"}, new : Temps \cup {None}, daytime : Days]
       \cup [kind : {"HOTPLUG"}, new : Temps \cup {None}]

TypeOK ==
  /\ sun \in 0 .. 5 /\ daytime \in {"waiting", "started", "stopped"}
  /\ {suspended, display_on, ambient_gamma, long_transition, new_day, should_sync_temp,
      long_transitioning, toggled, missed} \subseteq BOOLEAN
  /\ current_bl_pct \in Levels /\ bl_target \in Levels
  /\ conf_temp \in [Days -> Temps]
  /\ gammaQ \in Seq(Msg)
  /\ phase \in {"waiting", "running", "paused", "dead"}
  /\ phase \in {"running", "paused"} => daytime = "started"
  /\ target \in Temps \cup {None} /\ current_temp \in Temps \cup {None}

Init ==
  /\ sun \in 0 .. 5 /\ daytime = "waiting" /\ new_day = TRUE
  /\ suspended = FALSE /\ display_on = TRUE
  /\ current_bl_pct \in Levels /\ bl_target = current_bl_pct
  /\ conf_temp \in [Days -> Temps] /\ ambient_gamma \in BOOLEAN /\ long_transition \in BOOLEAN
  /\ gammaQ = <<>> /\ phase = "waiting"
  /\ should_sync_temp = FALSE /\ long_transitioning = FALSE /\ toggled = FALSE
  /\ target = None /\ current_temp = None /\ missed = TRUE

DayTime == IF sun \in {0, 1, 5} THEN "DAY" ELSE "NIGHT"
Other(day) == CHOOSE d \in Days : d # day
InEvent == sun \notin {0, 3}
BeforeEvent == sun \in {1, 4}
NextEvent(s) == IF s \in {0, 1, 2} THEN "SUNSET" ELSE "SUNRISE"

-----------------------------------------------------------------------------
\* What happens elsewhere.  A publisher's message is static: its copies in flight change with it.
Publish(q, msg) == Append([i \in DOMAIN q |-> IF q[i].kind = msg.kind THEN msg ELSE q[i]], msg)
Quiet == Len(gammaQ) < MaxPending

\* check_daytime, and the end of waiting without a location.
Told(changes) ==
  (IF "daytime" \in changes THEN <<[kind |-> "DAYTIME_UPD"]>> ELSE <<>>)
  \o (IF "event" \in changes THEN <<[kind |-> "NEXT_DAYEVT_UPD"]>> ELSE <<>>)
  \o <<[kind |-> "SYNC"]>>

DaytimeStarts ==
  /\ daytime = "waiting"
  /\ \/ daytime' = "started" /\ gammaQ' = gammaQ \o Told({"daytime", "event"})
     \/ daytime' = "stopped" /\ gammaQ' = Append(gammaQ, [kind |-> "DAYTIME_UPD"])
  /\ UNCHANGED <<sun, new_day, suspended, display_on, current_bl_pct, bl_target>>

\* Midnight is in the last part of the night.
DaytimeGoesOn ==
  /\ daytime = "started" /\ Quiet
  /\ \E parts \in IF suspended THEN Asleep ELSE Awake :
       /\ sun' = (sun + parts) % 6
       /\ new_day' = (new_day \/ \E p \in 0 .. parts - 1 : (sun + p) % 6 = 3)
  /\ gammaQ' = gammaQ \o Told((IF DayTime' # DayTime THEN {"daytime"} ELSE {})
                              \cup (IF NextEvent(sun') # NextEvent(sun) THEN {"event"} ELSE {}))
  /\ UNCHANGED <<daytime, suspended, display_on, current_bl_pct, bl_target>>

\* PM's SUSPEND_UPD.
SuspendedChanges ==
  /\ Quiet /\ suspended' = ~suspended
  /\ gammaQ' = Publish(gammaQ, [kind |-> "SUSPEND_UPD"])
  /\ UNCHANGED <<sun, daytime, new_day, display_on, current_bl_pct, bl_target>>

DisplayChanges ==
  /\ display_on' = ~display_on
  /\ UNCHANGED <<sun, daytime, new_day, suspended, current_bl_pct, bl_target, gammaQ>>

\* BACKLIGHT starts a transition; each of its messages is its own.
BacklightChanges ==
  /\ Quiet
  /\ \E l \in Levels : bl_target' = l /\ gammaQ' = Append(gammaQ, [kind |-> "BL_UPD", new |-> l])
  /\ UNCHANGED <<sun, daytime, new_day, suspended, display_on, current_bl_pct>>

BacklightArrives ==
  /\ current_bl_pct' = bl_target
  /\ UNCHANGED <<sun, daytime, new_day, suspended, display_on, bl_target, gammaQ>>

\* set_gamma, set_ambgamma, and on_delayed_interface of BACKLIGHT after a monitor was plugged in.
Asks ==
  /\ Quiet
  /\ \/ \E t \in Temps \cup {None}, d \in Days :
          gammaQ' = Publish(gammaQ, [kind |-> "TEMP_REQ", new |-> t, daytime |-> d])
     \/ \E b \in BOOLEAN : gammaQ' = Publish(gammaQ, [kind |-> "AMB_GAMMA_REQ", new |-> b])
     \/ gammaQ' = Append(gammaQ, [kind |-> "HOTPLUG", new |-> current_temp])
  /\ UNCHANGED <<envVars, new_day>>

Elsewhere ==
  /\ \/ DaytimeStarts \/ DaytimeGoesOn \/ SuspendedChanges \/ DisplayChanges
     \/ BacklightChanges \/ BacklightArrives \/ Asks
  /\ UNCHANGED <<confVars, long_transition, phase, should_sync_temp, setVars, toggled, current_temp>>

\* The property LongTransition is written in place.
SetLongTransition ==
  /\ long_transition' = ~long_transition
  /\ UNCHANGED <<envVars, confVars, gammaQ, phase, syncVars, setVars, toggled, current_temp>>

-----------------------------------------------------------------------------
(***************************************************************************)
(* set_temp.  Inside an event, and when the caller tells the time, it is a *)
(* long transition to where the event leads.  Clightd may fail.  A         *)
(* temperature is wanted when it is that of the time or of the backlight.  *)
(***************************************************************************)
SetTemp(temp, timed, wanted) ==
  LET long == long_transition /\ timed /\ InEvent IN
  /\ long_transitioning' = long
  /\ \/ /\ target' = IF long /\ BeforeEvent THEN conf_temp[Other(DayTime)] ELSE temp
        /\ missed' = ~wanted
     \/ UNCHANGED target /\ missed' = TRUE

\* ambient_callback, whose caller stores the configuration first.
Ambient(conf, pct) ==
  LET low == IF conf["NIGHT"] < conf["DAY"] THEN "NIGHT" ELSE "DAY"
  IN  conf[low] + ((conf[Other(low)] - conf[low]) * pct) \div MaxLevel
Miss == missed' = (missed \/ ambient_gamma') /\ UNCHANGED <<target, long_transitioning>>
AmbientCallback(pct, now) ==
  IF ambient_gamma' /\ display_on THEN SetTemp(Ambient(conf_temp', pct), FALSE, now) ELSE Miss

\* Where the backlight is in its transition is not where it goes.
AmbientNow == AmbientCallback(current_bl_pct, current_bl_pct = bl_target)

\* on_daytime_req.
OnDaytimeReq ==
  /\ new_day' = FALSE
  /\ IF (~long_transitioning \/ new_day) /\ ~ambient_gamma
       THEN SetTemp(conf_temp[DayTime], TRUE, TRUE)
       ELSE /\ long_transitioning' = (long_transitioning /\ ~new_day)
            /\ UNCHANGED <<target, missed>>

\* Mutant: a DAYTIME that has stopped is as good as one that has started.
FirstDaytimeAny(m) ==
  /\ phase = "waiting"
  /\ phase' = IF m.kind # "DAYTIME_UPD" THEN "waiting" ELSE "running"
  /\ UNCHANGED <<confVars, syncVars, setVars>>

\* receive_waiting_daytime.
FirstDaytime(m) ==
  /\ phase = "waiting"
  /\ phase' = IF m.kind # "DAYTIME_UPD" THEN "waiting"
              ELSE IF daytime = "stopped" THEN "dead" ELSE "running"
  /\ UNCHANGED <<confVars, syncVars, setVars>>

BlUpd(m) ==
  /\ m.kind = "BL_UPD" /\ UNCHANGED <<confVars, syncVars, phase>>
  /\ IF phase = "running" THEN AmbientCallback(m.new, TRUE) ELSE Miss

Sync(m) ==
  /\ m.kind = "SYNC" /\ UNCHANGED <<confVars, phase>>
  /\ IF phase = "running"
       THEN OnDaytimeReq /\ UNCHANGED should_sync_temp
       ELSE should_sync_temp' = TRUE /\ UNCHANGED <<new_day, setVars>>

NewDayEvent(m) ==
  /\ m.kind = "NEXT_DAYEVT_UPD" /\ long_transitioning' = FALSE
  /\ UNCHANGED <<target, missed, confVars, syncVars, phase>>

\* interface_callback, after validate_temp; ambient mode looks at where the backlight is.
TempReq(m) ==
  LET day == IF m.kind = "HOTPLUG" THEN DayTime ELSE m.daytime IN
  /\ m.kind \in {"TEMP_REQ", "HOTPLUG"} /\ phase = "running"
  /\ UNCHANGED <<ambient_gamma, syncVars, phase>>
  /\ conf_temp' = [conf_temp EXCEPT ![day] = IF m.new = None THEN @ ELSE m.new]
  /\ IF ~ambient_gamma /\ day = DayTime THEN SetTemp(conf_temp'[day], FALSE, TRUE) ELSE AmbientNow

\* on_ambgamma_req, after validate_ambgamma.
AmbGammaReq(m) ==
  /\ m.kind = "AMB_GAMMA_REQ" /\ phase = "running" /\ m.new # ambient_gamma
  /\ ambient_gamma' = m.new /\ UNCHANGED <<conf_temp, syncVars, phase>>
  /\ IF m.new THEN AmbientNow ELSE SetTemp(conf_temp[DayTime], FALSE, TRUE)

\* Mutant: what DAYTIME told meanwhile is forgotten.
PauseForgetting ==
  /\ phase' = IF suspended THEN "paused" ELSE "running"
  /\ UNCHANGED <<syncVars, setVars>>

\* pause_mod.
PauseMod ==
  /\ phase' = IF suspended THEN "paused" ELSE "running"
  /\ IF phase = "paused" /\ ~suspended /\ should_sync_temp
       THEN should_sync_temp' = FALSE /\ OnDaytimeReq
       ELSE UNCHANGED <<syncVars, setVars>>

\* A paused module drops the requests of others, a running one that for the mode it is in.
Dropped(m) ==
  /\ \/ phase = "paused" /\ m.kind \in {"TEMP_REQ", "HOTPLUG", "AMB_GAMMA_REQ"}
     \/ phase = "running" /\ m.kind = "AMB_GAMMA_REQ" /\ m.new = ambient_gamma
  /\ UNCHANGED <<confVars, syncVars, setVars, phase>>

Receive ==
  /\ gammaQ # <<>> /\ gammaQ' = Tail(gammaQ)
  /\ LET m == Head(gammaQ) IN
       \/ FirstDaytime(m)
       \/ /\ phase \in {"running", "paused"}
          /\ \/ BlUpd(m) \/ Sync(m) \/ NewDayEvent(m) \/ TempReq(m) \/ AmbGammaReq(m)
             \/ m.kind = "SUSPEND_UPD" /\ PauseMod /\ UNCHANGED confVars
             \/ m.kind = "DAYTIME_UPD" /\ UNCHANGED <<confVars, syncVars, setVars, phase>>
             \/ Dropped(m)
       \/ phase = "dead" /\ UNCHANGED <<confVars, syncVars, setVars, phase>>
  /\ UNCHANGED <<envVars, long_transition, toggled, current_temp>>

\* on_temp_changed: Clightd goes towards the target, step by step.
OnTempChanged ==
  /\ phase \in {"running", "paused"} /\ target # None
  /\ current_temp' \in IF current_temp <= target THEN current_temp + 1 .. target ELSE target .. current_temp - 1
  /\ UNCHANGED <<envVars, confVars, long_transition, gammaQ, phase, syncVars, setVars, toggled>>

\* method_toggle_gamma, which may be called at any time.
ToggleGamma ==
  /\ daytime # "waiting" /\ phase # "dead"
  /\ toggled' = ~toggled
  /\ SetTemp(conf_temp[IF toggled THEN DayTime ELSE Other(DayTime)], FALSE, FALSE)
  /\ UNCHANGED <<envVars, confVars, long_transition, gammaQ, phase, syncVars, current_temp>>

Next == Elsewhere \/ SetLongTransition \/ Receive \/ OnTempChanged \/ ToggleGamma

Spec == Init /\ [][Next]_vars

-----------------------------------------------------------------------------
(***************************************************************************)
(* With its pipe read, what GAMMA set is the temperature of the time, or   *)
(* in ambient mode that of the backlight, unless it set nothing for it: no *)
(* sequence of events, suspensions and requests leaves a long transition   *)
(* behind, or a temperature of the time before.                            *)
(***************************************************************************)
TempFollows ==
  phase = "running" /\ gammaQ = <<>> /\ ~missed =>
    IF ambient_gamma THEN target = Ambient(conf_temp, bl_target)
    ELSE (long_transitioning /\ InEvent) \/ target = conf_temp[DayTime]
=============================================================================
