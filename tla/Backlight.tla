----------------------------- MODULE Backlight -----------------------------
(***************************************************************************)
(* BACKLIGHT and SCREEN.  BACKLIGHT captures the ambient brightness when   *)
(* its timer expires, or on request, and sets the backlight for it.  While *)
(* SCREEN knows how bright the screen's content is, BACKLIGHT only         *)
(* captures: SCREEN answers the capture with the screen's brightness, and  *)
(* BACKLIGHT sets the backlight when it hears of that.  Either module is   *)
(* paused for many reasons, each told by a message of another module.      *)
(*                                                                         *)
(* Timeouts are positive ("on") or not; a timer is armed, which stands for *)
(* expired and unread as well, or disarmed.  A paused module takes no part *)
(* in its timer (m_deregister_fd).  Levels are left to Display.            *)
(***************************************************************************)
EXTENDS Integers, Sequences, FiniteSets, ModPause

CONSTANTS
  ScreenConf,  \* is SCREEN configured to work, on AC and on battery: the possible start
  Writable,    \* the timeouts of BACKLIGHT a user writes: pairs of AC state and slot
  lid_pauses,  \* conf.bl_conf.pause_on_lid_closed
  MaxOff,      \* how many things are off, or otherwise than usual, at a time
  MaxPending   \* messages unread beyond which nothing else happens

AcStates == {"ac", "battery"}
Slots == {"DAY", "NIGHT", "IN_EVENT"}
Told == {"DISPLAY", "SUSPEND", "INHIBIT", "LID"}

ASSUME BacklightAssumption ==
  /\ ScreenConf \subseteq [AcStates -> BOOLEAN]
  /\ Writable \subseteq AcStates \X Slots
  /\ lid_pauses \in BOOLEAN
  /\ MaxOff \in Nat /\ MaxPending \in Nat \ {0}

VARIABLES
  ac_state, day_time, in_event,  \* state
  flags,          \* not on, suspended, inhibited (and inhibit_bl), lid closed
  sens_avail,     \* state.sens_avail
  no_auto_calib,  \* conf.bl_conf.no_auto_calib
  bl_on,          \* conf.bl_conf.timeout, by AC state and slot: is it positive?
  scr_on,         \* conf.screen_conf.timeout, by AC state: is it positive?
  contrib,        \* conf.screen_conf.contrib is not 0.0
  ok,             \* BACKLIGHT: whom it has heard of, of those it waits for
  bl_paused,      \* BACKLIGHT: the reasons it is paused for
  bl_armed,       \* bl_fd
  clogged,        \* state.ambient_br is below the threshold
  calibrated,     \* history: the backlight is set for the last capture
  scr,            \* SCREEN: "absent", "waiting" or "running"
  scr_paused,     \* SCREEN: the reasons it is paused for
  scr_armed,      \* screen_fd
  screen_br,      \* state.screen_br is not 0.0
  blQ, scrQ,      \* the two pipes
  slip            \* history: what BACKLIGHT missed, see Start, UPowerCallback and DropCapture

stateVars == <<ac_state, day_time, in_event, flags>>
blConf == <<no_auto_calib, bl_on>>
scrConf == <<scr_on, contrib>>
blVars == <<ok, bl_paused, bl_armed, clogged, calibrated, slip>>
scrVars == <<scr, scr_paused, scr_armed, screen_br>>
vars == <<stateVars, sens_avail, blConf, scrConf, blVars, scrVars, blQ, scrQ>>

Awaited == {"UPOWER", "LID", "DAYTIME", "SCREEN"}
Started == ok = Awaited
BlReasons == Told \cup {"TIMEOUT", "SENSOR", "AUTOCALIB"}
ScrReasons == BlReasons \cup {"CONTRIB", "CLOGGED"}
BlKinds == Told \cup {"UPOWER", "DAYTIME", "IN_EVENT", "SCREEN_BR", "BL_TO_REQ", "NO_AUTOCALIB_REQ",
                      "CAPTURE_REQ", "TIMER"}
ScrKinds == Told \cup {"UPOWER", "SENSOR", "AMBIENT_BR", "AUTOCALIB", "SCR_TO_REQ", "CONTRIB_REQ"}

TypeOK ==
  /\ ac_state \in AcStates /\ day_time \in {"DAY", "NIGHT", "UNKNOWN"}
  /\ {in_event, sens_avail, no_auto_calib, contrib} \subseteq BOOLEAN
  /\ flags \in [Told -> BOOLEAN]
  /\ bl_on \in [AcStates -> [Slots -> BOOLEAN]] /\ scr_on \in [AcStates -> BOOLEAN]
  /\ ok \subseteq Awaited /\ bl_paused \subseteq BlReasons /\ scr_paused \subseteq ScrReasons
  /\ IF Started THEN day_time # "UNKNOWN" ELSE bl_paused = {} /\ ~bl_armed
  /\ scr = "running" \/ (scr_paused = {} /\ ~scr_armed)
  /\ {bl_armed, clogged, calibrated, scr_armed, screen_br} \subseteq BOOLEAN
  /\ scr \in {"absent", "waiting", "running"}
  /\ \A i \in DOMAIN blQ : blQ[i].kind \in BlKinds
  /\ \A i \in DOMAIN scrQ : scrQ[i].kind \in ScrKinds
  /\ slip \subseteq {"DISPLAY", "SUSPEND", "INHIBIT", "TIMEOUT", "CAPTURE"}

\* A publisher's message is static: its copies in flight change with it.
Publish(q, kind, arg) ==
  LET msg == [kind |-> kind, arg |-> arg] IN
    Append([i \in DOMAIN q |-> IF q[i].kind = kind THEN msg ELSE q[i]], msg)
Tell(q, kind) == Publish(q, kind, 0)
NoneUnread(q, kind) == \A i \in DOMAIN q : q[i].kind # kind
TellScreen(kind, arg) == scrQ' = IF scr = "absent" THEN scrQ ELSE Publish(scrQ, kind, arg)

\* UPOWER's first messages are on their way.
Init ==
  /\ ac_state \in AcStates /\ day_time = "UNKNOWN" /\ in_event = FALSE
  /\ \E closed \in BOOLEAN : flags = [why \in Told |-> why = "LID" /\ closed]
  /\ sens_avail \in BOOLEAN /\ no_auto_calib \in BOOLEAN
  /\ bl_on = [s \in AcStates |-> [t \in Slots |-> TRUE]]
  /\ scr_on \in ScreenConf /\ contrib \in BOOLEAN
  /\ ok = {} /\ bl_paused = {} /\ bl_armed = FALSE /\ clogged = TRUE /\ calibrated = TRUE /\ slip = {}
  /\ scr \in {"absent", "waiting"} /\ scr_paused = {} /\ scr_armed = FALSE /\ screen_br = FALSE
  /\ blQ = Tell(Publish(<<>>, "UPOWER", ac_state), "LID")
  /\ scrQ = IF scr = "absent" THEN <<>> ELSE blQ

-----------------------------------------------------------------------------
\* What happens elsewhere.
Quiet == Len(blQ) + Len(scrQ) < MaxPending

HowMany(flagged) == Cardinality({f \in DOMAIN flagged : flagged[f]})
SwitchedOff ==
  HowMany(flags) + HowMany(<<~sens_avail, no_auto_calib, ~contrib, in_event, ac_state # "ac">>)
  + HowMany([p \in AcStates \X Slots |-> ~bl_on[p[1]][p[2]]]) + HowMany([s \in AcStates |-> ~scr_on[s]])
MayDo(off) == Quiet /\ (off => SwitchedOff < MaxOff)

FlagChanges(why) ==
  /\ MayDo(~flags[why])
  /\ flags' = [flags EXCEPT ![why] = ~@]
  /\ blQ' = Tell(blQ, why) /\ TellScreen(why, 0)
  /\ UNCHANGED <<ac_state, day_time, in_event, sens_avail, blConf, scrConf, blVars, scrVars>>

UPowerChanges ==
  /\ MayDo(ac_state = "ac")
  /\ ac_state' = CHOOSE s \in AcStates : s # ac_state
  /\ blQ' = Publish(blQ, "UPOWER", ac_state) /\ TellScreen("UPOWER", ac_state)
  /\ UNCHANGED <<day_time, in_event, flags, sens_avail, blConf, scrConf, blVars, scrVars>>

\* Time goes on slowly: what it told last, and the timeout a user wrote, was read before.
TimeChanges ==
  /\ Quiet \/ day_time = "UNKNOWN"
  /\ \A kind \in {"DAYTIME", "IN_EVENT", "BL_TO_REQ"} : NoneUnread(blQ, kind)
  /\ \/ /\ \E t \in {"DAY", "NIGHT"} \ {day_time} : day_time' = t
        /\ blQ' = Publish(blQ, "DAYTIME", day_time) /\ UNCHANGED in_event
     \/ /\ day_time # "UNKNOWN" /\ MayDo(~in_event)
        /\ in_event' = ~in_event /\ blQ' = Tell(blQ, "IN_EVENT") /\ UNCHANGED day_time
  /\ UNCHANGED <<ac_state, flags, sens_avail, blConf, scrConf, blVars, scrVars, scrQ>>

\* A property or a method of Clight's bus interface, at any time: BACKLIGHT hears of it once it
\* has started, SCREEN once it runs.
UserAsks ==
  /\ \/ \E p \in Writable, on \in BOOLEAN :
          MayDo(~on) /\ blQ' = Publish(blQ, "BL_TO_REQ", [ac |-> p[1], slot |-> p[2], on |-> on]) /\ UNCHANGED scrQ
     \/ \E off \in BOOLEAN : MayDo(off) /\ blQ' = Publish(blQ, "NO_AUTOCALIB_REQ", off) /\ UNCHANGED scrQ
     \/ \E reset, only \in BOOLEAN :
          Quiet /\ NoneUnread(scrQ, "AMBIENT_BR") /\ blQ' = Publish(blQ, "CAPTURE_REQ", [reset |-> reset, only |-> only]) /\ UNCHANGED scrQ
     \/ \E s \in AcStates, on \in BOOLEAN :
          MayDo(~on) /\ TellScreen("SCR_TO_REQ", [ac |-> s, on |-> on]) /\ UNCHANGED blQ
     \/ \E on \in BOOLEAN : MayDo(~on) /\ TellScreen("CONTRIB_REQ", on) /\ UNCHANGED blQ
  /\ UNCHANGED <<stateVars, sens_avail, blConf, scrConf, blVars, scrVars>>

-----------------------------------------------------------------------------
\* get_current_timeout, and the pauses it asks for.
Slot == IF in_event THEN "IN_EVENT" ELSE day_time
Current(conf) == conf[ac_state][Slot]

\* set_timeout on bl_fd; a timer that is armed makes up for a capture that was dropped.
SetTimer(armed, missed) ==
  /\ bl_armed' = armed
  /\ slip' = IF armed THEN missed \ {"CAPTURE"} ELSE missed

\* reset_timer: a timer that had a timeout and does not run is left to fire.
ResetTimer(armed, old, new) == new /\ (armed \/ ~old)

\* Mutant: a timeout that was changed is not looked at while the module is paused.
ResetOnly(conf, old) ==
  /\ UNCHANGED bl_paused
  /\ SetTimer(ResetTimer(bl_armed, old, Current(conf)), slip \ {"TIMEOUT"})

\* reset_or_pause.
ResetOrPause(conf, old) ==
  /\ bl_paused' = Reasons(bl_paused, ~Current(conf), "TIMEOUT")
  /\ SetTimer(IF Current(conf) THEN ResetTimer(bl_armed, old, TRUE) ELSE bl_armed, slip \ {"TIMEOUT"})

Pause(why, pause) == bl_paused' = Reasons(bl_paused, pause, why)

(***************************************************************************)
(* receive_waiting_init: BACKLIGHT starts when the last of four is heard   *)
(* of; DISPLAY, PM and INHIBIT are not asked what they told meanwhile.     *)
(***************************************************************************)
Hear(m) ==
  /\ ~Started
  /\ ok' = ok \cup ({m.kind} \cap Awaited) \cup (IF m.kind = "SCREEN_BR" \/ scr = "absent" THEN {"SCREEN"} ELSE {})
  /\ IF ok' # Awaited
       THEN UNCHANGED <<bl_paused, bl_armed, slip, scrQ>>
       ELSE /\ bl_armed' = Current(bl_on)
            /\ bl_paused' = {why \in BlReasons : \/ why = "TIMEOUT" /\ ~Current(bl_on)
                                                 \/ why = "SENSOR" /\ ~sens_avail
                                                 \/ why = "AUTOCALIB" /\ no_auto_calib
                                                 \/ why = "LID" /\ flags["LID"] /\ lid_pauses}
            /\ slip' = {why \in {"DISPLAY", "SUSPEND", "INHIBIT"} : flags[why]}
            /\ TellScreen("SENSOR", 0)
  /\ blQ' = Tail(blQ)
  /\ UNCHANGED <<blConf, clogged, calibrated>>

\* upower_callback: the timer is set anew, the reason TIMEOUT is not.
UPowerCallback ==
  /\ SetTimer(Current(bl_on), IF Current(bl_on) <=> "TIMEOUT" \in bl_paused
                                THEN slip \cup {"TIMEOUT"} ELSE slip \ {"TIMEOUT"})
  /\ UNCHANGED <<bl_paused, blConf>>

\* time_callback.
TimeCallback(m) ==
  /\ ResetOrPause(bl_on, bl_on[ac_state][IF m.kind = "DAYTIME" THEN m.arg
                                         ELSE IF in_event THEN day_time ELSE "IN_EVENT"])
  /\ UNCHANGED blConf

\* interface_timeout_callback.
TimeoutCallback(m) ==
  /\ bl_on' = [bl_on EXCEPT ![m.arg.ac][m.arg.slot] = m.arg.on]
  /\ IF m.arg.ac = ac_state /\ (m.arg.slot = day_time \/ (in_event /\ m.arg.slot = "IN_EVENT"))
       THEN ResetOrPause(bl_on', Current(bl_on))
       ELSE UNCHANGED <<bl_paused, bl_armed, slip>>
  /\ UNCHANGED no_auto_calib

\* interface_autocalib_callback; SCREEN hears of it.
AutocalibCallback(m) ==
  /\ IF m.arg # no_auto_calib
       THEN no_auto_calib' = m.arg /\ Pause("AUTOCALIB", m.arg)
       ELSE UNCHANGED <<no_auto_calib, bl_paused>>
  /\ UNCHANGED <<bl_on, bl_armed, slip>>

\* dimmed_callback, suspended_callback, inhibit_callback.
FlagCallback(m) ==
  /\ Pause(m.kind, flags[m.kind])
  /\ slip' = slip \ {m.kind}
  /\ UNCHANGED <<bl_armed, blConf>>

\* on_lid_update, with capture_on_lid_opened.
OnLidUpdate ==
  /\ IF flags["LID"] /\ ~lid_pauses THEN UNCHANGED bl_paused ELSE Pause("LID", flags["LID"])
  /\ IF flags["LID"] THEN UNCHANGED <<bl_armed, slip>> ELSE SetTimer(TRUE, slip)
  /\ UNCHANGED blConf

ReceiveChange(m) ==
  /\ Started
  /\ \/ m.kind = "UPOWER" /\ UPowerCallback
     \/ m.kind \in {"DAYTIME", "IN_EVENT"} /\ TimeCallback(m)
     \/ m.kind = "BL_TO_REQ" /\ TimeoutCallback(m)
     \/ m.kind = "NO_AUTOCALIB_REQ" /\ AutocalibCallback(m)
     \/ m.kind \in Told \ {"LID"} /\ FlagCallback(m)
     \/ m.kind = "LID" /\ OnLidUpdate
  /\ IF m.kind = "NO_AUTOCALIB_REQ" /\ m.arg # no_auto_calib THEN TellScreen("AUTOCALIB", m.arg) ELSE UNCHANGED scrQ
  /\ blQ' = Tail(blQ)
  /\ UNCHANGED <<ok, clogged, calibrated>>

\* Mutant: the signal is listened to from the beginning.
OnSensorChangeEarly ==
  /\ MayDo(sens_avail)
  /\ sens_avail' = ~sens_avail
  /\ Pause("SENSOR", sens_avail)
  /\ TellScreen("SENSOR", 0)
  /\ UNCHANGED <<stateVars, blConf, scrConf, ok, bl_armed, clogged, calibrated, slip, scrVars, blQ>>

\* on_sensor_change, a signal of Clightd.
OnSensorChange ==
  /\ Started /\ MayDo(sens_avail)
  /\ sens_avail' = ~sens_avail
  /\ Pause("SENSOR", sens_avail)
  /\ TellScreen("SENSOR", 0)
  /\ UNCHANGED <<stateVars, blConf, scrConf, ok, bl_armed, clogged, calibrated, slip, scrVars, blQ>>

-----------------------------------------------------------------------------
\* receive, FD_UPD, long after the last capture: the one it asks for sets the timer again.
TimerExpires ==
  /\ Started /\ bl_paused = {} /\ bl_armed /\ NoneUnread(scrQ, "AMBIENT_BR")
  /\ bl_armed' = FALSE
  /\ blQ' = Publish(blQ, "TIMER", [reset |-> TRUE, only |-> screen_br])
  /\ UNCHANGED <<stateVars, sens_avail, blConf, scrConf, ok, bl_paused, clogged, calibrated, slip, scrVars, scrQ>>

\* What a user only captures is not meant for the backlight.
Calibrated(m, c) ==
  IF c \/ (m.kind = "CAPTURE_REQ" /\ m.arg.only) THEN calibrated ELSE ~m.arg.only

\* Mutant: a capture that failed, or was clogged, does not set the timer.
CaptureResetsIfGood(m) ==
  \/ UNCHANGED <<clogged, calibrated, scrQ, bl_armed, slip>>
  \/ \E c \in BOOLEAN :
       /\ clogged' = c /\ TellScreen("AMBIENT_BR", 0)
       /\ calibrated' = Calibrated(m, c)
       /\ IF m.arg.reset /\ ~c THEN SetTimer(Current(bl_on), slip) ELSE UNCHANGED <<bl_armed, slip>>

\* do_capture: it may fail, or come out clogged.
DoCapture(m) ==
  /\ \/ UNCHANGED <<clogged, calibrated, scrQ>>
     \/ \E c \in BOOLEAN :
          /\ clogged' = c /\ TellScreen("AMBIENT_BR", 0)
          /\ calibrated' = Calibrated(m, c)
  /\ IF m.arg.reset THEN SetTimer(Current(bl_on), slip) ELSE UNCHANGED <<bl_armed, slip>>

\* While paused, captures ask for a display that is on and for a sensor.
MayCapture == bl_paused = {} \/ (~flags["DISPLAY"] /\ sens_avail)

Capture(m) ==
  /\ Started /\ m.kind \in {"CAPTURE_REQ", "TIMER"} /\ MayCapture
  /\ DoCapture(m)
  /\ blQ' = Tail(blQ)
  /\ UNCHANGED <<blConf, ok, bl_paused>>

\* The capture that would have set the timer again is dropped.
DropCapture(m) ==
  /\ Started /\ m.kind \in {"CAPTURE_REQ", "TIMER"} /\ ~MayCapture
  /\ slip' = IF m.kind = "TIMER" /\ ~bl_armed THEN slip \cup {"CAPTURE"} ELSE slip
  /\ blQ' = Tail(blQ)
  /\ UNCHANGED <<blConf, ok, bl_paused, bl_armed, clogged, calibrated, scrQ>>

\* SCREEN_BR_UPD: set_new_backlight.
SetNewBacklight(m) ==
  /\ Started /\ m.kind = "SCREEN_BR"
  /\ calibrated' = (calibrated \/ bl_paused = {} \/ ~flags["DISPLAY"])
  /\ blQ' = Tail(blQ)
  /\ UNCHANGED <<blConf, ok, bl_paused, bl_armed, clogged, slip, scrQ>>

ReceiveBacklight ==
  /\ blQ # <<>>
  /\ LET m == Head(blQ) IN
       Hear(m) \/ ReceiveChange(m) \/ Capture(m) \/ DropCapture(m) \/ SetNewBacklight(m)
  /\ UNCHANGED <<stateVars, sens_avail, scrConf, scrVars>>

-----------------------------------------------------------------------------
\* pause_screen, for several reasons at once: some of them forget the brightness.
Forgetting == {"TIMEOUT", "CONTRIB", "SENSOR", "AUTOCALIB", "INHIBIT"}

\* Mutant: the brightness that is not going to be renewed is kept.
PauseScreenKeeping(pause, why) ==
  /\ scr_paused' = Reasons(scr_paused, pause, why)
  /\ UNCHANGED screen_br

PauseScreen(pause, why) ==
  /\ scr_paused' = Reasons(scr_paused, pause, why)
  /\ screen_br' = IF pause /\ why \in Forgetting THEN FALSE ELSE screen_br

\* timeout_callback of SCREEN; reset_timer.
ScreenTimeout(conf, old) ==
  /\ PauseScreen(~conf[ac_state], "TIMEOUT")
  /\ scr_armed' = IF conf[ac_state] THEN ResetTimer(scr_armed, old, TRUE) ELSE scr_armed

\* get_screen_brightness(true): black, or not.
GetScreenBrightness ==
  /\ screen_br' \in BOOLEAN
  /\ blQ' = Tell(blQ, "SCREEN_BR")

\* Mutant: SCREEN leaves its timer to the first change of its timeout.
ScreenStartsIdle(m) ==
  /\ scr = "waiting" /\ m.kind = "UPOWER" /\ scr' = "running"
  /\ scr_armed' = FALSE
  /\ scr_paused' = (IF scr_on[ac_state] THEN {} ELSE {"TIMEOUT"}) \cup (IF contrib THEN {} ELSE {"CONTRIB"})
  /\ UNCHANGED <<screen_br, scrConf, blQ>>

\* receive_waiting_state.
ScreenStarts(m) ==
  /\ scr = "waiting" /\ m.kind = "UPOWER" /\ scr' = "running"
  /\ scr_armed' = scr_on[ac_state]
  /\ scr_paused' = (IF scr_on[ac_state] THEN {} ELSE {"TIMEOUT"}) \cup (IF contrib THEN {} ELSE {"CONTRIB"})
  /\ UNCHANGED <<screen_br, scrConf, blQ>>

ScreenChange(m) ==
  /\ scr = "running"
  /\ \/ /\ m.kind \in Told \ {"LID"} /\ PauseScreen(flags[m.kind], m.kind)
        /\ UNCHANGED <<scr_armed, scrConf>>
     \/ /\ m.kind = "LID" /\ IF lid_pauses THEN PauseScreen(flags["LID"], "LID") ELSE UNCHANGED <<scr_paused, screen_br>>
        /\ UNCHANGED <<scr_armed, scrConf>>
     \/ /\ m.kind = "SENSOR" /\ PauseScreen(~sens_avail, "SENSOR") /\ UNCHANGED <<scr_armed, scrConf>>
     \/ /\ m.kind = "AUTOCALIB" /\ PauseScreen(m.arg, "AUTOCALIB") /\ UNCHANGED <<scr_armed, scrConf>>
     \/ /\ m.kind = "UPOWER" /\ ScreenTimeout(scr_on, scr_on[m.arg]) /\ UNCHANGED scrConf
     \/ /\ m.kind = "SCR_TO_REQ"
        /\ scr_on' = [scr_on EXCEPT ![m.arg.ac] = m.arg.on]
        /\ IF m.arg.ac = ac_state THEN ScreenTimeout(scr_on', scr_on[m.arg.ac])
                                  ELSE UNCHANGED <<scr_paused, scr_armed, screen_br>>
        /\ UNCHANGED contrib
  /\ UNCHANGED <<scr, blQ>>

\* CONTRIB_REQ: unless paused, SCREEN repeats what it told last.
Contrib(m) ==
  /\ scr = "running" /\ m.kind = "CONTRIB_REQ"
  /\ contrib' = m.arg
  /\ PauseScreen(~m.arg, "CONTRIB")
  /\ blQ' = IF scr_paused' = {} THEN Tell(blQ, "SCREEN_BR") ELSE blQ
  /\ UNCHANGED <<scr, scr_armed, scr_on>>

\* AMBIENT_BR_UPD: BACKLIGHT has captured; state.ambient_br is what counts.
AmbientBr(m) ==
  /\ scr = "running" /\ m.kind = "AMBIENT_BR"
  /\ scr_paused' = Reasons(scr_paused, clogged, "CLOGGED")
  /\ \/ scr_paused' = {} /\ GetScreenBrightness
     \/ UNCHANGED <<screen_br, blQ>>
  /\ UNCHANGED <<scr, scr_armed, scrConf>>

ReceiveScreen ==
  /\ scrQ # <<>> /\ scrQ' = Tail(scrQ)
  /\ LET m == Head(scrQ) IN ScreenStarts(m) \/ ScreenChange(m) \/ Contrib(m) \/ AmbientBr(m)
  /\ UNCHANGED <<stateVars, sens_avail, blConf, blVars>>

\* FD_UPD of SCREEN, long after the last; Clightd may not tell the brightness.
ScreenTimerExpires(told) ==
  /\ scr = "running" /\ scr_paused = {} /\ scr_armed
  /\ NoneUnread(blQ, "SCREEN_BR")
  /\ IF told THEN GetScreenBrightness ELSE UNCHANGED <<screen_br, blQ>>
  /\ scr_armed' = scr_on[ac_state]
  /\ UNCHANGED <<stateVars, sens_avail, blConf, scrConf, blVars, scr, scr_paused, scrQ>>

Next == \/ \E why \in Told : FlagChanges(why)
        \/ UPowerChanges \/ TimeChanges \/ UserAsks \/ OnSensorChange
        \/ TimerExpires \/ ReceiveBacklight \/ ReceiveScreen
        \/ \E told \in BOOLEAN : ScreenTimerExpires(told)

Spec == Init /\ [][Next]_vars

\* Pipes are read, timers expire, in the end before a user asks for a capture that sets them
\* again, a capture works in the end, Clightd answers, and DAYTIME tells the first time,
\* whatever timeouts a user writes before.
FairSpec ==
  /\ Spec
  /\ WF_vars(ReceiveBacklight) /\ WF_vars(ReceiveScreen) /\ SF_vars(TimerExpires)
  /\ SF_vars(ReceiveBacklight /\ ~calibrated /\ calibrated')
  /\ WF_vars(ScreenTimerExpires(TRUE))
  /\ SF_vars(day_time = "UNKNOWN" /\ TimeChanges)

-----------------------------------------------------------------------------
Due(why) == CASE why \in {"DISPLAY", "SUSPEND", "INHIBIT"} -> flags[why]
              [] why = "LID" -> flags["LID"] /\ lid_pauses
              [] why = "TIMEOUT" -> ~Current(bl_on)
              [] why = "SENSOR" -> ~sens_avail
              [] why = "AUTOCALIB" -> no_auto_calib

(***************************************************************************)
(* With its pipe read, BACKLIGHT is paused for exactly the reasons there   *)
(* are, except those it was not told of; and so is SCREEN.                 *)
(***************************************************************************)
PausedAsTold ==
  /\ Started /\ blQ = <<>> => \A why \in BlReasons \ slip : why \in bl_paused <=> Due(why)
  /\ Started /\ scr = "running" /\ scrQ = <<>> =>
       /\ \A why \in Told \cup {"SENSOR"} : why \in scr_paused <=> Due(why)
       /\ "TIMEOUT" \in scr_paused <=> ~scr_on[ac_state]
       /\ "CONTRIB" \in scr_paused <=> ~contrib

(***************************************************************************)
(* Captures go on: a BACKLIGHT that is not paused has its timer running,   *)
(* or the capture that sets it again on its way, whatever paused and       *)
(* resumed it and wherever the timer was meanwhile.                        *)
(***************************************************************************)
CapturesGoOn ==
  Started /\ blQ = <<>> /\ bl_paused = {} /\ slip = {} => bl_armed

(***************************************************************************)
(* BACKLIGHT starts in the end: no order of the first messages, no cable,  *)
(* time, lid or request in between, keeps it waiting; only SCREEN, whose   *)
(* first word it waits for, does while it is paused, from the start with   *)
(* the shipped timeouts on battery, or again and again.                    *)
(***************************************************************************)
BacklightStarts == ~Started ~> (Started \/ scr_paused # {})

(***************************************************************************)
(* A timeout that turns off the compensation for the screen's content      *)
(* turns off only that: BACKLIGHT starts all the same.  This is false: the *)
(* code waits for SCREEN's first word, see README.                         *)
(***************************************************************************)
StartsUncompensated ==
  ~Started ~> (Started \/ scr_paused \ {"TIMEOUT"} # {})

(***************************************************************************)
(* What is captured is used: BACKLIGHT leaves it to SCREEN when it knows   *)
(* the screen's brightness, and one of the two sets the backlight, unless  *)
(* one is paused or its timer was lost.                                    *)
(***************************************************************************)
CaptureUsed ==
  ~calibrated ~> \/ calibrated \/ bl_paused # {} \/ slip # {} \/ clogged
                 \/ scr_paused \cap (Told \cup {"SENSOR", "AUTOCALIB"}) # {}
=============================================================================
