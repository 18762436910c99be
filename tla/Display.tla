------------------------------ MODULE Display ------------------------------
(***************************************************************************)
(* DISPLAY: is the display on, dimmed or off?  DIMMER and DPMS ask for it  *)
(* when their idle clients say so, logind's IdleHint takes the place of a  *)
(* disabled DIMMER, and Clightd reports every change of DPMS.  Dimming     *)
(* saves the backlight level and has BACKLIGHT set another; BACKLIGHT      *)
(* pauses while the display is not on, and refuses requests meanwhile.     *)
(*                                                                         *)
(* Clightd fades from one level to the next, so state.current_bl_pct       *)
(* follows what was set last.  BACKLIGHT is its gate on BL_REQ: what it    *)
(* calibrates is any level, and why else it pauses is one more reason.     *)
(***************************************************************************)
EXTENDS Integers, Sequences, FiniteSets

CONSTANTS
  MaxLevel,     \* backlight levels are 0 .. MaxLevel
  dimmed_pct,   \* conf.dim_conf.dimmed_pct
  PatientUser,  \* TRUE: nobody comes or goes before DISPLAY has switched on or off
  MaxPending    \* messages in a pipe beyond which nobody asks for more

ASSUME DisplayAssumption ==
  /\ MaxLevel \in Nat /\ dimmed_pct \in 0 .. MaxLevel
  /\ PatientUser \in BOOLEAN
  /\ MaxPending \in Nat \ {0}

Levels == 0 .. MaxLevel
NoLevel == -1
Clients == {"DIMMER", "DPMS", "HINT"}

VARIABLES
  dimmer,         \* configuration: DIMMER is enabled, IdleHint not listened to
  idle,           \* the idle clients (or the hint) that say the user is idle
  signals,        \* signals of Clightd and logind not handled yet
  dispQ,          \* the pipe of DISPLAY: DISPLAY_REQs
  display_state,  \* state.display_state: its bits
  old_pct,        \* the level to return to, or NoLevel
  dpms_off,       \* Clightd's DPMS level
  blQ,            \* the pipe of BACKLIGHT: BL_REQs and DISPLAY_UPDs
  bl_paused,      \* the reasons BACKLIGHT is paused for
  target,         \* the level Clightd was told to go to
  level,          \* state.current_bl_pct, as Clightd reports it
  wanted,         \* history: the level calibrated last
  slip            \* history: what went wrong since, see EnterDimmed and RefuseBlReq

userVars == <<dimmer, idle>>
dispVars == <<display_state, old_pct, dpms_off>>
blVars == <<bl_paused, target, level, wanted>>
vars == <<userVars, signals, dispQ, dispVars, blQ, blVars, slip>>

TypeOK ==
  /\ dimmer \in BOOLEAN /\ idle \subseteq Clients
  /\ signals \in Seq([from : Clients, idle : BOOLEAN])
  /\ dispQ \in Seq([from : Clients, new : {"ON", "DIMMED", "OFF"}])
  /\ display_state \subseteq {"DIMMED", "OFF"}
  /\ old_pct \in Levels \cup {NoLevel}
  /\ dpms_off \in BOOLEAN
  /\ blQ \in Seq([from : {"DIMMER", "BACKLIGHT", "DISPLAY"}, new : Levels \cup {NoLevel}])
  /\ bl_paused \subseteq {"DISPLAY", "OTHER"}
  /\ {target, level, wanted} \subseteq Levels
  /\ slip \in {"none", "refused", "lost"}

Init ==
  /\ dimmer \in BOOLEAN /\ idle = {} /\ signals = <<>>
  /\ dispQ = <<>> /\ display_state = {} /\ old_pct = NoLevel /\ dpms_off = FALSE
  /\ blQ = <<>> /\ bl_paused = {}
  /\ level \in Levels /\ target = level /\ wanted = level
  /\ slip = "none"

-----------------------------------------------------------------------------
\* A signal of DPMS says the same whether its idle client or Clightd sends it.
Signal(c, is_idle) == [from |-> c, idle |-> is_idle]

Listening == IF dimmer THEN {"DIMMER", "DPMS"} ELSE {"HINT", "DPMS"}

\* Nobody asks for more while too much is unread.
Quiet == Len(dispQ) + Len(blQ) < MaxPending
Patient == PatientUser => \A i \in DOMAIN dispQ : dispQ[i].new = "DIMMED"

\* The user leaves: the clients find out one after another.
GoIdle(c) ==
  /\ c \in Listening \ idle /\ signals = <<>> /\ Quiet /\ Patient
  /\ idle' = idle \cup {c}
  /\ signals' = <<Signal(c, TRUE)>>
  /\ UNCHANGED <<dimmer, dispQ, dispVars, blQ, blVars, slip>>

\* The user is back: every one of them tells, in some order.
Orders(S) == {q \in [1 .. Cardinality(S) -> S] : \A c \in S : \E i \in DOMAIN q : q[i] = c}

Activity ==
  /\ idle # {} /\ signals = <<>> /\ Quiet /\ Patient
  /\ idle' = {}
  /\ \E order \in Orders(idle) : signals' = [i \in DOMAIN order |-> Signal(order[i], FALSE)]
  /\ UNCHANGED <<dimmer, dispQ, dispVars, blQ, blVars, slip>>

\* Each publisher has one static message: its copies in flight change with it.
Publish(q, from, new) ==
  LET msg == [from |-> from, new |-> new] IN
    Append([i \in DOMAIN q |-> IF q[i].from = from THEN msg ELSE q[i]], msg)

\* on_new_idle of DIMMER and DPMS, and on_idle_hint_changed, which reads the hint.
OnNewIdle ==
  /\ signals # <<>>
  /\ LET s == Head(signals)
         away == IF s.from = "HINT" THEN "HINT" \in idle ELSE s.idle
     IN dispQ' = Publish(dispQ, s.from, IF ~away THEN "ON"
                                        ELSE IF s.from = "DPMS" THEN "OFF" ELSE "DIMMED")
  /\ signals' = Tail(signals)
  /\ UNCHANGED <<userVars, dispVars, blQ, blVars, slip>>

-----------------------------------------------------------------------------
\* Mutant: a dimmed display that is off is not off.
ValidDisplayOff(new) ==
  IF display_state = {"OFF"} THEN new = "ON"
  ELSE new # "ON" /\ display_state # {new}

\* validate_display: from off only on, else whatever is not so already.
ValidDisplay(new) ==
  IF "OFF" \in display_state THEN new = "ON"
  ELSE display_state # IF new = "ON" THEN {} ELSE {new}

NoBacklight(up) == up.from = "HINT"

\* set_dpms: Clightd reports what has changed, to DPMS as well.
SetDpms(off) ==
  /\ dpms_off' = off
  /\ signals' = IF off # dpms_off THEN Append(signals, Signal("DPMS", off)) ELSE signals

KeepDpms == UNCHANGED <<dpms_off, signals>>

\* The call at the end of receive: a session's IdleHint changes with the display.
SetIdleHint ==
  idle' = IF dimmer THEN idle ELSE IF display_state' = {} THEN idle \ {"HINT"} ELSE idle \cup {"HINT"}

\* DISPLAY_UPD, which its receivers answer by reading state.display_state.
PublishDisplayUpd(q) == Append(q, [from |-> "DISPLAY", new |-> NoLevel])

\* Mutant: the subscribers learn of the dimmed state before BACKLIGHT is told the level.
EnterDimmedAfter(up) ==
  /\ up.new = "DIMMED" /\ ValidDisplay(up.new)
  /\ display_state' = display_state \cup {"DIMMED"}
  /\ IF ~NoBacklight(up) /\ level > dimmed_pct
       THEN old_pct' = level /\ blQ' = Publish(PublishDisplayUpd(blQ), "DIMMER", dimmed_pct)
       ELSE UNCHANGED old_pct /\ blQ' = PublishDisplayUpd(blQ)
  /\ slip' = IF level # target \/ blQ # <<>> THEN "lost" ELSE slip
  /\ KeepDpms

\* Mutant: the level in force is saved again by whoever dims next.
EnterDimmedAlways(up) ==
  /\ up.new = "DIMMED" /\ ValidDisplay(up.new)
  /\ display_state' = display_state \cup {"DIMMED"}
  /\ old_pct' = IF NoBacklight(up) THEN old_pct ELSE dimmed_pct
  /\ blQ' = PublishDisplayUpd(IF NoBacklight(up) THEN blQ ELSE Publish(blQ, "DIMMER", dimmed_pct))
  /\ slip' = slip
  /\ KeepDpms

(***************************************************************************)
(* A level that is not above the dimmed one is left alone.  Dimming while  *)
(* the level moves, or before BACKLIGHT has read what it was told, saves   *)
(* or spares a level that is not going to stay: a slip.                    *)
(***************************************************************************)
EnterDimmed(up) ==
  /\ up.new = "DIMMED" /\ ValidDisplay(up.new)
  /\ display_state' = display_state \cup {"DIMMED"}
  /\ IF ~NoBacklight(up) /\ level > dimmed_pct
       THEN old_pct' = level /\ blQ' = PublishDisplayUpd(Publish(blQ, "DIMMER", dimmed_pct))
       ELSE UNCHANGED old_pct /\ blQ' = PublishDisplayUpd(blQ)
  /\ slip' = IF level # target \/ blQ # <<>> THEN "lost" ELSE slip
  /\ KeepDpms

EnterOff(up) ==
  /\ up.new = "OFF" /\ ValidDisplay(up.new)
  /\ display_state' = display_state \cup {"OFF"}
  /\ IF NoBacklight(up) THEN KeepDpms ELSE SetDpms(TRUE)
  /\ blQ' = PublishDisplayUpd(blQ)
  /\ UNCHANGED <<old_pct, slip>>

Unread(from) == \E i \in DOMAIN blQ : blQ[i].from = from

\* Mutant: nothing saved is restored as well.
LeaveUnsaved(up) ==
  /\ up.new = "ON" /\ ValidDisplay(up.new)
  /\ display_state' = {}
  /\ IF "OFF" \in display_state /\ ~NoBacklight(up) THEN SetDpms(FALSE) ELSE KeepDpms
  /\ IF "DIMMED" \in display_state /\ ~NoBacklight(up)
       THEN blQ' = PublishDisplayUpd(Publish(blQ, "DIMMER", old_pct)) /\ old_pct' = NoLevel
       ELSE blQ' = PublishDisplayUpd(blQ) /\ UNCHANGED old_pct
  /\ slip' = IF Unread("BACKLIGHT") THEN "lost" ELSE slip

\* Mutant: a display that was dimmed before it went off is only dimmed no more.
LeaveDimmedOnly(up) ==
  /\ up.new = "ON" /\ ValidDisplay(up.new)
  /\ display_state' = {}
  /\ IF display_state = {"OFF"} /\ ~NoBacklight(up) THEN SetDpms(FALSE) ELSE KeepDpms
  /\ IF "DIMMED" \in display_state /\ ~NoBacklight(up) /\ old_pct # NoLevel
       THEN blQ' = PublishDisplayUpd(Publish(blQ, "DIMMER", old_pct)) /\ old_pct' = NoLevel
       ELSE blQ' = PublishDisplayUpd(blQ) /\ UNCHANGED old_pct
  /\ slip' = IF Unread("BACKLIGHT") THEN "lost" ELSE slip

\* On again: out of both states at once.
LeaveAll(up) ==
  /\ up.new = "ON" /\ ValidDisplay(up.new)
  /\ display_state' = {}
  /\ IF "OFF" \in display_state /\ ~NoBacklight(up) THEN SetDpms(FALSE) ELSE KeepDpms
  /\ IF "DIMMED" \in display_state /\ ~NoBacklight(up) /\ old_pct # NoLevel
       THEN blQ' = PublishDisplayUpd(Publish(blQ, "DIMMER", old_pct)) /\ old_pct' = NoLevel
       ELSE blQ' = PublishDisplayUpd(blQ) /\ UNCHANGED old_pct
  /\ slip' = IF Unread("BACKLIGHT") THEN "lost" ELSE slip

RefuseDisplayReq(up) ==
  /\ ~ValidDisplay(up.new)
  /\ UNCHANGED <<idle, signals, dispVars, blQ, slip>>

\* receive of DISPLAY.
ReceiveDisplayReq ==
  /\ dispQ # <<>> /\ dispQ' = Tail(dispQ) /\ Len(blQ) <= MaxPending
  /\ LET up == Head(dispQ) IN
       \/ (EnterDimmed(up) \/ EnterOff(up) \/ LeaveAll(up)) /\ SetIdleHint
       \/ RefuseDisplayReq(up)
  /\ UNCHANGED <<dimmer, blVars>>

\* logind reports the hint that DISPLAY or the desktop has changed.
HintChanged ==
  /\ ~dimmer /\ signals = <<>> /\ Quiet
  /\ signals' = <<Signal("HINT", TRUE)>>
  /\ UNCHANGED <<userVars, dispQ, dispVars, blQ, blVars, slip>>

-----------------------------------------------------------------------------
\* BACKLIGHT has computed a new level: a request to itself.
Calibrate(l) ==
  /\ bl_paused = {} \/ display_state = {}
  /\ Quiet /\ l # target
  /\ blQ' = Publish(blQ, "BACKLIGHT", l)
  /\ UNCHANGED <<userVars, signals, dispQ, dispVars, blVars, slip>>

PauseElsewhere ==
  /\ bl_paused' = IF "OTHER" \in bl_paused THEN bl_paused \ {"OTHER"} ELSE bl_paused \cup {"OTHER"}
  /\ UNCHANGED <<userVars, signals, dispQ, dispVars, blQ, target, level, wanted, slip>>

\* receive and receive_paused, BL_REQ: refused if paused and not on.
Gate(up) == bl_paused = {} \/ display_state = {}

AcceptBlReq(up) ==
  /\ up.from # "DISPLAY" /\ Gate(up)
  /\ target' = up.new
  /\ IF up.from = "BACKLIGHT"
       THEN /\ wanted' = up.new
            /\ slip' = IF display_state = {} /\ Len(blQ) = 1 THEN "none" ELSE slip
       ELSE UNCHANGED <<wanted, slip>>
  /\ UNCHANGED <<bl_paused, level>>

RefuseBlReq(up) ==
  /\ up.from # "DISPLAY" /\ ~Gate(up)
  /\ slip' = IF up.from # "DIMMER" THEN slip
             ELSE IF up.new # dimmed_pct THEN "lost"
             ELSE IF "OTHER" \in bl_paused /\ slip = "none" THEN "refused" ELSE slip
  /\ UNCHANGED blVars

\* dimmed_callback: state.display_state is what counts, not what the message says.
DimmedCallback(up) ==
  /\ up.from = "DISPLAY"
  /\ bl_paused' = IF display_state # {} THEN bl_paused \cup {"DISPLAY"} ELSE bl_paused \ {"DISPLAY"}
  /\ UNCHANGED <<target, level, wanted, slip>>

ReceiveBacklight ==
  /\ blQ # <<>> /\ blQ' = Tail(blQ)
  /\ LET up == Head(blQ) IN AcceptBlReq(up) \/ RefuseBlReq(up) \/ DimmedCallback(up)
  /\ UNCHANGED <<userVars, signals, dispQ, dispVars>>

\* on_bl_changed, at the end of the fade.
OnBlChanged ==
  /\ level # target
  /\ level' = target
  /\ UNCHANGED <<userVars, signals, dispQ, dispVars, blQ, bl_paused, target, wanted, slip>>

Next == \/ \E c \in Clients : GoIdle(c)
        \/ Activity \/ HintChanged \/ OnNewIdle \/ ReceiveDisplayReq
        \/ \E l \in Levels : Calibrate(l)
        \/ PauseElsewhere \/ ReceiveBacklight \/ OnBlChanged

Spec == Init /\ [][Next]_vars

\* Signals and pipes are read; the fade goes on by itself.
FairSpec == Spec /\ WF_vars(OnNewIdle) /\ WF_vars(ReceiveDisplayReq)
                 /\ WF_vars(ReceiveBacklight) /\ WF_vars(OnBlChanged)

-----------------------------------------------------------------------------
Asked == signals = <<>> /\ dispQ = <<>>
Settled == Asked /\ blQ = <<>> /\ level = target

(***************************************************************************)
(* Once the display is on and all is quiet, the level is the one           *)
(* calibrated last, whoever dimmed and switched off meanwhile and in       *)
(* whatever order they asked (old_pct is saved once and spent once).       *)
(***************************************************************************)
BrightnessRestored ==
  Settled /\ display_state = {} /\ slip # "lost" => level = wanted

(***************************************************************************)
(* A dimmed display is dim, however calibrations and the two pipes cross,  *)
(* unless BACKLIGHT refused because it was paused for another reason.      *)
(***************************************************************************)
DimmedIsDim ==
  Settled /\ dimmer /\ "DIMMED" \in display_state /\ slip = "none" => level <= dimmed_pct

(***************************************************************************)
(* Clightd's DPMS and state.display_state agree in the end, although each  *)
(* reports the other's changes as if they were its own.                    *)
(***************************************************************************)
DpmsFollowsDisplay == Asked /\ dimmer => (dpms_off <=> "OFF" \in display_state)

(***************************************************************************)
(* The display of a user who is back comes on again, unless he leaves.     *)
(***************************************************************************)
DisplayWakes == idle = {} ~> (display_state = {} \/ idle # {})
=============================================================================
