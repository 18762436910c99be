----------------------------- MODULE Keyboard -----------------------------
(***************************************************************************)
(* KEYBOARD: the backlight of the keyboard follows that of the screen      *)
(* along a curve, and is dark while the module is paused: because its      *)
(* timeout is off, the display is not on or the system is suspended.       *)
(***************************************************************************)
EXTENDS Integers, Sequences, ModPause

CONSTANTS
  MaxLevel,   \* levels of both backlights are 0 .. MaxLevel
  Curves,     \* the curves fitted: from the level of the screen to that of the keyboard
  MaxPending  \* messages unread beyond which nothing else happens

Levels == 0 .. MaxLevel
NoLevel == -1
AcStates == {"ac", "battery"}

ASSUME KeyboardAssumption ==
  MaxLevel \in Nat /\ Curves \subseteq [Levels -> Levels] /\ MaxPending \in Nat \ {0}

VARIABLES
  ac_state, current_bl_pct, display_on, suspended,  \* state, as other modules leave it
  conf_on,      \* conf.kbd_conf.timeout, by AC state: is it positive?
  curve,        \* conf.kbd_conf.curve, by AC state
  kbdQ,         \* the pipe of KEYBOARD
  waiting,      \* receive_waiting_init
  paused_state, \* the reasons it is paused for
  current_kbd_pct

envVars == <<ac_state, current_bl_pct, display_on, suspended>>
kbdVars == <<conf_on, curve, waiting, paused_state, current_kbd_pct>>
vars == <<envVars, kbdQ, kbdVars>>

Why == {"TIMEOUT", "DISPLAY", "SUSPEND"}
Msg == [kind : {"UPOWER_UPD", "DISPLAY_UPD", "SUSPEND_UPD"}]
       \cup [kind : {"BL_UPD", "KBD_BL_REQ"}, new : Levels]
       \cup [kind : {"KBD_TO_REQ"}, state : AcStates, new : BOOLEAN]
       \cup [kind : {"KBD_CURVE_REQ"}, state : AcStates, new : Curves]

TypeOK ==
  /\ ac_state \in AcStates /\ current_bl_pct \in Levels
  /\ display_on \in BOOLEAN /\ suspended \in BOOLEAN
  /\ conf_on \in [AcStates -> BOOLEAN] /\ curve \in [AcStates -> Curves]
  /\ kbdQ \in Seq(Msg)
  /\ waiting \in BOOLEAN /\ paused_state \subseteq Why
  /\ current_kbd_pct \in Levels \cup {NoLevel}

\* UPOWER's first message is on its way.
Init ==
  /\ ac_state \in AcStates /\ current_bl_pct \in Levels /\ display_on = TRUE /\ suspended = FALSE
  /\ conf_on \in [AcStates -> BOOLEAN]
  /\ \E c \in Curves : curve = [s \in AcStates |-> c]
  /\ kbdQ = <<[kind |-> "UPOWER_UPD"]>>
  /\ waiting = TRUE /\ paused_state = {} /\ current_kbd_pct = NoLevel

\* A publisher's message is static: its copies in flight change with it.
Publish(q, msg) == Append([i \in DOMAIN q |-> IF q[i].kind = msg.kind THEN msg ELSE q[i]], msg)

-----------------------------------------------------------------------------
\* What happens elsewhere, each event after the last of its kind was read.
Unread(kind) == \E i \in DOMAIN kbdQ : kbdQ[i].kind = kind
May(kind) == ~Unread(kind) /\ Len(kbdQ) < MaxPending

UPowerChanges ==
  /\ May("UPOWER_UPD")
  /\ \E s \in AcStates \ {ac_state} : ac_state' = s
  /\ kbdQ' = Append(kbdQ, [kind |-> "UPOWER_UPD"])
  /\ UNCHANGED <<current_bl_pct, display_on, suspended, kbdVars>>

DisplayChanges ==
  /\ May("DISPLAY_UPD") /\ ~waiting
  /\ display_on' = ~display_on
  /\ kbdQ' = Append(kbdQ, [kind |-> "DISPLAY_UPD"])
  /\ UNCHANGED <<ac_state, current_bl_pct, suspended, kbdVars>>

SuspendChanges ==
  /\ May("SUSPEND_UPD") /\ ~waiting
  /\ suspended' = ~suspended
  /\ kbdQ' = Append(kbdQ, [kind |-> "SUSPEND_UPD"])
  /\ UNCHANGED <<ac_state, current_bl_pct, display_on, kbdVars>>

\* The screen fades, and BACKLIGHT may outrun KEYBOARD; each of its messages is its own.
BacklightChanges(l) ==
  /\ Len(kbdQ) < MaxPending /\ l # current_bl_pct
  /\ current_bl_pct' = l
  /\ kbdQ' = Append(kbdQ, [kind |-> "BL_UPD", new |-> l])
  /\ UNCHANGED <<ac_state, display_on, suspended, kbdVars>>

\* The user writes a property of Clight.Conf.Kbd.
UserWrites ==
  /\ Len(kbdQ) < MaxPending
  /\ \E s \in AcStates :
       \/ \E on \in BOOLEAN : kbdQ' = Publish(kbdQ, [kind |-> "KBD_TO_REQ", state |-> s, new |-> on])
       \/ \E c \in Curves : kbdQ' = Publish(kbdQ, [kind |-> "KBD_CURVE_REQ", state |-> s, new |-> c])
  /\ UNCHANGED <<envVars, kbdVars>>

-----------------------------------------------------------------------------
\* Mutant: a module that is paused takes no note of another reason.
PauseOnce(why, pause) ==
  /\ paused_state' = Reasons(paused_state, pause /\ paused_state = {}, why)
  /\ current_kbd_pct' = IF Pauses(paused_state, paused_state') THEN 0
                        ELSE IF Resumes(paused_state, paused_state') THEN MaxLevel - current_bl_pct
                        ELSE current_kbd_pct

\* Mutant: off by one.
PauseKbdReversed(why, pause) ==
  /\ paused_state' = Reasons(paused_state, pause, why)
  /\ current_kbd_pct' = IF Pauses(paused_state, paused_state') THEN 0
                        ELSE IF Resumes(paused_state, paused_state') THEN MaxLevel + 1 - current_bl_pct
                        ELSE current_kbd_pct

\* pause_kbd: dark at the first reason; after the last, the screen's level reversed.
PauseKbd(why, pause) ==
  /\ paused_state' = Reasons(paused_state, pause, why)
  /\ current_kbd_pct' = IF Pauses(paused_state, paused_state') THEN 0
                        ELSE IF Resumes(paused_state, paused_state') THEN MaxLevel - current_bl_pct
                        ELSE current_kbd_pct

\* set_keyboard_timeout.
SetKeyboardTimeout(conf) == PauseKbd("TIMEOUT", ~conf[ac_state])

Running == ~waiting /\ paused_state = {}

StartModule(m) ==
  /\ waiting /\ m.kind = "UPOWER_UPD" /\ waiting' = FALSE
  /\ SetKeyboardTimeout(conf_on)
  /\ kbdQ' = Tail(kbdQ) /\ UNCHANGED <<conf_on, curve>>

\* What nobody listens to in the present mode is lost.
Drop(m) ==
  /\ \/ waiting /\ m.kind # "UPOWER_UPD"
     \/ ~waiting /\ ~Running /\ m.kind \in {"BL_UPD", "KBD_BL_REQ", "KBD_TO_REQ"}
  /\ kbdQ' = Tail(kbdQ) /\ UNCHANGED kbdVars

ReceiveChange(m) ==
  /\ ~waiting
  /\ \/ m.kind = "UPOWER_UPD" /\ SetKeyboardTimeout(conf_on)
     \/ m.kind = "DISPLAY_UPD" /\ PauseKbd("DISPLAY", ~display_on)
     \/ m.kind = "SUSPEND_UPD" /\ PauseKbd("SUSPEND", suspended)
  /\ kbdQ' = Tail(kbdQ) /\ UNCHANGED <<conf_on, curve, waiting>>

ReceiveTimeout(m) ==
  /\ Running /\ m.kind = "KBD_TO_REQ"
  /\ conf_on' = [conf_on EXCEPT ![m.state] = m.new]
  /\ IF m.state = ac_state THEN SetKeyboardTimeout(conf_on')
                           ELSE UNCHANGED <<paused_state, current_kbd_pct>>
  /\ kbdQ' = Tail(kbdQ) /\ UNCHANGED <<curve, waiting>>

ReceiveCurve(m) ==
  /\ ~waiting /\ m.kind = "KBD_CURVE_REQ"
  /\ curve' = [curve EXCEPT ![m.state] = m.new]
  /\ kbdQ' = Tail(kbdQ) /\ UNCHANGED <<conf_on, waiting, paused_state, current_kbd_pct>>

\* on_screen_bl_update: a request to itself.
OnScreenBlUpdate(m) ==
  /\ Running /\ m.kind = "BL_UPD"
  /\ kbdQ' = Publish(Tail(kbdQ), [kind |-> "KBD_BL_REQ", new |-> curve[ac_state][m.new]])
  /\ UNCHANGED kbdVars

\* The keyboard does not follow a screen that dims.
ReceiveLevel(m) ==
  /\ Running /\ m.kind = "KBD_BL_REQ"
  /\ current_kbd_pct' = IF display_on THEN m.new ELSE current_kbd_pct
  /\ kbdQ' = Tail(kbdQ) /\ UNCHANGED <<conf_on, curve, waiting, paused_state>>

Receive ==
  /\ kbdQ # <<>>
  /\ LET m == Head(kbdQ) IN
       \/ StartModule(m) \/ Drop(m) \/ ReceiveChange(m) \/ ReceiveTimeout(m)
       \/ ReceiveCurve(m) \/ OnScreenBlUpdate(m) \/ ReceiveLevel(m)
  /\ UNCHANGED envVars

Next == \/ UPowerChanges \/ DisplayChanges \/ SuspendChanges
        \/ \E l \in Levels : BacklightChanges(l)
        \/ UserWrites \/ Receive

Spec == Init /\ [][Next]_vars

-----------------------------------------------------------------------------
(***************************************************************************)
(* When its pipe is empty, KEYBOARD is paused for the reasons there are,   *)
(* whatever crossed and was dropped; it is dark while paused; and else its *)
(* level, once it has one, is that of the screen's present level, on some  *)
(* curve or reversed (pause_kbd).                                          *)
(***************************************************************************)
Due == {why \in Why : \/ why = "TIMEOUT" /\ ~conf_on[ac_state]
                      \/ why = "DISPLAY" /\ ~display_on
                      \/ why = "SUSPEND" /\ suspended}
Matching == {MaxLevel - current_bl_pct} \cup {c[current_bl_pct] : c \in Curves}

KbdFollowsScreen ==
  kbdQ = <<>> =>
    /\ paused_state = Due
    /\ IF paused_state # {} THEN current_kbd_pct = 0
                            ELSE current_kbd_pct \in Matching \cup {NoLevel}
=============================================================================
