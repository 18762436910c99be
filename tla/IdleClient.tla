----------------------------- MODULE IdleClient -----------------------------
(***************************************************************************)
(* DIMMER and DPMS: each owns an idle client of Clightd, started and       *)
(* stopped as the module pauses and resumes, with a timeout for each state *)
(* of the AC cable.  The two modules run the same state machine; "Module"  *)
(* says which one is meant where INTERFACE treats them differently.        *)
(*                                                                         *)
(* Other modules change "state" first and announce it through the module's *)
(* pipe; the module reads "state" again when the message reaches it.       *)
(***************************************************************************)
EXTENDS Naturals, Sequences

CONSTANTS
  Module,        \* "DIMMER" or "DPMS"
  SetTimeouts,   \* TRUE: the user writes timeouts over D-Bus
  SuspendUsed,   \* TRUE: PM suspends and resumes
  MaxPending     \* bound on the pipe

ASSUME IdleClientAssumption ==
  /\ Module \in {"DIMMER", "DPMS"}
  /\ SetTimeouts \in BOOLEAN
  /\ SuspendUsed \in BOOLEAN
  /\ MaxPending \in Nat \ {0}

AcStates == {"ON_AC", "ON_BATTERY"}

VARIABLES
  ac_state,      \* state.ac_state
  inhibited,     \* state.inhibited
  suspended,     \* state.suspended
  timeout,       \* the AC states whose conf timeout is above 0
  written,       \* history: the timeouts as last written and not dropped
  overwritten,   \* history: the AC states whose last write was overwritten unread
  to_req,        \* the static DIMMER_TO_REQ or DPMS_TO_REQ of INTERFACE
  pipe,          \* kinds of the messages in the module's pipe
  phase,         \* "waiting" for an AC state, "started", or "gone"
  paused_state,  \* the reasons the module is paused for
  client,        \* the idle client of Clightd is running
  skipped        \* history: an inhibition kept the client stopped, not a pause

vars == <<ac_state, inhibited, suspended, timeout, written, overwritten, to_req, pipe,
          phase, paused_state, client, skipped>>

Kinds == {"UPOWER_UPD", "INHIBIT_UPD", "SUSPEND_UPD", "TO_REQ", "SIMULATE_REQ"}

TypeOK == /\ ac_state \in AcStates \cup {"UNKNOWN"}
          /\ inhibited \in BOOLEAN /\ suspended \in BOOLEAN
          /\ timeout \subseteq AcStates /\ written \subseteq AcStates
          /\ overwritten \subseteq AcStates
          /\ to_req \in [state: AcStates, new: BOOLEAN]
          /\ pipe \in Seq(Kinds)
          /\ phase \in {"waiting", "started", "gone"}
          /\ paused_state \subseteq {"TIMEOUT", "INHIBIT", "SUSPEND"}
          /\ client \in BOOLEAN /\ skipped \in BOOLEAN

Init == /\ ac_state = "UNKNOWN"
        /\ inhibited = FALSE /\ suspended = FALSE
        /\ timeout \in SUBSET AcStates /\ written = timeout /\ overwritten = {}
        /\ to_req = [state |-> "ON_AC", new |-> FALSE]
        /\ pipe = <<>>
        /\ phase = "waiting" /\ paused_state = {} /\ client = FALSE
        /\ skipped = FALSE

-----------------------------------------------------------------------------
\* What the rest of Clight does.
stateVars == <<ac_state, inhibited, suspended>>
writes == <<written, overwritten>>
confVars == <<timeout, writes, to_req>>
pauseVars == <<paused_state, client, skipped>>
ownVars == <<phase, pauseVars>>

Publish(kind) == Len(pipe) < MaxPending /\ pipe' = Append(pipe, kind)

UPowerChanges ==
  /\ \E ac \in AcStates \ {ac_state} : ac_state' = ac
  /\ Publish("UPOWER_UPD")
  /\ UNCHANGED <<inhibited, suspended, confVars, ownVars>>

InhibitChanges ==
  /\ inhibited' = ~inhibited
  /\ Publish("INHIBIT_UPD")
  /\ UNCHANGED <<ac_state, suspended, confVars, ownVars>>

SuspendChanges ==
  /\ SuspendUsed
  /\ suspended' = ~suspended
  /\ Publish("SUSPEND_UPD")
  /\ UNCHANGED <<ac_state, inhibited, confVars, ownVars>>

\* Simulate of org.clight.clight: as if the user had touched the machine.
Simulate ==
  /\ Publish("SIMULATE_REQ")
  /\ UNCHANGED <<stateVars, confVars, ownVars>>

\* Mutant: the write goes to the present AC state, known or not.
RequestStateNow(ac) == ac_state

\* Mutant: every module gets what DPMS gets.
RequestStateAc(ac) == "ON_AC"

(***************************************************************************)
(* set_timeouts of INTERFACE: a property of the module is written.  For    *)
(* the BattTimeout of DPMS the AC state goes into the message of DIMMER,   *)
(* and the one of DPMS keeps the ON_AC that every earlier write put there. *)
(***************************************************************************)
RequestState(ac) == IF Module = "DPMS" THEN "ON_AC" ELSE ac

Unread == \E i \in DOMAIN pipe : pipe[i] = "TO_REQ"

\* Copies of the message that are still unread read as it is now.
SetTimeout(ac, new) ==
  /\ SetTimeouts
  /\ to_req' = [state |-> RequestState(ac), new |-> new]
  /\ written' = IF new THEN written \cup {ac} ELSE written \ {ac}
  /\ overwritten' = (overwritten \cup IF Unread THEN {to_req.state} ELSE {}) \ {ac}
  /\ Publish("TO_REQ")
  /\ UNCHANGED <<stateVars, timeout, ownVars>>

\* The BattTimeout of DPMS is written while DIMMER is the module modelled: an
\* unread request for ON_AC becomes one for ON_BATTERY.
SetOtherTimeout ==
  /\ SetTimeouts /\ Module = "DIMMER"
  /\ to_req' = [to_req EXCEPT !.state = "ON_BATTERY"]
  /\ overwritten' = IF Unread /\ to_req.state = "ON_AC" THEN AcStates ELSE overwritten
  /\ UNCHANGED <<stateVars, timeout, written, pipe, ownVars>>

-----------------------------------------------------------------------------
\* mod_check_pause: the first reason pauses, the last one to go resumes.
Pauses(reasons) == reasons = {}
Resumes(reasons, reason) == reasons # {} /\ reasons \ {reason} = {}

\* A client that was not started stays so until it is, or a pause stops it.
Skips(now) == skipped' = ((skipped \/ now) /\ paused_state' = {} /\ ~client')

(***************************************************************************)
(* pause_dimmer, pause_dpms.  On resuming, idle_client_start starts the    *)
(* client only if the timeout "on" of the present AC state allows it.      *)
(***************************************************************************)
PauseModule(reason) ==
  /\ paused_state' = paused_state \cup {reason}
  /\ client' = (client /\ ~Pauses(paused_state))
  /\ Skips(FALSE)

\* Mutant: the module resumes, its client does not.
ResumeWithoutStart(reason, on) ==
  /\ paused_state' = paused_state \ {reason}
  /\ UNCHANGED client /\ Skips(FALSE)

ResumeModule(reason, on) ==
  /\ paused_state' = paused_state \ {reason}
  /\ client' = (client \/ (Resumes(paused_state, reason) /\ on))
  /\ Skips(FALSE)

\* timeout_callback; idle_set_timeout starts the client if not inhibited.
TimeoutCallback(on) ==
  IF on
    THEN /\ paused_state' = paused_state \ {"TIMEOUT"}
         /\ client' = (client \/ ~inhibited \/ Resumes(paused_state, "TIMEOUT"))
         /\ Skips(inhibited)
    ELSE PauseModule("TIMEOUT")

Received(kind) ==
  /\ pipe # <<>> /\ Head(pipe) = kind
  /\ pipe' = Tail(pipe)
  /\ UNCHANGED <<stateVars, to_req>>

\* The timeouts, once the module has acted upon the message as it is now.
Requested == IF to_req.new THEN timeout \cup {to_req.state} ELSE timeout \ {to_req.state}

-----------------------------------------------------------------------------
\* receive_waiting_acstate: the first UPOWER_UPD starts the module, unless
\* Clightd has no idle client to give.
StartModule ==
  /\ phase = "waiting" /\ Received("UPOWER_UPD")
  /\ \/ phase' = "started" /\ TimeoutCallback(ac_state \in timeout)
     \/ phase' = "gone" /\ UNCHANGED pauseVars
  /\ UNCHANGED <<timeout, writes>>

(***************************************************************************)
(* Before that, every other message is dropped; after it left, nobody      *)
(* listens.  A request dropped is as if it had not been written, but for   *)
(* what an unread copy of it still says.                                   *)
(***************************************************************************)
Drop ==
  /\ \/ phase = "waiting" /\ \E kind \in Kinds \ {"UPOWER_UPD"} : Received(kind)
     \/ phase = "gone" /\ \E kind \in Kinds : Received(kind)
  /\ IF Head(pipe) = "TO_REQ"
       THEN /\ written' = IF Unread' THEN Requested ELSE timeout
            /\ overwritten' = {}
       ELSE UNCHANGED writes
  /\ UNCHANGED <<timeout, ownVars>>

ReceiveUPower ==
  /\ phase = "started" /\ Received("UPOWER_UPD")
  /\ TimeoutCallback(ac_state \in timeout)
  /\ UNCHANGED <<timeout, writes, phase>>

ReceiveInhibit ==
  /\ phase = "started" /\ Received("INHIBIT_UPD")
  /\ IF inhibited THEN PauseModule("INHIBIT")
                  ELSE ResumeModule("INHIBIT", ac_state \in timeout)
  /\ UNCHANGED <<timeout, writes, phase>>

ReceiveSuspend ==
  /\ phase = "started" /\ Received("SUSPEND_UPD")
  /\ IF suspended THEN PauseModule("SUSPEND")
                  ELSE ResumeModule("SUSPEND", ac_state \in timeout)
  /\ UNCHANGED <<timeout, writes, phase>>

\* DIMMER_TO_REQ, DPMS_TO_REQ: stored; acted upon if it is the present state.
ReceiveTimeout ==
  /\ phase = "started" /\ Received("TO_REQ")
  /\ timeout' = Requested
  /\ IF to_req.state = ac_state
       THEN TimeoutCallback(ac_state \in timeout')
       ELSE UNCHANGED pauseVars
  /\ UNCHANGED <<writes, phase>>

\* idle_client_reset stops the client and starts it again; not while paused.
ReceiveSimulate ==
  /\ phase = "started" /\ Received("SIMULATE_REQ")
  /\ client' = IF paused_state = {} THEN ac_state \in timeout ELSE client
  /\ UNCHANGED <<timeout, writes, phase, paused_state>>
  /\ Skips(FALSE)

Receive == \/ StartModule \/ Drop
           \/ ReceiveUPower \/ ReceiveInhibit \/ ReceiveSuspend
           \/ ReceiveTimeout \/ ReceiveSimulate

Next == \/ UPowerChanges \/ InhibitChanges \/ SuspendChanges \/ Simulate
        \/ \E ac \in AcStates, new \in BOOLEAN : SetTimeout(ac, new)
        \/ SetOtherTimeout
        \/ Receive

Spec == Init /\ [][Next]_vars

\* The event loop dispatches what is in the pipe.
FairSpec == Spec /\ WF_vars(Receive)

-----------------------------------------------------------------------------
Settled == phase = "started" /\ pipe = <<>>

\* The module should be looking for an idle user.
Wanted == ac_state \in timeout /\ ~inhibited /\ ~suspended

(***************************************************************************)
(* Once the module has seen everything that was announced, its client      *)
(* runs whenever it should, however pauses for a timeout, an inhibition    *)
(* and a suspension overlapped on the way, also before it started.  But    *)
(* idle_set_timeout asks state.inhibited where a resume asks paused_state: *)
(* a client it did not start for an inhibition the module is not told in   *)
(* time, or not at all, waits for the next change or simulated activity.   *)
(***************************************************************************)
ClientRunsWhenWanted == Settled /\ Wanted /\ ~skipped => client

(***************************************************************************)
(* An inhibition pauses DPMS and DIMMER, says the configuration: no idle   *)
(* user is detected while the screensaver is inhibited.  This is false of  *)
(* an inhibition that was dropped before the module started, see README.   *)
(***************************************************************************)
NoClientWhileInhibited == Settled /\ inhibited => ~client

\* Nor is one by a module that was told of the inhibition, and is paused for it.
NoClientWhilePaused == Settled /\ inhibited /\ "INHIBIT" \in paused_state => ~client

(***************************************************************************)
(* The module's timeouts become what the user wrote over D-Bus: all but    *)
(* those whose request was overwritten in the pipe, by one for another AC  *)
(* state or by a write of DPMS's, before the module read it.               *)
(***************************************************************************)
TimeoutsAsWritten ==
  Settled => \A ac \in AcStates \ overwritten : ac \in timeout <=> ac \in written

(***************************************************************************)
(* A client that should run is started, unless that changes again: an      *)
(* inhibition may keep idle_set_timeout from starting it only once.        *)
(***************************************************************************)
ClientEventuallyRuns == phase = "started" /\ Wanted /\ ~skipped ~> client \/ ~Wanted
=============================================================================
