------------------------------- MODULE UPower -------------------------------
(***************************************************************************)
(* The UPOWER module: it mirrors the AC cable and the laptop lid into      *)
(* state.ac_state and state.lid_state, and turns a docked laptop into an   *)
(* inhibition request.  Composed with ScreenSaver, whose applications hold *)
(* inhibitions at the same time.                                           *)
(*                                                                         *)
(* The hardware changes at any moment; each change of cable or lid makes   *)
(* UPower emit a PropertiesChanged signal; its handler reads the           *)
(* properties again, compares them with the STORED state, and publishes    *)
(* static requests to UPOWER itself, which store the new state later.      *)
(***************************************************************************)
EXTENDS ScreenSaver

CONSTANTS
  InhibitDocked,   \* conf.inh_conf.inhibit_docked
  Faults,          \* what may fail: subset of {"ping", "match", "read"}
  PatientHardware, \* TRUE: no change while an earlier one is in progress
  MaxSignals       \* bound on the signals waiting in the bus connection

ASSUME UPowerAssumption ==
  /\ InhibitDocked \in BOOLEAN
  /\ Faults \subseteq {"ping", "match", "read"}
  /\ PatientHardware \in BOOLEAN
  /\ MaxSignals \in Nat \ {0}

\* enum ac_states and enum lid_states; -1 is "not known yet" (init_state).
ON_AC == 0
ON_BATTERY == 1
OPEN == 0
CLOSED == 1
DOCKED == 2
UNKNOWN == -1

VARIABLES
  ac, lid, dock,        \* the hardware: OnBattery, LidIsClosed, Docked
  signals,              \* PropertiesChanged signals not yet dispatched
  phase,                \* "init", "running" or "gone" (deregistered)
  ac_state, lid_state,  \* state.ac_state, state.lid_state
  upower_req, lid_req,  \* "new" of the two static requests
  upQ                   \* the UPOWER pipe: kinds of the requests in it

hwVars == <<ac, lid, dock>>
upVars == <<hwVars, signals, phase, ac_state, lid_state, upower_req, lid_req, upQ>>
allVars == <<vars, upVars>>

UPowerTypeOK ==
  /\ TypeOK
  /\ ac \in {ON_AC, ON_BATTERY} /\ lid \in {OPEN, CLOSED} /\ dock \in {0, 1}
  /\ signals \in 0..MaxSignals
  /\ phase \in {"init", "running", "gone"}
  /\ ac_state \in {UNKNOWN, ON_AC, ON_BATTERY}
  /\ lid_state \in {UNKNOWN, OPEN, CLOSED, DOCKED}
  /\ upower_req \in {ON_AC, ON_BATTERY} /\ lid_req \in {OPEN, CLOSED, DOCKED}
  /\ upQ \in Seq({"UPOWER_REQ", "LID_REQ"})

UPowerInit ==
  /\ Init
  /\ ac \in {ON_AC, ON_BATTERY} /\ lid \in {OPEN, CLOSED} /\ dock \in {0, 1}
  /\ signals = 0 /\ phase = "init"
  /\ ac_state = UNKNOWN /\ lid_state = UNKNOWN
  /\ upower_req = ON_AC /\ lid_req = OPEN
  /\ upQ = <<>>

-----------------------------------------------------------------------------
\* Mutant: the lid states are numbered from 1.
AsBoolOffByOne(l) == IF l = OPEN THEN OPEN ELSE l + 1

\* A bool parameter: any lid state but OPEN arrives as 1.
AsBool(l) == IF l = OPEN THEN OPEN ELSE CLOSED

\* Whether a property read fails.
Read == IF "read" \in Faults THEN BOOLEAN ELSE {TRUE}

\* !!state.lid_state != lid_state, or nothing known yet.
LidChanged == lid_state = UNKNOWN \/ AsBool(lid_state) # lid

\* Mutant: the dock counts with the lid open as well.
DockedAnyLid(answered) == IF InhibitDocked /\ answered THEN dock ELSE 0

\* lid_state and docked once login1's Docked has been asked, if it is.
DockedNow(answered) ==
  IF InhibitDocked /\ lid = CLOSED /\ answered THEN dock ELSE 0

(***************************************************************************)
(* on_upower_change: compare, publish; the state itself is not touched.    *)
(* "got" says which of the property reads succeeded.                       *)
(***************************************************************************)
Reads == [ac : Read, lid : Read, dock : Read]

\* Mutant: the cable is compared with the last request.
AcNewsToRequest(got) == got.ac /\ upower_req # ac

AcNews(got) == got.ac /\ ac_state # ac
LidNews(got) == got.lid /\ LidChanged

OnUPowerChange(got) ==
  LET docked == DockedNow(got.dock) IN
  /\ upower_req' = IF AcNews(got) THEN ac ELSE upower_req
  /\ lid_req' = IF LidNews(got) THEN AsBool(lid + docked) ELSE lid_req
  /\ IF LidNews(got) /\ InhibitDocked THEN PublishInh(docked = 1) ELSE UNCHANGED inhQ
  /\ UNCHANGED <<inhibited, inhibition_ctr, ssVars>>

\* The requests go down the pipe of UPOWER itself.
QueueRequests(got) ==
  /\ Len(upQ) + 2 <= MaxPending
  /\ upQ' = upQ \o (IF AcNews(got) THEN <<"UPOWER_REQ">> ELSE <<>>)
                \o (IF LidNews(got) THEN <<"LID_REQ">> ELSE <<>>)

\* LOOP_STARTED with UPower reachable and the match installed.
Start ==
  /\ phase = "init" /\ phase' = "running"
  /\ \E got \in Reads : OnUPowerChange(got) /\ QueueRequests(got)
  /\ UNCHANGED <<hwVars, signals, ac_state, lid_state>>

\* The module falls back to ON_AC and OPEN and leaves; its pipe is closed.
Fallback ==
  /\ phase = "init" /\ phase' = "gone"
  /\ ac_state' = ON_AC /\ lid_state' = OPEN
  /\ UNCHANGED <<hwVars, signals, upQ>>

\* LOOP_STARTED without UPower.
StartWithoutUPower ==
  /\ "ping" \in Faults
  /\ Fallback
  /\ UNCHANGED <<upower_req, lid_req, vars>>

\* LOOP_STARTED: the properties were read and published, then add_match failed.
StartWithoutMatch ==
  /\ "match" \in Faults
  /\ \E got \in Reads : OnUPowerChange(got)
  /\ Fallback

\* A PropertiesChanged signal is dispatched by the bus module.
Signal ==
  /\ phase = "running" /\ signals > 0
  /\ signals' = signals - 1
  /\ \E got \in Reads : OnUPowerChange(got) /\ QueueRequests(got)
  /\ UNCHANGED <<hwVars, phase, ac_state, lid_state>>

\* receive, UPOWER_REQ: the state is stored (a request validate_upower refuses
\* would store what is there already).
ReceiveUPowerReq ==
  /\ upQ # <<>> /\ Head(upQ) = "UPOWER_REQ"
  /\ ac_state' = upower_req
  /\ upQ' = Tail(upQ)
  /\ UNCHANGED <<hwVars, signals, phase, lid_state, upower_req, lid_req, vars>>

\* receive, LID_REQ: the same with validate_lid.
ReceiveLidReq ==
  /\ upQ # <<>> /\ Head(upQ) = "LID_REQ"
  /\ lid_state' = lid_req
  /\ upQ' = Tail(upQ)
  /\ UNCHANGED <<hwVars, signals, phase, ac_state, upower_req, lid_req, vars>>

-----------------------------------------------------------------------------
Settled == signals = 0 /\ upQ = <<>> /\ inhQ = <<>>

\* The cable or the lid moves; UPower emits a signal once it is watched.
MoveCableOrLid ==
  /\ PatientHardware => Settled /\ phase # "init"
  /\ \/ ac' = 1 - ac /\ UNCHANGED lid
     \/ lid' = 1 - lid /\ UNCHANGED ac
  /\ signals' = IF phase = "running" THEN signals + 1 ELSE signals
  /\ signals' <= MaxSignals
  /\ UNCHANGED <<dock, phase, ac_state, lid_state, upower_req, lid_req, upQ, vars>>

\* The laptop is docked or undocked: login1 says so only when asked.
MoveDock ==
  /\ PatientHardware => Settled
  /\ dock' = 1 - dock
  /\ UNCHANGED <<ac, lid, signals, phase, ac_state, lid_state, upower_req, lid_req, upQ, vars>>

UPowerNext ==
  \/ Start \/ StartWithoutUPower \/ StartWithoutMatch
  \/ Signal \/ ReceiveUPowerReq \/ ReceiveLidReq
  \/ MoveCableOrLid \/ MoveDock
  \/ Next /\ UNCHANGED upVars

UPowerSpec == UPowerInit /\ [][UPowerNext]_allVars

-----------------------------------------------------------------------------
(***************************************************************************)
(* When no signal and no message is under way, cable and lid are what      *)
(* "state" says (on_upower_change compares with a state that the requests  *)
(* it published before may not have reached yet).                          *)
(***************************************************************************)
HardwareMirrored ==
  Settled /\ phase = "running" =>
    /\ ac_state = ac
    /\ lid_state # UNKNOWN /\ AsBool(lid_state) = lid

(***************************************************************************)
(* An inhibition that no application asked for comes from a dock, and does *)
(* not outlive the closed lid: the requests of publish_inh come in pairs.  *)
(***************************************************************************)
DockedNeedsLid ==
  Settled /\ phase = "running" /\ DOMAIN lock_map = {} /\ inhibited => lid = CLOSED
=============================================================================
