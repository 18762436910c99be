------------------------------- MODULE PMLock -------------------------------
(***************************************************************************)
(* The other half of the PM module: while screensaver inhibition is on and *)
(* conf.inhibit_pm is set, hold an idle lock of systemd-logind or, failing *)
(* that, of org.freedesktop.PowerManagement.                               *)
(*                                                                         *)
(* INHIBIT announces its changes with INHIBIT_UPD; PM answers one with a   *)
(* PM_REQ to itself, which takes its turn in the same pipe.  Names differ  *)
(* from those of Suspend, the first half, so that both may be extended.    *)
(***************************************************************************)
EXTENDS Naturals, Sequences

CONSTANTS
  Faults,       \* what may fail: subset of AllFaults
  ToggleConf,   \* TRUE: InhibitPM is written over D-Bus while running
  MaxRequests   \* bound on the PM pipe

AllFaults == {"systemd", "dup", "powermanagement", "release"}

ASSUME PMLockAssumption ==
  /\ Faults \subseteq AllFaults
  /\ ToggleConf \in BOOLEAN
  /\ MaxRequests \in Nat \ {0}

VARIABLES
  inhibited,      \* state.inhibited
  inhibit_pm,     \* conf.inh_conf.inhibit_pm
  lockQ,          \* the PM pipe: INHIBIT_UPDs and PM_REQs
  pm_inhibited,   \* state.pm_inhibited
  token,          \* pm_inh_token is set (is not -1)
  inh_api,        \* NONE, SYSTEMD or POWERMANAGEMENT
  locks,          \* the lock services that hold a lock for Clight
  stopped,        \* LOOP_STOPPED has been received
  mishap          \* history: what is known to have gone wrong, see Mishaps

pmVars == <<inhibited, inhibit_pm, lockQ, pm_inhibited, token, inh_api, locks, stopped, mishap>>

Services == {"SYSTEMD", "POWERMANAGEMENT"}
Msg == [type: {"INHIBIT_UPD"}] \cup [type: {"PM_REQ"}, new: BOOLEAN]

(***************************************************************************)
(* Until PM answers the next PM_REQ: no service gave a lock ("refused") or *)
(* UnInhibit could not be sent ("unreleased").  Until PM sends the next    *)
(* one: inhibit_pm was written ("conf").  For good: a descriptor could not *)
(* be kept ("lost"), a lock of PowerManagement was left behind ("left").   *)
(***************************************************************************)
Mishaps == {"refused", "unreleased", "conf", "lost", "left"}

LockTypeOK == /\ inhibited \in BOOLEAN /\ inhibit_pm \in BOOLEAN
              /\ lockQ \in Seq(Msg)
              /\ pm_inhibited \in BOOLEAN /\ token \in BOOLEAN
              /\ inh_api \in Services \cup {"NONE"}
              /\ locks \subseteq Services
              /\ stopped \in BOOLEAN
              /\ mishap \subseteq Mishaps

LockInit == /\ inhibited = FALSE /\ inhibit_pm \in BOOLEAN /\ lockQ = <<>>
            /\ pm_inhibited = FALSE /\ token = FALSE /\ inh_api = "NONE"
            /\ locks = {} /\ stopped = FALSE /\ mishap = {}

ownVars == <<pm_inhibited, token, inh_api, locks>>
lockVars == <<ownVars, mishap>>

Publish(m) == Len(lockQ) < MaxRequests /\ lockQ' = Append(lockQ, m)

-----------------------------------------------------------------------------
\* Whether an operation that Faults may spoil goes well.
Works(fault) == IF fault \in Faults THEN BOOLEAN ELSE {TRUE}

\* How PM's answer to a request went.
Answered(ill) == mishap' = (mishap \ {"refused", "unreleased"}) \cup ill

(***************************************************************************)
(* acquire_systemd_lock.  The reply's descriptor closes with the message:  *)
(* if duplicating it fails, logind drops the lock and the token stays -1,  *)
(* an unsigned value the test "> 0" takes for a token.                     *)
(***************************************************************************)
AcquireSystemd(dup) ==
  /\ inh_api' = "SYSTEMD"
  /\ token' = dup
  /\ locks' = IF dup THEN locks \cup {"SYSTEMD"} ELSE locks
  /\ pm_inhibited' = TRUE /\ Answered(IF dup THEN {} ELSE {"lost"})

\* acquire_pm_lock, after acquire_systemd_lock has failed: the system bus is asked.
AcquirePowerManagement ==
  /\ inh_api' = "POWERMANAGEMENT"
  /\ token' = TRUE
  /\ locks' = locks \cup {"POWERMANAGEMENT"}
  /\ pm_inhibited' = TRUE /\ Answered({})

\* Mutant: the failure of acquire_pm_lock is not noticed.
AcquireNothingReported ==
  /\ inh_api' = "NONE" /\ Answered({"refused"})
  /\ pm_inhibited' = TRUE /\ UNCHANGED <<token, locks>>

\* Neither service gives a lock.
AcquireNothing ==
  /\ inh_api' = "NONE" /\ Answered({"refused"})
  /\ UNCHANGED <<token, locks, pm_inhibited>>

\* on_pm_req(true): systemd first, PowerManagement next; nothing if token is set.
AcquireLock ==
  /\ ~token
  /\ \/ \E dup \in Works("dup") : AcquireSystemd(dup)
     \/ "systemd" \in Faults /\ AcquirePowerManagement
     \/ {"systemd", "powermanagement"} \subseteq Faults /\ AcquireNothing

\* Mutant: release_lock knows the descriptor of logind only.
ReleaseSystemdOnly ==
  /\ token
  /\ IF inh_api = "SYSTEMD"
       THEN /\ token' = FALSE /\ inh_api' = "NONE"
            /\ locks' = locks \ {"SYSTEMD"}
            /\ pm_inhibited' = FALSE /\ Answered({})
       ELSE UNCHANGED lockVars

(***************************************************************************)
(* on_pm_req(false).  Closing the descriptor gives back logind's lock.     *)
(* UnInhibit is sent on the user bus, where no answer is waited for: the   *)
(* service that gave its lock on the system bus does not hear of it, and   *)
(* PM takes the lock for released unless sending fails.                    *)
(***************************************************************************)
ReleaseLock ==
  /\ token
  /\ \E sent \in IF inh_api = "SYSTEMD" THEN {TRUE} ELSE Works("release") :
       IF sent
         THEN /\ token' = FALSE /\ inh_api' = "NONE"
              /\ locks' = locks \ {"SYSTEMD"}
              /\ pm_inhibited' = FALSE
              /\ Answered(IF inh_api = "SYSTEMD" THEN {} ELSE {"left"})
         ELSE UNCHANGED ownVars /\ Answered({"unreleased"})

OnPmReq(new) ==
  \/ new /\ AcquireLock
  \/ ~new /\ ReleaseLock
  \/ token = new /\ UNCHANGED ownVars /\ Answered({})

-----------------------------------------------------------------------------
\* INHIBIT changes the flag and publishes the change.
InhibitChanges ==
  /\ ~stopped
  /\ inhibited' = ~inhibited
  /\ Publish([type |-> "INHIBIT_UPD"])
  /\ UNCHANGED <<inhibit_pm, lockVars, stopped>>

\* The InhibitPM property of org.clight.clight.Conf.Inhibit is written.
SetInhibitPM ==
  /\ ToggleConf /\ ~stopped
  /\ inhibit_pm' = ~inhibit_pm
  /\ mishap' = mishap \cup {"conf"}
  /\ UNCHANGED <<inhibited, lockQ, ownVars, stopped>>

\* Mutant: the request is published without its payload.
ReceiveInhibitUpdEmpty ==
  /\ lockQ # <<>> /\ Head(lockQ).type = "INHIBIT_UPD" /\ ~stopped
  /\ lockQ' = IF inhibit_pm THEN Append(Tail(lockQ), [type |-> "PM_REQ"]) ELSE Tail(lockQ)
  /\ mishap' = IF inhibit_pm THEN mishap \ {"conf"} ELSE mishap
  /\ UNCHANGED <<inhibited, inhibit_pm, ownVars, stopped>>

\* receive, INHIBIT_UPD: ask for what the state says now.
ReceiveInhibitUpd ==
  /\ lockQ # <<>> /\ Head(lockQ).type = "INHIBIT_UPD" /\ ~stopped
  /\ lockQ' = IF inhibit_pm
              THEN Append(Tail(lockQ), [type |-> "PM_REQ", new |-> inhibited])
              ELSE Tail(lockQ)
  /\ mishap' = IF inhibit_pm THEN mishap \ {"conf"} ELSE mishap
  /\ UNCHANGED <<inhibited, inhibit_pm, ownVars, stopped>>

\* receive, PM_REQ: validate_pm, then on_pm_req.
ReceivePmReq ==
  /\ lockQ # <<>> /\ Head(lockQ).type = "PM_REQ" /\ ~stopped
  /\ lockQ' = Tail(lockQ)
  /\ IF Head(lockQ).new # pm_inhibited THEN OnPmReq(Head(lockQ).new)
                                         ELSE UNCHANGED ownVars /\ Answered({})
  /\ UNCHANGED <<inhibited, inhibit_pm, stopped>>

\* Mutant: PM does not listen to LOOP_STOPPED.
LoopStoppedUnheard ==
  /\ ~stopped /\ stopped' = TRUE
  /\ UNCHANGED <<inhibited, inhibit_pm, lockQ, lockVars>>

\* receive, LOOP_STOPPED: the lock does not outlive Clight's loop.
LoopStopped ==
  /\ ~stopped /\ stopped' = TRUE
  /\ IF token THEN OnPmReq(FALSE) ELSE UNCHANGED lockVars
  /\ UNCHANGED <<inhibited, inhibit_pm, lockQ>>

LockNext == \/ InhibitChanges \/ SetInhibitPM
            \/ ReceiveInhibitUpd \/ ReceivePmReq
            \/ LoopStopped

LockSpec == LockInit /\ [][LockNext]_pmVars

-----------------------------------------------------------------------------
(***************************************************************************)
(* Once PM has caught up, the system is kept from idling exactly while     *)
(* something inhibits the screensaver and the configuration wants it       *)
(* (INHIBIT_UPD, then PM_REQ, each reading the state when it is received). *)
(* After a refusal, a failed release or a change of the configuration this *)
(* is so again from the next request on; not after a lock was lost or left.*)
(***************************************************************************)
LockFollowsInhibition ==
  lockQ = <<>> /\ ~stopped /\ mishap = {} => (locks # {} <=> inhibited /\ inhibit_pm)

(***************************************************************************)
(* What Clight reports is what is held: behind state.pm_inhibited there is *)
(* a lock of the service inh_api names, unless it was lost, and every lock *)
(* is reported but the one of PowerManagement that was left behind.        *)
(***************************************************************************)
ReportedIsHeld ==
  /\ pm_inhibited => inh_api \in locks \/ "lost" \in mishap
  /\ \A api \in locks : \/ pm_inhibited /\ inh_api = api
                        \/ api = "POWERMANAGEMENT" /\ "left" \in mishap

(***************************************************************************)
(* When the loop has stopped no lock of logind is left, whatever failed    *)
(* before, and one of PowerManagement only if PM could not send UnInhibit  *)
(* or did so on the user bus.                                              *)
(***************************************************************************)
ReleasedOnStop ==
  stopped => \A api \in locks :
    api = "POWERMANAGEMENT" /\ mishap \cap {"unreleased", "left"} # {}

(***************************************************************************)
(* PM "[releases] any PowerManagement inhibition upon leaving", says the   *)
(* comment in receive.  This is false of the lock that was left, see       *)
(* README.                                                                 *)
(***************************************************************************)
NothingLeftOnStop == stopped /\ "unreleased" \notin mishap => locks = {}
=============================================================================
