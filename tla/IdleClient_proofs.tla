-------------------------- MODULE IdleClient_proofs --------------------------
(***************************************************************************)
(* Proofs about DIMMER and DPMS, for any bound on their pipe and any use   *)
(* of the bus: types, that the idle client runs when it should, and that   *)
(* DIMMER keeps the timeouts that were written.                            *)
(***************************************************************************)
EXTENDS IdleClient, TLAPS

\* A message of this kind is in the pipe.
In(q, k) == \E i \in DOMAIN q : q[i] = k

LEMMA AppendAt ==
  ASSUME NEW S, NEW q \in Seq(S), NEW m \in S
  PROVE  /\ Append(q, m) \in Seq(S) /\ Len(q) \in Nat
         /\ DOMAIN q = 1 .. Len(q) /\ DOMAIN Append(q, m) = 1 .. Len(q) + 1
         /\ \A i \in 1 .. Len(q) : Append(q, m)[i] = q[i]
         /\ Append(q, m)[Len(q) + 1] = m
  OBVIOUS

LEMMA TailAt ==
  ASSUME NEW S, NEW q \in Seq(S), q # <<>>
  PROVE  /\ Tail(q) \in Seq(S) /\ Len(q) \in Nat \ {0}
         /\ DOMAIN q = 1 .. Len(q) /\ DOMAIN Tail(q) = 1 .. Len(q) - 1
         /\ Head(q) = q[1] /\ \A i \in 1 .. Len(q) - 1 : Tail(q)[i] = q[i + 1]
  OBVIOUS

\* A message is sent.
LEMMA AppendIn ==
  ASSUME NEW S, NEW q \in Seq(S), NEW m \in S, NEW k
  PROVE  In(Append(q, m), k) <=> In(q, k) \/ m = k
  <1>0. /\ Len(q) \in Nat
        /\ DOMAIN q = 1 .. Len(q) /\ DOMAIN Append(q, m) = 1 .. Len(q) + 1
        /\ \A i \in 1 .. Len(q) : Append(q, m)[i] = q[i]
        /\ Append(q, m)[Len(q) + 1] = m
    BY AppendAt
  <1>1. \A n \in Nat : \A i \in 1 .. n : i \in 1 .. n + 1
    OBVIOUS
  <1>2. \A n \in Nat : \A i \in 1 .. n + 1 : i \in 1 .. n \/ i = n + 1
    OBVIOUS
  <1>3. \A n \in Nat : n + 1 \in 1 .. n + 1
    OBVIOUS
  <1> QED
    BY <1>0, <1>1, <1>2, <1>3 DEF In

\* The first message is read.
LEMMA TailIn ==
  ASSUME NEW S, NEW q \in Seq(S), q # <<>>, NEW k
  PROVE  In(q, k) <=> Head(q) = k \/ In(Tail(q), k)
  <1>0. /\ Len(q) \in Nat \ {0}
        /\ DOMAIN q = 1 .. Len(q) /\ DOMAIN Tail(q) = 1 .. Len(q) - 1
        /\ Head(q) = q[1] /\ \A i \in 1 .. Len(q) - 1 : Tail(q)[i] = q[i + 1]
    BY TailAt
  <1>1. \A n \in Nat \ {0} : 1 \in 1 .. n /\ \A i \in 1 .. n - 1 : i + 1 \in 1 .. n /\ i + 1 # 1
    OBVIOUS
  <1>2. \A n \in Nat \ {0} : \A i \in 1 .. n : i = 1 \/ (i - 1 \in 1 .. n - 1 /\ (i - 1) + 1 = i)
    OBVIOUS
  <1>3. In(q, k) => Head(q) = k \/ In(Tail(q), k)
    <2> SUFFICES ASSUME NEW i \in 1 .. Len(q), q[i] = k, i # 1 PROVE In(Tail(q), k)
      BY <1>0 DEF In
    <2>1. i - 1 \in 1 .. Len(q) - 1 /\ (i - 1) + 1 = i
      BY <1>0, <1>2
    <2> QED
      BY <1>0, <2>1 DEF In
  <1>4. Head(q) = k \/ In(Tail(q), k) => In(q, k)
    BY <1>0, <1>1 DEF In
  <1> QED
    BY <1>3, <1>4

-----------------------------------------------------------------------------
(***************************************************************************)
(* A started module is paused for its timeout exactly if that is off, and  *)
(* for another reason only if there is one, or has news of it unread; what *)
(* was announced before it started it may not know.  A client that does    *)
(* not run although nothing pauses the module was skipped, or waits for    *)
(* news of the AC state.                                                   *)
(***************************************************************************)
Started == phase = "started"
Waits == phase = "waiting" => paused_state = {}
TimeoutKnown ==
  Started => In(pipe, "UPOWER_UPD") \/ ("TIMEOUT" \in paused_state <=> ac_state \notin timeout)
InhibitKnown ==
  Started => In(pipe, "INHIBIT_UPD") \/ ("INHIBIT" \in paused_state => inhibited)
SuspendKnown ==
  Started => In(pipe, "SUSPEND_UPD") \/ ("SUSPEND" \in paused_state => suspended)
Runs ==
  Started /\ paused_state = {} /\ ac_state \in timeout =>
    client \/ skipped \/ In(pipe, "UPOWER_UPD")

\* The inductive invariant.
IInv == TypeOK /\ Waits /\ TimeoutKnown /\ InhibitKnown /\ SuspendKnown /\ Runs

LEMMA InitInv == Init => IInv
  <1> SUFFICES ASSUME Init PROVE IInv
    OBVIOUS
  <1>1. pipe \in Seq(Kinds) /\ to_req \in [state: AcStates, new: BOOLEAN]
    BY DEF Init, AcStates
  <1> QED
    BY <1>1 DEF Init, IInv, TypeOK, Waits, TimeoutKnown, InhibitKnown, SuspendKnown, Runs, Started

\* A message is sent, and the module does nothing.
LEMMA Sent ==
  ASSUME IInv, NEW kind \in Kinds, Publish(kind)
  PROVE  /\ pipe' \in Seq(Kinds)
         /\ \A k : In(pipe', k) <=> In(pipe, k) \/ kind = k
  <1>1. pipe \in Seq(Kinds) /\ pipe' = Append(pipe, kind)
    BY DEF IInv, TypeOK, Publish
  <1> QED
    BY <1>1, AppendAt, AppendIn

LEMMA Read ==
  ASSUME IInv, NEW kind, Received(kind)
  PROVE  /\ pipe' \in Seq(Kinds)
         /\ \A k : In(pipe, k) <=> kind = k \/ In(pipe', k)
         /\ UNCHANGED <<ac_state, inhibited, suspended, to_req>>
  <1>1. pipe \in Seq(Kinds) /\ pipe # <<>> /\ Head(pipe) = kind /\ pipe' = Tail(pipe)
        /\ UNCHANGED <<stateVars, to_req>>
    BY DEF IInv, TypeOK, Received
  <1>2. pipe' \in Seq(Kinds)
    BY <1>1, TailAt
  <1>3. \A k : In(pipe, k) <=> kind = k \/ In(pipe', k)
    BY <1>1, TailIn
  <1> QED
    BY <1>1, <1>2, <1>3 DEF stateVars

LEMMA UPowerStep == ASSUME IInv, UPowerChanges PROVE IInv'
  <1>1. ac_state' \in AcStates /\ UNCHANGED <<inhibited, suspended, confVars, ownVars>>
    BY DEF UPowerChanges
  <1>2. pipe' \in Seq(Kinds) /\ \A k : In(pipe', k) <=> In(pipe, k) \/ "UPOWER_UPD" = k
    BY Sent DEF UPowerChanges, Kinds
  <1> QED
    BY <1>1, <1>2 DEF IInv, TypeOK, Waits, TimeoutKnown, InhibitKnown, SuspendKnown, Runs, Started,
       confVars, writes, ownVars, pauseVars

LEMMA InhibitStep == ASSUME IInv, InhibitChanges PROVE IInv'
  <1>1. inhibited' = ~inhibited /\ UNCHANGED <<ac_state, suspended, confVars, ownVars>>
    BY DEF InhibitChanges
  <1>2. pipe' \in Seq(Kinds) /\ \A k : In(pipe', k) <=> In(pipe, k) \/ "INHIBIT_UPD" = k
    BY Sent DEF InhibitChanges, Kinds
  <1> QED
    BY <1>1, <1>2 DEF IInv, TypeOK, Waits, TimeoutKnown, InhibitKnown, SuspendKnown, Runs, Started,
       confVars, writes, ownVars, pauseVars

LEMMA SuspendStep == ASSUME IInv, SuspendChanges PROVE IInv'
  <1>1. suspended' = ~suspended /\ UNCHANGED <<ac_state, inhibited, confVars, ownVars>>
    BY DEF SuspendChanges
  <1>2. pipe' \in Seq(Kinds) /\ \A k : In(pipe', k) <=> In(pipe, k) \/ "SUSPEND_UPD" = k
    BY Sent DEF SuspendChanges, Kinds
  <1> QED
    BY <1>1, <1>2 DEF IInv, TypeOK, Waits, TimeoutKnown, InhibitKnown, SuspendKnown, Runs, Started,
       confVars, writes, ownVars, pauseVars

\* Requests of the bus change nothing the module looks at before it reads them.
LEMMA RequestStep ==
  ASSUME IInv, \/ Simulate \/ SetOtherTimeout
               \/ \E ac \in AcStates, new \in BOOLEAN : SetTimeout(ac, new)
  PROVE  IInv'
  <1>1. UNCHANGED <<stateVars, timeout, ownVars>>
    BY DEF Simulate, SetOtherTimeout, SetTimeout, confVars
  <1>2. /\ written' \subseteq AcStates /\ overwritten' \subseteq AcStates
        /\ to_req' \in [state: AcStates, new: BOOLEAN]
    <2>1. /\ written \subseteq AcStates /\ overwritten \subseteq AcStates
          /\ to_req \in [state: AcStates, new: BOOLEAN] /\ to_req.state \in AcStates
      BY DEF IInv, TypeOK
    <2>2. CASE Simulate
      BY <2>1, <2>2 DEF Simulate, confVars, writes
    <2>3. CASE SetOtherTimeout
      BY <2>1, <2>3 DEF SetOtherTimeout, AcStates
    <2>4. ASSUME NEW ac \in AcStates, NEW new \in BOOLEAN, SetTimeout(ac, new)
          PROVE  /\ written' \subseteq AcStates /\ overwritten' \subseteq AcStates
                 /\ to_req' \in [state: AcStates, new: BOOLEAN]
      <3>1. RequestState(ac) \in AcStates
        BY DEF RequestState, AcStates
      <3> QED
        BY <2>1, <2>4, <3>1 DEF SetTimeout
    <2> QED
      BY <2>2, <2>3, <2>4
  <1>3. pipe' \in Seq(Kinds) /\ \A k \in Kinds \ {"SIMULATE_REQ", "TO_REQ"} : In(pipe', k) <=> In(pipe, k)
    <2>1. CASE Publish("SIMULATE_REQ")
      BY <2>1, Sent DEF Kinds
    <2>2. CASE Publish("TO_REQ")
      BY <2>2, Sent DEF Kinds
    <2>3. CASE UNCHANGED pipe
      BY <2>3 DEF IInv, TypeOK
    <2> QED
      BY <2>1, <2>2, <2>3 DEF Simulate, SetOtherTimeout, SetTimeout
  <1> QED
    BY <1>1, <1>2, <1>3 DEF IInv, TypeOK, Waits, TimeoutKnown, InhibitKnown, SuspendKnown, Runs, Started,
       stateVars, ownVars, pauseVars, Kinds

-----------------------------------------------------------------------------
\* The callback makes TIMEOUT a reason or none, and starts the client when that resumes the module.
LEMMA CallbackSets ==
  ASSUME IInv, NEW on \in BOOLEAN, TimeoutCallback(on)
  PROVE  /\ paused_state' \subseteq {"TIMEOUT", "INHIBIT", "SUSPEND"} /\ client' \in BOOLEAN
         /\ "TIMEOUT" \in paused_state' <=> ~on
         /\ "INHIBIT" \in paused_state' <=> "INHIBIT" \in paused_state
         /\ "SUSPEND" \in paused_state' <=> "SUSPEND" \in paused_state
         /\ skipped' \in BOOLEAN /\ (paused_state' = {} => client' \/ skipped')
  <1>1. paused_state \subseteq {"TIMEOUT", "INHIBIT", "SUSPEND"} /\ client \in BOOLEAN
        /\ inhibited \in BOOLEAN
    BY DEF IInv, TypeOK
  <1>2. CASE on
    <2>1. /\ paused_state' = paused_state \ {"TIMEOUT"}
          /\ client' = (client \/ ~inhibited \/ Resumes(paused_state, "TIMEOUT"))
          /\ skipped' = ((skipped \/ inhibited) /\ paused_state' = {} /\ ~client')
      BY <1>2 DEF TimeoutCallback, Skips
    <2> QED
      BY <1>1, <1>2, <2>1 DEF Resumes
  <1>3. CASE ~on
    <2>1. /\ paused_state' = paused_state \cup {"TIMEOUT"}
          /\ client' = (client /\ ~Pauses(paused_state))
          /\ skipped' = (skipped /\ paused_state' = {} /\ ~client')
      BY <1>3 DEF TimeoutCallback, PauseModule, Skips
    <2> QED
      BY <1>1, <1>3, <2>1 DEF Pauses
  <1> QED
    BY <1>2, <1>3

\* Whichever message led to the callback, the timeout is known after it.
LEMMA CallbackStep ==
  ASSUME IInv, phase' = "started", phase \in {"waiting", "started"},
         NEW kind \in {"UPOWER_UPD", "TO_REQ"}, Received(kind),
         timeout' \subseteq AcStates, TimeoutCallback(ac_state \in timeout'), UNCHANGED writes
  PROVE  IInv'
  <1>1. /\ pipe' \in Seq(Kinds)
        /\ \A k : In(pipe, k) <=> kind = k \/ In(pipe', k)
        /\ UNCHANGED <<ac_state, inhibited, suspended, to_req>>
    BY Read
  <1>2. (ac_state \in timeout') \in BOOLEAN
    OBVIOUS
  <1>3. /\ paused_state' \subseteq {"TIMEOUT", "INHIBIT", "SUSPEND"} /\ client' \in BOOLEAN
        /\ "TIMEOUT" \in paused_state' <=> ac_state \notin timeout'
        /\ "INHIBIT" \in paused_state' <=> "INHIBIT" \in paused_state
        /\ "SUSPEND" \in paused_state' <=> "SUSPEND" \in paused_state
        /\ skipped' \in BOOLEAN /\ (paused_state' = {} => client' \/ skipped')
    BY <1>2, CallbackSets
  <1>4. TypeOK'
    BY <1>1, <1>3 DEF IInv, TypeOK, writes
  <1>5. Waits' /\ TimeoutKnown'
    BY <1>1, <1>3 DEF Waits, TimeoutKnown
  <1>6. InhibitKnown' /\ SuspendKnown'
    BY <1>1, <1>3 DEF IInv, Waits, InhibitKnown, SuspendKnown, Started
  <1>7. Runs'
    BY <1>1, <1>3 DEF Runs
  <1> QED
    BY <1>4, <1>5, <1>6, <1>7 DEF IInv

\* A reason begins or ends, and the module pauses or resumes with it.
LEMMA ReasonStep ==
  ASSUME IInv, Started, UNCHANGED <<phase, timeout, writes>>,
         NEW kind, NEW reason, NEW pause \in BOOLEAN, Received(kind),
         \/ kind = "INHIBIT_UPD" /\ reason = "INHIBIT" /\ (pause <=> inhibited)
         \/ kind = "SUSPEND_UPD" /\ reason = "SUSPEND" /\ (pause <=> suspended),
         IF pause THEN PauseModule(reason) ELSE ResumeModule(reason, ac_state \in timeout)
  PROVE  IInv'
  <1>1. /\ pipe' \in Seq(Kinds)
        /\ \A k : In(pipe, k) <=> kind = k \/ In(pipe', k)
        /\ UNCHANGED <<ac_state, inhibited, suspended, to_req>>
    BY Read
  <1>2. paused_state \subseteq {"TIMEOUT", "INHIBIT", "SUSPEND"} /\ client \in BOOLEAN
    BY DEF IInv, TypeOK
  <1>3. /\ paused_state' = IF pause THEN paused_state \cup {reason} ELSE paused_state \ {reason}
        /\ client' \in BOOLEAN
        /\ skipped' = (skipped /\ paused_state' = {} /\ ~client')
        /\ paused_state' = {} /\ ac_state \in timeout => client' \/ (paused_state = {} /\ ~client)
    <2>1. CASE pause
      <3>1. /\ paused_state' = paused_state \cup {reason}
            /\ client' = (client /\ ~Pauses(paused_state))
            /\ skipped' = (skipped /\ paused_state' = {} /\ ~client')
        BY <2>1 DEF PauseModule, Skips
      <3> QED
        BY <1>2, <2>1, <3>1 DEF Pauses
    <2>2. CASE ~pause
      <3>1. /\ paused_state' = paused_state \ {reason}
            /\ client' = (client \/ (Resumes(paused_state, reason) /\ ac_state \in timeout))
            /\ skipped' = (skipped /\ paused_state' = {} /\ ~client')
        BY <2>2 DEF ResumeModule, Skips
      <3> QED
        BY <1>2, <2>2, <3>1 DEF Resumes
    <2> QED
      BY <2>1, <2>2
  <1>4. TypeOK'
    BY <1>1, <1>2, <1>3 DEF IInv, TypeOK, writes
  <1>5. Waits' /\ TimeoutKnown'
    BY <1>1, <1>3 DEF IInv, Waits, TimeoutKnown, Started
  <1>6. InhibitKnown'
    BY <1>1, <1>3 DEF IInv, InhibitKnown, Started
  <1>7. SuspendKnown'
    BY <1>1, <1>3 DEF IInv, SuspendKnown, Started
  <1>8. ASSUME paused_state' = {}, ac_state \in timeout, ~client'
        PROVE  skipped' \/ In(pipe', "UPOWER_UPD")
    <2>1. paused_state = {} /\ ~client
      BY <1>3, <1>8
    <2>2. skipped \/ In(pipe, "UPOWER_UPD")
      BY <1>8, <2>1 DEF IInv, Runs
    <2> QED
      BY <1>1, <1>3, <1>8, <2>2
  <1>9. Runs'
    BY <1>1, <1>8 DEF Runs
  <1> QED
    BY <1>4, <1>5, <1>6, <1>7, <1>9 DEF IInv

\* Nothing that is said of a started module can be said of another one.
LEMMA DropStep == ASSUME IInv, Drop PROVE IInv'
  <1>1. PICK kind \in Kinds : Received(kind) /\ phase # "started"
    BY DEF Drop
  <1>2. /\ pipe' \in Seq(Kinds) /\ UNCHANGED <<ac_state, inhibited, suspended, to_req>>
    BY <1>1, Read
  <1>3. UNCHANGED <<timeout, phase, paused_state, client, skipped>>
    BY DEF Drop, ownVars, pauseVars
  <1>4. written' \subseteq AcStates /\ overwritten' \subseteq AcStates
    <2>1. to_req.state \in AcStates /\ timeout \subseteq AcStates
      BY DEF IInv, TypeOK
    <2>2. Requested \subseteq AcStates
      BY <2>1 DEF Requested
    <2> QED
      BY <2>1, <2>2 DEF Drop, writes, IInv, TypeOK
  <1> QED
    BY <1>1, <1>2, <1>3, <1>4
    DEF IInv, TypeOK, Waits, TimeoutKnown, InhibitKnown, SuspendKnown, Runs, Started

LEMMA StartStep == ASSUME IInv, StartModule PROVE IInv'
  <1>1. /\ phase = "waiting" /\ Received("UPOWER_UPD") /\ UNCHANGED <<timeout, writes>>
    BY DEF StartModule
  <1>2. CASE phase' = "started" /\ TimeoutCallback(ac_state \in timeout)
    <2>1. timeout' \subseteq AcStates /\ TimeoutCallback(ac_state \in timeout')
      BY <1>1, <1>2 DEF IInv, TypeOK
    <2> QED
      BY <1>1, <1>2, <2>1, CallbackStep
  <1>3. CASE phase' = "gone" /\ UNCHANGED pauseVars
    <2>1. /\ pipe' \in Seq(Kinds) /\ UNCHANGED <<ac_state, inhibited, suspended, to_req>>
      BY <1>1, Read
    <2> QED
      BY <1>1, <1>3, <2>1
      DEF IInv, TypeOK, Waits, TimeoutKnown, InhibitKnown, SuspendKnown, Runs, Started,
          pauseVars, writes
  <1> QED
    BY <1>2, <1>3 DEF StartModule

LEMMA TimeoutStep == ASSUME IInv, ReceiveTimeout PROVE IInv'
  <1>1. /\ phase = "started" /\ Received("TO_REQ") /\ UNCHANGED <<writes, phase>>
        /\ timeout' = IF to_req.new THEN timeout \cup {to_req.state} ELSE timeout \ {to_req.state}
    BY DEF ReceiveTimeout, Requested
  <1>2. to_req.state \in AcStates /\ timeout' \subseteq AcStates
    BY <1>1 DEF IInv, TypeOK
  <1>3. CASE to_req.state = ac_state
    <2>1. TimeoutCallback(ac_state \in timeout')
      BY <1>3 DEF ReceiveTimeout
    <2> QED
      BY <1>1, <1>2, <2>1, CallbackStep
  <1>4. CASE to_req.state # ac_state
    <2>1. UNCHANGED <<paused_state, client, skipped>>
          /\ (ac_state \in timeout' <=> ac_state \in timeout)
      BY <1>1, <1>4 DEF ReceiveTimeout, pauseVars
    <2>2. /\ pipe' \in Seq(Kinds)
          /\ \A k : In(pipe, k) <=> "TO_REQ" = k \/ In(pipe', k)
          /\ UNCHANGED <<ac_state, inhibited, suspended, to_req>>
      BY <1>1, Read
    <2> QED
      BY <1>1, <1>2, <2>1, <2>2
      DEF IInv, TypeOK, Waits, TimeoutKnown, InhibitKnown, SuspendKnown, Runs, Started, writes
  <1> QED
    BY <1>3, <1>4

LEMMA SimulateStep == ASSUME IInv, ReceiveSimulate PROVE IInv'
  <1>1. /\ phase = "started" /\ Received("SIMULATE_REQ")
        /\ client' = IF paused_state = {} THEN ac_state \in timeout ELSE client
        /\ skipped' = (skipped /\ paused_state' = {} /\ ~client')
        /\ UNCHANGED <<timeout, writes, phase, paused_state>>
    BY DEF ReceiveSimulate, Skips
  <1>2. /\ pipe' \in Seq(Kinds)
        /\ \A k : In(pipe, k) <=> "SIMULATE_REQ" = k \/ In(pipe', k)
        /\ UNCHANGED <<ac_state, inhibited, suspended, to_req>>
    BY <1>1, Read
  <1>3. client' \in BOOLEAN
    <2>1. client \in BOOLEAN /\ (ac_state \in timeout) \in BOOLEAN
      BY DEF IInv, TypeOK
    <2> QED
      BY <1>1, <2>1, Zenon
  <1> QED
    BY <1>1, <1>2, <1>3
    DEF IInv, TypeOK, Waits, TimeoutKnown, InhibitKnown, SuspendKnown, Runs, Started, writes

LEMMA ReceiveStep == ASSUME IInv, Receive PROVE IInv'
  <1>1. CASE ReceiveUPower
    <2>1. phase = "started" /\ Received("UPOWER_UPD") /\ UNCHANGED <<timeout, writes, phase>>
          /\ timeout' \subseteq AcStates /\ TimeoutCallback(ac_state \in timeout')
      BY <1>1 DEF ReceiveUPower, IInv, TypeOK
    <2> QED
      BY <2>1, CallbackStep
  <1>2. CASE ReceiveInhibit
    <2>1. inhibited \in BOOLEAN
      BY DEF IInv, TypeOK
    <2> QED
      BY <1>2, <2>1, ReasonStep DEF ReceiveInhibit, Started
  <1>3. CASE ReceiveSuspend
    <2>1. suspended \in BOOLEAN
      BY DEF IInv, TypeOK
    <2> QED
      BY <1>3, <2>1, ReasonStep DEF ReceiveSuspend, Started
  <1> QED
    BY <1>1, <1>2, <1>3, StartStep, DropStep, TimeoutStep, SimulateStep DEF Receive

LEMMA InvStep == IInv /\ [Next]_vars => IInv'
  <1> SUFFICES ASSUME IInv, [Next]_vars PROVE IInv'
    OBVIOUS
  <1>1. CASE UNCHANGED vars
    BY <1>1
    DEF vars, IInv, TypeOK, Waits, TimeoutKnown, InhibitKnown, SuspendKnown, Runs, Started
  <1>2. CASE Next
    BY <1>2, UPowerStep, InhibitStep, SuspendStep, RequestStep, ReceiveStep DEF Next
  <1> QED
    BY <1>1, <1>2

LEMMA InvRuns == IInv => ClientRunsWhenWanted
  <1> SUFFICES ASSUME IInv, phase = "started", pipe = <<>>, ac_state \in timeout, ~inhibited, ~suspended,
                      ~skipped
               PROVE  client
    BY DEF ClientRunsWhenWanted, Settled, Wanted
  <1>1. \A k : ~In(pipe, k)
    BY DEF In
  <1>2. paused_state = {}
    BY <1>1 DEF IInv, TypeOK, TimeoutKnown, InhibitKnown, SuspendKnown, Started
  <1> QED
    BY <1>1, <1>2 DEF IInv, Runs, Started

\* The state of the module, and the messages in its pipe, are of their types.
THEOREM TypeCorrect == Spec => []TypeOK
  <1>1. IInv => TypeOK
    BY DEF IInv
  <1> QED
    BY <1>1, InitInv, InvStep, PTL DEF Spec

(***************************************************************************)
(* However a timeout, an inhibition and a suspension overlapped, before    *)
(* the module started or after: once it has read all that was announced,   *)
(* its client runs if it should, unless idle_set_timeout skipped it for an *)
(* inhibition that did not pause the module.                               *)
(***************************************************************************)
THEOREM ClientRuns == Spec => []ClientRunsWhenWanted
  BY InitInv, InvStep, InvRuns, PTL DEF Spec

-----------------------------------------------------------------------------
(***************************************************************************)
(* What was written is in conf, or in the message that is on its way: for  *)
(* every AC state whose request was not overwritten.                       *)
(***************************************************************************)
OnItsWay == IF Unread THEN Requested ELSE timeout
WriteInv == \A ac \in AcStates \ overwritten : ac \in written <=> ac \in OnItsWay

LEMMA UnreadIn == Unread <=> In(pipe, "TO_REQ")
  BY DEF Unread, In

LEMMA WriteStep ==
  ASSUME Module = "DIMMER", IInv, WriteInv, [Next]_vars
  PROVE  WriteInv'
  <1>0. pipe \in Seq(Kinds)
    BY DEF IInv, TypeOK
  <1>1. CASE \E kind \in Kinds \ {"TO_REQ"} : Publish(kind) /\ UNCHANGED confVars
    <2>1. PICK kind \in Kinds \ {"TO_REQ"} : pipe' = Append(pipe, kind) /\ UNCHANGED confVars
      BY <1>1 DEF Publish
    <2>2. In(pipe', "TO_REQ") <=> In(pipe, "TO_REQ")
      BY <1>0, <2>1, AppendIn
    <2>3. UNCHANGED <<timeout, written, overwritten, to_req>> /\ Unread' = Unread
      BY <2>1, <2>2 DEF confVars, writes, Unread, In
    <2> QED
      BY <2>3 DEF WriteInv, OnItsWay, Requested
  <1>2. ASSUME NEW ac \in AcStates, NEW new \in BOOLEAN, SetTimeout(ac, new) PROVE WriteInv'
    <2>1. /\ to_req' = [state |-> ac, new |-> new]
          /\ written' = (IF new THEN written \cup {ac} ELSE written \ {ac})
          /\ overwritten' = (overwritten \cup IF Unread THEN {to_req.state} ELSE {}) \ {ac}
          /\ pipe' = Append(pipe, "TO_REQ") /\ UNCHANGED timeout
      BY <1>2 DEF SetTimeout, RequestState, Publish
    <2>2. In(pipe', "TO_REQ")
      BY <1>0, <2>1, AppendIn DEF Kinds
    <2>3. Unread'
      BY <2>2 DEF Unread, In
    <2>4. OnItsWay' = IF new THEN timeout \cup {ac} ELSE timeout \ {ac}
      BY <2>1, <2>3 DEF OnItsWay, Requested
    <2>5. ASSUME NEW b \in AcStates \ overwritten' PROVE b \in written' <=> b \in OnItsWay'
      <3>1. CASE b = ac
        BY <2>1, <2>4, <3>1
      <3>2. CASE b # ac
        <4>1. b \notin overwritten /\ (Unread => b # to_req.state)
          BY <2>1, <2>5, <3>2
        <4>2. b \in OnItsWay <=> b \in timeout
          BY <4>1 DEF OnItsWay, Requested
        <4> QED
          BY <2>1, <2>4, <3>2, <4>1, <4>2 DEF WriteInv
      <3> QED
        BY <3>1, <3>2
    <2> QED
      BY <2>5 DEF WriteInv
  <1>3. CASE SetOtherTimeout
    <2>1. /\ to_req' = [to_req EXCEPT !.state = "ON_BATTERY"]
          /\ overwritten' = IF Unread /\ to_req.state = "ON_AC" THEN AcStates ELSE overwritten
          /\ UNCHANGED <<timeout, written, pipe>> /\ Unread' = Unread
      BY <1>3 DEF SetOtherTimeout, Unread
    <2>2. CASE Unread /\ to_req.state = "ON_AC"
      BY <2>1, <2>2 DEF WriteInv
    <2>3. CASE Unread /\ to_req.state # "ON_AC"
      <3>1. to_req \in [state: AcStates, new: BOOLEAN] /\ to_req.state = "ON_BATTERY"
        BY <2>3 DEF IInv, TypeOK, AcStates
      <3>2. to_req'.state = to_req.state /\ to_req'.new = to_req.new
        BY <2>1, <3>1
      <3> QED
        BY <2>1, <2>3, <3>2 DEF WriteInv, OnItsWay, Requested
    <2>4. CASE ~Unread
      BY <2>1, <2>4 DEF WriteInv, OnItsWay
    <2> QED
      BY <2>2, <2>3, <2>4
  <1>4. ASSUME NEW kind \in Kinds \ {"TO_REQ"}, Received(kind), UNCHANGED <<timeout, writes>>
        PROVE  WriteInv'
    <2>1. pipe # <<>> /\ Head(pipe) = kind /\ pipe' = Tail(pipe) /\ UNCHANGED to_req
      BY <1>4 DEF Received
    <2>2. In(pipe, "TO_REQ") <=> In(pipe', "TO_REQ")
      BY <1>0, <1>4, <2>1, TailIn
    <2>3. UNCHANGED <<timeout, written, overwritten, to_req>> /\ Unread' = Unread
      BY <1>4, <2>1, <2>2 DEF writes, Unread, In
    <2> QED
      BY <2>3 DEF WriteInv, OnItsWay, Requested
  <1>5. CASE Drop
    <2>1. PICK kind \in Kinds : Received(kind)
      BY <1>5 DEF Drop
    <2>2. Head(pipe) = kind /\ UNCHANGED <<timeout, to_req>>
      BY <1>5, <2>1 DEF Drop, Received
    <2>3. CASE kind = "TO_REQ"
      <3>1. written' = IF Unread' THEN Requested ELSE timeout
        BY <1>5, <2>2, <2>3 DEF Drop
      <3> QED
        BY <2>2, <3>1 DEF WriteInv, OnItsWay, Requested
    <2>4. CASE kind # "TO_REQ"
      <3>1. UNCHANGED writes
        BY <1>5, <2>2, <2>4 DEF Drop
      <3> QED
        BY <1>4, <2>1, <2>2, <2>4, <3>1
    <2> QED
      BY <2>3, <2>4
  <1>6. CASE ReceiveTimeout
    <2>1. pipe # <<>> /\ Head(pipe) = "TO_REQ" /\ timeout' = Requested
          /\ UNCHANGED <<written, overwritten, to_req>>
      BY <1>6 DEF ReceiveTimeout, Received, writes
    <2>2. In(pipe, "TO_REQ")
      BY <1>0, <2>1, TailIn
    <2>3. OnItsWay = Requested
      BY <2>2, UnreadIn DEF OnItsWay
    <2>4. OnItsWay' = Requested
      BY <2>1 DEF OnItsWay, Requested
    <2> QED
      BY <2>1, <2>3, <2>4 DEF WriteInv
  <1>7. CASE StartModule \/ ReceiveUPower \/ ReceiveInhibit \/ ReceiveSuspend \/ ReceiveSimulate
    BY <1>4, <1>7
    DEF StartModule, ReceiveUPower, ReceiveInhibit, ReceiveSuspend, ReceiveSimulate, Kinds
  <1>8. CASE UNCHANGED vars
    <2>1. UNCHANGED <<timeout, written, overwritten, to_req>> /\ Unread' = Unread
      BY <1>8 DEF vars, Unread
    <2> QED
      BY <2>1 DEF WriteInv, OnItsWay, Requested
  <1>9. CASE UPowerChanges \/ InhibitChanges \/ SuspendChanges \/ Simulate
    <2>1. \E kind \in Kinds \ {"TO_REQ"} : Publish(kind) /\ UNCHANGED confVars
      BY <1>9 DEF UPowerChanges, InhibitChanges, SuspendChanges, Simulate, Kinds
    <2> QED
      BY <1>1, <2>1
  <1> QED
    BY <1>2, <1>3, <1>5, <1>6, <1>7, <1>8, <1>9 DEF Next, Receive

(***************************************************************************)
(* DIMMER's timeouts become what was written over D-Bus, for each AC state *)
(* whose request was not overwritten in the pipe.  Of DPMS this is false:  *)
(* its messages say ON_AC whichever timeout was written.                   *)
(***************************************************************************)
THEOREM DimmerKeepsTimeouts ==
  ASSUME Module = "DIMMER"
  PROVE  Spec => []TimeoutsAsWritten
  <1>1. Init => WriteInv
    <2> SUFFICES ASSUME Init PROVE WriteInv
      OBVIOUS
    <2>1. written = timeout /\ ~Unread
      BY DEF Init, Unread
    <2> QED
      BY <2>1 DEF WriteInv, OnItsWay
  <1>2. IInv /\ WriteInv /\ [Next]_vars => WriteInv'
    BY WriteStep
  <1>3. WriteInv => TimeoutsAsWritten
    <2> SUFFICES ASSUME WriteInv, Settled PROVE \A ac \in AcStates \ overwritten : ac \in timeout <=> ac \in written
      BY DEF TimeoutsAsWritten
    <2>1. ~Unread
      BY DEF Settled, Unread
    <2> QED
      BY <2>1 DEF WriteInv, OnItsWay
  <1> QED
    BY <1>1, <1>2, <1>3, InitInv, InvStep, PTL DEF Spec
=============================================================================
