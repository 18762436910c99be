--------------------------- MODULE Display_proofs ---------------------------
(***************************************************************************)
(* Proofs about DISPLAY, for any levels, users and bounds: types, and that *)
(* Clightd's DPMS follows the state of the display.                        *)
(***************************************************************************)
EXTENDS Display, SequenceTheorems, FiniteSetTheorems, TLAPS

(***************************************************************************)
(* Only those listened to speak: with DIMMER enabled that is not IdleHint, *)
(* so every change of the display is one of DPMS too.                      *)
(***************************************************************************)
SignalMsg == [from : Listening, idle : BOOLEAN]
DispMsg == [from : Listening \ {"DPMS"}, new : {"ON", "DIMMED"}] \cup [from : {"DPMS"}, new : {"ON", "OFF"}]

\* A request to BACKLIGHT is for a level; a DISPLAY_UPD has none.
BlMsg == [from : {"DIMMER", "BACKLIGHT"}, new : Levels] \cup [from : {"DISPLAY"}, new : {NoLevel}]

LEMMA TailIn ==
  ASSUME NEW S, NEW q \in Seq(S), q # <<>>
  PROVE  Head(q) \in S /\ Tail(q) \in Seq(S)
  OBVIOUS

\* Publication rewrites the copies in flight of what it publishes, and adds one.
LEMMA PublishIn ==
  ASSUME NEW S, NEW q \in Seq(S), NEW from, NEW new, [from |-> from, new |-> new] \in S
  PROVE  Publish(q, from, new) \in Seq(S)
  <1> DEFINE m == [from |-> from, new |-> new]
             rewritten == [i \in DOMAIN q |-> IF q[i].from = from THEN m ELSE q[i]]
  <1>1. Len(q) \in Nat /\ DOMAIN q = 1 .. Len(q)
    OBVIOUS
  <1>2. \A i \in 1 .. Len(q) : rewritten[i] \in S
    OBVIOUS
  <1>3. rewritten \in Seq(S)
    BY <1>1, <1>2, IsASeq
  <1>4. Publish(q, from, new) = Append(rewritten, m)
    BY DEF Publish
  <1> QED
    BY <1>3, <1>4

LEMMA SequenceIn ==
  ASSUME NEW S
  PROVE  /\ \A x \in S : <<x>> \in Seq(S)
         /\ \A n \in Nat : \A f \in [1 .. n -> S] : f \in Seq(S)
  OBVIOUS

LEMMA WiderSeq ==
  ASSUME NEW S, NEW T, S \subseteq T, NEW q \in Seq(S)
  PROVE  q \in Seq(T)
  <1>1. Len(q) \in Nat /\ q = [i \in 1 .. Len(q) |-> q[i]] /\ \A i \in 1 .. Len(q) : q[i] \in T
    OBVIOUS
  <1> QED
    BY <1>1, IsASeq

-----------------------------------------------------------------------------
HeardOf == idle \subseteq Listening /\ signals \in Seq(SignalMsg)
AskedFor == dispQ \in Seq(DispMsg) /\ display_state \subseteq {"DIMMED", "OFF"} /\ dpms_off \in BOOLEAN
DpmsAgrees == dimmer => (dpms_off <=> "OFF" \in display_state)
Dims == old_pct \in Levels \cup {NoLevel} /\ blQ \in Seq(BlMsg)
LevelOK == /\ bl_paused \subseteq {"DISPLAY", "OTHER"}
           /\ target \in Levels /\ level \in Levels /\ wanted \in Levels
           /\ slip \in {"none", "refused", "lost"}

\* The inductive invariant.
IInv == dimmer \in BOOLEAN /\ HeardOf /\ AskedFor /\ DpmsAgrees /\ Dims /\ LevelOK

\* What the display, the backlight and their askers do, one at a time.
DispKept == UNCHANGED <<dimmer, dispQ, dispVars>>
BlKept == UNCHANGED <<blQ, blVars, slip>>

LEMMA InvTypes == IInv => TypeOK
  <1> SUFFICES ASSUME IInv PROVE TypeOK
    OBVIOUS
  <1>1. Listening \subseteq Clients
    BY DEF Listening, Clients
  <1>2. signals \in Seq([from : Clients, idle : BOOLEAN])
    <2>1. SignalMsg \subseteq [from : Clients, idle : BOOLEAN]
      BY <1>1 DEF SignalMsg
    <2> QED
      BY <2>1, WiderSeq DEF IInv, HeardOf
  <1>3. dispQ \in Seq([from : Clients, new : {"ON", "DIMMED", "OFF"}])
    <2>1. DispMsg \subseteq [from : Clients, new : {"ON", "DIMMED", "OFF"}]
      BY <1>1 DEF DispMsg, Listening, Clients
    <2> QED
      BY <2>1, WiderSeq DEF IInv, AskedFor
  <1>4. blQ \in Seq([from : {"DIMMER", "BACKLIGHT", "DISPLAY"}, new : Levels \cup {NoLevel}])
    <2>1. BlMsg \subseteq [from : {"DIMMER", "BACKLIGHT", "DISPLAY"}, new : Levels \cup {NoLevel}]
      BY DEF BlMsg
    <2> QED
      BY <2>1, WiderSeq DEF IInv, Dims
  <1> QED
    BY <1>1, <1>2, <1>3, <1>4 DEF IInv, HeardOf, AskedFor, Dims, LevelOK, TypeOK

LEMMA InitInv == Init => IInv
  <1> SUFFICES ASSUME Init PROVE IInv
    OBVIOUS
  <1>1. signals \in Seq(SignalMsg) /\ dispQ \in Seq(DispMsg) /\ blQ \in Seq(BlMsg)
    BY DEF Init
  <1> QED
    BY <1>1 DEF Init, IInv, HeardOf, AskedFor, DpmsAgrees, Dims, LevelOK

-----------------------------------------------------------------------------
\* The users of the machine: who is idle, and what is signalled of it.
LEMMA IdleStep ==
  ASSUME IInv, DispKept, BlKept, idle' \subseteq Listening, signals' \in Seq(SignalMsg)
  PROVE  IInv'
  <1>1. Listening' = Listening /\ SignalMsg' = SignalMsg /\ DispMsg' = DispMsg
    BY DEF DispKept, Listening, SignalMsg, DispMsg
  <1>2. UNCHANGED <<dimmer, dispQ, display_state, old_pct, dpms_off, blQ, bl_paused, target, level,
                    wanted, slip>>
    BY DEF DispKept, BlKept, dispVars, blVars
  <1> QED
    BY <1>1, <1>2 DEF IInv, HeardOf, AskedFor, DpmsAgrees, Dims, LevelOK, BlMsg

LEMMA GoIdleStep == ASSUME IInv, NEW c \in Clients, GoIdle(c) PROVE IInv'
  <1>1. /\ c \in Listening /\ idle' = idle \cup {c} /\ signals' = <<Signal(c, TRUE)>>
        /\ DispKept /\ BlKept
    BY DEF GoIdle, DispKept, BlKept
  <1>2. Signal(c, TRUE) \in SignalMsg
    BY <1>1 DEF Signal, SignalMsg
  <1>3. signals' \in Seq(SignalMsg)
    BY <1>1, <1>2, SequenceIn
  <1>4. idle' \subseteq Listening
    BY <1>1 DEF IInv, HeardOf
  <1> QED
    BY <1>1, <1>3, <1>4, IdleStep

LEMMA ActivityStep == ASSUME IInv, Activity PROVE IInv'
  <1>1. PICK order \in Orders(idle) :
          /\ idle' = {} /\ signals' = [i \in DOMAIN order |-> Signal(order[i], FALSE)]
          /\ DispKept /\ BlKept
    BY DEF Activity, DispKept, BlKept
  <1>2. Cardinality(idle) \in Nat /\ order \in [1 .. Cardinality(idle) -> idle]
    <2>1. IsFiniteSet({"DIMMER", "HINT", "DPMS"})
      <3>1. IsFiniteSet({}) /\ IsFiniteSet({"DIMMER"})
        BY FS_EmptySet, FS_Singleton
      <3>2. IsFiniteSet({"DIMMER"} \cup {"HINT"})
        BY <3>1, FS_AddElement
      <3>3. IsFiniteSet(({"DIMMER"} \cup {"HINT"}) \cup {"DPMS"})
        BY <3>2, FS_AddElement
      <3>4. ({"DIMMER"} \cup {"HINT"}) \cup {"DPMS"} = {"DIMMER", "HINT", "DPMS"}
        OBVIOUS
      <3> QED
        BY <3>3, <3>4
    <2>2. idle \subseteq {"DIMMER", "HINT", "DPMS"}
      BY DEF IInv, HeardOf, Listening
    <2>3. IsFiniteSet(idle)
      BY <2>1, <2>2, FS_Subset
    <2> QED
      BY <2>3, FS_CardinalityType DEF Orders
  <1>3. \A i \in 1 .. Cardinality(idle) : Signal(order[i], FALSE) \in SignalMsg
    BY <1>2 DEF IInv, HeardOf, Signal, SignalMsg
  <1>4. signals' \in Seq(SignalMsg)
    <2>1. signals' = [i \in 1 .. Cardinality(idle) |-> Signal(order[i], FALSE)]
      BY <1>1, <1>2
    <2> QED
      BY <1>2, <1>3, <2>1, SequenceIn
  <1> QED
    BY <1>1, <1>4, IdleStep

LEMMA HintStep == ASSUME IInv, HintChanged PROVE IInv'
  <1>1. ~dimmer /\ signals' = <<Signal("HINT", TRUE)>> /\ idle' = idle /\ DispKept /\ BlKept
    BY DEF HintChanged, DispKept, BlKept, userVars
  <1>2. Signal("HINT", TRUE) \in SignalMsg
    BY <1>1 DEF Signal, SignalMsg, Listening
  <1>3. signals' \in Seq(SignalMsg)
    BY <1>1, <1>2, SequenceIn
  <1>4. idle' \subseteq Listening
    BY <1>1 DEF IInv, HeardOf
  <1> QED
    BY <1>1, <1>3, <1>4, IdleStep

LEMMA NewIdleStep == ASSUME IInv, OnNewIdle PROVE IInv'
  <1> DEFINE s == Head(signals)
             away == IF s.from = "HINT" THEN "HINT" \in idle ELSE s.idle
             new == IF ~away THEN "ON" ELSE IF s.from = "DPMS" THEN "OFF" ELSE "DIMMED"
  <1>1. /\ signals # <<>> /\ signals' = Tail(signals)
        /\ dispQ' = Publish(dispQ, s.from, new)
        /\ UNCHANGED <<userVars, dispVars, blQ, blVars, slip>>
    BY DEF OnNewIdle
  <1>2. s \in SignalMsg /\ Tail(signals) \in Seq(SignalMsg)
    BY <1>1, TailIn DEF IInv, HeardOf
  <1>3. [from |-> s.from, new |-> new] \in DispMsg
    BY <1>2 DEF SignalMsg, DispMsg
  <1>4. dispQ' \in Seq(DispMsg)
    <2> HIDE DEF new
    <2> QED
      BY <1>1, <1>3, PublishIn DEF IInv, AskedFor
  <1>5. Listening' = Listening /\ SignalMsg' = SignalMsg /\ DispMsg' = DispMsg
    BY <1>1 DEF userVars, Listening, SignalMsg, DispMsg
  <1> QED
    BY <1>1, <1>2, <1>4, <1>5
    DEF IInv, HeardOf, AskedFor, DpmsAgrees, Dims, LevelOK, BlMsg, userVars, dispVars, blVars

-----------------------------------------------------------------------------
\* What every answer of DISPLAY leaves: a level to return to, and requests BACKLIGHT can read.
LEMMA UpdIn == ASSUME NEW q \in Seq(BlMsg) PROVE PublishDisplayUpd(q) \in Seq(BlMsg)
  <1>1. [from |-> "DISPLAY", new |-> NoLevel] \in BlMsg
    BY DEF BlMsg
  <1> QED
    BY <1>1 DEF PublishDisplayUpd

LEMMA SetDpmsIn ==
  ASSUME IInv, NEW off \in BOOLEAN, SetDpms(off)
  PROVE  dpms_off' = off /\ signals' \in Seq(SignalMsg)
  <1>1. signals \in Seq(SignalMsg) /\ Signal("DPMS", off) \in SignalMsg
    BY DEF IInv, HeardOf, Signal, SignalMsg, Listening
  <1>2. dpms_off' = off /\ (signals' = Append(signals, Signal("DPMS", off)) \/ signals' = signals)
    BY DEF SetDpms
  <1> QED
    BY <1>1, <1>2

\* Only a request of IdleHint leaves DPMS as it is.
Answers(up) ==
  /\ display_state' \subseteq {"DIMMED", "OFF"}
  /\ dpms_off' \in BOOLEAN /\ signals' \in Seq(SignalMsg)
  /\ up.from # "HINT" /\ (dpms_off <=> "OFF" \in display_state) => (dpms_off' <=> "OFF" \in display_state')
  /\ old_pct' \in Levels \cup {NoLevel} /\ blQ' \in Seq(BlMsg)
  /\ slip' \in {"none", "refused", "lost"}

LEMMA DimAnswers ==
  ASSUME IInv, NEW up, EnterDimmed(up)
  PROVE  Answers(up)
  <1>0. /\ display_state \subseteq {"DIMMED", "OFF"} /\ dpms_off \in BOOLEAN /\ signals \in Seq(SignalMsg)
        /\ old_pct \in Levels \cup {NoLevel} /\ blQ \in Seq(BlMsg) /\ level \in Levels
        /\ slip \in {"none", "refused", "lost"}
    BY DEF IInv, HeardOf, AskedFor, Dims, LevelOK
  <1>1. [from |-> "DIMMER", new |-> dimmed_pct] \in BlMsg
    BY DisplayAssumption DEF BlMsg, Levels
  <1>2. old_pct' \in Levels \cup {NoLevel} /\ blQ' \in Seq(BlMsg)
    <2>1. PublishDisplayUpd(Publish(blQ, "DIMMER", dimmed_pct)) \in Seq(BlMsg)
      BY <1>0, <1>1, PublishIn, UpdIn
    <2>2. PublishDisplayUpd(blQ) \in Seq(BlMsg)
      BY <1>0, UpdIn
    <2> QED
      BY <1>0, <2>1, <2>2 DEF EnterDimmed
  <1>3. display_state' = display_state \cup {"DIMMED"} /\ UNCHANGED <<dpms_off, signals>>
        /\ slip' \in {"none", "refused", "lost"}
    BY <1>0 DEF EnterDimmed, KeepDpms
  <1> QED
    BY <1>0, <1>2, <1>3 DEF Answers

LEMMA OffAnswers ==
  ASSUME IInv, NEW up, EnterOff(up)
  PROVE  Answers(up)
  <1>0. /\ display_state \subseteq {"DIMMED", "OFF"} /\ dpms_off \in BOOLEAN /\ signals \in Seq(SignalMsg)
        /\ old_pct \in Levels \cup {NoLevel} /\ blQ \in Seq(BlMsg)
        /\ slip \in {"none", "refused", "lost"}
    BY DEF IInv, HeardOf, AskedFor, Dims, LevelOK
  <1>1. /\ display_state' = display_state \cup {"OFF"}
        /\ blQ' = PublishDisplayUpd(blQ) /\ UNCHANGED <<old_pct, slip>>
        /\ IF up.from = "HINT" THEN UNCHANGED <<dpms_off, signals>> ELSE SetDpms(TRUE)
    BY DEF EnterOff, NoBacklight, KeepDpms
  <1>2. blQ' \in Seq(BlMsg)
    BY <1>0, <1>1, UpdIn
  <1>3. /\ dpms_off' \in BOOLEAN /\ signals' \in Seq(SignalMsg)
        /\ up.from # "HINT" => dpms_off' = TRUE
    BY <1>0, <1>1, SetDpmsIn
  <1> QED
    BY <1>0, <1>1, <1>2, <1>3 DEF Answers

LEMMA OnAnswers ==
  ASSUME IInv, NEW up, LeaveAll(up)
  PROVE  Answers(up)
  <1>0. /\ display_state \subseteq {"DIMMED", "OFF"} /\ dpms_off \in BOOLEAN /\ signals \in Seq(SignalMsg)
        /\ old_pct \in Levels \cup {NoLevel} /\ blQ \in Seq(BlMsg)
        /\ slip \in {"none", "refused", "lost"}
    BY DEF IInv, HeardOf, AskedFor, Dims, LevelOK
  <1>1. /\ display_state' = {}
        /\ IF "OFF" \in display_state /\ up.from # "HINT" THEN SetDpms(FALSE)
                                                          ELSE UNCHANGED <<dpms_off, signals>>
        /\ slip' \in {"none", "refused", "lost"}
    BY <1>0 DEF LeaveAll, NoBacklight, KeepDpms
  <1>2. old_pct' \in Levels \cup {NoLevel} /\ blQ' \in Seq(BlMsg)
    <2>1. CASE old_pct # NoLevel
      <3>1. [from |-> "DIMMER", new |-> old_pct] \in BlMsg
        BY <1>0, <2>1 DEF BlMsg
      <3>2. PublishDisplayUpd(Publish(blQ, "DIMMER", old_pct)) \in Seq(BlMsg)
        BY <1>0, <3>1, PublishIn, UpdIn
      <3>3. PublishDisplayUpd(blQ) \in Seq(BlMsg)
        BY <1>0, UpdIn
      <3> QED
        BY <1>0, <3>2, <3>3 DEF LeaveAll
    <2>2. CASE old_pct = NoLevel
      BY <1>0, <2>2, UpdIn DEF LeaveAll
    <2> QED
      BY <2>1, <2>2
  <1>3. /\ dpms_off' \in BOOLEAN /\ signals' \in Seq(SignalMsg)
        /\ up.from # "HINT" /\ "OFF" \in display_state => dpms_off' = FALSE
        /\ up.from = "HINT" \/ "OFF" \notin display_state => dpms_off' = dpms_off
    BY <1>0, <1>1, SetDpmsIn
  <1> QED
    BY <1>0, <1>1, <1>2, <1>3 DEF Answers

LEMMA ReceiveStep == ASSUME IInv, ReceiveDisplayReq PROVE IInv'
  <1> DEFINE up == Head(dispQ)
  <1>1. dispQ # <<>> /\ dispQ' = Tail(dispQ) /\ UNCHANGED <<dimmer, blVars>>
    BY DEF ReceiveDisplayReq
  <1>2. up \in DispMsg /\ dispQ' \in Seq(DispMsg)
    BY <1>1, TailIn DEF IInv, AskedFor
  <1>3. Listening' = Listening /\ SignalMsg' = SignalMsg /\ DispMsg' = DispMsg /\ BlMsg' = BlMsg
    BY <1>1 DEF Listening, SignalMsg, DispMsg, BlMsg
  <1>4. dimmer => up.from # "HINT"
    BY <1>2 DEF DispMsg, Listening
  <1>5. CASE (EnterDimmed(up) \/ EnterOff(up) \/ LeaveAll(up)) /\ SetIdleHint
    <2>1. Answers(up)
      BY <1>5, DimAnswers, OffAnswers, OnAnswers
    <2>2. idle' \subseteq Listening
      BY <1>5 DEF SetIdleHint, IInv, HeardOf, Listening
    <2> QED
      BY <1>1, <1>2, <1>3, <1>4, <2>1, <2>2
      DEF Answers, IInv, HeardOf, AskedFor, DpmsAgrees, Dims, LevelOK, blVars
  <1>6. CASE RefuseDisplayReq(up)
    BY <1>1, <1>2, <1>3, <1>6
    DEF RefuseDisplayReq, IInv, HeardOf, AskedFor, DpmsAgrees, Dims, LevelOK, dispVars, blVars
  <1> QED
    BY <1>5, <1>6 DEF ReceiveDisplayReq

-----------------------------------------------------------------------------
\* BACKLIGHT: its pipe and levels change, DISPLAY does not.
LEMMA BacklightStep ==
  ASSUME IInv, UNCHANGED <<userVars, signals, dispQ, dispVars>>, blQ' \in Seq(BlMsg), LevelOK'
  PROVE  IInv'
  <1>1. Listening' = Listening /\ SignalMsg' = SignalMsg /\ DispMsg' = DispMsg /\ BlMsg' = BlMsg
    BY DEF Listening, SignalMsg, DispMsg, BlMsg, userVars
  <1> QED
    BY <1>1 DEF IInv, HeardOf, AskedFor, DpmsAgrees, Dims, userVars, dispVars

LEMMA CalibrateStep == ASSUME IInv, NEW l \in Levels, Calibrate(l) PROVE IInv'
  <1>1. /\ blQ' = Publish(blQ, "BACKLIGHT", l)
        /\ UNCHANGED <<userVars, signals, dispQ, dispVars, blVars, slip>>
    BY DEF Calibrate
  <1>2. [from |-> "BACKLIGHT", new |-> l] \in BlMsg
    BY DEF BlMsg
  <1>3. blQ' \in Seq(BlMsg)
    BY <1>1, <1>2, PublishIn DEF IInv, Dims
  <1>4. LevelOK'
    BY <1>1 DEF IInv, LevelOK, blVars
  <1> QED
    BY <1>1, <1>3, <1>4, BacklightStep

LEMMA PauseStep == ASSUME IInv, PauseElsewhere PROVE IInv'
  <1>1. /\ bl_paused' \subseteq bl_paused \cup {"OTHER"}
        /\ UNCHANGED <<userVars, signals, dispQ, dispVars, blQ, target, level, wanted, slip>>
    BY DEF PauseElsewhere
  <1>2. blQ' \in Seq(BlMsg) /\ LevelOK'
    BY <1>1 DEF IInv, Dims, LevelOK
  <1> QED
    BY <1>1, <1>2, BacklightStep

LEMMA FadeStep == ASSUME IInv, OnBlChanged PROVE IInv'
  <1>1. /\ level' = target
        /\ UNCHANGED <<userVars, signals, dispQ, dispVars, blQ, bl_paused, target, wanted, slip>>
    BY DEF OnBlChanged
  <1>2. blQ' \in Seq(BlMsg) /\ LevelOK'
    BY <1>1 DEF IInv, Dims, LevelOK
  <1> QED
    BY <1>1, <1>2, BacklightStep

LEMMA ReadStep == ASSUME IInv, ReceiveBacklight PROVE IInv'
  <1> DEFINE up == Head(blQ)
  <1>1. /\ blQ # <<>> /\ blQ' = Tail(blQ) /\ UNCHANGED <<userVars, signals, dispQ, dispVars>>
        /\ AcceptBlReq(up) \/ RefuseBlReq(up) \/ DimmedCallback(up)
    BY DEF ReceiveBacklight
  <1>2. up \in BlMsg /\ blQ' \in Seq(BlMsg)
    BY <1>1, TailIn DEF IInv, Dims
  <1>3. CASE AcceptBlReq(up)
    <2>1. up.new \in Levels
      BY <1>2, <1>3 DEF AcceptBlReq, BlMsg
    <2>2. LevelOK'
      BY <1>3, <2>1 DEF AcceptBlReq, IInv, LevelOK
    <2> QED
      BY <1>1, <1>2, <2>2, BacklightStep
  <1>4. CASE RefuseBlReq(up)
    <2>1. LevelOK'
      BY <1>4 DEF RefuseBlReq, IInv, LevelOK, blVars
    <2> QED
      BY <1>1, <1>2, <2>1, BacklightStep
  <1>5. CASE DimmedCallback(up)
    <2>1. LevelOK'
      BY <1>5 DEF DimmedCallback, IInv, LevelOK
    <2> QED
      BY <1>1, <1>2, <2>1, BacklightStep
  <1> QED
    BY <1>1, <1>3, <1>4, <1>5

-----------------------------------------------------------------------------
LEMMA InvStep == IInv /\ [Next]_vars => IInv'
  <1> SUFFICES ASSUME IInv, [Next]_vars PROVE IInv'
    OBVIOUS
  <1>1. CASE UNCHANGED vars
    BY <1>1 DEF vars, userVars, dispVars, blVars, IInv, HeardOf, AskedFor, DpmsAgrees, Dims, LevelOK,
       Listening, SignalMsg, DispMsg, BlMsg
  <1>2. CASE Next
    BY <1>2, GoIdleStep, ActivityStep, HintStep, NewIdleStep, ReceiveStep, CalibrateStep, PauseStep,
       ReadStep, FadeStep DEF Next
  <1> QED
    BY <1>1, <1>2

\* The state of DISPLAY and BACKLIGHT, and all messages on their way, are of their types.
THEOREM TypeCorrect == Spec => []TypeOK
  BY InitInv, InvStep, InvTypes, PTL DEF Spec

(***************************************************************************)
(* Clightd's DPMS and state.display_state agree whoever asked, and however *)
(* the reports of one's changes cross with requests for the other.         *)
(***************************************************************************)
THEOREM DpmsFollows == Spec => []DpmsFollowsDisplay
  <1>1. IInv => DpmsFollowsDisplay
    BY DEF IInv, DpmsAgrees, DpmsFollowsDisplay
  <1> QED
    BY <1>1, InitInv, InvStep, PTL DEF Spec

-----------------------------------------------------------------------------
(***************************************************************************)
(* The way of the level.  BACKLIGHT's pipe q asks on behalf of some module *)
(* f; what DIMMER asks in it says v; whatever DIMMER asks comes before     *)
(* what BACKLIGHT asks of itself, or comes first; and the news that the    *)
(* display is not on guards BACKLIGHT from its own requests.               *)
(***************************************************************************)
Asks(q, f) == \E i \in DOMAIN q : q[i].from = f
Says(q, v) == \A i \in DOMAIN q : q[i].from = "DIMMER" => q[i].new = v
Ordered(q) == \A i, j \in DOMAIN q : q[i].from = "BACKLIGHT" /\ q[j].from = "DIMMER" => j < i
First(q) == \A i \in DOMAIN q : q[i].from = "DIMMER" => i = 1
Guarded(q) == \E j \in DOMAIN q : /\ q[j].from = "DISPLAY"
                                  /\ \A i \in DOMAIN q : q[i].from = "BACKLIGHT" => j < i

LEMMA AppendAt ==
  ASSUME NEW S, NEW q \in Seq(S), NEW m \in S
  PROVE  /\ Append(q, m) \in Seq(S) /\ Len(q) \in Nat
         /\ DOMAIN q = 1 .. Len(q) /\ DOMAIN Append(q, m) = 1 .. Len(q) + 1
         /\ \A i \in 1 .. Len(q) : Append(q, m)[i] = q[i]
         /\ Append(q, m)[Len(q) + 1] = m
  OBVIOUS

LEMMA TailAt ==
  ASSUME NEW S, NEW q \in Seq(S), q # <<>>
  PROVE  /\ Len(q) \in Nat \ {0}
         /\ DOMAIN q = 1 .. Len(q) /\ DOMAIN Tail(q) = 1 .. Len(q) - 1
         /\ Head(q) = q[1] /\ \A i \in 1 .. Len(q) - 1 : Tail(q)[i] = q[i + 1]
  OBVIOUS

LEMMA PublishAt ==
  ASSUME NEW q \in Seq(BlMsg), NEW from, NEW new, [from |-> from, new |-> new] \in BlMsg
  PROVE  /\ Len(q) \in Nat
         /\ DOMAIN q = 1 .. Len(q) /\ DOMAIN Publish(q, from, new) = 1 .. Len(q) + 1
         /\ \A i \in 1 .. Len(q) :
              /\ Publish(q, from, new)[i].from = q[i].from
              /\ Publish(q, from, new)[i].new = IF q[i].from = from THEN new ELSE q[i].new
         /\ Publish(q, from, new)[Len(q) + 1] = [from |-> from, new |-> new]
  <1> DEFINE m == [from |-> from, new |-> new]
             rewritten == [i \in DOMAIN q |-> IF q[i].from = from THEN m ELSE q[i]]
  <1>1. Len(q) \in Nat /\ DOMAIN q = 1 .. Len(q)
    OBVIOUS
  <1>2. \A i \in 1 .. Len(q) : rewritten[i] \in BlMsg
    OBVIOUS
  <1>3. rewritten \in Seq(BlMsg) /\ Len(rewritten) = Len(q)
    BY <1>1, <1>2, IsASeq
  <1>4. Publish(q, from, new) = Append(rewritten, m)
    BY DEF Publish
  <1>5. \A i \in 1 .. Len(q) : /\ rewritten[i].from = q[i].from
                               /\ rewritten[i].new = IF q[i].from = from THEN new ELSE q[i].new
    BY <1>1
  <1> HIDE DEF rewritten
  <1>6. /\ DOMAIN Append(rewritten, m) = 1 .. Len(q) + 1
        /\ \A i \in 1 .. Len(q) : Append(rewritten, m)[i] = rewritten[i]
        /\ Append(rewritten, m)[Len(q) + 1] = m
    BY <1>3, AppendAt
  <1> QED
    BY <1>1, <1>4, <1>5, <1>6

\* Intervals, for the positions in a pipe.
LEMMA Positions ==
  /\ \A n \in Nat : \A i \in 1 .. n : i \in 1 .. n + 1 /\ i < n + 1
  /\ \A n \in Nat : n + 1 \in 1 .. n + 1
  /\ \A n \in Nat : \A i \in 1 .. n + 1 : i \in 1 .. n \/ i = n + 1
  OBVIOUS

\* DISPLAY_UPD is published.
LEMMA Updated ==
  ASSUME NEW q \in Seq(BlMsg), NEW r, r = PublishDisplayUpd(q)
  PROVE  /\ r \in Seq(BlMsg)
         /\ \A f : Asks(r, f) <=> Asks(q, f) \/ f = "DISPLAY"
         /\ \A v : Says(q, v) => Says(r, v)
         /\ Ordered(q) => Ordered(r)
         /\ First(q) => First(r)
         /\ Guarded(q) \/ ~Asks(q, "BACKLIGHT") => Guarded(r)
  <1> DEFINE m == [from |-> "DISPLAY", new |-> NoLevel]
  <1>1. m \in BlMsg /\ r = Append(q, m) /\ m.from = "DISPLAY"
    BY DEF BlMsg, PublishDisplayUpd
  <1> HIDE DEF m
  <1>2. /\ r \in Seq(BlMsg) /\ Len(q) \in Nat
        /\ DOMAIN q = 1 .. Len(q) /\ DOMAIN r = 1 .. Len(q) + 1
        /\ \A i \in 1 .. Len(q) : r[i] = q[i]
        /\ r[Len(q) + 1] = m
    BY <1>1, AppendAt
  <1>3. \A f : Asks(r, f) <=> Asks(q, f) \/ f = "DISPLAY"
    BY <1>1, <1>2, Positions DEF Asks
  <1>4. \A v : Says(q, v) => Says(r, v)
    BY <1>1, <1>2, Positions DEF Says
  <1>5. Ordered(q) => Ordered(r)
    BY <1>1, <1>2, Positions DEF Ordered
  <1>6. First(q) => First(r)
    BY <1>1, <1>2, Positions DEF First
  <1>7. Guarded(q) => Guarded(r)
    BY <1>1, <1>2, Positions DEF Guarded
  <1>8. ~Asks(q, "BACKLIGHT") => Guarded(r)
    BY <1>1, <1>2, Positions DEF Asks, Guarded
  <1> QED
    BY <1>2, <1>3, <1>4, <1>5, <1>6, <1>7, <1>8

\* BACKLIGHT asks itself for a level.
LEMMA Calibrated ==
  ASSUME NEW q \in Seq(BlMsg), NEW l \in Levels, NEW r, r = Publish(q, "BACKLIGHT", l)
  PROVE  /\ r \in Seq(BlMsg)
         /\ \A f : Asks(r, f) <=> Asks(q, f) \/ f = "BACKLIGHT"
         /\ \A v : Says(q, v) => Says(r, v)
         /\ Ordered(q) => Ordered(r)
         /\ First(q) => First(r)
         /\ Guarded(q) => Guarded(r)
  <1> DEFINE m == [from |-> "BACKLIGHT", new |-> l]
  <1>1. m \in BlMsg /\ m.from = "BACKLIGHT"
    BY DEF BlMsg
  <1>2. r \in Seq(BlMsg)
    BY <1>1, PublishIn
  <1>3. /\ Len(q) \in Nat
        /\ DOMAIN q = 1 .. Len(q) /\ DOMAIN r = 1 .. Len(q) + 1
        /\ \A i \in 1 .. Len(q) : /\ r[i].from = q[i].from
                                  /\ q[i].from # "BACKLIGHT" => r[i].new = q[i].new
        /\ r[Len(q) + 1].from = "BACKLIGHT"
    BY <1>1, PublishAt
  <1>4. \A f : Asks(r, f) <=> Asks(q, f) \/ f = "BACKLIGHT"
    BY <1>3, Positions DEF Asks
  <1>5. \A v : Says(q, v) => Says(r, v)
    BY <1>3, Positions DEF Says
  <1>6. Ordered(q) => Ordered(r)
    BY <1>3, Positions DEF Ordered
  <1>7. First(q) => First(r)
    BY <1>3, Positions DEF First
  <1>8. Guarded(q) => Guarded(r)
    BY <1>3, Positions DEF Guarded
  <1> QED
    BY <1>2, <1>4, <1>5, <1>6, <1>7, <1>8

\* DIMMER's message asks for a level: that of every copy in flight.
LEMMA Dimmed ==
  ASSUME NEW q \in Seq(BlMsg), NEW l \in Levels, NEW r, r = Publish(q, "DIMMER", l)
  PROVE  /\ r \in Seq(BlMsg)
         /\ \A f : Asks(r, f) <=> Asks(q, f) \/ f = "DIMMER"
         /\ Says(r, l)
         /\ ~Asks(q, "BACKLIGHT") => Ordered(r)
         /\ q = <<>> => First(r)
  <1> DEFINE m == [from |-> "DIMMER", new |-> l]
  <1>1. m \in BlMsg /\ m.from = "DIMMER"
    BY DEF BlMsg
  <1>2. r \in Seq(BlMsg)
    BY <1>1, PublishIn
  <1>3. /\ Len(q) \in Nat
        /\ DOMAIN q = 1 .. Len(q) /\ DOMAIN r = 1 .. Len(q) + 1
        /\ \A i \in 1 .. Len(q) : /\ r[i].from = q[i].from
                                  /\ q[i].from = "DIMMER" => r[i].new = l
        /\ r[Len(q) + 1].from = "DIMMER" /\ r[Len(q) + 1].new = l
    BY <1>1, PublishAt
  <1>4. \A f : Asks(r, f) <=> Asks(q, f) \/ f = "DIMMER"
    BY <1>3, Positions DEF Asks
  <1>5. Says(r, l)
    BY <1>3, Positions DEF Says
  <1>6. ~Asks(q, "BACKLIGHT") => Ordered(r)
    BY <1>3, Positions DEF Ordered, Asks
  <1>7. q = <<>> => First(r)
    <2> SUFFICES ASSUME q = <<>> PROVE First(r)
      OBVIOUS
    <2>1. Len(q) = 0
      OBVIOUS
    <2>2. DOMAIN r = 1 .. 1
      BY <1>3, <2>1
    <2> QED
      BY <2>2 DEF First
  <1> QED
    BY <1>2, <1>4, <1>5, <1>6, <1>7

\* BACKLIGHT reads the first message.
LEMMA ReadFirst ==
  ASSUME NEW q \in Seq(BlMsg), q # <<>>, NEW r, r = Tail(q)
  PROVE  /\ Head(q) \in BlMsg /\ r \in Seq(BlMsg)
         /\ \A f : Asks(q, f) <=> Head(q).from = f \/ Asks(r, f)
         /\ \A v : Says(q, v) => Says(r, v) /\ (Head(q).from = "DIMMER" => Head(q).new = v)
         /\ Ordered(q) => Ordered(r) /\ (Head(q).from = "BACKLIGHT" => ~Asks(q, "DIMMER"))
         /\ First(q) => First(r) /\ ~Asks(r, "DIMMER")
         /\ Guarded(q) => Head(q).from # "BACKLIGHT" /\ (Head(q).from = "DISPLAY" \/ Guarded(r))
  <1>1. Head(q) \in BlMsg /\ r \in Seq(BlMsg)
    BY TailIn
  <1>2. /\ Len(q) \in Nat \ {0}
        /\ DOMAIN q = 1 .. Len(q) /\ DOMAIN r = 1 .. Len(q) - 1
        /\ Head(q) = q[1] /\ \A i \in 1 .. Len(q) - 1 : r[i] = q[i + 1]
    BY TailAt
  <1>3. \A n \in Nat \ {0} : 1 \in 1 .. n /\ \A i \in 1 .. n - 1 : i + 1 \in 1 .. n /\ i + 1 # 1
    OBVIOUS
  <1>4. \A n \in Nat \ {0} : \A i \in 1 .. n : i = 1 \/ (i - 1 \in 1 .. n - 1 /\ (i - 1) + 1 = i)
    OBVIOUS
  <1>5. \A n \in Nat : \A i, j \in 1 .. n : j + 1 < i + 1 => j < i
    OBVIOUS
  <1>6. \A f : Asks(q, f) <=> Head(q).from = f \/ Asks(r, f)
    <2> TAKE f
    <2>1. Asks(q, f) => Head(q).from = f \/ Asks(r, f)
      <3> SUFFICES ASSUME NEW i \in 1 .. Len(q), q[i].from = f, i # 1 PROVE Asks(r, f)
        BY <1>2 DEF Asks
      <3>1. i - 1 \in 1 .. Len(q) - 1 /\ (i - 1) + 1 = i
        BY <1>2, <1>4
      <3> QED
        BY <1>2, <3>1 DEF Asks
    <2>2. Head(q).from = f \/ Asks(r, f) => Asks(q, f)
      BY <1>2, <1>3 DEF Asks
    <2> QED
      BY <2>1, <2>2
  <1>7. \A v : Says(q, v) => Says(r, v) /\ (Head(q).from = "DIMMER" => Head(q).new = v)
    BY <1>2, <1>3 DEF Says
  <1>8. Ordered(q) => Ordered(r)
    <2> SUFFICES ASSUME Ordered(q), NEW i \in 1 .. Len(q) - 1, NEW j \in 1 .. Len(q) - 1,
                        r[i].from = "BACKLIGHT", r[j].from = "DIMMER"
                 PROVE  j < i
      BY <1>2 DEF Ordered
    <2>1. j + 1 < i + 1
      BY <1>2, <1>3 DEF Ordered
    <2> QED
      BY <1>2, <2>1
  <1>9. Ordered(q) /\ Head(q).from = "BACKLIGHT" => ~Asks(q, "DIMMER")
    <2>1. \A n \in Nat \ {0} : \A j \in 1 .. n : ~(j < 1)
      OBVIOUS
    <2> QED
      BY <1>2, <1>3, <2>1 DEF Ordered, Asks
  <1>10. First(q) => First(r) /\ ~Asks(r, "DIMMER")
    BY <1>2, <1>3 DEF First, Asks
  <1>11. ASSUME Guarded(q)
         PROVE  Head(q).from # "BACKLIGHT" /\ (Head(q).from = "DISPLAY" \/ Guarded(r))
    <2>1. PICK j \in 1 .. Len(q) :
            q[j].from = "DISPLAY" /\ \A i \in 1 .. Len(q) : q[i].from = "BACKLIGHT" => j < i
      BY <1>2, <1>11 DEF Guarded
    <2>2. q[1].from # "BACKLIGHT"
      BY <1>2, <1>3, <2>1
    <2>3. ASSUME j # 1 PROVE Guarded(r)
      <3>1. j - 1 \in 1 .. Len(q) - 1 /\ (j - 1) + 1 = j
        BY <1>2, <1>4, <2>3
      <3>2. r[j - 1].from = "DISPLAY"
        BY <1>2, <2>1, <3>1
      <3>3. ASSUME NEW i \in 1 .. Len(q) - 1, r[i].from = "BACKLIGHT" PROVE j - 1 < i
        <4>1. j < i + 1
          BY <1>2, <1>3, <2>1, <3>3
        <4> QED
          BY <1>2, <4>1
      <3> QED
        BY <1>2, <3>1, <3>2, <3>3 DEF Guarded
    <2> QED
      BY <1>2, <2>1, <2>2, <2>3
  <1> QED
    BY <1>1, <1>6, <1>7, <1>8, <1>9, <1>10, <1>11

-----------------------------------------------------------------------------
(***************************************************************************)
(* The level to return to is saved only in the dimmed state.  BACKLIGHT    *)
(* knows whether the display is on, or has news of it unread.  While no    *)
(* slip is on record: outside the dimmed state the level calibrated last   *)
(* is the target, or what DIMMER asks; in it, that level is the one saved, *)
(* or nothing was saved as it is dim already, and BACKLIGHT cannot set     *)
(* another.                                                                *)
(***************************************************************************)
Spent == /\ "DIMMED" \notin display_state => old_pct = NoLevel
         /\ old_pct # NoLevel => dimmer /\ old_pct > dimmed_pct
PauseKnown == ~Asks(blQ, "DISPLAY") => ("DISPLAY" \in bl_paused <=> display_state # {})
Lit == "DIMMED" \notin display_state /\ slip # "lost" =>
  /\ Ordered(blQ) /\ Says(blQ, wanted)
  /\ IF Asks(blQ, "DIMMER") THEN wanted > dimmed_pct ELSE target = wanted
Dim == "DIMMED" \in display_state /\ slip # "lost" =>
  /\ "DISPLAY" \in bl_paused \/ Guarded(blQ)
  /\ First(blQ) /\ Says(blQ, dimmed_pct)
  /\ Asks(blQ, "DIMMER") => "DISPLAY" \notin bl_paused /\ old_pct # NoLevel
  /\ IF old_pct # NoLevel
       THEN old_pct = wanted /\ (slip = "none" => Asks(blQ, "DIMMER") \/ target = dimmed_pct)
       ELSE target = wanted /\ (dimmer => target <= dimmed_pct)
LevelInv == Spent /\ PauseKnown /\ Lit /\ Dim

LEMMA InitLevel == Init => LevelInv
  <1> SUFFICES ASSUME Init PROVE LevelInv
    OBVIOUS
  <1>1. DOMAIN blQ = {} /\ display_state = {} /\ old_pct = NoLevel /\ bl_paused = {} /\ target = wanted
    BY DEF Init
  <1> QED
    BY <1>1 DEF LevelInv, Spent, PauseKnown, Lit, Dim, Asks, Ordered, Says

LEMMA CalibrateLevel == ASSUME IInv, LevelInv, NEW l \in Levels, Calibrate(l) PROVE LevelInv'
  <1>1. /\ blQ' = Publish(blQ, "BACKLIGHT", l) /\ (bl_paused = {} \/ display_state = {})
        /\ UNCHANGED <<dimmer, display_state, old_pct, bl_paused, target, wanted, slip>>
    BY DEF Calibrate, userVars, dispVars, blVars
  <1>2. /\ \A f : Asks(blQ', f) <=> Asks(blQ, f) \/ f = "BACKLIGHT"
        /\ \A v : Says(blQ, v) => Says(blQ', v)
        /\ Ordered(blQ) => Ordered(blQ')
        /\ First(blQ) => First(blQ')
        /\ Guarded(blQ) => Guarded(blQ')
    BY <1>1, Calibrated DEF IInv, Dims
  <1>3. Spent' /\ PauseKnown'
    BY <1>1, <1>2 DEF LevelInv, Spent, PauseKnown
  <1>4. Lit'
    BY <1>1, <1>2 DEF LevelInv, Lit
  <1>5. Dim'
    BY <1>1, <1>2 DEF LevelInv, Dim
  <1> QED
    BY <1>3, <1>4, <1>5 DEF LevelInv

\* BACKLIGHT reads a request or the news that the display is on or not.
LEMMA ReadLevel == ASSUME IInv, LevelInv, ReceiveBacklight PROVE LevelInv'
  <1> DEFINE up == Head(blQ)
  <1>1. /\ blQ # <<>> /\ blQ' = Tail(blQ) /\ UNCHANGED <<dimmer, display_state, old_pct>>
        /\ AcceptBlReq(up) \/ RefuseBlReq(up) \/ DimmedCallback(up)
    BY DEF ReceiveBacklight, userVars, dispVars
  <1>2. /\ up \in BlMsg
        /\ \A f : Asks(blQ, f) <=> up.from = f \/ Asks(blQ', f)
        /\ \A v : Says(blQ, v) => Says(blQ', v) /\ (up.from = "DIMMER" => up.new = v)
        /\ Ordered(blQ) => Ordered(blQ') /\ (up.from = "BACKLIGHT" => ~Asks(blQ, "DIMMER"))
        /\ First(blQ) => First(blQ') /\ ~Asks(blQ', "DIMMER")
        /\ Guarded(blQ) => up.from # "BACKLIGHT" /\ (up.from = "DISPLAY" \/ Guarded(blQ'))
    BY <1>1, ReadFirst DEF IInv, Dims
  <1>3. Spent'
    BY <1>1 DEF LevelInv, Spent
  <1>4. up.from \in {"DIMMER", "BACKLIGHT", "DISPLAY"}
    BY <1>2 DEF BlMsg
  <1>5. wanted \in Levels /\ target \in Levels /\ dimmed_pct \in Int /\ wanted \in Int /\ target \in Int
    BY DisplayAssumption DEF IInv, LevelOK, Levels
  <1>6. CASE up.from = "DISPLAY"
    <2>1. /\ bl_paused' = IF display_state # {} THEN bl_paused \cup {"DISPLAY"} ELSE bl_paused \ {"DISPLAY"}
          /\ UNCHANGED <<target, wanted, slip>>
      BY <1>1, <1>6 DEF AcceptBlReq, RefuseBlReq, DimmedCallback
    <2>2. PauseKnown'
      BY <1>1, <2>1 DEF PauseKnown
    <2>3. Lit'
      BY <1>1, <1>2, <1>6, <2>1 DEF LevelInv, Lit
    <2>4. Dim'
      BY <1>1, <1>2, <1>6, <2>1 DEF LevelInv, Dim
    <2> QED
      BY <1>3, <2>2, <2>3, <2>4 DEF LevelInv
  <1>7. ASSUME up.from # "DISPLAY" PROVE PauseKnown' /\ UNCHANGED bl_paused
    <2>1. UNCHANGED bl_paused
      BY <1>1, <1>7 DEF AcceptBlReq, RefuseBlReq, DimmedCallback, blVars
    <2> QED
      BY <1>1, <1>2, <1>7, <2>1 DEF LevelInv, PauseKnown
  <1>8. CASE up.from # "DISPLAY" /\ AcceptBlReq(up)
    <2>1. /\ target' = up.new /\ (bl_paused = {} \/ display_state = {})
          /\ wanted' = IF up.from = "BACKLIGHT" THEN up.new ELSE wanted
          /\ slip' = IF up.from = "BACKLIGHT" /\ display_state = {} /\ Len(blQ) = 1 THEN "none" ELSE slip
      BY <1>8 DEF AcceptBlReq, Gate
    <2>2. CASE up.from = "BACKLIGHT" /\ display_state = {} /\ Len(blQ) = 1
      <3>1. Len(blQ) = 1 /\ blQ \in Seq(BlMsg)
        BY <2>2 DEF IInv, Dims
      <3>2. DOMAIN blQ' = {}
        BY <1>1, <3>1
      <3>3. "DIMMED" \notin display_state' /\ target' = wanted'
        BY <1>1, <2>1, <2>2
      <3>4. Lit' /\ Dim'
        BY <3>2, <3>3 DEF Lit, Dim, Asks, Ordered, Says
      <3> QED
        BY <1>3, <1>7, <2>2, <3>4 DEF LevelInv
    <2>3. CASE ~(up.from = "BACKLIGHT" /\ display_state = {} /\ Len(blQ) = 1)
      <3>1. slip' = slip
        BY <2>1, <2>3
      <3>2. Lit'
        <4>1. CASE up.from = "BACKLIGHT"
          <5> SUFFICES ASSUME "DIMMED" \notin display_state, slip # "lost"
                       PROVE  Ordered(blQ') /\ Says(blQ', wanted') /\ ~Asks(blQ', "DIMMER") /\ target' = wanted'
            BY <1>1, <3>1 DEF Lit
          <5>1. Ordered(blQ') /\ ~Asks(blQ', "DIMMER")
            BY <1>2, <4>1 DEF LevelInv, Lit
          <5>2. \A v : Says(blQ', v)
            BY <5>1 DEF Asks, Says
          <5> QED
            BY <2>1, <4>1, <5>1, <5>2
        <4>2. CASE up.from = "DIMMER"
          BY <1>1, <1>2, <2>1, <3>1, <4>2 DEF LevelInv, Lit
        <4> QED
          BY <1>4, <1>8, <4>1, <4>2
      <3>3. Dim'
        <4> SUFFICES ASSUME "DIMMED" \in display_state, slip # "lost" PROVE Dim'
          BY <1>1, <3>1 DEF Dim
        <4>1. bl_paused = {} /\ Guarded(blQ)
          BY <2>1 DEF LevelInv, Dim
        <4>2. up.from = "DIMMER" /\ Guarded(blQ')
          BY <1>2, <1>4, <1>8, <4>1
        <4>3. Asks(blQ, "DIMMER") /\ up.new = dimmed_pct /\ First(blQ) /\ Says(blQ, dimmed_pct)
          BY <1>2, <4>2 DEF LevelInv, Dim
        <4>4. old_pct # NoLevel /\ old_pct = wanted
          BY <4>3 DEF LevelInv, Dim
        <4> QED
          BY <1>1, <1>2, <1>7, <2>1, <4>2, <4>3, <4>4 DEF Dim
      <3> QED
        BY <1>3, <1>7, <1>8, <3>2, <3>3 DEF LevelInv
    <2> QED
      BY <2>2, <2>3
  <1>9. CASE up.from # "DISPLAY" /\ RefuseBlReq(up)
    <2>1. /\ bl_paused # {} /\ display_state # {} /\ UNCHANGED <<target, wanted>>
          /\ slip' = IF up.from # "DIMMER" THEN slip
                     ELSE IF up.new # dimmed_pct THEN "lost"
                     ELSE IF "OTHER" \in bl_paused /\ slip = "none" THEN "refused" ELSE slip
      BY <1>9 DEF RefuseBlReq, Gate, blVars
    <2>2. slip' # "lost" => slip # "lost" /\ (up.from = "DIMMER" => up.new = dimmed_pct)
      BY <2>1
    <2>3. Lit'
      <3> SUFFICES ASSUME "DIMMED" \notin display_state, slip' # "lost" PROVE Lit'
        BY <1>1 DEF Lit
      <3>1. up.from # "DIMMER"
        <4> SUFFICES ASSUME up.from = "DIMMER" PROVE FALSE
          OBVIOUS
        <4>1. Asks(blQ, "DIMMER") /\ up.new = dimmed_pct
          BY <1>2, <2>2
        <4>2. Says(blQ, wanted) /\ wanted > dimmed_pct
          BY <2>2, <4>1 DEF LevelInv, Lit
        <4>3. wanted = dimmed_pct
          BY <1>2, <4>1, <4>2
        <4> QED
          BY <1>5, <4>2, <4>3
      <3> QED
        BY <1>1, <1>2, <2>1, <2>2, <3>1 DEF LevelInv, Lit
    <2>4. Dim'
      <3> SUFFICES ASSUME "DIMMED" \in display_state, slip' # "lost" PROVE Dim'
        BY <1>1 DEF Dim
      <3>0. /\ slip # "lost" /\ ("DISPLAY" \in bl_paused \/ Guarded(blQ))
            /\ First(blQ) /\ Says(blQ, dimmed_pct)
            /\ Asks(blQ, "DIMMER") => "DISPLAY" \notin bl_paused /\ old_pct # NoLevel
            /\ IF old_pct # NoLevel
                 THEN old_pct = wanted /\ (slip = "none" => Asks(blQ, "DIMMER") \/ target = dimmed_pct)
                 ELSE target = wanted /\ (dimmer => target <= dimmed_pct)
        BY <2>2 DEF LevelInv, Dim
      <3>1. First(blQ') /\ ~Asks(blQ', "DIMMER") /\ Says(blQ', dimmed_pct)
        BY <1>2, <3>0
      <3>2. "DISPLAY" \in bl_paused \/ Guarded(blQ')
        BY <1>2, <1>9, <3>0
      <3>3. slip' = "none" => slip = "none" /\ (old_pct # NoLevel => target = dimmed_pct)
        <4> SUFFICES ASSUME slip' = "none" PROVE slip = "none" /\ (old_pct # NoLevel => target = dimmed_pct)
          OBVIOUS
        <4>1. slip = "none"
          BY <2>1
        <4>2. up.from = "DIMMER" => "OTHER" \notin bl_paused
          BY <2>1, <4>1
        <4>3. up.from = "DIMMER" => "DISPLAY" \notin bl_paused
          BY <1>2, <3>0
        <4>4. bl_paused \subseteq {"DISPLAY", "OTHER"}
          BY DEF IInv, LevelOK
        <4>5. up.from # "DIMMER"
          BY <2>1, <4>2, <4>3, <4>4
        <4> QED
          BY <1>2, <3>0, <3>1, <4>1, <4>5
      <3> QED
        BY <1>1, <1>7, <1>9, <2>1, <3>0, <3>1, <3>2, <3>3 DEF Dim
    <2> QED
      BY <1>3, <1>7, <1>9, <2>3, <2>4 DEF LevelInv
  <1> QED
    BY <1>1, <1>6, <1>8, <1>9 DEF DimmedCallback

\* DISPLAY answers a request: what becomes of the level saved.
LEMMA DimLevel ==
  ASSUME IInv, LevelInv, NEW up \in DispMsg, EnterDimmed(up), UNCHANGED <<dimmer, blVars>>
  PROVE  LevelInv'
  <1>1. /\ display_state = {} /\ display_state' = {"DIMMED"} /\ up.new = "DIMMED"
        /\ UNCHANGED <<dimmer, bl_paused, target, wanted>>
    BY DEF EnterDimmed, ValidDisplay, IInv, AskedFor, blVars
  <1>2. (dimmer <=> up.from # "HINT") /\ blQ \in Seq(BlMsg) /\ old_pct = NoLevel
    BY <1>1 DEF DispMsg, Listening, IInv, Dims, LevelInv, Spent
  <1>3. /\ level \in Levels /\ dimmed_pct \in Levels /\ level \in Int /\ dimmed_pct \in Int
        /\ level # NoLevel
    BY DisplayAssumption DEF IInv, LevelOK, Levels, NoLevel
  <1>4. slip' # "lost" => /\ slip' = slip /\ level = target /\ blQ = <<>> /\ target = wanted
                          /\ "DISPLAY" \notin bl_paused
    <2> SUFFICES ASSUME slip' # "lost"
                 PROVE  /\ slip' = slip /\ level = target /\ blQ = <<>> /\ target = wanted
                        /\ "DISPLAY" \notin bl_paused
      OBVIOUS
    <2>1. slip' = slip /\ level = target /\ blQ = <<>>
      BY DEF EnterDimmed
    <2>2. \A f : ~Asks(blQ, f)
      BY <2>1 DEF Asks
    <2> QED
      BY <1>1, <2>1, <2>2 DEF LevelInv, PauseKnown, Lit
  <1>5. CASE up.from # "HINT" /\ level > dimmed_pct
    <2> DEFINE asked == Publish(blQ, "DIMMER", dimmed_pct)
    <2>1. old_pct' = level /\ blQ' = PublishDisplayUpd(asked)
      BY <1>5 DEF EnterDimmed, NoBacklight
    <2>2. /\ asked \in Seq(BlMsg) /\ Says(asked, dimmed_pct)
          /\ \A f : Asks(asked, f) <=> Asks(blQ, f) \/ f = "DIMMER"
          /\ blQ = <<>> => First(asked)
      BY <1>2, <1>3, Dimmed
    <2> HIDE DEF asked
    <2>3. /\ \A f : Asks(blQ', f) <=> Asks(asked, f) \/ f = "DISPLAY"
          /\ \A v : Says(asked, v) => Says(blQ', v)
          /\ First(asked) => First(blQ')
          /\ ~Asks(asked, "BACKLIGHT") => Guarded(blQ')
      BY <2>1, <2>2, Updated
    <2>4. Spent' /\ PauseKnown' /\ Lit'
      BY <1>1, <1>2, <1>5, <2>1, <2>3 DEF Spent, PauseKnown, Lit
    <2>5. blQ = <<>> => ~Asks(asked, "BACKLIGHT")
      <3>1. blQ = <<>> => ~Asks(blQ, "BACKLIGHT")
        BY DEF Asks
      <3> QED
        BY <2>2, <3>1
    <2>6. Dim'
      <3> SUFFICES ASSUME slip' # "lost" PROVE Dim'
        BY DEF Dim
      <3>1. Asks(asked, "DIMMER") /\ ~Asks(asked, "BACKLIGHT")
        BY <1>4, <2>2, <2>5
      <3>2. First(blQ') /\ Says(blQ', dimmed_pct) /\ Asks(blQ', "DIMMER") /\ Guarded(blQ')
        BY <1>4, <2>2, <2>3, <3>1
      <3>3. old_pct' = wanted /\ "DISPLAY" \notin bl_paused /\ level # NoLevel
        BY <1>3, <1>4, <2>1
      <3> QED
        BY <1>1, <2>1, <3>2, <3>3 DEF Dim
    <2> QED
      BY <2>4, <2>6 DEF LevelInv
  <1>6. CASE ~(up.from # "HINT" /\ level > dimmed_pct)
    <2>1. old_pct' = NoLevel /\ blQ' = PublishDisplayUpd(blQ)
      BY <1>2, <1>6 DEF EnterDimmed, NoBacklight
    <2>2. /\ \A f : Asks(blQ', f) <=> Asks(blQ, f) \/ f = "DISPLAY"
          /\ ~Asks(blQ, "BACKLIGHT") => Guarded(blQ')
      BY <1>2, <2>1, Updated
    <2>3. Spent' /\ PauseKnown' /\ Lit'
      BY <1>1, <2>1, <2>2 DEF Spent, PauseKnown, Lit
    <2>4. Dim'
      <3> SUFFICES ASSUME slip' # "lost" PROVE Dim'
        BY DEF Dim
      <3>1. \A f : ~Asks(blQ, f)
        BY <1>4 DEF Asks
      <3>2. First(blQ') /\ Says(blQ', dimmed_pct) /\ ~Asks(blQ', "DIMMER") /\ Guarded(blQ')
        BY <2>2, <3>1 DEF Asks, First, Says
      <3>3. target = wanted /\ (dimmer => target <= dimmed_pct)
        BY <1>2, <1>3, <1>4, <1>6
      <3> QED
        BY <1>1, <2>1, <3>2, <3>3 DEF Dim
    <2> QED
      BY <2>3, <2>4 DEF LevelInv
  <1> QED
    BY <1>5, <1>6

LEMMA OffLevel ==
  ASSUME IInv, LevelInv, NEW up \in DispMsg, EnterOff(up), UNCHANGED <<dimmer, blVars>>
  PROVE  LevelInv'
  <1>1. /\ display_state' = display_state \cup {"OFF"} /\ blQ' = PublishDisplayUpd(blQ)
        /\ UNCHANGED <<dimmer, old_pct, bl_paused, target, wanted, slip>>
    BY DEF EnterOff, blVars
  <1>2. /\ \A f : Asks(blQ', f) <=> Asks(blQ, f) \/ f = "DISPLAY"
        /\ \A v : Says(blQ, v) => Says(blQ', v)
        /\ Ordered(blQ) => Ordered(blQ')
        /\ First(blQ) => First(blQ')
        /\ Guarded(blQ) => Guarded(blQ')
    BY <1>1, Updated DEF IInv, Dims
  <1>3. Spent' /\ PauseKnown'
    BY <1>1, <1>2 DEF LevelInv, Spent, PauseKnown
  <1>4. Lit'
    BY <1>1, <1>2 DEF LevelInv, Lit
  <1>5. Dim'
    BY <1>1, <1>2 DEF LevelInv, Dim
  <1> QED
    BY <1>3, <1>4, <1>5 DEF LevelInv

LEMMA OnLevel ==
  ASSUME IInv, LevelInv, NEW up \in DispMsg, LeaveAll(up), UNCHANGED <<dimmer, blVars>>
  PROVE  LevelInv'
  <1>1. display_state' = {} /\ UNCHANGED <<dimmer, bl_paused, target, wanted>>
    BY DEF LeaveAll, blVars
  <1>2. (dimmer => up.from # "HINT") /\ blQ \in Seq(BlMsg)
    BY DEF DispMsg, Listening, IInv, Dims
  <1>3. slip' # "lost" => slip # "lost" /\ ~Asks(blQ, "BACKLIGHT")
    BY DEF LeaveAll, Unread, Asks
  <1>4. CASE "DIMMED" \in display_state /\ old_pct # NoLevel
    <2> DEFINE asked == Publish(blQ, "DIMMER", old_pct)
    <2>1. up.from # "HINT" /\ old_pct > dimmed_pct /\ old_pct \in Levels
      BY <1>2, <1>4 DEF LevelInv, Spent, IInv, Dims
    <2>2. old_pct' = NoLevel /\ blQ' = PublishDisplayUpd(asked)
      BY <1>4, <2>1 DEF LeaveAll, NoBacklight
    <2>3. /\ asked \in Seq(BlMsg) /\ Says(asked, old_pct)
          /\ \A f : Asks(asked, f) <=> Asks(blQ, f) \/ f = "DIMMER"
          /\ ~Asks(blQ, "BACKLIGHT") => Ordered(asked)
      BY <1>2, <2>1, Dimmed
    <2> HIDE DEF asked
    <2>4. /\ \A f : Asks(blQ', f) <=> Asks(asked, f) \/ f = "DISPLAY"
          /\ \A v : Says(asked, v) => Says(blQ', v)
          /\ Ordered(asked) => Ordered(blQ')
      BY <2>2, <2>3, Updated
    <2>5. Spent' /\ PauseKnown' /\ Dim'
      BY <1>1, <2>2, <2>4 DEF Spent, PauseKnown, Dim
    <2>6. slip' # "lost" => old_pct = wanted
      BY <1>3, <1>4 DEF LevelInv, Dim
    <2>7. Lit'
      BY <1>1, <1>3, <2>1, <2>3, <2>4, <2>6 DEF Lit
    <2> QED
      BY <2>5, <2>7 DEF LevelInv
  <1>5. CASE ~("DIMMED" \in display_state /\ old_pct # NoLevel)
    <2>1. old_pct = NoLevel /\ old_pct' = NoLevel /\ blQ' = PublishDisplayUpd(blQ)
      BY <1>5 DEF LeaveAll, LevelInv, Spent
    <2>2. /\ \A f : Asks(blQ', f) <=> Asks(blQ, f) \/ f = "DISPLAY"
          /\ \A v : Says(blQ, v) => Says(blQ', v)
          /\ Ordered(blQ) => Ordered(blQ')
      BY <1>2, <2>1, Updated
    <2>3. Spent' /\ PauseKnown' /\ Dim'
      BY <1>1, <2>1, <2>2 DEF Spent, PauseKnown, Dim
    <2>4. CASE "DIMMED" \notin display_state
      BY <1>1, <1>3, <2>2, <2>3, <2>4 DEF LevelInv, Lit
    <2>5. CASE "DIMMED" \in display_state
      <3> SUFFICES ASSUME slip' # "lost" PROVE Lit'
        BY <2>3 DEF LevelInv, Lit
      <3>1. ~Asks(blQ, "DIMMER") /\ target = wanted
        BY <1>3, <2>1, <2>5 DEF LevelInv, Dim
      <3>2. ~Asks(blQ', "DIMMER") /\ Ordered(blQ') /\ \A v : Says(blQ', v)
        BY <2>2, <3>1 DEF Asks, Ordered, Says
      <3> QED
        BY <1>1, <3>1, <3>2 DEF Lit
    <2> QED
      BY <2>4, <2>5
  <1> QED
    BY <1>4, <1>5

LEMMA LevelStep == IInv /\ LevelInv /\ [Next]_vars => LevelInv'
  <1> SUFFICES ASSUME IInv, LevelInv, [Next]_vars PROVE LevelInv'
    OBVIOUS
  <1>1. CASE UNCHANGED <<dimmer, display_state, old_pct, blQ, slip, target, wanted>>
             /\ ("DISPLAY" \in bl_paused' <=> "DISPLAY" \in bl_paused)
    <2>1. Spent' /\ PauseKnown' /\ Lit'
      BY <1>1 DEF LevelInv, Spent, PauseKnown, Lit
    <2>2. Dim'
      BY <1>1 DEF LevelInv, Dim
    <2> QED
      BY <2>1, <2>2 DEF LevelInv
  <1>2. CASE \/ UNCHANGED vars \/ Activity \/ HintChanged \/ OnNewIdle \/ OnBlChanged
             \/ \E c \in Clients : GoIdle(c)
    <2>1. UNCHANGED <<dimmer, display_state, old_pct, blQ, slip, target, wanted, bl_paused>>
      BY <1>2 DEF vars, userVars, dispVars, blVars, Activity, HintChanged, OnNewIdle, OnBlChanged, GoIdle
    <2> QED
      BY <1>1, <2>1
  <1>4. CASE PauseElsewhere
    <2>1. /\ UNCHANGED <<dimmer, display_state, old_pct, blQ, slip, target, wanted>>
          /\ bl_paused' = bl_paused \cup {"OTHER"} \/ bl_paused' = bl_paused \ {"OTHER"}
      BY <1>4 DEF userVars, dispVars, PauseElsewhere
    <2> QED
      BY <1>1, <2>1
  <1>3. CASE ReceiveDisplayReq
    <2> DEFINE up == Head(dispQ)
    <2>1. up \in DispMsg /\ UNCHANGED <<dimmer, blVars>>
      BY <1>3, TailIn DEF ReceiveDisplayReq, IInv, AskedFor
    <2>2. CASE RefuseDisplayReq(up)
      BY <1>1, <2>1, <2>2 DEF RefuseDisplayReq, dispVars, blVars
    <2> QED
      BY <1>3, <2>1, <2>2, DimLevel, OffLevel, OnLevel DEF ReceiveDisplayReq
  <1> QED
    BY <1>2, <1>3, <1>4, CalibrateLevel, ReadLevel DEF Next

(***************************************************************************)
(* With the display on and all quiet, the level is the one calibrated      *)
(* last, unless a slip is on record: DISPLAY saved a level that was not to *)
(* stay, or BACKLIGHT refused the one to return to.                        *)
(***************************************************************************)
THEOREM LevelReturns == Spec => []BrightnessRestored
  <1>1. IInv /\ LevelInv => BrightnessRestored
    BY DEF LevelInv, Lit, Asks, BrightnessRestored, Settled
  <1> QED
    BY <1>1, InitInv, InvStep, InitLevel, LevelStep, PTL DEF Spec

(***************************************************************************)
(* With DIMMER enabled a dimmed display is dim when all is quiet: nothing  *)
(* BACKLIGHT asks of itself gets past the news that it is dimmed.          *)
(***************************************************************************)
THEOREM DimStaysDim == Spec => []DimmedIsDim
  <1>1. IInv /\ LevelInv => DimmedIsDim
    <2> SUFFICES ASSUME IInv, LevelInv, blQ = <<>>, level = target, dimmer,
                        "DIMMED" \in display_state, slip = "none"
                 PROVE  level <= dimmed_pct
      BY DEF DimmedIsDim, Settled
    <2>1. ~Asks(blQ, "DIMMER")
      BY DEF Asks
    <2>2. target = dimmed_pct \/ target <= dimmed_pct
      BY <2>1 DEF LevelInv, Dim
    <2>3. dimmed_pct \in Int
      BY DisplayAssumption
    <2> QED
      BY <2>2, <2>3
  <1> QED
    BY <1>1, InitInv, InvStep, InitLevel, LevelStep, PTL DEF Spec
=============================================================================
