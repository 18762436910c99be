-------------------------- MODULE Backlight_proofs --------------------------
(***************************************************************************)
(* Proofs about BACKLIGHT and SCREEN, for any start of SCREEN, any         *)
(* timeouts that are written and any bounds: the types, that both modules  *)
(* are paused as they were told, and that captures go on.                  *)
(***************************************************************************)
EXTENDS Backlight, SequenceTheorems, TLAPS

Unread(q, kind) == ~NoneUnread(q, kind)

LEMMA TailType ==
  ASSUME NEW S, NEW q \in Seq(S), q # <<>>
  PROVE  Head(q) \in S /\ Tail(q) \in Seq(S)
  OBVIOUS

\* What a publication does to a pipe: one message more, and the copies of that
\* static message that were in the pipe say the same.
LEMMA Published ==
  ASSUME NEW S, NEW q \in Seq(S), NEW kind, NEW arg, [kind |-> kind, arg |-> arg] \in S
  PROVE  LET msg == [kind |-> kind, arg |-> arg]
             p == Publish(q, kind, arg)
         IN  /\ p \in Seq(S) /\ Len(q) \in Nat /\ Len(p) = Len(q) + 1 /\ p[Len(q) + 1] = msg
             /\ \A i \in 1 .. Len(q) : p[i] = IF q[i].kind = kind THEN msg ELSE q[i]
  <1> DEFINE msg == [kind |-> kind, arg |-> arg]
             r == [i \in DOMAIN q |-> IF q[i].kind = kind THEN msg ELSE q[i]]
  <1>1. Len(q) \in Nat /\ DOMAIN q = 1 .. Len(q)
    OBVIOUS
  <1>2. \A i \in 1 .. Len(q) : r[i] \in S
    OBVIOUS
  <1>3. r \in Seq(S)
    <2>1. DOMAIN r = 1 .. Len(q)
      BY <1>1
    <2> QED
      BY <1>1, <1>2, <2>1, IsASeq
  <1>4. Len(r) = Len(q)
    <2>1. DOMAIN r = 1 .. Len(q)
      BY <1>1
    <2>2. DOMAIN r = 1 .. Len(r) /\ Len(r) \in Nat
      <3> HIDE DEF r
      <3> QED
        BY <1>3
    <2> HIDE DEF r
    <2> QED
      BY <1>1, <2>1, <2>2
  <1>5. \A i \in 1 .. Len(q) : r[i] = IF q[i].kind = kind THEN msg ELSE q[i]
    BY <1>1
  <1>6. Publish(q, kind, arg) = Append(r, msg)
    BY DEF Publish
  <1> HIDE DEF r
  <1>7. /\ Append(r, msg) \in Seq(S) /\ Len(Append(r, msg)) = Len(q) + 1
        /\ Append(r, msg)[Len(q) + 1] = msg
        /\ \A i \in 1 .. Len(q) : Append(r, msg)[i] = r[i]
    <2>1. msg \in S
      OBVIOUS
    <2> HIDE DEF msg
    <2> QED
      BY <1>1, <1>3, <1>4, <2>1
  <1> QED
    BY <1>1, <1>5, <1>6, <1>7

LEMMA UnreadPublish ==
  ASSUME NEW S, NEW q \in Seq(S), NEW kind, NEW arg, NEW k
  PROVE  Unread(Publish(q, kind, arg), k) <=> k = kind \/ Unread(q, k)
  <1> DEFINE msg == [kind |-> kind, arg |-> arg]
             p == Publish(q, kind, arg)
  <1>1. q \in Seq(S \cup {msg}) /\ msg \in S \cup {msg}
    <2> HIDE DEF msg
    <2> QED
      BY SeqMonotonic
  <1>2. /\ p \in Seq(S \cup {msg}) /\ Len(q) \in Nat /\ Len(p) = Len(q) + 1 /\ p[Len(q) + 1] = msg
        /\ \A i \in 1 .. Len(q) : p[i] = IF q[i].kind = kind THEN msg ELSE q[i]
    BY <1>1, Published
  <1>3. msg.kind = kind
    OBVIOUS
  <1>4. DOMAIN p = 1 .. Len(q) + 1 /\ DOMAIN q = 1 .. Len(q)
    <2> HIDE DEF p, msg
    <2> QED
      BY <1>1, <1>2
  <1> HIDE DEF p, msg
  <1>5. \A i \in 1 .. Len(q) : p[i].kind = q[i].kind
    BY <1>2, <1>3
  <1>6. p[Len(q) + 1].kind = kind /\ Len(q) + 1 \in 1 .. Len(q) + 1
    BY <1>2, <1>3
  <1>7. \A i \in 1 .. Len(q) + 1 : i \in 1 .. Len(q) \/ i = Len(q) + 1
    BY <1>2
  <1>8. \A i \in 1 .. Len(q) : i \in 1 .. Len(q) + 1
    BY <1>2
  <1>9. Unread(p, k) <=> k = kind \/ Unread(q, k)
    BY <1>4, <1>5, <1>6, <1>7, <1>8 DEF Unread, NoneUnread
  <1> QED
    BY <1>9 DEF p

LEMMA UnreadTail ==
  ASSUME NEW S, NEW q \in Seq(S), q # <<>>, NEW k
  PROVE  Unread(q, k) <=> Head(q).kind = k \/ Unread(Tail(q), k)
  <1>1. /\ Len(q) \in Nat \ {0} /\ DOMAIN q = 1 .. Len(q) /\ q[1] = Head(q)
        /\ DOMAIN Tail(q) = 1 .. Len(q) - 1 /\ \A i \in 1 .. Len(q) - 1 : Tail(q)[i] = q[i + 1]
    OBVIOUS
  <1>2. 1 \in 1 .. Len(q) /\ \A i \in 1 .. Len(q) - 1 : i + 1 \in 1 .. Len(q)
    BY <1>1
  <1>3. \A i \in 1 .. Len(q) : i = 1 \/ (i - 1 \in 1 .. Len(q) - 1 /\ (i - 1) + 1 = i)
    BY <1>1
  <1>4. ASSUME Unread(q, k) PROVE Head(q).kind = k \/ Unread(Tail(q), k)
    <2>1. PICK i \in 1 .. Len(q) : q[i].kind = k
      BY <1>1, <1>4 DEF Unread, NoneUnread
    <2>2. CASE i = 1
      BY <1>1, <2>1, <2>2
    <2>3. CASE i # 1
      <3>1. i - 1 \in DOMAIN Tail(q) /\ Tail(q)[i - 1] = q[i]
        BY <1>1, <1>3, <2>3
      <3> QED
        BY <2>1, <3>1 DEF Unread, NoneUnread
    <2> QED
      BY <2>2, <2>3
  <1>5. ASSUME Head(q).kind = k PROVE Unread(q, k)
    BY <1>1, <1>2, <1>5 DEF Unread, NoneUnread
  <1>6. ASSUME Unread(Tail(q), k) PROVE Unread(q, k)
    BY <1>1, <1>2, <1>6 DEF Unread, NoneUnread
  <1> QED
    BY <1>4, <1>5, <1>6

-----------------------------------------------------------------------------
\* What the two pipes hold; a capture of the timer's sets it again.
BlMsg == [kind : Told \cup {"IN_EVENT", "SCREEN_BR"}, arg : {0}]
         \cup [kind : {"UPOWER"}, arg : AcStates]
         \cup [kind : {"DAYTIME"}, arg : {"DAY", "NIGHT", "UNKNOWN"}]
         \cup [kind : {"BL_TO_REQ"}, arg : [ac : AcStates, slot : Slots, on : BOOLEAN]]
         \cup [kind : {"NO_AUTOCALIB_REQ"}, arg : BOOLEAN]
         \cup [kind : {"CAPTURE_REQ"}, arg : [reset : BOOLEAN, only : BOOLEAN]]
         \cup [kind : {"TIMER"}, arg : [reset : {TRUE}, only : BOOLEAN]]
ScrMsg == [kind : Told \cup {"SENSOR", "AMBIENT_BR"}, arg : {0}]
          \cup [kind : {"UPOWER"}, arg : AcStates]
          \cup [kind : {"AUTOCALIB", "CONTRIB_REQ"}, arg : BOOLEAN]
          \cup [kind : {"SCR_TO_REQ"}, arg : [ac : AcStates, on : BOOLEAN]]

\* The conjuncts of TypeOK, by whose variables they are about.
StateType == /\ ac_state \in AcStates /\ day_time \in {"DAY", "NIGHT", "UNKNOWN"}
             /\ in_event \in BOOLEAN /\ flags \in [Told -> BOOLEAN]
SensType == sens_avail \in BOOLEAN
BlConfType == no_auto_calib \in BOOLEAN /\ bl_on \in [AcStates -> [Slots -> BOOLEAN]]
ScrConfType == contrib \in BOOLEAN /\ scr_on \in [AcStates -> BOOLEAN]
BlType == /\ ok \subseteq Awaited /\ bl_paused \subseteq BlReasons
          /\ ~Started => bl_paused = {} /\ ~bl_armed
          /\ bl_armed \in BOOLEAN /\ clogged \in BOOLEAN /\ calibrated \in BOOLEAN
          /\ slip \subseteq {"DISPLAY", "SUSPEND", "INHIBIT", "TIMEOUT", "CAPTURE"}
ScrType == /\ scr \in {"absent", "waiting", "running"} /\ scr_paused \subseteq ScrReasons
           /\ scr = "running" \/ (scr_paused = {} /\ ~scr_armed)
           /\ scr_armed \in BOOLEAN /\ screen_br \in BOOLEAN
PipesType == blQ \in Seq(BlMsg) /\ scrQ \in Seq(ScrMsg)

(***************************************************************************)
(* Of the time at most one message is unread, with no written timeout      *)
(* before it.  BACKLIGHT hears of it, and starts, only when the time is    *)
(* known; and once it has heard, all it reads of it is known times.        *)
(***************************************************************************)
TimeKinds == {"DAYTIME", "IN_EVENT"}
InOrder(q) ==
  \A i, j \in 1 .. Len(q) :
    i < j /\ q[j].kind \in TimeKinds => q[i].kind \notin TimeKinds \cup {"BL_TO_REQ"}
ToldTime(q) == \A i \in 1 .. Len(q) : q[i].kind = "DAYTIME" => q[i].arg # "UNKNOWN"
TimeKnown == /\ Unread(blQ, "DAYTIME") \/ "DAYTIME" \in ok => day_time # "UNKNOWN"
             /\ "DAYTIME" \in ok => ToldTime(blQ)
             /\ InOrder(blQ)

Types == /\ StateType /\ SensType /\ BlConfType /\ ScrConfType /\ BlType /\ ScrType
         /\ PipesType /\ TimeKnown

LEMMA TypesImplyTypeOK == Types => TypeOK
  <1> SUFFICES ASSUME Types PROVE TypeOK
    OBVIOUS
  <1> USE DEF Types
  <1>1. Started => day_time # "UNKNOWN"
    BY DEF Started, Awaited, TimeKnown
  <1>2. \A m \in BlMsg : m.kind \in BlKinds
    BY DEF BlMsg, BlKinds
  <1>3. \A m \in ScrMsg : m.kind \in ScrKinds
    BY DEF ScrMsg, ScrKinds
  <1>4. /\ \A i \in DOMAIN blQ : blQ[i] \in BlMsg
        /\ \A i \in DOMAIN scrQ : scrQ[i] \in ScrMsg
    BY DEF PipesType
  <1>5. {in_event, sens_avail, no_auto_calib, contrib} \subseteq BOOLEAN
    BY DEF StateType, SensType, BlConfType, ScrConfType
  <1>6. {bl_armed, clogged, calibrated, scr_armed, screen_br} \subseteq BOOLEAN
    BY DEF BlType, ScrType
  <1>7. IF Started THEN day_time # "UNKNOWN" ELSE bl_paused = {} /\ ~bl_armed
    BY <1>1 DEF BlType
  <1> QED
    BY <1>2, <1>3, <1>4, <1>5, <1>6, <1>7
       DEF TypeOK, StateType, BlConfType, ScrConfType, BlType, ScrType

-----------------------------------------------------------------------------
\* The messages of the two pipes, written and read.
LEMMA BlMessages ==
  /\ \A kind \in Told \cup {"IN_EVENT", "SCREEN_BR"} : [kind |-> kind, arg |-> 0] \in BlMsg
  /\ \A s \in AcStates : [kind |-> "UPOWER", arg |-> s] \in BlMsg
  /\ \A t \in {"DAY", "NIGHT", "UNKNOWN"} : [kind |-> "DAYTIME", arg |-> t] \in BlMsg
  /\ \A s \in AcStates, t \in Slots, on \in BOOLEAN :
       [kind |-> "BL_TO_REQ", arg |-> [ac |-> s, slot |-> t, on |-> on]] \in BlMsg
  /\ \A off \in BOOLEAN : [kind |-> "NO_AUTOCALIB_REQ", arg |-> off] \in BlMsg
  /\ \A reset, only \in BOOLEAN :
       [kind |-> "CAPTURE_REQ", arg |-> [reset |-> reset, only |-> only]] \in BlMsg
  /\ \A only \in BOOLEAN : [kind |-> "TIMER", arg |-> [reset |-> TRUE, only |-> only]] \in BlMsg
  BY DEF BlMsg

LEMMA ScrMessages ==
  /\ \A kind \in Told \cup {"SENSOR", "AMBIENT_BR"} : [kind |-> kind, arg |-> 0] \in ScrMsg
  /\ \A s \in AcStates : [kind |-> "UPOWER", arg |-> s] \in ScrMsg
  /\ \A kind \in {"AUTOCALIB", "CONTRIB_REQ"}, on \in BOOLEAN : [kind |-> kind, arg |-> on] \in ScrMsg
  /\ \A s \in AcStates, on \in BOOLEAN :
       [kind |-> "SCR_TO_REQ", arg |-> [ac |-> s, on |-> on]] \in ScrMsg
  BY DEF ScrMsg

LEMMA BlMessageRead ==
  ASSUME NEW m \in BlMsg
  PROVE  /\ m.kind \in BlKinds
         /\ m.kind = "DAYTIME" => m.arg \in {"DAY", "NIGHT", "UNKNOWN"}
         /\ m.kind = "BL_TO_REQ" => m.arg.ac \in AcStates /\ m.arg.slot \in Slots /\ m.arg.on \in BOOLEAN
         /\ m.kind = "NO_AUTOCALIB_REQ" => m.arg \in BOOLEAN
         /\ m.kind \in {"CAPTURE_REQ", "TIMER"} => m.arg.reset \in BOOLEAN /\ m.arg.only \in BOOLEAN
         /\ m.kind = "TIMER" => m.arg.reset
  BY DEF BlMsg, BlKinds, Told

LEMMA ScrMessageRead ==
  ASSUME NEW m \in ScrMsg
  PROVE  /\ m.kind \in ScrKinds
         /\ m.kind = "UPOWER" => m.arg \in AcStates
         /\ m.kind \in {"AUTOCALIB", "CONTRIB_REQ"} => m.arg \in BOOLEAN
         /\ m.kind = "SCR_TO_REQ" => m.arg.ac \in AcStates /\ m.arg.on \in BOOLEAN
  BY DEF ScrMsg, ScrKinds, Told

LEMMA BlPublish ==
  ASSUME NEW q \in Seq(BlMsg), NEW kind, NEW arg, [kind |-> kind, arg |-> arg] \in BlMsg
  PROVE  Publish(q, kind, arg) \in Seq(BlMsg)
  BY Published

LEMMA ScrPublish ==
  ASSUME NEW q \in Seq(ScrMsg), NEW kind, NEW arg, [kind |-> kind, arg |-> arg] \in ScrMsg
  PROVE  Publish(q, kind, arg) \in Seq(ScrMsg)
  BY Published

\* TellScreen, and what SCREEN's pipe holds after it.
LEMMA ScreenTold ==
  ASSUME scrQ \in Seq(ScrMsg), NEW kind, NEW arg, [kind |-> kind, arg |-> arg] \in ScrMsg,
         TellScreen(kind, arg)
  PROVE  scrQ' \in Seq(ScrMsg)
  BY ScrPublish DEF TellScreen

\* A timeout is read once the time is known.
LEMMA CurrentType ==
  ASSUME StateType, day_time # "UNKNOWN", NEW conf \in [AcStates -> [Slots -> BOOLEAN]]
  PROVE  Current(conf) \in BOOLEAN
  BY DEF StateType, Current, Slot, Slots

LEMMA StartedTime == Types /\ Started => day_time # "UNKNOWN"
  BY DEF Types, TimeKnown, Started, Awaited

LEMMA ReasonsType ==
  ASSUME NEW all, NEW held, held \subseteq all, NEW pause, NEW why \in all
  PROVE  Reasons(held, pause, why) \subseteq all
  BY DEF Reasons

\* A reason is held afterwards if it is asked for, and the others are as they were.
LEMMA ReasonsExact ==
  ASSUME NEW held, NEW pause \in BOOLEAN, NEW why
  PROVE  /\ why \in Reasons(held, pause, why) <=> pause
         /\ \A other : other # why => (other \in Reasons(held, pause, why) <=> other \in held)
  BY DEF Reasons

\* The messages of the time under a publication and a read.
LEMMA TimePublish ==
  ASSUME NEW q \in Seq(BlMsg), NEW kind, NEW arg, [kind |-> kind, arg |-> arg] \in BlMsg
  PROVE  LET p == Publish(q, kind, arg)
         IN  /\ ToldTime(q) /\ (kind # "DAYTIME" \/ arg # "UNKNOWN") => ToldTime(p)
             /\ /\ InOrder(q)
                /\ kind \in TimeKinds => \A k \in TimeKinds \cup {"BL_TO_REQ"} : ~Unread(q, k)
                => InOrder(p)
  <1> DEFINE msg == [kind |-> kind, arg |-> arg]
             p == Publish(q, kind, arg)
  <1>1. /\ p \in Seq(BlMsg) /\ Len(q) \in Nat /\ Len(p) = Len(q) + 1 /\ p[Len(q) + 1] = msg
        /\ \A i \in 1 .. Len(q) : p[i] = IF q[i].kind = kind THEN msg ELSE q[i]
    BY Published
  <1>2. msg.kind = kind /\ msg.arg = arg
    OBVIOUS
  <1>3. \A i \in 1 .. Len(p) : i \in 1 .. Len(q) \/ i = Len(q) + 1
    BY <1>1
  <1>4. DOMAIN q = 1 .. Len(q)
    OBVIOUS
  <1> HIDE DEF msg, p
  <1>5. ToldTime(q) /\ (kind # "DAYTIME" \/ arg # "UNKNOWN") => ToldTime(p)
    BY <1>1, <1>2, <1>3 DEF ToldTime
  <1>6. ASSUME InOrder(q), kind \in TimeKinds => \A k \in TimeKinds \cup {"BL_TO_REQ"} : ~Unread(q, k)
        PROVE  InOrder(p)
    <2> SUFFICES ASSUME NEW i \in 1 .. Len(p), NEW j \in 1 .. Len(p), i < j, p[j].kind \in TimeKinds
                 PROVE  p[i].kind \notin TimeKinds \cup {"BL_TO_REQ"}
      BY DEF InOrder
    <2>1. i \in 1 .. Len(q) /\ p[i].kind = q[i].kind
      BY <1>1, <1>2, <1>3
    <2>2. CASE j \in 1 .. Len(q)
      <3>1. p[j].kind = q[j].kind
        BY <1>1, <1>2, <2>2
      <3> QED
        BY <1>6, <2>1, <2>2, <3>1 DEF InOrder
    <2>3. CASE j = Len(q) + 1
      <3>1. kind \in TimeKinds
        BY <1>1, <1>2, <2>3
      <3> QED
        BY <1>4, <1>6, <2>1, <3>1 DEF Unread, NoneUnread
    <2> QED
      BY <1>3, <2>2, <2>3
  <1> QED
    BY <1>5, <1>6 DEF p

LEMMA TimeTail ==
  ASSUME NEW q \in Seq(BlMsg), q # <<>>
  PROVE  /\ ToldTime(q) => ToldTime(Tail(q)) /\ (Head(q).kind = "DAYTIME" => Head(q).arg # "UNKNOWN")
         /\ InOrder(q) => InOrder(Tail(q))
         /\ /\ InOrder(q) /\ Head(q).kind \in TimeKinds \cup {"BL_TO_REQ"}
            => \A k \in TimeKinds : ~Unread(Tail(q), k)
  <1> DEFINE t == Tail(q)
  <1>1. /\ Len(q) \in Nat \ {0} /\ q[1] = Head(q) /\ Len(t) = Len(q) - 1
        /\ DOMAIN t = 1 .. Len(q) - 1 /\ \A i \in 1 .. Len(q) - 1 : t[i] = q[i + 1]
    OBVIOUS
  <1>2. /\ 1 \in 1 .. Len(q)
        /\ \A i \in 1 .. Len(t) : i + 1 \in 1 .. Len(q) /\ 1 < i + 1
        /\ \A i, j \in 1 .. Len(t) : i < j => i + 1 < j + 1
    BY <1>1
  <1> HIDE DEF t
  <1>3. ToldTime(q) => ToldTime(t) /\ (Head(q).kind = "DAYTIME" => Head(q).arg # "UNKNOWN")
    BY <1>1, <1>2 DEF ToldTime
  <1>4. InOrder(q) => InOrder(t)
    BY <1>1, <1>2 DEF InOrder
  <1>5. ASSUME InOrder(q), Head(q).kind \in TimeKinds \cup {"BL_TO_REQ"}, NEW k \in TimeKinds
        PROVE  ~Unread(t, k)
    <2> SUFFICES ASSUME NEW i \in 1 .. Len(t), t[i].kind = k PROVE FALSE
      BY <1>1 DEF Unread, NoneUnread
    <2>1. q[i + 1].kind \in TimeKinds
      BY <1>1, <1>2, <1>5
    <2> QED
      BY <1>1, <1>2, <1>5, <2>1 DEF InOrder
  <1> QED
    BY <1>3, <1>4, <1>5 DEF t

LEMMA TimeNone ==
  ASSUME NEW q \in Seq(BlMsg), ~Unread(q, "DAYTIME")
  PROVE  ToldTime(q)
  <1>1. DOMAIN q = 1 .. Len(q)
    OBVIOUS
  <1> QED
    BY <1>1 DEF ToldTime, Unread, NoneUnread

\* TimeKnown when something else than the time is told.
LEMMA TimeKnownKept ==
  ASSUME PipesType, TimeKnown, UNCHANGED <<day_time, ok>>, NEW kind, NEW arg,
         kind \notin TimeKinds, [kind |-> kind, arg |-> arg] \in BlMsg,
         blQ' = Publish(blQ, kind, arg)
  PROVE  TimeKnown'
  <1>1. Unread(blQ', "DAYTIME") <=> Unread(blQ, "DAYTIME")
    BY UnreadPublish DEF PipesType, TimeKinds
  <1>2. InOrder(blQ') /\ (ToldTime(blQ) => ToldTime(blQ'))
    BY TimePublish DEF PipesType, TimeKinds, TimeKnown
  <1>3. (Unread(blQ, "DAYTIME"))' <=> Unread(blQ', "DAYTIME")
    BY DEF Unread, NoneUnread
  <1>4. (ToldTime(blQ))' <=> ToldTime(blQ')
    BY DEF ToldTime
  <1>5. (InOrder(blQ))' <=> InOrder(blQ')
    BY DEF InOrder
  <1> QED
    BY <1>1, <1>2, <1>3, <1>4, <1>5 DEF TimeKnown

LEMMA TimeKnownSame ==
  ASSUME TimeKnown, UNCHANGED <<day_time, ok, blQ>>
  PROVE  TimeKnown'
  BY DEF TimeKnown, Unread, NoneUnread, ToldTime, InOrder

-----------------------------------------------------------------------------
\* The types under what happens elsewhere.
LEMMA TypesFlag ==
  ASSUME Types, NEW why \in Told, FlagChanges(why)
  PROVE  Types'
  <1> USE DEF Types
  <1>1. /\ blQ' = Publish(blQ, why, 0) /\ TellScreen(why, 0)
        /\ flags' = [flags EXCEPT ![why] = ~@]
        /\ UNCHANGED <<ac_state, day_time, in_event, sens_avail, blConf, scrConf, blVars, scrVars>>
    BY DEF FlagChanges, Tell
  <1>2. StateType' /\ SensType' /\ BlConfType' /\ ScrConfType'
    BY <1>1 DEF StateType, SensType, BlConfType, ScrConfType, blConf, scrConf
  <1>3. BlType' /\ ScrType'
    BY <1>1 DEF BlType, ScrType, blVars, scrVars, Started
  <1>4. PipesType'
    BY <1>1, BlPublish, ScreenTold, BlMessages, ScrMessages DEF PipesType
  <1>5. TimeKnown'
    BY <1>1, TimeKnownKept, BlMessages DEF blVars, Told, TimeKinds
  <1> QED
    BY <1>2, <1>3, <1>4, <1>5

LEMMA TypesUPower ==
  ASSUME Types, UPowerChanges
  PROVE  Types'
  <1> USE DEF Types
  <1>1. /\ blQ' = Publish(blQ, "UPOWER", ac_state) /\ TellScreen("UPOWER", ac_state)
        /\ UNCHANGED <<day_time, in_event, flags, sens_avail, blConf, scrConf, blVars, scrVars>>
    BY DEF UPowerChanges
  <1>2. ac_state' \in AcStates
    <2>1. \E s \in AcStates : s # ac_state
      BY DEF AcStates
    <2> QED
      BY <2>1 DEF UPowerChanges
  <1>3. StateType' /\ SensType' /\ BlConfType' /\ ScrConfType'
    BY <1>1, <1>2 DEF StateType, SensType, BlConfType, ScrConfType, blConf, scrConf
  <1>4. BlType' /\ ScrType'
    BY <1>1 DEF BlType, ScrType, blVars, scrVars, Started
  <1>5. PipesType'
    BY <1>1, BlPublish, ScreenTold, BlMessages, ScrMessages DEF PipesType, StateType
  <1>6. TimeKnown'
    BY <1>1, TimeKnownKept, BlMessages DEF blVars, TimeKinds, StateType
  <1> QED
    BY <1>3, <1>4, <1>5, <1>6

LEMMA TypesTime ==
  ASSUME Types, TimeChanges
  PROVE  Types'
  <1> USE DEF Types
  <1>1. UNCHANGED <<ac_state, flags, sens_avail, blConf, scrConf, blVars, scrVars, scrQ>>
    BY DEF TimeChanges
  <1>2. /\ day_time' \in {"DAY", "NIGHT"} /\ in_event' \in BOOLEAN
        /\ blQ' = Publish(blQ, "DAYTIME", day_time) \/ blQ' = Publish(blQ, "IN_EVENT", 0)
    BY DEF TimeChanges, Tell, StateType
  <1>3. StateType' /\ SensType' /\ BlConfType' /\ ScrConfType'
    BY <1>1, <1>2 DEF StateType, SensType, BlConfType, ScrConfType, blConf, scrConf
  <1>4. BlType' /\ ScrType'
    BY <1>1 DEF BlType, ScrType, blVars, scrVars, Started
  <1>5. PipesType'
    BY <1>1, <1>2, BlPublish, BlMessages DEF PipesType, StateType
  <1>6. PICK kind \in TimeKinds, arg \in {day_time, 0} :
          /\ blQ' = Publish(blQ, kind, arg) /\ [kind |-> kind, arg |-> arg] \in BlMsg
          /\ kind = "DAYTIME" => arg = day_time
    BY <1>2, BlMessages DEF StateType, TimeKinds
  <1>7. \A k \in TimeKinds \cup {"BL_TO_REQ"} : ~Unread(blQ, k)
    BY DEF TimeChanges, Unread, TimeKinds
  <1>8. InOrder(blQ')
    BY <1>6, <1>7, TimePublish DEF PipesType, TimeKnown
  <1>9. "DAYTIME" \in ok => ToldTime(blQ')
    <2> SUFFICES ASSUME "DAYTIME" \in ok PROVE ToldTime(blQ')
      OBVIOUS
    <2>1. day_time # "UNKNOWN" /\ ToldTime(blQ)
      BY DEF TimeKnown
    <2> QED
      BY <1>6, <2>1, TimePublish DEF PipesType
  <1>10. TimeKnown'
    BY <1>1, <1>2, <1>8, <1>9 DEF TimeKnown, ToldTime, InOrder, blVars
  <1> QED
    BY <1>3, <1>4, <1>5, <1>10

\* What a user asks for, and what it leaves alone.
LEMMA UserAsksWhat ==
  ASSUME Types, UserAsks
  PROVE  /\ \/ /\ UNCHANGED scrQ
               /\ \E kind \in {"BL_TO_REQ", "NO_AUTOCALIB_REQ", "CAPTURE_REQ"} : \E arg :
                    [kind |-> kind, arg |-> arg] \in BlMsg /\ blQ' = Publish(blQ, kind, arg)
            \/ /\ UNCHANGED blQ
               /\ \E kind \in {"SCR_TO_REQ", "CONTRIB_REQ"} : \E arg :
                    [kind |-> kind, arg |-> arg] \in ScrMsg /\ TellScreen(kind, arg)
         /\ UNCHANGED <<stateVars, sens_avail, blConf, scrConf, blVars, scrVars>>
  <1>1. UNCHANGED <<stateVars, sens_avail, blConf, scrConf, blVars, scrVars>>
    BY DEF UserAsks
  <1>2. CASE \E p \in Writable, on \in BOOLEAN :
               blQ' = Publish(blQ, "BL_TO_REQ", [ac |-> p[1], slot |-> p[2], on |-> on]) /\ UNCHANGED scrQ
    <2>1. PICK p \in Writable, on \in BOOLEAN :
               blQ' = Publish(blQ, "BL_TO_REQ", [ac |-> p[1], slot |-> p[2], on |-> on]) /\ UNCHANGED scrQ
      BY <1>2
    <2>2. p[1] \in AcStates /\ p[2] \in Slots
      BY BacklightAssumption
    <2>3. [kind |-> "BL_TO_REQ", arg |-> [ac |-> p[1], slot |-> p[2], on |-> on]] \in BlMsg
      BY <2>2, BlMessages
    <2> QED
      BY <1>1, <2>1, <2>3
  <1>3. CASE \E off \in BOOLEAN : blQ' = Publish(blQ, "NO_AUTOCALIB_REQ", off) /\ UNCHANGED scrQ
    BY <1>1, <1>3, BlMessages
  <1>4. CASE \E reset, only \in BOOLEAN :
               blQ' = Publish(blQ, "CAPTURE_REQ", [reset |-> reset, only |-> only]) /\ UNCHANGED scrQ
    BY <1>1, <1>4, BlMessages
  <1>5. CASE \E s \in AcStates, on \in BOOLEAN :
               TellScreen("SCR_TO_REQ", [ac |-> s, on |-> on]) /\ UNCHANGED blQ
    BY <1>1, <1>5, ScrMessages
  <1>6. CASE \E on \in BOOLEAN : TellScreen("CONTRIB_REQ", on) /\ UNCHANGED blQ
    BY <1>1, <1>6, ScrMessages
  <1> QED
    BY <1>2, <1>3, <1>4, <1>5, <1>6 DEF UserAsks

LEMMA TypesUser ==
  ASSUME Types, UserAsks
  PROVE  Types'
  <1> USE DEF Types
  <1>1. UNCHANGED <<stateVars, sens_avail, blConf, scrConf, blVars, scrVars>>
    BY UserAsksWhat
  <1>2. StateType' /\ SensType' /\ BlConfType' /\ ScrConfType'
    BY <1>1 DEF StateType, SensType, BlConfType, ScrConfType, stateVars, blConf, scrConf
  <1>3. BlType' /\ ScrType'
    BY <1>1 DEF BlType, ScrType, blVars, scrVars, Started
  <1>4. PipesType' /\ TimeKnown'
    <2>1. CASE UNCHANGED scrQ /\ \E kind \in {"BL_TO_REQ", "NO_AUTOCALIB_REQ", "CAPTURE_REQ"} : \E arg :
                    [kind |-> kind, arg |-> arg] \in BlMsg /\ blQ' = Publish(blQ, kind, arg)
      BY <1>1, <2>1, BlPublish, TimeKnownKept DEF PipesType, TimeKinds, stateVars, blVars
    <2>2. CASE UNCHANGED blQ /\ \E kind \in {"SCR_TO_REQ", "CONTRIB_REQ"} : \E arg :
                    [kind |-> kind, arg |-> arg] \in ScrMsg /\ TellScreen(kind, arg)
      BY <1>1, <2>2, ScreenTold, TimeKnownSame DEF PipesType, stateVars, blVars
    <2> QED
      BY <2>1, <2>2, UserAsksWhat
  <1> QED
    BY <1>2, <1>3, <1>4

LEMMA TypesSensor ==
  ASSUME Types, OnSensorChange
  PROVE  Types'
  <1> USE DEF Types
  <1>1. /\ Started /\ sens_avail' = ~sens_avail /\ Pause("SENSOR", sens_avail) /\ TellScreen("SENSOR", 0)
        /\ UNCHANGED <<stateVars, blConf, scrConf, ok, bl_armed, clogged, calibrated, slip, scrVars, blQ>>
    BY DEF OnSensorChange
  <1>2. StateType' /\ SensType' /\ BlConfType' /\ ScrConfType' /\ ScrType'
    BY <1>1 DEF StateType, SensType, BlConfType, ScrConfType, ScrType, stateVars, blConf, scrConf, scrVars
  <1>3. bl_paused' \subseteq BlReasons
    BY <1>1, ReasonsType DEF Pause, BlType, BlReasons
  <1>4. BlType'
    BY <1>1, <1>3 DEF BlType, Started
  <1>5. PipesType' /\ TimeKnown'
    <2>1. PipesType'
      BY <1>1, ScreenTold, ScrMessages DEF PipesType
    <2> QED
      BY <1>1, <2>1, TimeKnownSame DEF stateVars
  <1> QED
    BY <1>2, <1>4, <1>5

LEMMA TypesTimer ==
  ASSUME Types, TimerExpires
  PROVE  Types'
  <1> USE DEF Types
  <1>1. /\ Started /\ bl_armed' = FALSE /\ blQ' = Publish(blQ, "TIMER", [reset |-> TRUE, only |-> screen_br])
        /\ UNCHANGED <<stateVars, sens_avail, blConf, scrConf, ok, bl_paused, clogged, calibrated, slip, scrVars, scrQ>>
    BY DEF TimerExpires
  <1>2. /\ StateType' /\ SensType' /\ BlConfType' /\ ScrConfType' /\ ScrType'
    BY <1>1 DEF StateType, SensType, BlConfType, ScrConfType, ScrType, stateVars, blConf, scrConf, scrVars
  <1>3. BlType'
    BY <1>1 DEF BlType, Started
  <1>4. [kind |-> "TIMER", arg |-> [reset |-> TRUE, only |-> screen_br]] \in BlMsg
    BY BlMessages DEF ScrType
  <1>5. PipesType'
    BY <1>1, <1>4, BlPublish DEF PipesType
  <1>6. TimeKnown'
    <2>1. UNCHANGED <<day_time, ok>> /\ "TIMER" \notin TimeKinds
      BY <1>1 DEF stateVars, TimeKinds
    <2> QED
      BY <1>1, <1>4, <2>1, TimeKnownKept
  <1> QED
    BY <1>2, <1>3, <1>5, <1>6

-----------------------------------------------------------------------------
\* The types while BACKLIGHT reads its pipe.
LEMMA ReadBl ==
  ASSUME Types, blQ # <<>>
  PROVE  /\ Head(blQ) \in BlMsg /\ Tail(blQ) \in Seq(BlMsg)
         /\ \A kind : Unread(blQ, kind) <=> Head(blQ).kind = kind \/ Unread(Tail(blQ), kind)
  <1>1. blQ \in Seq(BlMsg)
    BY DEF Types, PipesType
  <1> QED
    BY <1>1, TailType, UnreadTail

\* Whatever BACKLIGHT reads, this is what SCREEN may hear.
ScrHears == \/ scrQ' = scrQ
            \/ TellScreen("SENSOR", 0) \/ TellScreen("AMBIENT_BR", 0)
            \/ \E off \in BOOLEAN : TellScreen("AUTOCALIB", off)

LEMMA ReceiveFrame ==
  ASSUME Types, ReceiveBacklight
  PROVE  /\ blQ # <<>> /\ blQ' = Tail(blQ) /\ ScrHears
         /\ UNCHANGED <<stateVars, sens_avail, scrConf, scrVars>>
  <1> DEFINE m == Head(blQ)
  <1>1. m \in BlMsg /\ UNCHANGED <<stateVars, sens_avail, scrConf, scrVars>> /\ blQ # <<>>
    BY ReadBl DEF ReceiveBacklight
  <1>2. CASE Hear(m)
    BY <1>1, <1>2 DEF Hear, ScrHears
  <1>3. CASE ReceiveChange(m)
    <2>1. m.kind = "NO_AUTOCALIB_REQ" => m.arg \in BOOLEAN
      BY <1>1, BlMessageRead
    <2> HIDE DEF m
    <2> QED
      BY <1>1, <1>3, <2>1 DEF ReceiveChange, ScrHears
  <1>4. CASE Capture(m)
    BY <1>1, <1>4 DEF Capture, DoCapture, ScrHears
  <1>5. CASE DropCapture(m)
    BY <1>1, <1>5 DEF DropCapture, ScrHears
  <1>6. CASE SetNewBacklight(m)
    BY <1>1, <1>6 DEF SetNewBacklight, ScrHears
  <1> QED
    BY <1>2, <1>3, <1>4, <1>5, <1>6 DEF ReceiveBacklight

SlipReasons == {"DISPLAY", "SUSPEND", "INHIBIT", "TIMEOUT", "CAPTURE"}

LEMMA SetTimerType ==
  ASSUME NEW armed \in BOOLEAN, NEW missed, missed \subseteq SlipReasons, SetTimer(armed, missed)
  PROVE  bl_armed' \in BOOLEAN /\ slip' \subseteq SlipReasons
  BY DEF SetTimer

LEMMA ResetOrPauseType ==
  ASSUME bl_paused \subseteq BlReasons, bl_armed \in BOOLEAN, slip \subseteq SlipReasons,
         NEW conf, Current(conf) \in BOOLEAN, NEW old \in BOOLEAN, ResetOrPause(conf, old)
  PROVE  bl_paused' \subseteq BlReasons /\ bl_armed' \in BOOLEAN /\ slip' \subseteq SlipReasons
  <1>1. bl_paused' \subseteq BlReasons
    BY ReasonsType DEF ResetOrPause, BlReasons
  <1>2. ResetTimer(bl_armed, old, TRUE) \in BOOLEAN
    BY DEF ResetTimer
  <1>3. /\ (IF Current(conf) THEN ResetTimer(bl_armed, old, TRUE) ELSE bl_armed) \in BOOLEAN
        /\ slip \ {"TIMEOUT"} \subseteq SlipReasons
    BY <1>2
  <1> QED
    BY <1>1, <1>3, SetTimerType DEF ResetOrPause

\* What BACKLIGHT's variables are after a message, once it has started.
BlTypeNext == /\ bl_paused' \subseteq BlReasons /\ bl_armed' \in BOOLEAN
              /\ slip' \subseteq SlipReasons /\ BlConfType'

\* The timeout that the time had before is one that may be read.
LEMMA TimeOldType ==
  ASSUME Types, Started, NEW m \in BlMsg, m.kind \in TimeKinds,
         m.kind = "DAYTIME" => m.arg # "UNKNOWN"
  PROVE  bl_on[ac_state][IF m.kind = "DAYTIME" THEN m.arg
                         ELSE IF in_event THEN day_time ELSE "IN_EVENT"] \in BOOLEAN
  BY StartedTime, BlMessageRead DEF Types, StateType, BlConfType, Slots, TimeKinds

LEMMA HearNext ==
  ASSUME Types, NEW m \in BlMsg, m.kind = "DAYTIME" => day_time # "UNKNOWN", Hear(m)
  PROVE  /\ BlTypeNext /\ ok' \subseteq Awaited /\ UNCHANGED <<clogged, calibrated>>
         /\ (~Started)' => bl_paused' = {} /\ ~bl_armed'
  <1> USE DEF Types
  <1>1. /\ ~Started /\ UNCHANGED <<no_auto_calib, bl_on, clogged, calibrated>>
        /\ ok' = ok \cup ({m.kind} \cap Awaited) \cup (IF m.kind = "SCREEN_BR" \/ scr = "absent" THEN {"SCREEN"} ELSE {})
    BY DEF Hear, blConf
  <1>2. ok' \subseteq Awaited
    BY <1>1 DEF BlType, Awaited
  <1>3. BlConfType' /\ bl_paused = {} /\ ~bl_armed /\ slip \subseteq SlipReasons
    BY <1>1 DEF BlConfType, BlType, SlipReasons
  <1>4. CASE ok' # Awaited
    BY <1>1, <1>2, <1>3, <1>4 DEF Hear, BlTypeNext, BlType
  <1>5. CASE ok' = Awaited
    <2>1. day_time # "UNKNOWN"
      <3>1. "DAYTIME" \in ok \/ m.kind = "DAYTIME"
        BY <1>1, <1>5 DEF Awaited
      <3> QED
        BY <3>1 DEF TimeKnown
    <2>2. Current(bl_on) \in BOOLEAN
      BY <2>1, CurrentType DEF BlConfType
    <2>3. bl_armed' \in BOOLEAN /\ bl_paused' \subseteq BlReasons /\ slip' \subseteq SlipReasons
      BY <1>5, <2>2 DEF Hear, SlipReasons
    <2>4. Started'
      BY <1>5 DEF Started, Awaited
    <2> QED
      BY <1>1, <1>2, <1>3, <2>3, <2>4 DEF BlTypeNext
  <1> QED
    BY <1>4, <1>5

LEMMA ChangeNext ==
  ASSUME Types, NEW m \in BlMsg, m.kind = "DAYTIME" => m.arg # "UNKNOWN", ReceiveChange(m)
  PROVE  BlTypeNext /\ UNCHANGED <<ok, clogged, calibrated>>
  <1> USE DEF Types
  <1>1. Started /\ UNCHANGED <<ok, clogged, calibrated>>
    BY DEF ReceiveChange
  <1>2. /\ bl_paused \subseteq BlReasons /\ bl_armed \in BOOLEAN /\ slip \subseteq SlipReasons
        /\ BlConfType /\ Current(bl_on) \in BOOLEAN
    BY <1>1, StartedTime, CurrentType DEF BlType, BlConfType, SlipReasons
  <1>3. CASE m.kind = "UPOWER" /\ UPowerCallback
    <2>1. UNCHANGED <<bl_paused, no_auto_calib, bl_on>>
      BY <1>3 DEF UPowerCallback, blConf
    <2>2. (IF Current(bl_on) <=> "TIMEOUT" \in bl_paused
             THEN slip \cup {"TIMEOUT"} ELSE slip \ {"TIMEOUT"}) \subseteq SlipReasons
      BY <1>2 DEF SlipReasons
    <2>3. bl_armed' \in BOOLEAN /\ slip' \subseteq SlipReasons
      BY <1>2, <1>3, <2>2, SetTimerType DEF UPowerCallback
    <2> QED
      BY <1>1, <1>2, <2>1, <2>3 DEF BlTypeNext, BlConfType
  <1>4. CASE m.kind \in {"DAYTIME", "IN_EVENT"} /\ TimeCallback(m)
    <2>1. UNCHANGED <<no_auto_calib, bl_on>>
      BY <1>4 DEF TimeCallback, blConf
    <2>2. bl_paused' \subseteq BlReasons /\ bl_armed' \in BOOLEAN /\ slip' \subseteq SlipReasons
      BY <1>1, <1>2, <1>4, ResetOrPauseType, TimeOldType DEF TimeCallback, TimeKinds
    <2> QED
      BY <1>1, <1>2, <2>1, <2>2 DEF BlTypeNext, BlConfType
  <1>5. CASE m.kind = "BL_TO_REQ" /\ TimeoutCallback(m)
    <2>1. m.arg.ac \in AcStates /\ m.arg.slot \in Slots /\ m.arg.on \in BOOLEAN
      BY <1>5, BlMessageRead
    <2>2. bl_on' = [bl_on EXCEPT ![m.arg.ac][m.arg.slot] = m.arg.on] /\ no_auto_calib' = no_auto_calib
      BY <1>5 DEF TimeoutCallback
    <2>3. bl_on' \in [AcStates -> [Slots -> BOOLEAN]]
      BY <1>2, <2>1, <2>2 DEF BlConfType
    <2>4. Current(bl_on') \in BOOLEAN
      BY <1>1, <2>3, StartedTime, CurrentType
    <2>5. ResetOrPause(bl_on', Current(bl_on)) \/ UNCHANGED <<bl_paused, bl_armed, slip>>
      BY <1>5 DEF TimeoutCallback
    <2>6. bl_paused' \subseteq BlReasons /\ bl_armed' \in BOOLEAN /\ slip' \subseteq SlipReasons
      BY <1>2, <2>4, <2>5, ResetOrPauseType
    <2> QED
      BY <1>1, <1>2, <2>2, <2>3, <2>6 DEF BlTypeNext, BlConfType
  <1>6. CASE m.kind = "NO_AUTOCALIB_REQ" /\ AutocalibCallback(m)
    <2>1. m.arg \in BOOLEAN
      BY <1>6, BlMessageRead
    <2>2. UNCHANGED <<bl_on, bl_armed, slip>> /\ no_auto_calib' \in {m.arg, no_auto_calib}
      BY <1>6 DEF AutocalibCallback
    <2>3. bl_paused' \subseteq BlReasons
      <3>1. bl_paused' = bl_paused \/ bl_paused' = Reasons(bl_paused, m.arg, "AUTOCALIB")
        BY <1>6 DEF AutocalibCallback, Pause
      <3>2. "AUTOCALIB" \in BlReasons
        BY DEF BlReasons
      <3> QED
        BY <1>2, <3>1, <3>2, ReasonsType
    <2> QED
      BY <1>1, <1>2, <2>1, <2>2, <2>3 DEF BlTypeNext, BlConfType
  <1>7. CASE m.kind \in Told \ {"LID"} /\ FlagCallback(m)
    <2>1. UNCHANGED <<no_auto_calib, bl_on, bl_armed>> /\ slip' \subseteq SlipReasons
      BY <1>2, <1>7 DEF FlagCallback, blConf
    <2>2. bl_paused' \subseteq BlReasons
      BY <1>2, <1>7, ReasonsType DEF FlagCallback, Pause, BlReasons
    <2> QED
      BY <1>1, <1>2, <2>1, <2>2 DEF BlTypeNext, BlConfType
  <1>8. CASE m.kind = "LID" /\ OnLidUpdate
    <2>1. UNCHANGED <<no_auto_calib, bl_on>>
      BY <1>8 DEF OnLidUpdate, blConf
    <2>2. bl_armed' \in BOOLEAN /\ slip' \subseteq SlipReasons
      BY <1>2, <1>8, SetTimerType DEF OnLidUpdate
    <2>3. bl_paused' \subseteq BlReasons
      <3>1. bl_paused' = bl_paused \/ bl_paused' = Reasons(bl_paused, flags["LID"], "LID")
        BY <1>8 DEF OnLidUpdate, Pause
      <3>2. "LID" \in BlReasons
        BY DEF BlReasons, Told
      <3> QED
        BY <1>2, <3>1, <3>2, ReasonsType
    <2> QED
      BY <1>1, <1>2, <2>1, <2>2, <2>3 DEF BlTypeNext, BlConfType
  <1> QED
    BY <1>3, <1>4, <1>5, <1>6, <1>7, <1>8 DEF ReceiveChange

\* A capture's timer, and the rest of it.
LEMMA CaptureNext ==
  ASSUME Types, NEW m \in BlMsg, Capture(m)
  PROVE  BlTypeNext /\ UNCHANGED ok /\ {clogged', calibrated'} \subseteq BOOLEAN
  <1> USE DEF Types
  <1>1. /\ Started /\ UNCHANGED <<no_auto_calib, bl_on, ok, bl_paused>>
        /\ m.kind \in {"CAPTURE_REQ", "TIMER"} /\ DoCapture(m)
    BY DEF Capture, blConf
  <1>2. m.arg.reset \in BOOLEAN /\ m.arg.only \in BOOLEAN
    BY <1>1, BlMessageRead
  <1>3. Current(bl_on) \in BOOLEAN
    BY <1>1, StartedTime, CurrentType DEF BlConfType
  <1>4. bl_armed' \in BOOLEAN /\ slip' \subseteq SlipReasons
    <2>1. bl_armed \in BOOLEAN /\ slip \subseteq SlipReasons
      BY DEF BlType, SlipReasons
    <2> QED
      BY <1>1, <1>3, <2>1, SetTimerType DEF DoCapture
  <1>5. \A c \in BOOLEAN : Calibrated(m, c) \in BOOLEAN
    BY <1>2 DEF Calibrated, BlType
  <1>6. {clogged', calibrated'} \subseteq BOOLEAN
    BY <1>1, <1>5 DEF DoCapture, BlType
  <1> QED
    BY <1>1, <1>4, <1>6 DEF BlTypeNext, BlConfType, BlType

LEMMA TypesReceiveBl ==
  ASSUME Types, ReceiveBacklight
  PROVE  Types'
  <1> USE DEF Types
  <1> DEFINE m == Head(blQ)
  <1>1. /\ blQ # <<>> /\ blQ' = Tail(blQ) /\ ScrHears
        /\ UNCHANGED <<stateVars, sens_avail, scrConf, scrVars>>
    BY ReceiveFrame
  <1>2. m \in BlMsg /\ Unread(blQ, m.kind)
    BY <1>1, ReadBl
  <1>3. m.kind = "DAYTIME" => day_time # "UNKNOWN" /\ ("DAYTIME" \in ok => m.arg # "UNKNOWN")
    <2>1. m.kind = "DAYTIME" => day_time # "UNKNOWN"
      BY <1>2 DEF TimeKnown
    <2>2. m.kind = "DAYTIME" /\ ToldTime(blQ) => m.arg # "UNKNOWN"
      BY <1>1, TimeTail DEF PipesType
    <2> QED
      BY <2>1, <2>2 DEF TimeKnown
  <1>4. /\ BlTypeNext /\ ok' \subseteq Awaited /\ {clogged', calibrated'} \subseteq BOOLEAN
        /\ (~Started)' => bl_paused' = {} /\ ~bl_armed'
        /\ ok' # ok => ~Started /\ ok' \subseteq ok \cup {m.kind, "SCREEN"}
    <2> HIDE DEF m
    <2>1. ok \subseteq Awaited /\ {clogged, calibrated} \subseteq BOOLEAN
      BY DEF BlType
    <2>2. CASE Hear(m)
      <3>1. /\ BlTypeNext /\ ok' \subseteq Awaited /\ UNCHANGED <<clogged, calibrated>>
            /\ (~Started)' => bl_paused' = {} /\ ~bl_armed'
        BY <1>2, <1>3, <2>2, HearNext
      <3>2. ~Started /\ ok' \subseteq ok \cup {m.kind, "SCREEN"}
        BY <2>2 DEF Hear
      <3>3. {clogged', calibrated'} \subseteq BOOLEAN
        BY <2>1, <3>1
      <3> QED
        BY <3>1, <3>2, <3>3
    <2>3. CASE ReceiveChange(m)
      <3>1. Started
        BY <2>3 DEF ReceiveChange
      <3>2. "DAYTIME" \in ok
        BY <3>1 DEF Started, Awaited
      <3>3. BlTypeNext /\ UNCHANGED <<ok, clogged, calibrated>>
        BY <1>2, <1>3, <2>3, <3>2, ChangeNext
      <3>4. Started'
        BY <3>1, <3>3 DEF Started, Awaited
      <3> QED
        BY <2>1, <3>3, <3>4
    <2>4. CASE Capture(m)
      <3>1. Started
        BY <2>4 DEF Capture
      <3>2. BlTypeNext /\ UNCHANGED ok /\ {clogged', calibrated'} \subseteq BOOLEAN
        BY <1>2, <2>4, CaptureNext
      <3>3. Started'
        BY <3>1, <3>2 DEF Started, Awaited
      <3> QED
        BY <2>1, <3>2, <3>3
    <2>5. CASE DropCapture(m) \/ SetNewBacklight(m)
      <3>1. /\ Started /\ UNCHANGED <<no_auto_calib, bl_on, ok, bl_paused, bl_armed, clogged>>
            /\ slip' \subseteq slip \cup {"CAPTURE"} /\ calibrated' \in {TRUE, FALSE}
        BY <2>1, <2>5 DEF DropCapture, SetNewBacklight, blConf
      <3>2. Started'
        BY <3>1 DEF Started, Awaited
      <3>3. BlTypeNext
        BY <3>1 DEF BlTypeNext, BlType, BlConfType, SlipReasons
      <3> QED
        BY <2>1, <3>1, <3>2, <3>3
    <2> QED
      BY <2>2, <2>3, <2>4, <2>5 DEF ReceiveBacklight, m
  <1>5. StateType' /\ SensType' /\ ScrConfType' /\ ScrType'
    BY <1>1 DEF StateType, SensType, ScrConfType, ScrType, stateVars, scrConf, scrVars
  <1>6. BlType' /\ BlConfType'
    BY <1>4 DEF BlType, BlTypeNext, SlipReasons
  <1>7. PipesType'
    <2>1. scrQ' \in Seq(ScrMsg)
      BY <1>1, ScreenTold, ScrMessages DEF PipesType, ScrHears
    <2> QED
      BY <1>1, <2>1, ReadBl DEF PipesType
  <1>8. TimeKnown'
    <2>1. /\ InOrder(blQ') /\ (ToldTime(blQ) => ToldTime(blQ'))
          /\ m.kind = "DAYTIME" => ~Unread(blQ', "DAYTIME")
      BY <1>1, TimeTail DEF PipesType, TimeKnown, TimeKinds
    <2>2. "DAYTIME" \in ok' => ToldTime(blQ')
      <3>1. CASE "DAYTIME" \in ok
        BY <2>1, <3>1 DEF TimeKnown
      <3>2. CASE "DAYTIME" \notin ok
        <4> SUFFICES ASSUME "DAYTIME" \in ok' PROVE ToldTime(blQ')
          OBVIOUS
        <4>1. ok' # ok
          BY <3>2
        <4>2. m.kind = "DAYTIME"
          <5> HIDE DEF m
          <5> QED
            BY <1>4, <3>2, <4>1
        <4>3. ~Unread(blQ', "DAYTIME") /\ blQ' \in Seq(BlMsg)
          BY <1>1, <2>1, <4>2, ReadBl
        <4> QED
          BY <4>3, TimeNone
      <3> QED
        BY <3>1, <3>2
    <2>3. Unread(blQ', "DAYTIME") \/ "DAYTIME" \in ok' => day_time # "UNKNOWN"
      <3>1. Unread(blQ', "DAYTIME") => Unread(blQ, "DAYTIME")
        BY <1>1, ReadBl
      <3>2. "DAYTIME" \in ok' => "DAYTIME" \in ok \/ m.kind = "DAYTIME"
        <4> HIDE DEF m
        <4> QED
          BY <1>4
      <3> QED
        BY <1>3, <3>1, <3>2 DEF TimeKnown
    <2> QED
      BY <1>1, <2>1, <2>2, <2>3 DEF TimeKnown, ToldTime, InOrder, Unread, NoneUnread, stateVars
  <1> QED
    BY <1>5, <1>6, <1>7, <1>8

-----------------------------------------------------------------------------
\* The types while SCREEN reads its pipe, or its timer expires; what BACKLIGHT is told.
LEMMA ReadScr ==
  ASSUME Types, scrQ # <<>>
  PROVE  /\ Head(scrQ) \in ScrMsg /\ Tail(scrQ) \in Seq(ScrMsg)
         /\ \A kind : Unread(scrQ, kind) <=> Head(scrQ).kind = kind \/ Unread(Tail(scrQ), kind)
  <1>1. scrQ \in Seq(ScrMsg)
    BY DEF Types, PipesType
  <1> QED
    BY <1>1, TailType, UnreadTail

BlHears == blQ' = blQ \/ blQ' = Publish(blQ, "SCREEN_BR", 0)

LEMMA ScreenFrame ==
  ASSUME ReceiveScreen \/ \E told \in BOOLEAN : ScreenTimerExpires(told)
  PROVE  UNCHANGED <<stateVars, sens_avail, blConf, blVars>> /\ BlHears
  <1>1. CASE ReceiveScreen
    <2>1. UNCHANGED <<stateVars, sens_avail, blConf, blVars>>
      BY <1>1 DEF ReceiveScreen
    <2>2. PICK m : ScreenStarts(m) \/ ScreenChange(m) \/ Contrib(m) \/ AmbientBr(m)
      BY <1>1 DEF ReceiveScreen
    <2>3. BlHears
      BY <2>2 DEF ScreenStarts, ScreenChange, Contrib, AmbientBr, GetScreenBrightness, BlHears, Tell
    <2> QED
      BY <2>1, <2>3
  <1>2. CASE \E told \in BOOLEAN : ScreenTimerExpires(told)
    BY <1>2 DEF ScreenTimerExpires, GetScreenBrightness, BlHears, Tell
  <1> QED
    BY <1>1, <1>2

PauseType == scr_paused' \subseteq ScrReasons /\ screen_br' \in BOOLEAN

LEMMA PauseScreenType ==
  ASSUME ScrType, NEW pause \in BOOLEAN, NEW why \in ScrReasons, PauseScreen(pause, why)
  PROVE  PauseType
  <1>1. scr_paused \subseteq ScrReasons /\ screen_br \in BOOLEAN
    BY DEF ScrType
  <1>2. scr_paused' \subseteq ScrReasons
    BY <1>1, ReasonsType DEF PauseScreen
  <1>3. screen_br' \in BOOLEAN
    BY <1>1 DEF PauseScreen
  <1> QED
    BY <1>2, <1>3 DEF PauseType

LEMMA ScreenTimeoutType ==
  ASSUME ScrType, NEW conf \in [AcStates -> BOOLEAN], ac_state \in AcStates, NEW old \in BOOLEAN,
         ScreenTimeout(conf, old)
  PROVE  PauseType /\ scr_armed' \in BOOLEAN
  <1>1. conf[ac_state] \in BOOLEAN /\ "TIMEOUT" \in ScrReasons
    BY DEF ScrReasons, BlReasons
  <1>2. PauseType
    BY <1>1, PauseScreenType DEF ScreenTimeout
  <1>3. scr_armed' \in BOOLEAN
    BY <1>1 DEF ScreenTimeout, ResetTimer, ScrType
  <1> QED
    BY <1>2, <1>3

\* What SCREEN's variables are after a message: it runs, of the types it had.
ScrNext == scr' = "running" /\ PauseType /\ scr_armed' \in BOOLEAN /\ ScrConfType'

LEMMA ScreenChangeNext ==
  ASSUME Types, NEW m \in ScrMsg, ScreenChange(m)
  PROVE  ScrNext
  <1> USE DEF Types
  <1>1. scr = "running" /\ scr' = scr
    BY DEF ScreenChange
  <1>2. /\ scr_armed \in BOOLEAN /\ ScrConfType
        /\ Told \cup {"SENSOR", "AUTOCALIB"} \subseteq ScrReasons
        /\ flags \in [Told -> BOOLEAN] /\ sens_avail \in BOOLEAN /\ ac_state \in AcStates
    BY DEF ScrType, ScrReasons, BlReasons, StateType, SensType
  <1>3. ASSUME UNCHANGED <<scr_armed, scrConf>>, PauseType
        PROVE  ScrNext
    BY <1>1, <1>2, <1>3 DEF ScrNext, scrConf, ScrConfType
  <1>4. CASE \E pause \in BOOLEAN, why \in Told \cup {"SENSOR", "AUTOCALIB"} :
               PauseScreen(pause, why) /\ UNCHANGED <<scr_armed, scrConf>>
    <2>1. PICK pause \in BOOLEAN, why \in Told \cup {"SENSOR", "AUTOCALIB"} :
            PauseScreen(pause, why) /\ UNCHANGED <<scr_armed, scrConf>>
      BY <1>4
    <2>2. why \in ScrReasons
      BY <1>2
    <2>3. PauseType
      BY <2>1, <2>2, PauseScreenType
    <2> QED
      BY <1>3, <2>1, <2>3
  <1>5. CASE UNCHANGED <<scr_paused, screen_br>> /\ UNCHANGED <<scr_armed, scrConf>>
    BY <1>3, <1>5 DEF PauseType, ScrType
  <1>6. CASE m.kind = "UPOWER" /\ ScreenTimeout(scr_on, scr_on[m.arg]) /\ UNCHANGED scrConf
    <2>1. m.arg \in AcStates
      BY <1>6, ScrMessageRead
    <2>2. PauseType /\ scr_armed' \in BOOLEAN
      BY <1>2, <1>6, <2>1, ScreenTimeoutType DEF ScrConfType
    <2> QED
      BY <1>1, <1>2, <1>6, <2>2 DEF ScrNext, ScrConfType, scrConf
  <1>7. CASE /\ m.kind = "SCR_TO_REQ" /\ UNCHANGED contrib
             /\ scr_on' = [scr_on EXCEPT ![m.arg.ac] = m.arg.on]
             /\ IF m.arg.ac = ac_state THEN ScreenTimeout(scr_on', scr_on[m.arg.ac])
                                       ELSE UNCHANGED <<scr_paused, scr_armed, screen_br>>
    <2>1. m.arg.ac \in AcStates /\ m.arg.on \in BOOLEAN
      BY <1>7, ScrMessageRead
    <2>2. scr_on' \in [AcStates -> BOOLEAN]
      BY <1>2, <1>7, <2>1 DEF ScrConfType
    <2>3. PauseType /\ scr_armed' \in BOOLEAN
      <3>1. CASE m.arg.ac = ac_state
        <4>1. ScreenTimeout(scr_on', scr_on[m.arg.ac])
          BY <1>7, <3>1, Zenon
        <4>2. scr_on[m.arg.ac] \in BOOLEAN
          BY <1>2, <2>1 DEF ScrConfType
        <4>3. ScrType
          OBVIOUS
        <4> QED
          BY <1>2, <2>2, <4>1, <4>2, <4>3, ScreenTimeoutType, Zenon
      <3>2. CASE m.arg.ac # ac_state
        BY <1>7, <3>2 DEF PauseType, ScrType
      <3> QED
        BY <3>1, <3>2
    <2> QED
      BY <1>1, <1>2, <1>7, <2>2, <2>3 DEF ScrNext, ScrConfType
  <1>8. m.kind = "AUTOCALIB" => m.arg \in BOOLEAN
    BY ScrMessageRead
  <1>9. \/ \E pause \in BOOLEAN, why \in Told \cup {"SENSOR", "AUTOCALIB"} :
             PauseScreen(pause, why) /\ UNCHANGED <<scr_armed, scrConf>>
        \/ UNCHANGED <<scr_paused, screen_br>> /\ UNCHANGED <<scr_armed, scrConf>>
        \/ m.kind \in {"UPOWER", "SCR_TO_REQ"}
    <2>1. CASE m.kind \in Told \ {"LID"} /\ PauseScreen(flags[m.kind], m.kind) /\ UNCHANGED <<scr_armed, scrConf>>
      BY <1>2, <2>1
    <2>2. CASE /\ m.kind = "LID" /\ UNCHANGED <<scr_armed, scrConf>>
               /\ IF lid_pauses THEN PauseScreen(flags["LID"], "LID") ELSE UNCHANGED <<scr_paused, screen_br>>
      <3>1. "LID" \in Told /\ flags["LID"] \in BOOLEAN
        BY <1>2 DEF Told
      <3> QED
        BY <2>2, <3>1
    <2>3. CASE m.kind = "SENSOR" /\ PauseScreen(~sens_avail, "SENSOR") /\ UNCHANGED <<scr_armed, scrConf>>
      BY <1>2, <2>3
    <2>4. CASE m.kind = "AUTOCALIB" /\ PauseScreen(m.arg, "AUTOCALIB") /\ UNCHANGED <<scr_armed, scrConf>>
      BY <1>8, <2>4
    <2> QED
      BY <2>1, <2>2, <2>3, <2>4 DEF ScreenChange
  <1>10. /\ m.kind = "UPOWER" => ScreenTimeout(scr_on, scr_on[m.arg]) /\ UNCHANGED scrConf
         /\ m.kind = "SCR_TO_REQ" => /\ UNCHANGED contrib
             /\ scr_on' = [scr_on EXCEPT ![m.arg.ac] = m.arg.on]
             /\ IF m.arg.ac = ac_state THEN ScreenTimeout(scr_on', scr_on[m.arg.ac])
                                       ELSE UNCHANGED <<scr_paused, scr_armed, screen_br>>
    BY DEF ScreenChange, Told
  <1> QED
    BY <1>4, <1>5, <1>6, <1>7, <1>9, <1>10

LEMMA ScrMessageNext ==
  ASSUME Types, NEW m \in ScrMsg,
         ScreenStarts(m) \/ ScreenChange(m) \/ Contrib(m) \/ AmbientBr(m)
  PROVE  ScrNext
  <1> USE DEF Types
  <1>1. /\ scr_paused \subseteq ScrReasons /\ screen_br \in BOOLEAN /\ scr_armed \in BOOLEAN
        /\ ScrConfType /\ ac_state \in AcStates
    BY DEF ScrType, StateType
  <1>2. CASE ScreenStarts(m)
    <2>1. scr_on[ac_state] \in BOOLEAN
      BY <1>1 DEF ScrConfType
    <2>2. scr_armed' \in BOOLEAN /\ scr' = "running" /\ screen_br' = screen_br
      BY <1>2, <2>1 DEF ScreenStarts
    <2>3. scr_paused' \subseteq ScrReasons
      BY <1>2 DEF ScreenStarts, ScrReasons, BlReasons
    <2>4. ScrConfType'
      BY <1>1, <1>2 DEF ScreenStarts, ScrConfType, scrConf
    <2> QED
      BY <1>1, <2>2, <2>3, <2>4 DEF ScrNext, PauseType
  <1>3. CASE ScreenChange(m)
    BY <1>3, ScreenChangeNext
  <1>4. CASE Contrib(m)
    <2>1. m.arg \in BOOLEAN
      BY <1>4, ScrMessageRead DEF Contrib
    <2>2. PauseType
      BY <1>1, <1>4, <2>1, PauseScreenType DEF Contrib, ScrReasons
    <2> QED
      BY <1>1, <1>4, <2>1, <2>2 DEF ScrNext, Contrib, ScrConfType
  <1>5. CASE AmbientBr(m)
    <2>1. scr_paused' \subseteq ScrReasons
      BY <1>1, <1>5, ReasonsType DEF AmbientBr, ScrReasons
    <2>2. screen_br' \in BOOLEAN
      BY <1>1, <1>5 DEF AmbientBr, GetScreenBrightness
    <2> QED
      BY <1>1, <1>5, <2>1, <2>2 DEF ScrNext, PauseType, AmbientBr, ScrConfType, scrConf
  <1> QED
    BY <1>2, <1>3, <1>4, <1>5

\* The rest of the state as SCREEN works.
LEMMA ScreenRest ==
  ASSUME Types, UNCHANGED <<stateVars, sens_avail, blConf, blVars>>, BlHears
  PROVE  /\ StateType' /\ SensType' /\ BlConfType' /\ BlType'
         /\ blQ' \in Seq(BlMsg) /\ TimeKnown'
  <1> USE DEF Types
  <1>1. StateType' /\ SensType' /\ BlConfType' /\ BlType'
    BY DEF StateType, SensType, BlConfType, BlType, stateVars, blConf, blVars, Started
  <1>2. UNCHANGED <<day_time, ok>> /\ [kind |-> "SCREEN_BR", arg |-> 0] \in BlMsg
    BY BlMessages DEF stateVars, blVars
  <1>3. CASE blQ' = blQ
    BY <1>1, <1>2, <1>3, TimeKnownSame DEF PipesType
  <1>4. CASE blQ' = Publish(blQ, "SCREEN_BR", 0)
    <2>1. TimeKnown'
      BY <1>2, <1>4, TimeKnownKept DEF TimeKinds
    <2> QED
      BY <1>1, <1>2, <1>4, <2>1, BlPublish DEF PipesType
  <1> QED
    BY <1>3, <1>4 DEF BlHears

LEMMA TypesScreen ==
  ASSUME Types, ReceiveScreen \/ \E told \in BOOLEAN : ScreenTimerExpires(told)
  PROVE  Types'
  <1>1. /\ StateType' /\ SensType' /\ BlConfType' /\ BlType'
        /\ blQ' \in Seq(BlMsg) /\ TimeKnown'
    BY ScreenFrame, ScreenRest
  <1>2. scrQ' \in Seq(ScrMsg) /\ ScrNext
    <2>1. CASE ReceiveScreen
      <3>1. scrQ # <<>> /\ scrQ' = Tail(scrQ)
        BY <2>1 DEF ReceiveScreen
      <3>2. ScrNext
        BY <2>1, <3>1, ReadScr, ScrMessageNext DEF ReceiveScreen
      <3> QED
        BY <3>1, <3>2, ReadScr
    <2>2. CASE \E told \in BOOLEAN : ScreenTimerExpires(told)
      <3>1. PICK told \in BOOLEAN : ScreenTimerExpires(told)
        BY <2>2
      <3>2. scr' = "running" /\ UNCHANGED <<scrQ, scr_paused, scr_on, contrib>> /\ scr_armed' = scr_on[ac_state]
        BY <3>1 DEF ScreenTimerExpires, scrConf
      <3>3. screen_br' \in BOOLEAN
        BY <3>1 DEF ScreenTimerExpires, GetScreenBrightness, Types, ScrType
      <3>4. scr_armed' \in BOOLEAN
        BY <3>2 DEF Types, ScrConfType, StateType
      <3> QED
        BY <3>2, <3>3, <3>4 DEF ScrNext, PauseType, Types, ScrType, ScrConfType, PipesType
    <2> QED
      BY <2>1, <2>2
  <1>3. ScrType' /\ ScrConfType'
    BY <1>2 DEF ScrNext, PauseType, ScrType
  <1>4. PipesType'
    BY <1>1, <1>2 DEF PipesType
  <1> QED
    BY <1>1, <1>3, <1>4 DEF Types

-----------------------------------------------------------------------------
LEMMA InitTypes == Init => Types
  <1> SUFFICES ASSUME Init PROVE Types
    OBVIOUS
  <1>1. /\ ac_state \in AcStates /\ day_time = "UNKNOWN" /\ ok = {}
        /\ blQ = Publish(Publish(<<>>, "UPOWER", ac_state), "LID", 0)
        /\ scrQ = <<>> \/ scrQ = Publish(Publish(<<>>, "UPOWER", ac_state), "LID", 0)
    BY DEF Init, Tell
  <1>2. <<>> \in Seq(BlMsg) /\ <<>> \in Seq(ScrMsg) /\ "LID" \in Told
    BY DEF Told
  <1>3. /\ [kind |-> "UPOWER", arg |-> ac_state] \in BlMsg /\ [kind |-> "LID", arg |-> 0] \in BlMsg
        /\ [kind |-> "UPOWER", arg |-> ac_state] \in ScrMsg /\ [kind |-> "LID", arg |-> 0] \in ScrMsg
    BY <1>1, <1>2, BlMessages, ScrMessages
  <1>4. PipesType
    BY <1>1, <1>2, <1>3, BlPublish, ScrPublish DEF PipesType
  <1>5. \A kind : ~Unread(<<>>, kind)
    BY DEF Unread, NoneUnread
  <1>6. ~Unread(blQ, "DAYTIME")
    <2>1. Unread(Publish(<<>>, "UPOWER", ac_state), "DAYTIME") <=> FALSE
      BY <1>2, <1>5, UnreadPublish
    <2>2. Publish(<<>>, "UPOWER", ac_state) \in Seq(BlMsg)
      BY <1>2, <1>3, BlPublish
    <2> QED
      BY <1>1, <2>1, <2>2, UnreadPublish
  <1>7. InOrder(blQ)
    <2>1. InOrder(<<>>)
      BY DEF InOrder
    <2>2. Publish(<<>>, "UPOWER", ac_state) \in Seq(BlMsg) /\ InOrder(Publish(<<>>, "UPOWER", ac_state))
      BY <1>2, <1>3, <2>1, BlPublish, TimePublish DEF TimeKinds
    <2> QED
      BY <1>1, <1>3, <2>2, TimePublish DEF TimeKinds
  <1>8. TimeKnown
    BY <1>1, <1>6, <1>7 DEF TimeKnown
  <1>9. StateType /\ SensType
    BY DEF Init, StateType, SensType
  <1>10. BlConfType /\ ScrConfType
    BY BacklightAssumption DEF Init, BlConfType, ScrConfType
  <1>11. BlType
    BY DEF Init, BlType
  <1>12. ScrType
    BY DEF Init, ScrType
  <1> QED
    BY <1>4, <1>8, <1>9, <1>10, <1>11, <1>12 DEF Types

LEMMA NextTypes == Types /\ [Next]_vars => Types'
  <1> SUFFICES ASSUME Types, [Next]_vars PROVE Types'
    OBVIOUS
  <1>1. CASE UNCHANGED vars
    <2>1. UNCHANGED <<stateVars, sens_avail, blConf, scrConf, blVars, scrVars, blQ, scrQ>>
      BY <1>1 DEF vars
    <2>2. StateType' /\ SensType' /\ BlConfType' /\ ScrConfType' /\ BlType' /\ ScrType' /\ PipesType'
      BY <2>1 DEF Types, StateType, SensType, BlConfType, ScrConfType, BlType, ScrType, PipesType,
                  Started, stateVars, blConf, scrConf, blVars, scrVars
    <2> QED
      BY <2>1, <2>2, TimeKnownSame DEF Types, stateVars, blVars
  <1> QED
    BY <1>1, TypesFlag, TypesUPower, TypesTime, TypesUser, TypesSensor, TypesTimer, TypesReceiveBl,
       TypesScreen DEF Next

(***************************************************************************)
(* BACKLIGHT and SCREEN hold values of their types, and BACKLIGHT starts   *)
(* only once the time is known.                                            *)
(***************************************************************************)
THEOREM TypeCorrect == Spec => []TypeOK
  <1>1. Spec => []Types
    BY InitTypes, NextTypes, PTL DEF Spec
  <1> QED
    BY <1>1, TypesImplyTypeOK, PTL

-----------------------------------------------------------------------------
(***************************************************************************)
(* Once BACKLIGHT has started, each reason it is paused for is up to date, *)
(* or a message that will bring it up to date is unread, or it slipped.    *)
(***************************************************************************)
Tellers(why) == IF why \in Told THEN {why}
                ELSE IF why = "TIMEOUT" THEN TimeKinds \cup {"UPOWER"} ELSE {}
ToldOf(why) == \/ why \in slip
               \/ \E kind \in Tellers(why) : Unread(blQ, kind)
               \/ why \in bl_paused <=> Due(why)
BlToldOf == /\ "LID" \in bl_paused => lid_pauses
            /\ Started => \A why \in BlReasons : ToldOf(why)

LEMMA DueIs ==
  /\ \A why \in Told \ {"LID"} : Due(why) <=> flags[why]
  /\ Due("LID") <=> flags["LID"] /\ lid_pauses
  /\ Due("TIMEOUT") <=> ~Current(bl_on)
  /\ Due("SENSOR") <=> ~sens_avail
  /\ Due("AUTOCALIB") <=> no_auto_calib
  BY DEF Due, Told

LEMMA DueIsNext ==
  /\ \A why \in Told \ {"LID"} : Due(why)' <=> flags'[why]
  /\ Due("LID")' <=> flags'["LID"] /\ lid_pauses
  /\ Due("TIMEOUT")' <=> ~Current(bl_on)'
  /\ Due("SENSOR")' <=> ~sens_avail'
  /\ Due("AUTOCALIB")' <=> no_auto_calib'
  BY DEF Due, Told

LEMMA DueKept ==
  ASSUME NEW why \in BlReasons,
         why \in Told => flags'[why] = flags[why],
         why = "TIMEOUT" => Current(bl_on)' = Current(bl_on),
         why = "SENSOR" => sens_avail' = sens_avail,
         why = "AUTOCALIB" => no_auto_calib' = no_auto_calib
  PROVE  Due(why)' <=> Due(why)
  <1>1. CASE why \in Told \ {"LID"}
    BY <1>1, DueIs, DueIsNext
  <1>2. CASE why = "LID"
    BY <1>2, DueIs, DueIsNext DEF Told
  <1>3. CASE why = "TIMEOUT"
    BY <1>3, DueIs, DueIsNext
  <1>4. CASE why = "SENSOR"
    BY <1>4, DueIs, DueIsNext
  <1>5. CASE why = "AUTOCALIB"
    BY <1>5, DueIs, DueIsNext
  <1> QED
    BY <1>1, <1>2, <1>3, <1>4, <1>5 DEF BlReasons

\* A reason that stays as it is, held and due, is told of as before.
LEMMA ToldKept ==
  ASSUME NEW why, ToldOf(why), why \in slip => why \in slip',
         \A kind \in Tellers(why) : Unread(blQ, kind) => Unread(blQ', kind),
         why \in bl_paused' <=> why \in bl_paused, Due(why)' <=> Due(why)
  PROVE  ToldOf(why)'
  <1>1. \A kind : Unread(blQ, kind)' <=> Unread(blQ', kind)
    BY DEF Unread, NoneUnread
  <1>2. Tellers(why)' = Tellers(why)
    BY DEF Tellers, Told, TimeKinds
  <1> QED
    BY <1>1, <1>2 DEF ToldOf

\* A step that leaves alone what BACKLIGHT is paused for, and why.
LEMMA BlKept ==
  ASSUME BlToldOf, UNCHANGED <<stateVars, sens_avail, no_auto_calib, bl_on, ok, bl_paused>>,
         \A why \in BlReasons : why \in slip => why \in slip',
         \A kind \in Told \cup TimeKinds \cup {"UPOWER"} : Unread(blQ, kind) => Unread(blQ', kind)
  PROVE  BlToldOf'
  <1>1. ASSUME NEW why \in BlReasons, ToldOf(why)
        PROVE  ToldOf(why)'
    <2>1. Due(why)' <=> Due(why)
      BY DueKept DEF stateVars, Current, Slot
    <2>2. \A kind \in Tellers(why) : Unread(blQ, kind) => Unread(blQ', kind)
      BY DEF Tellers
    <2> QED
      BY <1>1, <2>1, <2>2, ToldKept
  <1>2. Started' <=> Started
    BY DEF Started, Awaited
  <1>3. ("LID" \in bl_paused)' <=> "LID" \in bl_paused
    OBVIOUS
  <1> QED
    BY <1>1, <1>2, <1>3 DEF BlToldOf

\* What a publication adds is all that is new in the pipe.
LEMMA UnreadMore ==
  ASSUME PipesType, NEW kind, NEW arg, blQ' = Publish(blQ, kind, arg)
  PROVE  /\ Unread(blQ', kind)
         /\ \A k : Unread(blQ, k) => Unread(blQ', k)
  BY UnreadPublish DEF PipesType

LEMMA BlToldFlag ==
  ASSUME Types, BlToldOf, NEW f \in Told, FlagChanges(f)
  PROVE  BlToldOf'
  <1>1. /\ blQ' = Publish(blQ, f, 0) /\ flags' = [flags EXCEPT ![f] = ~@]
        /\ UNCHANGED <<ac_state, day_time, in_event, sens_avail, no_auto_calib, bl_on, ok, bl_paused, slip>>
    BY DEF FlagChanges, Tell, blConf, blVars
  <1>2. Unread(blQ', f) /\ \A k : Unread(blQ, k) => Unread(blQ', k)
    BY <1>1, UnreadMore DEF Types
  <1>3. ASSUME NEW why \in BlReasons, ToldOf(why)
        PROVE  ToldOf(why)'
    <2>1. CASE why = f
      <3>1. f \in Tellers(why)' /\ Unread(blQ, f)'
        BY <1>2, <2>1 DEF Tellers, Unread, NoneUnread
      <3> QED
        BY <3>1 DEF ToldOf
    <2>2. CASE why # f
      <3>1. Due(why)' <=> Due(why)
        BY <1>1, <2>2, DueKept DEF Types, StateType, Current, Slot
      <3> QED
        BY <1>1, <1>2, <1>3, <3>1, ToldKept
    <2> QED
      BY <2>1, <2>2
  <1>4. (Started' <=> Started) /\ bl_paused' = bl_paused
    BY <1>1 DEF Started, Awaited
  <1> QED
    BY <1>3, <1>4 DEF BlToldOf

\* The cable and the time: the reason TIMEOUT is told of, the others are as before.
LEMMA BlToldClock ==
  ASSUME Types, BlToldOf, UPowerChanges \/ TimeChanges
  PROVE  BlToldOf'
  <1>1. /\ UNCHANGED <<flags, sens_avail, no_auto_calib, bl_on, ok, bl_paused, slip>>
        /\ \E kind \in TimeKinds \cup {"UPOWER"} : \E arg : blQ' = Publish(blQ, kind, arg)
    BY DEF UPowerChanges, TimeChanges, Tell, blConf, blVars, TimeKinds
  <1>2. PICK kind \in TimeKinds \cup {"UPOWER"} : \E arg : blQ' = Publish(blQ, kind, arg)
    BY <1>1
  <1>3. Unread(blQ', kind) /\ \A k : Unread(blQ, k) => Unread(blQ', k)
    BY <1>2, UnreadMore DEF Types
  <1>4. ASSUME NEW why \in BlReasons, ToldOf(why)
        PROVE  ToldOf(why)'
    <2>1. CASE why = "TIMEOUT"
      <3>1. kind \in Tellers(why)' /\ Unread(blQ, kind)'
        BY <1>3, <2>1 DEF Tellers, Unread, NoneUnread, TimeKinds, Told
      <3> QED
        BY <3>1 DEF ToldOf
    <2>2. CASE why # "TIMEOUT"
      <3>1. Due(why)' <=> Due(why)
        BY <1>1, <2>2, DueKept
      <3> QED
        BY <1>1, <1>3, <1>4, <3>1, ToldKept
    <2> QED
      BY <2>1, <2>2
  <1>5. (Started' <=> Started) /\ bl_paused' = bl_paused
    BY <1>1 DEF Started, Awaited
  <1> QED
    BY <1>4, <1>5 DEF BlToldOf

LEMMA BlToldSensor ==
  ASSUME Types, BlToldOf, OnSensorChange
  PROVE  BlToldOf'
  <1>1. /\ Started /\ sens_avail' = ~sens_avail /\ bl_paused' = Reasons(bl_paused, sens_avail, "SENSOR")
        /\ UNCHANGED <<stateVars, no_auto_calib, bl_on, ok, slip, blQ>> /\ sens_avail \in BOOLEAN
    BY DEF OnSensorChange, Pause, blConf, Types, SensType
  <1>2. /\ "SENSOR" \in bl_paused' <=> sens_avail
        /\ \A why : why # "SENSOR" => (why \in bl_paused' <=> why \in bl_paused)
    BY <1>1, ReasonsExact
  <1>3. ASSUME NEW why \in BlReasons, ToldOf(why)
        PROVE  ToldOf(why)'
    <2>1. CASE why = "SENSOR"
      <3>1. Due(why)' <=> sens_avail
        BY <1>1, <2>1, DueIsNext
      <3> QED
        BY <1>2, <2>1, <3>1 DEF ToldOf
    <2>2. CASE why # "SENSOR"
      <3>1. Due(why)' <=> Due(why)
        BY <1>1, <2>2, DueKept DEF stateVars, Current, Slot
      <3> QED
        BY <1>1, <1>2, <1>3, <2>2, <3>1, ToldKept
    <2> QED
      BY <2>1, <2>2
  <1>4. ("LID" \in bl_paused' <=> "LID" \in bl_paused) /\ (Started' <=> Started)
    BY <1>1, <1>2 DEF Started, Awaited
  <1> QED
    BY <1>3, <1>4 DEF BlToldOf

-----------------------------------------------------------------------------
\* What was unread is, but for what is read now.
LEMMA UnreadRest ==
  ASSUME Types, ReceiveBacklight
  PROVE  \A kind : kind # Head(blQ).kind => (Unread(blQ, kind) => Unread(blQ', kind))
  BY ReceiveFrame, ReadBl

\* A message that is read concerns one reason, and the others stay as they are.
LEMMA ToldOthers ==
  ASSUME Types, ReceiveBacklight, NEW r \in BlReasons,
         Head(blQ).kind \in Tellers(r) \/ \A why \in BlReasons : Head(blQ).kind \notin Tellers(why),
         NEW why \in BlReasons \ {r}, ToldOf(why), why \in slip => why \in slip',
         why \in bl_paused' <=> why \in bl_paused,
         why = "TIMEOUT" => bl_on' = bl_on, why = "AUTOCALIB" => no_auto_calib' = no_auto_calib
  PROVE  ToldOf(why)'
  <1>1. UNCHANGED <<stateVars, sens_avail>>
    BY ReceiveFrame
  <1>2. Due(why)' <=> Due(why)
    BY <1>1, DueKept DEF stateVars, Current, Slot
  <1>3. \A kind \in Tellers(why) : kind # Head(blQ).kind
    BY DEF Tellers, TimeKinds, Told
  <1> QED
    BY <1>2, <1>3, UnreadRest, ToldKept

\* Started, BACKLIGHT holds the reasons there are, but those that slip.
LEMMA BlToldHear ==
  ASSUME Types, BlToldOf, ReceiveBacklight, NEW m, Hear(m)
  PROVE  BlToldOf'
  <1>1. UNCHANGED <<stateVars, sens_avail, no_auto_calib, bl_on>>
    BY ReceiveFrame DEF Hear, blConf
  <1>2. ~Started /\ bl_paused = {}
    BY DEF Hear, Types, BlType
  <1>3. CASE ok' # Awaited
    <2>1. ~Started' /\ bl_paused' = {}
      BY <1>2, <1>3 DEF Hear, Started, Awaited
    <2> QED
      BY <2>1 DEF BlToldOf
  <1>4. CASE ok' = Awaited
    <2>1. /\ bl_paused' = {why \in BlReasons :
                            \/ why = "TIMEOUT" /\ ~Current(bl_on)
                            \/ why = "SENSOR" /\ ~sens_avail
                            \/ why = "AUTOCALIB" /\ no_auto_calib
                            \/ why = "LID" /\ flags["LID"] /\ lid_pauses}
          /\ slip' = {why \in {"DISPLAY", "SUSPEND", "INHIBIT"} : flags[why]}
      BY <1>4 DEF Hear
    <2>2. \A why \in BlReasons : Due(why)' <=> Due(why)
      BY <1>1, DueKept DEF stateVars, Current, Slot
    <2>3. ASSUME NEW why \in BlReasons PROVE why \in slip' \/ (why \in bl_paused' <=> Due(why))
      <3>1. CASE why \in Told \ {"LID"}
        BY <2>1, <3>1, DueIs DEF Told
      <3>2. CASE why = "LID"
        BY <2>1, <3>2, DueIs
      <3>3. CASE why = "TIMEOUT"
        BY <2>1, <3>3, DueIs
      <3>4. CASE why = "SENSOR"
        BY <2>1, <3>4, DueIs
      <3>5. CASE why = "AUTOCALIB"
        BY <2>1, <3>5, DueIs
      <3> QED
        BY <3>1, <3>2, <3>3, <3>4, <3>5 DEF BlReasons
    <2>4. \A why \in BlReasons : ToldOf(why)'
      BY <2>2, <2>3 DEF ToldOf
    <2>5. "LID" \in bl_paused' => lid_pauses
      BY <2>1
    <2> QED
      BY <2>4, <2>5 DEF BlToldOf
  <1> QED
    BY <1>3, <1>4

LEMMA SetTimerSlip ==
  ASSUME NEW armed, NEW missed, SetTimer(armed, missed)
  PROVE  \A why \in BlReasons : why \in slip' <=> why \in missed
  BY DEF SetTimer, BlReasons, Told

\* reset_or_pause brings the reason TIMEOUT up to date, and is up to date itself.
LEMMA ResetOrPauseExact ==
  ASSUME NEW conf, NEW old, ResetOrPause(conf, old), Current(conf) \in BOOLEAN
  PROVE  /\ "TIMEOUT" \in bl_paused' <=> ~Current(conf)
         /\ \A why : why # "TIMEOUT" => (why \in bl_paused' <=> why \in bl_paused)
         /\ \A why \in BlReasons \ {"TIMEOUT"} : why \in slip' <=> why \in slip
  <1>1. bl_paused' = Reasons(bl_paused, ~Current(conf), "TIMEOUT") /\ (~Current(conf)) \in BOOLEAN
    BY DEF ResetOrPause
  <1>2. PICK armed : SetTimer(armed, slip \ {"TIMEOUT"})
    BY DEF ResetOrPause
  <1>3. \A why \in BlReasons : why \in slip' <=> why \in slip \ {"TIMEOUT"}
    BY <1>2, SetTimerSlip
  <1> QED
    BY <1>1, <1>3, ReasonsExact

\* The callbacks.
LEMMA BlToldUPower ==
  ASSUME Types, BlToldOf, ReceiveBacklight, Started, NEW m, m = Head(blQ), m.kind = "UPOWER",
         UPowerCallback
  PROVE  \A why \in BlReasons : ToldOf(why)'
  <1>1. /\ UNCHANGED <<stateVars, sens_avail, bl_paused, no_auto_calib, bl_on>>
        /\ SetTimer(Current(bl_on), IF Current(bl_on) <=> "TIMEOUT" \in bl_paused
                                      THEN slip \cup {"TIMEOUT"} ELSE slip \ {"TIMEOUT"})
    BY ReceiveFrame DEF UPowerCallback, blConf
  <1>2. \A why \in BlReasons : why \in slip' <=>
           why \in (IF Current(bl_on) <=> "TIMEOUT" \in bl_paused THEN slip \cup {"TIMEOUT"} ELSE slip \ {"TIMEOUT"})
    BY <1>1, SetTimerSlip
  <1>3. ToldOf("TIMEOUT")'
    <2>1. Due("TIMEOUT")' <=> ~Current(bl_on)
      BY <1>1, DueIsNext DEF stateVars, Current, Slot
    <2>2. "TIMEOUT" \in slip' \/ ("TIMEOUT" \in bl_paused' <=> ~Current(bl_on))
      BY <1>1, <1>2 DEF BlReasons
    <2> QED
      BY <2>1, <2>2 DEF ToldOf
  <1>4. ASSUME NEW why \in BlReasons \ {"TIMEOUT"} PROVE ToldOf(why)'
    <2>1. why \in slip => why \in slip'
      BY <1>2
    <2>2. "UPOWER" \in Tellers("TIMEOUT") /\ "TIMEOUT" \in BlReasons /\ ToldOf(why)
      BY DEF Tellers, Told, BlReasons, BlToldOf
    <2> QED
      BY <1>1, <2>1, <2>2, ToldOthers
  <1> QED
    BY <1>3, <1>4

LEMMA BlToldTime ==
  ASSUME Types, BlToldOf, ReceiveBacklight, Started, NEW m, m = Head(blQ), m.kind \in TimeKinds,
         TimeCallback(m)
  PROVE  (\A why \in BlReasons : ToldOf(why)') /\ ("LID" \in bl_paused' <=> "LID" \in bl_paused)
  <1>1. /\ UNCHANGED <<stateVars, sens_avail, no_auto_calib, bl_on>>
        /\ \E old : ResetOrPause(bl_on, old)
    BY ReceiveFrame DEF TimeCallback, blConf
  <1>2. Current(bl_on) \in BOOLEAN
    BY StartedTime, CurrentType DEF Types, BlConfType
  <1>3. /\ "TIMEOUT" \in bl_paused' <=> ~Current(bl_on)
        /\ \A why : why # "TIMEOUT" => (why \in bl_paused' <=> why \in bl_paused)
        /\ \A why \in BlReasons \ {"TIMEOUT"} : why \in slip' <=> why \in slip
    BY <1>1, <1>2, ResetOrPauseExact
  <1>4. ToldOf("TIMEOUT")'
    <2>1. Due("TIMEOUT")' <=> ~Current(bl_on)
      BY <1>1, DueIsNext DEF stateVars, Current, Slot
    <2> QED
      BY <1>3, <2>1 DEF ToldOf
  <1>5. ASSUME NEW why \in BlReasons \ {"TIMEOUT"} PROVE ToldOf(why)'
    <2>1. m.kind \in Tellers("TIMEOUT") /\ "TIMEOUT" \in BlReasons /\ ToldOf(why)
      BY DEF Tellers, Told, BlReasons, BlToldOf
    <2> QED
      BY <1>1, <1>3, <2>1, ToldOthers
  <1> QED
    BY <1>3, <1>4, <1>5

\* A message whose kind tells BACKLIGHT of no reason.
LEMMA TellsNothing ==
  ASSUME NEW kind, kind \in {"BL_TO_REQ", "NO_AUTOCALIB_REQ", "CAPTURE_REQ", "TIMER", "SCREEN_BR"}
  PROVE  \A why \in BlReasons : kind \notin Tellers(why)
  BY DEF Tellers, Told, TimeKinds

LEMMA BlToldTimeout ==
  ASSUME Types, BlToldOf, ReceiveBacklight, Started, NEW m \in BlMsg, m = Head(blQ), m.kind = "BL_TO_REQ",
         TimeoutCallback(m)
  PROVE  (\A why \in BlReasons : ToldOf(why)') /\ ("LID" \in bl_paused' <=> "LID" \in bl_paused)
  <1> DEFINE mine == m.arg.ac = ac_state /\ (m.arg.slot = day_time \/ (in_event /\ m.arg.slot = "IN_EVENT"))
  <1>1. /\ UNCHANGED <<stateVars, sens_avail, no_auto_calib>>
        /\ bl_on' = [bl_on EXCEPT ![m.arg.ac][m.arg.slot] = m.arg.on]
        /\ IF mine THEN ResetOrPause(bl_on', Current(bl_on)) ELSE UNCHANGED <<bl_paused, bl_armed, slip>>
    BY ReceiveFrame DEF TimeoutCallback
  <1>2. /\ m.arg.ac \in AcStates /\ m.arg.slot \in Slots /\ m.arg.on \in BOOLEAN
        /\ bl_on \in [AcStates -> [Slots -> BOOLEAN]]
    BY BlMessageRead DEF Types, BlConfType
  <1>3. bl_on' \in [AcStates -> [Slots -> BOOLEAN]]
    BY <1>1, <1>2
  <1>4. Current(bl_on)' = Current(bl_on')
    BY <1>1 DEF stateVars, Current, Slot
  <1>5. Due("TIMEOUT")' <=> ~Current(bl_on')
    BY <1>4, DueIsNext
  <1>6. "TIMEOUT" \in BlReasons /\ \A why \in BlReasons : m.kind \notin Tellers(why)
    BY TellsNothing DEF BlReasons
  <1>7. CASE mine
    <2>1. Current(bl_on') \in BOOLEAN
      BY <1>3, StartedTime, CurrentType DEF Types
    <2>2. /\ "TIMEOUT" \in bl_paused' <=> ~Current(bl_on')
          /\ \A why : why # "TIMEOUT" => (why \in bl_paused' <=> why \in bl_paused)
          /\ \A why \in BlReasons \ {"TIMEOUT"} : why \in slip' <=> why \in slip
      BY <1>1, <1>7, <2>1, ResetOrPauseExact
    <2>3. ToldOf("TIMEOUT")'
      BY <1>5, <2>2 DEF ToldOf
    <2>4. ASSUME NEW why \in BlReasons \ {"TIMEOUT"} PROVE ToldOf(why)'
      <3>1. ToldOf(why)
        BY DEF BlToldOf
      <3> QED
        BY <1>1, <1>6, <2>2, <3>1, ToldOthers
    <2> QED
      BY <2>2, <2>3, <2>4
  <1>8. CASE ~mine
    <2>1. Current(bl_on') = Current(bl_on)
      <3>1. day_time \in Slots /\ ac_state \in AcStates /\ in_event \in BOOLEAN
        BY StartedTime DEF Types, StateType, Slots
      <3>2. m.arg.ac # ac_state \/ m.arg.slot # Slot
        BY <1>8, <3>1 DEF Slot
      <3>3. Slot \in Slots
        BY <3>1 DEF Slot, Slots
      <3> QED
        BY <1>1, <1>2, <3>1, <3>2, <3>3 DEF Current
    <2>2. ASSUME NEW why \in BlReasons PROVE ToldOf(why)'
      <3>1. Due(why)' <=> Due(why)
        BY <1>1, <1>4, <2>1, DueKept DEF stateVars
      <3>2. ToldOf(why) /\ \A kind \in Tellers(why) : Unread(blQ, kind) => Unread(blQ', kind)
        BY <1>6, UnreadRest DEF BlToldOf
      <3> QED
        BY <1>1, <1>8, <3>1, <3>2, ToldKept
    <2> QED
      BY <1>1, <1>8, <2>2
  <1> QED
    BY <1>7, <1>8

LEMMA BlToldAutocalib ==
  ASSUME Types, BlToldOf, ReceiveBacklight, Started, NEW m \in BlMsg, m = Head(blQ),
         m.kind = "NO_AUTOCALIB_REQ", AutocalibCallback(m)
  PROVE  (\A why \in BlReasons : ToldOf(why)') /\ ("LID" \in bl_paused' <=> "LID" \in bl_paused)
  <1>1. /\ UNCHANGED <<stateVars, sens_avail, bl_on, slip>>
        /\ IF m.arg # no_auto_calib
             THEN no_auto_calib' = m.arg /\ bl_paused' = Reasons(bl_paused, m.arg, "AUTOCALIB")
             ELSE UNCHANGED <<no_auto_calib, bl_paused>>
    BY ReceiveFrame DEF AutocalibCallback, Pause
  <1>2. m.arg \in BOOLEAN
    BY BlMessageRead
  <1>3. /\ "AUTOCALIB" \in BlReasons /\ \A why \in BlReasons : m.kind \notin Tellers(why)
        /\ \A why \in BlReasons : ToldOf(why)
    BY TellsNothing DEF BlReasons, BlToldOf
  <1>4. CASE m.arg # no_auto_calib
    <2>1. /\ "AUTOCALIB" \in bl_paused' <=> no_auto_calib'
          /\ \A why : why # "AUTOCALIB" => (why \in bl_paused' <=> why \in bl_paused)
      BY <1>1, <1>2, <1>4, ReasonsExact
    <2>2. ToldOf("AUTOCALIB")'
      BY <2>1, DueIsNext DEF ToldOf
    <2>3. ASSUME NEW why \in BlReasons \ {"AUTOCALIB"} PROVE ToldOf(why)'
      BY <1>1, <1>3, <2>1, ToldOthers
    <2> QED
      BY <2>1, <2>2, <2>3
  <1>5. CASE m.arg = no_auto_calib
    <2>1. ASSUME NEW why \in BlReasons PROVE ToldOf(why)'
      <3>1. Due(why)' <=> Due(why)
        BY <1>1, <1>5, DueKept DEF stateVars, Current, Slot
      <3>2. \A kind \in Tellers(why) : Unread(blQ, kind) => Unread(blQ', kind)
        BY <1>3, UnreadRest
      <3> QED
        BY <1>1, <1>3, <1>5, <3>1, <3>2, ToldKept
    <2> QED
      BY <1>1, <1>5, <2>1
  <1> QED
    BY <1>4, <1>5

LEMMA BlToldFlagRead ==
  ASSUME Types, BlToldOf, ReceiveBacklight, Started, NEW m, m = Head(blQ),
         m.kind \in Told \ {"LID"}, FlagCallback(m)
  PROVE  (\A why \in BlReasons : ToldOf(why)') /\ ("LID" \in bl_paused' <=> "LID" \in bl_paused)
  <1>1. /\ UNCHANGED <<stateVars, sens_avail, no_auto_calib, bl_on>>
        /\ bl_paused' = Reasons(bl_paused, flags[m.kind], m.kind) /\ slip' = slip \ {m.kind}
    BY ReceiveFrame DEF FlagCallback, Pause, blConf
  <1>2. flags[m.kind] \in BOOLEAN
    BY DEF Types, StateType
  <1>3. /\ m.kind \in bl_paused' <=> flags[m.kind]
        /\ \A why : why # m.kind => (why \in bl_paused' <=> why \in bl_paused)
    BY <1>1, <1>2, ReasonsExact
  <1>4. ToldOf(m.kind)'
    <2>1. Due(m.kind)' <=> flags[m.kind]
      BY <1>1, DueIsNext DEF stateVars
    <2>2. (m.kind \in bl_paused)' <=> m.kind \in bl_paused'
      OBVIOUS
    <2>3. UNCHANGED m
      OBVIOUS
    <2> QED
      BY <1>3, <2>1 DEF ToldOf
  <1>5. ASSUME NEW why \in BlReasons \ {m.kind} PROVE ToldOf(why)'
    <2>1. m.kind \in Tellers(m.kind) /\ m.kind \in BlReasons /\ ToldOf(why)
      BY DEF Tellers, BlReasons, BlToldOf
    <2> QED
      BY <1>1, <1>3, <2>1, ToldOthers
  <1> QED
    BY <1>3, <1>4, <1>5

LEMMA BlToldLid ==
  ASSUME Types, BlToldOf, ReceiveBacklight, Started, NEW m, m = Head(blQ), m.kind = "LID", OnLidUpdate
  PROVE  (\A why \in BlReasons : ToldOf(why)') /\ ("LID" \in bl_paused' => lid_pauses)
  <1>1. /\ UNCHANGED <<stateVars, sens_avail, no_auto_calib, bl_on>>
        /\ IF flags["LID"] /\ ~lid_pauses THEN UNCHANGED bl_paused
                                          ELSE bl_paused' = Reasons(bl_paused, flags["LID"], "LID")
    BY ReceiveFrame DEF OnLidUpdate, Pause, blConf
  <1>2. \A why \in BlReasons : why \in slip' <=> why \in slip
    BY SetTimerSlip DEF OnLidUpdate
  <1>3. flags["LID"] \in BOOLEAN /\ lid_pauses \in BOOLEAN
    BY BacklightAssumption DEF Types, StateType, Told
  <1>4. /\ "LID" \in bl_paused' <=> flags["LID"] /\ lid_pauses
        /\ \A why : why # "LID" => (why \in bl_paused' <=> why \in bl_paused)
    <2>1. CASE flags["LID"] /\ ~lid_pauses
      BY <1>1, <2>1 DEF BlToldOf
    <2>2. CASE ~(flags["LID"] /\ ~lid_pauses)
      BY <1>1, <1>3, <2>2, ReasonsExact
    <2> QED
      BY <2>1, <2>2
  <1>5. ToldOf("LID")'
    <2>1. Due("LID")' <=> flags["LID"] /\ lid_pauses
      BY <1>1, DueIsNext DEF stateVars
    <2> QED
      BY <1>4, <2>1 DEF ToldOf
  <1>6. ASSUME NEW why \in BlReasons \ {"LID"} PROVE ToldOf(why)'
    <2>1. m.kind \in Tellers("LID") /\ "LID" \in BlReasons /\ ToldOf(why)
      BY DEF Tellers, Told, BlReasons, BlToldOf
    <2> QED
      BY <1>1, <1>2, <1>4, <2>1, ToldOthers
  <1> QED
    BY <1>4, <1>5, <1>6

LEMMA BlToldReceive ==
  ASSUME Types, BlToldOf, ReceiveBacklight
  PROVE  BlToldOf'
  <1> DEFINE m == Head(blQ)
  <1>1. m \in BlMsg /\ UNCHANGED <<stateVars, sens_avail>>
    BY ReceiveFrame, ReadBl
  <1>2. CASE Hear(m)
    BY <1>2, BlToldHear
  <1>3. CASE ReceiveChange(m)
    <2>1. Started /\ ok' = ok
      BY <1>3 DEF ReceiveChange
    <2>2. (\A why \in BlReasons : ToldOf(why)') /\ ("LID" \in bl_paused' => lid_pauses)
      <3>1. CASE m.kind = "UPOWER" /\ UPowerCallback
        <4>1. bl_paused' = bl_paused
          BY <3>1 DEF UPowerCallback
        <4> QED
          BY <2>1, <3>1, <4>1, BlToldUPower DEF BlToldOf
      <3>2. CASE m.kind \in {"DAYTIME", "IN_EVENT"} /\ TimeCallback(m)
        BY <2>1, <3>2, BlToldTime DEF BlToldOf, TimeKinds
      <3>3. CASE m.kind = "BL_TO_REQ" /\ TimeoutCallback(m)
        BY <1>1, <2>1, <3>3, BlToldTimeout DEF BlToldOf
      <3>4. CASE m.kind = "NO_AUTOCALIB_REQ" /\ AutocalibCallback(m)
        BY <1>1, <2>1, <3>4, BlToldAutocalib DEF BlToldOf
      <3>5. CASE m.kind \in Told \ {"LID"} /\ FlagCallback(m)
        BY <2>1, <3>5, BlToldFlagRead DEF BlToldOf
      <3>6. CASE m.kind = "LID" /\ OnLidUpdate
        BY <2>1, <3>6, BlToldLid
      <3> QED
        BY <1>3, <3>1, <3>2, <3>3, <3>4, <3>5, <3>6 DEF ReceiveChange
    <2>3. \A why \in BlReasons : ToldOf(why)'
      BY <2>2
    <2> QED
      BY <2>2, <2>3 DEF BlToldOf
  <1>4. CASE Capture(m) \/ DropCapture(m) \/ SetNewBacklight(m)
    <2>1. /\ UNCHANGED <<no_auto_calib, bl_on, ok, bl_paused>>
          /\ m.kind \in {"CAPTURE_REQ", "TIMER", "SCREEN_BR"}
      BY <1>4 DEF Capture, DropCapture, SetNewBacklight, blConf
    <2>2. \A why \in BlReasons : why \in slip => why \in slip'
      BY <1>4 DEF Capture, DropCapture, SetNewBacklight, DoCapture, SetTimer, BlReasons, Told
    <2>3. m.kind \notin Told \cup TimeKinds \cup {"UPOWER"}
      BY <2>1 DEF Told, TimeKinds
    <2>4. \A kind \in Told \cup TimeKinds \cup {"UPOWER"} : Unread(blQ, kind) => Unread(blQ', kind)
      BY <2>3, UnreadRest
    <2> QED
      BY <1>1, <2>1, <2>2, <2>4, BlKept
  <1> QED
    BY <1>2, <1>3, <1>4 DEF ReceiveBacklight

\* The steps in which BACKLIGHT itself does nothing that counts here.
LEMMA BlToldElse ==
  ASSUME Types, BlToldOf,
         \/ UserAsks \/ TimerExpires \/ UNCHANGED vars
         \/ ReceiveScreen \/ \E told \in BOOLEAN : ScreenTimerExpires(told)
  PROVE  BlToldOf'
  <1>1. /\ UNCHANGED <<stateVars, sens_avail, no_auto_calib, bl_on, ok, bl_paused, slip>>
        /\ blQ' = blQ \/ \E kind, arg : blQ' = Publish(blQ, kind, arg)
    <2>1. CASE UserAsks
      BY <2>1, UserAsksWhat DEF blConf, blVars
    <2>2. CASE TimerExpires
      BY <2>2 DEF TimerExpires, blConf
    <2>3. CASE UNCHANGED vars
      BY <2>3 DEF vars, blConf, blVars
    <2>4. CASE ReceiveScreen \/ \E told \in BOOLEAN : ScreenTimerExpires(told)
      BY <2>4, ScreenFrame DEF BlHears, blConf, blVars
    <2> QED
      BY <2>1, <2>2, <2>3, <2>4
  <1>2. \A kind : Unread(blQ, kind) => Unread(blQ', kind)
    BY <1>1, UnreadMore DEF Types
  <1> QED
    BY <1>1, <1>2, BlKept

LEMMA InitBlTold == Init => BlToldOf
  BY DEF Init, BlToldOf, Started, Awaited

LEMMA NextBlTold == Types /\ BlToldOf /\ [Next]_vars => BlToldOf'
  BY BlToldFlag, BlToldClock, BlToldSensor, BlToldReceive, BlToldElse DEF Next

-----------------------------------------------------------------------------
(***************************************************************************)
(* The same of SCREEN.  While it waits, UPOWER's message is the first it   *)
(* reads, and all that pauses it is behind; of the sensor it hears from    *)
(* the start of BACKLIGHT on.                                              *)
(***************************************************************************)
ScrTracked == Told \cup {"TIMEOUT", "CONTRIB", "SENSOR"}
ScrTeller(why) == IF why = "TIMEOUT" THEN "UPOWER" ELSE IF why = "CONTRIB" THEN "CONTRIB_REQ" ELSE why
ScrDue(why) == /\ why \in Told \ {"LID"} => flags[why]
               /\ why = "LID" => flags["LID"] /\ lid_pauses
               /\ why = "TIMEOUT" => ~scr_on[ac_state]
               /\ why = "CONTRIB" => ~contrib
               /\ why = "SENSOR" => ~sens_avail
ScrExact(why) == why \in scr_paused <=> ScrDue(why)
ScrTold(why) == Unread(scrQ, ScrTeller(why)) \/ ScrExact(why)

ScrWaits == scr = "waiting" =>
              /\ scrQ # <<>> /\ Head(scrQ).kind = "UPOWER"
              /\ \A why \in Told : flags[why] => Unread(scrQ, why)
              /\ Started => Unread(scrQ, "SENSOR")
ScrRuns == scr = "running" =>
             \A why \in ScrTracked : (why = "SENSOR" => Started) => ScrTold(why)
ScrLid == "LID" \in scr_paused => lid_pauses
ScrToldOf == ScrWaits /\ ScrRuns /\ ScrLid

LEMMA HeadPublish ==
  ASSUME NEW S, NEW q \in Seq(S), q # <<>>, NEW kind, NEW arg, [kind |-> kind, arg |-> arg] \in S
  PROVE  Publish(q, kind, arg) # <<>> /\ Head(Publish(q, kind, arg)).kind = Head(q).kind
  <1> DEFINE msg == [kind |-> kind, arg |-> arg]
             p == Publish(q, kind, arg)
  <1>1. /\ p \in Seq(S) /\ Len(p) = Len(q) + 1
        /\ \A i \in 1 .. Len(q) : p[i] = IF q[i].kind = kind THEN msg ELSE q[i]
    BY Published
  <1>2. Len(q) \in Nat /\ Len(q) > 0 /\ 1 \in 1 .. Len(q) /\ Head(q) = q[1]
    OBVIOUS
  <1>3. msg.kind = kind
    OBVIOUS
  <1> HIDE DEF p, msg
  <1>4. p # <<>> /\ Head(p) = p[1]
    BY <1>1, <1>2
  <1>5. p[1].kind = q[1].kind
    BY <1>1, <1>2, <1>3
  <1>6. p # <<>> /\ Head(p).kind = Head(q).kind
    BY <1>2, <1>4, <1>5
  <1> QED
    BY <1>6 DEF p

LEMMA FirstPublish ==
  ASSUME NEW q \in Seq(ScrMsg), NEW kind, NEW arg, [kind |-> kind, arg |-> arg] \in ScrMsg
  PROVE  Len(q) = 0 => /\ Publish(q, kind, arg) \in Seq(ScrMsg) /\ Publish(q, kind, arg) # <<>>
                       /\ Head(Publish(q, kind, arg)).kind = kind
  <1> DEFINE msg == [kind |-> kind, arg |-> arg]
             p == Publish(q, kind, arg)
  <1>1. /\ p \in Seq(ScrMsg) /\ Len(q) \in Nat /\ Len(p) = Len(q) + 1 /\ p[Len(q) + 1] = msg
        /\ \A i \in 1 .. Len(q) : p[i] = IF q[i].kind = kind THEN msg ELSE q[i]
    BY Published
  <1>2. msg.kind = kind
    OBVIOUS
  <1> HIDE DEF p, msg
  <1>3. p # <<>> /\ Head(p) = p[1]
    BY <1>1
  <1>4. Len(q) = 0 => p[1] = msg
    <2>1. Len(q) = 0 => Len(q) + 1 = 1
      OBVIOUS
    <2> QED
      BY <1>1, <2>1
  <1>5. Len(q) = 0 => p \in Seq(ScrMsg) /\ p # <<>> /\ Head(p).kind = kind
    BY <1>1, <1>2, <1>3, <1>4
  <1> QED
    BY <1>5 DEF p

\* What SCREEN is told while it does not read: of all that pauses it, when it changes.
PipeGrows == /\ \A kind : Unread(scrQ, kind) => Unread(scrQ', kind)
             /\ scrQ # <<>> => scrQ' # <<>> /\ Head(scrQ').kind = Head(scrQ).kind
Tells == /\ UNCHANGED <<scr, scr_paused, scr_on, contrib>>
         /\ scr # "absent" =>
              /\ PipeGrows
              /\ \A why \in Told : flags'[why] = flags[why] \/ Unread(scrQ', why)
              /\ ac_state' = ac_state \/ Unread(scrQ', "UPOWER")
              /\ (sens_avail' = sens_avail /\ (Started' <=> Started)) \/ Unread(scrQ', "SENSOR")

LEMMA TellsPipe ==
  ASSUME Types, NEW kind, NEW arg, [kind |-> kind, arg |-> arg] \in ScrMsg, TellScreen(kind, arg)
  PROVE  scr # "absent" => PipeGrows /\ Unread(scrQ', kind)
  <1> SUFFICES ASSUME scr # "absent" PROVE PipeGrows /\ Unread(scrQ', kind)
    OBVIOUS
  <1>1. scrQ' = Publish(scrQ, kind, arg) /\ scrQ \in Seq(ScrMsg)
    BY DEF TellScreen, Types, PipesType
  <1> QED
    BY <1>1, UnreadPublish, HeadPublish DEF PipeGrows

LEMMA TellsSame == UNCHANGED scrQ => PipeGrows
  BY DEF PipeGrows

LEMMA StepTells ==
  ASSUME Types,
         \/ \E why \in Told : FlagChanges(why)
         \/ UPowerChanges \/ TimeChanges \/ UserAsks \/ OnSensorChange \/ TimerExpires \/ ReceiveBacklight
         \/ UNCHANGED vars \/ \E told \in BOOLEAN : ScreenTimerExpires(told)
  PROVE  Tells
  <1>1. CASE \E why \in Told : FlagChanges(why)
    <2>1. PICK f \in Told : FlagChanges(f)
      BY <1>1
    <2>2. /\ UNCHANGED <<scr, scr_paused, scr_on, contrib, ac_state, sens_avail, ok>> /\ TellScreen(f, 0)
          /\ flags' = [flags EXCEPT ![f] = ~@]
      BY <2>1 DEF FlagChanges, scrConf, scrVars, blVars
    <2>3. scr # "absent" => PipeGrows /\ Unread(scrQ', f)
      BY <2>2, TellsPipe, ScrMessages
    <2>4. \A why \in Told : flags'[why] = flags[why] \/ why = f
      BY <2>2 DEF Types, StateType
    <2> QED
      BY <2>2, <2>3, <2>4 DEF Tells, Started, Awaited
  <1>2. CASE UPowerChanges
    <2>1. UNCHANGED <<scr, scr_paused, scr_on, contrib, flags, sens_avail, ok>> /\ TellScreen("UPOWER", ac_state)
      BY <1>2 DEF UPowerChanges, scrConf, scrVars, blVars
    <2>2. scr # "absent" => PipeGrows /\ Unread(scrQ', "UPOWER")
      BY <2>1, TellsPipe, ScrMessages DEF Types, StateType
    <2> QED
      BY <2>1, <2>2 DEF Tells, Started, Awaited
  <1>3. CASE TimeChanges \/ TimerExpires \/ UNCHANGED vars \/ \E told \in BOOLEAN : ScreenTimerExpires(told)
    <2>1. UNCHANGED <<scr, scr_paused, scr_on, contrib, flags, ac_state, sens_avail, ok, scrQ>>
      BY <1>3 DEF TimeChanges, TimerExpires, ScreenTimerExpires, vars, scrConf, scrVars, blVars, stateVars
    <2> QED
      BY <2>1, TellsSame DEF Tells, Started, Awaited
  <1>4. CASE UserAsks
    <2>1. UNCHANGED <<scr, scr_paused, scr_on, contrib, flags, ac_state, sens_avail, ok>>
      BY <1>4, UserAsksWhat DEF scrConf, scrVars, blVars, stateVars
    <2>2. scr # "absent" => PipeGrows
      BY <1>4, UserAsksWhat, TellsSame, TellsPipe
    <2> QED
      BY <2>1, <2>2 DEF Tells, Started, Awaited
  <1>5. CASE OnSensorChange
    <2>1. UNCHANGED <<scr, scr_paused, scr_on, contrib, flags, ac_state, ok>> /\ TellScreen("SENSOR", 0)
      BY <1>5 DEF OnSensorChange, scrConf, scrVars, stateVars
    <2>2. scr # "absent" => PipeGrows /\ Unread(scrQ', "SENSOR")
      BY <2>1, TellsPipe, ScrMessages
    <2> QED
      BY <2>1, <2>2 DEF Tells
  <1>6. CASE ReceiveBacklight
    <2>1. UNCHANGED <<scr, scr_paused, scr_on, contrib, flags, ac_state, sens_avail>> /\ ScrHears
      BY <1>6, ReceiveFrame DEF scrConf, scrVars, stateVars
    <2>2. scr # "absent" => PipeGrows
      BY <2>1, TellsSame, TellsPipe, ScrMessages DEF ScrHears
    <2>3. scr # "absent" => (Started' <=> Started) \/ Unread(scrQ', "SENSOR")
      <3> DEFINE m == Head(blQ)
      <3>1. CASE Hear(m) /\ ok' = Awaited
        <4>1. TellScreen("SENSOR", 0)
          BY <3>1 DEF Hear
        <4> QED
          BY <4>1, TellsPipe, ScrMessages
      <3>2. CASE Hear(m) /\ ok' # Awaited
        BY <3>2 DEF Hear, Started, Awaited
      <3>3. CASE ~Hear(m)
        <4>1. ok' = ok
          BY <1>6, <3>3 DEF ReceiveBacklight, ReceiveChange, Capture, DropCapture, SetNewBacklight
        <4> QED
          BY <4>1 DEF Started, Awaited
      <3> QED
        BY <3>1, <3>2, <3>3
    <2> QED
      BY <2>1, <2>2, <2>3 DEF Tells
  <1> QED
    BY <1>1, <1>2, <1>3, <1>4, <1>5, <1>6

LEMMA ScrDueKept ==
  ASSUME NEW why,
         why \in Told => flags'[why] = flags[why], why = "TIMEOUT" => scr_on'[ac_state'] = scr_on[ac_state],
         why = "CONTRIB" => contrib' = contrib, why = "SENSOR" => sens_avail' = sens_avail
  PROVE  ScrDue(why)' <=> ScrDue(why)
  BY DEF ScrDue, Told

LEMMA UnreadPrime == \A kind : Unread(scrQ, kind)' <=> Unread(scrQ', kind)
  BY DEF Unread, NoneUnread

LEMMA ScrToldTells ==
  ASSUME ScrToldOf, Tells
  PROVE  ScrToldOf'
  <1>1. UNCHANGED <<scr, scr_paused, scr_on, contrib>>
    BY DEF Tells
  <1>2. ScrLid'
    BY <1>1 DEF ScrToldOf, ScrLid
  <1>3. ScrWaits'
    <2> SUFFICES ASSUME scr = "waiting" PROVE ScrWaits'
      BY <1>1 DEF ScrWaits
    <2>1. PipeGrows /\ scrQ # <<>> /\ Head(scrQ).kind = "UPOWER"
      BY DEF Tells, ScrToldOf, ScrWaits
    <2>2. scrQ' # <<>> /\ Head(scrQ').kind = "UPOWER"
      BY <2>1 DEF PipeGrows
    <2>3. \A why \in Told : flags'[why] => Unread(scrQ', why)
      BY <2>1 DEF Tells, ScrToldOf, ScrWaits, PipeGrows
    <2>4. Started' => Unread(scrQ', "SENSOR")
      BY <2>1 DEF Tells, ScrToldOf, ScrWaits, PipeGrows
    <2> QED
      BY <2>2, <2>3, <2>4, UnreadPrime DEF ScrWaits, Told
  <1>4. ScrRuns'
    <2> SUFFICES ASSUME scr = "running", NEW why \in ScrTracked, why = "SENSOR" => Started'
                 PROVE  ScrTold(why)'
      BY <1>1 DEF ScrRuns, ScrTracked, Told
    <2>1. /\ PipeGrows
          /\ why \in Told => flags'[why] = flags[why] \/ Unread(scrQ', why)
          /\ ac_state' = ac_state \/ Unread(scrQ', "UPOWER")
          /\ (sens_avail' = sens_avail /\ (Started' <=> Started)) \/ Unread(scrQ', "SENSOR")
      BY DEF Tells
    <2>2. CASE Unread(scrQ', ScrTeller(why))
      BY <2>2, UnreadPrime DEF ScrTold, ScrTeller
    <2>3. CASE ~Unread(scrQ', ScrTeller(why))
      <3>1. ScrDue(why)' <=> ScrDue(why)
        BY <1>1, <2>1, <2>3, ScrDueKept DEF ScrTeller, Told
      <3>2. ~Unread(scrQ, ScrTeller(why))
        BY <2>1, <2>3 DEF PipeGrows
      <3>3. why = "SENSOR" => Started
        BY <2>1, <2>3 DEF ScrTeller
      <3>4. ScrExact(why)
        BY <3>2, <3>3 DEF ScrToldOf, ScrRuns, ScrTold
      <3> QED
        BY <1>1, <3>1, <3>4 DEF ScrTold, ScrExact
    <2> QED
      BY <2>2, <2>3
  <1> QED
    BY <1>2, <1>3, <1>4 DEF ScrToldOf

\* A message that SCREEN reads concerns one reason; the others stay as they are.
LEMMA ScrReads ==
  ASSUME Types, ReceiveScreen
  PROVE  /\ Head(scrQ) \in ScrMsg
         /\ \A kind : kind # Head(scrQ).kind => (Unread(scrQ, kind) => Unread(scrQ', kind))
         /\ UNCHANGED <<stateVars, sens_avail, ok>>
  BY ReadScr DEF ReceiveScreen, blVars

LEMMA ScrOthers ==
  ASSUME Types, ReceiveScreen, NEW why \in ScrTracked, ScrTold(why), ScrTeller(why) # Head(scrQ).kind,
         why \in scr_paused' <=> why \in scr_paused,
         why = "TIMEOUT" => scr_on'[ac_state] = scr_on[ac_state], why = "CONTRIB" => contrib' = contrib
  PROVE  ScrTold(why)'
  <1>1. UNCHANGED <<stateVars, sens_avail>>
    BY ScrReads
  <1>2. ScrDue(why)' <=> ScrDue(why)
    BY <1>1, ScrDueKept DEF stateVars
  <1>3. Unread(scrQ, ScrTeller(why)) => Unread(scrQ', ScrTeller(why))
    BY ScrReads
  <1>4. ScrTeller(why)' = ScrTeller(why)
    BY DEF ScrTeller
  <1> QED
    BY <1>2, <1>3, <1>4, UnreadPrime DEF ScrTold, ScrExact

\* What one reason may do to the invariant, if it is exact afterwards.
LEMMA ScrOne ==
  ASSUME Types, ScrToldOf, ReceiveScreen, scr = "running", scr' = "running", NEW r,
         r \in ScrTracked => ScrExact(r)',
         \A why \in ScrTracked \ {r} : ScrTeller(why) # Head(scrQ).kind,
         \A why \in ScrTracked \ {r} : why \in scr_paused' <=> why \in scr_paused,
         r # "TIMEOUT" => scr_on'[ac_state] = scr_on[ac_state], r # "CONTRIB" => contrib' = contrib,
         r = "LID" => ("LID" \in scr_paused' => lid_pauses)
  PROVE  ScrToldOf'
  <1>1. UNCHANGED ok
    BY ScrReads
  <1>2. Started' <=> Started
    BY <1>1 DEF Started, Awaited
  <1>3. ASSUME NEW why \in ScrTracked, why = "SENSOR" => Started
        PROVE  ScrTold(why)'
    <2>1. CASE why = r
      BY <2>1 DEF ScrTold
    <2>2. CASE why # r
      <3>1. ScrTold(why)
        BY <1>3 DEF ScrToldOf, ScrRuns
      <3> QED
        BY <2>2, <3>1, ScrOthers
    <2> QED
      BY <2>1, <2>2
  <1>4. ScrRuns'
    BY <1>2, <1>3 DEF ScrRuns, ScrTracked, Told
  <1>5. ScrLid'
    <2>1. CASE r = "LID"
      BY <2>1 DEF ScrLid
    <2>2. CASE r # "LID"
      <3>1. "LID" \in ScrTracked \ {r}
        BY <2>2 DEF ScrTracked, Told
      <3> QED
        BY <3>1 DEF ScrLid, ScrToldOf
    <2> QED
      BY <2>1, <2>2
  <1>6. ScrWaits'
    BY DEF ScrWaits
  <1> QED
    BY <1>4, <1>5, <1>6 DEF ScrToldOf

LEMMA PauseScreenExact ==
  ASSUME NEW pause \in BOOLEAN, NEW why, PauseScreen(pause, why)
  PROVE  /\ why \in scr_paused' <=> pause
         /\ \A other : other # why => (other \in scr_paused' <=> other \in scr_paused)
  BY ReasonsExact DEF PauseScreen

LEMMA ScrDueIs ==
  /\ \A why \in Told \ {"LID"} : ScrDue(why)' <=> flags'[why]
  /\ ScrDue("LID")' <=> flags'["LID"] /\ lid_pauses
  /\ ScrDue("TIMEOUT")' <=> ~scr_on'[ac_state']
  /\ ScrDue("CONTRIB")' <=> ~contrib'
  /\ ScrDue("SENSOR")' <=> ~sens_avail'
  BY DEF ScrDue, Told

\* Whom the reasons are told by, one by one.
LEMMA ScrTellers ==
  /\ \A why \in ScrTracked, r \in Told \cup {"SENSOR"} : why # r => ScrTeller(why) # r
  /\ \A why \in ScrTracked \ {"TIMEOUT"} : ScrTeller(why) # "UPOWER"
  /\ \A why \in ScrTracked \ {"CONTRIB"} : ScrTeller(why) # "CONTRIB_REQ"
  /\ \A why \in ScrTracked : ScrTeller(why) \notin {"AUTOCALIB", "SCR_TO_REQ", "AMBIENT_BR"}
  BY DEF ScrTracked, ScrTeller, Told

\* A reason that PauseScreen brings up to date, told by its own message.
LEMMA ScrPauseTold ==
  ASSUME Types, ScrToldOf, ReceiveScreen, scr = "running", scr' = scr, UNCHANGED scrConf,
         NEW pause \in BOOLEAN, NEW r, PauseScreen(pause, r),
         \/ r = "SENSOR" /\ (pause <=> ~sens_avail)
         \/ r \in Told /\ (pause <=> flags[r]) /\ (r = "LID" => lid_pauses)
         \/ r \notin ScrTracked,
         \A why \in ScrTracked \ {r} : ScrTeller(why) # Head(scrQ).kind
  PROVE  ScrToldOf'
  <1>1. /\ r \in scr_paused' <=> pause
        /\ \A why \in ScrTracked \ {r} : why \in scr_paused' <=> why \in scr_paused
    BY PauseScreenExact
  <1>2. UNCHANGED <<stateVars, sens_avail>>
    BY ScrReads
  <1>3. r \in ScrTracked => ScrExact(r)'
    <2>1. (r \in scr_paused)' <=> r \in scr_paused'
      OBVIOUS
    <2>2. CASE r = "SENSOR"
      <3>1. pause <=> ~sens_avail
        BY <2>2 DEF ScrTracked, Told
      <3> QED
        BY <1>1, <1>2, <2>2, <3>1, ScrDueIs DEF ScrExact
    <2>3. CASE r \in Told \ {"LID"}
      <3>1. ScrDue(r)' <=> flags[r]
        BY <1>2, <2>3, ScrDueIs DEF stateVars
      <3>2. pause <=> flags[r]
        BY <2>3 DEF ScrTracked, Told
      <3> QED
        BY <1>1, <3>1, <3>2 DEF ScrExact
    <2>4. CASE r = "LID"
      <3>1. (pause <=> flags["LID"]) /\ lid_pauses
        BY <2>4 DEF ScrTracked, Told
      <3> QED
        BY <1>1, <1>2, <2>4, <3>1, ScrDueIs DEF ScrExact, stateVars
    <2>5. CASE r \notin ScrTracked
      BY <2>5
    <2> QED
      BY <2>2, <2>3, <2>4, <2>5
  <1>4. r = "LID" => lid_pauses
    BY DEF ScrTracked, Told
  <1> QED
    BY <1>1, <1>3, <1>4, ScrOne DEF scrConf

\* timeout_callback of SCREEN brings the reason TIMEOUT up to date.
LEMMA ScrTimeoutTold ==
  ASSUME Types, ScrToldOf, ReceiveScreen, scr = "running", scr' = scr, contrib' = contrib,
         NEW old, ScreenTimeout(scr_on', old), scr_on'[ac_state] \in BOOLEAN,
         \A why \in ScrTracked \ {"TIMEOUT"} : ScrTeller(why) # Head(scrQ).kind
  PROVE  ScrToldOf'
  <1>1. PauseScreen(~scr_on'[ac_state], "TIMEOUT") /\ (~scr_on'[ac_state]) \in BOOLEAN
    BY DEF ScreenTimeout
  <1>2. /\ "TIMEOUT" \in scr_paused' <=> ~scr_on'[ac_state]
        /\ \A why \in ScrTracked \ {"TIMEOUT"} : why \in scr_paused' <=> why \in scr_paused
    BY <1>1, PauseScreenExact
  <1>3. UNCHANGED ac_state
    BY ScrReads DEF stateVars
  <1>4. ScrExact("TIMEOUT")'
    BY <1>2, <1>3, ScrDueIs DEF ScrExact
  <1> QED
    BY <1>2, <1>4, ScrOne

\* Nothing of what is tracked changes.
LEMMA ScrSame ==
  ASSUME Types, ScrToldOf, ReceiveScreen, scr = "running", scr' = scr,
         scr_on'[ac_state] = scr_on[ac_state], contrib' = contrib,
         \A why \in ScrTracked : why \in scr_paused' <=> why \in scr_paused,
         \A why \in ScrTracked : ScrTeller(why) # Head(scrQ).kind
  PROVE  ScrToldOf'
  <1>1. "none" \notin ScrTracked /\ "none" \notin {"TIMEOUT", "CONTRIB", "LID"}
    BY DEF ScrTracked, Told
  <1> QED
    BY <1>1, ScrOne

LEMMA ScrToldStarts ==
  ASSUME Types, ScrToldOf, ReceiveScreen, ScreenStarts(Head(scrQ))
  PROVE  ScrToldOf'
  <1>1. /\ scr = "waiting" /\ scr' = "running" /\ UNCHANGED <<scr_on, contrib>>
        /\ scr_paused' = (IF scr_on[ac_state] THEN {} ELSE {"TIMEOUT"}) \cup (IF contrib THEN {} ELSE {"CONTRIB"})
        /\ Head(scrQ).kind = "UPOWER"
    BY DEF ScreenStarts, scrConf
  <1>2. UNCHANGED <<stateVars, sens_avail, ok>> /\ (Started' <=> Started)
    BY ScrReads DEF Started, Awaited
  <1>3. /\ \A why \in Told : flags[why] => Unread(scrQ', why)
        /\ Started => Unread(scrQ', "SENSOR")
    BY <1>1, ScrReads DEF ScrToldOf, ScrWaits, Told
  <1>4. ASSUME NEW why \in ScrTracked, why = "SENSOR" => Started
        PROVE  ScrTold(why)'
    <2>1. CASE why \in Told \ {"LID"}
      <3>1. ScrTeller(why) = why /\ why \notin scr_paused'
        BY <1>1, <2>1 DEF ScrTeller, Told
      <3>2. ScrDue(why)' <=> flags[why]
        BY <1>2, <2>1, ScrDueIs DEF stateVars
      <3> QED
        BY <1>3, <2>1, <3>1, <3>2, UnreadPrime DEF ScrTold, ScrExact, ScrTeller
    <2>2. CASE why = "LID"
      <3>1. ScrTeller(why) = why /\ why \notin scr_paused' /\ "LID" \in Told
        BY <1>1, <2>2 DEF ScrTeller, Told
      <3>2. ScrDue("LID")' <=> flags["LID"] /\ lid_pauses
        BY <1>2, ScrDueIs DEF stateVars
      <3> QED
        BY <1>3, <2>2, <3>1, <3>2, UnreadPrime DEF ScrTold, ScrExact, ScrTeller
    <2>3. CASE why = "TIMEOUT"
      <3>1. "TIMEOUT" \in scr_paused' <=> ~scr_on[ac_state]
        BY <1>1
      <3>2. ScrDue("TIMEOUT")' <=> ~scr_on[ac_state]
        BY <1>1, <1>2, ScrDueIs DEF stateVars
      <3> QED
        BY <2>3, <3>1, <3>2 DEF ScrTold, ScrExact
    <2>4. CASE why = "CONTRIB"
      <3>1. "CONTRIB" \in scr_paused' <=> ~contrib
        BY <1>1
      <3>2. ScrDue("CONTRIB")' <=> ~contrib
        BY <1>1, ScrDueIs
      <3> QED
        BY <2>4, <3>1, <3>2 DEF ScrTold, ScrExact
    <2>5. CASE why = "SENSOR"
      BY <1>3, <1>4, <2>5, UnreadPrime DEF ScrTold, ScrTeller
    <2> QED
      BY <2>1, <2>2, <2>3, <2>4, <2>5 DEF ScrTracked
  <1>5. ScrRuns'
    BY <1>2, <1>4 DEF ScrRuns, ScrTracked, Told
  <1>6. ScrWaits' /\ ScrLid'
    BY <1>1 DEF ScrWaits, ScrLid
  <1> QED
    BY <1>5, <1>6 DEF ScrToldOf

LEMMA ScrToldChange ==
  ASSUME Types, ScrToldOf, ReceiveScreen, ScreenChange(Head(scrQ))
  PROVE  ScrToldOf'
  <1> DEFINE m == Head(scrQ)
  <1>1. scr = "running" /\ scr' = scr /\ m \in ScrMsg
    BY ScrReads DEF ScreenChange
  <1>2. flags \in [Told -> BOOLEAN] /\ sens_avail \in BOOLEAN /\ ac_state \in AcStates /\ scr_on \in [AcStates -> BOOLEAN]
    BY DEF Types, StateType, SensType, ScrConfType
  <1>3. CASE m.kind \in Told \ {"LID"} /\ PauseScreen(flags[m.kind], m.kind) /\ UNCHANGED scrConf
    <2>1. flags[m.kind] \in BOOLEAN /\ m.kind \in Told /\ m.kind # "LID"
      BY <1>2, <1>3
    <2>2. \A why \in ScrTracked \ {m.kind} : ScrTeller(why) # m.kind
      BY <2>1, ScrTellers
    <2> QED
      BY <1>1, <1>3, <2>1, <2>2, ScrPauseTold
  <1>4. CASE /\ m.kind = "LID" /\ UNCHANGED scrConf
             /\ IF lid_pauses THEN PauseScreen(flags["LID"], "LID") ELSE UNCHANGED <<scr_paused, screen_br>>
    <2>1. flags["LID"] \in BOOLEAN /\ "LID" \in Told
      BY <1>2 DEF Told
    <2>2. \A why \in ScrTracked \ {"LID"} : ScrTeller(why) # m.kind
      BY <1>4, <2>1, ScrTellers
    <2>3. CASE lid_pauses
      BY <1>1, <1>4, <2>1, <2>2, <2>3, ScrPauseTold
    <2>4. CASE ~lid_pauses
      <3>1. ScrDue("LID")' <=> FALSE
        BY <2>4, ScrDueIs
      <3>2. "LID" \notin scr_paused /\ scr_paused' = scr_paused
        BY <1>4, <2>4 DEF ScrToldOf, ScrLid
      <3>3. ScrExact("LID")'
        BY <3>1, <3>2 DEF ScrExact
      <3> QED
        BY <1>1, <1>4, <2>2, <3>2, <3>3, ScrOne DEF scrConf
    <2> QED
      BY <2>3, <2>4
  <1>5. CASE m.kind = "SENSOR" /\ PauseScreen(~sens_avail, "SENSOR") /\ UNCHANGED scrConf
    <2>1. (~sens_avail) \in BOOLEAN /\ \A why \in ScrTracked \ {"SENSOR"} : ScrTeller(why) # m.kind
      BY <1>5, ScrTellers
    <2> QED
      BY <1>1, <1>5, <2>1, ScrPauseTold
  <1>6. CASE m.kind = "AUTOCALIB" /\ PauseScreen(m.arg, "AUTOCALIB") /\ UNCHANGED scrConf
    <2>1. m.arg \in BOOLEAN
      BY <1>1, <1>6, ScrMessageRead
    <2>2. "AUTOCALIB" \notin ScrTracked /\ \A why \in ScrTracked \ {"AUTOCALIB"} : ScrTeller(why) # m.kind
      BY <1>6, ScrTellers DEF ScrTracked, Told
    <2> QED
      BY <1>1, <1>6, <2>1, <2>2, ScrPauseTold
  <1>7. CASE m.kind = "UPOWER" /\ ScreenTimeout(scr_on, scr_on[m.arg]) /\ UNCHANGED scrConf
    <2>1. ScreenTimeout(scr_on', scr_on[m.arg]) /\ contrib' = contrib /\ scr_on'[ac_state] \in BOOLEAN
      BY <1>2, <1>7 DEF scrConf
    <2>2. \A why \in ScrTracked \ {"TIMEOUT"} : ScrTeller(why) # m.kind
      BY <1>7, ScrTellers
    <2> QED
      BY <1>1, <2>1, <2>2, ScrTimeoutTold
  <1>8. CASE /\ m.kind = "SCR_TO_REQ" /\ UNCHANGED contrib
             /\ scr_on' = [scr_on EXCEPT ![m.arg.ac] = m.arg.on]
             /\ IF m.arg.ac = ac_state THEN ScreenTimeout(scr_on', scr_on[m.arg.ac])
                                       ELSE UNCHANGED <<scr_paused, scr_armed, screen_br>>
    <2>1. m.arg.ac \in AcStates /\ m.arg.on \in BOOLEAN
      BY <1>1, <1>8, ScrMessageRead
    <2>2. \A why \in ScrTracked : ScrTeller(why) # m.kind
      BY <1>8, ScrTellers
    <2>3. CASE m.arg.ac = ac_state
      <3>1. scr_on'[ac_state] \in BOOLEAN
        BY <1>2, <1>8, <2>1
      <3> QED
        BY <1>1, <1>8, <2>2, <2>3, <3>1, ScrTimeoutTold
    <2>4. CASE m.arg.ac # ac_state
      <3>1. scr_on'[ac_state] = scr_on[ac_state] /\ scr_paused' = scr_paused
        BY <1>2, <1>8, <2>1, <2>4
      <3> QED
        BY <1>1, <1>8, <2>2, <3>1, ScrSame
    <2> QED
      BY <2>3, <2>4
  <1> QED
    BY <1>3, <1>4, <1>5, <1>6, <1>7, <1>8 DEF ScreenChange

LEMMA ScrToldReceive ==
  ASSUME Types, ScrToldOf, ReceiveScreen
  PROVE  ScrToldOf'
  <1> DEFINE m == Head(scrQ)
  <1>1. m \in ScrMsg
    BY ScrReads
  <1>2. CASE ScreenStarts(m)
    BY <1>2, ScrToldStarts
  <1>3. CASE ScreenChange(m)
    BY <1>3, ScrToldChange
  <1>4. CASE Contrib(m)
    <2>1. /\ scr = "running" /\ scr' = scr /\ m.kind = "CONTRIB_REQ" /\ contrib' = m.arg
          /\ PauseScreen(~m.arg, "CONTRIB") /\ scr_on' = scr_on
      BY <1>4 DEF Contrib
    <2>2. m.arg \in BOOLEAN
      BY <1>1, <2>1, ScrMessageRead
    <2>3. (~m.arg) \in BOOLEAN
      OBVIOUS
    <2>4. /\ "CONTRIB" \in scr_paused' <=> ~m.arg
          /\ \A why : why # "CONTRIB" => (why \in scr_paused' <=> why \in scr_paused)
      BY <2>1, <2>3, PauseScreenExact
    <2>5. ScrExact("CONTRIB")'
      BY <2>1, <2>4, ScrDueIs DEF ScrExact
    <2>6. \A why \in ScrTracked \ {"CONTRIB"} : ScrTeller(why) # m.kind
      BY <2>1, ScrTellers
    <2> QED
      BY <2>1, <2>4, <2>5, <2>6, ScrOne
  <1>5. CASE AmbientBr(m)
    <2>1. /\ scr = "running" /\ scr' = scr /\ m.kind = "AMBIENT_BR" /\ scr_on' = scr_on /\ contrib' = contrib
          /\ scr_paused' = Reasons(scr_paused, clogged, "CLOGGED")
      BY <1>5 DEF AmbientBr, scrConf
    <2>2. clogged \in BOOLEAN
      BY DEF Types, BlType
    <2>3. \A why \in ScrTracked : why \in scr_paused' <=> why \in scr_paused
      BY <2>1, <2>2, ReasonsExact DEF ScrTracked, Told
    <2>4. \A why \in ScrTracked : ScrTeller(why) # m.kind
      BY <2>1, ScrTellers
    <2> QED
      BY <2>1, <2>3, <2>4, ScrSame
  <1> QED
    BY <1>2, <1>3, <1>4, <1>5 DEF ReceiveScreen

LEMMA InitScrTold == Init => ScrToldOf
  <1> SUFFICES ASSUME Init PROVE ScrToldOf
    OBVIOUS
  <1>1. /\ scr_paused = {} /\ scr # "running" /\ ~Started
        /\ scr = "waiting" => scrQ = Publish(Publish(<<>>, "UPOWER", ac_state), "LID", 0)
        /\ \A why \in Told : flags[why] => why = "LID"
        /\ ac_state \in AcStates
    BY DEF Init, Started, Awaited, Tell
  <1>2. [kind |-> "UPOWER", arg |-> ac_state] \in ScrMsg /\ [kind |-> "LID", arg |-> 0] \in ScrMsg
    BY <1>1, ScrMessages DEF Told
  <1>3. <<>> \in Seq(ScrMsg) /\ Len(<<>>) = 0
    OBVIOUS
  <1> DEFINE q == Publish(<<>>, "UPOWER", ac_state)
  <1>4. q \in Seq(ScrMsg) /\ q # <<>> /\ Head(q).kind = "UPOWER"
    BY <1>2, <1>3, FirstPublish
  <1> HIDE DEF q
  <1>5. /\ Publish(q, "LID", 0) # <<>> /\ Head(Publish(q, "LID", 0)).kind = "UPOWER"
        /\ Unread(Publish(q, "LID", 0), "LID")
    BY <1>2, <1>4, HeadPublish, UnreadPublish
  <1>6. ScrWaits
    BY <1>1, <1>5 DEF ScrWaits, q
  <1> QED
    BY <1>1, <1>6 DEF ScrToldOf, ScrRuns, ScrLid

LEMMA NextScrTold == Types /\ ScrToldOf /\ [Next]_vars => ScrToldOf'
  BY StepTells, ScrToldTells, ScrToldReceive DEF Next

(***************************************************************************)
(* With its pipe read, BACKLIGHT is paused for exactly the reasons there   *)
(* are, except those it was not told of; and so is SCREEN.                 *)
(***************************************************************************)
THEOREM PausedCorrect == Spec => []PausedAsTold
  <1> DEFINE I == Types /\ BlToldOf /\ ScrToldOf
  <1>1. Init => I
    BY InitTypes, InitBlTold, InitScrTold
  <1>2. I /\ [Next]_vars => I'
    BY NextTypes, NextBlTold, NextScrTold
  <1>3. I => PausedAsTold
    <2> SUFFICES ASSUME Types, BlToldOf, ScrToldOf PROVE PausedAsTold
      OBVIOUS
    <2>1. \A kind : ~Unread(<<>>, kind)
      BY DEF Unread, NoneUnread
    <2>2. ASSUME Started, blQ = <<>>, NEW why \in BlReasons \ slip PROVE why \in bl_paused <=> Due(why)
      BY <2>1, <2>2 DEF BlToldOf, ToldOf
    <2>3. ASSUME Started, scr = "running", scrQ = <<>>, NEW why \in ScrTracked
          PROVE  why \in scr_paused <=> ScrDue(why)
      BY <2>1, <2>3 DEF ScrToldOf, ScrRuns, ScrTold, ScrExact
    <2>4. /\ \A why \in Told \cup {"SENSOR"} : ScrDue(why) <=> Due(why)
          /\ ScrDue("TIMEOUT") <=> ~scr_on[ac_state]
          /\ ScrDue("CONTRIB") <=> ~contrib
      BY DueIs DEF ScrDue, Told
    <2> QED
      <3>1. Started /\ blQ = <<>> => \A why \in BlReasons \ slip : why \in bl_paused <=> Due(why)
        BY <2>2
      <3>2. ASSUME Started, scr = "running", scrQ = <<>>
            PROVE  /\ \A why \in Told \cup {"SENSOR"} : why \in scr_paused <=> Due(why)
                   /\ "TIMEOUT" \in scr_paused <=> ~scr_on[ac_state]
                   /\ "CONTRIB" \in scr_paused <=> ~contrib
        <4>1. Told \cup {"SENSOR"} \subseteq ScrTracked /\ {"TIMEOUT", "CONTRIB"} \subseteq ScrTracked
          BY DEF ScrTracked
        <4>2. \A why \in ScrTracked : why \in scr_paused <=> ScrDue(why)
          BY <2>3, <3>2
        <4>3. \A why \in Told \cup {"SENSOR"} : why \in scr_paused <=> Due(why)
          BY <2>4, <4>1, <4>2
        <4>4. ("TIMEOUT" \in scr_paused <=> ~scr_on[ac_state]) /\ ("CONTRIB" \in scr_paused <=> ~contrib)
          BY <2>4, <4>1, <4>2
        <4> QED
          BY <4>3, <4>4
      <3> QED
        BY <3>1, <3>2 DEF PausedAsTold
  <1> QED
    BY <1>1, <1>2, <1>3, PTL DEF Spec

-----------------------------------------------------------------------------
(***************************************************************************)
(* A timer that is not armed has its capture unread, or lost it; or the    *)
(* timeout is not positive, or was not before what BACKLIGHT reads next of *)
(* the time, or the cable's message will set it.                           *)
(***************************************************************************)
SlotBefore(m) ==
  IF m.kind = "DAYTIME" THEN (IF in_event THEN "IN_EVENT" ELSE m.arg)
                        ELSE IF in_event THEN day_time ELSE "IN_EVENT"
OffIn(q) == \E i \in 1 .. Len(q) : q[i].kind \in TimeKinds /\ ~bl_on[ac_state][SlotBefore(q[i])]
TimerSet == \/ Unread(blQ, "TIMER") \/ "CAPTURE" \in slip \/ Unread(blQ, "UPOWER")
            \/ ~Current(bl_on) \/ OffIn(blQ)
TimerKept == Started /\ ~bl_armed => TimerSet

LEMMA OffPublish ==
  ASSUME NEW q \in Seq(BlMsg), NEW kind, NEW arg, [kind |-> kind, arg |-> arg] \in BlMsg,
         kind \notin TimeKinds, OffIn(q)
  PROVE  OffIn(Publish(q, kind, arg))
  <1> DEFINE msg == [kind |-> kind, arg |-> arg]
             p == Publish(q, kind, arg)
  <1>1. /\ Len(q) \in Nat /\ Len(p) = Len(q) + 1
        /\ \A i \in 1 .. Len(q) : p[i] = IF q[i].kind = kind THEN msg ELSE q[i]
    BY Published
  <1> HIDE DEF p
  <1>2. PICK i \in 1 .. Len(q) : q[i].kind \in TimeKinds /\ ~bl_on[ac_state][SlotBefore(q[i])]
    BY DEF OffIn
  <1>3. p[i] = q[i] /\ i \in 1 .. Len(p)
    BY <1>1, <1>2
  <1>4. OffIn(p)
    BY <1>2, <1>3 DEF OffIn
  <1> QED
    BY <1>4 DEF p

\* A message that is read is what was off, or leaves it in the pipe; of two messages of
\* the time, or of a written timeout and a time behind it, there is only the first.
LEMMA OffTail ==
  ASSUME NEW q \in Seq(BlMsg), q # <<>>, OffIn(q)
  PROVE  /\ Head(q).kind \notin TimeKinds => OffIn(Tail(q))
         /\ InOrder(q) => /\ Head(q).kind # "BL_TO_REQ"
                          /\ Head(q).kind \in TimeKinds => ~bl_on[ac_state][SlotBefore(Head(q))]
  <1> DEFINE t == Tail(q)
  <1>1. /\ Len(q) \in Nat \ {0} /\ q[1] = Head(q) /\ Len(t) = Len(q) - 1
        /\ \A i \in 1 .. Len(q) - 1 : t[i] = q[i + 1]
    OBVIOUS
  <1>2. \A i \in 1 .. Len(q) : i = 1 \/ (i - 1 \in 1 .. Len(q) - 1 /\ (i - 1) + 1 = i /\ 1 < i)
    BY <1>1
  <1>3. 1 \in 1 .. Len(q)
    BY <1>1
  <1> HIDE DEF t
  <1>4. PICK i \in 1 .. Len(q) : q[i].kind \in TimeKinds /\ ~bl_on[ac_state][SlotBefore(q[i])]
    BY DEF OffIn
  <1>5. CASE i = 1
    <2>1. Head(q).kind \in TimeKinds /\ ~bl_on[ac_state][SlotBefore(Head(q))]
      BY <1>1, <1>4, <1>5
    <2> QED
      BY <2>1 DEF TimeKinds
  <1>6. CASE i # 1
    <2>1. i - 1 \in 1 .. Len(t) /\ t[i - 1] = q[i] /\ 1 < i
      BY <1>1, <1>2, <1>6
    <2>2. OffIn(t)
      BY <1>4, <2>1 DEF OffIn
    <2>3. InOrder(q) => Head(q).kind \notin TimeKinds \cup {"BL_TO_REQ"}
      BY <1>1, <1>3, <1>4, <2>1 DEF InOrder
    <2> QED
      BY <2>2, <2>3 DEF t
  <1> QED
    BY <1>5, <1>6

\* A step that keeps what explains a timer that is not armed.
LEMMA TimerSame ==
  ASSUME TimerKept, Started' => Started, ~bl_armed' => ~bl_armed,
         Unread(blQ, "TIMER") => Unread(blQ', "TIMER"), "CAPTURE" \in slip => "CAPTURE" \in slip',
         Unread(blQ, "UPOWER") => Unread(blQ', "UPOWER"),
         ~Current(bl_on) => ~Current(bl_on)' \/ OffIn(blQ)', OffIn(blQ) => OffIn(blQ)'
  PROVE  TimerKept'
  <1>1. \A kind : Unread(blQ, kind)' <=> Unread(blQ', kind)
    BY DEF Unread, NoneUnread
  <1> QED
    BY <1>1 DEF TimerKept, TimerSet

\* What another kind of message adds to the pipe is no matter.
LEMMA TimerElse ==
  ASSUME Types, TimerKept, UNCHANGED <<ac_state, day_time, in_event, bl_on, ok, bl_armed, slip>>,
         \/ blQ' = blQ
         \/ \E kind \in BlKinds \ TimeKinds : \E arg :
              [kind |-> kind, arg |-> arg] \in BlMsg /\ blQ' = Publish(blQ, kind, arg)
  PROVE  TimerKept'
  <1>1. \A kind : Unread(blQ, kind) => Unread(blQ', kind)
    BY UnreadMore DEF Types
  <1>2. OffIn(blQ) => OffIn(blQ')
    BY OffPublish DEF Types, PipesType
  <1>3. (OffIn(blQ') <=> OffIn(blQ)') /\ (Current(bl_on)' <=> Current(bl_on)) /\ (Started' <=> Started)
    BY DEF OffIn, SlotBefore, Current, Slot, Started, Awaited
  <1> QED
    BY <1>1, <1>2, <1>3, TimerSame

LEMMA TimerFlag ==
  ASSUME Types, TimerKept, NEW f \in Told, FlagChanges(f)
  PROVE  TimerKept'
  <1>1. /\ blQ' = Publish(blQ, f, 0)
        /\ UNCHANGED <<ac_state, day_time, in_event, bl_on, ok, bl_armed, slip>>
    BY DEF FlagChanges, Tell, blConf, blVars
  <1>2. f \in BlKinds \ TimeKinds /\ [kind |-> f, arg |-> 0] \in BlMsg
    BY BlMessages DEF BlKinds, TimeKinds, Told
  <1> QED
    BY <1>1, <1>2, TimerElse

LEMMA TimerCable ==
  ASSUME Types, UPowerChanges \/ TimerExpires
  PROVE  TimerKept'
  <1>1. \E kind \in {"UPOWER", "TIMER"} : \E arg : blQ' = Publish(blQ, kind, arg)
    BY DEF UPowerChanges, TimerExpires
  <1>2. Unread(blQ', "UPOWER") \/ Unread(blQ', "TIMER")
    BY <1>1, UnreadMore DEF Types
  <1> QED
    BY <1>2 DEF TimerKept, TimerSet, Unread, NoneUnread

\* The time changes: what was off is what it was before.
LEMMA TimerTime ==
  ASSUME Types, TimerKept, TimeChanges
  PROVE  TimerKept'
  <1>1. /\ UNCHANGED <<ac_state, bl_on, ok, bl_armed, slip>>
        /\ \A kind \in TimeKinds : ~Unread(blQ, kind)
        /\ \/ blQ' = Publish(blQ, "DAYTIME", day_time) /\ in_event' = in_event
           \/ blQ' = Publish(blQ, "IN_EVENT", 0) /\ day_time' = day_time /\ in_event' = ~in_event
    BY DEF TimeChanges, Tell, blConf, blVars, Unread, TimeKinds
  <1>2. blQ \in Seq(BlMsg) /\ day_time \in {"DAY", "NIGHT", "UNKNOWN"} /\ in_event \in BOOLEAN
    BY DEF Types, PipesType, StateType
  <1>3. \A kind : Unread(blQ, kind) => Unread(blQ', kind)
    BY <1>1, UnreadMore DEF Types
  <1>4. ~OffIn(blQ)
    <2>1. DOMAIN blQ = 1 .. Len(blQ)
      BY <1>2
    <2> QED
      BY <1>1, <2>1 DEF OffIn, Unread, NoneUnread
  <1>5. ASSUME ~Current(bl_on) PROVE OffIn(blQ)'
    <2>1. CASE blQ' = Publish(blQ, "DAYTIME", day_time) /\ in_event' = in_event
      <3>1. [kind |-> "DAYTIME", arg |-> day_time] \in BlMsg
        BY <1>2, BlMessages
      <3> DEFINE n == Len(blQ) + 1
                 m == [kind |-> "DAYTIME", arg |-> day_time]
      <3>2. Len(blQ) \in Nat /\ Len(blQ') = n /\ blQ'[n] = m
        BY <1>2, <2>1, <3>1, Published
      <3>3. n \in 1 .. Len(blQ')
        BY <3>2
      <3>4. m.kind \in TimeKinds
        BY DEF TimeKinds
      <3> HIDE DEF n
      <3>5. ~bl_on[ac_state][IF in_event' THEN "IN_EVENT" ELSE day_time]
        BY <1>5, <2>1 DEF Current, Slot
      <3>6. \E i \in 1 .. Len(blQ') : /\ blQ'[i].kind \in TimeKinds
                                      /\ ~bl_on[ac_state][IF blQ'[i].kind = "DAYTIME" THEN (IF in_event' THEN "IN_EVENT" ELSE blQ'[i].arg)
                                                          ELSE IF in_event' THEN day_time' ELSE "IN_EVENT"]
        BY <3>2, <3>3, <3>4, <3>5
      <3> QED
        BY <1>1, <3>6 DEF OffIn, SlotBefore, TimeKinds
    <2>2. CASE blQ' = Publish(blQ, "IN_EVENT", 0) /\ day_time' = day_time /\ in_event' = ~in_event
      <3>1. [kind |-> "IN_EVENT", arg |-> 0] \in BlMsg
        BY BlMessages
      <3> DEFINE n == Len(blQ) + 1
                 m == [kind |-> "IN_EVENT", arg |-> 0]
      <3>2. Len(blQ) \in Nat /\ Len(blQ') = n /\ blQ'[n] = m
        BY <1>2, <2>2, <3>1, Published
      <3>3. n \in 1 .. Len(blQ')
        BY <3>2
      <3>4. m.kind \in TimeKinds /\ m.kind # "DAYTIME"
        BY DEF TimeKinds
      <3> HIDE DEF n
      <3>5. ~bl_on[ac_state][IF in_event' THEN day_time' ELSE "IN_EVENT"]
        BY <1>2, <1>5, <2>2 DEF Current, Slot
      <3>6. \E i \in 1 .. Len(blQ') : /\ blQ'[i].kind \in TimeKinds
                                      /\ ~bl_on[ac_state][IF blQ'[i].kind = "DAYTIME" THEN (IF in_event' THEN "IN_EVENT" ELSE blQ'[i].arg)
                                                          ELSE IF in_event' THEN day_time' ELSE "IN_EVENT"]
        BY <3>2, <3>3, <3>4, <3>5
      <3> QED
        BY <1>1, <3>6 DEF OffIn, SlotBefore, TimeKinds
    <2> QED
      BY <1>1, <2>1, <2>2
  <1>6. Started' => Started
    BY <1>1 DEF Started, Awaited
  <1> QED
    BY <1>1, <1>3, <1>4, <1>5, <1>6, TimerSame

LEMMA TimerReceive ==
  ASSUME Types, TimerKept, ReceiveBacklight
  PROVE  TimerKept'
  <1> DEFINE m == Head(blQ)
  <1>1. m \in BlMsg /\ blQ # <<>> /\ blQ' = Tail(blQ) /\ UNCHANGED stateVars
    BY ReceiveFrame, ReadBl
  <1>2. \A kind : kind # m.kind => (Unread(blQ, kind) => Unread(blQ', kind))
    BY UnreadRest
  <1>3. /\ m.kind \notin TimeKinds => (OffIn(blQ) => OffIn(blQ'))
        /\ OffIn(blQ) => /\ m.kind # "BL_TO_REQ"
                         /\ m.kind \in TimeKinds => ~bl_on[ac_state][SlotBefore(m)]
    BY <1>1, OffTail DEF Types, PipesType, TimeKnown
  <1>4. UNCHANGED bl_on => (OffIn(blQ)' <=> OffIn(blQ')) /\ (Current(bl_on)' <=> Current(bl_on))
    BY <1>1 DEF OffIn, SlotBefore, Current, Slot, stateVars
  <1>5. Current(bl_on)' <=> Current(bl_on')
    BY <1>1 DEF Current, Slot, stateVars
  <1>6. UNCHANGED ok => (Started' <=> Started)
    BY DEF Started, Awaited
  \* The timer is set for the timeout as it is.
  <1>7. ASSUME bl_armed' = Current(bl_on), UNCHANGED bl_on PROVE TimerKept'
    BY <1>4, <1>7 DEF TimerKept, TimerSet
  \* The timer is left alone, and so is what explains it.
  <1>8. ASSUME UNCHANGED <<bl_on, ok>>, m.kind \notin TimeKinds \cup {"TIMER", "UPOWER"},
               ~bl_armed' => ~bl_armed, "CAPTURE" \in slip => "CAPTURE" \in slip'
        PROVE  TimerKept'
    BY <1>2, <1>3, <1>4, <1>6, <1>8, TimerSame
  <1> HIDE DEF m
  <1>9. CASE Hear(m)
    <2>1. CASE ok' = Awaited
      <3>1. bl_armed' = Current(bl_on) /\ UNCHANGED bl_on
        BY <1>9, <2>1 DEF Hear, blConf
      <3> QED
        BY <1>7, <3>1
    <2>2. CASE ok' # Awaited
      BY <2>2 DEF TimerKept, Started, Awaited
    <2> QED
      BY <2>1, <2>2
  <1>10. CASE ReceiveChange(m)
    <2>1. Started /\ UNCHANGED ok
      BY <1>10 DEF ReceiveChange
    <2>2. CASE m.kind = "UPOWER" /\ UPowerCallback
      <3>1. bl_armed' = Current(bl_on) /\ UNCHANGED bl_on
        BY <2>2 DEF UPowerCallback, SetTimer, blConf
      <3> QED
        BY <1>7, <3>1
    <2>3. CASE m.kind \in {"DAYTIME", "IN_EVENT"} /\ TimeCallback(m)
      <3> DEFINE before == IF m.kind = "DAYTIME" THEN m.arg ELSE IF in_event THEN day_time ELSE "IN_EVENT"
      <3>1. UNCHANGED bl_on /\ ResetOrPause(bl_on, bl_on[ac_state][before]) /\ m.kind \in TimeKinds
        BY <2>3 DEF TimeCallback, TimeKinds, blConf
      <3>2. CASE Current(bl_on) /\ ~bl_armed'
        <4>1. ~bl_armed /\ bl_on[ac_state][before] /\ ("CAPTURE" \in slip => "CAPTURE" \in slip')
          BY <3>1, <3>2 DEF ResetOrPause, SetTimer, ResetTimer
        <4>2. SlotBefore(m) = before \/ SlotBefore(m) = Slot
          BY DEF SlotBefore, Slot
        <4>3. ~OffIn(blQ)
          BY <1>3, <3>1, <3>2, <4>1, <4>2 DEF Current
        <4>4. Unread(blQ', "TIMER") \/ "CAPTURE" \in slip' \/ Unread(blQ', "UPOWER")
          BY <1>2, <2>1, <3>1, <3>2, <4>1, <4>3 DEF TimerKept, TimerSet, TimeKinds
        <4> QED
          BY <4>4 DEF TimerKept, TimerSet, Unread, NoneUnread
      <3>3. CASE ~Current(bl_on) \/ bl_armed'
        BY <1>4, <3>1, <3>3 DEF TimerKept, TimerSet
      <3> QED
        BY <3>2, <3>3
    <2>4. CASE m.kind = "BL_TO_REQ" /\ TimeoutCallback(m)
      <3>1. ResetOrPause(bl_on', Current(bl_on)) \/ UNCHANGED <<bl_armed, slip>>
        BY <2>4 DEF TimeoutCallback
      <3>2. ~OffIn(blQ)
        BY <1>3, <2>4
      <3>3. UNCHANGED <<bl_armed, slip>> /\ ~ResetOrPause(bl_on', Current(bl_on)) => Current(bl_on') = Current(bl_on)
        <4> SUFFICES ASSUME ~ResetOrPause(bl_on', Current(bl_on)) PROVE Current(bl_on') = Current(bl_on)
          OBVIOUS
        <4>1. /\ bl_on' = [bl_on EXCEPT ![m.arg.ac][m.arg.slot] = m.arg.on]
              /\ ~(m.arg.ac = ac_state /\ (m.arg.slot = day_time \/ (in_event /\ m.arg.slot = "IN_EVENT")))
          BY <2>4 DEF TimeoutCallback
        <4>2. m.arg.ac \in AcStates /\ m.arg.slot \in Slots
          BY <1>1, <2>4, BlMessageRead DEF m
        <4>3. /\ day_time \in Slots /\ ac_state \in AcStates /\ in_event \in BOOLEAN
              /\ bl_on \in [AcStates -> [Slots -> BOOLEAN]]
          BY <2>1, StartedTime DEF Types, StateType, BlConfType, Slots
        <4>4. Slot \in Slots /\ (m.arg.ac # ac_state \/ m.arg.slot # Slot)
          BY <4>1, <4>3 DEF Slot, Slots
        <4> QED
          BY <4>1, <4>2, <4>3, <4>4 DEF Current
      <3>4. CASE Current(bl_on') /\ ~bl_armed'
        <4>1. ~bl_armed /\ Current(bl_on) /\ ("CAPTURE" \in slip => "CAPTURE" \in slip')
          <5>1. CASE ResetOrPause(bl_on', Current(bl_on))
            <6>1. bl_armed' = IF Current(bl_on') THEN ResetTimer(bl_armed, Current(bl_on), TRUE) ELSE bl_armed
              BY <5>1 DEF ResetOrPause, SetTimer
            <6>2. bl_armed' = ResetTimer(bl_armed, Current(bl_on), TRUE)
              BY <3>4, <6>1
            <6>3. ~bl_armed /\ Current(bl_on)
              BY <3>4, <6>2 DEF ResetTimer
            <6>4. "CAPTURE" \in slip => "CAPTURE" \in slip'
              BY <3>4, <5>1 DEF ResetOrPause, SetTimer
            <6> QED
              BY <6>3, <6>4
          <5>2. CASE ~ResetOrPause(bl_on', Current(bl_on))
            <6>1. bl_armed' = bl_armed /\ slip' = slip
              BY <3>1, <5>2
            <6>2. Current(bl_on') = Current(bl_on)
              BY <3>3, <5>2, <6>1
            <6> QED
              BY <3>4, <6>1, <6>2
          <5> QED
            BY <5>1, <5>2
        <4>2. Unread(blQ', "TIMER") \/ "CAPTURE" \in slip' \/ Unread(blQ', "UPOWER")
          BY <1>2, <2>1, <2>4, <3>2, <4>1 DEF TimerKept, TimerSet
        <4> QED
          BY <4>2 DEF TimerKept, TimerSet, Unread, NoneUnread
      <3>5. CASE ~Current(bl_on') \/ bl_armed'
        BY <1>5, <3>5 DEF TimerKept, TimerSet
      <3> QED
        BY <3>4, <3>5
    <2>5. CASE m.kind = "NO_AUTOCALIB_REQ" /\ AutocalibCallback(m)
      <3>1. UNCHANGED <<bl_on, bl_armed, slip>> /\ m.kind \notin TimeKinds \cup {"TIMER", "UPOWER"}
        BY <2>5 DEF AutocalibCallback, TimeKinds
      <3> QED
        BY <1>8, <2>1, <3>1
    <2>6. CASE m.kind \in Told \ {"LID"} /\ FlagCallback(m)
      <3>1. /\ UNCHANGED <<bl_on, bl_armed>> /\ ("CAPTURE" \in slip => "CAPTURE" \in slip')
            /\ m.kind \notin TimeKinds \cup {"TIMER", "UPOWER"}
        BY <2>6 DEF FlagCallback, TimeKinds, Told, blConf
      <3> QED
        BY <1>8, <2>1, <3>1
    <2>7. CASE m.kind = "LID" /\ OnLidUpdate
      <3>1. UNCHANGED bl_on /\ (bl_armed' = TRUE \/ UNCHANGED <<bl_armed, slip>>)
        BY <2>7 DEF OnLidUpdate, SetTimer, blConf
      <3>2. CASE bl_armed' = TRUE
        BY <3>2 DEF TimerKept
      <3>3. CASE UNCHANGED <<bl_armed, slip>>
        <4>1. m.kind \notin TimeKinds \cup {"TIMER", "UPOWER"}
          BY <2>7 DEF TimeKinds
        <4> QED
          BY <1>8, <2>1, <3>1, <3>3, <4>1
      <3> QED
        BY <3>1, <3>2, <3>3
    <2> QED
      BY <1>10, <2>2, <2>3, <2>4, <2>5, <2>6, <2>7 DEF ReceiveChange
  <1>11. CASE Capture(m)
    <2>1. UNCHANGED <<bl_on, ok>> /\ m.kind \in {"CAPTURE_REQ", "TIMER"} /\ DoCapture(m)
      BY <1>11 DEF Capture, blConf
    <2>2. CASE m.arg.reset
      <3>1. bl_armed' = Current(bl_on)
        BY <2>1, <2>2 DEF DoCapture, SetTimer
      <3> QED
        BY <1>7, <2>1, <3>1
    <2>3. CASE ~m.arg.reset
      <3>1. UNCHANGED <<bl_armed, slip>>
        BY <2>1, <2>3 DEF DoCapture
      <3>2. m.kind # "TIMER"
        BY <1>1, <2>3, BlMessageRead
      <3>3. m.kind \notin TimeKinds \cup {"TIMER", "UPOWER"}
        BY <2>1, <3>2 DEF TimeKinds
      <3> QED
        BY <1>8, <2>1, <3>1, <3>3
    <2> QED
      BY <2>2, <2>3
  <1>12. CASE DropCapture(m)
    <2>1. UNCHANGED <<bl_on, ok, bl_armed>> /\ m.kind \in {"CAPTURE_REQ", "TIMER"}
          /\ slip' = IF m.kind = "TIMER" /\ ~bl_armed THEN slip \cup {"CAPTURE"} ELSE slip
      BY <1>12 DEF DropCapture, blConf
    <2>2. CASE m.kind = "TIMER"
      BY <2>1, <2>2 DEF TimerKept, TimerSet
    <2>3. CASE m.kind # "TIMER"
      <3>1. m.kind \notin TimeKinds \cup {"TIMER", "UPOWER"} /\ slip' = slip
        BY <2>1, <2>3 DEF TimeKinds
      <3> QED
        BY <1>8, <2>1, <3>1
    <2> QED
      BY <2>2, <2>3
  <1>13. CASE SetNewBacklight(m)
    <2>1. UNCHANGED <<bl_on, ok, bl_armed, slip>> /\ m.kind \notin TimeKinds \cup {"TIMER", "UPOWER"}
      BY <1>13 DEF SetNewBacklight, TimeKinds, blConf
    <2> QED
      BY <1>8, <2>1
  <1> QED
    BY <1>9, <1>10, <1>11, <1>12, <1>13 DEF ReceiveBacklight, m

LEMMA TimerQuiet ==
  ASSUME Types, TimerKept,
         \/ UserAsks \/ OnSensorChange \/ UNCHANGED vars
         \/ ReceiveScreen \/ \E told \in BOOLEAN : ScreenTimerExpires(told)
  PROVE  TimerKept'
  <1>1. CASE UserAsks
    <2>1. UNCHANGED <<ac_state, day_time, in_event, bl_on, ok, bl_armed, slip>>
      BY <1>1, UserAsksWhat DEF stateVars, blConf, blVars
    <2>2. {"BL_TO_REQ", "NO_AUTOCALIB_REQ", "CAPTURE_REQ"} \subseteq BlKinds \ TimeKinds
      BY DEF BlKinds, TimeKinds
    <2>3. \/ blQ' = blQ
          \/ \E kind \in BlKinds \ TimeKinds : \E arg :
               [kind |-> kind, arg |-> arg] \in BlMsg /\ blQ' = Publish(blQ, kind, arg)
      BY <1>1, <2>2, UserAsksWhat
    <2> QED
      BY <2>1, <2>3, TimerElse
  <1>2. CASE OnSensorChange \/ UNCHANGED vars
    <2>1. UNCHANGED <<ac_state, day_time, in_event, bl_on, ok, bl_armed, slip, blQ>>
      BY <1>2 DEF OnSensorChange, vars, stateVars, blConf, blVars
    <2> QED
      BY <2>1, TimerElse
  <1>3. CASE ReceiveScreen \/ \E told \in BOOLEAN : ScreenTimerExpires(told)
    <2>1. UNCHANGED <<ac_state, day_time, in_event, bl_on, ok, bl_armed, slip>> /\ BlHears
      BY <1>3, ScreenFrame DEF stateVars, blConf, blVars
    <2>2. "SCREEN_BR" \in BlKinds \ TimeKinds /\ [kind |-> "SCREEN_BR", arg |-> 0] \in BlMsg
      BY BlMessages DEF BlKinds, TimeKinds
    <2> QED
      BY <2>1, <2>2, TimerElse DEF BlHears
  <1> QED
    BY <1>1, <1>2, <1>3

LEMMA NextTimer == Types /\ TimerKept /\ [Next]_vars => TimerKept'
  BY TimerFlag, TimerCable, TimerTime, TimerReceive, TimerQuiet DEF Next

(***************************************************************************)
(* Captures go on: a BACKLIGHT that is not paused has its timer running,   *)
(* unless it has messages to read, or the timer's capture was dropped.     *)
(***************************************************************************)
THEOREM CapturesContinue == Spec => []CapturesGoOn
  <1> DEFINE I == Types /\ BlToldOf /\ TimerKept
  <1>1. Init => I
    BY InitTypes, InitBlTold DEF Init, TimerKept, Started, Awaited
  <1>2. I /\ [Next]_vars => I'
    BY NextTypes, NextBlTold, NextTimer
  <1>3. I => CapturesGoOn
    <2> SUFFICES ASSUME Types, BlToldOf, TimerKept, Started, blQ = <<>>, bl_paused = {}, slip = {}
                 PROVE  bl_armed
      BY DEF CapturesGoOn
    <2>1. \A kind : ~Unread(<<>>, kind)
      BY DEF Unread, NoneUnread
    <2>2. "TIMEOUT" \in BlReasons
      BY DEF BlReasons
    <2>3. Current(bl_on)
      BY <2>1, <2>2, DueIs DEF BlToldOf, ToldOf
    <2>4. ~OffIn(<<>>)
      BY DEF OffIn
    <2> QED
      BY <2>1, <2>3, <2>4 DEF TimerKept, TimerSet
  <1> QED
    BY <1>1, <1>2, <1>3, PTL DEF Spec
=============================================================================
