--------------------------- MODULE Keyboard_proofs ---------------------------
(***************************************************************************)
(* Proofs about KEYBOARD, for any levels, curves and bounds: types, and    *)
(* that it follows the screen whatever crossed in its pipe.                *)
(***************************************************************************)
EXTENDS Keyboard, SequenceTheorems, TLAPS

\* A message of this kind is in the pipe.
In(q, kind) == \E i \in DOMAIN q : q[i].kind = kind

\* What BACKLIGHT announced last is where it is.
Says(q, l) ==
  \A i \in DOMAIN q : q[i].kind = "BL_UPD" =>
    q[i].new = l \/ \E j \in DOMAIN q : j > i /\ q[j].kind = "BL_UPD"

\* KEYBOARD's requests are up to date.
Fresh(q, good) == \A i \in DOMAIN q : q[i].kind = "KBD_BL_REQ" => q[i].new \in good

\* A message of this kind will be read before a request.
Ahead(q, kind) ==
  \E j, i \in DOMAIN q : j < i /\ q[j].kind = kind /\ q[i].kind = "KBD_BL_REQ"

-----------------------------------------------------------------------------
\* The entries of a pipe after a message was added, or the first one read.
LEMMA AppendAt ==
  ASSUME NEW S, NEW q \in Seq(S), NEW m \in S
  PROVE  /\ Append(q, m) \in Seq(S) /\ Len(q) \in Nat
         /\ DOMAIN q = 1 .. Len(q) /\ DOMAIN Append(q, m) = 1 .. Len(q) + 1
         /\ \A i \in 1 .. Len(q) : Append(q, m)[i] = q[i]
         /\ Append(q, m)[Len(q) + 1] = m
  OBVIOUS

LEMMA TailAt ==
  ASSUME NEW S, NEW q \in Seq(S), q # <<>>
  PROVE  /\ Head(q) \in S /\ Tail(q) \in Seq(S) /\ Len(q) \in Nat \ {0}
         /\ DOMAIN q = 1 .. Len(q) /\ DOMAIN Tail(q) = 1 .. Len(q) - 1
         /\ Head(q) = q[1] /\ \A i \in 1 .. Len(q) - 1 : Tail(q)[i] = q[i + 1]
  OBVIOUS

\* Publication rewrites the copies in flight of what it publishes.
LEMMA PublishAt ==
  ASSUME NEW S, NEW q \in Seq(S), NEW m \in S
  PROVE  /\ Publish(q, m) \in Seq(S) /\ Len(q) \in Nat
         /\ DOMAIN q = 1 .. Len(q) /\ DOMAIN Publish(q, m) = 1 .. Len(q) + 1
         /\ \A i \in 1 .. Len(q) : Publish(q, m)[i] = IF q[i].kind = m.kind THEN m ELSE q[i]
         /\ Publish(q, m)[Len(q) + 1] = m
  <1> DEFINE rewritten == [i \in DOMAIN q |-> IF q[i].kind = m.kind THEN m ELSE q[i]]
  <1>1. Len(q) \in Nat /\ DOMAIN q = 1 .. Len(q)
    OBVIOUS
  <1>2. \A i \in 1 .. Len(q) : rewritten[i] \in S
    OBVIOUS
  <1>3. rewritten \in Seq(S) /\ Len(rewritten) = Len(q)
    BY <1>1, <1>2, IsASeq
  <1>4. Publish(q, m) = Append(rewritten, m)
    BY DEF Publish
  <1>5. \A i \in 1 .. Len(q) : rewritten[i] = IF q[i].kind = m.kind THEN m ELSE q[i]
    BY <1>1
  <1> HIDE DEF rewritten
  <1>6. /\ Append(rewritten, m) \in Seq(S)
        /\ DOMAIN Append(rewritten, m) = 1 .. Len(q) + 1
        /\ \A i \in 1 .. Len(q) : Append(rewritten, m)[i] = rewritten[i]
        /\ Append(rewritten, m)[Len(q) + 1] = m
    BY <1>3, AppendAt
  <1> QED
    BY <1>1, <1>4, <1>5, <1>6

LEMMA AppendIn ==
  ASSUME NEW S, NEW q \in Seq(S), NEW m \in S, NEW k
  PROVE  In(Append(q, m), k) <=> In(q, k) \/ m.kind = k
  <1>0. /\ Len(q) \in Nat
        /\ DOMAIN q = 1 .. Len(q) /\ DOMAIN Append(q, m) = 1 .. Len(q) + 1
        /\ \A i \in 1 .. Len(q) : Append(q, m)[i] = q[i]
        /\ Append(q, m)[Len(q) + 1] = m
    BY AppendAt
  <1>1. \A n \in Nat : \A i \in 1 .. n : i \in 1 .. n + 1 /\ n + 1 \in 1 .. n + 1
    OBVIOUS
  <1>2. \A n \in Nat : \A i \in 1 .. n + 1 : i \in 1 .. n \/ i = n + 1
    OBVIOUS
  <1>3. \A n \in Nat : n + 1 \in 1 .. n + 1
    OBVIOUS
  <1> QED
    BY <1>1, <1>2, <1>3, <1>0 DEF In

LEMMA PublishIn ==
  ASSUME NEW S, NEW q \in Seq(S), NEW m \in S, NEW k
  PROVE  In(Publish(q, m), k) <=> In(q, k) \/ m.kind = k
  <1>0. /\ Len(q) \in Nat
        /\ DOMAIN q = 1 .. Len(q) /\ DOMAIN Publish(q, m) = 1 .. Len(q) + 1
        /\ \A i \in 1 .. Len(q) : Publish(q, m)[i] = IF q[i].kind = m.kind THEN m ELSE q[i]
        /\ Publish(q, m)[Len(q) + 1] = m
    BY PublishAt
  <1>1. \A n \in Nat : \A i \in 1 .. n : i \in 1 .. n + 1
    OBVIOUS
  <1>2. \A n \in Nat : \A i \in 1 .. n + 1 : i \in 1 .. n \/ i = n + 1
    OBVIOUS
  <1>3. \A n \in Nat : n + 1 \in 1 .. n + 1
    OBVIOUS
  <1>4. \A i \in DOMAIN q : Publish(q, m)[i].kind = q[i].kind
    BY <1>0
  <1> QED
    BY <1>1, <1>2, <1>3, <1>4, <1>0 DEF In

LEMMA TailIn ==
  ASSUME NEW S, NEW q \in Seq(S), q # <<>>, NEW k
  PROVE  In(q, k) <=> Head(q).kind = k \/ In(Tail(q), k)
  <1>0. /\ Len(q) \in Nat \ {0}
        /\ DOMAIN q = 1 .. Len(q) /\ DOMAIN Tail(q) = 1 .. Len(q) - 1
        /\ Head(q) = q[1] /\ \A i \in 1 .. Len(q) - 1 : Tail(q)[i] = q[i + 1]
    BY TailAt
  <1>1. \A n \in Nat \ {0} : 1 \in 1 .. n /\ \A i \in 1 .. n - 1 : i + 1 \in 1 .. n
    OBVIOUS
  <1>2. \A n \in Nat \ {0} : \A i \in 1 .. n : i = 1 \/ (i - 1 \in 1 .. n - 1 /\ (i - 1) + 1 = i)
    OBVIOUS
  <1>3. In(q, k) => Head(q).kind = k \/ In(Tail(q), k)
    <2> SUFFICES ASSUME NEW i \in 1 .. Len(q), q[i].kind = k, i # 1 PROVE In(Tail(q), k)
      BY <1>0 DEF In
    <2>1. i - 1 \in 1 .. Len(q) - 1 /\ (i - 1) + 1 = i
      BY <1>0, <1>2
    <2> QED
      BY <1>0, <2>1 DEF In
  <1>4. Head(q).kind = k \/ In(Tail(q), k) => In(q, k)
    BY <1>0, <1>1 DEF In
  <1> QED
    BY <1>3, <1>4

LEMMA AppendSays ==
  ASSUME NEW S, NEW q \in Seq(S), NEW m \in S, NEW l,
         IF m.kind = "BL_UPD" THEN m.new = l ELSE Says(q, l)
  PROVE  Says(Append(q, m), l)
  <1>0. /\ Len(q) \in Nat
        /\ DOMAIN q = 1 .. Len(q) /\ DOMAIN Append(q, m) = 1 .. Len(q) + 1
        /\ \A i \in 1 .. Len(q) : Append(q, m)[i] = q[i]
        /\ Append(q, m)[Len(q) + 1] = m
    BY AppendAt
  <1>1. \A n \in Nat : \A i \in 1 .. n + 1 : i \in 1 .. n \/ i = n + 1
    OBVIOUS
  <1>2. \A n \in Nat : n + 1 \in 1 .. n + 1 /\ \A i \in 1 .. n : i \in 1 .. n + 1 /\ n + 1 > i
    OBVIOUS
  <1>3. CASE m.kind = "BL_UPD"
    BY <1>0, <1>1, <1>2, <1>3 DEF Says
  <1>4. CASE m.kind # "BL_UPD"
    BY <1>0, <1>1, <1>2, <1>4 DEF Says
  <1> QED
    BY <1>3, <1>4

LEMMA PublishSays ==
  ASSUME NEW S, NEW q \in Seq(S), NEW m \in S, NEW l, Says(q, l), m.kind # "BL_UPD"
  PROVE  Says(Publish(q, m), l)
  <1>1. Len(q) \in Nat /\ DOMAIN q = 1 .. Len(q)
    OBVIOUS
  <1>2. /\ DOMAIN Publish(q, m) = 1 .. Len(q) + 1
        /\ \A i \in 1 .. Len(q) : Publish(q, m)[i] = IF q[i].kind = m.kind THEN m ELSE q[i]
        /\ Publish(q, m)[Len(q) + 1] = m
    BY PublishAt
  <1>3. \A n \in Nat : \A i \in 1 .. n + 1 : i \in 1 .. n \/ i = n + 1
    OBVIOUS
  <1>4. \A n \in Nat : \A i \in 1 .. n : i \in 1 .. n + 1
    OBVIOUS
  <1>5. \A i \in 1 .. Len(q) : /\ Publish(q, m)[i].kind = q[i].kind
                               /\ q[i].kind = "BL_UPD" => Publish(q, m)[i] = q[i]
    BY <1>1, <1>2
  <1> QED
    BY <1>1, <1>2, <1>3, <1>4, <1>5 DEF Says

LEMMA TailSays ==
  ASSUME NEW S, NEW q \in Seq(S), q # <<>>, NEW l, Says(q, l)
  PROVE  /\ Says(Tail(q), l)
         /\ Head(q).kind = "BL_UPD" => Head(q).new = l \/ In(Tail(q), "BL_UPD")
  <1>0. /\ Len(q) \in Nat \ {0}
        /\ DOMAIN q = 1 .. Len(q) /\ DOMAIN Tail(q) = 1 .. Len(q) - 1
        /\ Head(q) = q[1] /\ \A i \in 1 .. Len(q) - 1 : Tail(q)[i] = q[i + 1]
    BY TailAt
  <1>1. \A n \in Nat \ {0} : 1 \in 1 .. n /\ \A i \in 1 .. n - 1 : i + 1 \in 1 .. n
    OBVIOUS
  <1>2. \A n \in Nat \ {0} : \A j \in 1 .. n, i \in Nat :
          j > i + 1 => (j - 1 \in 1 .. n - 1 /\ (j - 1) + 1 = j /\ j - 1 > i)
    OBVIOUS
  <1>3. Says(Tail(q), l)
    <2> SUFFICES ASSUME NEW i \in 1 .. Len(q) - 1, Tail(q)[i].kind = "BL_UPD", Tail(q)[i].new # l
                 PROVE  \E j \in 1 .. Len(q) - 1 : j > i /\ Tail(q)[j].kind = "BL_UPD"
      BY <1>0 DEF Says
    <2>1. PICK j \in 1 .. Len(q) : j > i + 1 /\ q[j].kind = "BL_UPD"
      BY <1>1, <1>0 DEF Says
    <2>2. j - 1 \in 1 .. Len(q) - 1 /\ j - 1 > i /\ (j - 1) + 1 = j
      BY <1>2, <2>1, <1>0
    <2> QED
      BY <2>1, <2>2, <1>0
  <1>4. ASSUME Head(q).kind = "BL_UPD", Head(q).new # l PROVE In(Tail(q), "BL_UPD")
    <2>1. PICK j \in 1 .. Len(q) : j > 0 + 1 /\ q[j].kind = "BL_UPD"
      BY <1>1, <1>4, <1>0 DEF Says
    <2>2. j - 1 \in 1 .. Len(q) - 1 /\ (j - 1) + 1 = j
      BY <1>2, <2>1, <1>0
    <2> QED
      BY <2>1, <2>2, <1>0 DEF In
  <1> QED
    BY <1>3, <1>4

\* Requests stay up to date, unless another is published.
LEMMA AppendFresh ==
  ASSUME NEW S, NEW q \in Seq(S), NEW m \in S, NEW good, Fresh(q, good), m.kind # "KBD_BL_REQ"
  PROVE  Fresh(Append(q, m), good)
  <1>0. /\ Len(q) \in Nat
        /\ DOMAIN q = 1 .. Len(q) /\ DOMAIN Append(q, m) = 1 .. Len(q) + 1
        /\ \A i \in 1 .. Len(q) : Append(q, m)[i] = q[i]
        /\ Append(q, m)[Len(q) + 1] = m
    BY AppendAt
  <1>1. \A n \in Nat : \A i \in 1 .. n + 1 : i \in 1 .. n \/ i = n + 1
    OBVIOUS
  <1> QED
    BY <1>1, <1>0 DEF Fresh

LEMMA PublishFresh ==
  ASSUME NEW S, NEW q \in Seq(S), NEW m \in S, NEW good,
         IF m.kind = "KBD_BL_REQ" THEN m.new \in good ELSE Fresh(q, good)
  PROVE  Fresh(Publish(q, m), good)
  <1>1. Len(q) \in Nat /\ DOMAIN q = 1 .. Len(q)
    OBVIOUS
  <1>2. /\ DOMAIN Publish(q, m) = 1 .. Len(q) + 1
        /\ \A i \in 1 .. Len(q) : Publish(q, m)[i] = IF q[i].kind = m.kind THEN m ELSE q[i]
        /\ Publish(q, m)[Len(q) + 1] = m
    BY PublishAt
  <1>3. \A n \in Nat : \A i \in 1 .. n + 1 : i \in 1 .. n \/ i = n + 1
    OBVIOUS
  <1> QED
    BY <1>1, <1>2, <1>3 DEF Fresh

LEMMA TailFresh ==
  ASSUME NEW S, NEW q \in Seq(S), q # <<>>, NEW good, Fresh(q, good)
  PROVE  Fresh(Tail(q), good) /\ (Head(q).kind = "KBD_BL_REQ" => Head(q).new \in good)
  <1>0. /\ Len(q) \in Nat \ {0}
        /\ DOMAIN q = 1 .. Len(q) /\ DOMAIN Tail(q) = 1 .. Len(q) - 1
        /\ Head(q) = q[1] /\ \A i \in 1 .. Len(q) - 1 : Tail(q)[i] = q[i + 1]
    BY TailAt
  <1>1. \A n \in Nat \ {0} : 1 \in 1 .. n /\ \A i \in 1 .. n - 1 : i + 1 \in 1 .. n
    OBVIOUS
  <1> QED
    BY <1>1, <1>0 DEF Fresh

\* Nothing gets ahead of a request that is in the pipe.
LEMMA SameAhead ==
  ASSUME NEW S, NEW q \in Seq(S), NEW m \in S, m.kind # "KBD_BL_REQ", NEW k
  PROVE  /\ Ahead(Append(q, m), k) => Ahead(q, k)
         /\ Ahead(Publish(q, m), k) => Ahead(q, k)
  <1>1. /\ Len(q) \in Nat
        /\ DOMAIN q = 1 .. Len(q) /\ DOMAIN Append(q, m) = 1 .. Len(q) + 1
        /\ \A i \in 1 .. Len(q) : Append(q, m)[i] = q[i]
        /\ Append(q, m)[Len(q) + 1] = m
    BY AppendAt
  <1>2. /\ DOMAIN Publish(q, m) = 1 .. Len(q) + 1
        /\ \A i \in 1 .. Len(q) : Publish(q, m)[i] = IF q[i].kind = m.kind THEN m ELSE q[i]
        /\ Publish(q, m)[Len(q) + 1] = m
    BY PublishAt
  <1>3. \A i \in 1 .. Len(q) : Publish(q, m)[i].kind = q[i].kind
    BY <1>2
  <1>4. \A n \in Nat : \A i, j \in 1 .. n + 1 : i # n + 1 /\ j < i => i \in 1 .. n /\ j \in 1 .. n
    OBVIOUS
  <1>5. Ahead(Append(q, m), k) => Ahead(q, k)
    BY <1>1, <1>4 DEF Ahead
  <1>6. Ahead(Publish(q, m), k) => Ahead(q, k)
    <2> HIDE DEF Publish
    <2> QED
      BY <1>1, <1>2, <1>3, <1>4 DEF Ahead
  <1> QED
    BY <1>5, <1>6

LEMMA TailAhead ==
  ASSUME NEW S, NEW q \in Seq(S), q # <<>>, NEW k
  PROVE  /\ Ahead(Tail(q), k) => Ahead(q, k)
         /\ Head(q).kind = k /\ In(Tail(q), "KBD_BL_REQ") => Ahead(q, k)
  <1>0. /\ Len(q) \in Nat \ {0}
        /\ DOMAIN q = 1 .. Len(q) /\ DOMAIN Tail(q) = 1 .. Len(q) - 1
        /\ Head(q) = q[1] /\ \A i \in 1 .. Len(q) - 1 : Tail(q)[i] = q[i + 1]
    BY TailAt
  <1>1. \A n \in Nat \ {0} : /\ 1 \in 1 .. n
                             /\ \A i \in 1 .. n - 1 : i + 1 \in 1 .. n /\ 1 < i + 1
                             /\ \A i, j \in 1 .. n - 1 : j < i => j + 1 < i + 1
    OBVIOUS
  <1> QED
    BY <1>0, <1>1 DEF Ahead, In

-----------------------------------------------------------------------------
(***************************************************************************)
(* What KEYBOARD knows or will read about: the reasons to be paused, and   *)
(* where the screen is.                                                    *)
(***************************************************************************)
OnCurve == {c[current_bl_pct] : c \in Curves}

Waits == waiting => /\ In(kbdQ, "UPOWER_UPD") /\ display_on /\ ~suspended
                    /\ paused_state = {} /\ current_kbd_pct = NoLevel /\ ~In(kbdQ, "KBD_BL_REQ")
TimeoutKnown ==
  ~waiting => In(kbdQ, "UPOWER_UPD") \/ ("TIMEOUT" \in paused_state <=> ~conf_on[ac_state])
DisplayKnown == In(kbdQ, "DISPLAY_UPD") \/ ("DISPLAY" \in paused_state <=> ~display_on)
SuspendKnown == In(kbdQ, "SUSPEND_UPD") \/ ("SUSPEND" \in paused_state <=> suspended)
Known == TimeoutKnown /\ DisplayKnown /\ SuspendKnown

Dark == paused_state # {} => current_kbd_pct = 0
Aims == Says(kbdQ, current_bl_pct)

(***************************************************************************)
(* While KEYBOARD runs, a request that is out of date is about to be       *)
(* written anew.  News that was dropped would not do that; but whoever     *)
(* drops it is paused until the old request was dropped, too: nothing that *)
(* is read before a request ends the pause, because the reason is there.   *)
(***************************************************************************)
UpToDate == In(kbdQ, "BL_UPD") \/ Fresh(kbdQ, OnCurve)
Requests == paused_state = {} => UpToDate
NewsOf(why) == CASE why = "TIMEOUT" -> "UPOWER_UPD" [] why = "DISPLAY" -> "DISPLAY_UPD"
                 [] why = "SUSPEND" -> "SUSPEND_UPD"
Held == \A why \in paused_state : Ahead(kbdQ, NewsOf(why)) => why \in Due
WillFollow == \/ In(kbdQ, "BL_UPD") \/ In(kbdQ, "KBD_BL_REQ")
              \/ In(kbdQ, "DISPLAY_UPD") /\ ~display_on
Follows == paused_state = {} => current_kbd_pct \in Matching \cup {NoLevel} \/ WillFollow

\* The inductive invariant.
IInv == TypeOK /\ Waits /\ Known /\ Dark /\ Aims /\ Requests /\ Held /\ Follows

LEMMA InitInv == Init => IInv
  <1> SUFFICES ASSUME Init PROVE IInv
    OBVIOUS
  <1> DEFINE m == [kind |-> "UPOWER_UPD"]
  <1>1. m \in Msg /\ kbdQ = <<m>> /\ kbdQ \in Seq(Msg)
    BY DEF Init, Msg
  <1>2. DOMAIN kbdQ = {1} /\ kbdQ[1].kind = "UPOWER_UPD"
    BY <1>1
  <1>3. In(kbdQ, "UPOWER_UPD") /\ ~In(kbdQ, "KBD_BL_REQ") /\ Aims /\ UpToDate
    BY <1>2 DEF In, Aims, Says, Fresh, UpToDate
  <1>4. conf_on \in [AcStates -> BOOLEAN] /\ curve \in [AcStates -> Curves]
    BY DEF Init
  <1>5. TypeOK
    BY <1>1, <1>4 DEF Init, TypeOK, Why
  <1>6. Waits /\ Known /\ Dark /\ Follows /\ Requests /\ Held
    BY <1>3 DEF Init, Waits, Known, TimeoutKnown, DisplayKnown, SuspendKnown, Dark, Follows, Requests, Held
  <1> QED
    BY <1>3, <1>5, <1>6 DEF IInv

\* A message about anything but levels is sent.
LEMMA Sent ==
  ASSUME IInv, NEW m \in Msg, m.kind \notin {"BL_UPD", "KBD_BL_REQ"},
         kbdQ' = Append(kbdQ, m) \/ kbdQ' = Publish(kbdQ, m), UNCHANGED current_bl_pct
  PROVE  /\ kbdQ' \in Seq(Msg) /\ Aims' /\ (UpToDate => UpToDate')
         /\ \A k : In(kbdQ', k) <=> In(kbdQ, k) \/ m.kind = k
         /\ \A k : Ahead(kbdQ', k) => Ahead(kbdQ, k)
  <1>1. kbdQ \in Seq(Msg) /\ Says(kbdQ, current_bl_pct)
    BY DEF IInv, TypeOK, Aims
  <1>2. OnCurve' = OnCurve
    BY DEF OnCurve
  <1>3. CASE kbdQ' = Append(kbdQ, m)
    <2>1. kbdQ' \in Seq(Msg)
      BY <1>1, <1>3, AppendAt
    <2>2. \A k : In(kbdQ', k) <=> In(kbdQ, k) \/ m.kind = k
      BY <1>1, <1>3, AppendIn
    <2>3. \A k : Ahead(kbdQ', k) => Ahead(kbdQ, k)
      BY <1>1, <1>3, SameAhead
    <2>4. Says(kbdQ', current_bl_pct)
      BY <1>1, <1>3, AppendSays
    <2>5. Fresh(kbdQ, OnCurve) => Fresh(kbdQ', OnCurve)
      BY <1>1, <1>3, AppendFresh
    <2> QED
      BY <1>2, <2>1, <2>2, <2>3, <2>4, <2>5 DEF Aims, UpToDate
  <1>4. CASE kbdQ' = Publish(kbdQ, m)
    <2>1. kbdQ' \in Seq(Msg)
      BY <1>1, <1>4, PublishAt
    <2>2. \A k : In(kbdQ', k) <=> In(kbdQ, k) \/ m.kind = k
      BY <1>1, <1>4, PublishIn
    <2>3. \A k : Ahead(kbdQ', k) => Ahead(kbdQ, k)
      BY <1>1, <1>4, SameAhead
    <2>4. Says(kbdQ', current_bl_pct)
      BY <1>1, <1>4, PublishSays
    <2>5. Fresh(kbdQ, OnCurve) => Fresh(kbdQ', OnCurve)
      BY <1>1, <1>4, PublishFresh
    <2> QED
      BY <1>2, <2>1, <2>2, <2>3, <2>4, <2>5 DEF Aims, UpToDate
  <1> QED
    BY <1>3, <1>4

\* The first message is read.
LEMMA Read ==
  ASSUME IInv, kbdQ # <<>>, kbdQ' = Tail(kbdQ), UNCHANGED current_bl_pct
  PROVE  /\ Head(kbdQ) \in Msg /\ kbdQ' \in Seq(Msg) /\ Aims'
         /\ \A k : In(kbdQ, k) <=> Head(kbdQ).kind = k \/ In(kbdQ', k)
         /\ Head(kbdQ).kind = "BL_UPD" => Head(kbdQ).new = current_bl_pct \/ In(kbdQ', "BL_UPD")
         /\ UpToDate /\ Head(kbdQ).kind = "KBD_BL_REQ" => Head(kbdQ).new \in OnCurve \/ In(kbdQ', "BL_UPD")
         /\ UpToDate /\ Head(kbdQ).kind # "BL_UPD" => UpToDate'
         /\ ~In(kbdQ', "KBD_BL_REQ") => UpToDate'
         /\ \A k : Ahead(kbdQ', k) => Ahead(kbdQ, k)
         /\ In(kbdQ', "KBD_BL_REQ") => Ahead(kbdQ, Head(kbdQ).kind)
  <1>1. kbdQ \in Seq(Msg) /\ Says(kbdQ, current_bl_pct)
    BY DEF IInv, TypeOK, Aims
  <1>2. OnCurve' = OnCurve
    BY DEF OnCurve
  <1>3. Head(kbdQ) \in Msg /\ kbdQ' \in Seq(Msg)
    BY <1>1, TailAt
  <1>4. \A k : In(kbdQ, k) <=> Head(kbdQ).kind = k \/ In(kbdQ', k)
    BY <1>1, TailIn
  <1>5. /\ Says(kbdQ', current_bl_pct)
        /\ Head(kbdQ).kind = "BL_UPD" => Head(kbdQ).new = current_bl_pct \/ In(kbdQ', "BL_UPD")
    BY <1>1, TailSays
  <1>6. Fresh(kbdQ, OnCurve) => /\ Fresh(kbdQ', OnCurve)
                                /\ Head(kbdQ).kind = "KBD_BL_REQ" => Head(kbdQ).new \in OnCurve
    BY <1>1, TailFresh
  <1>7. ~In(kbdQ', "KBD_BL_REQ") => Fresh(kbdQ', OnCurve)
    BY DEF In, Fresh
  <1>8. /\ \A k : Ahead(kbdQ', k) => Ahead(kbdQ, k)
        /\ In(kbdQ', "KBD_BL_REQ") => Ahead(kbdQ, Head(kbdQ).kind)
    BY <1>1, TailAhead
  <1>9. Aims'
    BY <1>5 DEF Aims
  <1>10. UpToDate' <=> In(kbdQ', "BL_UPD") \/ Fresh(kbdQ', OnCurve)
    BY <1>2 DEF UpToDate
  <1>11. /\ UpToDate /\ Head(kbdQ).kind = "KBD_BL_REQ" => Head(kbdQ).new \in OnCurve \/ In(kbdQ', "BL_UPD")
         /\ UpToDate /\ Head(kbdQ).kind # "BL_UPD" => UpToDate'
    BY <1>4, <1>6, <1>10 DEF UpToDate
  <1> QED
    BY <1>3, <1>4, <1>5, <1>7, <1>8, <1>9, <1>10, <1>11

\* mod_check_pause with pause_kbd: one reason changes, and the level with the first and the last.
LEMMA Paused ==
  ASSUME IInv, NEW why \in Why, NEW pause \in BOOLEAN, PauseKbd(why, pause), UNCHANGED current_bl_pct
  PROVE  /\ paused_state' \subseteq Why /\ current_kbd_pct' \in Levels \cup {NoLevel} /\ Dark'
         /\ why \in paused_state' <=> pause
         /\ \A w \in Why \ {why} : w \in paused_state' <=> w \in paused_state
         /\ paused_state' = {} => \/ paused_state = {} /\ current_kbd_pct' = current_kbd_pct
                                  \/ current_kbd_pct' \in Matching'
  <1>1. paused_state \subseteq Why /\ current_bl_pct \in 0 .. MaxLevel /\ MaxLevel \in Nat
        /\ current_kbd_pct \in Levels \cup {NoLevel} /\ Dark
    BY KeyboardAssumption DEF IInv, TypeOK, Levels
  <1>2. 0 \in Levels /\ MaxLevel - current_bl_pct \in Levels
    BY <1>1 DEF Levels
  <1>3. MaxLevel - current_bl_pct \in Matching'
    BY DEF Matching
  <1>4. paused_state' = IF pause THEN paused_state \cup {why} ELSE paused_state \ {why}
    BY DEF PauseKbd, Reasons
  <1>5. current_kbd_pct' = IF paused_state = {} /\ paused_state' # {} THEN 0
                           ELSE IF paused_state # {} /\ paused_state' = {} THEN MaxLevel - current_bl_pct
                           ELSE current_kbd_pct
    BY DEF PauseKbd, Pauses, Resumes
  <1> QED
    BY <1>1, <1>2, <1>3, <1>4, <1>5 DEF Dark

\* A pause stays for the reason there is while the news of that reason is ahead of a request.
LEMMA HeldStays ==
  ASSUME IInv, \A k : Ahead(kbdQ', k) => Ahead(kbdQ, k),
         \A why \in paused_state' : \/ why \in Due'
                                    \/ why \in paused_state /\ (why \in Due => why \in Due')
                                    \/ ~In(kbdQ, NewsOf(why))
  PROVE  Held'
  <1>1. \A k : Ahead(kbdQ, k) => In(kbdQ, k)
    BY DEF Ahead, In
  <1>2. \A why \in paused_state : Ahead(kbdQ, NewsOf(why)) => why \in Due
    BY DEF IInv, Held
  <1>3. \A why \in paused_state' : Ahead(kbdQ', NewsOf(why)) => why \in Due'
    BY <1>1, <1>2
  <1>4. \A why : NewsOf(why)' = NewsOf(why)
    BY DEF NewsOf
  <1> QED
    BY <1>3, <1>4 DEF Held

-----------------------------------------------------------------------------
LEMMA UPowerStep == ASSUME IInv, UPowerChanges PROVE IInv'
  <1> DEFINE m == [kind |-> "UPOWER_UPD"]
  <1>1. m \in Msg /\ m.kind = "UPOWER_UPD" /\ kbdQ' = Append(kbdQ, m) /\ UNCHANGED current_bl_pct
    BY DEF UPowerChanges, Msg
  <1> HIDE DEF m
  <1>2. /\ kbdQ' \in Seq(Msg) /\ Aims' /\ \A k : In(kbdQ', k) <=> In(kbdQ, k) \/ "UPOWER_UPD" = k
        /\ (UpToDate => UpToDate') /\ \A k : Ahead(kbdQ', k) => Ahead(kbdQ, k)
    BY <1>1, Sent
  <1>3. ac_state' \in AcStates /\ UNCHANGED <<display_on, suspended, kbdVars>>
    BY DEF UPowerChanges
  <1>4. TypeOK'
    BY <1>1, <1>2, <1>3 DEF IInv, TypeOK, kbdVars
  <1>5. Waits' /\ Known' /\ Dark' /\ Follows'
    BY <1>1, <1>2, <1>3 DEF IInv, Waits, Known, TimeoutKnown, DisplayKnown, SuspendKnown,
       Dark, Follows, WillFollow, Matching, kbdVars
  <1>7. Requests'
    BY <1>2, <1>3 DEF IInv, Requests, kbdVars
  <1>8. Held'
    <2>1. ~In(kbdQ, "UPOWER_UPD")
      BY DEF UPowerChanges, May, Unread, In
    <2>2. \A why \in paused_state : why = "TIMEOUT" \/ (why \in Due => why \in Due')
      BY <1>1, <1>3 DEF Due, Why, kbdVars
    <2>3. NewsOf("TIMEOUT") = "UPOWER_UPD"
      BY DEF NewsOf
    <2> QED
      BY <1>2, <1>3, <2>1, <2>2, <2>3, HeldStays DEF kbdVars
  <1> QED
    BY <1>2, <1>4, <1>5, <1>7, <1>8 DEF IInv

LEMMA DisplayStep == ASSUME IInv, DisplayChanges PROVE IInv'
  <1> DEFINE m == [kind |-> "DISPLAY_UPD"]
  <1>1. m \in Msg /\ m.kind = "DISPLAY_UPD" /\ kbdQ' = Append(kbdQ, m) /\ UNCHANGED current_bl_pct
    BY DEF DisplayChanges, Msg
  <1> HIDE DEF m
  <1>2. /\ kbdQ' \in Seq(Msg) /\ Aims' /\ \A k : In(kbdQ', k) <=> In(kbdQ, k) \/ "DISPLAY_UPD" = k
        /\ (UpToDate => UpToDate') /\ \A k : Ahead(kbdQ', k) => Ahead(kbdQ, k)
    BY <1>1, Sent
  <1>3. /\ ~In(kbdQ, "DISPLAY_UPD") /\ ~waiting /\ display_on' = ~display_on
        /\ UNCHANGED <<ac_state, suspended, kbdVars>>
    BY DEF DisplayChanges, May, Unread, In
  <1>4. TypeOK'
    BY <1>1, <1>2, <1>3 DEF IInv, TypeOK, kbdVars
  <1>5. Waits' /\ Known' /\ Dark'
    BY <1>1, <1>2, <1>3 DEF IInv, Waits, Known, TimeoutKnown, DisplayKnown, SuspendKnown, Dark, kbdVars
  <1>6. Follows'
    BY <1>1, <1>2, <1>3 DEF IInv, Follows, WillFollow, Matching, kbdVars
  <1>7. Requests'
    BY <1>2, <1>3 DEF IInv, Requests, kbdVars
  <1>8. Held'
    <2>1. ~In(kbdQ, "DISPLAY_UPD")
      BY DEF DisplayChanges, May, Unread, In
    <2>2. \A why \in paused_state : why = "DISPLAY" \/ (why \in Due => why \in Due')
      BY <1>1, <1>3 DEF Due, Why, kbdVars
    <2>3. NewsOf("DISPLAY") = "DISPLAY_UPD"
      BY DEF NewsOf
    <2> QED
      BY <1>2, <1>3, <2>1, <2>2, <2>3, HeldStays DEF kbdVars
  <1> QED
    BY <1>2, <1>4, <1>5, <1>6, <1>7, <1>8 DEF IInv

LEMMA SuspendStep == ASSUME IInv, SuspendChanges PROVE IInv'
  <1> DEFINE m == [kind |-> "SUSPEND_UPD"]
  <1>1. m \in Msg /\ m.kind = "SUSPEND_UPD" /\ kbdQ' = Append(kbdQ, m) /\ UNCHANGED current_bl_pct
    BY DEF SuspendChanges, Msg
  <1> HIDE DEF m
  <1>2. /\ kbdQ' \in Seq(Msg) /\ Aims' /\ \A k : In(kbdQ', k) <=> In(kbdQ, k) \/ "SUSPEND_UPD" = k
        /\ (UpToDate => UpToDate') /\ \A k : Ahead(kbdQ', k) => Ahead(kbdQ, k)
    BY <1>1, Sent
  <1>3. ~waiting /\ suspended' = ~suspended /\ UNCHANGED <<ac_state, display_on, kbdVars>>
    BY DEF SuspendChanges
  <1>4. TypeOK'
    BY <1>1, <1>2, <1>3 DEF IInv, TypeOK, kbdVars
  <1>5. Waits' /\ Known' /\ Dark' /\ Follows'
    BY <1>1, <1>2, <1>3 DEF IInv, Waits, Known, TimeoutKnown, DisplayKnown, SuspendKnown,
       Dark, Follows, WillFollow, Matching, kbdVars
  <1>7. Requests'
    BY <1>2, <1>3 DEF IInv, Requests, kbdVars
  <1>8. Held'
    <2>1. ~In(kbdQ, "SUSPEND_UPD")
      BY DEF SuspendChanges, May, Unread, In
    <2>2. \A why \in paused_state : why = "SUSPEND" \/ (why \in Due => why \in Due')
      BY <1>1, <1>3 DEF Due, Why, kbdVars
    <2>3. NewsOf("SUSPEND") = "SUSPEND_UPD"
      BY DEF NewsOf
    <2> QED
      BY <1>2, <1>3, <2>1, <2>2, <2>3, HeldStays DEF kbdVars
  <1> QED
    BY <1>2, <1>4, <1>5, <1>7, <1>8 DEF IInv

\* Whatever was asked of the keyboard before, there is news in the pipe.
LEMMA BacklightStep == ASSUME IInv, NEW l \in Levels, BacklightChanges(l) PROVE IInv'
  <1> DEFINE m == [kind |-> "BL_UPD", new |-> l]
  <1>1. m \in Msg /\ m.kind = "BL_UPD" /\ m.new = l /\ kbdQ' = Append(kbdQ, m) /\ current_bl_pct' = l
    BY DEF BacklightChanges, Msg
  <1> HIDE DEF m
  <1>2. kbdQ \in Seq(Msg)
    BY DEF IInv, TypeOK
  <1>3. kbdQ' \in Seq(Msg)
    BY <1>1, <1>2, AppendAt
  <1>4. \A k : In(kbdQ', k) <=> In(kbdQ, k) \/ "BL_UPD" = k
    BY <1>1, <1>2, AppendIn
  <1>5. Aims' /\ UpToDate' /\ \A k : Ahead(kbdQ', k) => Ahead(kbdQ, k)
    BY <1>1, <1>2, <1>4, AppendSays, SameAhead DEF Aims, UpToDate
  <1>6. UNCHANGED <<ac_state, display_on, suspended, kbdVars>>
    BY DEF BacklightChanges
  <1>7. TypeOK'
    BY <1>1, <1>3, <1>6 DEF IInv, TypeOK, kbdVars
  <1>8. Waits' /\ Known' /\ Dark' /\ Follows'
    BY <1>4, <1>6 DEF IInv, Waits, Known, TimeoutKnown, DisplayKnown, SuspendKnown,
       Dark, Follows, WillFollow, kbdVars
  <1>9. Requests' /\ Held'
    BY <1>5, <1>6, HeldStays DEF Requests, Due, kbdVars
  <1> QED
    BY <1>5, <1>7, <1>8, <1>9 DEF IInv

LEMMA UserStep == ASSUME IInv, UserWrites PROVE IInv'
  <1>1. PICK m \in Msg : /\ m.kind \in {"KBD_TO_REQ", "KBD_CURVE_REQ"}
                         /\ kbdQ' = Publish(kbdQ, m)
    <2>1. \A s \in AcStates, on \in BOOLEAN : [kind |-> "KBD_TO_REQ", state |-> s, new |-> on] \in Msg
      BY DEF Msg
    <2>2. \A s \in AcStates, c \in Curves : [kind |-> "KBD_CURVE_REQ", state |-> s, new |-> c] \in Msg
      BY DEF Msg
    <2> QED
      BY <2>1, <2>2 DEF UserWrites
  <1>2. UNCHANGED <<envVars, kbdVars>>
    BY DEF UserWrites
  <1>3. /\ kbdQ' \in Seq(Msg) /\ Aims' /\ \A k : In(kbdQ', k) <=> In(kbdQ, k) \/ m.kind = k
        /\ (UpToDate => UpToDate') /\ \A k : Ahead(kbdQ', k) => Ahead(kbdQ, k)
    BY <1>1, <1>2, Sent DEF envVars
  <1>4. TypeOK'
    BY <1>2, <1>3 DEF IInv, TypeOK, envVars, kbdVars
  <1>5. Waits' /\ Known' /\ Dark' /\ Follows'
    BY <1>1, <1>2, <1>3 DEF IInv, Waits, Known, TimeoutKnown, DisplayKnown, SuspendKnown,
       Dark, Follows, WillFollow, Matching, envVars, kbdVars
  <1>6. Requests' /\ Held'
    BY <1>2, <1>3, HeldStays DEF IInv, Requests, Due, envVars, kbdVars
  <1> QED
    BY <1>3, <1>4, <1>5, <1>6 DEF IInv

-----------------------------------------------------------------------------
\* A message that brings no request of its own is read: what the handler leaves to show.
LEMMA Reading ==
  ASSUME IInv, kbdQ # <<>>, kbdQ' = Tail(kbdQ), UNCHANGED envVars
  PROVE  /\ Head(kbdQ) \in Msg /\ kbdQ' \in Seq(Msg) /\ Aims'
         /\ \A k : In(kbdQ, k) <=> Head(kbdQ).kind = k \/ In(kbdQ', k)
         /\ UpToDate /\ Head(kbdQ).kind = "KBD_BL_REQ" => Head(kbdQ).new \in OnCurve \/ In(kbdQ', "BL_UPD")
         /\ UpToDate /\ Head(kbdQ).kind # "BL_UPD" => UpToDate'
         /\ ~In(kbdQ', "KBD_BL_REQ") => UpToDate'
         /\ \A k : Ahead(kbdQ', k) => Ahead(kbdQ, k)
         /\ In(kbdQ', "KBD_BL_REQ") => Ahead(kbdQ, Head(kbdQ).kind)
         /\ Matching' = Matching
  BY Read DEF envVars, Matching

LEMMA StartStep ==
  ASSUME IInv, kbdQ # <<>>, StartModule(Head(kbdQ)), UNCHANGED envVars
  PROVE  IInv'
  <1>1. /\ kbdQ' = Tail(kbdQ) /\ Head(kbdQ).kind = "UPOWER_UPD" /\ waiting /\ waiting' = FALSE
        /\ PauseKbd("TIMEOUT", ~conf_on[ac_state]) /\ UNCHANGED <<conf_on, curve>>
    BY DEF StartModule, SetKeyboardTimeout
  <1>2. /\ kbdQ' \in Seq(Msg) /\ Aims'
        /\ \A k : In(kbdQ, k) <=> Head(kbdQ).kind = k \/ In(kbdQ', k)
        /\ ~In(kbdQ', "KBD_BL_REQ") => UpToDate'
        /\ \A k : Ahead(kbdQ', k) => Ahead(kbdQ, k)
        /\ Matching' = Matching
    BY <1>1, Reading
  <1>3. (~conf_on[ac_state]) \in BOOLEAN /\ "TIMEOUT" \in Why
    BY DEF Why
  <1>4. /\ paused_state' \subseteq Why /\ current_kbd_pct' \in Levels \cup {NoLevel} /\ Dark'
        /\ "TIMEOUT" \in paused_state' <=> ~conf_on[ac_state]
        /\ \A w \in Why \ {"TIMEOUT"} : w \in paused_state' <=> w \in paused_state
        /\ paused_state' = {} => \/ paused_state = {} /\ current_kbd_pct' = current_kbd_pct
                                 \/ current_kbd_pct' \in Matching'
    BY <1>1, <1>3, Paused DEF envVars
  <1>5. /\ display_on /\ ~suspended /\ paused_state = {} /\ current_kbd_pct = NoLevel
        /\ ~In(kbdQ, "KBD_BL_REQ")
    BY <1>1 DEF IInv, Waits
  <1>6. TypeOK'
    BY <1>1, <1>2, <1>4 DEF IInv, TypeOK, envVars
  <1>7. Waits' /\ Known'
    BY <1>1, <1>4, <1>5 DEF Waits, Known, TimeoutKnown, DisplayKnown, SuspendKnown, Why, envVars
  <1>8. Follows'
    BY <1>4, <1>5 DEF Follows
  <1>9. Requests'
    BY <1>2, <1>5 DEF Requests
  <1>10. Held'
    <2>1. \A why \in paused_state' : why \in Due'
      BY <1>1, <1>4, <1>5 DEF Due, Why, envVars
    <2> QED
      BY <1>2, <2>1, HeldStays
  <1> QED
    BY <1>2, <1>4, <1>6, <1>7, <1>8, <1>9, <1>10 DEF IInv

\* Nothing that is dropped is news of a reason, or of the screen to a lit keyboard.
LEMMA DropStep ==
  ASSUME IInv, kbdQ # <<>>, Drop(Head(kbdQ)), UNCHANGED envVars
  PROVE  IInv'
  <1>1. /\ kbdQ' = Tail(kbdQ) /\ UNCHANGED kbdVars
        /\ \/ waiting /\ Head(kbdQ).kind # "UPOWER_UPD"
           \/ ~waiting /\ paused_state # {} /\ Head(kbdQ).kind \in {"BL_UPD", "KBD_BL_REQ", "KBD_TO_REQ"}
    BY DEF Drop, Running
  <1>2. /\ kbdQ' \in Seq(Msg) /\ Aims'
        /\ \A k : In(kbdQ, k) <=> Head(kbdQ).kind = k \/ In(kbdQ', k)
        /\ ~In(kbdQ', "KBD_BL_REQ") => UpToDate'
        /\ \A k : Ahead(kbdQ', k) => Ahead(kbdQ, k)
        /\ Matching' = Matching
    BY <1>1, Reading
  <1>3. TypeOK'
    BY <1>1, <1>2 DEF IInv, TypeOK, envVars, kbdVars
  <1>4. Dark' /\ (waiting' <=> waiting) /\ UNCHANGED <<envVars, kbdVars>>
    BY <1>1 DEF IInv, Dark, kbdVars
  <1>5. Requests'
    BY <1>1, <1>2, <1>4 DEF IInv, Waits, Requests, kbdVars
  <1>6. Held'
    BY <1>2, <1>4, HeldStays DEF Due, envVars, kbdVars
  <1>7. CASE waiting /\ Head(kbdQ).kind # "UPOWER_UPD"
    BY <1>2, <1>3, <1>4, <1>5, <1>6, <1>7 DEF IInv, Waits, Known, TimeoutKnown, DisplayKnown, SuspendKnown,
       Follows, envVars, kbdVars
  <1>8. CASE ~waiting /\ paused_state # {} /\ Head(kbdQ).kind \in {"BL_UPD", "KBD_BL_REQ", "KBD_TO_REQ"}
    BY <1>2, <1>3, <1>4, <1>5, <1>6, <1>8 DEF IInv, Waits, Known, TimeoutKnown, DisplayKnown, SuspendKnown,
       Follows, envVars, kbdVars
  <1> QED
    BY <1>1, <1>7, <1>8

\* A reason is looked at again after the news of it.
LEMMA ChangeStep ==
  ASSUME IInv, kbdQ # <<>>, ReceiveChange(Head(kbdQ)), UNCHANGED envVars
  PROVE  IInv'
  <1>1. /\ kbdQ' = Tail(kbdQ) /\ ~waiting /\ UNCHANGED <<conf_on, curve, waiting>>
    BY DEF ReceiveChange
  <1>2. PICK why \in Why, pause \in BOOLEAN :
          /\ PauseKbd(why, pause)
          /\ \/ Head(kbdQ).kind = "UPOWER_UPD" /\ why = "TIMEOUT" /\ (pause <=> ~conf_on[ac_state])
             \/ Head(kbdQ).kind = "DISPLAY_UPD" /\ why = "DISPLAY" /\ (pause <=> ~display_on)
             \/ Head(kbdQ).kind = "SUSPEND_UPD" /\ why = "SUSPEND" /\ (pause <=> suspended)
    <2>1. (~conf_on[ac_state]) \in BOOLEAN /\ (~display_on) \in BOOLEAN /\ suspended \in BOOLEAN
      BY DEF IInv, TypeOK
    <2>2. {"TIMEOUT", "DISPLAY", "SUSPEND"} = Why
      BY DEF Why
    <2> QED
      BY <2>1, <2>2 DEF ReceiveChange, SetKeyboardTimeout
  <1>3. /\ kbdQ' \in Seq(Msg) /\ Aims'
        /\ \A k : In(kbdQ, k) <=> Head(kbdQ).kind = k \/ In(kbdQ', k)
        /\ UpToDate /\ Head(kbdQ).kind # "BL_UPD" => UpToDate'
        /\ ~In(kbdQ', "KBD_BL_REQ") => UpToDate'
        /\ \A k : Ahead(kbdQ', k) => Ahead(kbdQ, k)
        /\ In(kbdQ', "KBD_BL_REQ") => Ahead(kbdQ, Head(kbdQ).kind)
        /\ Matching' = Matching
    BY <1>1, Reading
  <1>4. /\ paused_state' \subseteq Why /\ current_kbd_pct' \in Levels \cup {NoLevel} /\ Dark'
        /\ why \in paused_state' <=> pause
        /\ \A w \in Why \ {why} : w \in paused_state' <=> w \in paused_state
        /\ paused_state' = {} => \/ paused_state = {} /\ current_kbd_pct' = current_kbd_pct
                                 \/ current_kbd_pct' \in Matching'
    BY <1>2, Paused DEF envVars
  <1>5. TypeOK'
    BY <1>1, <1>3, <1>4 DEF IInv, TypeOK, envVars
  <1>6. Waits' /\ TimeoutKnown'
    BY <1>1, <1>2, <1>3, <1>4 DEF IInv, Waits, Known, TimeoutKnown, Why, envVars
  <1>7. DisplayKnown' /\ SuspendKnown'
    BY <1>1, <1>2, <1>3, <1>4 DEF IInv, Known, DisplayKnown, SuspendKnown, Why, envVars
  <1>8. ASSUME paused_state' = {}, current_kbd_pct' \notin Matching' \cup {NoLevel} PROVE WillFollow'
    <2>1. paused_state = {} /\ current_kbd_pct \notin Matching \cup {NoLevel}
      BY <1>3, <1>4, <1>8
    <2>2. WillFollow /\ ~pause
      BY <1>4, <1>8, <2>1 DEF IInv, Follows
    <2> QED
      BY <1>2, <1>3, <2>2 DEF WillFollow, envVars
  <1>9. Follows'
    BY <1>8 DEF Follows
  <1>10. Due' = Due /\ (why \in Due <=> pause) /\ Head(kbdQ).kind = NewsOf(why)
    BY <1>1, <1>2 DEF Due, Why, NewsOf, envVars
  \* Read before a request, the news does not end the pause.
  <1>11. ASSUME paused_state' = {}, paused_state # {} PROVE ~In(kbdQ', "KBD_BL_REQ")
    <2>1. why \in paused_state /\ ~pause
      BY <1>4, <1>11 DEF IInv, TypeOK
    <2> QED
      BY <1>3, <1>10, <2>1 DEF IInv, Held
  <1>12. Requests'
    BY <1>2, <1>3, <1>11 DEF IInv, Requests
  <1>13. Held'
    <2>1. \A w \in paused_state' : w \in Due' \/ (w \in paused_state /\ (w \in Due => w \in Due'))
      BY <1>4, <1>10
    <2> QED
      BY <1>3, <2>1, HeldStays
  <1> QED
    BY <1>3, <1>4, <1>5, <1>6, <1>7, <1>9, <1>12, <1>13 DEF IInv, Known

\* The timeout is written while KEYBOARD runs.
LEMMA TimeoutStep ==
  ASSUME IInv, kbdQ # <<>>, ReceiveTimeout(Head(kbdQ)), UNCHANGED envVars
  PROVE  IInv'
  <1> DEFINE m == Head(kbdQ)
  <1>1. /\ kbdQ' = Tail(kbdQ) /\ ~waiting /\ paused_state = {} /\ m.kind = "KBD_TO_REQ"
        /\ conf_on' = [conf_on EXCEPT ![m.state] = m.new] /\ UNCHANGED <<curve, waiting>>
        /\ IF m.state = ac_state THEN PauseKbd("TIMEOUT", ~conf_on'[ac_state])
                                 ELSE UNCHANGED <<paused_state, current_kbd_pct>>
    BY DEF ReceiveTimeout, Running, SetKeyboardTimeout
  <1>2. /\ m \in Msg /\ kbdQ' \in Seq(Msg) /\ Aims'
        /\ \A k : In(kbdQ, k) <=> m.kind = k \/ In(kbdQ', k)
        /\ UpToDate /\ m.kind # "BL_UPD" => UpToDate'
        /\ \A k : Ahead(kbdQ', k) => Ahead(kbdQ, k)
        /\ Matching' = Matching
    BY <1>1, Reading
  <1>3. m.state \in AcStates /\ m.new \in BOOLEAN
    BY <1>1, <1>2 DEF Msg
  <1>4. conf_on' \in [AcStates -> BOOLEAN] /\ (m.state # ac_state => conf_on'[ac_state] = conf_on[ac_state])
    BY <1>1, <1>3 DEF IInv, TypeOK
  <1>5. /\ paused_state' \subseteq Why /\ current_kbd_pct' \in Levels \cup {NoLevel} /\ Dark'
        /\ "TIMEOUT" \in paused_state' <=> IF m.state = ac_state THEN ~conf_on'[ac_state]
                                                                 ELSE "TIMEOUT" \in paused_state
        /\ \A w \in Why \ {"TIMEOUT"} : w \in paused_state' <=> w \in paused_state
        /\ paused_state' = {} => \/ paused_state = {} /\ current_kbd_pct' = current_kbd_pct
                                 \/ current_kbd_pct' \in Matching'
    <2>1. CASE m.state = ac_state
      <3>1. PauseKbd("TIMEOUT", ~conf_on'[ac_state]) /\ UNCHANGED current_bl_pct
        BY <1>1, <2>1 DEF envVars
      <3>2. (~conf_on'[ac_state]) \in BOOLEAN /\ "TIMEOUT" \in Why
        BY DEF Why
      <3> QED
        BY <2>1, <3>1, <3>2, Paused
    <2>2. CASE m.state # ac_state
      BY <1>1, <2>2 DEF IInv, TypeOK, Dark
    <2> QED
      BY <2>1, <2>2
  <1>6. TypeOK'
    BY <1>1, <1>2, <1>4, <1>5 DEF IInv, TypeOK, envVars
  <1>7. Waits' /\ TimeoutKnown'
    BY <1>1, <1>2, <1>4, <1>5 DEF IInv, Waits, Known, TimeoutKnown, envVars
  <1>8. DisplayKnown' /\ SuspendKnown'
    BY <1>1, <1>2, <1>5 DEF IInv, Known, DisplayKnown, SuspendKnown, Why, envVars
  <1>9. Follows'
    BY <1>1, <1>2, <1>5 DEF IInv, Follows, WillFollow, envVars
  <1>10. Requests'
    BY <1>1, <1>2 DEF IInv, Requests
  <1>11. Held'
    <2>1. \A why \in paused_state' : why \in Due'
      BY <1>1, <1>5 DEF Due, Why, envVars
    <2> QED
      BY <1>2, <2>1, HeldStays
  <1> QED
    BY <1>2, <1>5, <1>6, <1>7, <1>8, <1>9, <1>10, <1>11 DEF IInv, Known

LEMMA CurveStep ==
  ASSUME IInv, kbdQ # <<>>, ReceiveCurve(Head(kbdQ)), UNCHANGED envVars
  PROVE  IInv'
  <1> DEFINE m == Head(kbdQ)
  <1>1. /\ kbdQ' = Tail(kbdQ) /\ m.kind = "KBD_CURVE_REQ" /\ curve' = [curve EXCEPT ![m.state] = m.new]
        /\ UNCHANGED <<conf_on, waiting, paused_state, current_kbd_pct>>
    BY DEF ReceiveCurve
  <1>2. /\ m \in Msg /\ kbdQ' \in Seq(Msg) /\ Aims'
        /\ \A k : In(kbdQ, k) <=> m.kind = k \/ In(kbdQ', k)
        /\ UpToDate /\ m.kind # "BL_UPD" => UpToDate'
        /\ \A k : Ahead(kbdQ', k) => Ahead(kbdQ, k)
        /\ Matching' = Matching
    BY <1>1, Reading
  <1>3. m.state \in AcStates /\ m.new \in Curves
    BY <1>1, <1>2 DEF Msg
  <1>4. curve' \in [AcStates -> Curves]
    BY <1>1, <1>3 DEF IInv, TypeOK
  <1>5. TypeOK'
    BY <1>1, <1>2, <1>4 DEF IInv, TypeOK, envVars
  <1>6. Waits' /\ Known' /\ Dark' /\ Follows'
    BY <1>1, <1>2 DEF IInv, Waits, Known, TimeoutKnown, DisplayKnown, SuspendKnown,
       Dark, Follows, WillFollow, envVars
  <1>7. Requests' /\ Held'
    BY <1>1, <1>2, HeldStays DEF IInv, Requests, Due, envVars
  <1> QED
    BY <1>2, <1>5, <1>6, <1>7 DEF IInv

\* The request KEYBOARD makes of itself replaces those in flight.
LEMMA ScreenStep ==
  ASSUME IInv, kbdQ # <<>>, OnScreenBlUpdate(Head(kbdQ)), UNCHANGED envVars
  PROVE  IInv'
  <1> DEFINE m == Head(kbdQ)
             req == [kind |-> "KBD_BL_REQ", new |-> curve[ac_state][m.new]]
  <1>1. /\ kbdQ' = Publish(Tail(kbdQ), req) /\ m.kind = "BL_UPD" /\ ~waiting /\ paused_state = {}
        /\ UNCHANGED kbdVars
    BY DEF OnScreenBlUpdate, Running
  <1>2. kbdQ \in Seq(Msg) /\ Says(kbdQ, current_bl_pct)
    BY DEF IInv, TypeOK, Aims
  <1>3. m \in Msg /\ Tail(kbdQ) \in Seq(Msg)
    BY <1>2, TailAt
  <1>4. Says(Tail(kbdQ), current_bl_pct) /\ (m.new = current_bl_pct \/ In(Tail(kbdQ), "BL_UPD"))
    BY <1>1, <1>2, TailSays
  <1>5. m.new \in Levels
    BY <1>1, <1>3 DEF Msg
  <1>6. curve[ac_state] \in Curves /\ curve[ac_state] \in [Levels -> Levels]
    BY KeyboardAssumption DEF IInv, TypeOK
  <1>7. /\ req.kind = "KBD_BL_REQ" /\ req \in Msg
        /\ m.new = current_bl_pct => req.new \in OnCurve
    BY <1>5, <1>6 DEF OnCurve, Msg
  <1> HIDE DEF req
  <1>8. kbdQ' \in Seq(Msg)
    BY <1>1, <1>3, <1>7, PublishAt
  <1>9. \A k : In(kbdQ', k) <=> In(Tail(kbdQ), k) \/ "KBD_BL_REQ" = k
    BY <1>1, <1>3, <1>7, PublishIn
  <1>10. \A k : In(kbdQ, k) <=> "BL_UPD" = k \/ In(Tail(kbdQ), k)
    BY <1>1, <1>2, TailIn
  <1>11. Aims' /\ UpToDate'
    <2>1. Says(kbdQ', current_bl_pct)
      BY <1>1, <1>3, <1>4, <1>7, PublishSays
    <2>2. m.new = current_bl_pct => Fresh(kbdQ', OnCurve)
      BY <1>1, <1>3, <1>7, PublishFresh
    <2> QED
      BY <1>4, <1>9, <2>1, <2>2 DEF Aims, UpToDate, OnCurve, envVars
  <1>12. TypeOK'
    BY <1>1, <1>8 DEF IInv, TypeOK, envVars, kbdVars
  <1>13. Waits' /\ Known' /\ Dark' /\ Follows'
    BY <1>1, <1>9, <1>10 DEF IInv, Waits, Known, TimeoutKnown, DisplayKnown, SuspendKnown,
       Dark, Follows, WillFollow, envVars, kbdVars
  <1>14. Requests' /\ Held'
    BY <1>1, <1>11 DEF Requests, Held, kbdVars
  <1> QED
    BY <1>11, <1>12, <1>13, <1>14 DEF IInv

\* A request is obeyed: it is up to date, or there is news of the screen, or of the display, in the pipe.
LEMMA LevelStep ==
  ASSUME IInv, kbdQ # <<>>, ReceiveLevel(Head(kbdQ)), UNCHANGED envVars
  PROVE  IInv'
  <1> DEFINE m == Head(kbdQ)
  <1>1. /\ kbdQ' = Tail(kbdQ) /\ m.kind = "KBD_BL_REQ" /\ ~waiting /\ paused_state = {}
        /\ current_kbd_pct' = IF display_on THEN m.new ELSE current_kbd_pct
        /\ UNCHANGED <<conf_on, curve, waiting, paused_state>>
    BY DEF ReceiveLevel, Running
  <1>2. /\ m \in Msg /\ kbdQ' \in Seq(Msg) /\ Aims'
        /\ \A k : In(kbdQ, k) <=> m.kind = k \/ In(kbdQ', k)
        /\ UpToDate /\ m.kind = "KBD_BL_REQ" => m.new \in OnCurve \/ In(kbdQ', "BL_UPD")
        /\ UpToDate /\ m.kind # "BL_UPD" => UpToDate'
        /\ Matching' = Matching
    BY <1>1, Reading
  <1>3. UpToDate
    BY <1>1 DEF IInv, Requests
  <1>4. m.new \in Levels
    BY <1>1, <1>2 DEF Msg
  <1>5. TypeOK'
    BY <1>1, <1>2, <1>4 DEF IInv, TypeOK, envVars
  <1>6. Waits' /\ Known' /\ Dark'
    BY <1>1, <1>2 DEF IInv, Waits, Known, TimeoutKnown, DisplayKnown, SuspendKnown, Dark, envVars
  <1>7. Follows'
    <2>1. CASE display_on
      BY <1>1, <1>2, <1>3, <2>1 DEF Follows, WillFollow, OnCurve, Matching
    <2>2. CASE ~display_on
      <3>1. In(kbdQ, "DISPLAY_UPD")
        BY <1>1, <2>2 DEF IInv, Known, DisplayKnown
      <3>2. In(kbdQ', "DISPLAY_UPD") /\ ~display_on'
        BY <1>1, <1>2, <2>2, <3>1 DEF envVars
      <3> QED
        BY <3>2 DEF Follows, WillFollow
    <2> QED
      BY <2>1, <2>2
  <1>8. Requests' /\ Held'
    BY <1>1, <1>2, <1>3 DEF Requests, Held
  <1> QED
    BY <1>2, <1>5, <1>6, <1>7, <1>8 DEF IInv

-----------------------------------------------------------------------------
LEMMA InvStep == IInv /\ [Next]_vars => IInv'
  <1> SUFFICES ASSUME IInv, [Next]_vars PROVE IInv'
    OBVIOUS
  <1>1. CASE UNCHANGED vars
    BY <1>1 DEF vars, envVars, kbdVars, IInv, TypeOK, Waits, Known, TimeoutKnown, DisplayKnown,
       SuspendKnown, Dark, Aims, Requests, UpToDate, Held, Due, OnCurve, Follows, WillFollow, Matching
  <1>2. ASSUME Receive PROVE IInv'
    BY <1>2, StartStep, DropStep, ChangeStep, TimeoutStep, CurveStep, ScreenStep, LevelStep
    DEF Receive
  <1> QED
    BY <1>1, <1>2, UPowerStep, DisplayStep, SuspendStep, BacklightStep, UserStep DEF Next

\* When nothing is left to read, what is known and aimed at is what holds.
LEMMA InvFollows == IInv => KbdFollowsScreen
  <1> SUFFICES ASSUME IInv, kbdQ = <<>>
               PROVE  /\ paused_state = Due
                      /\ IF paused_state # {} THEN current_kbd_pct = 0
                                              ELSE current_kbd_pct \in Matching \cup {NoLevel}
    BY DEF KbdFollowsScreen
  <1>1. \A k : ~In(kbdQ, k)
    BY DEF In
  <1>2. /\ ~waiting /\ paused_state \subseteq Why
        /\ "TIMEOUT" \in paused_state <=> ~conf_on[ac_state]
        /\ "DISPLAY" \in paused_state <=> ~display_on
        /\ "SUSPEND" \in paused_state <=> suspended
    BY <1>1 DEF IInv, TypeOK, Waits, Known, TimeoutKnown, DisplayKnown, SuspendKnown
  <1>3. paused_state = Due
    BY <1>2 DEF Due, Why
  <1> QED
    BY <1>1, <1>3 DEF IInv, Dark, Follows, WillFollow

\* The state of KEYBOARD, and the messages in its pipe, are of their types.
THEOREM TypeCorrect == Spec => []TypeOK
  <1>1. IInv => TypeOK
    BY DEF IInv
  <1> QED
    BY <1>1, InitInv, InvStep, PTL DEF Spec

(***************************************************************************)
(* Whatever crossed in its pipe and was dropped: with nothing left to      *)
(* read, KEYBOARD is paused for the reasons there are, dark while it is,   *)
(* and lit by the present level of the screen when it is not.              *)
(***************************************************************************)
THEOREM KeyboardFollows == Spec => []KbdFollowsScreen
  BY InitInv, InvStep, InvFollows, PTL DEF Spec
=============================================================================
