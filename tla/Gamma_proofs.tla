---------------------------- MODULE Gamma_proofs ----------------------------
(***************************************************************************)
(* Proofs about GAMMA, for any temperatures, levels of the backlight and   *)
(* bounds: the types, and that the temperature follows the time or the     *)
(* backlight, if the computer does not sleep from a sunrise into the next  *)
(* night.                                                                  *)
(***************************************************************************)
EXTENDS Gamma, SequenceTheorems, TLAPS

Unread(q, kind) == \E i \in 1 .. Len(q) : q[i].kind = kind

-----------------------------------------------------------------------------
\* A part of an interval, rounded down, lies in the interval.
LEMMA Rounded ==
  ASSUME NEW d \in Nat, NEW m \in Nat \ {0}, NEW p \in 0 .. m
  PROVE  (d * p) \div m \in 0 .. d
  <1> DEFINE x == d * p
             r == x \div m
  <1>1. x \in Nat /\ d * m \in Nat /\ x <= d * m
    <2>1. d * (m - p) \in Nat
      <3>1. m - p \in Nat
        OBVIOUS
      <3> QED
        BY <3>1
    <2>2. d * m = d * p + d * (m - p)
      OBVIOUS
    <2> QED
      BY <2>1, <2>2
  <1> HIDE DEF x
  <1>2. r \in Int /\ m * r <= x /\ x < m * r + m
    BY <1>1
  <1> HIDE DEF r
  <1>3. r <= d
    <2> SUFFICES ASSUME r >= d + 1 PROVE FALSE
      BY <1>2
    <2>1. m * r >= m * (d + 1)
      BY <1>2
    <2>2. m * (d + 1) = d * m + m
      OBVIOUS
    <2> QED
      BY <1>1, <1>2, <2>1, <2>2
  <1>4. r >= 0
    <2> SUFFICES ASSUME r <= -1 PROVE FALSE
      BY <1>2
    <2>1. m * r <= m * (-1)
      BY <1>2
    <2> QED
      BY <1>1, <1>2, <2>1
  <1> QED
    BY <1>2, <1>3, <1>4 DEF x, r

LEMMA OtherDay ==
  /\ Other("DAY") = "NIGHT" /\ Other("NIGHT") = "DAY"
  /\ DayTime \in Days /\ Other(DayTime) \in Days
  BY DEF Other, Days, DayTime

\* An ambient temperature lies between the two configured ones.
LEMMA AmbientType ==
  ASSUME NEW conf \in [Days -> Temps], NEW pct \in Levels
  PROVE  Ambient(conf, pct) \in Temps
  <1> DEFINE low == IF conf["NIGHT"] < conf["DAY"] THEN "NIGHT" ELSE "DAY"
             d == conf[Other(low)] - conf[low]
  <1>1. conf["DAY"] \in Temps /\ conf["NIGHT"] \in Temps /\ MaxTemp \in Nat /\ MaxLevel \in Nat \ {0}
    BY GammaAssumption DEF Days
  <1>2. conf[low] \in Temps /\ conf[Other(low)] \in Temps /\ d \in Nat
    BY <1>1, OtherDay DEF Temps
  <1>3. (d * pct) \div MaxLevel \in 0 .. d
    BY <1>1, <1>2, Rounded DEF Levels
  <1> DEFINE part == (d * pct) \div MaxLevel
  <1>4. Ambient(conf, pct) = conf[low] + part
    BY DEF Ambient
  <1> HIDE DEF part
  <1>5. part \in 0 .. (conf[Other(low)] - conf[low])
    BY <1>3 DEF part
  <1> HIDE DEF low
  <1> QED
    BY <1>1, <1>2, <1>4, <1>5 DEF Temps

-----------------------------------------------------------------------------
\* The pipe, as messages come and go.  A publication rewrites no level and no kind.
SyncFollows(q) ==
  \A i \in 1 .. Len(q) : q[i].kind = "NEXT_DAYEVT_UPD" =>
    \E j \in i + 1 .. Len(q) : q[j].kind = "SYNC"

LastLevel(q, level) ==
  \A i \in 1 .. Len(q) :
    q[i].kind = "BL_UPD" /\ (\A j \in i + 1 .. Len(q) : q[j].kind # "BL_UPD") => q[i].new = level

LEMMA Published ==
  ASSUME NEW q \in Seq(Msg), NEW msg \in Msg
  PROVE  LET p == Publish(q, msg)
         IN  /\ p \in Seq(Msg) /\ Len(q) \in Nat /\ Len(p) = Len(q) + 1 /\ p[Len(q) + 1] = msg
             /\ \A i \in 1 .. Len(q) : p[i] = IF q[i].kind = msg.kind THEN msg ELSE q[i]
  <1> DEFINE r == [i \in DOMAIN q |-> IF q[i].kind = msg.kind THEN msg ELSE q[i]]
  <1>1. Len(q) \in Nat /\ DOMAIN q = 1 .. Len(q)
    OBVIOUS
  <1>2. \A i \in 1 .. Len(q) : r[i] \in Msg
    OBVIOUS
  <1>3. r \in Seq(Msg)
    BY <1>1, <1>2, IsASeq
  <1>4. Len(r) = Len(q)
    BY <1>1, <1>3
  <1> HIDE DEF r
  <1>5. /\ Append(r, msg) \in Seq(Msg) /\ Len(Append(r, msg)) = Len(r) + 1
        /\ Append(r, msg)[Len(r) + 1] = msg
        /\ \A i \in 1 .. Len(r) : Append(r, msg)[i] = r[i]
    BY <1>3, AppendProperties
  <1>6. Publish(q, msg) = Append(r, msg)
    BY DEF Publish, r
  <1>7. \A i \in 1 .. Len(q) : r[i] = IF q[i].kind = msg.kind THEN msg ELSE q[i]
    BY <1>1 DEF r
  <1> QED
    BY <1>1, <1>4, <1>5, <1>6, <1>7

LEMMA TailFacts ==
  ASSUME NEW q \in Seq(Msg), q # <<>>
  PROVE  /\ Head(q) \in Msg /\ Tail(q) \in Seq(Msg)
         /\ \A kind : /\ Unread(Tail(q), kind) => Unread(q, kind)
                      /\ Unread(q, kind) => Head(q).kind = kind \/ Unread(Tail(q), kind)
                      /\ Head(q).kind = kind => Unread(q, kind)
         /\ SyncFollows(q) => /\ SyncFollows(Tail(q))
                              /\ Head(q).kind = "NEXT_DAYEVT_UPD" => Unread(Tail(q), "SYNC")
         /\ \A level : LastLevel(q, level) =>
              /\ LastLevel(Tail(q), level)
              /\ Head(q).kind = "BL_UPD" /\ ~Unread(Tail(q), "BL_UPD") => Head(q).new = level
  <1> DEFINE t == Tail(q)
  <1>1. /\ Len(q) \in Nat /\ Len(q) > 0 /\ Len(t) = Len(q) - 1
        /\ Head(q) = q[1] /\ Head(q) \in Msg /\ t \in Seq(Msg)
        /\ \A i \in 1 .. Len(t) : t[i] = q[i + 1]
    BY HeadTailProperties, EmptySeq
  <1> HIDE DEF t
  <1>2. ASSUME NEW kind
        PROVE  /\ Unread(t, kind) => Unread(q, kind)
               /\ Unread(q, kind) => Head(q).kind = kind \/ Unread(t, kind)
               /\ Head(q).kind = kind => Unread(q, kind)
    <2>1. ASSUME NEW i \in 1 .. Len(t), t[i].kind = kind PROVE Unread(q, kind)
      <3>1. i + 1 \in 1 .. Len(q) /\ q[i + 1].kind = kind
        BY <1>1, <2>1
      <3> QED
        BY <3>1 DEF Unread
    <2>2. ASSUME NEW i \in 1 .. Len(q), q[i].kind = kind PROVE Head(q).kind = kind \/ Unread(t, kind)
      <3>1. CASE i = 1
        BY <1>1, <2>2, <3>1
      <3>2. CASE i # 1
        <4>1. i - 1 \in 1 .. Len(t) /\ t[i - 1] = q[(i - 1) + 1] /\ (i - 1) + 1 = i
          BY <1>1, <3>2
        <4> QED
          BY <2>2, <4>1 DEF Unread
      <3> QED
        BY <3>1, <3>2
    <2>3. 1 \in 1 .. Len(q)
      BY <1>1
    <2> QED
      BY <1>1, <2>1, <2>2, <2>3 DEF Unread
  <1>3. ASSUME SyncFollows(q)
        PROVE  SyncFollows(t) /\ (Head(q).kind = "NEXT_DAYEVT_UPD" => Unread(t, "SYNC"))
    <2>1. ASSUME NEW i \in 0 .. Len(t), q[i + 1].kind = "NEXT_DAYEVT_UPD"
          PROVE  \E j \in i + 1 .. Len(t) : t[j].kind = "SYNC"
      <3>1. i + 1 \in 1 .. Len(q)
        BY <1>1
      <3>2. PICK j \in (i + 1) + 1 .. Len(q) : q[j].kind = "SYNC"
        BY <1>3, <2>1, <3>1 DEF SyncFollows
      <3>3. j - 1 \in i + 1 .. Len(t) /\ j - 1 \in 1 .. Len(t) /\ (j - 1) + 1 = j
        BY <1>1
      <3> QED
        BY <1>1, <3>2, <3>3
    <2>2. SyncFollows(t)
      <3> SUFFICES ASSUME NEW i \in 1 .. Len(t), t[i].kind = "NEXT_DAYEVT_UPD"
                   PROVE  \E j \in i + 1 .. Len(t) : t[j].kind = "SYNC"
        BY DEF SyncFollows
      <3>1. i \in 0 .. Len(t) /\ q[i + 1].kind = "NEXT_DAYEVT_UPD"
        BY <1>1
      <3> QED
        BY <2>1, <3>1
    <2>3. ASSUME Head(q).kind = "NEXT_DAYEVT_UPD" PROVE Unread(t, "SYNC")
      <3>1. 0 \in 0 .. Len(t) /\ q[0 + 1].kind = "NEXT_DAYEVT_UPD"
        BY <1>1, <2>3
      <3>2. \E j \in 0 + 1 .. Len(t) : t[j].kind = "SYNC"
        BY <2>1, <3>1
      <3> QED
        BY <3>2 DEF Unread
    <2> QED
      BY <2>2, <2>3
  <1>4. ASSUME NEW level, LastLevel(q, level)
        PROVE  /\ LastLevel(t, level)
               /\ Head(q).kind = "BL_UPD" /\ ~Unread(t, "BL_UPD") => Head(q).new = level
    <2>1. ASSUME NEW i \in 0 .. Len(t), q[i + 1].kind = "BL_UPD",
                 \A j \in i + 1 .. Len(t) : t[j].kind # "BL_UPD"
          PROVE  q[i + 1].new = level
      <3>1. i + 1 \in 1 .. Len(q)
        BY <1>1
      <3>2. ASSUME NEW j \in (i + 1) + 1 .. Len(q) PROVE q[j].kind # "BL_UPD"
        <4>1. j - 1 \in i + 1 .. Len(t) /\ j - 1 \in 1 .. Len(t) /\ (j - 1) + 1 = j
          BY <1>1
        <4> QED
          BY <1>1, <2>1, <4>1
      <3> QED
        BY <1>4, <2>1, <3>1, <3>2 DEF LastLevel
    <2>2. LastLevel(t, level)
      <3> SUFFICES ASSUME NEW i \in 1 .. Len(t), t[i].kind = "BL_UPD",
                          \A j \in i + 1 .. Len(t) : t[j].kind # "BL_UPD"
                   PROVE  t[i].new = level
        BY DEF LastLevel
      <3>1. i \in 0 .. Len(t) /\ q[i + 1].kind = "BL_UPD" /\ t[i] = q[i + 1]
        BY <1>1
      <3>2. q[i + 1].new = level
        BY <2>1, <3>1
      <3> QED
        BY <3>1, <3>2
    <2>3. ASSUME Head(q).kind = "BL_UPD", ~Unread(t, "BL_UPD") PROVE Head(q).new = level
      <3>1. 0 \in 0 .. Len(t) /\ q[0 + 1].kind = "BL_UPD"
        BY <1>1, <2>3
      <3>2. \A j \in 0 + 1 .. Len(t) : t[j].kind # "BL_UPD"
        BY <2>3 DEF Unread
      <3>3. q[0 + 1].new = level
        BY <2>1, <3>1, <3>2
      <3> QED
        BY <1>1, <3>3
    <2> QED
      BY <2>2, <2>3
  <1> QED
    BY <1>1, <1>2, <1>3, <1>4 DEF t

\* A pipe with more messages: nothing before them changes its kind, or its level.
Grown(q, p) ==
  /\ Len(p) >= Len(q)
  /\ \A i \in 1 .. Len(q) : p[i].kind = q[i].kind /\ (q[i].kind = "BL_UPD" => p[i] = q[i])

LEMMA GrownFacts ==
  ASSUME NEW q \in Seq(Msg), NEW p \in Seq(Msg), Grown(q, p)
  PROVE  /\ \A kind : Unread(q, kind) => Unread(p, kind)
         /\ SyncFollows(q) /\ (\A i \in Len(q) + 1 .. Len(p) : p[i].kind # "NEXT_DAYEVT_UPD")
              => SyncFollows(p)
         /\ SyncFollows(q) /\ Len(p) > Len(q) /\ p[Len(p)].kind = "SYNC"
              => SyncFollows(p) /\ Unread(p, "SYNC")
         /\ \A level :
              LastLevel(q, level) /\ (\A i \in Len(q) + 1 .. Len(p) : p[i].kind # "BL_UPD")
              => LastLevel(p, level)
         /\ \A level : Len(p) = Len(q) + 1 /\ p[Len(p)].kind = "BL_UPD" /\ p[Len(p)].new = level
              => LastLevel(p, level) /\ Unread(p, "BL_UPD")
  <1>1. /\ Len(q) \in Nat /\ Len(p) \in Nat /\ Len(p) >= Len(q)
        /\ \A i \in 1 .. Len(q) : i \in 1 .. Len(p) /\ p[i].kind = q[i].kind
    BY DEF Grown
  <1>2. \A i \in 1 .. Len(q) : q[i].kind = "BL_UPD" => p[i] = q[i]
    BY DEF Grown
  <1>3. ASSUME NEW kind, Unread(q, kind) PROVE Unread(p, kind)
    BY <1>1, <1>3 DEF Unread
  <1>4. ASSUME SyncFollows(q), \A i \in Len(q) + 1 .. Len(p) : p[i].kind # "NEXT_DAYEVT_UPD"
        PROVE  SyncFollows(p)
    <2> SUFFICES ASSUME NEW i \in 1 .. Len(p), p[i].kind = "NEXT_DAYEVT_UPD"
                 PROVE  \E j \in i + 1 .. Len(p) : p[j].kind = "SYNC"
      BY DEF SyncFollows
    <2>1. i \in 1 .. Len(q) /\ q[i].kind = "NEXT_DAYEVT_UPD"
      BY <1>1, <1>4
    <2>2. PICK j \in i + 1 .. Len(q) : q[j].kind = "SYNC"
      BY <1>4, <2>1 DEF SyncFollows
    <2>3. j \in 1 .. Len(q) /\ j \in i + 1 .. Len(p)
      BY <1>1
    <2> QED
      BY <1>1, <2>2, <2>3
  <1>5. ASSUME SyncFollows(q), Len(p) > Len(q), p[Len(p)].kind = "SYNC"
        PROVE  SyncFollows(p) /\ Unread(p, "SYNC")
    <2>1. Len(p) \in 1 .. Len(p)
      BY <1>1, <1>5
    <2>2. ASSUME NEW i \in 1 .. Len(p), p[i].kind = "NEXT_DAYEVT_UPD"
          PROVE  \E j \in i + 1 .. Len(p) : p[j].kind = "SYNC"
      <3>1. i # Len(p)
        BY <1>5, <2>2
      <3>2. Len(p) \in i + 1 .. Len(p)
        BY <1>1, <3>1
      <3> QED
        BY <1>5, <3>2
    <2> QED
      BY <1>5, <2>1, <2>2 DEF SyncFollows, Unread
  <1>6. ASSUME NEW level, LastLevel(q, level),
               \A i \in Len(q) + 1 .. Len(p) : p[i].kind # "BL_UPD"
        PROVE  LastLevel(p, level)
    <2> SUFFICES ASSUME NEW i \in 1 .. Len(p), p[i].kind = "BL_UPD",
                        \A j \in i + 1 .. Len(p) : p[j].kind # "BL_UPD"
                 PROVE  p[i].new = level
      BY DEF LastLevel
    <2>1. i \in 1 .. Len(q) /\ q[i].kind = "BL_UPD" /\ p[i] = q[i]
      BY <1>1, <1>2, <1>6
    <2>2. ASSUME NEW j \in i + 1 .. Len(q) PROVE q[j].kind # "BL_UPD"
      <3>1. j \in 1 .. Len(q) /\ j \in i + 1 .. Len(p)
        BY <1>1
      <3> QED
        BY <1>1, <3>1
    <2> QED
      BY <1>6, <2>1, <2>2 DEF LastLevel
  <1>7. ASSUME NEW level, Len(p) = Len(q) + 1, p[Len(p)].kind = "BL_UPD", p[Len(p)].new = level
        PROVE  LastLevel(p, level) /\ Unread(p, "BL_UPD")
    <2>1. Len(p) \in 1 .. Len(p)
      BY <1>1, <1>7
    <2>2. ASSUME NEW i \in 1 .. Len(p), \A j \in i + 1 .. Len(p) : p[j].kind # "BL_UPD"
          PROVE  p[i].new = level
      <3>1. CASE i = Len(p)
        BY <1>7, <3>1
      <3>2. CASE i # Len(p)
        <4>1. Len(p) \in i + 1 .. Len(p)
          BY <1>1, <3>2
        <4> QED
          BY <1>7, <2>2, <4>1
      <3> QED
        BY <3>1, <3>2
    <2> QED
      BY <1>7, <2>1, <2>2 DEF LastLevel, Unread
  <1> QED
    BY <1>3, <1>4, <1>5, <1>6, <1>7

LEMMA PublishGrows ==
  ASSUME NEW q \in Seq(Msg), NEW msg \in Msg, msg.kind # "BL_UPD"
  PROVE  /\ Publish(q, msg) \in Seq(Msg) /\ Grown(q, Publish(q, msg))
         /\ \A i \in Len(q) + 1 .. Len(Publish(q, msg)) : Publish(q, msg)[i] = msg
         /\ \A kind : Unread(Publish(q, msg), kind) => Unread(q, kind) \/ kind = msg.kind
  <1> DEFINE p == Publish(q, msg)
  <1>1. /\ p \in Seq(Msg) /\ Len(q) \in Nat /\ Len(p) = Len(q) + 1 /\ p[Len(q) + 1] = msg
        /\ \A i \in 1 .. Len(q) : p[i] = IF q[i].kind = msg.kind THEN msg ELSE q[i]
    BY Published
  <1> HIDE DEF p
  <1>2. Grown(q, p)
    BY <1>1 DEF Grown
  <1>3. \A i \in Len(q) + 1 .. Len(p) : p[i] = msg
    BY <1>1
  <1>4. ASSUME NEW kind, Unread(p, kind), kind # msg.kind PROVE Unread(q, kind)
    <2>1. PICK i \in 1 .. Len(p) : p[i].kind = kind
      BY <1>4 DEF Unread
    <2>2. i \in 1 .. Len(q)
      BY <1>1, <1>4, <2>1
    <2> QED
      BY <1>1, <1>4, <2>1, <2>2 DEF Unread
  <1> QED
    BY <1>1, <1>2, <1>3, <1>4 DEF p

LEMMA ConcatGrows ==
  ASSUME NEW q \in Seq(Msg), NEW w \in Seq(Msg)
  PROVE  /\ q \o w \in Seq(Msg) /\ Grown(q, q \o w) /\ Len(q \o w) = Len(q) + Len(w)
         /\ Len(w) > 0 => (q \o w)[Len(q \o w)] = w[Len(w)]
         /\ \A i \in Len(q) + 1 .. Len(q \o w) : \E j \in 1 .. Len(w) : (q \o w)[i] = w[j]
         /\ \A kind : Unread(q \o w, kind) <=> Unread(q, kind) \/ Unread(w, kind)
  <1> DEFINE p == q \o w
  <1>1. /\ p \in Seq(Msg) /\ Len(q) \in Nat /\ Len(w) \in Nat /\ Len(p) = Len(q) + Len(w)
        /\ \A i \in 1 .. Len(p) : p[i] = IF i <= Len(q) THEN q[i] ELSE w[i - Len(q)]
    BY ConcatProperties
  <1> HIDE DEF p
  <1>2. \A i \in 1 .. Len(q) : i \in 1 .. Len(p) /\ p[i] = q[i]
    BY <1>1
  <1>3. ASSUME NEW j \in 1 .. Len(w)
        PROVE  j + Len(q) \in 1 .. Len(p) /\ p[j + Len(q)] = w[j]
    <2>1. j + Len(q) \in 1 .. Len(p) /\ ~(j + Len(q) <= Len(q)) /\ (j + Len(q)) - Len(q) = j
      BY <1>1
    <2> QED
      BY <1>1, <2>1
  <1>4. \A i \in Len(q) + 1 .. Len(p) : i - Len(q) \in 1 .. Len(w) /\ p[i] = w[i - Len(q)]
    BY <1>1
  <1>5. Grown(q, p)
    BY <1>1, <1>2 DEF Grown
  <1>6. Len(w) > 0 => p[Len(p)] = w[Len(w)]
    <2> SUFFICES ASSUME Len(w) > 0 PROVE p[Len(p)] = w[Len(w)]
      OBVIOUS
    <2>1. Len(w) \in 1 .. Len(w) /\ Len(w) + Len(q) = Len(p)
      BY <1>1
    <2> QED
      BY <1>3, <2>1
  <1>7. ASSUME NEW kind PROVE Unread(p, kind) <=> Unread(q, kind) \/ Unread(w, kind)
    <2>1. ASSUME NEW i \in 1 .. Len(p), p[i].kind = kind PROVE Unread(q, kind) \/ Unread(w, kind)
      <3>1. i \in 1 .. Len(q) \/ i \in Len(q) + 1 .. Len(p)
        BY <1>1
      <3> QED
        BY <1>2, <1>4, <2>1, <3>1 DEF Unread
    <2> QED
      BY <1>2, <1>3, <2>1 DEF Unread
  <1> QED
    BY <1>1, <1>4, <1>5, <1>6, <1>7 DEF p


LEMMA OneOrNone ==
  ASSUME NEW a \in Msg, NEW c \in BOOLEAN
  PROVE  LET w == IF c THEN <<a>> ELSE <<>>
         IN  w \in Seq(Msg) /\ \A kind : Unread(w, kind) <=> c /\ a.kind = kind
  <1>1. <<a>> \in Seq(Msg) /\ Len(<<a>>) = 1 /\ <<a>>[1] = a
    OBVIOUS
  <1>2. <<>> \in Seq(Msg) /\ Len(<<>>) = 0
    OBVIOUS
  <1>3. \A kind : Unread(<<a>>, kind) <=> a.kind = kind
    BY <1>1 DEF Unread
  <1>4. \A kind : ~Unread(<<>>, kind)
    BY <1>2 DEF Unread
  <1> QED
    BY <1>1, <1>2, <1>3, <1>4

\* What DAYTIME says ends with a SYNC, and nothing in it is about the backlight.
LEMMA ToldFacts ==
  ASSUME NEW changes
  PROVE  /\ Told(changes) \in Seq(Msg) /\ Len(Told(changes)) > 0
         /\ Told(changes)[Len(Told(changes))].kind = "SYNC"
         /\ \A i \in 1 .. Len(Told(changes)) : Told(changes)[i].kind # "BL_UPD"
         /\ "event" \in changes => Unread(Told(changes), "NEXT_DAYEVT_UPD")
  <1> DEFINE d == [kind |-> "DAYTIME_UPD"]
             n == [kind |-> "NEXT_DAYEVT_UPD"]
             y == [kind |-> "SYNC"]
             before == IF "daytime" \in changes THEN <<d>> ELSE <<>>
             event == IF "event" \in changes THEN <<n>> ELSE <<>>
  <1>1. d \in Msg /\ n \in Msg /\ y \in Msg
    BY DEF Msg
  <1>2. d.kind = "DAYTIME_UPD" /\ n.kind = "NEXT_DAYEVT_UPD" /\ y.kind = "SYNC"
    OBVIOUS
  <1>3. Told(changes) = (before \o event) \o <<y>>
    BY DEF Told
  <1> HIDE DEF d, n, y
  <1>4. /\ before \in Seq(Msg) /\ event \in Seq(Msg)
        /\ \A kind : /\ Unread(before, kind) => kind = "DAYTIME_UPD"
                     /\ Unread(event, kind) <=> "event" \in changes /\ kind = "NEXT_DAYEVT_UPD"
    <2>1. before \in Seq(Msg) /\ (\A kind : Unread(before, kind) => d.kind = kind)
      BY <1>1, OneOrNone, Zenon
    <2>2. event \in Seq(Msg) /\ (\A kind : Unread(event, kind) <=> "event" \in changes /\ n.kind = kind)
      BY <1>1, OneOrNone, Zenon
    <2> HIDE DEF before, event
    <2> QED
      BY <1>2, <2>1, <2>2
  <1> HIDE DEF before, event
  <1>5. /\ <<y>> \in Seq(Msg) /\ Len(<<y>>) = 1 /\ <<y>>[1] = y
    BY <1>1
  <1>6. before \o event \in Seq(Msg)
    BY <1>4, ConcatGrows
  <1>7. /\ Told(changes) \in Seq(Msg)
        /\ Len(Told(changes)) = Len(before \o event) + 1 /\ Len(before \o event) \in Nat
        /\ Told(changes)[Len(Told(changes))] = y
    BY <1>3, <1>5, <1>6, ConcatGrows
  <1>8. \A kind : Unread(Told(changes), kind)
          <=> Unread(before, kind) \/ Unread(event, kind) \/ Unread(<<y>>, kind)
    <2>1. \A kind : Unread(before \o event, kind) <=> Unread(before, kind) \/ Unread(event, kind)
      BY <1>4, ConcatGrows
    <2>2. \A kind : Unread((before \o event) \o <<y>>, kind)
            <=> Unread(before \o event, kind) \/ Unread(<<y>>, kind)
      BY <1>5, <1>6, ConcatGrows, Zenon
    <2> QED
      BY <1>3, <2>1, <2>2, Zenon
  <1>9. Unread(<<y>>, "BL_UPD") => FALSE
    BY <1>2, <1>5 DEF Unread
  <1>10. ~Unread(Told(changes), "BL_UPD")
    BY <1>4, <1>8, <1>9
  <1>11. \A i \in 1 .. Len(Told(changes)) : Told(changes)[i].kind # "BL_UPD"
    BY <1>10 DEF Unread
  <1> QED
    BY <1>2, <1>4, <1>7, <1>8, <1>11

LEMMA AppendGrows ==
  ASSUME NEW q \in Seq(Msg), NEW msg \in Msg
  PROVE  /\ Append(q, msg) \in Seq(Msg) /\ Grown(q, Append(q, msg))
         /\ Len(Append(q, msg)) = Len(q) + 1 /\ Append(q, msg)[Len(Append(q, msg))] = msg
         /\ \A i \in Len(q) + 1 .. Len(Append(q, msg)) : Append(q, msg)[i] = msg
         /\ \A kind : Unread(Append(q, msg), kind) => Unread(q, kind) \/ kind = msg.kind
  <1> DEFINE p == Append(q, msg)
  <1>1. /\ p \in Seq(Msg) /\ Len(q) \in Nat /\ Len(p) = Len(q) + 1 /\ p[Len(q) + 1] = msg
        /\ \A i \in 1 .. Len(q) : p[i] = q[i]
    BY AppendProperties
  <1> HIDE DEF p
  <1>2. Grown(q, p)
    BY <1>1 DEF Grown
  <1>3. \A i \in Len(q) + 1 .. Len(p) : p[i] = msg
    BY <1>1
  <1>4. ASSUME NEW kind, Unread(p, kind), kind # msg.kind PROVE Unread(q, kind)
    <2>1. PICK i \in 1 .. Len(p) : p[i].kind = kind
      BY <1>4 DEF Unread
    <2>2. i \in 1 .. Len(q)
      BY <1>1, <1>4, <2>1
    <2> QED
      BY <1>1, <2>1, <2>2 DEF Unread
  <1> QED
    BY <1>1, <1>2, <1>3, <1>4 DEF p

\* A request is of none of the kinds that the proofs below count.
LEMMA AsksGrows ==
  ASSUME gammaQ \in Seq(Msg), current_temp \in Temps \cup {None}, Asks
  PROVE  /\ gammaQ' \in Seq(Msg) /\ Grown(gammaQ, gammaQ')
         /\ \A i \in Len(gammaQ) + 1 .. Len(gammaQ') :
              gammaQ'[i].kind \notin {"NEXT_DAYEVT_UPD", "BL_UPD"}
         /\ Unread(gammaQ', "DAYTIME_UPD") => Unread(gammaQ, "DAYTIME_UPD")
  <1> DEFINE Requests == {"TEMP_REQ", "AMB_GAMMA_REQ", "HOTPLUG"}
             Asked == [kind : {"TEMP_REQ"}, new : Temps \cup {None}, daytime : Days]
                      \cup [kind : {"AMB_GAMMA_REQ"}, new : BOOLEAN]
                      \cup [kind : {"HOTPLUG"}, new : Temps \cup {None}]
  <1>1. \A msg \in Asked : msg \in Msg /\ msg.kind \in Requests
    BY DEF Msg
  <1>2. PICK msg \in Asked : gammaQ' = Publish(gammaQ, msg) \/ gammaQ' = Append(gammaQ, msg)
    <2>1. CASE \E t \in Temps \cup {None}, d \in Days :
                 gammaQ' = Publish(gammaQ, [kind |-> "TEMP_REQ", new |-> t, daytime |-> d])
      <3>1. PICK t \in Temps \cup {None}, d \in Days :
              gammaQ' = Publish(gammaQ, [kind |-> "TEMP_REQ", new |-> t, daytime |-> d])
        BY <2>1
      <3>2. [kind |-> "TEMP_REQ", new |-> t, daytime |-> d] \in Asked
        OBVIOUS
      <3> QED
        BY <3>1, <3>2, Zenon
    <2>2. CASE \E b \in BOOLEAN : gammaQ' = Publish(gammaQ, [kind |-> "AMB_GAMMA_REQ", new |-> b])
      <3>1. PICK b \in BOOLEAN : gammaQ' = Publish(gammaQ, [kind |-> "AMB_GAMMA_REQ", new |-> b])
        BY <2>2
      <3>2. [kind |-> "AMB_GAMMA_REQ", new |-> b] \in Asked
        OBVIOUS
      <3> QED
        BY <3>1, <3>2, Zenon
    <2>3. CASE gammaQ' = Append(gammaQ, [kind |-> "HOTPLUG", new |-> current_temp])
      <3>1. [kind |-> "HOTPLUG", new |-> current_temp] \in Asked
        OBVIOUS
      <3> QED
        BY <2>3, <3>1, Zenon
    <2> QED
      BY <2>1, <2>2, <2>3, Zenon DEF Asks
  <1> HIDE DEF Asked
  <1>3. msg \in Msg /\ msg.kind \in Requests
    BY <1>1
  <1>4. /\ gammaQ' \in Seq(Msg) /\ Grown(gammaQ, gammaQ')
        /\ \A i \in Len(gammaQ) + 1 .. Len(gammaQ') : gammaQ'[i] = msg
        /\ \A kind : Unread(gammaQ', kind) => Unread(gammaQ, kind) \/ kind = msg.kind
    <2>1. CASE gammaQ' = Publish(gammaQ, msg)
      BY <1>3, <2>1, PublishGrows
    <2>2. CASE gammaQ' = Append(gammaQ, msg)
      BY <1>3, <2>2, AppendGrows
    <2> QED
      BY <1>2, <2>1, <2>2
  <1> QED
    BY <1>3, <1>4

-----------------------------------------------------------------------------
\* The types, and that GAMMA hears of the time only once DAYTIME has stopped waiting.
EnvTypes ==
  /\ sun \in 0 .. 5 /\ daytime \in {"waiting", "started", "stopped"}
  /\ suspended \in BOOLEAN /\ display_on \in BOOLEAN
  /\ current_bl_pct \in Levels /\ bl_target \in Levels
ConfTypes ==
  conf_temp \in [Days -> Temps] /\ ambient_gamma \in BOOLEAN /\ long_transition \in BOOLEAN
SyncTypes == new_day \in BOOLEAN /\ should_sync_temp \in BOOLEAN
SetTypes ==
  long_transitioning \in BOOLEAN /\ missed \in BOOLEAN /\ target \in Temps \cup {None}
PhaseTypes ==
  /\ phase \in {"waiting", "running", "paused", "dead"}
  /\ phase \in {"running", "paused"} => daytime = "started"
PipeTypes ==
  gammaQ \in Seq(Msg) /\ (Unread(gammaQ, "DAYTIME_UPD") => daytime # "waiting")
ScreenTypes == toggled \in BOOLEAN /\ current_temp \in Temps \cup {None}

Types ==
  /\ EnvTypes /\ ConfTypes /\ SyncTypes /\ SetTypes
  /\ PhaseTypes /\ PipeTypes /\ ScreenTypes

LEMMA TypesImplyTypeOK == Types => TypeOK
  BY DEF Types, TypeOK, EnvTypes, ConfTypes, SyncTypes, SetTypes, PhaseTypes, PipeTypes, ScreenTypes

LEMMA TypesInit == Init => Types
  <1> SUFFICES ASSUME Init PROVE Types
    OBVIOUS
  <1>1. gammaQ \in Seq(Msg) /\ ~Unread(gammaQ, "DAYTIME_UPD")
    BY DEF Init, Unread
  <1> QED
    BY <1>1 DEF Init, Types, EnvTypes, ConfTypes, SyncTypes, SetTypes, PhaseTypes, PipeTypes,
                ScreenTypes

LEMMA MessageRead ==
  ASSUME NEW m \in Msg
  PROVE  /\ m.kind = "BL_UPD" => m.new \in Levels
         /\ m.kind = "AMB_GAMMA_REQ" => m.new \in BOOLEAN
         /\ m.kind \in {"TEMP_REQ", "HOTPLUG"} => m.new \in Temps \cup {None}
         /\ m.kind = "TEMP_REQ" => m.daytime \in Days
  BY DEF Msg

LEMMA SetTempTypes ==
  ASSUME ConfTypes, SetTypes, NEW temp \in Temps, NEW timed \in BOOLEAN, NEW wanted \in BOOLEAN,
         SetTemp(temp, timed, wanted)
  PROVE  SetTypes'
  <1>1. conf_temp[Other(DayTime)] \in Temps
    BY OtherDay DEF ConfTypes
  <1>2. long_transitioning' \in BOOLEAN
    BY DEF SetTemp, ConfTypes
  <1>3. missed' \in BOOLEAN
    BY DEF SetTemp
  <1>4. target' \in Temps \cup {None}
    BY <1>1 DEF SetTemp, SetTypes
  <1> QED
    BY <1>2, <1>3, <1>4 DEF SetTypes

LEMMA AmbientTypes ==
  ASSUME EnvTypes, ConfTypes, ConfTypes', SetTypes, NEW pct \in Levels, NEW now \in BOOLEAN,
         AmbientCallback(pct, now)
  PROVE  SetTypes'
  <1>1. Ambient(conf_temp', pct) \in Temps
    BY AmbientType DEF ConfTypes
  <1>2. CASE ambient_gamma' /\ display_on
    <2>1. SetTemp(Ambient(conf_temp', pct), FALSE, now)
      BY <1>2 DEF AmbientCallback
    <2> QED
      BY <1>1, <2>1, SetTempTypes
  <1>3. CASE ~(ambient_gamma' /\ display_on)
    BY <1>3 DEF AmbientCallback, Miss, SetTypes, ConfTypes
  <1> QED
    BY <1>2, <1>3

LEMMA AmbientNowTypes ==
  ASSUME EnvTypes, ConfTypes, ConfTypes', SetTypes, AmbientNow
  PROVE  SetTypes'
  <1> DEFINE now == current_bl_pct = bl_target
  <1>1. AmbientCallback(current_bl_pct, now) /\ now \in BOOLEAN /\ current_bl_pct \in Levels
    BY DEF AmbientNow, EnvTypes
  <1> HIDE DEF now
  <1> QED
    BY <1>1, AmbientTypes

LEMMA OnDaytimeTypes ==
  ASSUME ConfTypes, SyncTypes, SetTypes, OnDaytimeReq
  PROVE  SetTypes' /\ new_day' \in BOOLEAN
  <1>1. conf_temp[DayTime] \in Temps
    BY OtherDay DEF ConfTypes
  <1>2. CASE SetTemp(conf_temp[DayTime], TRUE, TRUE)
    BY <1>1, <1>2, SetTempTypes DEF OnDaytimeReq
  <1>3. CASE /\ long_transitioning' = (long_transitioning /\ ~new_day)
             /\ UNCHANGED <<target, missed>>
    BY <1>3 DEF OnDaytimeReq, SetTypes
  <1> QED
    BY <1>2, <1>3 DEF OnDaytimeReq

LEMMA TypesElsewhere == ASSUME Types, Elsewhere PROVE Types'
  <1>1. /\ ConfTypes' /\ SetTypes' /\ ScreenTypes' /\ should_sync_temp' \in BOOLEAN
        /\ phase' = phase
    BY DEF Types, Elsewhere, confVars, setVars, ConfTypes, SyncTypes, SetTypes, ScreenTypes
  <1>2. CASE DaytimeStarts
    <2>1. CASE daytime' = "started" /\ gammaQ' = gammaQ \o Told({"daytime", "event"})
      <3>1. gammaQ' \in Seq(Msg)
        BY <2>1, ToldFacts, ConcatGrows DEF Types, PipeTypes
      <3> QED
        BY <1>1, <1>2, <2>1, <3>1
        DEF DaytimeStarts, Types, EnvTypes, SyncTypes, PhaseTypes, PipeTypes
    <2>2. CASE daytime' = "stopped" /\ gammaQ' = Append(gammaQ, [kind |-> "DAYTIME_UPD"])
      <3>1. gammaQ' \in Seq(Msg)
        BY <2>2 DEF Types, PipeTypes, Msg
      <3> QED
        BY <1>1, <1>2, <2>2, <3>1
        DEF DaytimeStarts, Types, EnvTypes, SyncTypes, PhaseTypes, PipeTypes
    <2> QED
      BY <1>2, <2>1, <2>2 DEF DaytimeStarts
  <1>3. CASE DaytimeGoesOn
    <2>1. PICK parts \in -5 .. 12 :
            /\ sun' = (sun + parts) % 6
            /\ new_day' = (new_day \/ \E p \in 0 .. parts - 1 : (sun + p) % 6 = 3)
      BY <1>3, GammaAssumption DEF DaytimeGoesOn
    <2>2. sun' \in 0 .. 5 /\ new_day' \in BOOLEAN
      BY <2>1 DEF Types, EnvTypes
    <2>3. PICK changes : gammaQ' = gammaQ \o Told(changes)
      BY <1>3 DEF DaytimeGoesOn
    <2>4. gammaQ' \in Seq(Msg)
      BY <2>3, ToldFacts, ConcatGrows DEF Types, PipeTypes
    <2> QED
      BY <1>1, <1>3, <2>2, <2>4
      DEF DaytimeGoesOn, Types, EnvTypes, SyncTypes, PhaseTypes, PipeTypes
  <1>4. CASE SuspendedChanges
    <2>1. [kind |-> "SUSPEND_UPD"] \in Msg
      BY DEF Msg
    <2>2. PipeTypes'
      BY <1>4, <2>1, PublishGrows DEF SuspendedChanges, Types, PipeTypes
    <2> QED
      BY <1>1, <1>4, <2>2 DEF SuspendedChanges, Types, EnvTypes, SyncTypes, PhaseTypes
  <1>5. CASE DisplayChanges
    BY <1>1, <1>5 DEF DisplayChanges, Types, EnvTypes, SyncTypes, PhaseTypes, PipeTypes
  <1>6. CASE BacklightChanges
    <2>1. PICK l \in Levels :
            bl_target' = l /\ gammaQ' = Append(gammaQ, [kind |-> "BL_UPD", new |-> l])
      BY <1>6 DEF BacklightChanges
    <2> DEFINE msg == [kind |-> "BL_UPD", new |-> l]
    <2>2. msg \in Msg /\ msg.kind = "BL_UPD"
      BY DEF Msg
    <2> HIDE DEF msg
    <2>3. PipeTypes'
      BY <1>6, <2>1, <2>2, AppendGrows DEF BacklightChanges, Types, PipeTypes, msg
    <2> QED
      BY <1>1, <1>6, <2>1, <2>3 DEF BacklightChanges, Types, EnvTypes, SyncTypes, PhaseTypes
  <1>7. CASE BacklightArrives
    BY <1>1, <1>7 DEF BacklightArrives, Types, EnvTypes, SyncTypes, PhaseTypes, PipeTypes
  <1>8. CASE Asks
    <2>1. PipeTypes'
      <3>1. gammaQ \in Seq(Msg) /\ current_temp \in Temps \cup {None}
        BY DEF Types, PipeTypes, ScreenTypes
      <3>2. daytime' = daytime
        BY <1>8 DEF Asks, envVars
      <3> QED
        BY <1>8, <3>1, <3>2, AsksGrows DEF Types, PipeTypes
    <2> QED
      BY <1>1, <1>8, <2>1 DEF Asks, envVars, Types, EnvTypes, SyncTypes, PhaseTypes
  <1> QED
    BY <1>2, <1>3, <1>4, <1>5, <1>6, <1>7, <1>8 DEF Elsewhere

\* What a message leaves: types of what GAMMA keeps, and GAMMA runs where DAYTIME has started.
LEMMA TypesReceive == ASSUME Types, Receive PROVE Types'
  <1> DEFINE m == Head(gammaQ)
             Kept == ConfTypes' /\ SyncTypes' /\ SetTypes' /\ PhaseTypes'
  <1>1. gammaQ \in Seq(Msg) /\ gammaQ # <<>> /\ gammaQ' = Tail(gammaQ)
    BY DEF Receive, Types, PipeTypes
  <1>2. m \in Msg /\ gammaQ' \in Seq(Msg) /\ (Unread(gammaQ', "DAYTIME_UPD") => Unread(gammaQ, "DAYTIME_UPD"))
    BY <1>1, TailFacts
  <1>3. m.kind = "DAYTIME_UPD" => Unread(gammaQ, "DAYTIME_UPD")
    BY <1>1, TailFacts
  <1>4. UNCHANGED <<envVars, long_transition, toggled, current_temp>>
    BY DEF Receive
  <1>5. EnvTypes' /\ ScreenTypes' /\ PipeTypes' /\ daytime' = daytime
    BY <1>2, <1>4 DEF Types, EnvTypes, ScreenTypes, PipeTypes, envVars
  <1>6. \/ FirstDaytime(m)
        \/ /\ phase \in {"running", "paused"}
           /\ \/ BlUpd(m) \/ Sync(m) \/ NewDayEvent(m) \/ TempReq(m) \/ AmbGammaReq(m)
              \/ PauseMod /\ UNCHANGED confVars
        \/ UNCHANGED <<confVars, syncVars, setVars, phase>>
    BY DEF Receive, Dropped
  <1> HIDE DEF m
  <1> USE DEF Types
  <1> SUFFICES Kept
    BY <1>5
  <1>7. ASSUME UNCHANGED confVars PROVE ConfTypes'
    BY <1>4, <1>7 DEF confVars, ConfTypes
  <1>8. ASSUME UNCHANGED syncVars PROVE SyncTypes'
    BY <1>8 DEF syncVars, SyncTypes
  <1>9. ASSUME UNCHANGED setVars PROVE SetTypes'
    BY <1>9 DEF setVars, SetTypes
  <1>10. ASSUME UNCHANGED phase PROVE PhaseTypes'
    BY <1>5, <1>10 DEF PhaseTypes
  <1>11. CASE FirstDaytime(m)
    <2>1. PhaseTypes'
      BY <1>3, <1>5, <1>11 DEF FirstDaytime, PhaseTypes, PipeTypes, EnvTypes
    <2> QED
      BY <1>7, <1>8, <1>9, <1>11, <2>1 DEF FirstDaytime
  <1>12. CASE UNCHANGED <<confVars, syncVars, setVars, phase>>
    BY <1>7, <1>8, <1>9, <1>10, <1>12
  <1>13. CASE phase \in {"running", "paused"} /\ BlUpd(m)
    <2>1. UNCHANGED <<confVars, syncVars, phase>> /\ m.new \in Levels
      BY <1>2, <1>13, MessageRead DEF BlUpd
    <2>2. ConfTypes' /\ SyncTypes' /\ PhaseTypes'
      BY <1>7, <1>8, <1>10, <2>1
    <2>3. CASE phase = "running"
      BY <1>13, <2>1, <2>2, <2>3, AmbientTypes DEF BlUpd
    <2>4. CASE phase # "running"
      <3>1. Miss
        BY <1>13, <2>4 DEF BlUpd
      <3> QED
        BY <2>2, <3>1 DEF Miss, SetTypes, ConfTypes
    <2> QED
      BY <2>2, <2>3, <2>4
  <1>14. CASE phase \in {"running", "paused"} /\ Sync(m)
    <2>1. ConfTypes' /\ PhaseTypes'
      BY <1>7, <1>10, <1>14 DEF Sync
    <2>2. CASE phase = "running"
      BY <1>14, <2>1, <2>2, OnDaytimeTypes DEF Sync, SyncTypes
    <2>3. CASE phase # "running"
      BY <1>9, <1>14, <2>1, <2>3 DEF Sync, SyncTypes
    <2> QED
      BY <2>2, <2>3
  <1>15. CASE phase \in {"running", "paused"} /\ NewDayEvent(m)
    BY <1>7, <1>8, <1>10, <1>15 DEF NewDayEvent, SetTypes
  <1>16. CASE phase \in {"running", "paused"} /\ TempReq(m)
    <2> DEFINE day == IF m.kind = "HOTPLUG" THEN DayTime ELSE m.daytime
    <2>1. day \in Days /\ m.new \in Temps \cup {None} /\ DayTime \in Days
      BY <1>2, <1>16, MessageRead, OtherDay DEF TempReq
    <2>2. /\ UNCHANGED <<ambient_gamma, syncVars, phase>>
          /\ conf_temp' = [conf_temp EXCEPT ![day] = IF m.new = None THEN @ ELSE m.new]
          /\ \/ day = DayTime /\ SetTemp(conf_temp'[day], FALSE, TRUE)
             \/ AmbientNow
      BY <1>16 DEF TempReq
    <2> HIDE DEF day
    <2>3. SyncTypes' /\ PhaseTypes'
      BY <1>8, <1>10, <2>2
    <2>4. conf_temp' \in [Days -> Temps] /\ conf_temp'[day] \in Temps
      BY <2>1, <2>2 DEF ConfTypes
    <2>5. ConfTypes'
      BY <1>4, <2>2, <2>4 DEF ConfTypes
    <2>6. SetTypes'
      BY <2>2, <2>4, <2>5, SetTempTypes, AmbientNowTypes
    <2> QED
      BY <2>3, <2>5, <2>6
  <1>17. CASE phase \in {"running", "paused"} /\ AmbGammaReq(m)
    <2>1. m.new \in BOOLEAN
      BY <1>2, <1>17, MessageRead DEF AmbGammaReq
    <2>2. SyncTypes' /\ PhaseTypes' /\ ConfTypes'
      BY <1>4, <1>8, <1>10, <1>17, <2>1 DEF AmbGammaReq, ConfTypes
    <2>3. conf_temp[DayTime] \in Temps
      BY OtherDay DEF ConfTypes
    <2>4. AmbientNow \/ SetTemp(conf_temp[DayTime], FALSE, TRUE)
      BY <1>17 DEF AmbGammaReq
    <2>5. SetTypes'
      BY <2>2, <2>3, <2>4, SetTempTypes, AmbientNowTypes
    <2> QED
      BY <2>2, <2>5
  <1>18. CASE phase \in {"running", "paused"} /\ PauseMod /\ UNCHANGED confVars
    <2>1. phase' \in {"running", "paused"} /\ PhaseTypes'
      BY <1>5, <1>18 DEF PauseMod, PhaseTypes
    <2>2. SyncTypes' /\ SetTypes'
      <3>1. CASE should_sync_temp' = FALSE /\ OnDaytimeReq
        BY <3>1, OnDaytimeTypes DEF SyncTypes
      <3>2. CASE UNCHANGED <<syncVars, setVars>>
        BY <1>8, <1>9, <3>2
      <3> QED
        BY <1>18, <3>1, <3>2 DEF PauseMod
    <2> QED
      BY <1>7, <1>18, <2>1, <2>2
  <1> QED
    BY <1>6, <1>11, <1>12, <1>13, <1>14, <1>15, <1>16, <1>17, <1>18

LEMMA TypesStep == ASSUME Types, [Next]_vars PROVE Types'
  <1>1. CASE SetLongTransition
    BY <1>1 DEF SetLongTransition, Types, EnvTypes, ConfTypes, SyncTypes, SetTypes, PhaseTypes,
                PipeTypes, ScreenTypes, envVars, confVars, syncVars, setVars
  <1>2. CASE OnTempChanged
    <2>1. current_temp' \in Temps \cup {None}
      BY <1>2, GammaAssumption DEF OnTempChanged, Types, SetTypes, ScreenTypes, Temps, None
    <2> QED
      BY <1>2, <2>1 DEF OnTempChanged, Types, EnvTypes, ConfTypes, SyncTypes, SetTypes, PhaseTypes,
                        PipeTypes, ScreenTypes, envVars, confVars, syncVars, setVars
  <1>3. CASE ToggleGamma
    <2> DEFINE temp == conf_temp[IF toggled THEN DayTime ELSE Other(DayTime)]
    <2>1. temp \in Temps
      BY OtherDay DEF Types, ConfTypes
    <2>2. SetTemp(temp, FALSE, FALSE)
      BY <1>3 DEF ToggleGamma
    <2> HIDE DEF temp
    <2>3. SetTypes'
      BY <2>1, <2>2, SetTempTypes DEF Types
    <2> QED
      BY <1>3, <2>3 DEF ToggleGamma, Types, EnvTypes, ConfTypes, SyncTypes, PhaseTypes,
                        PipeTypes, ScreenTypes, envVars, confVars, syncVars
  <1>4. CASE UNCHANGED vars
    BY <1>4 DEF vars, Types, EnvTypes, ConfTypes, SyncTypes, SetTypes, PhaseTypes,
                PipeTypes, ScreenTypes, envVars, confVars, syncVars, setVars
  <1> QED
    BY <1>1, <1>2, <1>3, <1>4, TypesElsewhere, TypesReceive DEF Next

(***************************************************************************)
(* GAMMA, its pipe and what it asks Clightd for have their types; GAMMA    *)
(* runs only where DAYTIME has started, and every ambient temperature lies *)
(* between the two that are configured.                                    *)
(***************************************************************************)
THEOREM TypeCorrect == Spec => []TypeOK
  <1>1. Spec => []Types
    BY TypesInit, TypesStep, PTL DEF Spec
  <1> QED
    BY <1>1, TypesImplyTypeOK, PTL

-----------------------------------------------------------------------------
(***************************************************************************)
(* The inductive invariant of TempFollows.  A long transition that should  *)
(* be over ends: the event is announced, or the date has changed, and a    *)
(* SYNC comes after each announcement.  Unless what is set is right, news  *)
(* that corrects it are unread, or remembered while GAMMA is paused.       *)
(***************************************************************************)
TransitionEnds ==
  long_transitioning /\ ~InEvent => new_day \/ Unread(gammaQ, "NEXT_DAYEVT_UPD")

NotYet == phase \in {"waiting", "dead"} => missed /\ ~long_transitioning

TimeFollowed ==
  \/ Unread(gammaQ, "SYNC") \/ (phase = "paused" /\ should_sync_temp)
  \/ (long_transitioning /\ InEvent) \/ target = conf_temp[DayTime]

LevelFollowed == Unread(gammaQ, "BL_UPD") \/ target = Ambient(conf_temp, bl_target)

Followed == ~missed => IF ambient_gamma THEN LevelFollowed ELSE TimeFollowed

PipeFollows == SyncFollows(gammaQ) /\ LastLevel(gammaQ, bl_target)

TempInv == PipeFollows /\ NotYet /\ TransitionEnds /\ Followed

LEMMA TempInvEnough == ASSUME Types, TempInv PROVE TempFollows
  <1> SUFFICES ASSUME phase = "running", gammaQ = <<>>, ~missed
               PROVE  IF ambient_gamma THEN target = Ambient(conf_temp, bl_target)
                      ELSE (long_transitioning /\ InEvent) \/ target = conf_temp[DayTime]
    BY DEF TempFollows
  <1>1. \A kind : ~Unread(gammaQ, kind)
    BY DEF Unread
  <1> QED
    BY <1>1 DEF TempInv, Followed, TimeFollowed, LevelFollowed

\* What is elsewhere in the pipe, the sun and the date hold still.
LEMMA Unmoved ==
  ASSUME Types, TempInv, Grown(gammaQ, gammaQ'), gammaQ' \in Seq(Msg), PipeFollows',
         UNCHANGED <<sun, new_day, confVars, phase, should_sync_temp, setVars>>,
         bl_target' = bl_target \/ Unread(gammaQ', "BL_UPD")
  PROVE  TempInv'
  <1>1. \A kind : Unread(gammaQ, kind) => Unread(gammaQ', kind)
    BY GrownFacts DEF Types, PipeTypes
  <1>2. DayTime' = DayTime /\ InEvent' = InEvent
    BY DEF DayTime, InEvent
  <1>3. NotYet' /\ TransitionEnds'
    BY <1>1, <1>2 DEF TempInv, NotYet, TransitionEnds, setVars
  <1>4. Followed'
    <2>1. TimeFollowed => TimeFollowed'
      BY <1>1, <1>2 DEF TimeFollowed, setVars, confVars
    <2>2. LevelFollowed => LevelFollowed'
      BY <1>1 DEF LevelFollowed, setVars, confVars
    <2> QED
      BY <2>1, <2>2 DEF TempInv, Followed, setVars, confVars
  <1> QED
    BY <1>3, <1>4 DEF TempInv

(***************************************************************************)
(* While no part of the day but a sunrise and the day are slept through,   *)
(* an event that ends is announced, or the date changes.                   *)
(***************************************************************************)
LEMMA EventEnds ==
  ASSUME NEW s \in 0 .. 5, NEW parts \in (0 .. 3) \cup (6 .. 12), NEW t, t = (s + parts) % 6,
         s \in {1, 2, 4, 5}, t \in {0, 3}
  PROVE  NextEvent(t) # NextEvent(s) \/ \E p \in 0 .. parts - 1 : (s + p) % 6 = 3
  <1>1. CASE parts \in 6 .. 12
    <2>1. PICK p \in 0 .. 5 : s + p = 3 \/ s + p = 9
      <3>1. s <= 3 => 3 - s \in 0 .. 5 /\ s + (3 - s) = 3
        OBVIOUS
      <3>2. s > 3 => 9 - s \in 0 .. 5 /\ s + (9 - s) = 9
        OBVIOUS
      <3> QED
        BY <3>1, <3>2
    <2>2. (s + p) % 6 = 3 /\ p \in 0 .. parts - 1
      BY <1>1, <2>1
    <2> QED
      BY <2>2
  <1>2. CASE parts \in 0 .. 3
    <2>1. t = IF s + parts < 6 THEN s + parts ELSE s + parts - 6
      BY <1>2
    <2> QED
      BY <1>2, <2>1 DEF NextEvent
  <1> QED
    BY <1>1, <1>2

LEMMA TempElsewhere ==
  ASSUME Types, TempInv, Elsewhere, Awake \cup Asleep \subseteq (0 .. 3) \cup (6 .. 12)
  PROVE  TempInv'
  <1>1. UNCHANGED <<confVars, phase, should_sync_temp, setVars>>
    BY DEF Elsewhere
  <1>2. gammaQ \in Seq(Msg) /\ SyncFollows(gammaQ) /\ LastLevel(gammaQ, bl_target)
    BY DEF Types, PipeTypes, TempInv, PipeFollows
  <1>3. ASSUME NEW changes, gammaQ' = gammaQ \o Told(changes)
        PROVE  /\ gammaQ' \in Seq(Msg) /\ Grown(gammaQ, gammaQ')
               /\ SyncFollows(gammaQ') /\ LastLevel(gammaQ', bl_target) /\ Unread(gammaQ', "SYNC")
               /\ "event" \in changes => Unread(gammaQ', "NEXT_DAYEVT_UPD")
    <2> DEFINE w == Told(changes)
    <2>1. /\ w \in Seq(Msg) /\ Len(w) > 0 /\ w[Len(w)].kind = "SYNC"
          /\ \A i \in 1 .. Len(w) : w[i].kind # "BL_UPD"
          /\ "event" \in changes => Unread(w, "NEXT_DAYEVT_UPD")
      BY ToldFacts
    <2>2. gammaQ' = gammaQ \o w
      BY <1>3
    <2> HIDE DEF w
    <2>3. /\ gammaQ' \in Seq(Msg) /\ Grown(gammaQ, gammaQ') /\ Len(gammaQ') = Len(gammaQ) + Len(w)
          /\ gammaQ'[Len(gammaQ')] = w[Len(w)]
          /\ \A i \in Len(gammaQ) + 1 .. Len(gammaQ') : \E j \in 1 .. Len(w) : gammaQ'[i] = w[j]
      BY <1>2, <2>1, <2>2, ConcatGrows
    <2>4. "event" \in changes => Unread(gammaQ', "NEXT_DAYEVT_UPD")
      BY <1>2, <2>1, <2>2, ConcatGrows, Zenon
    <2>5. Len(gammaQ') > Len(gammaQ)
      BY <1>2, <2>1, <2>3
    <2>6. SyncFollows(gammaQ') /\ Unread(gammaQ', "SYNC")
      BY <1>2, <2>1, <2>3, <2>5, GrownFacts, Zenon
    <2>7. \A i \in Len(gammaQ) + 1 .. Len(gammaQ') : gammaQ'[i].kind # "BL_UPD"
      BY <2>1, <2>3, Zenon
    <2>8. LastLevel(gammaQ', bl_target)
      BY <1>2, <2>3, <2>7, GrownFacts, Zenon
    <2> QED
      BY <2>3, <2>4, <2>6, <2>8
  <1>4. CASE DaytimeStarts
    <2>1. UNCHANGED <<sun, new_day, bl_target>>
      BY <1>4 DEF DaytimeStarts
    <2>2. CASE gammaQ' = gammaQ \o Told({"daytime", "event"})
      BY <1>1, <1>3, <2>1, <2>2, Unmoved DEF PipeFollows
    <2>3. CASE gammaQ' = Append(gammaQ, [kind |-> "DAYTIME_UPD"])
      <3> DEFINE msg == [kind |-> "DAYTIME_UPD"]
      <3>1. msg \in Msg /\ msg.kind = "DAYTIME_UPD"
        BY DEF Msg
      <3>2. gammaQ' = Append(gammaQ, msg)
        BY <2>3
      <3> HIDE DEF msg
      <3>3. /\ gammaQ' \in Seq(Msg) /\ Grown(gammaQ, gammaQ')
            /\ \A i \in Len(gammaQ) + 1 .. Len(gammaQ') : gammaQ'[i] = msg
        BY <1>2, <3>1, <3>2, AppendGrows
      <3>4. PipeFollows'
        BY <1>2, <2>1, <3>1, <3>3, GrownFacts DEF PipeFollows
      <3> QED
        BY <1>1, <2>1, <3>3, <3>4, Unmoved
    <2> QED
      BY <1>4, <2>2, <2>3 DEF DaytimeStarts
  <1>5. CASE DaytimeGoesOn
    <2>1. PICK parts \in (0 .. 3) \cup (6 .. 12) :
            /\ sun' = (sun + parts) % 6
            /\ new_day' = (new_day \/ \E p \in 0 .. parts - 1 : (sun + p) % 6 = 3)
      BY <1>5 DEF DaytimeGoesOn
    <2> DEFINE changes == (IF DayTime' # DayTime THEN {"daytime"} ELSE {})
                          \cup (IF NextEvent(sun') # NextEvent(sun) THEN {"event"} ELSE {})
    <2>2. gammaQ' = gammaQ \o Told(changes) /\ bl_target' = bl_target
      BY <1>5 DEF DaytimeGoesOn
    <2>3. NextEvent(sun') # NextEvent(sun) => "event" \in changes
      OBVIOUS
    <2> HIDE DEF changes
    <2>4. /\ gammaQ' \in Seq(Msg) /\ Grown(gammaQ, gammaQ')
          /\ SyncFollows(gammaQ') /\ LastLevel(gammaQ', bl_target) /\ Unread(gammaQ', "SYNC")
          /\ "event" \in changes => Unread(gammaQ', "NEXT_DAYEVT_UPD")
      BY <1>3, <2>2, Zenon
    <2>5. \A kind : Unread(gammaQ, kind) => Unread(gammaQ', kind)
      BY <1>2, <2>4, GrownFacts
    <2>6. PipeFollows'
      BY <2>2, <2>4 DEF PipeFollows
    <2>7. NotYet'
      BY <1>1 DEF TempInv, NotYet, setVars
    <2>8. TransitionEnds'
      <3> SUFFICES ASSUME long_transitioning', ~InEvent', ~new_day'
                   PROVE  Unread(gammaQ', "NEXT_DAYEVT_UPD")
        BY DEF TransitionEnds
      <3>1. ~new_day /\ long_transitioning /\ ~\E p \in 0 .. parts - 1 : (sun + p) % 6 = 3
        BY <1>1, <2>1 DEF setVars
      <3>2. CASE ~InEvent
        BY <2>5, <3>1, <3>2 DEF TempInv, TransitionEnds
      <3>3. CASE InEvent
        <4>1. sun \in 0 .. 5 /\ sun' \in 0 .. 5
          BY <2>1 DEF Types, EnvTypes
        <4>2. sun \in {1, 2, 4, 5} /\ sun' \in {0, 3}
          BY <3>3, <4>1 DEF InEvent
        <4>3. NextEvent(sun') # NextEvent(sun)
          BY <2>1, <3>1, <4>1, <4>2, EventEnds
        <4> QED
          BY <2>3, <2>4, <4>3
      <3> QED
        BY <3>2, <3>3
    <2>9. Followed'
      <3>1. LevelFollowed => LevelFollowed'
        BY <1>1, <2>2, <2>5 DEF LevelFollowed, setVars, confVars
      <3>2. TimeFollowed'
        BY <2>4 DEF TimeFollowed
      <3> QED
        BY <1>1, <3>1, <3>2 DEF TempInv, Followed, setVars, confVars
    <2> QED
      BY <2>6, <2>7, <2>8, <2>9 DEF TempInv
  <1>6. CASE SuspendedChanges
    <2> DEFINE msg == [kind |-> "SUSPEND_UPD"]
    <2>1. msg \in Msg /\ msg.kind = "SUSPEND_UPD"
      BY DEF Msg
    <2>2. gammaQ' = Publish(gammaQ, msg) /\ UNCHANGED <<sun, new_day, bl_target>>
      BY <1>6 DEF SuspendedChanges
    <2> HIDE DEF msg
    <2>3. /\ gammaQ' \in Seq(Msg) /\ Grown(gammaQ, gammaQ')
          /\ \A i \in Len(gammaQ) + 1 .. Len(gammaQ') : gammaQ'[i] = msg
      BY <1>2, <2>1, <2>2, PublishGrows
    <2>4. PipeFollows'
      BY <1>2, <2>1, <2>2, <2>3, GrownFacts DEF PipeFollows
    <2> QED
      BY <1>1, <2>2, <2>3, <2>4, Unmoved
  <1>7. CASE DisplayChanges \/ BacklightArrives
    <2>1. UNCHANGED <<gammaQ, sun, new_day, bl_target>>
      BY <1>7 DEF DisplayChanges, BacklightArrives
    <2>2. Grown(gammaQ, gammaQ') /\ gammaQ' \in Seq(Msg)
      BY <1>2, <2>1 DEF Grown
    <2>3. PipeFollows'
      BY <1>2, <2>1 DEF PipeFollows
    <2> QED
      BY <1>1, <2>1, <2>2, <2>3, Unmoved
  <1>8. CASE BacklightChanges
    <2>1. PICK l \in Levels :
            bl_target' = l /\ gammaQ' = Append(gammaQ, [kind |-> "BL_UPD", new |-> l])
      BY <1>8 DEF BacklightChanges
    <2> DEFINE msg == [kind |-> "BL_UPD", new |-> l]
    <2>2. msg \in Msg /\ msg.kind = "BL_UPD" /\ msg.new = l
      BY DEF Msg
    <2>3. gammaQ' = Append(gammaQ, msg) /\ UNCHANGED <<sun, new_day>>
      BY <1>8, <2>1 DEF BacklightChanges
    <2> HIDE DEF msg
    <2>4. /\ gammaQ' \in Seq(Msg) /\ Grown(gammaQ, gammaQ')
          /\ Len(gammaQ') = Len(gammaQ) + 1 /\ gammaQ'[Len(gammaQ')] = msg
          /\ \A i \in Len(gammaQ) + 1 .. Len(gammaQ') : gammaQ'[i] = msg
      BY <1>2, <2>2, <2>3, AppendGrows
    <2>5. LastLevel(gammaQ', l) /\ Unread(gammaQ', "BL_UPD")
      BY <1>2, <2>2, <2>4, GrownFacts, Zenon
    <2>6. SyncFollows(gammaQ')
      BY <1>2, <2>2, <2>4, GrownFacts
    <2> QED
      BY <1>1, <2>1, <2>3, <2>4, <2>5, <2>6, Unmoved DEF PipeFollows
  <1>9. CASE Asks
    <2>1. UNCHANGED <<sun, new_day, bl_target>>
      BY <1>9 DEF Asks, envVars
    <2>2. current_temp \in Temps \cup {None}
      BY DEF Types, ScreenTypes
    <2>3. /\ gammaQ' \in Seq(Msg) /\ Grown(gammaQ, gammaQ')
          /\ \A i \in Len(gammaQ) + 1 .. Len(gammaQ') :
               gammaQ'[i].kind \notin {"NEXT_DAYEVT_UPD", "BL_UPD"}
      BY <1>2, <1>9, <2>2, AsksGrows
    <2>4. PipeFollows'
      BY <1>2, <2>1, <2>3, GrownFacts DEF PipeFollows
    <2> QED
      BY <1>1, <2>1, <2>3, <2>4, Unmoved
  <1> QED
    BY <1>4, <1>5, <1>6, <1>7, <1>8, <1>9 DEF Elsewhere

\* A set that is not for the time of the day ends a long transition.
LEMMA SetNow ==
  ASSUME NEW temp, NEW wanted \in BOOLEAN, SetTemp(temp, FALSE, wanted)
  PROVE  ~long_transitioning' /\ (~missed' => target' = temp /\ wanted)
  BY DEF SetTemp

LEMMA AmbientNowFollows ==
  ASSUME Types, AmbientNow, ambient_gamma' = TRUE
  PROVE  /\ ~missed' => target' = Ambient(conf_temp', bl_target)
         /\ ~long_transitioning' \/ long_transitioning' = long_transitioning
  <1> DEFINE now == current_bl_pct = bl_target
             temp == Ambient(conf_temp', current_bl_pct)
  <1>1. CASE display_on
    <2>1. SetTemp(temp, FALSE, now)
      BY <1>1 DEF AmbientNow, AmbientCallback
    <2>2. now \in BOOLEAN
      OBVIOUS
    <2> HIDE DEF now, temp
    <2>3. ~long_transitioning' /\ (~missed' => target' = temp /\ now)
      BY <2>1, <2>2, SetNow
    <2>4. now => temp = Ambient(conf_temp', bl_target)
      BY DEF now, temp
    <2> QED
      BY <2>3, <2>4
  <1>2. CASE ~display_on
    BY <1>2 DEF AmbientNow, AmbientCallback, Miss
  <1> QED
    BY <1>1, <1>2

LEMMA NoAmbientNow ==
  ASSUME Types, AmbientNow, ambient_gamma' = FALSE
  PROVE  missed' = missed /\ UNCHANGED <<target, long_transitioning>>
  BY DEF AmbientNow, AmbientCallback, Miss, Types, SetTypes

\* What DAYTIME told is followed, or ignored during a transition that goes on or is over soon.
LEMMA OnDaytimeFollows ==
  ASSUME Types, OnDaytimeReq, NEW told \in BOOLEAN,
         long_transitioning /\ ~InEvent => new_day \/ told
  PROVE  /\ long_transitioning' /\ ~InEvent => told
         /\ ambient_gamma => UNCHANGED <<target, missed>>
         /\ ~ambient_gamma /\ ~missed' =>
              told \/ (long_transitioning' /\ InEvent) \/ target' = conf_temp[DayTime]
  <1>1. CASE (~long_transitioning \/ new_day) /\ ~ambient_gamma
    <2>1. SetTemp(conf_temp[DayTime], TRUE, TRUE)
      BY <1>1 DEF OnDaytimeReq
    <2>2. long_transitioning' => InEvent
      BY <2>1 DEF SetTemp
    <2>3. ~missed' /\ ~long_transitioning' => target' = conf_temp[DayTime]
      BY <2>1 DEF SetTemp
    <2> QED
      BY <1>1, <2>2, <2>3
  <1>2. CASE ~((~long_transitioning \/ new_day) /\ ~ambient_gamma)
    <2>1. /\ long_transitioning' = (long_transitioning /\ ~new_day)
          /\ UNCHANGED <<target, missed>>
      BY <1>2 DEF OnDaytimeReq
    <2> QED
      BY <1>2, <2>1 DEF Types, SetTypes, SyncTypes
  <1> QED
    BY <1>1, <1>2

LEMMA TempReceive == ASSUME Types, Types', TempInv, Receive PROVE TempInv'
  <1> DEFINE m == Head(gammaQ)
             Still(kind) == Unread(gammaQ, kind) => Unread(gammaQ', kind)
  <1>1. gammaQ \in Seq(Msg) /\ gammaQ # <<>> /\ gammaQ' = Tail(gammaQ)
    BY DEF Receive, Types, PipeTypes
  <1>2. SyncFollows(gammaQ) /\ LastLevel(gammaQ, bl_target)
    BY DEF TempInv, PipeFollows
  <1>3. UNCHANGED <<sun, bl_target, current_bl_pct, display_on, suspended>>
        /\ DayTime' = DayTime /\ InEvent' = InEvent
    BY DEF Receive, envVars, DayTime, InEvent
  <1>4. PipeFollows'
    BY <1>1, <1>2, <1>3, TailFacts DEF PipeFollows
  <1>5. /\ m.kind = "NEXT_DAYEVT_UPD" => Unread(gammaQ', "SYNC")
        /\ m.kind = "BL_UPD" /\ ~Unread(gammaQ', "BL_UPD") => m.new = bl_target
        /\ \A kind : m.kind # kind => Still(kind)
    BY <1>1, <1>2, TailFacts
  <1>6. \/ FirstDaytime(m)
        \/ phase = "dead" /\ UNCHANGED <<confVars, syncVars, setVars, phase>>
        \/ /\ phase \in {"running", "paused"}
           /\ \/ BlUpd(m) \/ Sync(m) \/ NewDayEvent(m) \/ TempReq(m) \/ AmbGammaReq(m)
              \/ m.kind = "SUSPEND_UPD" /\ PauseMod /\ UNCHANGED confVars
              \/ /\ m.kind \notin {"SYNC", "BL_UPD", "NEXT_DAYEVT_UPD"}
                 /\ UNCHANGED <<confVars, syncVars, setVars, phase>>
    BY DEF Receive, Dropped
  <1> HIDE DEF m
  <1>7. Unread(gammaQ', "NEXT_DAYEVT_UPD") => Unread(gammaQ', "SYNC")
    BY <1>4 DEF PipeFollows, SyncFollows, Unread
  <1>8. NotYet /\ TransitionEnds /\ Followed /\ SetTypes /\ ConfTypes
    BY DEF TempInv, Types
  <1> SUFFICES NotYet' /\ TransitionEnds' /\ Followed'
    BY <1>4 DEF TempInv
  <1>9. CASE FirstDaytime(m) \/ (phase = "dead" /\ UNCHANGED <<confVars, syncVars, setVars, phase>>)
    <2>1. missed /\ ~long_transitioning /\ UNCHANGED setVars
      BY <1>8, <1>9 DEF FirstDaytime, NotYet
    <2>2. missed' /\ ~long_transitioning'
      BY <2>1 DEF setVars
    <2> QED
      BY <2>2 DEF NotYet, TransitionEnds, Followed
  <1>10. CASE /\ phase \in {"running", "paused"} /\ phase' = phase
              /\ m.kind \notin {"SYNC", "BL_UPD", "NEXT_DAYEVT_UPD"}
              /\ UNCHANGED <<confVars, syncVars, setVars>>
    <2>1. Still("SYNC") /\ Still("BL_UPD") /\ Still("NEXT_DAYEVT_UPD")
      BY <1>5, <1>10
    <2>2. NotYet' /\ TransitionEnds'
      BY <1>3, <1>8, <1>10, <2>1 DEF NotYet, TransitionEnds, setVars, syncVars
    <2>3. Followed'
      BY <1>3, <1>8, <1>10, <2>1
      DEF Followed, TimeFollowed, LevelFollowed, setVars, confVars, syncVars
    <2> QED
      BY <2>2, <2>3
  <1>11. CASE phase \in {"running", "paused"} /\ BlUpd(m)
    <2>1. m.kind = "BL_UPD" /\ UNCHANGED <<confVars, syncVars, phase>>
      BY <1>11 DEF BlUpd
    <2>2. Still("SYNC") /\ Still("NEXT_DAYEVT_UPD") /\ NotYet'
      BY <1>5, <1>11, <2>1 DEF NotYet
    <2>3. CASE phase = "running" /\ ambient_gamma /\ display_on
      <3> DEFINE temp == Ambient(conf_temp', m.new)
      <3>1. SetTemp(temp, FALSE, TRUE)
        <4>1. AmbientCallback(m.new, TRUE)
          BY <1>11, <2>3 DEF BlUpd
        <4>2. ambient_gamma'
          BY <2>1, <2>3 DEF confVars
        <4> QED
          BY <2>3, <4>1, <4>2 DEF AmbientCallback
      <3>2. temp = Ambient(conf_temp', m.new)
        OBVIOUS
      <3> HIDE DEF temp
      <3>3. ~long_transitioning' /\ (~missed' => target' = temp)
        BY <3>1, SetNow
      <3>4. LevelFollowed' \/ missed'
        BY <1>3, <1>5, <2>1, <3>2, <3>3 DEF LevelFollowed
      <3> QED
        BY <2>1, <2>2, <2>3, <3>3, <3>4 DEF TransitionEnds, Followed, confVars
    <2>4. CASE ~(phase = "running" /\ ambient_gamma /\ display_on)
      <3>1. Miss
        <4>1. CASE phase = "running"
          <5>1. AmbientCallback(m.new, TRUE)
            BY <1>11, <4>1 DEF BlUpd
          <5>2. ~(ambient_gamma' /\ display_on)
            BY <2>1, <2>4, <4>1 DEF confVars
          <5> QED
            BY <5>1, <5>2 DEF AmbientCallback
        <4>2. CASE phase # "running"
          BY <1>11, <4>2 DEF BlUpd
        <4> QED
          BY <4>1, <4>2
      <3>2. missed' = (missed \/ ambient_gamma) /\ UNCHANGED <<target, long_transitioning>>
        BY <2>1, <3>1 DEF Miss, confVars
      <3>3. TransitionEnds'
        BY <1>3, <1>8, <2>1, <2>2, <3>2 DEF TransitionEnds, syncVars
      <3>4. ~missed /\ ~ambient_gamma => TimeFollowed'
        BY <1>3, <1>8, <2>1, <2>2, <3>2 DEF Followed, TimeFollowed, confVars, syncVars
      <3> QED
        BY <2>1, <2>2, <3>2, <3>3, <3>4 DEF Followed, confVars
    <2> QED
      BY <2>3, <2>4
  <1>12. ASSUME OnDaytimeReq, UNCHANGED confVars, phase' \in {"running", "paused"},
                Still("BL_UPD"), Still("NEXT_DAYEVT_UPD")
         PROVE  NotYet' /\ TransitionEnds' /\ Followed'
    <2> DEFINE told == Unread(gammaQ', "NEXT_DAYEVT_UPD")
    <2>1. told \in BOOLEAN /\ (long_transitioning /\ ~InEvent => new_day \/ told)
      BY <1>8, <1>12 DEF TransitionEnds, Unread
    <2>2. told => Unread(gammaQ', "SYNC")
      BY <1>7
    <2> HIDE DEF told
    <2>3. /\ long_transitioning' /\ ~InEvent => told
          /\ ambient_gamma => UNCHANGED <<target, missed>>
          /\ ~ambient_gamma /\ ~missed' =>
               told \/ (long_transitioning' /\ InEvent) \/ target' = conf_temp[DayTime]
      BY <1>12, <2>1, OnDaytimeFollows
    <2>4. NotYet' /\ TransitionEnds'
      BY <1>3, <1>12, <2>3 DEF NotYet, TransitionEnds, told
    <2>5. ambient_gamma /\ ~missed' => LevelFollowed'
      BY <1>3, <1>8, <1>12, <2>3 DEF Followed, LevelFollowed, confVars
    <2>6. ~ambient_gamma /\ ~missed' => TimeFollowed'
      BY <1>3, <1>12, <2>2, <2>3 DEF TimeFollowed, confVars
    <2> QED
      BY <1>12, <2>4, <2>5, <2>6 DEF Followed, confVars
  <1>13. CASE phase \in {"running", "paused"} /\ Sync(m)
    <2>1. m.kind = "SYNC" /\ UNCHANGED <<confVars, phase>>
      BY <1>13 DEF Sync
    <2>2. Still("BL_UPD") /\ Still("NEXT_DAYEVT_UPD")
      BY <1>5, <2>1
    <2>3. CASE phase = "running"
      BY <1>12, <1>13, <2>1, <2>2, <2>3 DEF Sync
    <2>4. CASE phase = "paused"
      <3>1. should_sync_temp' = TRUE /\ UNCHANGED <<new_day, setVars>>
        BY <1>13, <2>4 DEF Sync
      <3>2. NotYet' /\ TransitionEnds'
        BY <1>3, <1>8, <2>1, <2>2, <2>4, <3>1 DEF NotYet, TransitionEnds, setVars
      <3>3. TimeFollowed'
        BY <2>1, <2>4, <3>1 DEF TimeFollowed
      <3>4. LevelFollowed => LevelFollowed'
        BY <1>3, <2>1, <2>2, <3>1 DEF LevelFollowed, setVars, confVars
      <3> QED
        BY <1>8, <2>1, <3>1, <3>2, <3>3, <3>4 DEF Followed, setVars, confVars
    <2> QED
      BY <1>13, <2>3, <2>4
  <1>14. CASE phase \in {"running", "paused"} /\ NewDayEvent(m)
    <2>1. /\ m.kind = "NEXT_DAYEVT_UPD" /\ long_transitioning' = FALSE
          /\ UNCHANGED <<target, missed, confVars, phase>>
      BY <1>14 DEF NewDayEvent
    <2>2. Still("BL_UPD") /\ TimeFollowed' /\ NotYet' /\ TransitionEnds'
      BY <1>5, <1>14, <2>1 DEF TimeFollowed, NotYet, TransitionEnds
    <2>3. LevelFollowed => LevelFollowed'
      BY <1>3, <2>1, <2>2 DEF LevelFollowed, confVars
    <2> QED
      BY <1>8, <2>1, <2>2, <2>3 DEF Followed, confVars
  <1>15. ASSUME phase \in {"running", "paused"}, UNCHANGED <<syncVars, phase>>,
                Still("NEXT_DAYEVT_UPD"),
                ~long_transitioning' \/ long_transitioning' = long_transitioning
         PROVE  NotYet' /\ TransitionEnds'
    BY <1>3, <1>8, <1>15 DEF NotYet, TransitionEnds, syncVars
  <1>16. ASSUME AmbientNow, ambient_gamma'
         PROVE  Followed' /\ (~long_transitioning' \/ long_transitioning' = long_transitioning)
    <2>1. ambient_gamma' = TRUE
      BY <1>16 DEF Types, ConfTypes
    <2>2. /\ ~missed' => target' = Ambient(conf_temp', bl_target)
          /\ ~long_transitioning' \/ long_transitioning' = long_transitioning
      BY <1>16, <2>1, AmbientNowFollows
    <2>3. ~missed' => LevelFollowed'
      BY <1>3, <2>2 DEF LevelFollowed
    <2> QED
      BY <2>1, <2>2, <2>3 DEF Followed
  <1>17. CASE phase \in {"running", "paused"} /\ TempReq(m)
    <2> DEFINE day == IF m.kind = "HOTPLUG" THEN DayTime ELSE m.daytime
    <2>1. /\ m.kind \in {"TEMP_REQ", "HOTPLUG"} /\ UNCHANGED <<ambient_gamma, syncVars, phase>>
          /\ conf_temp' = [conf_temp EXCEPT ![day] = IF m.new = None THEN @ ELSE m.new]
          /\ IF ~ambient_gamma /\ day = DayTime THEN SetTemp(conf_temp'[day], FALSE, TRUE)
             ELSE AmbientNow
      BY <1>17 DEF TempReq
    <2> HIDE DEF day
    <2>2. Still("SYNC") /\ Still("BL_UPD") /\ Still("NEXT_DAYEVT_UPD")
      BY <1>5, <2>1
    <2>3. CASE ambient_gamma
      <3>1. AmbientNow /\ ambient_gamma'
        BY <2>1, <2>3
      <3> QED
        BY <1>15, <1>16, <1>17, <2>1, <2>2, <3>1
    <2>4. CASE ~ambient_gamma /\ day = DayTime
      <3> DEFINE temp == conf_temp'[DayTime]
      <3>1. SetTemp(temp, FALSE, TRUE)
        BY <2>1, <2>4
      <3> HIDE DEF temp
      <3>2. ~long_transitioning' /\ (~missed' => target' = temp)
        BY <3>1, SetNow
      <3>3. ~missed' => TimeFollowed'
        BY <1>3, <3>2 DEF TimeFollowed, temp
      <3> QED
        BY <1>15, <1>17, <2>1, <2>2, <2>4, <3>2, <3>3 DEF Followed
    <2>5. CASE ~ambient_gamma /\ day # DayTime
      <3>1. ambient_gamma' = FALSE /\ AmbientNow
        BY <1>8, <2>1, <2>5 DEF ConfTypes
      <3>2. missed' = missed /\ UNCHANGED <<target, long_transitioning>>
        BY <3>1, NoAmbientNow
      <3>3. conf_temp'[DayTime] = conf_temp[DayTime]
        BY <1>8, <2>1, <2>5, OtherDay DEF ConfTypes
      <3>4. TimeFollowed => TimeFollowed'
        BY <1>3, <2>1, <2>2, <3>2, <3>3 DEF TimeFollowed, syncVars
      <3> QED
        BY <1>8, <1>15, <1>17, <2>1, <2>2, <2>5, <3>1, <3>2, <3>4 DEF Followed
    <2> QED
      BY <2>3, <2>4, <2>5
  <1>18. CASE phase \in {"running", "paused"} /\ AmbGammaReq(m)
    <2>1. /\ m.kind = "AMB_GAMMA_REQ" /\ UNCHANGED <<conf_temp, syncVars, phase>>
          /\ ambient_gamma' = m.new
          /\ IF m.new THEN AmbientNow ELSE SetTemp(conf_temp[DayTime], FALSE, TRUE)
      BY <1>18 DEF AmbGammaReq
    <2>2. Still("NEXT_DAYEVT_UPD")
      BY <1>5, <2>1
    <2>3. CASE m.new
      BY <1>15, <1>16, <1>18, <2>1, <2>2, <2>3
    <2>4. CASE ~m.new
      <3> DEFINE temp == conf_temp[DayTime]
      <3>1. SetTemp(temp, FALSE, TRUE)
        BY <2>1, <2>4
      <3> HIDE DEF temp
      <3>2. ~long_transitioning' /\ (~missed' => target' = temp)
        BY <3>1, SetNow
      <3>3. ~missed' => TimeFollowed'
        BY <1>3, <2>1, <3>2 DEF TimeFollowed, temp
      <3> QED
        BY <1>15, <1>18, <2>1, <2>2, <2>4, <3>2, <3>3 DEF Followed
    <2> QED
      BY <2>3, <2>4
  <1>19. CASE /\ phase \in {"running", "paused"} /\ m.kind = "SUSPEND_UPD"
              /\ PauseMod /\ UNCHANGED confVars
    <2>1. Still("SYNC") /\ Still("BL_UPD") /\ Still("NEXT_DAYEVT_UPD")
      BY <1>5, <1>19
    <2>2. phase' = IF suspended THEN "paused" ELSE "running"
      BY <1>19 DEF PauseMod
    <2>3. CASE phase = "paused" /\ ~suspended /\ should_sync_temp
      BY <1>12, <1>19, <2>1, <2>2, <2>3 DEF PauseMod
    <2>4. CASE ~(phase = "paused" /\ ~suspended /\ should_sync_temp)
      <3>1. UNCHANGED <<syncVars, setVars>>
        BY <1>19, <2>4 DEF PauseMod
      <3>2. NotYet' /\ TransitionEnds'
        BY <1>3, <1>8, <2>1, <2>2, <3>1 DEF NotYet, TransitionEnds, setVars, syncVars
      <3>3. TimeFollowed => TimeFollowed'
        BY <1>3, <1>19, <2>1, <2>2, <2>4, <3>1 DEF TimeFollowed, setVars, syncVars, confVars
      <3>4. LevelFollowed => LevelFollowed'
        BY <1>3, <1>19, <2>1, <3>1 DEF LevelFollowed, setVars, confVars
      <3> QED
        BY <1>8, <1>19, <3>1, <3>2, <3>3, <3>4 DEF Followed, setVars, confVars
    <2> QED
      BY <2>3, <2>4
  <1> QED
    BY <1>6, <1>9, <1>10, <1>11, <1>13, <1>14, <1>17, <1>18, <1>19

LEMMA TempStep ==
  ASSUME Types, Types', TempInv, [Next]_vars, Awake \cup Asleep \subseteq (0 .. 3) \cup (6 .. 12)
  PROVE  TempInv'
  <1>1. CASE SetLongTransition \/ OnTempChanged \/ UNCHANGED vars
    <2>1. UNCHANGED <<envVars, confVars, gammaQ, phase, syncVars, setVars>>
      BY <1>1 DEF SetLongTransition, OnTempChanged, vars
    <2>2. UNCHANGED <<sun, bl_target, new_day, should_sync_temp>>
      BY <2>1 DEF envVars, syncVars
    <2>3. gammaQ' \in Seq(Msg) /\ Grown(gammaQ, gammaQ') /\ PipeFollows'
      BY <2>1, <2>2 DEF Types, PipeTypes, Grown, TempInv, PipeFollows
    <2> QED
      BY <2>1, <2>2, <2>3, Unmoved
  <1>2. CASE ToggleGamma
    <2> DEFINE temp == conf_temp[IF toggled THEN DayTime ELSE Other(DayTime)]
    <2>1. SetTemp(temp, FALSE, FALSE) /\ UNCHANGED <<envVars, gammaQ>>
      BY <1>2 DEF ToggleGamma
    <2> HIDE DEF temp
    <2>2. missed' /\ ~long_transitioning'
      BY <2>1 DEF SetTemp
    <2>3. PipeFollows'
      BY <2>1 DEF envVars, TempInv, PipeFollows
    <2> QED
      BY <2>2, <2>3 DEF TempInv, NotYet, TransitionEnds, Followed
  <1> QED
    BY <1>1, <1>2, TempElsewhere, TempReceive DEF Next

(***************************************************************************)
(* With its pipe read, GAMMA has set the temperature of the time, or of    *)
(* the backlight, however events, suspensions, requests and transitions    *)
(* overlap; unless 4 or 5 parts of the day, from a sunrise into the next   *)
(* night, go by unseen, or the clock is set back.                          *)
(***************************************************************************)
THEOREM TemperatureFollows ==
  ASSUME Awake \cup Asleep \subseteq (0 .. 3) \cup (6 .. 12)
  PROVE  Spec => []TempFollows
  <1>1. Init => TempInv
    <2> SUFFICES ASSUME Init PROVE TempInv
      OBVIOUS
    <2>1. gammaQ = <<>> /\ missed /\ ~long_transitioning
      BY DEF Init
    <2>2. PipeFollows
      BY <2>1 DEF PipeFollows, SyncFollows, LastLevel
    <2> QED
      BY <2>1, <2>2 DEF TempInv, NotYet, TransitionEnds, Followed
  <1>2. Types /\ TempInv /\ [Next]_vars => Types' /\ TempInv'
    BY TypesStep, TempStep
  <1>3. Types /\ TempInv => TempFollows
    BY TempInvEnough
  <1> QED
    BY <1>1, <1>2, <1>3, TypesInit, PTL DEF Spec

=============================================================================
