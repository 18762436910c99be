----------------------------- MODULE PM_proofs -----------------------------
(***************************************************************************)
(* Proofs about PM, none of which assumes anything of its constants.  Of   *)
(* its suspend half, for any set of sources, with or without a resume      *)
(* delay and forced resumes, and for any bounds: what is counted, who is   *)
(* told, and who asks.  Of its idle lock, for any bound and whatever       *)
(* fails: the lock follows the inhibition, what is reported is what is     *)
(* held, and what is left locked at the end.                               *)
(***************************************************************************)
EXTENDS Suspend, PMLock, FiniteSets, SequenceTheorems, FiniteSetTheorems, TLAPS

LEMMA AppendType ==
  ASSUME NEW S, NEW q \in Seq(S), NEW x \in S
  PROVE  Append(q, x) \in Seq(S)
  OBVIOUS

LEMMA AppendNonEmpty ==
  ASSUME NEW S, NEW q \in Seq(S), NEW x
  PROVE  Append(q, x) # <<>>
  <1>1. Len(q) \in Nat /\ Len(q) + 1 \in DOMAIN Append(q, x)
    OBVIOUS
  <1>2. DOMAIN Append(q, x) # DOMAIN <<>>
    BY <1>1
  <1> QED
    BY <1>2

LEMMA TailType ==
  ASSUME NEW S, NEW q \in Seq(S), q # <<>>
  PROVE  Head(q) \in S /\ Tail(q) \in Seq(S)
  OBVIOUS

\* A request goes down the pipe as a request, and so do the copies it changes.
LEMMA PublishType ==
  ASSUME TypeOK, NEW req \in SuspendReq, PublishSuspReq(req)
  PROVE  pmQ' \in Seq(SuspendReq)
  <1> DEFINE inFlight == [i \in DOMAIN pmQ |->
               IF pmQ[i].from = req.from /\ req.from \in StaticSources THEN req ELSE pmQ[i]]
  <1>1. pmQ \in Seq(SuspendReq)
    BY DEF TypeOK
  <1>2. inFlight \in Seq(SuspendReq)
    <2>1. Len(pmQ) \in Nat /\ DOMAIN inFlight = 1..Len(pmQ)
      BY <1>1
    <2>2. \A i \in 1..Len(pmQ) : inFlight[i] \in SuspendReq
      BY <1>1
    <2> QED
      BY <2>1, <2>2, IsASeq
  <1>3. pmQ' = Append(inFlight, req)
    BY DEF PublishSuspReq
  <1> QED
    BY <1>2, <1>3, AppendType

LEMMA AskType ==
  ASSUME TypeOK, NEW s \in Sources, NEW new \in BOOLEAN, Ask(s, new)
  PROVE  TypeOK'
  <1>1. [from |-> s, new |-> new, force |-> FALSE] \in SuspendReq
    BY SuspendAssumption DEF SuspendReq
  <1>2. pmQ' \in Seq(SuspendReq)
    BY <1>1, PublishType DEF Ask
  <1>3. asks' \subseteq Sources
    BY DEF Ask, TypeOK
  <1>4. misuse' \subseteq {"repeat", "stray"}
    BY DEF Ask, Misuses, TypeOK
  <1> QED
    BY <1>2, <1>3, <1>4 DEF Ask, TypeOK

LEMMA ForceType ==
  ASSUME TypeOK, ForceResume
  PROVE  TypeOK'
  <1>1. [from |-> "plugin", new |-> FALSE, force |-> TRUE] \in SuspendReq
    BY DEF SuspendReq
  <1>2. pmQ' \in Seq(SuspendReq)
    BY <1>1, PublishType DEF ForceResume
  <1> QED
    BY <1>2 DEF ForceResume, TypeOK

LEMMA ReceiveType ==
  ASSUME TypeOK, CounterMatchesFlag, ReceiveSuspendReq
  PROVE  TypeOK'
  <1>1. Head(pmQ) \in SuspendReq /\ pmQ' \in Seq(SuspendReq)
    BY TailType DEF ReceiveSuspendReq, TypeOK
  <1>2. ASSUME NEW new \in BOOLEAN, PublishSuspendUpd(new)
        PROVE  subQ' \in Seq(BOOLEAN)
    BY <1>2, AppendType DEF PublishSuspendUpd, TypeOK
  <1>3. subQ' \in Seq(BOOLEAN)
    <2>1. UNCHANGED subQ \/ PublishSuspendUpd(TRUE) \/ PublishSuspendUpd(FALSE)
      BY DEF ReceiveSuspendReq, OnSuspendReq, GrabSuspend, KeepSuspended,
           Resume, RefuseResume
    <2> QED
      BY <1>2, <2>1 DEF TypeOK
  <1>4. suspend_ctr' \in Nat
    <2>1. CASE KeepSuspended(Head(pmQ))
      BY <2>1 DEF KeepSuspended, CounterMatchesFlag, TypeOK
    <2>2. CASE ~KeepSuspended(Head(pmQ))
      <3>1. suspend_ctr' \in {suspend_ctr + 1, suspend_ctr, 0}
        BY <2>2, Zenon DEF ReceiveSuspendReq, OnSuspendReq, GrabSuspend, Resume, RefuseResume
      <3> QED
        BY <3>1 DEF TypeOK
    <2> QED
      BY <2>1, <2>2
  <1>5. suspended' \in BOOLEAN /\ delayed' \in BOOLEAN
    <2>1. suspended' \in {TRUE, FALSE, suspended} /\ delayed' \in {TRUE, delayed}
      BY Zenon DEF ReceiveSuspendReq, OnSuspendReq, GrabSuspend, KeepSuspended,
           Resume, RefuseResume
    <2> QED
      BY <2>1 DEF TypeOK
  <1> QED
    BY <1>1, <1>3, <1>4, <1>5 DEF ReceiveSuspendReq, TypeOK

LEMMA TypeStep == TypeOK /\ CounterMatchesFlag /\ [Next]_vars => TypeOK'
  <1> SUFFICES ASSUME TypeOK, CounterMatchesFlag, [Next]_vars PROVE TypeOK'
    OBVIOUS
  <1>1. ASSUME NEW s \in Sources, NEW new \in BOOLEAN, Ask(s, new) PROVE TypeOK'
    BY <1>1, AskType
  <1>2. CASE ForceResume
    BY <1>2, ForceType
  <1>3. CASE ReceiveSuspendReq
    BY <1>3, ReceiveType
  <1>4. CASE DelayExpired
    <2>1. subQ' \in Seq(BOOLEAN)
      BY <1>4, AppendType DEF DelayExpired, PublishSuspendUpd, TypeOK
    <2> QED
      BY <1>4, <2>1 DEF DelayExpired, TypeOK
  <1>5. CASE ReceiveSuspendUpd
    <2>1. subQ' \in Seq(BOOLEAN)
      BY <1>5, TailType DEF ReceiveSuspendUpd, TypeOK
    <2> QED
      BY <1>5, <2>1 DEF ReceiveSuspendUpd, TypeOK
  <1>6. CASE UNCHANGED vars
    BY <1>6 DEF vars, TypeOK
  <1>7. CASE SetResumeDelay
    BY <1>7 DEF SetResumeDelay, TypeOK
  <1> QED
    BY <1>1, <1>2, <1>3, <1>4, <1>5, <1>6, <1>7 DEF Next

LEMMA TypeInit == Init => TypeOK
  <1> SUFFICES ASSUME Init PROVE TypeOK
    OBVIOUS
  <1>1. <<>> \in Seq(SuspendReq) /\ <<>> \in Seq(BOOLEAN)
    BY EmptySeq
  <1>2. pmQ \in Seq(SuspendReq) /\ subQ \in Seq(BOOLEAN)
    BY <1>1, Zenon DEF Init
  <1>3. /\ suspended \in BOOLEAN /\ resume_delay \in BOOLEAN
        /\ delayed \in BOOLEAN /\ paused \in BOOLEAN
    BY Zenon DEF Init
  <1>4. asks \subseteq Sources /\ suspend_ctr \in Nat /\ misuse = {}
    BY DEF Init
  <1> QED
    BY <1>2, <1>3, <1>4 DEF TypeOK

-----------------------------------------------------------------------------
\* What one request does to the counter and the flag.
LEMMA RequestStep ==
  ASSUME TypeOK, CounterMatchesFlag, ReceiveSuspendReq
  PROVE  /\ CounterMatchesFlag'
         /\ \/ suspend_ctr' = suspend_ctr + 1 /\ suspended' = TRUE
            \/ suspend_ctr > 0 /\ suspend_ctr' = suspend_ctr - 1 /\ suspended' = (suspend_ctr' > 0)
            \/ suspend_ctr' = 0 /\ suspended' = FALSE
            \/ UNCHANGED <<suspend_ctr, suspended>>
  <1>1. suspend_ctr \in Nat /\ suspended \in BOOLEAN
    BY DEF TypeOK
  <1>2. CASE GrabSuspend(Head(pmQ))
    BY <1>1, <1>2 DEF GrabSuspend, CounterMatchesFlag
  <1>3. CASE KeepSuspended(Head(pmQ))
    <2>1. /\ suspended = TRUE /\ suspend_ctr # 1 /\ suspend_ctr > 0
          /\ suspend_ctr' = suspend_ctr - 1 /\ suspended' = suspended
      BY <1>1, <1>3 DEF KeepSuspended, CounterMatchesFlag
    <2>2. suspend_ctr' > 0 /\ suspended' = TRUE
      BY <1>1, <2>1
    <2>3. suspended' = (suspend_ctr' > 0)
      BY <2>2, Zenon
    <2> QED
      BY <1>1, <2>1, <2>2, <2>3 DEF CounterMatchesFlag
  <1>4. CASE Resume(Head(pmQ))
    <2>1. suspend_ctr' = 0 /\ suspended' = FALSE
      BY <1>4, Zenon DEF Resume
    <2> QED
      BY <2>1 DEF CounterMatchesFlag
  <1>5. CASE RefuseResume(Head(pmQ))
    BY <1>5 DEF RefuseResume, CounterMatchesFlag
  <1> QED
    BY <1>2, <1>3, <1>4, <1>5 DEF ReceiveSuspendReq, OnSuspendReq

\* Only the reception of a request touches the counter and the flag.
LEMMA CounterChange ==
  ASSUME [Next]_vars
  PROVE  ReceiveSuspendReq \/ UNCHANGED <<suspend_ctr, suspended>>
  BY DEF Next, Ask, ForceResume, SetResumeDelay, DelayExpired, ReceiveSuspendUpd, vars

LEMMA CounterStep == TypeOK /\ CounterMatchesFlag /\ [Next]_vars => CounterMatchesFlag'
  <1> SUFFICES ASSUME TypeOK, CounterMatchesFlag, [Next]_vars PROVE CounterMatchesFlag'
    OBVIOUS
  <1>1. CASE ReceiveSuspendReq
    BY <1>1, RequestStep
  <1>2. CASE UNCHANGED <<suspend_ctr, suspended>>
    BY <1>2 DEF CounterMatchesFlag
  <1> QED
    BY <1>1, <1>2, CounterChange

LEMMA CounterInit == Init => CounterMatchesFlag
  BY DEF Init, CounterMatchesFlag

(***************************************************************************)
(* Every reachable state of PM, its pipe and its subscriber has its type;  *)
(* the counter is never negative, even for static requests overwritten on  *)
(* their way and for forced resumes, which needs CounterCorrect's fact.    *)
(***************************************************************************)
THEOREM TypeCorrect == Spec => []TypeOK
  BY TypeInit, CounterInit, TypeStep, CounterStep, PTL DEF Spec

\* state.suspended is TRUE exactly while suspend_ctr counts a suspend.
THEOREM CounterCorrect == Spec => []CounterMatchesFlag
  BY TypeInit, CounterInit, TypeStep, CounterStep, PTL DEF Spec

(***************************************************************************)
(* PM implements the counted switch: every step of Suspend is a Grab, a    *)
(* Release, a Clear or no step of HoldCounter.                             *)
(***************************************************************************)
THEOREM ImplementsHolds == Spec => HoldsSpec
  <1>1. Init => Holds!Init
    BY DEF Init, Holds!Init
  <1>2. /\ TypeOK /\ CounterMatchesFlag /\ [Next]_vars
        => [Holds!Next]_<<suspend_ctr, suspended>>
    <2> SUFFICES ASSUME TypeOK, CounterMatchesFlag, [Next]_vars
                 PROVE  Holds!Next \/ UNCHANGED <<suspend_ctr, suspended>>
      OBVIOUS
    <2>1. CASE ReceiveSuspendReq
      <3>1. CASE suspend_ctr' = suspend_ctr + 1 /\ suspended' = TRUE
        BY <3>1 DEF Holds!Next, Holds!Grab
      <3>2. CASE /\ suspend_ctr > 0 /\ suspend_ctr' = suspend_ctr - 1
                 /\ suspended' = (suspend_ctr' > 0)
        BY <3>2 DEF Holds!Next, Holds!Release
      <3>3. CASE suspend_ctr' = 0 /\ suspended' = FALSE
        BY <3>3 DEF Holds!Next, Holds!Clear
      <3> QED
        BY <2>1, <3>1, <3>2, <3>3, RequestStep
    <2> QED
      BY <2>1, CounterChange
  <1> QED
    BY <1>1, <1>2, TypeCorrect, CounterCorrect, PTL DEF Spec, HoldsSpec, Holds!Spec

-----------------------------------------------------------------------------
(***************************************************************************)
(* However late an announcement is, the subscriber ends up paused exactly  *)
(* while the system is suspended: a change of state.suspended always has   *)
(* an announcement on its way, or a delayed one still to come.             *)
(***************************************************************************)
THEOREM SubscriberCorrect == Spec => []SubscriberFollows
  <1>1. Init => SubscriberFollows
    BY DEF Init, SubscriberFollows
  <1>2. TypeOK /\ SubscriberFollows /\ [Next]_vars => SubscriberFollows'
    <2> SUFFICES ASSUME TypeOK, SubscriberFollows, [Next]_vars,
                        subQ' = <<>>, ~delayed'
                 PROVE  paused' = suspended'
      BY DEF SubscriberFollows
    <2>1. ASSUME NEW new, PublishSuspendUpd(new) PROVE FALSE
      <3>1. subQ \in Seq(BOOLEAN) /\ subQ' = Append(subQ, new)
        BY <2>1 DEF PublishSuspendUpd, TypeOK
      <3>2. Append(subQ, new) # <<>>
        BY <3>1, AppendNonEmpty
      <3> QED
        BY <3>1, <3>2
    <2>2. CASE ReceiveSuspendReq
      <3>1. CASE GrabSuspend(Head(pmQ))
        <4>1. suspended' = TRUE /\ UNCHANGED delayed
          BY <3>1, Zenon DEF GrabSuspend
        <4>2. suspended /\ UNCHANGED subQ
          BY <2>1, <3>1 DEF GrabSuspend
        <4>3. suspended' = suspended
          BY <4>1, <4>2 DEF TypeOK
        <4> QED
          BY <2>2, <4>1, <4>2, <4>3 DEF ReceiveSuspendReq, SubscriberFollows
      <3>2. CASE KeepSuspended(Head(pmQ))
        <4>1. UNCHANGED <<suspended, subQ, delayed>>
          BY <3>2 DEF KeepSuspended
        <4> QED
          BY <2>2, <4>1 DEF ReceiveSuspendReq, SubscriberFollows
      <3>3. CASE Resume(Head(pmQ))
        BY <2>1, <2>2, <3>3 DEF ReceiveSuspendReq, Resume
      <3>4. CASE RefuseResume(Head(pmQ))
        BY <2>2, <3>4 DEF ReceiveSuspendReq, RefuseResume, SubscriberFollows
      <3> QED
        BY <2>2, <3>1, <3>2, <3>3, <3>4 DEF ReceiveSuspendReq, OnSuspendReq
    <2>3. CASE DelayExpired
      BY <2>1, <2>3 DEF DelayExpired
    <2>4. CASE ReceiveSuspendUpd
      BY <2>4 DEF ReceiveSuspendUpd
    <2>5. CASE UNCHANGED <<suspended, delayed, subQ, paused>>
      BY <2>5 DEF SubscriberFollows
    <2> QED
      BY <2>2, <2>3, <2>4, <2>5 DEF Next, Ask, ForceResume, SetResumeDelay, vars
  <1> QED
    BY <1>1, <1>2, TypeCorrect, PTL DEF Spec
-----------------------------------------------------------------------------
(***************************************************************************)
(* What the counter will say once PM has read its pipe, bounded on either  *)
(* side.  f[i] bounds the counter after the i-th pending request, the last *)
(* is the number of sources that ask now.  Below, a resume may be refused  *)
(* or a suspend counted twice; above, a resume may be stray or forced, but *)
(* the counter stays above 0.                                              *)
(***************************************************************************)
Weight(m) == IF m.new THEN 1 ELSE -1

Lower(q, n, k) ==
  \E f \in [0 .. Len(q) -> Int] :
    /\ f[0] <= n /\ f[Len(q)] = k
    /\ \A i \in 1 .. Len(q) : f[i] <= f[i - 1] + Weight(q[i])

Upper(q, n, k) ==
  \E f \in [0 .. Len(q) -> Nat] :
    /\ n <= f[0] /\ f[Len(q)] = k
    /\ \A i \in 1 .. Len(q) : f[i - 1] + Weight(q[i]) <= f[i]

\* The strengthening of SuspendedWhileAsked, one half for each misuse.
CountLeadsToAsks ==
  /\ "stray" \notin misuse => /\ \A i \in 1 .. Len(pmQ) : ~pmQ[i].force
                              /\ Lower(pmQ, suspend_ctr, Cardinality(asks))
  /\ "repeat" \notin misuse => Upper(pmQ, suspend_ctr, Cardinality(asks))

LEMMA SourcesFinite ==
  ASSUME NEW A \in SUBSET Sources
  PROVE  IsFiniteSet(A)
  <1>1. IsFiniteSet({}) /\ IsFiniteSet({} \cup {"logind"})
    BY FS_EmptySet, FS_AddElement
  <1>2. IsFiniteSet(({} \cup {"logind"}) \cup {"session"})
    BY <1>1, FS_AddElement
  <1>3. IsFiniteSet((({} \cup {"logind"}) \cup {"session"}) \cup {"signal"})
    BY <1>2, FS_AddElement
  <1>4. IsFiniteSet(((({} \cup {"logind"}) \cup {"session"}) \cup {"signal"}) \cup {"pause"})
    BY <1>3, FS_AddElement
  <1>5. AllSources = ((({} \cup {"logind"}) \cup {"session"}) \cup {"signal"}) \cup {"pause"}
    BY DEF AllSources
  <1>6. A \in SUBSET AllSources
    BY SuspendAssumption
  <1> QED
    BY <1>4, <1>5, <1>6, FS_Subset

\* One source more, or one less.
LEMMA AsksCount ==
  ASSUME NEW A \in SUBSET Sources, NEW s
  PROVE  /\ Cardinality(A) \in Nat
         /\ A = {} <=> Cardinality(A) = 0
         /\ Cardinality(A \cup {s}) = IF s \in A THEN Cardinality(A) ELSE Cardinality(A) + 1
         /\ Cardinality(A \ {s}) = IF s \in A THEN Cardinality(A) - 1 ELSE Cardinality(A)
         /\ s \in A => Cardinality(A) > 0
  <1>1. IsFiniteSet(A)
    BY SourcesFinite
  <1>2. Cardinality(A) \in Nat /\ (A = {} <=> Cardinality(A) = 0)
    BY <1>1, FS_CardinalityType, FS_EmptySet
  <1>3. Cardinality(A \cup {s}) = IF s \in A THEN Cardinality(A) ELSE Cardinality(A) + 1
    BY <1>1, FS_AddElement
  <1>4. Cardinality(A \ {s}) = IF s \in A THEN Cardinality(A) - 1 ELSE Cardinality(A)
    BY <1>1, FS_RemoveElement
  <1>5. s \in A => Cardinality(A) > 0
    BY <1>2
  <1> QED
    BY <1>2, <1>3, <1>4, <1>5

\* A request more, and none before it that weighs less: the bound below is kept.
LEMMA LowerAppend ==
  ASSUME NEW q, NEW r, Len(q) \in Nat, Len(r) = Len(q) + 1,
         NEW n, NEW k \in Int, NEW l \in Int, Lower(q, n, k),
         l <= k + Weight(r[Len(q) + 1]),
         \A i \in 1 .. Len(q) : Weight(q[i]) \in Int /\ Weight(r[i]) \in Int
                                /\ Weight(q[i]) <= Weight(r[i])
  PROVE  Lower(r, n, l)
  <1> DEFINE L == Len(q)
  <1>1. PICK f \in [0 .. L -> Int] :
          /\ f[0] <= n /\ f[L] = k
          /\ \A i \in 1 .. L : f[i] <= f[i - 1] + Weight(q[i])
    BY DEF Lower
  <1> DEFINE g == [i \in 0 .. L + 1 |-> IF i = L + 1 THEN l ELSE f[i]]
  <1>2. \A i \in 0 .. L + 1 : i # L + 1 => i \in 0 .. L
    OBVIOUS
  <1>3. g \in [0 .. L + 1 -> Int]
    BY <1>1, <1>2
  <1>4. g[L + 1] = l /\ \A i \in 0 .. L : g[i] = f[i]
    OBVIOUS
  <1> HIDE DEF g
  <1>5. ASSUME NEW i \in 1 .. L + 1 PROVE g[i] <= g[i - 1] + Weight(r[i])
    <2>1. CASE i = L + 1
      <3>1. i - 1 = L /\ L \in 0 .. L
        BY <2>1
      <3> QED
        BY <1>1, <1>4, <2>1, <3>1
    <2>2. CASE i # L + 1
      <3>1. i \in 1 .. L /\ i - 1 \in 0 .. L /\ i \in 0 .. L
        BY <2>2
      <3>2. g[i] = f[i] /\ g[i - 1] = f[i - 1] /\ f[i] \in Int /\ f[i - 1] \in Int
        BY <1>1, <1>4, <3>1
      <3>3. /\ f[i] <= f[i - 1] + Weight(q[i]) /\ Weight(q[i]) \in Int /\ Weight(r[i]) \in Int
            /\ Weight(q[i]) <= Weight(r[i])
        BY <1>1, <3>1
      <3> HIDE DEF L
      <3> QED
        BY <3>2, <3>3
    <2> QED
      BY <2>1, <2>2
  <1>6. 0 \in 0 .. L
    OBVIOUS
  <1>7. g[0] <= n
    BY <1>1, <1>4, <1>6
  <1> QED
    BY <1>3, <1>4, <1>5, <1>7 DEF Lower

\* A request more, and none before it that weighs more: the bound above is kept.
LEMMA UpperAppend ==
  ASSUME NEW q, NEW r, Len(q) \in Nat, Len(r) = Len(q) + 1,
         NEW n, NEW k \in Int, NEW l \in Nat, Upper(q, n, k),
         k + Weight(r[Len(q) + 1]) <= l,
         \A i \in 1 .. Len(q) : Weight(q[i]) \in Int /\ Weight(r[i]) \in Int
                                /\ Weight(r[i]) <= Weight(q[i])
  PROVE  Upper(r, n, l)
  <1> DEFINE L == Len(q)
  <1>1. PICK f \in [0 .. L -> Nat] :
          /\ n <= f[0] /\ f[L] = k
          /\ \A i \in 1 .. L : f[i - 1] + Weight(q[i]) <= f[i]
    BY DEF Upper
  <1> DEFINE g == [i \in 0 .. L + 1 |-> IF i = L + 1 THEN l ELSE f[i]]
  <1>2. \A i \in 0 .. L + 1 : i # L + 1 => i \in 0 .. L
    OBVIOUS
  <1>3. g \in [0 .. L + 1 -> Nat]
    BY <1>1, <1>2
  <1>4. g[L + 1] = l /\ \A i \in 0 .. L : g[i] = f[i]
    OBVIOUS
  <1> HIDE DEF g
  <1>5. ASSUME NEW i \in 1 .. L + 1 PROVE g[i - 1] + Weight(r[i]) <= g[i]
    <2>1. CASE i = L + 1
      <3>1. i - 1 = L /\ L \in 0 .. L
        BY <2>1
      <3> QED
        BY <1>1, <1>4, <2>1, <3>1
    <2>2. CASE i # L + 1
      <3>1. i \in 1 .. L /\ i - 1 \in 0 .. L /\ i \in 0 .. L
        BY <2>2
      <3>2. g[i] = f[i] /\ g[i - 1] = f[i - 1] /\ f[i] \in Nat /\ f[i - 1] \in Nat
        BY <1>1, <1>4, <3>1
      <3>3. /\ f[i - 1] + Weight(q[i]) <= f[i] /\ Weight(q[i]) \in Int /\ Weight(r[i]) \in Int
            /\ Weight(r[i]) <= Weight(q[i])
        BY <1>1, <3>1
      <3> HIDE DEF L
      <3> QED
        BY <3>2, <3>3
    <2> QED
      BY <2>1, <2>2
  <1>6. 0 \in 0 .. L
    OBVIOUS
  <1>7. n <= g[0]
    BY <1>1, <1>4, <1>6
  <1> QED
    BY <1>3, <1>4, <1>5, <1>7 DEF Upper

\* Reading a request, which counts at least for what it weighs, keeps the bound below.
LEMMA LowerTail ==
  ASSUME NEW q \in Seq(SuspendReq), q # <<>>, NEW n \in Int, NEW m \in Int, NEW k,
         Weight(q[1]) \in Int, n + Weight(q[1]) <= m, Lower(q, n, k)
  PROVE  Lower(Tail(q), m, k)
  <1> DEFINE L == Len(q)
  <1>1. PICK f \in [0 .. L -> Int] :
          /\ f[0] <= n /\ f[L] = k
          /\ \A i \in 1 .. L : f[i] <= f[i - 1] + Weight(q[i])
    BY DEF Lower
  <1>2. /\ L \in Nat \ {0} /\ Len(Tail(q)) = L - 1
        /\ \A i \in 1 .. L - 1 : Tail(q)[i] = q[i + 1]
    OBVIOUS
  <1> DEFINE g == [i \in 0 .. L - 1 |-> f[i + 1]]
  <1> HIDE DEF L
  <1>3. g \in [0 .. L - 1 -> Int] /\ \A i \in 0 .. L - 1 : g[i] = f[i + 1]
    BY <1>1, <1>2
  <1> HIDE DEF g
  <1>4. g[0] <= m /\ g[L - 1] = k
    <2>1. g[0] = f[1] /\ g[L - 1] = f[L] /\ 1 \in 1 .. L /\ 0 \in 0 .. L /\ 1 \in 0 .. L
      BY <1>2, <1>3
    <2>2. f[1] <= f[0] + Weight(q[1]) /\ f[0] \in Int /\ f[1] \in Int
      BY <1>1, <2>1
    <2> QED
      BY <1>1, <2>1, <2>2
  <1>5. ASSUME NEW i \in 1 .. L - 1 PROVE g[i] <= g[i - 1] + Weight(Tail(q)[i])
    <2>1. i + 1 \in 1 .. L /\ (i + 1) - 1 = i /\ i \in 0 .. L - 1 /\ i - 1 \in 0 .. L - 1
          /\ (i - 1) + 1 = i
      BY <1>2
    <2>2. g[i] = f[i + 1] /\ g[i - 1] = f[i] /\ Tail(q)[i] = q[i + 1]
      BY <1>2, <1>3, <2>1
    <2>3. f[i + 1] <= f[(i + 1) - 1] + Weight(q[i + 1])
      BY <1>1, <2>1
    <2> QED
      BY <2>1, <2>2, <2>3
  <1> QED
    BY <1>2, <1>3, <1>4, <1>5 DEF Lower

\* Reading a request, which counts at most for what it weighs, keeps the bound above.
LEMMA UpperTail ==
  ASSUME NEW q \in Seq(SuspendReq), q # <<>>, NEW n \in Int, NEW m \in Int, NEW k,
         Weight(q[1]) \in Int, m <= n + Weight(q[1]) \/ m = 0, Upper(q, n, k)
  PROVE  Upper(Tail(q), m, k)
  <1> DEFINE L == Len(q)
  <1>1. PICK f \in [0 .. L -> Nat] :
          /\ n <= f[0] /\ f[L] = k
          /\ \A i \in 1 .. L : f[i - 1] + Weight(q[i]) <= f[i]
    BY DEF Upper
  <1>2. /\ L \in Nat \ {0} /\ Len(Tail(q)) = L - 1
        /\ \A i \in 1 .. L - 1 : Tail(q)[i] = q[i + 1]
    OBVIOUS
  <1> DEFINE g == [i \in 0 .. L - 1 |-> f[i + 1]]
  <1> HIDE DEF L
  <1>3. g \in [0 .. L - 1 -> Nat] /\ \A i \in 0 .. L - 1 : g[i] = f[i + 1]
    BY <1>1, <1>2
  <1> HIDE DEF g
  <1>4. m <= g[0] /\ g[L - 1] = k
    <2>1. g[0] = f[1] /\ g[L - 1] = f[L] /\ 1 \in 1 .. L /\ 0 \in 0 .. L /\ 1 \in 0 .. L
      BY <1>2, <1>3
    <2>2. f[0] + Weight(q[1]) <= f[1] /\ f[0] \in Nat /\ f[1] \in Nat
      BY <1>1, <2>1
    <2> QED
      BY <1>1, <2>1, <2>2
  <1>5. ASSUME NEW i \in 1 .. L - 1 PROVE g[i - 1] + Weight(Tail(q)[i]) <= g[i]
    <2>1. i + 1 \in 1 .. L /\ (i + 1) - 1 = i /\ i \in 0 .. L - 1 /\ i - 1 \in 0 .. L - 1
          /\ (i - 1) + 1 = i
      BY <1>2
    <2>2. g[i] = f[i + 1] /\ g[i - 1] = f[i] /\ Tail(q)[i] = q[i + 1]
      BY <1>2, <1>3, <2>1
    <2>3. f[(i + 1) - 1] + Weight(q[i + 1]) <= f[i + 1]
      BY <1>1, <2>1
    <2> QED
      BY <2>1, <2>2, <2>3
  <1> QED
    BY <1>2, <1>3, <1>4, <1>5 DEF Upper

-----------------------------------------------------------------------------
LEMMA WeightType ==
  ASSUME NEW q \in Seq(SuspendReq), NEW i \in 1 .. Len(q)
  PROVE  q[i].new \in BOOLEAN /\ Weight(q[i]) \in Int
  <1>1. q[i] \in SuspendReq
    OBVIOUS
  <1>2. q[i].new \in BOOLEAN
    BY <1>1 DEF SuspendReq
  <1> QED
    BY <1>2 DEF Weight

\* What publishing a request makes of the pipe.
LEMMA Published ==
  ASSUME TypeOK, NEW req \in SuspendReq, PublishSuspReq(req)
  PROVE  /\ Len(pmQ) \in Nat /\ Len(pmQ') = Len(pmQ) + 1 /\ pmQ'[Len(pmQ) + 1] = req
         /\ \A i \in 1 .. Len(pmQ) :
              pmQ'[i] = IF pmQ[i].from = req.from /\ req.from \in StaticSources THEN req ELSE pmQ[i]
  <1> DEFINE inFlight == [i \in DOMAIN pmQ |->
               IF pmQ[i].from = req.from /\ req.from \in StaticSources THEN req ELSE pmQ[i]]
  <1>1. pmQ \in Seq(SuspendReq)
    BY DEF TypeOK
  <1>2. Len(pmQ) \in Nat /\ DOMAIN inFlight = 1 .. Len(pmQ)
    BY <1>1
  <1>3. \A i \in 1 .. Len(pmQ) : inFlight[i] \in SuspendReq
    BY <1>1
  <1>4. inFlight \in Seq(SuspendReq) /\ Len(inFlight) = Len(pmQ)
    BY <1>2, <1>3, IsASeq
  <1>5. pmQ' = Append(inFlight, req)
    BY DEF PublishSuspReq
  <1>6. \A i \in 1 .. Len(pmQ) :
          inFlight[i] = IF pmQ[i].from = req.from /\ req.from \in StaticSources THEN req ELSE pmQ[i]
    BY <1>2
  <1> HIDE DEF inFlight
  <1>7. /\ Len(pmQ') = Len(inFlight) + 1 /\ pmQ'[Len(inFlight) + 1] = req
        /\ \A i \in 1 .. Len(inFlight) : pmQ'[i] = inFlight[i]
    BY <1>4, <1>5
  <1> QED
    BY <1>2, <1>4, <1>6, <1>7

LEMMA LeadsInit == Init => CountLeadsToAsks
  <1> SUFFICES ASSUME Init PROVE CountLeadsToAsks
    OBVIOUS
  <1>1. pmQ = <<>> /\ Len(pmQ) = 0 /\ asks = {} /\ suspend_ctr = 0
    BY DEF Init
  <1> DEFINE f == [i \in 0 .. 0 |-> 0]
  <1>2. f \in [0 .. 0 -> Nat] /\ f \in [0 .. 0 -> Int] /\ f[0] = 0 /\ Cardinality({}) = 0
    BY FS_EmptySet
  <1>3. 1 .. 0 = {}
    OBVIOUS
  <1> HIDE DEF f
  <1>4. Lower(pmQ, suspend_ctr, Cardinality(asks)) /\ Upper(pmQ, suspend_ctr, Cardinality(asks))
    BY <1>1, <1>2, <1>3 DEF Lower, Upper
  <1> QED
    BY <1>1, <1>3, <1>4 DEF CountLeadsToAsks

LEMMA AskLeads ==
  ASSUME TypeOK, CountLeadsToAsks, NEW s \in Sources, NEW new \in BOOLEAN, Ask(s, new)
  PROVE  CountLeadsToAsks'
  <1> DEFINE req == [from |-> s, new |-> new, force |-> FALSE]
             k == Cardinality(asks)
             L == Len(pmQ)
  <1>1. req \in SuspendReq /\ req.from = s /\ req.new = new /\ req.force = FALSE
    BY SuspendAssumption DEF SuspendReq
  <1>2. /\ UNCHANGED suspend_ctr /\ asks' = IF new THEN asks \cup {s} ELSE asks \ {s}
        /\ misuse' = misuse \cup Misuses(s, new) /\ PublishSuspReq(req)
    BY DEF Ask
  <1>3. /\ L \in Nat /\ Len(pmQ') = L + 1 /\ pmQ'[L + 1] = req
        /\ \A i \in 1 .. L :
             pmQ'[i] = IF pmQ[i].from = s /\ s \in StaticSources THEN req ELSE pmQ[i]
    BY <1>1, <1>2, Published
  <1>4. \A i \in 1 .. L : pmQ[i].new \in BOOLEAN /\ DOMAIN pmQ = 1 .. L
    BY WeightType DEF TypeOK
  <1>5. asks \in SUBSET Sources
    BY DEF TypeOK
  <1>6. /\ k \in Nat
        /\ Cardinality(asks \cup {s}) = IF s \in asks THEN k ELSE k + 1
        /\ Cardinality(asks \ {s}) = IF s \in asks THEN k - 1 ELSE k
        /\ s \in asks => k > 0
    BY <1>5, AsksCount
  <1> DEFINE l == Cardinality(asks')
  <1>7. l = IF new THEN (IF s \in asks THEN k ELSE k + 1) ELSE (IF s \in asks THEN k - 1 ELSE k)
    BY <1>2, <1>6
  <1>8. Weight(req) = IF new THEN 1 ELSE -1
    BY <1>1 DEF Weight
  <1> HIDE DEF req, k, l
  <1>9. k \in Int /\ l \in Nat /\ l \in Int
    BY <1>6, <1>7
  <1>10. ASSUME NEW i \in 1 .. L
         PROVE  /\ Weight(pmQ[i]) \in {1, -1} /\ Weight(pmQ'[i]) \in {1, -1}
                /\ pmQ'[i].new # pmQ[i].new => s \in StaticSources /\ Unread(s, ~new) /\ pmQ'[i].new = new
    <2>1. pmQ'[i] = req \/ pmQ'[i] = pmQ[i]
      BY <1>3
    <2>2. Weight(pmQ[i]) \in {1, -1} /\ Weight(req) \in {1, -1}
      BY <1>8 DEF Weight
    <2>3. Weight(pmQ'[i]) \in {1, -1}
      BY <2>1, <2>2
    <2>4. ASSUME pmQ'[i].new # pmQ[i].new
          PROVE  s \in StaticSources /\ Unread(s, ~new) /\ pmQ'[i].new = new
      <3>1. pmQ'[i] # pmQ[i]
        BY <2>4
      <3>2. pmQ[i].from = s /\ s \in StaticSources /\ pmQ'[i] = req
        BY <1>3, <3>1
      <3>3. pmQ[i].new = ~new /\ pmQ'[i].new = new
        BY <1>1, <1>4, <2>4, <3>2
      <3> QED
        BY <1>4, <3>2, <3>3 DEF Unread
    <2> QED
      BY <2>2, <2>3, <2>4
  <1>11. ASSUME "stray" \notin misuse'
         PROVE  Lower(pmQ', suspend_ctr, l) /\ \A i \in 1 .. Len(pmQ') : ~pmQ'[i].force
    <2>1. "stray" \notin misuse /\ "stray" \notin Misuses(s, new)
      BY <1>2, <1>11
    <2>2. ~new => s \in asks /\ ~(s \in StaticSources /\ Unread(s, ~new))
      BY <2>1 DEF Misuses
    <2>3. Lower(pmQ, suspend_ctr, k) /\ \A i \in 1 .. L : ~pmQ[i].force
      BY <2>1 DEF CountLeadsToAsks, k
    <2>4. l <= k + Weight(pmQ'[L + 1])
      <3>1. Weight(pmQ'[L + 1]) = IF new THEN 1 ELSE -1
        BY <1>3, <1>8
      <3> QED
        BY <1>6, <1>7, <2>2, <3>1
    <2>5. ASSUME NEW i \in 1 .. L
          PROVE  Weight(pmQ[i]) \in Int /\ Weight(pmQ'[i]) \in Int /\ Weight(pmQ[i]) <= Weight(pmQ'[i])
      <3>1. Weight(pmQ[i]) \in {1, -1} /\ Weight(pmQ'[i]) \in {1, -1}
        BY <1>10
      <3>2. CASE pmQ'[i].new = pmQ[i].new
        <4>1. Weight(pmQ'[i]) = Weight(pmQ[i])
          BY <3>2 DEF Weight
        <4> QED
          BY <3>1, <4>1
      <3>3. CASE pmQ'[i].new # pmQ[i].new
        <4>1. pmQ'[i].new = TRUE
          BY <1>10, <2>2, <3>3
        <4>2. Weight(pmQ'[i]) = 1
          BY <4>1 DEF Weight
        <4> QED
          BY <3>1, <4>2
      <3> QED
        BY <3>2, <3>3
    <2>6. Lower(pmQ', suspend_ctr, l)
      BY <1>3, <1>9, <2>3, <2>4, <2>5, LowerAppend
    <2>7. \A i \in 1 .. Len(pmQ') : ~pmQ'[i].force
      <3>1. \A i \in 1 .. Len(pmQ') : i \in 1 .. L \/ i = L + 1
        BY <1>3
      <3>2. \A i \in 1 .. L : pmQ'[i] = req \/ pmQ'[i] = pmQ[i]
        BY <1>3
      <3> QED
        BY <1>1, <1>3, <2>3, <3>1, <3>2
    <2> QED
      BY <2>6, <2>7
  <1>12. ASSUME "repeat" \notin misuse'
         PROVE  Upper(pmQ', suspend_ctr, l)
    <2>1. "repeat" \notin misuse /\ "repeat" \notin Misuses(s, new)
      BY <1>2, <1>12
    <2>2. new => s \notin asks /\ ~(s \in StaticSources /\ Unread(s, ~new))
      BY <2>1 DEF Misuses
    <2>3. Upper(pmQ, suspend_ctr, k)
      BY <2>1 DEF CountLeadsToAsks, k
    <2>4. k + Weight(pmQ'[L + 1]) <= l
      <3>1. Weight(pmQ'[L + 1]) = IF new THEN 1 ELSE -1
        BY <1>3, <1>8
      <3> QED
        BY <1>6, <1>7, <2>2, <3>1
    <2>5. ASSUME NEW i \in 1 .. L
          PROVE  Weight(pmQ[i]) \in Int /\ Weight(pmQ'[i]) \in Int /\ Weight(pmQ'[i]) <= Weight(pmQ[i])
      <3>1. Weight(pmQ[i]) \in {1, -1} /\ Weight(pmQ'[i]) \in {1, -1}
        BY <1>10
      <3>2. CASE pmQ'[i].new = pmQ[i].new
        <4>1. Weight(pmQ'[i]) = Weight(pmQ[i])
          BY <3>2 DEF Weight
        <4> QED
          BY <3>1, <4>1
      <3>3. CASE pmQ'[i].new # pmQ[i].new
        <4>1. pmQ'[i].new = FALSE
          BY <1>10, <2>2, <3>3
        <4>2. Weight(pmQ'[i]) = -1
          BY <4>1 DEF Weight
        <4> QED
          BY <3>1, <4>2
      <3> QED
        BY <3>2, <3>3
    <2> QED
      BY <1>3, <1>9, <2>3, <2>4, <2>5, UpperAppend
  <1>13. "stray" \notin misuse' => Lower(pmQ', suspend_ctr', l) /\ \A i \in 1 .. Len(pmQ') : ~pmQ'[i].force
    BY <1>2, <1>11
  <1>14. "repeat" \notin misuse' => Upper(pmQ', suspend_ctr', l)
    BY <1>2, <1>12
  <1> QED
    BY <1>13, <1>14 DEF CountLeadsToAsks, Lower, Upper, Weight, l

LEMMA ForceLeads ==
  ASSUME TypeOK, CountLeadsToAsks, ForceResume
  PROVE  CountLeadsToAsks'
  <1> DEFINE req == [from |-> "plugin", new |-> FALSE, force |-> TRUE]
             k == Cardinality(asks)
             L == Len(pmQ)
  <1>1. req \in SuspendReq /\ req.from = "plugin" /\ req.new = FALSE
    BY DEF SuspendReq
  <1>2. /\ UNCHANGED <<suspend_ctr, asks>> /\ "stray" \in misuse' /\ PublishSuspReq(req)
        /\ "repeat" \notin misuse' => "repeat" \notin misuse
    BY DEF ForceResume
  <1>3. /\ L \in Nat /\ Len(pmQ') = L + 1 /\ pmQ'[L + 1] = req
        /\ \A i \in 1 .. L : pmQ'[i] = pmQ[i]
    <2>1. "plugin" \notin StaticSources
      BY DEF StaticSources
    <2> QED
      BY <1>1, <1>2, <2>1, Published
  <1>4. k \in Nat
    BY AsksCount DEF TypeOK
  <1>5. Weight(pmQ'[L + 1]) = -1
    BY <1>1, <1>3 DEF Weight
  <1> HIDE DEF req, k
  <1>6. ASSUME "repeat" \notin misuse'
        PROVE  Upper(pmQ', suspend_ctr, k)
    <2>1. Upper(pmQ, suspend_ctr, k)
      BY <1>2, <1>6 DEF CountLeadsToAsks, k
    <2>2. \A i \in 1 .. L : Weight(pmQ[i]) \in Int
      BY WeightType DEF TypeOK
    <2>3. \A i \in 1 .. L : /\ Weight(pmQ[i]) \in Int /\ Weight(pmQ'[i]) \in Int
                            /\ Weight(pmQ'[i]) <= Weight(pmQ[i])
      BY <1>3, <2>2
    <2>4. k \in Int /\ k + Weight(pmQ'[L + 1]) <= k
      BY <1>4, <1>5
    <2> QED
      BY <1>3, <1>4, <2>1, <2>3, <2>4, UpperAppend
  <1>7. "repeat" \notin misuse' => Upper(pmQ', suspend_ctr', Cardinality(asks'))
    BY <1>2, <1>6 DEF k
  <1> QED
    BY <1>2, <1>7 DEF CountLeadsToAsks, Upper, Weight

\* Reading a request: a resume that is refused leaves the counter at 0.
LEMMA ReceiveLeads ==
  ASSUME TypeOK, CounterMatchesFlag, CountLeadsToAsks, ReceiveSuspendReq
  PROVE  CountLeadsToAsks'
  <1> DEFINE up == Head(pmQ)
             k == Cardinality(asks)
             n == suspend_ctr
             m == suspend_ctr'
  <1>1. pmQ \in Seq(SuspendReq) /\ pmQ # <<>> /\ pmQ' = Tail(pmQ) /\ UNCHANGED <<asks, misuse>>
    BY DEF ReceiveSuspendReq, TypeOK
  <1>2. Len(pmQ) \in Nat \ {0} /\ up = pmQ[1] /\ 1 \in 1 .. Len(pmQ)
    BY <1>1
  <1>3. up.new \in BOOLEAN /\ Weight(pmQ[1]) \in Int
    BY <1>1, <1>2, WeightType
  <1>4. n \in Nat /\ (n > 0 <=> suspended)
    BY DEF TypeOK, CounterMatchesFlag
  <1>5. Weight(pmQ[1]) = IF up.new THEN 1 ELSE -1
    BY <1>2 DEF Weight
  <1>6. m \in Int /\ (m = n + Weight(pmQ[1]) \/ m = 0) /\ (~up.force => n + Weight(pmQ[1]) <= m)
    <2>1. CASE GrabSuspend(up)
      BY <1>4, <1>5, <2>1 DEF GrabSuspend
    <2>2. CASE KeepSuspended(up)
      BY <1>4, <1>5, <2>2 DEF KeepSuspended
    <2>3. CASE Resume(up)
      BY <1>4, <1>5, <2>3 DEF Resume
    <2>4. CASE RefuseResume(up)
      BY <1>4, <1>5, <2>4 DEF RefuseResume
    <2> QED
      BY <2>1, <2>2, <2>3, <2>4 DEF ReceiveSuspendReq, OnSuspendReq
  <1> HIDE DEF k, m, n
  <1>7. n \in Int
    BY <1>4
  <1>8. ASSUME "stray" \notin misuse'
        PROVE  Lower(pmQ', m, k) /\ \A i \in 1 .. Len(pmQ') : ~pmQ'[i].force
    <2>1. Lower(pmQ, n, k) /\ \A i \in 1 .. Len(pmQ) : ~pmQ[i].force
      BY <1>1, <1>8 DEF CountLeadsToAsks, k, n
    <2>2. n + Weight(pmQ[1]) <= m
      BY <1>2, <1>6, <2>1
    <2>3. Lower(pmQ', m, k)
      BY <1>1, <1>3, <1>6, <1>7, <2>1, <2>2, LowerTail
    <2>4. \A i \in 1 .. Len(pmQ') : i + 1 \in 1 .. Len(pmQ) /\ pmQ'[i] = pmQ[i + 1]
      BY <1>1
    <2> QED
      BY <2>1, <2>3, <2>4
  <1>9. ASSUME "repeat" \notin misuse'
        PROVE  Upper(pmQ', m, k)
    <2>1. Upper(pmQ, n, k)
      BY <1>1, <1>9 DEF CountLeadsToAsks, k, n
    <2>2. m <= n + Weight(pmQ[1]) \/ m = 0
      BY <1>3, <1>6, <1>7
    <2> QED
      BY <1>1, <1>3, <1>6, <1>7, <2>1, <2>2, UpperTail
  <1>10. Cardinality(asks') = k
    BY <1>1 DEF k
  <1> QED
    BY <1>8, <1>9, <1>10 DEF CountLeadsToAsks, Lower, Upper, Weight, m

(***************************************************************************)
(* Once PM has read its pipe the system counts as suspended while some     *)
(* source asks for it, unless a resume was stray or forced, and only then, *)
(* unless a suspend was repeated; requests that were rewritten in the pipe *)
(* count as the one or the other.                                          *)
(***************************************************************************)
THEOREM SuspendedCorrect == Spec => []SuspendedWhileAsked
  <1>1. TypeOK /\ CounterMatchesFlag /\ CountLeadsToAsks /\ [Next]_vars => CountLeadsToAsks'
    <2> SUFFICES ASSUME TypeOK, CounterMatchesFlag, CountLeadsToAsks, [Next]_vars
                 PROVE  CountLeadsToAsks'
      OBVIOUS
    <2>1. CASE \E s \in Sources, new \in BOOLEAN : Ask(s, new)
      BY <2>1, AskLeads
    <2>2. CASE ForceResume
      BY <2>2, ForceLeads
    <2>3. CASE ReceiveSuspendReq
      BY <2>3, ReceiveLeads
    <2>4. CASE UNCHANGED <<asks, pmQ, suspend_ctr, misuse>>
      BY <2>4 DEF CountLeadsToAsks, Lower, Upper, Weight
    <2> QED
      BY <2>1, <2>2, <2>3, <2>4
      DEF Next, SetResumeDelay, DelayExpired, ReceiveSuspendUpd, vars
  <1>2. TypeOK /\ CounterMatchesFlag /\ CountLeadsToAsks => SuspendedWhileAsked
    <2> SUFFICES ASSUME TypeOK, CounterMatchesFlag, CountLeadsToAsks, pmQ = <<>>
                 PROVE  /\ "stray" \notin misuse => (asks # {} => suspended)
                        /\ "repeat" \notin misuse => (suspended => asks # {})
      BY DEF SuspendedWhileAsked
    <2>1. Len(pmQ) = 0 /\ 0 \in 0 .. 0
      OBVIOUS
    <2>2. Cardinality(asks) \in Nat /\ (asks = {} <=> Cardinality(asks) = 0)
      BY AsksCount DEF TypeOK
    <2>3. suspend_ctr \in Nat /\ (suspended <=> suspend_ctr > 0)
      BY DEF TypeOK, CounterMatchesFlag
    <2>4. "stray" \notin misuse => Cardinality(asks) <= suspend_ctr
      BY <2>1 DEF CountLeadsToAsks, Lower
    <2>5. "repeat" \notin misuse => suspend_ctr <= Cardinality(asks)
      BY <2>1 DEF CountLeadsToAsks, Upper
    <2> QED
      BY <2>2, <2>3, <2>4, <2>5
  <1> QED
    BY <1>1, <1>2, LeadsInit, TypeCorrect, CounterCorrect, PTL DEF Spec
-----------------------------------------------------------------------------
\* The variables of the lock, as LockTypeOK has them.
OwnTypeOK == /\ pm_inhibited \in BOOLEAN /\ token \in BOOLEAN
             /\ inh_api \in Services \cup {"NONE"}
             /\ locks \subseteq Services
             /\ mishap \subseteq Mishaps

LEMMA AnsweredType ==
  ASSUME mishap \subseteq Mishaps, NEW ill, ill \subseteq Mishaps, Answered(ill)
  PROVE  mishap' \subseteq Mishaps
  BY DEF Answered

\* on_pm_req keeps the variables of the lock well typed, whatever fails.
LEMMA PmReqType ==
  ASSUME OwnTypeOK, NEW new \in BOOLEAN, OnPmReq(new)
  PROVE  OwnTypeOK'
  <1>1. mishap \subseteq Mishaps
    BY DEF OwnTypeOK
  <1>2. CASE AcquireLock
    <2>1. ASSUME NEW dup \in Works("dup"), AcquireSystemd(dup) PROVE OwnTypeOK'
      <3>1. dup \in BOOLEAN
        BY DEF Works
      <3>2. mishap' \subseteq Mishaps
        BY <1>1, <2>1, AnsweredType DEF AcquireSystemd, Mishaps
      <3> QED
        BY <2>1, <3>1, <3>2 DEF AcquireSystemd, OwnTypeOK, Services
    <2>2. CASE AcquirePowerManagement
      <3>1. mishap' \subseteq Mishaps
        BY <1>1, <2>2, AnsweredType DEF AcquirePowerManagement, Mishaps
      <3> QED
        BY <2>2, <3>1 DEF AcquirePowerManagement, OwnTypeOK, Services
    <2>3. CASE AcquireNothing
      <3>1. mishap' \subseteq Mishaps
        BY <1>1, <2>3, AnsweredType DEF AcquireNothing, Mishaps
      <3> QED
        BY <2>3, <3>1 DEF AcquireNothing, OwnTypeOK
    <2> QED
      BY <1>2, <2>1, <2>2, <2>3 DEF AcquireLock
  <1>3. CASE ReleaseLock
    <2>1. mishap' \subseteq Mishaps
      BY <1>1, <1>3 DEF ReleaseLock, Answered, Mishaps
    <2> QED
      BY <1>3, <2>1 DEF ReleaseLock, ownVars, OwnTypeOK
  <1>4. CASE UNCHANGED ownVars /\ Answered({})
    BY <1>1, <1>4, AnsweredType DEF ownVars, OwnTypeOK
  <1> QED
    BY <1>2, <1>3, <1>4 DEF OnPmReq

LEMMA LockTypeStep == LockTypeOK /\ [LockNext]_pmVars => LockTypeOK'
  <1> SUFFICES ASSUME LockTypeOK, [LockNext]_pmVars PROVE LockTypeOK'
    OBVIOUS
  <1>1. OwnTypeOK
    BY DEF LockTypeOK, OwnTypeOK
  <1>2. CASE InhibitChanges
    <2>1. lockQ' \in Seq(Msg)
      BY <1>2, AppendType DEF InhibitChanges, Publish, LockTypeOK, Msg
    <2> QED
      BY <1>2, <2>1 DEF InhibitChanges, lockVars, ownVars, LockTypeOK
  <1>3. CASE SetInhibitPM
    BY <1>3 DEF SetInhibitPM, ownVars, LockTypeOK, Mishaps
  <1>4. CASE ReceiveInhibitUpd
    <2>1. Tail(lockQ) \in Seq(Msg)
      BY <1>4, TailType DEF ReceiveInhibitUpd, LockTypeOK
    <2>2. [type |-> "PM_REQ", new |-> inhibited] \in Msg
      BY DEF Msg, LockTypeOK
    <2>3. lockQ' \in Seq(Msg)
      BY <1>4, <2>1, <2>2, AppendType DEF ReceiveInhibitUpd
    <2>4. mishap' \subseteq Mishaps
      BY <1>4 DEF ReceiveInhibitUpd, LockTypeOK
    <2> QED
      BY <1>4, <2>3, <2>4 DEF ReceiveInhibitUpd, ownVars, LockTypeOK
  <1>5. CASE ReceivePmReq
    <2>1. Head(lockQ) \in Msg /\ Tail(lockQ) \in Seq(Msg)
      BY <1>5, TailType DEF ReceivePmReq, LockTypeOK
    <2>2. Head(lockQ).new \in BOOLEAN
      BY <1>5, <2>1 DEF ReceivePmReq, Msg
    <2>3. CASE Head(lockQ).new # pm_inhibited
      <3>1. OwnTypeOK'
        BY <1>1, <1>5, <2>2, <2>3, PmReqType DEF ReceivePmReq
      <3> QED
        BY <1>5, <2>1, <3>1 DEF ReceivePmReq, LockTypeOK, OwnTypeOK
    <2>4. CASE Head(lockQ).new = pm_inhibited
      <3>1. mishap' \subseteq Mishaps
        BY <1>1, <1>5, <2>4, AnsweredType DEF ReceivePmReq, OwnTypeOK
      <3> QED
        BY <1>5, <2>1, <2>4, <3>1 DEF ReceivePmReq, ownVars, LockTypeOK
    <2> QED
      BY <2>3, <2>4
  <1>6. CASE LoopStopped
    <2>1. OwnTypeOK'
      BY <1>1, <1>6, PmReqType DEF LoopStopped, lockVars, ownVars, OwnTypeOK
    <2> QED
      BY <1>6, <2>1 DEF LoopStopped, LockTypeOK, OwnTypeOK
  <1>7. CASE UNCHANGED pmVars
    BY <1>7 DEF pmVars, lockVars, ownVars, LockTypeOK
  <1> QED
    BY <1>2, <1>3, <1>4, <1>5, <1>6, <1>7 DEF LockNext

LEMMA LockTypeInit == LockInit => LockTypeOK
  <1> SUFFICES ASSUME LockInit PROVE LockTypeOK
    OBVIOUS
  <1>1. <<>> \in Seq(Msg)
    BY EmptySeq
  <1>2. lockQ \in Seq(Msg)
    BY <1>1, Zenon DEF LockInit
  <1>3. /\ inhibited \in BOOLEAN /\ inhibit_pm \in BOOLEAN /\ pm_inhibited \in BOOLEAN
        /\ token \in BOOLEAN /\ stopped \in BOOLEAN
    BY Zenon DEF LockInit
  <1>4. inh_api \in Services \cup {"NONE"} /\ locks \subseteq Services /\ mishap = {}
    BY DEF LockInit
  <1> QED
    BY <1>2, <1>3, <1>4 DEF LockTypeOK

\* Every reachable state of PM's lock and pipe has its type.
THEOREM LockTypeCorrect == LockSpec => []LockTypeOK
  BY LockTypeInit, LockTypeStep, PTL DEF LockSpec

-----------------------------------------------------------------------------
(***************************************************************************)
(* The inductive invariant: the token, the service inh_api names, the flag *)
(* that is reported and a lock that is held all say the same, but where    *)
(* the descriptor was lost; and any other lock was left with               *)
(* PowerManagement.                                                        *)
(***************************************************************************)
TokenKnown == \/ token /\ pm_inhibited /\ inh_api \in Services /\ inh_api \in locks
              \/ ~token /\ ~pm_inhibited /\ inh_api = "NONE"
              \/ ~token /\ pm_inhibited /\ inh_api = "SYSTEMD" /\ "lost" \in mishap

LocksKnown == \A api \in locks : \/ token /\ inh_api = api
                                 \/ api = "POWERMANAGEMENT" /\ "left" \in mishap

LockKnown == TokenKnown /\ LocksKnown

\* What is lost or left stays so, whatever PM answers.
LEMMA AnsweredKeeps ==
  ASSUME NEW ill, Answered(ill)
  PROVE  /\ "lost" \in mishap => "lost" \in mishap'
         /\ "left" \in mishap => "left" \in mishap'
         /\ ill \subseteq mishap'
         /\ "conf" \in mishap => "conf" \in mishap'
  BY DEF Answered

LEMMA PmReqLock ==
  ASSUME LockKnown, NEW new \in BOOLEAN, new # pm_inhibited, OnPmReq(new),
         pm_inhibited \in BOOLEAN, token \in BOOLEAN
  PROVE  LockKnown'
  <1>1. CASE new /\ AcquireLock
    <2>1. ~pm_inhibited /\ inh_api = "NONE" /\ ~token
      BY <1>1 DEF AcquireLock, LockKnown, TokenKnown
    <2>2. \A api \in locks : api = "POWERMANAGEMENT" /\ "left" \in mishap
      BY <2>1 DEF LockKnown, LocksKnown
    <2>3. ASSUME NEW dup \in Works("dup"), AcquireSystemd(dup) PROVE LockKnown'
      <3>1. CASE dup
        <4>1. token' /\ pm_inhibited' /\ inh_api' = "SYSTEMD" /\ locks' = locks \cup {"SYSTEMD"}
          BY <2>3, <3>1, Zenon DEF AcquireSystemd
        <4>2. "left" \in mishap => "left" \in mishap'
          BY <2>3, AnsweredKeeps DEF AcquireSystemd
        <4> QED
          BY <2>2, <4>1, <4>2 DEF LockKnown, TokenKnown, LocksKnown, Services
      <3>2. CASE ~dup
        <4>1. ~token' /\ pm_inhibited' /\ inh_api' = "SYSTEMD" /\ locks' = locks
          BY <2>3, <3>2, Zenon DEF AcquireSystemd
        <4>2. ("left" \in mishap => "left" \in mishap') /\ "lost" \in mishap'
          BY <2>3, <3>2, AnsweredKeeps DEF AcquireSystemd
        <4> QED
          BY <2>2, <4>1, <4>2 DEF LockKnown, TokenKnown, LocksKnown
      <3> QED
        BY <3>1, <3>2
    <2>4. CASE AcquirePowerManagement
      <3>1. "left" \in mishap => "left" \in mishap'
        BY <2>4, AnsweredKeeps DEF AcquirePowerManagement
      <3> QED
        BY <2>2, <2>4, <3>1 DEF AcquirePowerManagement, LockKnown, TokenKnown, LocksKnown, Services
    <2>5. CASE AcquireNothing
      <3>1. "left" \in mishap => "left" \in mishap'
        BY <2>5, AnsweredKeeps DEF AcquireNothing
      <3> QED
        BY <2>1, <2>2, <2>5, <3>1 DEF AcquireNothing, LockKnown, TokenKnown, LocksKnown
    <2> QED
      BY <1>1, <2>3, <2>4, <2>5 DEF AcquireLock
  <1>2. CASE ReleaseLock
    <2>1. token /\ pm_inhibited /\ inh_api \in Services /\ inh_api \in locks
      BY <1>2 DEF ReleaseLock, LockKnown, TokenKnown
    <2>2. PICK sent \in IF inh_api = "SYSTEMD" THEN {TRUE} ELSE Works("release") :
            IF sent
              THEN /\ token' = FALSE /\ inh_api' = "NONE"
                   /\ locks' = locks \ {"SYSTEMD"}
                   /\ pm_inhibited' = FALSE
                   /\ Answered(IF inh_api = "SYSTEMD" THEN {} ELSE {"left"})
              ELSE UNCHANGED ownVars /\ Answered({"unreleased"})
      BY <1>2, Zenon DEF ReleaseLock
    <2>3. "left" \in mishap => "left" \in mishap'
      BY <2>2, AnsweredKeeps
    <2>4. CASE sent
      <3>1. ~token' /\ ~pm_inhibited' /\ inh_api' = "NONE" /\ locks' = locks \ {"SYSTEMD"}
        BY <2>2, <2>4, Zenon
      <3>2. inh_api # "SYSTEMD" => "left" \in mishap'
        BY <2>2, <2>4, AnsweredKeeps
      <3> QED
        BY <2>1, <2>3, <3>1, <3>2 DEF LockKnown, TokenKnown, LocksKnown, Services
    <2>5. CASE ~sent
      BY <2>1, <2>2, <2>3, <2>5 DEF ownVars, LockKnown, TokenKnown, LocksKnown
    <2> QED
      BY <2>4, <2>5
  <1>3. CASE UNCHANGED ownVars /\ Answered({})
    <2>1. ("left" \in mishap => "left" \in mishap') /\ ("lost" \in mishap => "lost" \in mishap')
      BY <1>3, AnsweredKeeps
    <2> QED
      BY <1>3, <2>1 DEF ownVars, LockKnown, TokenKnown, LocksKnown
  <1> QED
    BY <1>1, <1>2, <1>3 DEF OnPmReq

LEMMA LockStep ==
  ASSUME LockTypeOK, LockKnown, [LockNext]_pmVars
  PROVE  LockKnown'
  <1>0. pm_inhibited \in BOOLEAN /\ token \in BOOLEAN
    BY DEF LockTypeOK
  <1>1. CASE ReceivePmReq
    <2>1. Head(lockQ) \in Msg
      BY <1>1, TailType DEF ReceivePmReq, LockTypeOK
    <2>2. Head(lockQ).new \in BOOLEAN
      BY <1>1, <2>1 DEF ReceivePmReq, Msg
    <2>3. CASE Head(lockQ).new # pm_inhibited
      BY <1>0, <1>1, <2>2, <2>3, PmReqLock DEF ReceivePmReq
    <2>4. CASE Head(lockQ).new = pm_inhibited
      <3>1. UNCHANGED ownVars /\ Answered({})
        BY <1>1, <2>4 DEF ReceivePmReq
      <3>2. ("left" \in mishap => "left" \in mishap') /\ ("lost" \in mishap => "lost" \in mishap')
        BY <3>1, AnsweredKeeps
      <3> QED
        BY <3>1, <3>2 DEF ownVars, LockKnown, TokenKnown, LocksKnown
    <2> QED
      BY <2>3, <2>4
  <1>2. CASE LoopStopped
    <2>1. CASE token
      <3>1. pm_inhibited /\ OnPmReq(FALSE)
        BY <1>2, <2>1 DEF LoopStopped, LockKnown, TokenKnown
      <3> QED
        BY <1>0, <3>1, PmReqLock
    <2>2. CASE ~token
      BY <1>2, <2>2 DEF LoopStopped, lockVars, ownVars, LockKnown, TokenKnown, LocksKnown
    <2> QED
      BY <2>1, <2>2
  <1>3. CASE UNCHANGED ownVars /\ ("lost" \in mishap => "lost" \in mishap')
                              /\ ("left" \in mishap => "left" \in mishap')
    BY <1>3 DEF ownVars, LockKnown, TokenKnown, LocksKnown
  <1> QED
    BY <1>1, <1>2, <1>3
    DEF LockNext, InhibitChanges, SetInhibitPM, ReceiveInhibitUpd, pmVars, lockVars, ownVars

(***************************************************************************)
(* state.pm_inhibited tells what the lock services hold, whichever of them *)
(* refuses: what it misses is a descriptor that could not be duplicated,   *)
(* and the lock that PowerManagement never hears released.                 *)
(***************************************************************************)
THEOREM Reported == LockSpec => [](LockKnown /\ ReportedIsHeld)
  <1>1. LockInit => LockKnown
    BY DEF LockInit, LockKnown, TokenKnown, LocksKnown
  <1>2. LockTypeOK /\ LockKnown /\ [LockNext]_pmVars => LockKnown'
    BY LockStep
  <1>3. LockKnown => ReportedIsHeld
    BY DEF LockKnown, TokenKnown, LocksKnown, ReportedIsHeld
  <1> QED
    BY <1>1, <1>2, <1>3, LockTypeCorrect, PTL DEF LockSpec

(***************************************************************************)
(* No lock of logind outlives the loop, whatever fails, and one of         *)
(* PowerManagement only if UnInhibit could not be sent or went by the user *)
(* bus.                                                                    *)
(***************************************************************************)
THEOREM Released == LockSpec => []ReleasedOnStop
  <1>1. LockInit => ReleasedOnStop
    BY DEF LockInit, ReleasedOnStop
  <1>2. LockTypeOK /\ LockKnown /\ LockKnown' /\ ReleasedOnStop /\ [LockNext]_pmVars
          => ReleasedOnStop'
    <2> SUFFICES ASSUME LockTypeOK, LockKnown, LockKnown', ReleasedOnStop, [LockNext]_pmVars
                 PROVE  ReleasedOnStop'
      OBVIOUS
    <2>1. CASE LoopStopped
      <3>1. CASE token
        <4>1. OnPmReq(FALSE)
          BY <2>1, <3>1 DEF LoopStopped
        <4>2. ReleaseLock
          BY <3>1, <4>1, Zenon DEF OnPmReq
        <4>3. CASE ~token'
          BY <4>3 DEF LockKnown, LocksKnown, ReleasedOnStop
        <4>4. CASE token'
          <5>1. inh_api # "SYSTEMD" /\ UNCHANGED ownVars /\ Answered({"unreleased"})
            BY <4>2, <4>4 DEF ReleaseLock
          <5>2. inh_api = "POWERMANAGEMENT" /\ inh_api' = inh_api
            BY <3>1, <5>1 DEF LockKnown, TokenKnown, Services, ownVars
          <5>3. "unreleased" \in mishap'
            BY <5>1, AnsweredKeeps
          <5> QED
            BY <5>2, <5>3 DEF LockKnown, LocksKnown, ReleasedOnStop
        <4> QED
          BY <4>3, <4>4
      <3>2. CASE ~token
        BY <2>1, <3>2 DEF LoopStopped, lockVars, ownVars, LockKnown, LocksKnown, ReleasedOnStop
      <3> QED
        BY <3>1, <3>2
    <2>2. CASE LockNext /\ ~LoopStopped
      BY <2>2 DEF LockNext, InhibitChanges, SetInhibitPM, ReceiveInhibitUpd,
                  ReceivePmReq, ReleasedOnStop
    <2>3. CASE UNCHANGED pmVars
      BY <2>3 DEF pmVars, lockVars, ownVars, ReleasedOnStop
    <2> QED
      BY <2>1, <2>2, <2>3
  <1> QED
    BY <1>1, <1>2, LockTypeCorrect, Reported, PTL DEF LockSpec
-----------------------------------------------------------------------------
(***************************************************************************)
(* What PM still has to read.  With conf.inhibit_pm, a change that is not  *)
(* reported yet has its INHIBIT_UPD in the pipe, or the PM_REQ that PM     *)
(* sent last asks for the state as it is now; older PM_REQs before it may  *)
(* ask for anything.  Without, no PM_REQ is ever sent.  A refusal spoils   *)
(* none of this but what was reached when the pipe is empty.               *)
(***************************************************************************)
LastAsksFor(q, new) == q # <<>> /\ q[Len(q)] = [type |-> "PM_REQ", new |-> new]
UpdInPipe(q) == \E i \in 1 .. Len(q) : q[i].type = "INHIBIT_UPD"

Trouble == {"conf", "lost", "left"}

ToldOrAsked ==
  mishap \cap Trouble = {} /\ ~stopped =>
    /\ inhibit_pm => \/ UpdInPipe(lockQ)
                     \/ LastAsksFor(lockQ, inhibited)
                     \/ lockQ = <<>> /\ (mishap = {} => pm_inhibited = inhibited)
    /\ ~inhibit_pm => locks = {} /\ \A i \in 1 .. Len(lockQ) : lockQ[i].type = "INHIBIT_UPD"

LEMMA AppendLast ==
  ASSUME NEW S, NEW q \in Seq(S), NEW x
  PROVE  /\ Len(Append(q, x)) = Len(q) + 1 /\ Append(q, x)[Len(q) + 1] = x
         /\ Append(q, x) # <<>> /\ Len(q) + 1 \in 1 .. Len(Append(q, x))
         /\ \A i \in 1 .. Len(q) : Append(q, x)[i] = q[i]
  <1>1. /\ Len(q) \in Nat /\ Len(Append(q, x)) = Len(q) + 1 /\ Append(q, x)[Len(q) + 1] = x
        /\ \A i \in 1 .. Len(q) : Append(q, x)[i] = q[i]
    OBVIOUS
  <1>2. Len(Append(q, x)) # 0
    BY <1>1
  <1> QED
    BY <1>1, <1>2

\* Reading a PM_REQ loses no INHIBIT_UPD, nor the last request unless that is the one.
LEMMA TailKeeps ==
  ASSUME NEW q \in Seq(Msg), q # <<>>
  PROVE  /\ \A i \in 1 .. Len(Tail(q)) : i + 1 \in 1 .. Len(q) /\ Tail(q)[i] = q[i + 1]
         /\ UpdInPipe(q) /\ Head(q).type # "INHIBIT_UPD" => UpdInPipe(Tail(q))
         /\ \A new : LastAsksFor(q, new) =>
              LastAsksFor(Tail(q), new)
              \/ (Tail(q) = <<>> /\ Head(q) = [type |-> "PM_REQ", new |-> new])
  <1> DEFINE r == Tail(q)
  <1>1. /\ Len(q) \in Nat \ {0} /\ Len(r) = Len(q) - 1 /\ r \in Seq(Msg) /\ q[1] = Head(q)
        /\ \A i \in 1 .. Len(r) : r[i] = q[i + 1]
    OBVIOUS
  <1> HIDE DEF r
  <1>2. \A i \in 1 .. Len(r) : i + 1 \in 1 .. Len(q) /\ r[i] = q[i + 1]
    BY <1>1
  <1>3. UpdInPipe(q) /\ Head(q).type # "INHIBIT_UPD" => UpdInPipe(r)
    <2> SUFFICES ASSUME Head(q).type # "INHIBIT_UPD",
                        NEW i \in 1 .. Len(q), q[i].type = "INHIBIT_UPD"
                 PROVE  UpdInPipe(r)
      BY DEF UpdInPipe
    <2>1. i # 1
      BY <1>1
    <2>2. i - 1 \in 1 .. Len(r) /\ (i - 1) + 1 = i
      BY <1>1, <2>1
    <2>3. r[i - 1].type = "INHIBIT_UPD"
      BY <1>1, <2>2
    <2> QED
      BY <2>2, <2>3 DEF UpdInPipe
  <1>4. ASSUME NEW new, LastAsksFor(q, new)
        PROVE  LastAsksFor(r, new) \/ (r = <<>> /\ Head(q) = [type |-> "PM_REQ", new |-> new])
    <2>1. CASE Len(q) = 1
      <3>1. r = <<>>
        BY <1>1, <2>1
      <3> QED
        BY <1>1, <1>4, <2>1, <3>1 DEF LastAsksFor
    <2>2. CASE Len(q) # 1
      <3>1. Len(r) \in 1 .. Len(r) /\ Len(r) + 1 = Len(q)
        BY <1>1, <2>2
      <3>2. r # <<>>
        BY <3>1
      <3> QED
        BY <1>1, <1>4, <3>1, <3>2 DEF LastAsksFor
    <2> QED
      BY <2>1, <2>2
  <1> QED
    BY <1>2, <1>3, <1>4 DEF r

\* on_pm_req does what it is asked, or leaves a mishap.
LEMMA PmReqDone ==
  ASSUME LockKnown, pm_inhibited \in BOOLEAN, token \in BOOLEAN, NEW new \in BOOLEAN,
         new # pm_inhibited, OnPmReq(new), mishap' = {}
  PROVE  pm_inhibited' = new
  <1>1. "lost" \notin mishap
    BY AnsweredKeeps DEF OnPmReq, AcquireLock, AcquireSystemd, AcquirePowerManagement,
         AcquireNothing, ReleaseLock
  <1>2. CASE new
    <2>1. ~token /\ ~pm_inhibited
      BY <1>1, <1>2 DEF LockKnown, TokenKnown
    <2>2. AcquireLock
      BY <1>2, <2>1 DEF OnPmReq, ReleaseLock
    <2>3. pm_inhibited' = TRUE
      BY <2>2 DEF AcquireLock, AcquireSystemd, AcquirePowerManagement, AcquireNothing, Answered
    <2> QED
      BY <1>2, <2>3
  <1>3. CASE ~new
    <2>1. token
      BY <1>1, <1>3 DEF LockKnown, TokenKnown
    <2>2. ReleaseLock
      BY <1>3, <2>1 DEF OnPmReq
    <2>3. pm_inhibited' = FALSE
      BY <2>2 DEF ReleaseLock, Answered
    <2> QED
      BY <1>3, <2>3
  <1> QED
    BY <1>2, <1>3

\* What is lost or left is so for good, and a change of inhibit_pm until the next PM_REQ is sent.
LEMMA TroubleStays ==
  ASSUME [LockNext]_pmVars, mishap' \cap Trouble = {}
  PROVE  /\ ~SetInhibitPM
         /\ (ReceiveInhibitUpd /\ inhibit_pm) \/ mishap \cap Trouble = {}
         /\ mishap \cap (Trouble \ {"conf"}) = {}
  <1>1. ~SetInhibitPM
    BY DEF SetInhibitPM, Trouble
  <1>2. CASE UNCHANGED mishap
    BY <1>1, <1>2 DEF Trouble
  <1>3. CASE ReceiveInhibitUpd
    BY <1>1, <1>3 DEF ReceiveInhibitUpd, Trouble
  <1>4. ASSUME NEW ill, Answered(ill)
        PROVE  mishap \cap Trouble = {}
    BY <1>4, AnsweredKeeps DEF Trouble
  <1>5. CASE \E new \in {TRUE, FALSE, Head(lockQ).new} : OnPmReq(new)
    <2>1. mishap \cap Trouble = {}
      BY <1>4, <1>5
      DEF OnPmReq, AcquireLock, AcquireSystemd, AcquirePowerManagement, AcquireNothing, ReleaseLock
    <2> QED
      BY <1>1, <2>1 DEF Trouble
  <1>6. CASE Answered({})
    <2>1. mishap \cap Trouble = {}
      BY <1>4, <1>6
    <2> QED
      BY <1>1, <2>1 DEF Trouble
  <1> QED
    BY <1>1, <1>2, <1>3, <1>5, <1>6
    DEF LockNext, InhibitChanges, ReceivePmReq, LoopStopped, pmVars, lockVars

LEMMA ToldStep ==
  ASSUME LockTypeOK, LockKnown, ToldOrAsked, [LockNext]_pmVars
  PROVE  ToldOrAsked'
  <1> DEFINE Reached == lockQ' = <<>> /\ (mishap' = {} => pm_inhibited' = inhibited')
             NeverAsked == /\ locks' = {}
                           /\ \A i \in 1 .. Len(lockQ') : lockQ'[i].type = "INHIBIT_UPD"
  <1> SUFFICES ASSUME mishap' \cap Trouble = {}, ~stopped'
               PROVE  /\ inhibit_pm' => UpdInPipe(lockQ') \/ LastAsksFor(lockQ', inhibited') \/ Reached
                      /\ ~inhibit_pm' => NeverAsked
    BY DEF ToldOrAsked, UpdInPipe, LastAsksFor
  <1>1. ~SetInhibitPM /\ ((ReceiveInhibitUpd /\ inhibit_pm) \/ mishap \cap Trouble = {})
    BY TroubleStays
  <1>2. lockQ \in Seq(Msg) /\ inhibited \in BOOLEAN /\ inhibit_pm \in BOOLEAN
    BY DEF LockTypeOK
  <1>3. CASE InhibitChanges
    <2>1. lockQ' = Append(lockQ, [type |-> "INHIBIT_UPD"]) /\ ~stopped
          /\ UNCHANGED <<inhibit_pm, locks, mishap>>
      BY <1>3 DEF InhibitChanges, Publish, lockVars, ownVars
    <2>2. UpdInPipe(lockQ')
      BY <1>2, <2>1, AppendLast DEF UpdInPipe
    <2>3. ASSUME ~inhibit_pm PROVE NeverAsked
      <3>1. locks = {} /\ \A i \in 1 .. Len(lockQ) : lockQ[i].type = "INHIBIT_UPD"
        BY <2>1, <2>3 DEF ToldOrAsked
      <3>2. \A i \in 1 .. Len(lockQ') : i \in 1 .. Len(lockQ) \/ i = Len(lockQ) + 1
        BY <1>2, <2>1
      <3> QED
        BY <1>2, <2>1, <3>1, <3>2, AppendLast
    <2> QED
      BY <2>1, <2>2, <2>3
  <1>4. CASE ReceiveInhibitUpd
    <2>1. /\ lockQ # <<>> /\ ~stopped /\ UNCHANGED <<inhibited, inhibit_pm, locks>>
          /\ lockQ' = IF inhibit_pm
                      THEN Append(Tail(lockQ), [type |-> "PM_REQ", new |-> inhibited])
                      ELSE Tail(lockQ)
      BY <1>4 DEF ReceiveInhibitUpd, ownVars
    <2>2. Tail(lockQ) \in Seq(Msg)
      BY <1>2, <2>1, TailType
    <2>3. ASSUME inhibit_pm PROVE LastAsksFor(lockQ', inhibited')
      BY <2>1, <2>2, <2>3, AppendLast DEF LastAsksFor
    <2>4. ASSUME ~inhibit_pm PROVE NeverAsked
      <3>1. locks = {} /\ \A i \in 1 .. Len(lockQ) : lockQ[i].type = "INHIBIT_UPD"
        BY <1>1, <2>1, <2>4 DEF ToldOrAsked
      <3> QED
        BY <1>2, <2>1, <2>4, <3>1, TailKeeps
    <2> QED
      BY <2>1, <2>3, <2>4
  <1>5. CASE ReceivePmReq
    <2>1. /\ lockQ # <<>> /\ Head(lockQ).type = "PM_REQ" /\ ~stopped /\ lockQ' = Tail(lockQ)
          /\ UNCHANGED <<inhibited, inhibit_pm>>
      BY <1>5 DEF ReceivePmReq
    <2>2. Head(lockQ) \in Msg /\ Head(lockQ) = lockQ[1] /\ 1 \in 1 .. Len(lockQ)
      BY <1>2, <2>1, TailType
    <2>3. mishap \cap Trouble = {}
      BY <1>1, <2>1 DEF ReceiveInhibitUpd
    <2>4. inhibit_pm
      BY <2>1, <2>2, <2>3 DEF ToldOrAsked
    <2>5. CASE UpdInPipe(lockQ)
      <3>1. UpdInPipe(lockQ')
        BY <1>2, <2>1, <2>5, TailKeeps
      <3> QED
        BY <2>1, <2>4, <3>1
    <2>6. CASE LastAsksFor(lockQ, inhibited)
      <3>1. \/ LastAsksFor(lockQ', inhibited)
            \/ lockQ' = <<>> /\ Head(lockQ) = [type |-> "PM_REQ", new |-> inhibited]
        BY <1>2, <2>1, <2>6, TailKeeps
      <3>2. ASSUME Head(lockQ) = [type |-> "PM_REQ", new |-> inhibited], mishap' = {}
            PROVE  pm_inhibited' = inhibited
        <4>1. Head(lockQ).new = inhibited
          BY <3>2
        <4>2. CASE inhibited # pm_inhibited
          <5>1. OnPmReq(inhibited)
            BY <1>5, <4>1, <4>2 DEF ReceivePmReq
          <5>2. pm_inhibited \in BOOLEAN /\ token \in BOOLEAN
            BY DEF LockTypeOK
          <5> QED
            BY <1>2, <3>2, <4>2, <5>1, <5>2, PmReqDone
        <4>3. CASE inhibited = pm_inhibited
          BY <1>5, <4>1, <4>3 DEF ReceivePmReq, ownVars
        <4> QED
          BY <4>2, <4>3
      <3> QED
        BY <2>1, <2>4, <3>1, <3>2
    <2> QED
      BY <2>1, <2>3, <2>4, <2>5, <2>6 DEF ToldOrAsked
  <1>6. CASE LoopStopped
    BY <1>6 DEF LoopStopped
  <1>7. CASE UNCHANGED pmVars
    <2>1. UNCHANGED <<inhibited, inhibit_pm, lockQ, pm_inhibited, locks, stopped, mishap>>
      BY <1>7 DEF pmVars
    <2> QED
      BY <2>1 DEF ToldOrAsked
  <1> QED
    BY <1>1, <1>3, <1>4, <1>5, <1>6, <1>7 DEF LockNext

(***************************************************************************)
(* Once its pipe is empty PM holds a lock exactly while the screensaver is *)
(* inhibited and conf.inhibit_pm asks for it, with however many changes in *)
(* flight: at once, or from the next request on after a service refused or *)
(* the configuration changed, until a lock is lost or left behind.         *)
(***************************************************************************)
THEOREM LockFollows == LockSpec => []LockFollowsInhibition
  <1>1. LockInit => ToldOrAsked
    <2> SUFFICES ASSUME LockInit PROVE ToldOrAsked
      OBVIOUS
    <2>1. lockQ = <<>> /\ Len(lockQ) = 0 /\ locks = {} /\ pm_inhibited = FALSE /\ inhibited = FALSE
      BY DEF LockInit
    <2>2. 1 .. 0 = {}
      OBVIOUS
    <2> QED
      BY <2>1, <2>2 DEF ToldOrAsked
  <1>2. LockTypeOK /\ LockKnown /\ ToldOrAsked /\ [LockNext]_pmVars => ToldOrAsked'
    BY ToldStep
  <1>3. LockTypeOK /\ LockKnown /\ ToldOrAsked => LockFollowsInhibition
    <2> SUFFICES ASSUME LockTypeOK, LockKnown, ToldOrAsked, lockQ = <<>>, ~stopped, mishap = {}
                 PROVE  locks # {} <=> inhibited /\ inhibit_pm
      BY DEF LockFollowsInhibition
    <2>1. ~UpdInPipe(lockQ) /\ ~LastAsksFor(lockQ, inhibited)
      BY DEF UpdInPipe, LastAsksFor
    <2>2. (locks # {}) <=> pm_inhibited
      BY DEF LockKnown, TokenKnown, LocksKnown
    <2>3. mishap \cap Trouble = {}
      OBVIOUS
    <2>4. CASE inhibit_pm
      BY <2>1, <2>2, <2>3, <2>4 DEF ToldOrAsked, LockTypeOK
    <2>5. CASE ~inhibit_pm
      BY <2>3, <2>5 DEF ToldOrAsked
    <2> QED
      BY <2>4, <2>5
  <1> QED
    BY <1>1, <1>2, <1>3, LockTypeCorrect, Reported, PTL DEF LockSpec
=============================================================================
