--------------------------- MODULE UPower_proofs ---------------------------
(***************************************************************************)
(* Proofs about inhibition, for any set of applications and any bounds.    *)
(* First ScreenSaver with the INHIBIT module, alone: types, the counted    *)
(* switch, and that what is held stays inhibited.  Then UPOWER composed    *)
(* with them: types, the counted switch, and that cable, lid and dock are  *)
(* mirrored if the hardware waits for UPOWER.                              *)
(***************************************************************************)
EXTENDS UPower, FiniteSetTheorems, FunctionTheorems, SequenceTheorems, TLAPS

LEMMA AppendType ==
  ASSUME NEW S, NEW q \in Seq(S), NEW x \in S
  PROVE  Append(q, x) \in Seq(S)
  OBVIOUS

LEMMA TailType ==
  ASSUME NEW S, NEW q \in Seq(S), q # <<>>
  PROVE  Head(q) \in S /\ Tail(q) \in Seq(S)
  OBVIOUS

\* What a publication does to the pipe keeps the pipe's type.
LEMMA PublishType ==
  ASSUME InhTypeOK, NEW new \in BOOLEAN, NEW force \in BOOLEAN,
         PublishInhibition(new, force)
  PROVE  inhQ' \in Seq(InhibitReq)
  <1>1. [from |-> "INTERFACE", new |-> new, force |-> force] \in InhibitReq
    BY DEF InhibitReq
  <1> QED
    BY <1>1, AppendType DEF InhTypeOK, PublishInhibition

\* drop_inhibit keeps the map, the pipe and the history well typed.
LEMMA DropType ==
  ASSUME TypeOK, NEW key \in Keys, NEW entry, NEW force \in BOOLEAN,
         DropInhibit(key, entry, force)
  PROVE  TypeOK'
  <1> DEFINE refs == IF force THEN 0 ELSE lock_map[entry] - 1
  <1>1. entry \in DOMAIN lock_map /\ refs \in Int
    BY DEF DropInhibit, TypeOK
  <1>2. CASE /\ lock_map' = [lock_map EXCEPT ![entry] = refs]
             /\ UNCHANGED <<inhVars, cleared>>
    BY <1>1, <1>2 DEF TypeOK, InhTypeOK, inhVars
  <1>3. CASE /\ PublishInhibition(FALSE, key = LockClight)
             /\ lock_map' = [k \in DOMAIN lock_map \ {key} |->
                               IF k = entry THEN 0 ELSE lock_map[k]]
             /\ cleared' = IF key = LockClight THEN DOMAIN lock_map' ELSE cleared \ {key}
             /\ UNCHANGED <<inhibited, inhibition_ctr>>
    <2>1. inhQ' \in Seq(InhibitReq)
      BY <1>3, PublishType DEF TypeOK
    <2>2. DOMAIN lock_map' = DOMAIN lock_map \ {key}
      BY <1>3
    <2> QED
      BY <1>3, <2>1, <2>2 DEF TypeOK, InhTypeOK
  <1> QED
    BY <1>2, <1>3 DEF DropInhibit

LEMMA CreateType ==
  ASSUME TypeOK, NEW key \in Keys, CreateInhibit(key)
  PROVE  TypeOK'
  <1>1. CASE AddRef(key)
    BY <1>1 DEF AddRef, TypeOK, InhTypeOK, inhVars
  <1>2. CASE NewLock(key)
    <2>1. inhQ' \in Seq(InhibitReq)
      BY <1>2, PublishType DEF TypeOK, NewLock
    <2>2. DOMAIN lock_map' = DOMAIN lock_map \cup {key}
      BY <1>2 DEF NewLock
    <2> QED
      BY <1>2, <2>1, <2>2 DEF NewLock, TypeOK, InhTypeOK
  <1> QED
    BY <1>1, <1>2 DEF CreateInhibit

LEMMA ReceiveType ==
  ASSUME TypeOK, Receive
  PROVE  TypeOK'
  <1>1. Head(inhQ) \in InhibitReq /\ Tail(inhQ) \in Seq(InhibitReq)
    BY TailType DEF TypeOK, InhTypeOK, Receive, ReceiveInhibitReq
  <1>2. inhibited' \in BOOLEAN
    <2>1. CASE GrabInhibition(Head(inhQ))
      BY <2>1 DEF GrabInhibition
    <2>2. CASE ReleaseInhibition(Head(inhQ))
      <3>1. inhibited' = (inhibited /\ inhibition_ctr' # 0)
        BY <2>2 DEF ReleaseInhibition
      <3> QED
        BY <3>1, Zenon
    <2>3. CASE RefuseRelease(Head(inhQ))
      BY <2>3 DEF RefuseRelease, TypeOK, InhTypeOK
    <2> QED
      BY <2>1, <2>2, <2>3 DEF Receive, ReceiveInhibitReq, OnInhibitReq
  <1>3. inhibition_ctr' \in Int
    BY DEF Receive, ReceiveInhibitReq, OnInhibitReq, GrabInhibition,
           ReleaseInhibition, RefuseRelease, TypeOK, InhTypeOK
  <1> QED
    BY <1>1, <1>2, <1>3 DEF Receive, ReceiveInhibitReq, TypeOK, InhTypeOK, ssVars

LEMMA TypeStep == TypeOK /\ [Next]_vars => TypeOK'
  <1> SUFFICES ASSUME TypeOK, [Next]_vars PROVE TypeOK'
    OBVIOUS
  <1>1. ASSUME NEW a \in Apps, Inhibit(a) PROVE TypeOK'
    BY <1>1, CreateType DEF Inhibit, Keys
  <1>2. ASSUME NEW a \in Apps, Disconnect(a) PROVE TypeOK'
    BY <1>2, DropType DEF Disconnect, Keys
  <1>3. ASSUME NEW a \in Apps, NEW cookie \in Keys, UnInhibit(a, cookie) PROVE TypeOK'
    BY <1>3, DropType DEF UnInhibit, Keys
  <1>4. CASE ClightInhibit
    BY <1>4, CreateType DEF ClightInhibit, Keys
  <1>5. CASE ClightUnInhibit
    BY <1>5, DropType DEF ClightUnInhibit, Keys
  <1>6. CASE Receive
    BY <1>6, ReceiveType
  <1>7. CASE UNCHANGED vars
    BY <1>7 DEF vars, inhVars, ssVars, TypeOK, InhTypeOK
  <1> QED
    BY <1>1, <1>2, <1>3, <1>4, <1>5, <1>6, <1>7 DEF Next

LEMMA TypeInit == Init => TypeOK
  <1> SUFFICES ASSUME Init PROVE TypeOK
    OBVIOUS
  <1>1. inhQ \in Seq(InhibitReq)
    <2>1. <<>> \in Seq(InhibitReq)
      BY EmptySeq
    <2>2. inhQ = <<>>
      BY DEF Init, InhInit
    <2> QED
      BY <2>1, <2>2, Zenon
  <1>2. inhibited \in BOOLEAN
    BY Zenon DEF Init, InhInit
  <1>3. inhibition_ctr \in Int
    BY DEF Init, InhInit
  <1>4. /\ DOMAIN lock_map \subseteq Keys /\ lock_map \in [DOMAIN lock_map -> Int]
        /\ cleared \subseteq Keys
    BY DEF Init
  <1> QED
    BY <1>1, <1>2, <1>3, <1>4 DEF TypeOK, InhTypeOK

\* Every reachable state of the map, the pipe and the counter has its type.
THEOREM TypeCorrect == Spec => []TypeOK
  BY TypeInit, TypeStep, PTL DEF Spec

-----------------------------------------------------------------------------
(***************************************************************************)
(* Only the reception of a request touches the counter and the flag.       *)
(***************************************************************************)
LEMMA CounterChange ==
  ASSUME [Next]_vars
  PROVE  ReceiveInhibitReq \/ UNCHANGED <<inhibited, inhibition_ctr>>
  BY DEF Next, Inhibit, CreateInhibit, AddRef, NewLock, Disconnect, UnInhibit,
         DropInhibit, ClightInhibit, ClightUnInhibit, Receive, vars, inhVars

LEMMA CounterStep == TypeOK /\ CounterMatchesFlag /\ [Next]_vars => CounterMatchesFlag'
  <1> SUFFICES ASSUME TypeOK, CounterMatchesFlag, [Next]_vars PROVE CounterMatchesFlag'
    OBVIOUS
  <1>1. CASE ReceiveInhibitReq
    <2>1. inhibition_ctr \in Int /\ inhibited \in BOOLEAN
      BY DEF TypeOK, InhTypeOK
    <2>2. Head(inhQ) \in InhibitReq
      BY <1>1, TailType DEF TypeOK, InhTypeOK, ReceiveInhibitReq
    <2> QED
      BY <1>1, <2>1, <2>2 DEF ReceiveInhibitReq, OnInhibitReq, GrabInhibition, ReleaseInhibition,
           RefuseRelease, ValidInhibit, InhibitReq, CounterMatchesFlag
  <1>2. CASE UNCHANGED <<inhibited, inhibition_ctr>>
    BY <1>2 DEF CounterMatchesFlag
  <1> QED
    BY <1>1, <1>2, CounterChange

(***************************************************************************)
(* inhibited is TRUE exactly while inhibition_ctr counts a hold, whatever  *)
(* the applications and the user do.                                       *)
(***************************************************************************)
THEOREM CounterCorrect == Spec => []CounterMatchesFlag
  <1>1. Init => CounterMatchesFlag
    BY DEF Init, InhInit, CounterMatchesFlag
  <1> QED
    BY <1>1, CounterStep, TypeCorrect, PTL DEF Spec

\* Each step of ScreenSaver is a Grab, a Release, a Clear or no step of HoldCounter.
LEMMA HoldsStep ==
  ASSUME TypeOK, CounterMatchesFlag, [Next]_vars
  PROVE  [Holds!Next]_<<inhibition_ctr, inhibited>>
  <1> SUFFICES ASSUME ~ UNCHANGED <<inhibition_ctr, inhibited>>
               PROVE  Holds!Next
    OBVIOUS
  <1>1. ReceiveInhibitReq
    BY CounterChange
  <1>2. Head(inhQ) \in InhibitReq
    BY <1>1, TailType DEF TypeOK, InhTypeOK, ReceiveInhibitReq
  <1>3. inhibition_ctr \in Int /\ inhibited \in BOOLEAN
    BY DEF TypeOK, InhTypeOK
  <1>4. CASE GrabInhibition(Head(inhQ))
    BY <1>4 DEF GrabInhibition, Holds!Next, Holds!Grab
  <1>5. CASE ReleaseInhibition(Head(inhQ)) /\ Head(inhQ).force
    BY <1>3, <1>5 DEF ReleaseInhibition, Holds!Next, Holds!Clear
  <1>6. CASE ReleaseInhibition(Head(inhQ)) /\ ~Head(inhQ).force
    <2>1. inhibited /\ inhibition_ctr > 0 /\ inhibition_ctr' = inhibition_ctr - 1
      BY <1>2, <1>3, <1>6
      DEF ReleaseInhibition, ValidInhibit, CounterMatchesFlag, InhibitReq
    <2>2. inhibited' = (inhibition_ctr' > 0)
      BY <1>3, <1>6, <2>1 DEF ReleaseInhibition
    <2> QED
      BY <2>1, <2>2 DEF Holds!Next, Holds!Release
  <1> QED
    BY <1>1, <1>4, <1>5, <1>6 DEF ReceiveInhibitReq, OnInhibitReq, RefuseRelease

(***************************************************************************)
(* INHIBIT implements the counted switch: each step of ScreenSaver is a    *)
(* Grab, a Release, a Clear or no step of HoldCounter.                     *)
(***************************************************************************)
THEOREM ImplementsHolds == Spec => HoldsSpec
  <1>1. Init => Holds!Init
    BY DEF Init, InhInit, Holds!Init
  <1>2. TypeOK /\ CounterMatchesFlag /\ [Next]_vars
          => [Holds!Next]_<<inhibition_ctr, inhibited>>
    BY HoldsStep
  <1> QED
    BY <1>1, <1>2, TypeCorrect, CounterCorrect, PTL DEF Spec, HoldsSpec, Holds!Spec

-----------------------------------------------------------------------------
(***************************************************************************)
(* Conservation of the holds, when applications release their own cookies  *)
(* and the user forces only while none of them holds a lock.  The pipe q   *)
(* leads from a counter c to the number n of entries if some run of counts *)
(* does, none of them negative, that is 0 after every forced release.      *)
(***************************************************************************)
Leads(q, c, n) ==
  \E h \in [1..(Len(q) + 1) -> Nat] :
    /\ h[1] = c
    /\ h[Len(q) + 1] = n
    /\ \A i \in 1..Len(q) : /\ h[i + 1] = IF q[i].new THEN h[i] + 1 ELSE h[i] - 1
                            /\ q[i].force => h[i + 1] = 0

\* A request appended to the pipe leads one count further.
LEMMA LeadsAppend ==
  ASSUME NEW q \in Seq(InhibitReq), NEW x \in InhibitReq, NEW c, NEW n \in Nat, NEW m \in Nat,
         Leads(q, c, n), m = IF x.new THEN n + 1 ELSE n - 1, x.force => m = 0
  PROVE  Leads(Append(q, x), c, m)
  <1>1. PICK h \in [1..(Len(q) + 1) -> Nat] :
               /\ h[1] = c
               /\ h[Len(q) + 1] = n
               /\ \A i \in 1..Len(q) : /\ h[i + 1] = IF q[i].new THEN h[i] + 1 ELSE h[i] - 1
                                       /\ q[i].force => h[i + 1] = 0
    BY DEF Leads
  <1>2. Len(q) \in Nat /\ Len(Append(q, x)) = Len(q) + 1
    OBVIOUS
  <1> DEFINE g == [i \in 1..(Len(q) + 2) |-> IF i <= Len(q) + 1 THEN h[i] ELSE m]
  <1>3. g \in [1..(Len(Append(q, x)) + 1) -> Nat]
    BY <1>1, <1>2
  <1>4. g[1] = c /\ g[Len(Append(q, x)) + 1] = m
    BY <1>1, <1>2
  <1>5. ASSUME NEW i \in 1..Len(Append(q, x))
        PROVE  /\ g[i + 1] = IF Append(q, x)[i].new THEN g[i] + 1 ELSE g[i] - 1
               /\ Append(q, x)[i].force => g[i + 1] = 0
    <2>1. CASE i \in 1..Len(q)
      <3>1. Append(q, x)[i] = q[i]
        BY <2>1
      <3>2. g[i] = h[i] /\ g[i + 1] = h[i + 1]
        BY <1>2, <2>1
      <3> QED
        BY <1>1, <2>1, <3>1, <3>2
    <2>2. CASE i = Len(q) + 1
      <3>1. Append(q, x)[i] = x
        BY <2>2
      <3>2. g[i] = n /\ g[i + 1] = m
        BY <1>1, <1>2, <2>2
      <3> QED
        BY <3>1, <3>2
    <2> QED
      BY <1>2, <2>1, <2>2
  <1> QED
    BY <1>3, <1>4, <1>5 DEF Leads

\* Receiving the head follows the first count; a release finds a hold.
LEMMA LeadsTail ==
  ASSUME NEW q \in Seq(InhibitReq), q # <<>>, NEW c, NEW n, Leads(q, c, n)
  PROVE  /\ ~Head(q).new => c > 0
         /\ Head(q).force => (IF Head(q).new THEN c + 1 ELSE c - 1) = 0
         /\ Leads(Tail(q), IF Head(q).new THEN c + 1 ELSE c - 1, n)
  <1>1. PICK h \in [1..(Len(q) + 1) -> Nat] :
               /\ h[1] = c
               /\ h[Len(q) + 1] = n
               /\ \A i \in 1..Len(q) : /\ h[i + 1] = IF q[i].new THEN h[i] + 1 ELSE h[i] - 1
                                       /\ q[i].force => h[i + 1] = 0
    BY DEF Leads
  <1>2. /\ Len(q) \in Nat /\ Len(q) > 0 /\ Len(Tail(q)) = Len(q) - 1
        /\ Head(q) = q[1]
        /\ \A i \in 1..Len(Tail(q)) : Tail(q)[i] = q[i + 1]
    BY HeadTailProperties, EmptySeq
  <1>3. h[2] = IF Head(q).new THEN c + 1 ELSE c - 1
    BY <1>1, <1>2
  <1>4. h[1] \in Nat /\ h[2] \in Nat
    BY <1>1, <1>2
  <1> DEFINE g == [i \in 1..Len(q) |-> h[i + 1]]
  <1>5. g \in [1..(Len(Tail(q)) + 1) -> Nat]
    BY <1>1, <1>2
  <1>6. g[1] = h[2] /\ g[Len(Tail(q)) + 1] = n
    BY <1>1, <1>2
  <1>7. ASSUME NEW i \in 1..Len(Tail(q))
        PROVE  /\ g[i + 1] = IF Tail(q)[i].new THEN g[i] + 1 ELSE g[i] - 1
               /\ Tail(q)[i].force => g[i + 1] = 0
    <2>1. Tail(q)[i] = q[i + 1] /\ i + 1 \in 1..Len(q)
      BY <1>2
    <2>2. g[i] = h[i + 1] /\ g[i + 1] = h[(i + 1) + 1]
      BY <1>2
    <2> QED
      BY <1>1, <2>1, <2>2
  <1>8. ~Head(q).new => c > 0
    BY <1>1, <1>3, <1>4
  <1>9. Head(q).force => h[2] = 0
    BY <1>1, <1>2
  <1>10. Leads(Tail(q), h[2], n)
    <2> HIDE DEF g
    <2> QED
      BY <1>5, <1>6, <1>7, Zenon DEF Leads
  <1> QED
    BY <1>3, <1>8, <1>9, <1>10

\* The requests of one kind still in the pipe, after a publication ...
LEMMA CountAppend ==
  ASSUME NEW q \in Seq(InhibitReq), NEW x \in InhibitReq
  PROVE  /\ Cardinality(Grabs(q)) \in Nat /\ Cardinality(Releases(q)) \in Nat
         /\ Cardinality(Grabs(Append(q, x))) =
              Cardinality(Grabs(q)) + (IF x.new THEN 1 ELSE 0)
         /\ Cardinality(Releases(Append(q, x))) =
              Cardinality(Releases(q)) + (IF x.new THEN 0 ELSE 1)
  <1>1. /\ Len(q) \in Nat /\ DOMAIN q = 1..Len(q)
        /\ DOMAIN Append(q, x) = 1..(Len(q) + 1)
        /\ Append(q, x)[Len(q) + 1] = x
        /\ \A i \in 1..Len(q) : Append(q, x)[i] = q[i]
    OBVIOUS
  <1>2. IsFiniteSet(Grabs(q)) /\ IsFiniteSet(Releases(q))
    <2>1. Grabs(q) \in SUBSET (1..Len(q)) /\ Releases(q) \in SUBSET (1..Len(q))
      BY <1>1 DEF Grabs, Releases
    <2>2. IsFiniteSet(1..Len(q))
      BY <1>1, FS_Interval
    <2> QED
      BY <2>1, <2>2, FS_Subset
  <1>3. Len(q) + 1 \notin Grabs(q) /\ Len(q) + 1 \notin Releases(q)
    BY <1>1 DEF Grabs, Releases
  <1>4. CASE x.new
    <2>1. Grabs(Append(q, x)) = Grabs(q) \cup {Len(q) + 1}
      BY <1>1, <1>4 DEF Grabs
    <2>2. Releases(Append(q, x)) = Releases(q)
      BY <1>1, <1>4 DEF Releases
    <2> QED
      BY <1>2, <1>3, <1>4, <2>1, <2>2, FS_AddElement, FS_CardinalityType
  <1>5. CASE ~x.new
    <2>1. Grabs(Append(q, x)) = Grabs(q)
      BY <1>1, <1>5 DEF Grabs
    <2>2. Releases(Append(q, x)) = Releases(q) \cup {Len(q) + 1}
      BY <1>1, <1>5 DEF Releases
    <2> QED
      BY <1>2, <1>3, <1>5, <2>1, <2>2, FS_AddElement, FS_CardinalityType
  <1> QED
    BY <1>4, <1>5

\* Two sets of positions that differ by a shift have the same size.
LEMMA ShiftCardinality ==
  ASSUME NEW A, NEW B, IsFiniteSet(B), A \subseteq Nat, B \subseteq Nat \ {0},
         A = {i \in Nat : i + 1 \in B}
  PROVE  IsFiniteSet(A) /\ Cardinality(A) = Cardinality(B)
  <1> DEFINE f == [j \in B |-> j - 1]
  <1>1. f \in [B -> A]
    OBVIOUS
  <1>2. \A j, k \in B : f[j] = f[k] => j = k
    OBVIOUS
  <1>3. \A i \in A : \E j \in B : f[j] = i
    <2> TAKE i \in A
    <2> WITNESS i + 1 \in B
    <2> QED
      OBVIOUS
  <1>4. f \in Bijection(B, A)
    BY <1>1, <1>2, <1>3, Fun_IsBij
  <1>5. ExistsBijection(B, A)
    BY <1>4 DEF ExistsBijection
  <1> QED
    BY <1>5, FS_Bijection

\* ... and after a reception.
LEMMA CountTail ==
  ASSUME NEW q \in Seq(InhibitReq), q # <<>>
  PROVE  /\ Cardinality(Grabs(Tail(q))) =
              Cardinality(Grabs(q)) - (IF Head(q).new THEN 1 ELSE 0)
         /\ Cardinality(Releases(Tail(q))) =
              Cardinality(Releases(q)) - (IF Head(q).new THEN 0 ELSE 1)
  <1>1. /\ Len(q) \in Nat /\ Len(q) > 0 /\ DOMAIN q = 1..Len(q) /\ Head(q) = q[1]
        /\ DOMAIN Tail(q) = 1..(Len(q) - 1)
        /\ \A i \in 1..(Len(q) - 1) : Tail(q)[i] = q[i + 1]
    OBVIOUS
  <1>2. IsFiniteSet(Grabs(q)) /\ IsFiniteSet(Releases(q))
    <2>1. Grabs(q) \in SUBSET (1..Len(q)) /\ Releases(q) \in SUBSET (1..Len(q))
      BY <1>1 DEF Grabs, Releases
    <2>2. IsFiniteSet(1..Len(q))
      BY <1>1, FS_Interval
    <2> QED
      BY <2>1, <2>2, FS_Subset
  <1>3. Cardinality(Grabs(Tail(q))) = Cardinality(Grabs(q) \ {1})
    <2>1. Grabs(Tail(q)) = {i \in Nat : i + 1 \in Grabs(q) \ {1}}
      BY <1>1 DEF Grabs
    <2>2. Grabs(q) \ {1} \subseteq Nat \ {0} /\ Grabs(Tail(q)) \subseteq Nat
      BY <1>1 DEF Grabs
    <2>3. IsFiniteSet(Grabs(q) \ {1})
      BY <1>2, FS_RemoveElement
    <2> QED
      BY <2>1, <2>2, <2>3, ShiftCardinality
  <1>4. Cardinality(Releases(Tail(q))) = Cardinality(Releases(q) \ {1})
    <2>1. Releases(Tail(q)) = {i \in Nat : i + 1 \in Releases(q) \ {1}}
      BY <1>1 DEF Releases
    <2>2. Releases(q) \ {1} \subseteq Nat \ {0} /\ Releases(Tail(q)) \subseteq Nat
      BY <1>1 DEF Releases
    <2>3. IsFiniteSet(Releases(q) \ {1})
      BY <1>2, FS_RemoveElement
    <2> QED
      BY <2>1, <2>2, <2>3, ShiftCardinality
  <1>5. (1 \in Grabs(q) <=> Head(q).new) /\ (1 \in Releases(q) <=> ~Head(q).new)
    BY <1>1 DEF Grabs, Releases
  <1>6. Cardinality(Grabs(q)) \in Nat /\ Cardinality(Releases(q)) \in Nat
    BY <1>2, FS_CardinalityType
  <1>7. /\ Cardinality(Grabs(q) \ {1}) =
             IF 1 \in Grabs(q) THEN Cardinality(Grabs(q)) - 1 ELSE Cardinality(Grabs(q))
        /\ Cardinality(Releases(q) \ {1}) =
             IF 1 \in Releases(q) THEN Cardinality(Releases(q)) - 1
                                  ELSE Cardinality(Releases(q))
    BY <1>2, FS_RemoveElement
  <1> QED
    BY <1>3, <1>4, <1>5, <1>6, <1>7

(***************************************************************************)
(* The inductive invariant.  The entries are a finite set of applications  *)
(* that each hold a reference; no forced release left entries behind; and  *)
(* the pipe leads from the counter to the number of entries through counts *)
(* that are never negative, which is why on_inhibit_req never refuses a    *)
(* release that has to be counted, and that are 0 after a forced release,  *)
(* which is why it clears no hold but its own.                             *)
(***************************************************************************)
OwnInv ==
  /\ TypeOK
  /\ CounterMatchesFlag
  /\ IsFiniteSet(DOMAIN lock_map)
  /\ EntriesHaveRefs
  /\ cleared = {}
  /\ Leads(inhQ, inhibition_ctr, Cardinality(DOMAIN lock_map))
  /\ HoldsConserved

\* create_inhibit keeps the invariant.
LEMMA OwnCreate ==
  ASSUME OwnInv, NEW a \in Keys, CreateInhibit(a), TypeOK', CounterMatchesFlag'
  PROVE  OwnInv'
  <1>0. /\ inhQ \in Seq(InhibitReq) /\ inhibition_ctr \in Int
        /\ lock_map \in [DOMAIN lock_map -> Int]
        /\ Cardinality(DOMAIN lock_map) \in Nat
    BY FS_CardinalityType DEF OwnInv, TypeOK, InhTypeOK
  <1>1. CASE AddRef(a)
    <2>1. DOMAIN lock_map' = DOMAIN lock_map
      BY <1>1 DEF AddRef
    <2>2. EntriesHaveRefs'
      BY <1>0, <1>1 DEF AddRef, OwnInv, EntriesHaveRefs
    <2> QED
      BY <1>1, <2>1, <2>2 DEF AddRef, OwnInv, inhVars, HoldsConserved
  <1>2. CASE NewLock(a)
    <2> DEFINE req == [from |-> "INTERFACE", new |-> TRUE, force |-> FALSE]
    <2>1. req \in InhibitReq /\ inhQ' = Append(inhQ, req) /\ req.new /\ ~req.force
      BY <1>2 DEF NewLock, PublishInhibition, InhibitReq
    <2>2. DOMAIN lock_map' = DOMAIN lock_map \cup {a} /\ a \notin DOMAIN lock_map
      BY <1>2 DEF NewLock
    <2>3. /\ IsFiniteSet(DOMAIN lock_map')
          /\ Cardinality(DOMAIN lock_map') = Cardinality(DOMAIN lock_map) + 1
      BY <2>2, FS_AddElement DEF OwnInv
    <2>4. EntriesHaveRefs'
      BY <1>2, <2>2 DEF NewLock, OwnInv, EntriesHaveRefs
    <2>6. inhibition_ctr' = inhibition_ctr /\ cleared' = {}
      BY <1>2 DEF NewLock, OwnInv
    <2>7. Leads(inhQ, inhibition_ctr, Cardinality(DOMAIN lock_map))
      BY DEF OwnInv
    <2> HIDE DEF req
    <2>8. Leads(inhQ', inhibition_ctr', Cardinality(DOMAIN lock_map'))
      BY <1>0, <2>1, <2>3, <2>6, <2>7, LeadsAppend
    <2>9. HoldsConserved'
      BY <1>0, <2>1, <2>3, <2>6, CountAppend DEF HoldsConserved, OwnInv
    <2> QED
      BY <2>3, <2>4, <2>6, <2>8, <2>9 DEF OwnInv
  <1> QED
    BY <1>1, <1>2 DEF CreateInhibit

\* drop_inhibit keeps it when the entry found is the caller's own.
LEMMA OwnDrop ==
  ASSUME OwnInv, NEW a \in Keys, NEW force \in BOOLEAN, DropInhibit(a, a, force),
         a = LockClight => DOMAIN lock_map = {LockClight},
         TypeOK', CounterMatchesFlag'
  PROVE  OwnInv'
  <1>0. /\ inhQ \in Seq(InhibitReq) /\ inhibition_ctr \in Int
        /\ lock_map \in [DOMAIN lock_map -> Int]
        /\ Cardinality(DOMAIN lock_map) \in Nat
        /\ a \in DOMAIN lock_map /\ lock_map[a] > 0
    BY FS_CardinalityType DEF OwnInv, TypeOK, InhTypeOK, EntriesHaveRefs, DropInhibit
  <1> DEFINE refs == IF force THEN 0 ELSE lock_map[a] - 1
  <1>1. CASE /\ refs # 0
             /\ lock_map' = [lock_map EXCEPT ![a] = refs]
             /\ UNCHANGED <<inhVars, cleared>>
    <2>1. DOMAIN lock_map' = DOMAIN lock_map
      BY <1>1
    <2>2. EntriesHaveRefs'
      BY <1>0, <1>1 DEF OwnInv, EntriesHaveRefs
    <2> QED
      BY <1>1, <2>1, <2>2 DEF OwnInv, inhVars, HoldsConserved
  <1>2. CASE /\ PublishInhibition(FALSE, a = LockClight)
             /\ lock_map' = [k \in DOMAIN lock_map \ {a} |->
                               IF k = a THEN 0 ELSE lock_map[k]]
             /\ cleared' = IF a = LockClight THEN DOMAIN lock_map' ELSE cleared \ {a}
             /\ UNCHANGED <<inhibited, inhibition_ctr>>
    <2> DEFINE req == [from |-> "INTERFACE", new |-> FALSE, force |-> a = LockClight]
    <2>1. req \in InhibitReq /\ inhQ' = Append(inhQ, req) /\ ~req.new /\ (req.force <=> a = LockClight)
      BY <1>2 DEF PublishInhibition, InhibitReq
    <2>0. a = LockClight => DOMAIN lock_map' = {} /\ Cardinality(DOMAIN lock_map') = 0
      BY <1>2, FS_EmptySet
    <2>2. DOMAIN lock_map' = DOMAIN lock_map \ {a}
      BY <1>2
    <2>3. /\ IsFiniteSet(DOMAIN lock_map')
          /\ Cardinality(DOMAIN lock_map') = Cardinality(DOMAIN lock_map) - 1
      BY <1>0, <2>2, FS_RemoveElement DEF OwnInv
    <2>4. Cardinality(DOMAIN lock_map') \in Nat
      BY <2>3, FS_CardinalityType
    <2>5. EntriesHaveRefs'
      BY <1>2, <2>2 DEF OwnInv, EntriesHaveRefs
    <2>7. inhibition_ctr' = inhibition_ctr /\ cleared' = {}
      BY <1>2, <2>0 DEF OwnInv
    <2>8. Leads(inhQ, inhibition_ctr, Cardinality(DOMAIN lock_map))
      BY DEF OwnInv
    <2> HIDE DEF req
    <2>9. Leads(inhQ', inhibition_ctr', Cardinality(DOMAIN lock_map'))
      BY <1>0, <2>0, <2>1, <2>3, <2>4, <2>7, <2>8, LeadsAppend
    <2>10. HoldsConserved'
      <3>1. /\ Cardinality(Grabs(inhQ)) \in Nat /\ Cardinality(Releases(inhQ)) \in Nat
            /\ Cardinality(Grabs(inhQ')) = Cardinality(Grabs(inhQ))
            /\ Cardinality(Releases(inhQ')) = Cardinality(Releases(inhQ)) + 1
        BY <1>0, <2>1, CountAppend
      <3>2. HoldsConserved
        BY DEF OwnInv
      <3> QED
        BY <1>0, <2>3, <2>7, <3>1, <3>2 DEF HoldsConserved
    <2> QED
      BY <2>3, <2>5, <2>7, <2>9, <2>10 DEF OwnInv
  <1> QED
    BY <1>1, <1>2 DEF DropInhibit

\* on_inhibit_req keeps it: the head is counted, grab or release.
LEMMA OwnReceive ==
  ASSUME OwnInv, Receive, TypeOK', CounterMatchesFlag'
  PROVE  OwnInv'
  <1>0. /\ inhQ \in Seq(InhibitReq) /\ inhQ # <<>> /\ inhibition_ctr \in Int
        /\ inhibited \in BOOLEAN
        /\ Head(inhQ) \in InhibitReq /\ inhQ' = Tail(inhQ)
        /\ UNCHANGED <<lock_map, cleared>>
    BY TailType DEF OwnInv, TypeOK, InhTypeOK, Receive, ReceiveInhibitReq, ssVars
  <1>1. Leads(inhQ, inhibition_ctr, Cardinality(DOMAIN lock_map))
    BY DEF OwnInv
  <1>2. ~Head(inhQ).new => inhibited
    BY <1>0, <1>1, LeadsTail DEF OwnInv, CounterMatchesFlag
  <1>3. Head(inhQ).force => (IF Head(inhQ).new THEN inhibition_ctr + 1 ELSE inhibition_ctr - 1) = 0
    BY <1>0, <1>1, LeadsTail
  <1>4. inhibition_ctr' = IF Head(inhQ).new THEN inhibition_ctr + 1 ELSE inhibition_ctr - 1
    BY <1>0, <1>2, <1>3 DEF Receive, ReceiveInhibitReq, OnInhibitReq, GrabInhibition,
       ReleaseInhibition, RefuseRelease, ValidInhibit, InhibitReq
  <1>5. Leads(inhQ', inhibition_ctr', Cardinality(DOMAIN lock_map'))
    BY <1>0, <1>1, <1>4, LeadsTail
  <1>6. Cardinality(Grabs(inhQ)) \in Nat /\ Cardinality(Releases(inhQ)) \in Nat
    BY <1>0, CountAppend
  <1>7. Cardinality(DOMAIN lock_map) \in Nat
    BY FS_CardinalityType DEF OwnInv
  <1>8. HoldsConserved'
    <2>1. /\ Cardinality(Grabs(inhQ')) =
               Cardinality(Grabs(inhQ)) - (IF Head(inhQ).new THEN 1 ELSE 0)
          /\ Cardinality(Releases(inhQ')) =
               Cardinality(Releases(inhQ)) - (IF Head(inhQ).new THEN 0 ELSE 1)
      BY <1>0, CountTail
    <2>2. HoldsConserved
      BY DEF OwnInv
    <2> QED
      BY <1>0, <1>4, <1>6, <1>7, <2>1, <2>2 DEF HoldsConserved
  <1>9. IsFiniteSet(DOMAIN lock_map') /\ EntriesHaveRefs' /\ cleared' = {}
    <2>1. IsFiniteSet(DOMAIN lock_map) /\ EntriesHaveRefs /\ cleared = {}
      BY DEF OwnInv
    <2> QED
      BY <1>0, <2>1 DEF EntriesHaveRefs
  <1> QED
    BY <1>5, <1>8, <1>9 DEF OwnInv

LEMMA OwnStep ==
  ASSUME OwnCookies, UserLock # "any", OwnInv, [Next]_vars
  PROVE  OwnInv'
  <1>0. TypeOK' /\ CounterMatchesFlag'
    BY TypeStep, CounterStep DEF OwnInv
  <1>1. ASSUME NEW a \in Apps, Inhibit(a) PROVE OwnInv'
    BY <1>0, <1>1, OwnCreate DEF Inhibit, Keys
  <1>2. ASSUME NEW a \in Apps, Disconnect(a) PROVE OwnInv'
    BY <1>0, <1>2, OwnDrop, ScreenSaverAssumption DEF Disconnect, Keys
  <1>3. ASSUME NEW a \in Apps, NEW cookie \in Keys, UnInhibit(a, cookie) PROVE OwnInv'
    <2>1. DropInhibit(a, a, FALSE)
      BY <1>3 DEF UnInhibit, EntryOf
    <2> QED
      BY <1>0, <2>1, OwnDrop, ScreenSaverAssumption DEF Keys
  <1>6. CASE ClightInhibit
    BY <1>0, <1>6, OwnCreate DEF ClightInhibit, Keys
  <1>7. CASE ClightUnInhibit
    BY <1>0, <1>7, OwnDrop, ScreenSaverAssumption DEF ClightUnInhibit, Keys
  <1>4. CASE Receive
    BY <1>0, <1>4, OwnReceive
  <1>5. CASE UNCHANGED vars
    BY <1>5 DEF vars, inhVars, ssVars, OwnInv, TypeOK, InhTypeOK, CounterMatchesFlag,
                EntriesHaveRefs, HoldsConserved
  <1> QED
    BY <1>1, <1>2, <1>3, <1>4, <1>5, <1>6, <1>7 DEF Next

LEMMA OwnInit == Init => OwnInv
  <1> SUFFICES ASSUME Init PROVE OwnInv
    OBVIOUS
  <1>1. /\ inhQ = <<>> /\ DOMAIN inhQ = {} /\ Len(inhQ) = 0 /\ inhibition_ctr = 0
        /\ DOMAIN lock_map = {} /\ cleared = {} /\ inhibited = FALSE
    BY DEF Init, InhInit
  <1>2. IsFiniteSet(DOMAIN lock_map) /\ Cardinality(DOMAIN lock_map) = 0
    BY <1>1, FS_EmptySet
  <1>3. Leads(inhQ, inhibition_ctr, Cardinality(DOMAIN lock_map))
    <2> DEFINE h == [i \in 1..1 |-> 0]
    <2>1. h \in [1..(Len(inhQ) + 1) -> Nat] /\ h[1] = 0
      BY <1>1
    <2>2. 1..Len(inhQ) = {}
      BY <1>1
    <2>3. h[Len(inhQ) + 1] = 0
      BY <1>1, <2>1
    <2> HIDE DEF h
    <2> QED
      BY <1>1, <1>2, <2>1, <2>2, <2>3 DEF Leads
  <1>4. HoldsConserved
    <2>1. Grabs(inhQ) = {} /\ Releases(inhQ) = {}
      BY <1>1 DEF Grabs, Releases
    <2> QED
      BY <1>1, <1>2, <2>1 DEF HoldsConserved
  <1>5. TypeOK
    BY TypeInit
  <1> QED
    BY <1>1, <1>2, <1>3, <1>4, <1>5 DEF OwnInv, CounterMatchesFlag, EntriesHaveRefs

(***************************************************************************)
(* With applications that release their own cookies and a user who forces  *)
(* only while alone, every entry of lock_map is counted exactly once, in   *)
(* the counter or on its way there.                                        *)
(***************************************************************************)
THEOREM Conservation ==
  ASSUME OwnCookies, UserLock # "any"
  PROVE  Spec => [](HoldsConserved /\ EntriesHaveRefs)
  <1>1. Init => OwnInv
    BY OwnInit
  <1>2. OwnInv /\ [Next]_vars => OwnInv'
    BY OwnStep
  <1>3. OwnInv => HoldsConserved /\ EntriesHaveRefs
    BY DEF OwnInv
  <1> QED
    BY <1>1, <1>2, <1>3, PTL DEF Spec

(***************************************************************************)
(* Under the same conditions a lock that is held keeps inhibition on, for  *)
(* any number of applications, whenever INHIBIT has caught up.             *)
(***************************************************************************)
THEOREM HeldStaysInhibited ==
  ASSUME OwnCookies, UserLock # "any"
  PROVE  Spec => []HeldIsInhibited
  <1>1. Init => OwnInv
    BY OwnInit
  <1>2. OwnInv /\ [Next]_vars => OwnInv'
    BY OwnStep
  <1>3. OwnInv => HeldIsInhibited
    <2> SUFFICES ASSUME OwnInv, inhQ = <<>>, Held # {} PROVE inhibited
      BY DEF HeldIsInhibited
    <2>1. Len(inhQ) = 0
      OBVIOUS
    <2>2. inhibition_ctr = Cardinality(DOMAIN lock_map)
      BY <2>1 DEF OwnInv, Leads
    <2>3. DOMAIN lock_map # {}
      BY DEF Held
    <2>4. Cardinality(DOMAIN lock_map) \in Nat /\ Cardinality(DOMAIN lock_map) # 0
      BY <2>3, FS_EmptySet, FS_CardinalityType DEF OwnInv
    <2> QED
      BY <2>2, <2>4 DEF OwnInv, CounterMatchesFlag
  <1> QED
    BY <1>1, <1>2, <1>3, PTL DEF Spec

-----------------------------------------------------------------------------
(***************************************************************************)
(* UPOWER, composed with the above.                                        *)
(***************************************************************************)
LEMMA PairType ==
  ASSUME NEW S, NEW x \in S
  PROVE  <<x>> \in Seq(S) /\ <<>> \in Seq(S)
  OBVIOUS

LEMMA ConcatType ==
  ASSUME NEW S, NEW q \in Seq(S), NEW r \in Seq(S)
  PROVE  q \o r \in Seq(S)
  OBVIOUS

\* publish_inh rewrites what UPOWER has in the pipe and appends.
LEMMA PublishInhType ==
  ASSUME InhTypeOK, NEW new \in BOOLEAN, PublishInh(new)
  PROVE  inhQ' \in Seq(InhibitReq)
  <1> DEFINE req == [from |-> "UPOWER", new |-> new, force |-> FALSE]
             q == [i \in DOMAIN inhQ |-> IF inhQ[i].from = "UPOWER" THEN req ELSE inhQ[i]]
  <1>1. req \in InhibitReq
    BY DEF InhibitReq
  <1>2. /\ Len(inhQ) \in Nat /\ DOMAIN inhQ = 1..Len(inhQ)
        /\ \A i \in 1..Len(inhQ) : inhQ[i] \in InhibitReq
    BY DEF InhTypeOK
  <1> HIDE DEF req
  <1>3. q \in Seq(InhibitReq)
    BY <1>1, <1>2
  <1>4. inhQ' = Append(q, req)
    BY DEF PublishInh, req
  <1> QED
    BY <1>1, <1>3, <1>4, AppendType

\* on_upower_change publishes requests of the right types.
LEMMA ChangeType ==
  ASSUME UPowerTypeOK, NEW got \in Reads, OnUPowerChange(got)
  PROVE  /\ TypeOK'
         /\ upower_req' \in {ON_AC, ON_BATTERY} /\ lid_req' \in {OPEN, CLOSED, DOCKED}
         /\ UNCHANGED <<inhibited, inhibition_ctr, lock_map, cleared>>
  <1>1. UNCHANGED <<inhibited, inhibition_ctr, lock_map, cleared>>
    BY DEF OnUPowerChange, ssVars
  <1>2. inhQ' \in Seq(InhibitReq)
    <2>1. CASE LidNews(got) /\ InhibitDocked
      <3>1. PublishInh(DockedNow(got.dock) = 1)
        BY <2>1 DEF OnUPowerChange
      <3>2. (DockedNow(got.dock) = 1) \in BOOLEAN
        OBVIOUS
      <3> QED
        BY <3>1, <3>2, PublishInhType DEF UPowerTypeOK, TypeOK
    <2>2. CASE ~(LidNews(got) /\ InhibitDocked)
      BY <2>2 DEF OnUPowerChange, UPowerTypeOK, TypeOK, InhTypeOK
    <2> QED
      BY <2>1, <2>2
  <1>3. upower_req' \in {ON_AC, ON_BATTERY}
    BY DEF OnUPowerChange, UPowerTypeOK
  <1>4. lid_req' \in {OPEN, CLOSED, DOCKED}
    BY DEF OnUPowerChange, UPowerTypeOK, AsBool, OPEN, CLOSED, DOCKED
  <1>5. TypeOK'
    BY <1>1, <1>2 DEF UPowerTypeOK, TypeOK, InhTypeOK
  <1> QED
    BY <1>1, <1>3, <1>4, <1>5

LEMMA QueueType ==
  ASSUME UPowerTypeOK, NEW got, QueueRequests(got)
  PROVE  upQ' \in Seq({"UPOWER_REQ", "LID_REQ"})
  <1> DEFINE a == IF AcNews(got) THEN <<"UPOWER_REQ">> ELSE <<>>
             l == IF LidNews(got) THEN <<"LID_REQ">> ELSE <<>>
             K == {"UPOWER_REQ", "LID_REQ"}
  <1>1. a \in Seq(K) /\ l \in Seq(K)
    BY PairType
  <1>2. upQ' = (upQ \o a) \o l /\ upQ \in Seq(K)
    BY DEF QueueRequests, UPowerTypeOK
  <1> HIDE DEF a, l, K
  <1>3. upQ' \in Seq(K)
    BY <1>1, <1>2, ConcatType
  <1> QED
    BY <1>3 DEF K

LEMMA UPTypeStep == UPowerTypeOK /\ [UPowerNext]_allVars => UPowerTypeOK'
  <1> SUFFICES ASSUME UPowerTypeOK, [UPowerNext]_allVars PROVE UPowerTypeOK'
    OBVIOUS
  <1> USE DEF hwVars
  <1>0. UNCHANGED vars => TypeOK'
    BY TypeStep DEF UPowerTypeOK
  <1>1. CASE Start
    BY <1>1, ChangeType, QueueType DEF Start, UPowerTypeOK
  <1>2. CASE StartWithoutUPower
    BY <1>0, <1>2 DEF StartWithoutUPower, Fallback, UPowerTypeOK
  <1>3. CASE StartWithoutMatch
    BY <1>3, ChangeType DEF StartWithoutMatch, Fallback, UPowerTypeOK
  <1>4. CASE Signal
    <2>1. signals' \in 0..MaxSignals
      BY <1>4, UPowerAssumption DEF Signal, UPowerTypeOK
    <2> QED
      BY <1>4, <2>1, ChangeType, QueueType DEF Signal, UPowerTypeOK
  <1>5. CASE ReceiveUPowerReq
    <2>1. upQ' \in Seq({"UPOWER_REQ", "LID_REQ"})
      BY <1>5, TailType DEF ReceiveUPowerReq, UPowerTypeOK
    <2> QED
      BY <1>0, <1>5, <2>1 DEF ReceiveUPowerReq, UPowerTypeOK
  <1>6. CASE ReceiveLidReq
    <2>1. upQ' \in Seq({"UPOWER_REQ", "LID_REQ"})
      BY <1>6, TailType DEF ReceiveLidReq, UPowerTypeOK
    <2> QED
      BY <1>0, <1>6, <2>1 DEF ReceiveLidReq, UPowerTypeOK
  <1>7. CASE MoveCableOrLid
    <2>1. ac' \in {ON_AC, ON_BATTERY} /\ lid' \in {OPEN, CLOSED} /\ signals' \in 0..MaxSignals
      BY <1>7, UPowerAssumption
      DEF MoveCableOrLid, UPowerTypeOK, ON_AC, ON_BATTERY, OPEN, CLOSED
    <2> QED
      BY <1>0, <1>7, <2>1 DEF MoveCableOrLid, UPowerTypeOK
  <1>8. CASE MoveDock
    BY <1>0, <1>8 DEF MoveDock, UPowerTypeOK
  <1>9. CASE Next /\ UNCHANGED upVars
    BY <1>9, TypeStep DEF upVars, UPowerTypeOK
  <1>10. CASE UNCHANGED allVars
    BY <1>0, <1>10 DEF allVars, upVars, UPowerTypeOK
  <1> QED
    BY <1>1, <1>2, <1>3, <1>4, <1>5, <1>6, <1>7, <1>8, <1>9, <1>10 DEF UPowerNext

LEMMA UPTypeInit == UPowerInit => UPowerTypeOK
  <1> SUFFICES ASSUME UPowerInit PROVE UPowerTypeOK
    OBVIOUS
  <1>1. upQ \in Seq({"UPOWER_REQ", "LID_REQ"})
    BY PairType DEF UPowerInit
  <1>2. signals \in 0..MaxSignals
    BY UPowerAssumption DEF UPowerInit
  <1> QED
    BY <1>1, <1>2, TypeInit DEF UPowerInit, UPowerTypeOK

\* State, requests and pipes of UPOWER, and those of ScreenSaver beside it, keep their types.
THEOREM UPowerTypeCorrect == UPowerSpec => []UPowerTypeOK
  BY UPTypeInit, UPTypeStep, PTL DEF UPowerSpec

-----------------------------------------------------------------------------
\* Of INHIBIT, UPOWER touches the pipe alone.
LEMMA ScreenSaverOrPipe ==
  ASSUME [UPowerNext]_allVars
  PROVE  [Next]_vars \/ UNCHANGED <<inhibited, inhibition_ctr>>
  BY DEF UPowerNext, Start, StartWithoutUPower, StartWithoutMatch, Signal, ReceiveUPowerReq,
         ReceiveLidReq, MoveCableOrLid, MoveDock, OnUPowerChange, allVars

LEMMA UPCounterStep ==
  ASSUME UPowerTypeOK, CounterMatchesFlag, [UPowerNext]_allVars
  PROVE  CounterMatchesFlag' /\ [Holds!Next]_<<inhibition_ctr, inhibited>>
  <1>1. CASE [Next]_vars
    <2>1. TypeOK
      BY DEF UPowerTypeOK
    <2> QED
      BY <1>1, <2>1, CounterStep, HoldsStep
  <1>2. CASE UNCHANGED <<inhibited, inhibition_ctr>>
    BY <1>2 DEF CounterMatchesFlag
  <1> QED
    BY <1>1, <1>2, ScreenSaverOrPipe

LEMMA UPCounterInit == UPowerInit => CounterMatchesFlag /\ Holds!Init
  BY DEF UPowerInit, Init, InhInit, CounterMatchesFlag, Holds!Init

(***************************************************************************)
(* INHIBIT stays a counted switch when UPOWER drives it beside INTERFACE,  *)
(* whatever the hardware does and whoever rewrites a request in the pipe.  *)
(***************************************************************************)
THEOREM UPowerImplementsHolds == UPowerSpec => HoldsSpec
  <1>1. UPowerTypeOK /\ CounterMatchesFlag /\ [UPowerNext]_allVars
          => CounterMatchesFlag' /\ [Holds!Next]_<<inhibition_ctr, inhibited>>
    BY UPCounterStep
  <1> QED
    BY <1>1, UPCounterInit, UPowerTypeCorrect, PTL DEF UPowerSpec, HoldsSpec, Holds!Spec

-----------------------------------------------------------------------------
(***************************************************************************)
(* Hardware that waits for UPOWER to settle.  A pipe has one signal at     *)
(* most, no request of UPOWER while it has one, and what was asked for     *)
(* last is what was found last.                                            *)
(***************************************************************************)
FromUPower(q) == \E i \in DOMAIN q : q[i].from = "UPOWER"
Asked(q, kind) == \E i \in DOMAIN q : q[i] = kind

Untold == phase = "init" =>
  /\ signals = 0 /\ upQ = <<>> /\ lid_state = UNKNOWN /\ ac_state = UNKNOWN /\ lid_req = OPEN
  /\ ~FromUPower(inhQ)
OneSignal == signals # 0 => signals = 1 /\ upQ = <<>> /\ ~FromUPower(inhQ)
CableFound == phase = "running" /\ signals = 0 =>
  IF Asked(upQ, "UPOWER_REQ") THEN upower_req = ac ELSE ac_state = ac
LidFound == phase = "running" => /\ signals = 0 => lid_req = lid
                                 /\ ~Asked(upQ, "LID_REQ") => lid_state = lid_req
MirrorInv == UPowerTypeOK /\ Untold /\ OneSignal /\ CableFound /\ LidFound /\ lid_req # DOCKED

\* Without a fault every property is read.
LEMMA AllRead ==
  ASSUME "read" \notin Faults, NEW got \in Reads
  PROVE  got.ac = TRUE /\ got.lid = TRUE /\ got.dock = TRUE
  BY DEF Reads, Read

\* What is asked for stays asked for until it is received.
LEMMA AskedTail ==
  ASSUME NEW S, NEW q \in Seq(S), q # <<>>, NEW k, Asked(q, k), Head(q) # k
  PROVE  Asked(Tail(q), k)
  <1>1. /\ Len(q) \in Nat /\ Len(q) > 0 /\ DOMAIN q = 1..Len(q) /\ Head(q) = q[1]
        /\ DOMAIN Tail(q) = 1..(Len(q) - 1)
        /\ \A i \in 1..(Len(q) - 1) : Tail(q)[i] = q[i + 1]
    OBVIOUS
  <1>2. PICK i \in DOMAIN q : q[i] = k
    BY DEF Asked
  <1>3. i - 1 \in DOMAIN Tail(q) /\ Tail(q)[i - 1] = k
    BY <1>1, <1>2
  <1> QED
    BY <1>3 DEF Asked

\* INTERFACE and INHIBIT put nothing of UPOWER's into the pipe.
LEMMA NotFromUPower ==
  ASSUME TypeOK, [Next]_vars, ~FromUPower(inhQ)
  PROVE  ~FromUPower(inhQ')
  <1>1. inhQ \in Seq(InhibitReq)
    BY DEF TypeOK, InhTypeOK
  <1>2. \/ inhQ' = inhQ
        \/ inhQ # <<>> /\ inhQ' = Tail(inhQ)
        \/ \E new, force \in BOOLEAN : PublishInhibition(new, force)
    BY DEF Next, Inhibit, CreateInhibit, AddRef, NewLock, Disconnect, UnInhibit, DropInhibit,
           ClightInhibit, ClightUnInhibit, Receive, ReceiveInhibitReq, vars, inhVars
  <1>3. CASE inhQ' = inhQ
    BY <1>3
  <1>4. CASE inhQ # <<>> /\ inhQ' = Tail(inhQ)
    <2>1. /\ Len(inhQ) \in Nat /\ DOMAIN inhQ = 1..Len(inhQ) /\ Len(inhQ) > 0
          /\ DOMAIN Tail(inhQ) = 1..(Len(inhQ) - 1)
          /\ \A i \in 1..(Len(inhQ) - 1) : Tail(inhQ)[i] = inhQ[i + 1]
      BY <1>1, <1>4
    <2> QED
      BY <1>4, <2>1 DEF FromUPower
  <1>5. CASE \E new, force \in BOOLEAN : PublishInhibition(new, force)
    <2>1. PICK new \in BOOLEAN, force \in BOOLEAN : PublishInhibition(new, force)
      BY <1>5
    <2> DEFINE x == [from |-> "INTERFACE", new |-> new, force |-> force]
    <2>2. inhQ' = Append(inhQ, x) /\ x.from = "INTERFACE"
      BY <2>1 DEF PublishInhibition
    <2> HIDE DEF x
    <2>3. /\ Len(inhQ) \in Nat /\ DOMAIN inhQ = 1..Len(inhQ)
          /\ DOMAIN inhQ' = 1..(Len(inhQ) + 1) /\ inhQ'[Len(inhQ) + 1] = x
          /\ \A i \in 1..Len(inhQ) : inhQ'[i] = inhQ[i]
      BY <1>1, <2>2
    <2> QED
      BY <2>2, <2>3 DEF FromUPower
  <1> QED
    BY <1>2, <1>3, <1>4, <1>5

\* A signal, or the start, finds what there is and asks for what is new.
LEMMA FindsAll ==
  ASSUME MirrorInv, "read" \notin Faults, NEW got \in Reads, OnUPowerChange(got),
         upQ = <<>>, QueueRequests(got),
         lid_state = lid_req \/ lid_state = UNKNOWN
  PROVE  /\ IF Asked(upQ', "UPOWER_REQ") THEN upower_req' = ac ELSE ac_state = ac
         /\ lid_req' = lid
         /\ ~Asked(upQ', "LID_REQ") => lid_state = lid_req'
  <1>1. got.ac /\ got.lid /\ got.dock
    BY AllRead
  <1>2. /\ lid \in {0, 1} /\ dock \in {0, 1} /\ lid_req \in {0, 1}
        /\ lid_state \in {-1, 0, 1}
    BY DEF MirrorInv, UPowerTypeOK, OPEN, CLOSED, DOCKED, UNKNOWN
  <1>3. lid_req' = IF LidNews(got) THEN lid ELSE lid_req
    BY <1>1, <1>2 DEF OnUPowerChange, AsBool, DockedNow, OPEN, CLOSED
  <1>4. ~LidNews(got) => lid_state = lid /\ lid_req = lid
    BY <1>1, <1>2 DEF LidNews, LidChanged, AsBool, OPEN, CLOSED, UNKNOWN
  <1>5. upower_req' = (IF ac_state # ac THEN ac ELSE upower_req) /\ (AcNews(got) <=> ac_state # ac)
    BY <1>1 DEF OnUPowerChange, AcNews
  <1>6. upQ' = (IF AcNews(got) THEN <<"UPOWER_REQ">> ELSE <<>>)
                \o (IF LidNews(got) THEN <<"LID_REQ">> ELSE <<>>)
    BY DEF QueueRequests
  <1>7. (AcNews(got) => Asked(upQ', "UPOWER_REQ")) /\ (~AcNews(got) => ~Asked(upQ', "UPOWER_REQ"))
    <2>1. CASE AcNews(got)
      <3>1. 1 \in DOMAIN upQ' /\ upQ'[1] = "UPOWER_REQ"
        BY <1>6, <2>1
      <3> QED
        BY <2>1, <3>1 DEF Asked
    <2>2. CASE ~AcNews(got)
      <3>1. \A i \in DOMAIN upQ' : upQ'[i] = "LID_REQ"
        BY <1>6, <2>2
      <3> QED
        BY <2>2, <3>1 DEF Asked
    <2> QED
      BY <2>1, <2>2
  <1>8. LidNews(got) => Asked(upQ', "LID_REQ")
    <2> SUFFICES ASSUME LidNews(got) PROVE Asked(upQ', "LID_REQ")
      OBVIOUS
    <2>1. Len(upQ') \in DOMAIN upQ' /\ upQ'[Len(upQ')] = "LID_REQ"
      BY <1>6
    <2> QED
      BY <2>1 DEF Asked
  <1> QED
    BY <1>3, <1>4, <1>5, <1>7, <1>8

LEMMA MirrorStep ==
  ASSUME PatientHardware, "read" \notin Faults, MirrorInv, [UPowerNext]_allVars
  PROVE  MirrorInv'
  <1>0. UPowerTypeOK'
    BY UPTypeStep DEF MirrorInv
  <1>t. /\ upQ \in Seq({"UPOWER_REQ", "LID_REQ"}) /\ signals \in Nat
        /\ ac \in {0, 1} /\ lid \in {0, 1} /\ lid_req \in {0, 1}
    BY UPowerAssumption DEF MirrorInv, UPowerTypeOK, ON_AC, ON_BATTERY, OPEN, CLOSED, DOCKED
  <1> USE DEF hwVars
  <1>e. \A k : ~Asked(<<>>, k)
    BY DEF Asked
  <1>1. CASE Start
    <2>1. PICK got \in Reads : OnUPowerChange(got) /\ QueueRequests(got)
      BY <1>1 DEF Start
    <2>2. signals = 0 /\ upQ = <<>> /\ lid_state = UNKNOWN
      BY <1>1 DEF Start, MirrorInv, Untold
    <2>3. /\ IF Asked(upQ', "UPOWER_REQ") THEN upower_req' = ac ELSE ac_state = ac
          /\ lid_req' = lid
          /\ ~Asked(upQ', "LID_REQ") => lid_state = lid_req'
      BY <2>1, <2>2, FindsAll
    <2> QED
      BY <1>0, <1>1, <1>t, <2>2, <2>3
      DEF Start, MirrorInv, Untold, OneSignal, CableFound, LidFound, DOCKED
  <1>2. CASE StartWithoutUPower
    BY <1>0, <1>2 DEF StartWithoutUPower, Fallback, MirrorInv, Untold, OneSignal, CableFound, LidFound
  <1>3. CASE StartWithoutMatch
    <2>1. PICK got \in Reads : OnUPowerChange(got)
      BY <1>3 DEF StartWithoutMatch
    <2>2. lid_req' # DOCKED
      BY <1>t, <2>1 DEF OnUPowerChange, AsBool, OPEN, CLOSED, DOCKED
    <2> QED
      BY <1>0, <1>3, <2>2
      DEF StartWithoutMatch, Fallback, MirrorInv, Untold, OneSignal, CableFound, LidFound
  <1>4. CASE Signal
    <2>1. PICK got \in Reads : OnUPowerChange(got) /\ QueueRequests(got)
      BY <1>4 DEF Signal
    <2>2. signals' = 0 /\ upQ = <<>>
      BY <1>4, <1>t DEF Signal, MirrorInv, OneSignal
    <2>3. lid_state = lid_req
      BY <1>4, <1>e, <2>2 DEF Signal, MirrorInv, LidFound
    <2>4. /\ IF Asked(upQ', "UPOWER_REQ") THEN upower_req' = ac ELSE ac_state = ac
          /\ lid_req' = lid
          /\ ~Asked(upQ', "LID_REQ") => lid_state = lid_req'
      BY <2>1, <2>2, <2>3, FindsAll
    <2> QED
      BY <1>0, <1>4, <1>t, <2>2, <2>4
      DEF Signal, MirrorInv, Untold, OneSignal, CableFound, LidFound, DOCKED
  <1>5. CASE ReceiveUPowerReq
    <2>1. signals = 0 /\ Asked(upQ, "UPOWER_REQ") /\ phase # "init"
      BY <1>5, <1>t DEF ReceiveUPowerReq, MirrorInv, OneSignal, Untold, Asked
    <2>2. phase = "running" => ac_state' = ac /\ upower_req = ac
      BY <1>5, <2>1 DEF ReceiveUPowerReq, MirrorInv, CableFound
    <2>3. Asked(upQ, "LID_REQ") => Asked(upQ', "LID_REQ")
      BY <1>5, <1>t, AskedTail DEF ReceiveUPowerReq
    <2> QED
      BY <1>0, <1>5, <2>1, <2>2, <2>3
      DEF ReceiveUPowerReq, MirrorInv, Untold, OneSignal, CableFound, LidFound
  <1>6. CASE ReceiveLidReq
    <2>1. signals = 0 /\ phase # "init"
      BY <1>6, <1>t DEF ReceiveLidReq, MirrorInv, OneSignal, Untold
    <2>2. Asked(upQ, "UPOWER_REQ") => Asked(upQ', "UPOWER_REQ")
      BY <1>6, <1>t, AskedTail DEF ReceiveLidReq
    <2>3. Asked(upQ', "UPOWER_REQ") => Asked(upQ, "UPOWER_REQ")
      <3>1. /\ Len(upQ) \in Nat /\ DOMAIN upQ = 1..Len(upQ) /\ Len(upQ) > 0
            /\ DOMAIN Tail(upQ) = 1..(Len(upQ) - 1)
            /\ \A i \in 1..(Len(upQ) - 1) : Tail(upQ)[i] = upQ[i + 1]
        BY <1>6, <1>t DEF ReceiveLidReq
      <3> QED
        BY <1>6, <3>1 DEF ReceiveLidReq, Asked
    <2> QED
      BY <1>0, <1>6, <2>1, <2>2, <2>3
      DEF ReceiveLidReq, MirrorInv, Untold, OneSignal, CableFound, LidFound
  <1>7. CASE MoveCableOrLid
    <2>1. signals = 0 /\ upQ = <<>> /\ inhQ = <<>> /\ phase # "init"
      BY <1>7 DEF MoveCableOrLid, Settled
    <2>2. ~FromUPower(inhQ)
      BY <2>1 DEF FromUPower
    <2>3. UNCHANGED <<upQ, inhQ, phase, lid_state, lid_req, ac_state>>
      BY <1>7 DEF MoveCableOrLid, vars, inhVars
    <2>4. phase = "running" => signals' = 1
      BY <1>7, <2>1 DEF MoveCableOrLid
    <2>5. phase # "running" => signals' = 0
      BY <1>7, <2>1 DEF MoveCableOrLid
    <2> QED
      BY <1>0, <2>1, <2>2, <2>3, <2>4, <2>5
      DEF MirrorInv, Untold, OneSignal, CableFound, LidFound
  <1>8. CASE MoveDock
    BY <1>0, <1>8 DEF MoveDock, vars, inhVars, MirrorInv, Untold, OneSignal, CableFound, LidFound
  <1>9. CASE Next /\ UNCHANGED upVars
    <2>1. ~FromUPower(inhQ) => ~FromUPower(inhQ')
      BY <1>9, NotFromUPower DEF MirrorInv, UPowerTypeOK
    <2> QED
      BY <1>0, <1>9, <2>1 DEF upVars, MirrorInv, Untold, OneSignal, CableFound, LidFound
  <1>10. CASE UNCHANGED allVars
    BY <1>0, <1>10
    DEF allVars, upVars, vars, inhVars, MirrorInv, Untold, OneSignal, CableFound, LidFound
  <1> QED
    BY <1>1, <1>2, <1>3, <1>4, <1>5, <1>6, <1>7, <1>8, <1>9, <1>10 DEF UPowerNext

LEMMA MirrorInit == UPowerInit => MirrorInv
  <1> SUFFICES ASSUME UPowerInit PROVE MirrorInv
    OBVIOUS
  <1>1. inhQ = <<>> /\ ~FromUPower(inhQ)
    BY DEF UPowerInit, Init, InhInit, FromUPower
  <1> QED
    BY <1>1, UPTypeInit
    DEF UPowerInit, MirrorInv, Untold, OneSignal, CableFound, LidFound, OPEN, DOCKED

(***************************************************************************)
(* If cable and lid wait until UPOWER has stored the change before, and    *)
(* can be read, state mirrors them when all is settled.                    *)
(***************************************************************************)
THEOREM HardwareIsMirrored ==
  ASSUME PatientHardware, "read" \notin Faults
  PROVE  UPowerSpec => []HardwareMirrored
  <1>1. MirrorInv => HardwareMirrored
    <2> SUFFICES ASSUME MirrorInv, Settled, phase = "running"
                 PROVE  /\ ac_state = ac
                        /\ lid_state # UNKNOWN /\ AsBool(lid_state) = lid
      BY DEF HardwareMirrored
    <2>1. \A k : ~Asked(upQ, k)
      BY DEF Settled, Asked
    <2>2. ac_state = ac /\ lid_state = lid
      BY <2>1 DEF MirrorInv, Settled, CableFound, LidFound
    <2> QED
      BY <2>2 DEF MirrorInv, UPowerTypeOK, AsBool, OPEN, CLOSED, UNKNOWN
  <1>2. MirrorInv /\ [UPowerNext]_allVars => MirrorInv'
    BY MirrorStep
  <1> QED
    BY <1>1, <1>2, MirrorInit, PTL DEF UPowerSpec

-----------------------------------------------------------------------------
(***************************************************************************)
(* How far the requests in the pipe can lead the counter: After one of     *)
(* them, and through the pipe q from c to n at most.  A release is refused *)
(* at 0, so foreign cookies and forced releases may lead below the number  *)
(* of those who asked, but nothing leads above.                            *)
(***************************************************************************)
After(c, up) == IF up.new THEN c + 1 ELSE IF up.force \/ c = 0 THEN 0 ELSE c - 1
AtMost(q, c, n) ==
  \E h \in [1..(Len(q) + 1) -> Nat] :
    /\ h[1] = c
    /\ h[Len(q) + 1] <= n
    /\ \A i \in 1..Len(q) : h[i + 1] = After(h[i], q[i])

LEMMA AfterType ==
  ASSUME NEW c \in Nat, NEW up \in InhibitReq
  PROVE  After(c, up) \in Nat
  BY DEF After, InhibitReq

\* A grab leads one further, a release one less far or to 0.
LEMMA AtMostAppend ==
  ASSUME NEW q \in Seq(InhibitReq), NEW x \in InhibitReq, NEW c, NEW n \in Nat, NEW m \in Nat,
         AtMost(q, c, n), IF x.new THEN m >= n + 1 ELSE m >= n - 1
  PROVE  AtMost(Append(q, x), c, m)
  <1>1. PICK h \in [1..(Len(q) + 1) -> Nat] :
               /\ h[1] = c
               /\ h[Len(q) + 1] <= n
               /\ \A i \in 1..Len(q) : h[i + 1] = After(h[i], q[i])
    BY DEF AtMost
  <1>2. Len(q) \in Nat /\ Len(Append(q, x)) = Len(q) + 1
    OBVIOUS
  <1> DEFINE last == After(h[Len(q) + 1], x)
  <1>3. h[Len(q) + 1] \in Nat
    BY <1>1, <1>2
  <1>4. last \in Nat
    BY <1>3, AfterType
  <1>5. last <= m
    BY <1>1, <1>3 DEF After
  <1> HIDE DEF last
  <1> DEFINE g == [i \in 1..(Len(q) + 2) |-> IF i <= Len(q) + 1 THEN h[i] ELSE last]
  <1>6. g \in [1..(Len(Append(q, x)) + 1) -> Nat]
    BY <1>1, <1>2, <1>4
  <1>7. g[1] = c /\ g[Len(Append(q, x)) + 1] <= m
    BY <1>1, <1>2, <1>5
  <1>8. ASSUME NEW i \in 1..Len(Append(q, x))
        PROVE  g[i + 1] = After(g[i], Append(q, x)[i])
    <2>1. CASE i \in 1..Len(q)
      <3>1. Append(q, x)[i] = q[i]
        BY <2>1
      <3>2. g[i] = h[i] /\ g[i + 1] = h[i + 1]
        BY <1>2, <2>1
      <3> QED
        BY <1>1, <2>1, <3>1, <3>2
    <2>2. CASE i = Len(q) + 1
      <3>1. Append(q, x)[i] = x
        BY <2>2
      <3>2. g[i] = h[Len(q) + 1] /\ g[i + 1] = last
        BY <1>2, <2>2
      <3> QED
        BY <3>1, <3>2 DEF last
    <2> QED
      BY <1>2, <2>1, <2>2
  <1> HIDE DEF g
  <1> QED
    BY <1>6, <1>7, <1>8 DEF AtMost

LEMMA AtMostTail ==
  ASSUME NEW q \in Seq(InhibitReq), q # <<>>, NEW c, NEW n, AtMost(q, c, n)
  PROVE  AtMost(Tail(q), After(c, Head(q)), n)
  <1>1. PICK h \in [1..(Len(q) + 1) -> Nat] :
               /\ h[1] = c
               /\ h[Len(q) + 1] <= n
               /\ \A i \in 1..Len(q) : h[i + 1] = After(h[i], q[i])
    BY DEF AtMost
  <1>2. /\ Len(q) \in Nat /\ Len(q) > 0 /\ Len(Tail(q)) = Len(q) - 1
        /\ Head(q) = q[1]
        /\ \A i \in 1..Len(Tail(q)) : Tail(q)[i] = q[i + 1]
    BY HeadTailProperties, EmptySeq
  <1> DEFINE g == [i \in 1..Len(q) |-> h[i + 1]]
  <1>3. g \in [1..(Len(Tail(q)) + 1) -> Nat]
    BY <1>1, <1>2
  <1>4. g[1] = After(c, Head(q)) /\ g[Len(Tail(q)) + 1] <= n
    BY <1>1, <1>2
  <1>5. ASSUME NEW i \in 1..Len(Tail(q))
        PROVE  g[i + 1] = After(g[i], Tail(q)[i])
    <2>1. Tail(q)[i] = q[i + 1] /\ i + 1 \in 1..Len(q)
      BY <1>2
    <2>2. g[i] = h[i + 1] /\ g[i + 1] = h[(i + 1) + 1]
      BY <1>2
    <2> QED
      BY <1>1, <2>1, <2>2
  <1> HIDE DEF g
  <1> QED
    BY <1>3, <1>4, <1>5 DEF AtMost

LEMMA AtMostMore ==
  ASSUME NEW q \in Seq(InhibitReq), NEW c, NEW n \in Nat, NEW m \in Nat, AtMost(q, c, n), n <= m
  PROVE  AtMost(q, c, m)
  <1>1. PICK h \in [1..(Len(q) + 1) -> Nat] :
               /\ h[1] = c
               /\ h[Len(q) + 1] <= n
               /\ \A i \in 1..Len(q) : h[i + 1] = After(h[i], q[i])
    BY DEF AtMost
  <1>2. h[Len(q) + 1] <= m
    <2>1. Len(q) \in Nat
      OBVIOUS
    <2>2. h[Len(q) + 1] \in Nat
      BY <1>1, <2>1
    <2> QED
      BY <1>1, <2>2
  <1> QED
    BY <1>1, <1>2 DEF AtMost

\* What the entries and the dock ask for, at most.
Docks == IF InhibitDocked THEN lid_req ELSE 0
Asks == Cardinality(DOMAIN lock_map) + Docks

(***************************************************************************)
(* The inductive invariant: the counter and the pipe lead to no more than  *)
(* one hold for each entry and one for the closed lid that was found last. *)
(***************************************************************************)
DockInv == /\ MirrorInv
           /\ CounterMatchesFlag
           /\ IsFiniteSet(DOMAIN lock_map)
           /\ phase # "gone" => AtMost(inhQ, inhibition_ctr, Asks)

LEMMA AsksType ==
  ASSUME MirrorInv, IsFiniteSet(DOMAIN lock_map)
  PROVE  /\ Cardinality(DOMAIN lock_map) \in Nat /\ lid_req \in {0, 1} /\ Docks \in {0, 1}
         /\ Asks \in Nat
  BY FS_CardinalityType DEF MirrorInv, UPowerTypeOK, Docks, Asks, OPEN, CLOSED, DOCKED

\* Each step of ScreenSaver keeps it: an entry more asks for a hold, one less gives one back.
LEMMA DockScreenSaver ==
  ASSUME DockInv, [Next]_vars, lid_req' = lid_req, phase # "gone"
  PROVE  IsFiniteSet(DOMAIN lock_map') /\ AtMost(inhQ', inhibition_ctr', Asks')
  <1>0. /\ inhQ \in Seq(InhibitReq) /\ inhibition_ctr \in Nat /\ inhibited \in BOOLEAN
        /\ IsFiniteSet(DOMAIN lock_map)
    BY DEF DockInv, MirrorInv, UPowerTypeOK, TypeOK, InhTypeOK, CounterMatchesFlag
  <1>1. /\ Cardinality(DOMAIN lock_map) \in Nat /\ Docks \in {0, 1} /\ Asks \in Nat
        /\ Docks' = Docks /\ AtMost(inhQ, inhibition_ctr, Asks)
    BY AsksType DEF DockInv, Docks
  <1>2. \/ Receive
        \/ UNCHANGED <<inhQ, inhibition_ctr>> /\ DOMAIN lock_map' = DOMAIN lock_map
        \/ \E key : /\ PublishInhibition(TRUE, FALSE) /\ key \notin DOMAIN lock_map
                    /\ DOMAIN lock_map' = DOMAIN lock_map \cup {key}
                    /\ inhibition_ctr' = inhibition_ctr
        \/ \E key : /\ PublishInhibition(FALSE, key = LockClight)
                    /\ DOMAIN lock_map' = DOMAIN lock_map \ {key}
                    /\ inhibition_ctr' = inhibition_ctr
    <2>1. ASSUME NEW key, CreateInhibit(key)
          PROVE  \/ UNCHANGED <<inhQ, inhibition_ctr>> /\ DOMAIN lock_map' = DOMAIN lock_map
                 \/ /\ PublishInhibition(TRUE, FALSE) /\ key \notin DOMAIN lock_map
                    /\ DOMAIN lock_map' = DOMAIN lock_map \cup {key}
                    /\ inhibition_ctr' = inhibition_ctr
      <3>1. CASE AddRef(key)
        BY <3>1 DEF AddRef, inhVars
      <3>2. CASE NewLock(key)
        BY <3>2 DEF NewLock
      <3> QED
        BY <2>1, <3>1, <3>2 DEF CreateInhibit
    <2>2. ASSUME NEW key, NEW entry, NEW force, DropInhibit(key, entry, force)
          PROVE  \/ UNCHANGED <<inhQ, inhibition_ctr>> /\ DOMAIN lock_map' = DOMAIN lock_map
                 \/ /\ PublishInhibition(FALSE, key = LockClight)
                    /\ DOMAIN lock_map' = DOMAIN lock_map \ {key}
                    /\ inhibition_ctr' = inhibition_ctr
      BY <2>2 DEF DropInhibit, inhVars
    <2>3. CASE UNCHANGED vars
      BY <2>3 DEF vars, inhVars, ssVars
    <2>4. CASE Next
      BY <2>1, <2>2, <2>4 DEF Next, Inhibit, Disconnect, UnInhibit, ClightInhibit, ClightUnInhibit
    <2> QED
      BY <2>3, <2>4
  <1>3. CASE Receive
    <2>1. inhQ # <<>> /\ inhQ' = Tail(inhQ) /\ lock_map' = lock_map /\ Head(inhQ) \in InhibitReq
      BY <1>0, <1>3, TailType DEF Receive, ReceiveInhibitReq, ssVars
    <2>2. inhibition_ctr' = After(inhibition_ctr, Head(inhQ))
      BY <1>0, <1>3, <2>1
      DEF Receive, ReceiveInhibitReq, OnInhibitReq, GrabInhibition, ReleaseInhibition,
          RefuseRelease, ValidInhibit, InhibitReq, After, DockInv, CounterMatchesFlag
    <2>3. AtMost(inhQ', inhibition_ctr', Asks)
      BY <1>0, <1>1, <2>1, <2>2, AtMostTail
    <2>4. Asks' = Asks
      BY <1>1, <2>1 DEF Asks
    <2> QED
      BY <1>0, <2>1, <2>3, <2>4
  <1>4. CASE UNCHANGED <<inhQ, inhibition_ctr>> /\ DOMAIN lock_map' = DOMAIN lock_map
    BY <1>0, <1>1, <1>4 DEF Asks
  <1>5. ASSUME NEW key, PublishInhibition(TRUE, FALSE), key \notin DOMAIN lock_map,
               DOMAIN lock_map' = DOMAIN lock_map \cup {key}, inhibition_ctr' = inhibition_ctr
        PROVE  IsFiniteSet(DOMAIN lock_map') /\ AtMost(inhQ', inhibition_ctr', Asks')
    <2> DEFINE x == [from |-> "INTERFACE", new |-> TRUE, force |-> FALSE]
    <2>1. x \in InhibitReq /\ x.new /\ inhQ' = Append(inhQ, x)
      BY <1>5 DEF PublishInhibition, InhibitReq
    <2>2. IsFiniteSet(DOMAIN lock_map') /\ Asks' = Asks + 1
      <3>1. /\ IsFiniteSet(DOMAIN lock_map \cup {key})
            /\ Cardinality(DOMAIN lock_map \cup {key}) = Cardinality(DOMAIN lock_map) + 1
        BY <1>0, <1>5, FS_AddElement
      <3> QED
        BY <1>1, <1>5, <3>1 DEF Asks
    <2> HIDE DEF x
    <2>3. AtMost(Append(inhQ, x), inhibition_ctr, Asks + 1)
      BY <1>0, <1>1, <2>1, AtMostAppend
    <2> QED
      BY <1>5, <2>1, <2>2, <2>3
  <1>6. ASSUME NEW key, PublishInhibition(FALSE, key = LockClight),
               DOMAIN lock_map' = DOMAIN lock_map \ {key}, inhibition_ctr' = inhibition_ctr
        PROVE  IsFiniteSet(DOMAIN lock_map') /\ AtMost(inhQ', inhibition_ctr', Asks')
    <2> DEFINE x == [from |-> "INTERFACE", new |-> FALSE, force |-> key = LockClight]
    <2>1. x \in InhibitReq /\ ~x.new /\ inhQ' = Append(inhQ, x)
      BY <1>6 DEF PublishInhibition, InhibitReq
    <2>2. /\ IsFiniteSet(DOMAIN lock_map')
          /\ Cardinality(DOMAIN lock_map') \in Nat
          /\ Cardinality(DOMAIN lock_map') >= Cardinality(DOMAIN lock_map) - 1
      <3>1. /\ IsFiniteSet(DOMAIN lock_map \ {key})
            /\ \/ Cardinality(DOMAIN lock_map \ {key}) = Cardinality(DOMAIN lock_map) - 1
               \/ Cardinality(DOMAIN lock_map \ {key}) = Cardinality(DOMAIN lock_map)
        BY <1>0, FS_RemoveElement
      <3>2. Cardinality(DOMAIN lock_map \ {key}) \in Nat
        BY <3>1, FS_CardinalityType
      <3> QED
        BY <1>1, <1>6, <3>1, <3>2
    <2>3. Asks' \in Nat /\ Asks' >= Asks - 1
      BY <1>1, <2>2 DEF Asks
    <2> HIDE DEF x
    <2>4. AtMost(Append(inhQ, x), inhibition_ctr, Asks')
      BY <1>0, <1>1, <2>1, <2>3, AtMostAppend
    <2> QED
      BY <1>6, <2>1, <2>2, <2>4
  <1> QED
    BY <1>2, <1>3, <1>4, <1>5, <1>6

\* The map has finitely many entries, as each came alone.
LEMMA FiniteEntries ==
  ASSUME [Next]_vars, IsFiniteSet(DOMAIN lock_map)
  PROVE  IsFiniteSet(DOMAIN lock_map')
  <1>1. \/ DOMAIN lock_map' = DOMAIN lock_map
        \/ \E key : DOMAIN lock_map' = DOMAIN lock_map \cup {key}
        \/ \E key : DOMAIN lock_map' = DOMAIN lock_map \ {key}
    BY DEF Next, Inhibit, CreateInhibit, AddRef, NewLock, Disconnect, UnInhibit, DropInhibit,
           ClightInhibit, ClightUnInhibit, Receive, vars, ssVars
  <1>2. ASSUME NEW key
        PROVE  IsFiniteSet(DOMAIN lock_map \cup {key}) /\ IsFiniteSet(DOMAIN lock_map \ {key})
    BY FS_AddElement, FS_RemoveElement
  <1> QED
    BY <1>1, <1>2

\* News of the lid alternates, so a dock asks once and gives back what it asked for.
LEMMA DockChange ==
  ASSUME DockInv, "read" \notin Faults, phase # "gone", NEW got \in Reads, OnUPowerChange(got),
         lid_state = lid_req \/ (lid_state = UNKNOWN /\ lid_req = OPEN), ~FromUPower(inhQ)
  PROVE  IsFiniteSet(DOMAIN lock_map') /\ AtMost(inhQ', inhibition_ctr', Asks')
  <1>1. got.ac /\ got.lid /\ got.dock
    BY AllRead
  <1>2. /\ inhQ \in Seq(InhibitReq) /\ UNCHANGED <<inhibition_ctr, lock_map>>
        /\ lid \in {0, 1} /\ dock \in {0, 1} /\ lid_req \in {0, 1}
        /\ Cardinality(DOMAIN lock_map) \in Nat /\ Asks \in Nat /\ Docks \in {0, 1}
        /\ AtMost(inhQ, inhibition_ctr, Asks) /\ IsFiniteSet(DOMAIN lock_map)
    BY AsksType DEF OnUPowerChange, ssVars, DockInv, MirrorInv, UPowerTypeOK, TypeOK, InhTypeOK,
                    OPEN, CLOSED, DOCKED
  <1>3. CASE ~LidNews(got)
    BY <1>2, <1>3 DEF OnUPowerChange, Asks, Docks
  <1>4. CASE LidNews(got) /\ ~InhibitDocked
    BY <1>2, <1>4 DEF OnUPowerChange, Asks, Docks
  <1>5. CASE LidNews(got) /\ InhibitDocked
    <2> DEFINE x == [from |-> "UPOWER", new |-> DockedNow(got.dock) = 1, force |-> FALSE]
    <2>1. x \in InhibitReq /\ x.new = (DockedNow(got.dock) = 1)
      BY DEF InhibitReq
    <2>2. inhQ' = Append(inhQ, x)
      <3>1. PublishInh(DockedNow(got.dock) = 1)
        BY <1>5 DEF OnUPowerChange
      <3>2. [i \in DOMAIN inhQ |-> IF inhQ[i].from = "UPOWER" THEN x ELSE inhQ[i]] = inhQ
        BY <1>2 DEF FromUPower
      <3> QED
        BY <3>1, <3>2 DEF PublishInh
    <2>3. lid_req' = lid
      BY <1>1, <1>2, <1>5 DEF OnUPowerChange, AsBool, DockedNow, OPEN, CLOSED
    <2>4. lid = 1 => lid_req = 0
      BY <1>1, <1>2, <1>5 DEF LidNews, LidChanged, AsBool, OPEN, CLOSED, UNKNOWN
    <2>5. x.new => lid = 1
      BY <1>2, <2>1 DEF DockedNow, CLOSED
    <2>6. Asks = Cardinality(DOMAIN lock_map) + lid_req /\ Asks' = Cardinality(DOMAIN lock_map) + lid
      BY <1>2, <1>5, <2>3 DEF Asks, Docks
    <2>7. IF x.new THEN Asks' >= Asks + 1 ELSE Asks' >= Asks - 1
      BY <1>2, <2>4, <2>5, <2>6
    <2>8. Asks' \in Nat
      BY <1>2, <2>6
    <2> HIDE DEF x
    <2>9. AtMost(Append(inhQ, x), inhibition_ctr, Asks')
      BY <1>2, <2>1, <2>7, <2>8, AtMostAppend
    <2> QED
      BY <1>2, <2>2, <2>9
  <1> QED
    BY <1>3, <1>4, <1>5

LEMMA DockStep ==
  ASSUME PatientHardware, "read" \notin Faults, DockInv, [UPowerNext]_allVars
  PROVE  DockInv'
  <1>1. MirrorInv' /\ CounterMatchesFlag'
    BY MirrorStep, UPCounterStep DEF DockInv, MirrorInv
  <1> USE DEF hwVars
  <1>2. CASE Start
    <2>1. PICK got \in Reads : OnUPowerChange(got)
      BY <1>2 DEF Start
    <2> QED
      BY <1>1, <1>2, <2>1, DockChange DEF Start, DockInv, MirrorInv, Untold
  <1>3. CASE Signal
    <2>1. PICK got \in Reads : OnUPowerChange(got)
      BY <1>3 DEF Signal
    <2>2. signals # 0 /\ phase = "running"
      BY <1>3 DEF Signal
    <2>3. ~FromUPower(inhQ) /\ lid_state = lid_req
      BY <2>2 DEF DockInv, MirrorInv, OneSignal, LidFound, Asked
    <2> QED
      BY <1>1, <2>1, <2>2, <2>3, DockChange DEF DockInv
  <1>4. CASE StartWithoutUPower
    BY <1>1, <1>4 DEF StartWithoutUPower, Fallback, DockInv, vars, ssVars
  <1>5. CASE StartWithoutMatch
    BY <1>1, <1>5 DEF StartWithoutMatch, Fallback, OnUPowerChange, DockInv, ssVars
  <1>6. CASE [Next]_vars /\ UNCHANGED <<lid_req, phase>>
    <2>1. phase # "gone" => DockInv'
      BY <1>1, <1>6, DockScreenSaver DEF DockInv
    <2>2. IsFiniteSet(DOMAIN lock_map')
      BY <1>6, FiniteEntries DEF DockInv
    <2> QED
      BY <1>1, <1>6, <2>1, <2>2 DEF DockInv
  <1>7. \/ Start \/ Signal \/ StartWithoutUPower \/ StartWithoutMatch
        \/ [Next]_vars /\ UNCHANGED <<lid_req, phase>>
    BY DEF UPowerNext, ReceiveUPowerReq, ReceiveLidReq, MoveCableOrLid, MoveDock, allVars, upVars
  <1> QED
    BY <1>2, <1>3, <1>4, <1>5, <1>6, <1>7

LEMMA DockInit == UPowerInit => DockInv
  <1> SUFFICES ASSUME UPowerInit PROVE DockInv
    OBVIOUS
  <1>1. inhQ = <<>> /\ Len(inhQ) = 0 /\ inhibition_ctr = 0 /\ DOMAIN lock_map = {} /\ lid_req = 0
    BY DEF UPowerInit, Init, InhInit, OPEN
  <1>2. IsFiniteSet(DOMAIN lock_map) /\ Asks = 0
    BY <1>1, FS_EmptySet DEF Asks, Docks
  <1>3. AtMost(inhQ, inhibition_ctr, Asks)
    <2> DEFINE h == [i \in 1..1 |-> 0]
    <2>1. h \in [1..(Len(inhQ) + 1) -> Nat] /\ h[1] = 0 /\ h[Len(inhQ) + 1] = 0
      BY <1>1
    <2>2. 1..Len(inhQ) = {}
      BY <1>1
    <2> HIDE DEF h
    <2> QED
      BY <1>1, <1>2, <2>1, <2>2 DEF AtMost
  <1> QED
    BY <1>2, <1>3, MirrorInit, UPCounterInit DEF DockInv

(***************************************************************************)
(* Nor does a dock's inhibition outlive the closed lid, whatever cookies   *)
(* applications release and whatever the user forces meanwhile.            *)
(***************************************************************************)
THEOREM DockNeedsClosedLid ==
  ASSUME PatientHardware, "read" \notin Faults
  PROVE  UPowerSpec => []DockedNeedsLid
  <1>1. DockInv => DockedNeedsLid
    <2> SUFFICES ASSUME DockInv, Settled, phase = "running", DOMAIN lock_map = {}, inhibited
                 PROVE  lid = CLOSED
      BY DEF DockedNeedsLid
    <2>1. lid_req = lid /\ inhQ = <<>> /\ Len(inhQ) = 0
      BY DEF DockInv, MirrorInv, Settled, LidFound
    <2>2. Cardinality(DOMAIN lock_map) = 0
      BY FS_EmptySet
    <2>3. inhibition_ctr \in Nat /\ inhibition_ctr > 0
      BY DEF DockInv, MirrorInv, UPowerTypeOK, TypeOK, InhTypeOK, CounterMatchesFlag
    <2>4. inhibition_ctr <= Asks
      BY <2>1 DEF DockInv, AtMost
    <2> QED
      BY <2>1, <2>2, <2>3, <2>4 DEF Asks, Docks, DockInv, MirrorInv, UPowerTypeOK, OPEN, CLOSED
  <1>2. DockInv /\ [UPowerNext]_allVars => DockInv'
    BY DockStep
  <1> QED
    BY <1>1, <1>2, DockInit, PTL DEF UPowerSpec
=============================================================================
