------------------------------ MODULE Inhibit ------------------------------
(***************************************************************************)
(* The INHIBIT module: the screensaver-inhibition flag state.inhibited and *)
(* the counter of inhibitions behind it, driven by INHIBIT_REQ messages    *)
(* that arrive through the module's own pipe.                              *)
(***************************************************************************)
EXTENDS Integers, Sequences

CONSTANT MaxPending     \* bound on the INHIBIT_REQs in the pipe

VARIABLES
  inhibited,            \* state.inhibited
  inhibition_ctr,       \* the static counter of on_inhibit_req
  inhQ                  \* the INHIBIT pipe: requests published, not received

inhVars == <<inhibited, inhibition_ctr, inhQ>>

ASSUME MaxPendingAssumption == MaxPending \in Nat \ {0}

(***************************************************************************)
(* A request as its receiver will see it.  Messages of INTERFACE are heap  *)
(* copies; UPOWER publishes one static struct over and over.               *)
(***************************************************************************)
InhibitReq == [from: {"INTERFACE", "UPOWER"}, new: BOOLEAN, force: BOOLEAN]

InhTypeOK == /\ inhibited \in BOOLEAN
             /\ inhibition_ctr \in Int
             /\ inhQ \in Seq(InhibitReq)

InhInit == inhibited = FALSE /\ inhibition_ctr = 0 /\ inhQ = <<>>

\* publish_inhibition: a private copy of the message goes down the pipe.
PublishInhibition(new, force) ==
  /\ Len(inhQ) < MaxPending
  /\ inhQ' = Append(inhQ, [from |-> "INTERFACE", new |-> new, force |-> force])

\* publish_inh: the pipe carries a pointer, so what is in flight changes too.
PublishInh(new) ==
  /\ Len(inhQ) < MaxPending
  /\ LET req == [from |-> "UPOWER", new |-> new, force |-> FALSE]
         inFlight(q) == [i \in DOMAIN q |-> IF q[i].from = "UPOWER" THEN req ELSE q[i]]
     IN  inhQ' = Append(inFlight(inhQ), req)

\* validate_inhibit: a request has to change the flag.
ValidInhibit(up) == inhibited # up.new

\* Mutant: only a grab that changes the flag is counted.
GrabValidOnly(up) ==
  /\ up.new
  /\ inhibited' = TRUE
  /\ inhibition_ctr' = IF ValidInhibit(up) THEN inhibition_ctr + 1 ELSE inhibition_ctr

\* A grab is counted whether or not it validates; only the first sets the flag.
GrabInhibition(up) ==
  /\ up.new
  /\ inhibited' = TRUE
  /\ inhibition_ctr' = inhibition_ctr + 1

\* Mutant: the counter is tested before it is decremented.
ReleaseTestsFirst(up) ==
  /\ ~up.new
  /\ ValidInhibit(up)
  /\ inhibition_ctr' = IF up.force THEN 0 ELSE inhibition_ctr - 1
  /\ inhibited' = (inhibited /\ inhibition_ctr # 0)

\* A validated release drops one hold, or all; the last one clears the flag.
ReleaseInhibition(up) ==
  /\ ~up.new
  /\ ValidInhibit(up)
  /\ inhibition_ctr' = IF up.force THEN 0 ELSE inhibition_ctr - 1
  /\ inhibited' = (inhibited /\ inhibition_ctr' # 0)

\* A release that finds nothing inhibited is refused.
RefuseRelease(up) ==
  /\ ~up.new
  /\ ~ValidInhibit(up)
  /\ UNCHANGED <<inhibited, inhibition_ctr>>

OnInhibitReq(up) == GrabInhibition(up) \/ ReleaseInhibition(up) \/ RefuseRelease(up)

\* The event loop hands the oldest request of the pipe to INHIBIT's receive.
ReceiveInhibitReq ==
  /\ inhQ # <<>>
  /\ OnInhibitReq(Head(inhQ))
  /\ inhQ' = Tail(inhQ)

\* The abstract counted switch this module implements.
Holds == INSTANCE HoldCounter WITH n <- inhibition_ctr, on <- inhibited

(***************************************************************************)
(* The counter and the flag never disagree: inhibition is on exactly while *)
(* holds are counted, and the counter never drops below zero, whatever mix *)
(* of grabs, refused releases and forced releases on_inhibit_req receives. *)
(***************************************************************************)
CounterMatchesFlag ==
  inhibition_ctr >= 0 /\ (inhibited <=> inhibition_ctr > 0)
=============================================================================
