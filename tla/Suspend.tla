------------------------------ MODULE Suspend ------------------------------
(***************************************************************************)
(* The suspend half of the PM module.  Several sources ask for a suspended *)
(* state and take the request back; PM counts them, keeps state.suspended  *)
(* and tells the other modules with SUSPEND_UPD, a resume only after       *)
(* conf.resumedelay.  The subscriber stands for any one of the modules     *)
(* that pause on SUSPEND: each has a pipe of its own, and each reads       *)
(* state.suspended, not the message, when it gets there.                   *)
(***************************************************************************)
EXTENDS Integers, Sequences

CONSTANTS
  Sources,         \* who asks: a subset of AllSources
  Plugin,          \* TRUE: a custom module may resume by force
  MaxPending,      \* bound on the messages in one pipe
  MaxHolds         \* bound on the suspends counted or on their way

AllSources == {"logind", "session", "signal", "pause"}

\* SIGNAL and INTERFACE each publish one static SUSPEND_REQ, whatever they published
\* before; PM allocates, for logind and a session that change by turns.
StaticSources == {"signal", "pause"}

ASSUME SuspendAssumption ==
  /\ Sources \subseteq AllSources
  /\ Plugin \in BOOLEAN
  /\ MaxPending \in Nat \ {0} /\ MaxHolds \in Nat \ {0}

VARIABLES
  asks,         \* the sources that want the system suspended, by their last word
  pmQ,          \* the PM pipe: SUSPEND_REQs not yet received
  suspended,    \* state.suspended
  suspend_ctr,  \* the static counter of on_suspend_req
  resume_delay, \* conf.resumedelay > 0
  delayed,      \* delayed_resume_fd is armed and registered
  subQ,         \* SUSPEND_UPDs on their way to the subscriber: their "new"
  paused,       \* the subscriber has the SUSPEND pause reason
  misuse        \* history: what is counted although no source changed, see Misuses

vars == <<asks, pmQ, suspended, suspend_ctr, resume_delay, delayed, subQ, paused, misuse>>

SuspendReq == [from: AllSources \cup {"plugin"}, new: BOOLEAN, force: BOOLEAN]

TypeOK == /\ asks \subseteq Sources
          /\ pmQ \in Seq(SuspendReq)
          /\ suspended \in BOOLEAN
          /\ suspend_ctr \in Nat
          /\ resume_delay \in BOOLEAN /\ delayed \in BOOLEAN
          /\ subQ \in Seq(BOOLEAN)
          /\ paused \in BOOLEAN /\ misuse \subseteq {"repeat", "stray"}

Init == /\ asks = {} /\ pmQ = <<>>
        /\ suspended = FALSE /\ suspend_ctr = 0 /\ delayed = FALSE
        /\ resume_delay \in BOOLEAN
        /\ subQ = <<>> /\ paused = FALSE /\ misuse = {}

-----------------------------------------------------------------------------
\* A request goes down the pipe; a static one changes its copies in flight.
PublishSuspReq(req) ==
  LET inFlight(q) == [i \in DOMAIN q |->
        IF q[i].from = req.from /\ req.from \in StaticSources THEN req ELSE q[i]]
  IN  /\ Len(pmQ) < MaxPending
      /\ pmQ' = Append(inFlight(pmQ), req)

Unread(s, new) == \E i \in DOMAIN pmQ : pmQ[i].from = s /\ pmQ[i].new = new

(***************************************************************************)
(* A suspend is repeated if its source asks for one already, or if it      *)
(* turns a resume that is still unread into a second suspend; a resume is  *)
(* stray if its source asks for nothing, or if it turns an unread suspend  *)
(* into a second resume.  PM counts them all the same.                     *)
(***************************************************************************)
Misuses(s, new) ==
  {m \in {"repeat", "stray"} :
     /\ (m = "repeat") = new
     /\ (s \in asks) = new \/ (s \in StaticSources /\ Unread(s, ~new))}

(***************************************************************************)
(* PrepareForSleep, the session becoming inactive, SIGTSTP or Pause(true), *)
(* and their opposites.                                                    *)
(***************************************************************************)
Ask(s, new) ==
  /\ s \in StaticSources \/ (s \in asks) # new
  /\ new => suspend_ctr + Len(pmQ) < MaxHolds
  /\ asks' = IF new THEN asks \cup {s} ELSE asks \ {s}
  /\ misuse' = misuse \cup Misuses(s, new)
  /\ PublishSuspReq([from |-> s, new |-> new, force |-> FALSE])
  /\ UNCHANGED <<suspended, suspend_ctr, resume_delay, delayed, subQ, paused>>

\* A custom module publishes the forced resume that public.h offers.
ForceResume ==
  /\ Plugin
  /\ misuse' = misuse \cup {"stray"}
  /\ PublishSuspReq([from |-> "plugin", new |-> FALSE, force |-> TRUE])
  /\ UNCHANGED <<asks, suspended, suspend_ctr, resume_delay, delayed, subQ, paused>>

\* The ResumeDelay property of org.clight.clight.Conf is written.
SetResumeDelay ==
  /\ resume_delay' = ~resume_delay
  /\ UNCHANGED <<asks, pmQ, suspended, suspend_ctr, delayed, subQ, paused, misuse>>

-----------------------------------------------------------------------------
PublishSuspendUpd(new) == Len(subQ) < MaxPending /\ subQ' = Append(subQ, new)

\* Mutant: only the suspend that is announced is counted.
GrabValidOnly(up) ==
  /\ up.new
  /\ suspended' = TRUE
  /\ suspend_ctr' = IF suspended THEN suspend_ctr ELSE suspend_ctr + 1
  /\ IF suspended THEN UNCHANGED subQ ELSE PublishSuspendUpd(TRUE)
  /\ UNCHANGED delayed

\* A suspend counts always; the first one is announced at once.
GrabSuspend(up) ==
  /\ up.new
  /\ suspended' = TRUE
  /\ suspend_ctr' = suspend_ctr + 1
  /\ IF suspended THEN UNCHANGED subQ ELSE PublishSuspendUpd(TRUE)
  /\ UNCHANGED delayed

\* Mutant: a resume counts even if nothing is suspended.
KeepUnvalidated(up) ==
  /\ ~up.new
  /\ ~up.force /\ suspend_ctr # 1
  /\ suspend_ctr' = suspend_ctr - 1
  /\ UNCHANGED <<suspended, delayed, subQ>>

\* A resume that is not the last only counts.
KeepSuspended(up) ==
  /\ ~up.new /\ suspended
  /\ ~up.force /\ suspend_ctr # 1
  /\ suspend_ctr' = suspend_ctr - 1
  /\ UNCHANGED <<suspended, delayed, subQ>>

\* Mutant: a forced resume drops one hold only.
ResumeDropsOne(up) ==
  /\ ~up.new /\ suspended
  /\ up.force \/ suspend_ctr = 1
  /\ suspend_ctr' = suspend_ctr - 1
  /\ suspended' = FALSE
  /\ IF resume_delay
       THEN delayed' = TRUE /\ UNCHANGED subQ
       ELSE PublishSuspendUpd(FALSE) /\ UNCHANGED delayed

\* The last resume, or a forced one, is stored now and announced later.
Resume(up) ==
  /\ ~up.new /\ suspended
  /\ up.force \/ suspend_ctr = 1
  /\ suspend_ctr' = 0
  /\ suspended' = FALSE
  /\ IF resume_delay
       THEN delayed' = TRUE /\ UNCHANGED subQ
       ELSE PublishSuspendUpd(FALSE) /\ UNCHANGED delayed

\* validate_suspend refuses a resume when nothing is suspended.
RefuseResume(up) ==
  /\ ~up.new /\ ~suspended
  /\ UNCHANGED <<suspended, suspend_ctr, delayed, subQ>>

OnSuspendReq(up) == GrabSuspend(up) \/ KeepSuspended(up) \/ Resume(up) \/ RefuseResume(up)

ReceiveSuspendReq ==
  /\ pmQ # <<>>
  /\ OnSuspendReq(Head(pmQ))
  /\ pmQ' = Tail(pmQ)
  /\ UNCHANGED <<asks, resume_delay, paused, misuse>>

\* Mutant: the timer is read, its message forgotten.
DelayExpiredSilently ==
  /\ delayed
  /\ delayed' = FALSE
  /\ UNCHANGED <<asks, pmQ, suspended, suspend_ctr, resume_delay, subQ, paused, misuse>>

\* delayed_resume_fd expires: the message registered with it goes out.
DelayExpired ==
  /\ delayed
  /\ delayed' = FALSE
  /\ PublishSuspendUpd(FALSE)
  /\ UNCHANGED <<asks, pmQ, suspended, suspend_ctr, resume_delay, paused, misuse>>

\* Mutant: the subscriber believes the message.
ReceiveWhatItSays ==
  /\ subQ # <<>>
  /\ paused' = Head(subQ)
  /\ subQ' = Tail(subQ)
  /\ UNCHANGED <<asks, pmQ, suspended, suspend_ctr, resume_delay, delayed, misuse>>

\* pause_mod, pause_dimmer...: (un)pause for the state, not for the message.
ReceiveSuspendUpd ==
  /\ subQ # <<>>
  /\ paused' = suspended
  /\ subQ' = Tail(subQ)
  /\ UNCHANGED <<asks, pmQ, suspended, suspend_ctr, resume_delay, delayed, misuse>>

Next == \/ \E s \in Sources, new \in BOOLEAN : Ask(s, new)
        \/ ForceResume \/ SetResumeDelay
        \/ ReceiveSuspendReq
        \/ DelayExpired
        \/ ReceiveSuspendUpd

Spec == Init /\ [][Next]_vars

\* The event loop dispatches what is ready; a timer that is armed expires.
Fairness == /\ WF_vars(ReceiveSuspendReq)
            /\ WF_vars(DelayExpired)
            /\ WF_vars(ReceiveSuspendUpd)

FairSpec == Spec /\ Fairness

-----------------------------------------------------------------------------
(***************************************************************************)
(* state.suspended and the counter never disagree (on_suspend_req counts a *)
(* suspend even when it does not validate, and a resume only when it does).*)
(***************************************************************************)
CounterMatchesFlag == suspended <=> suspend_ctr > 0

(***************************************************************************)
(* Once PM has caught up, the system counts as suspended exactly while     *)
(* some source still asks for it: sources overlap without resuming, or     *)
(* holding, one another.  Suspends that were repeated can only hold the    *)
(* system longer, stray and forced resumes can only resume it earlier.     *)
(***************************************************************************)
SuspendedWhileAsked ==
  pmQ = <<>> => /\ "stray" \notin misuse => (asks # {} => suspended)
                /\ "repeat" \notin misuse => (suspended => asks # {})

(***************************************************************************)
(* Once its announcements have arrived and no resume is being delayed, the *)
(* subscriber is paused exactly while the system is suspended, whatever    *)
(* announcements were overtaken by later ones (the delayed resume may be   *)
(* published after the next suspend).                                      *)
(***************************************************************************)
SubscriberFollows == subQ = <<>> /\ ~delayed => paused = suspended

(***************************************************************************)
(* A resumed system does not leave the subscriber paused for ever.         *)
(***************************************************************************)
EventuallyResumed == ~suspended ~> (~paused \/ suspended)

\* Counting suspends implements the counted switch.
Holds == INSTANCE HoldCounter WITH n <- suspend_ctr, on <- suspended
HoldsSpec == Holds!Spec
=============================================================================
