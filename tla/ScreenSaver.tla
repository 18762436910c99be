---------------------------- MODULE ScreenSaver ----------------------------
(***************************************************************************)
(* org.freedesktop.ScreenSaver as INTERFACE serves it, composed with the   *)
(* INHIBIT module: applications take and release locks over D-Bus, the map *)
(* lock_map counts the references of each bus name, and only the first     *)
(* reference and the last release of an entry become INHIBIT_REQs.         *)
(*                                                                         *)
(* An application is its unique bus name; one that disconnects and comes   *)
(* back stands for a fresh name, whose entry starts from nothing as well.  *)
(* A cookie is named by the key of the entry it was given out for.         *)
(***************************************************************************)
EXTENDS Inhibit, FiniteSets

CONSTANTS
  Apps,        \* bus names that call org.freedesktop.ScreenSaver
  LockClight,  \* CLIGHT_INH_KEY, the key of org.clight.clight.Inhibit
  MaxRefs,     \* bound on the references of one entry, either side of 0
  OwnCookies,  \* TRUE: applications release only the cookies they were given
  UserLock     \* how the user calls org.clight.clight.Inhibit: never ("none"), to release
               \* only while no application has a lock ("alone"), or at will ("any")

ASSUME ScreenSaverAssumption ==
  /\ LockClight \notin Apps
  /\ MaxRefs \in Nat \ {0}
  /\ OwnCookies \in BOOLEAN
  /\ UserLock \in {"none", "alone", "any"}

VARIABLES
  lock_map,    \* refs of each key that has an entry
  cleared      \* history: keys whose hold a forced release has wiped since

ssVars == <<lock_map, cleared>>
vars == <<inhVars, ssVars>>

Keys == Apps \cup {LockClight}

TypeOK ==
  /\ InhTypeOK
  /\ DOMAIN lock_map \subseteq Keys
  /\ lock_map \in [DOMAIN lock_map -> Int]
  /\ cleared \subseteq Keys

Init == /\ InhInit
        /\ lock_map = [k \in {} |-> 0]
        /\ cleared = {}

-----------------------------------------------------------------------------
\* Mutant: every Inhibit asks for a hold, not only the first of a caller.
AddRefPublishes(key) ==
  /\ key \in DOMAIN lock_map
  /\ lock_map[key] < MaxRefs
  /\ lock_map' = [lock_map EXCEPT ![key] = @ + 1]
  /\ PublishInhibition(TRUE, FALSE)
  /\ UNCHANGED <<inhibited, inhibition_ctr, cleared>>

\* create_inhibit on a key that has an entry: one more reference, no message.
AddRef(key) ==
  /\ key \in DOMAIN lock_map
  /\ lock_map[key] < MaxRefs
  /\ lock_map' = [lock_map EXCEPT ![key] = @ + 1]
  /\ UNCHANGED <<inhVars, cleared>>

\* Mutant: the map keeps the caller's string, which goes with its message.
NewLockDangling(key) ==
  /\ key \notin DOMAIN lock_map
  /\ PublishInhibition(TRUE, FALSE)
  /\ lock_map' = [k \in DOMAIN lock_map \cup {"freed"} |->
                    IF k = "freed" THEN 1 ELSE lock_map[k]]
  /\ UNCHANGED <<inhibited, inhibition_ctr, cleared>>

\* create_inhibit on a new key: the entry is added and a hold requested.
NewLock(key) ==
  /\ key \notin DOMAIN lock_map
  /\ PublishInhibition(TRUE, FALSE)
  /\ lock_map' = [k \in DOMAIN lock_map \cup {key} |-> IF k = key THEN 1 ELSE lock_map[k]]
  /\ UNCHANGED <<inhibited, inhibition_ctr, cleared>>

CreateInhibit(key) == AddRef(key) \/ NewLock(key)

(***************************************************************************)
(* drop_inhibit for caller "key", once "entry" has been found for it.  At  *)
(* zero references the release is published and the CALLER's key leaves    *)
(* the map, which is the entry's only when the caller owns it.             *)
(***************************************************************************)
DropInhibit(key, entry, force) ==
  LET refs == IF force THEN 0 ELSE lock_map[entry] - 1 IN
  /\ entry \in DOMAIN lock_map
  /\ \/ /\ refs # 0
        /\ refs >= -MaxRefs
        /\ lock_map' = [lock_map EXCEPT ![entry] = refs]
        /\ UNCHANGED <<inhVars, cleared>>
     \/ /\ refs = 0
        /\ PublishInhibition(FALSE, key = LockClight)
        /\ lock_map' = [k \in DOMAIN lock_map \ {key} |->
                          IF k = entry THEN 0 ELSE lock_map[k]]
        /\ cleared' = IF key = LockClight THEN DOMAIN lock_map' ELSE cleared \ {key}
        /\ UNCHANGED <<inhibited, inhibition_ctr>>

\* The caller's own entry, else the one the cookie belongs to.
EntryOf(key, cookie) == IF key \in DOMAIN lock_map THEN key ELSE cookie

-----------------------------------------------------------------------------
\* org.freedesktop.ScreenSaver.Inhibit, and the same call seen on the monitor.
Inhibit(a) == CreateInhibit(a)

\* org.freedesktop.ScreenSaver.UnInhibit; the monitor passes no cookie.
UnInhibit(a, cookie) ==
  /\ OwnCookies => cookie = a
  /\ DropInhibit(a, EntryOf(a, cookie), FALSE)

\* Mutant: the entry of a name that is gone leaves without a release.
DisconnectSilently(a) ==
  /\ a \in DOMAIN lock_map
  /\ lock_map' = [k \in DOMAIN lock_map \ {a} |-> lock_map[k]]
  /\ UNCHANGED <<inhVars, cleared>>

\* NameOwnerChanged: the bus reports that the owner of a lock is gone.
Disconnect(a) == DropInhibit(a, a, TRUE)

\* org.clight.clight.Inhibit, TRUE and FALSE.
ClightInhibit == UserLock # "none" /\ CreateInhibit(LockClight)
ClightUnInhibit ==
  /\ UserLock # "none" /\ (UserLock = "alone" => DOMAIN lock_map = {LockClight})
  /\ DropInhibit(LockClight, LockClight, TRUE)

Receive == ReceiveInhibitReq /\ UNCHANGED ssVars

Next == \/ \E a \in Apps : Inhibit(a) \/ Disconnect(a)
        \/ \E a \in Apps, cookie \in Keys : UnInhibit(a, cookie)
        \/ ClightInhibit
        \/ ClightUnInhibit
        \/ Receive

Spec == Init /\ [][Next]_vars

\* The event loop keeps dispatching; applications need not do anything.
FairSpec == Spec /\ WF_vars(Receive)

-----------------------------------------------------------------------------
\* A lock is in force if it has references that no forced release has wiped.
Held == {k \in DOMAIN lock_map : lock_map[k] > 0 /\ k \notin cleared}

(***************************************************************************)
(* Once INHIBIT has caught up, a lock in force keeps inhibition on: no     *)
(* other application's calls, and no order or number of Inhibit, UnInhibit *)
(* and disconnections, end it early (interface.c create_inhibit and        *)
(* drop_inhibit, together with on_inhibit_req).                            *)
(***************************************************************************)
HeldIsInhibited == inhQ = <<>> /\ Held # {} => inhibited

(***************************************************************************)
(* Nothing is counted twice or lost on the way from lock_map to the        *)
(* counter: what INHIBIT has counted, plus the grabs and minus the releases*)
(* still in its pipe, is the number of entries (drop_inhibit publishes one *)
(* release per entry however many references went; on_inhibit_req counts a *)
(* grab that does not validate, and no release that does not).             *)
(***************************************************************************)
Grabs(q) == {i \in DOMAIN q : q[i].new}
Releases(q) == {i \in DOMAIN q : ~q[i].new}

HoldsConserved ==
  inhibition_ctr + Cardinality(Grabs(inhQ)) =
    Cardinality(DOMAIN lock_map) + Cardinality(Releases(inhQ))

(***************************************************************************)
(* Every entry of the map keeps a reference.  One without would swallow    *)
(* its owner's next Inhibit, which publishes only for a new key, and an    *)
(* UnInhibit would then drive it below zero, from where it never leaves.   *)
(***************************************************************************)
EntriesHaveRefs == \A k \in DOMAIN lock_map : lock_map[k] > 0

(***************************************************************************)
(* When the last lock goes, inhibition eventually ends unless somebody     *)
(* takes a new one: no hold is left behind in the counter.                 *)
(***************************************************************************)
InhibitionEnds == DOMAIN lock_map = {} ~> (~inhibited \/ DOMAIN lock_map # {})

(***************************************************************************)
(* The counter of on_inhibit_req implements the counted switch: every      *)
(* request takes or drops exactly one hold, drops all, or changes nothing. *)
(***************************************************************************)
HoldsSpec == Holds!Spec
=============================================================================
