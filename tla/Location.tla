------------------------------ MODULE Location ------------------------------
(***************************************************************************)
(* LOCATION: where the computer is.  Three sources race for the answer: a  *)
(* cache file written when the loop stopped last, geoclue, whose client is *)
(* asked for asynchronously, and the user over D-Bus.  A timer of 30       *)
(* seconds gives geoclue up and deregisters the module.                    *)
(*                                                                         *)
(* A location is a model value; two of them are far enough apart for       *)
(* validate_loc, and a request for the present one is refused.             *)
(***************************************************************************)
EXTENDS Naturals, Sequences

CONSTANTS
  Locs,          \* the places the computer may be at
  NoLoc,         \* LAT_UNDEFINED, LON_UNDEFINED
  Geoclue,       \* TRUE: geoclue is installed
  MaxLocPending  \* messages in a pipe beyond which nobody asks for more

ASSUME LocationAssumption ==
  /\ NoLoc \notin Locs
  /\ Geoclue \in BOOLEAN
  /\ MaxLocPending \in Nat \ {0}

VARIABLES
  loop,         \* "init" or "running": the event loop
  loc_alive,    \* LOCATION is registered and running
  current_loc,  \* state.current_loc
  cache,        \* history and file: what the cache file holds
  client,       \* geoclue's client: "none", "asked" for, "started", "failed"
  loc_timer,    \* timeout_fd: "armed" for 30 s, "now", or "gone" (deregistered)
  locQ,         \* the pipe of LOCATION: LOCATION_REQs of its own and of the user
  dayQ          \* the pipe of DAYTIME: LOC_UPD, SUNRISE_REQ and SUNSET_REQ

locVars == <<loop, loc_alive, current_loc, cache, client, loc_timer, locQ>>

LocTypeOK ==
  /\ loop \in {"init", "running"}
  /\ loc_alive \in BOOLEAN
  /\ {current_loc, cache} \subseteq Locs \cup {NoLoc}
  /\ client \in {"none", "asked", "started", "failed"}
  /\ loc_timer \in {"armed", "now", "gone"}
  /\ locQ \in Seq([kind : {"own", "user"}, arg : Locs])

\* LOCATION runs only if neither a location nor both times are configured.
LocInit ==
  /\ loop = "init"
  /\ \/ loc_alive = TRUE /\ current_loc = NoLoc
     \/ loc_alive = FALSE /\ current_loc \in Locs
  /\ client = "none" /\ loc_timer = "armed"
  /\ locQ = <<>> /\ dayQ = <<>>

-----------------------------------------------------------------------------
\* Every kind of message is one static object: to publish it again changes what
\* its copies in flight say.
Publish(q, kind, arg) ==
  LET msg == [kind |-> kind, arg |-> arg] IN
    Append([i \in DOMAIN q |-> IF q[i].kind = kind THEN msg ELSE q[i]], msg)

RoomForReq == loc_alive /\ Len(locQ) < MaxLocPending /\ Len(dayQ) < MaxLocPending

\* Mutant: a file with nothing to read in it is loaded too.
LoadAnyCache == locQ' = Publish(locQ, "own", cache)

\* load_cache_location: a request like any other.
LoadCache == IF cache # NoLoc THEN locQ' = Publish(locQ, "own", cache) ELSE UNCHANGED locQ

\* fail_geoclue lets the timer expire at once; so does a GetClient not sent.
GeoclueInit ==
  \/ Geoclue /\ client' = "asked" /\ UNCHANGED loc_timer
  \/ loc_timer' = "now" /\ UNCHANGED client

\* receive, LOOP_STARTED.
LoopStarted ==
  /\ loop = "init" /\ loop' = "running"
  /\ IF loc_alive THEN LoadCache /\ GeoclueInit
                  ELSE UNCHANGED <<locQ, client, loc_timer>>
  /\ UNCHANGED <<loc_alive, current_loc, cache>>

\* The answer to GetClient, which nobody reads once the module is gone.
GetClientReply ==
  /\ loop = "running" /\ client = "asked"
  /\ \/ loc_alive /\ client' = "started" /\ UNCHANGED loc_timer
     \/ loc_alive /\ client' = "failed" /\ loc_timer' = "now"
     \/ ~loc_alive /\ client' = "none" /\ UNCHANGED loc_timer
  /\ UNCHANGED <<loop, loc_alive, current_loc, cache, locQ, dayQ>>

\* on_geoclue_new_location: geoclue answers, the timer is no longer needed.
GeoclueLocation(l) ==
  /\ loop = "running" /\ client = "started" /\ RoomForReq
  /\ locQ' = Publish(locQ, "own", l)
  /\ loc_timer' = "gone"
  /\ UNCHANGED <<loop, loc_alive, current_loc, cache, client, dayQ>>

\* The Location property of org.clight.clight.Conf.Daytime is written.
UserLocation(l) ==
  /\ loop = "running" /\ RoomForReq
  /\ locQ' = Publish(locQ, "user", l)
  /\ UNCHANGED <<loop, loc_alive, current_loc, cache, client, loc_timer, dayQ>>

\* Mutant: requests count only once geoclue's client is there.
ReceiveWithClient ==
  /\ loop = "running" /\ loc_alive /\ locQ # <<>>
  /\ locQ' = Tail(locQ)
  /\ LET l == Head(locQ).arg IN
       IF l # current_loc /\ client = "started"
         THEN dayQ' = Publish(dayQ, "LOC_UPD", l) /\ current_loc' = l
         ELSE UNCHANGED <<dayQ, current_loc>>
  /\ UNCHANGED <<loop, loc_alive, cache, client, loc_timer>>

\* receive, LOCATION_REQ: validated, published, stored.
ReceiveLocationReq ==
  /\ loop = "running" /\ loc_alive /\ locQ # <<>>
  /\ locQ' = Tail(locQ)
  /\ LET l == Head(locQ).arg IN
       IF l # current_loc
         THEN dayQ' = Publish(dayQ, "LOC_UPD", l) /\ current_loc' = l
         ELSE UNCHANGED <<dayQ, current_loc>>
  /\ UNCHANGED <<loop, loc_alive, cache, client, loc_timer>>

\* A timer set to expire at once becomes ready after the messages that were in
\* the pipe by then, and the cached location is not left unread for 30 seconds.
ReadFirst == loc_timer = "now" \/ (cache # NoLoc /\ current_loc = NoLoc)

\* Mutant: a client that never answered is given up without a word.
TimerExpiresSilently ==
  /\ loop = "running" /\ loc_alive /\ loc_timer # "gone"
  /\ ReadFirst => locQ = <<>>
  /\ IF current_loc = NoLoc /\ client # "asked"
       THEN dayQ' = Publish(dayQ, "LOC_UPD", NoLoc) ELSE UNCHANGED dayQ
  /\ loc_alive' = FALSE /\ locQ' = <<>>
  /\ client' = IF client = "started" THEN "none" ELSE client
  /\ UNCHANGED <<loop, current_loc, cache, loc_timer>>

\* receive, FD_UPD: tell DAYTIME if there is still no location, and go, with
\* what is left in the pipe.
TimerExpires ==
  /\ loop = "running" /\ loc_alive /\ loc_timer # "gone"
  /\ ReadFirst => locQ = <<>>
  /\ IF current_loc = NoLoc THEN dayQ' = Publish(dayQ, "LOC_UPD", NoLoc) ELSE UNCHANGED dayQ
  /\ loc_alive' = FALSE /\ locQ' = <<>>
  /\ client' = IF client = "started" THEN "none" ELSE client
  /\ UNCHANGED <<loop, current_loc, cache, loc_timer>>

\* A new process of Clight; the cache file is all that is left of the old one.
Reset ==
  /\ loop' = "init"
  /\ \/ loc_alive' = TRUE /\ current_loc' = NoLoc
     \/ loc_alive' = FALSE /\ current_loc' \in Locs
  /\ client' = "none" /\ loc_timer' = "armed"
  /\ locQ' = <<>> /\ dayQ' = <<>>

\* receive, LOOP_STOPPED: cache_location, if the module is still there.
LoopStopped ==
  /\ loop = "running" /\ Reset
  /\ cache' = IF loc_alive /\ current_loc # NoLoc THEN current_loc ELSE cache

Crash == loop = "running" /\ Reset /\ UNCHANGED cache
=============================================================================
