# Clight in TLA+

Clight is a user daemon that adapts the screen to its surroundings: it
calibrates backlight, keyboard backlight and gamma, dims and switches off the
display of an idle user, and honours inhibitions, suspensions, the AC cable and
the laptop lid.  It is one C process (`src/src`), split into modules that
exchange messages, plus a helper daemon, Clightd, reached over D-Bus.

This directory models the coordination inside that process: which messages are
sent, what is done when they arrive, and what every module may then rely on.
Every module that runs in the daemon is modelled, most of them in pairs or in
threes with the modules they depend on.

## How Clight runs, and how that is modelled

* Every module (`src/src/modules/*.c`) is a libmodule actor on ONE event loop.
  `M_PUB` (`public.h:32`) writes a message pointer to the pipe of each
  subscriber; a handler runs to completion.  So an action here is a whole
  handler, there is one FIFO per receiver, and pipes of different receivers are
  read in any order relative to one another.
* The shared struct `state` is written at once; the message that announces the
  write arrives later.  A receiver reads `state` again, not the message.  Most
  of what can go wrong lies in that gap, so `state` and pipes are separate
  variables everywhere.
* `DECLARE_MSG` makes ONE static message, and the pipe carries its address: a
  second publication changes what the first one, still in the pipe, says.
  `DECLARE_HEAP_MSG` makes a fresh one.  The models overwrite copies in flight
  where the source's message is static (`Publish` in every module).
* The BUS module drains every pending D-Bus signal in one dispatch
  (`bus.c:52-68`), so several signals can be handled before a pipe is read.
* A module that pauses for several reasons keeps a set of bits, and acts on the
  first and on the last (`mod_check_pause`, `utils.c:58`): module `ModPause`.
* `m_become` swaps the receiver of a module, and what the present receiver has
  no case for is lost.  Dropping is therefore an action, or a disjunct, of every
  model: much of what could go wrong begins with a message nobody listened to.
* D-Bus calls Clight makes block; they are part of the handler's step.  Their
  failures are choices of that step, enabled by a constant (`Faults`).

## Inventory

| Component | State it keeps | Operations | Talks to | What is hard | Correct when |
|---|---|---|---|---|---|
| INHIBIT `inhibit.c` | `state.inhibited`, a static counter | INHIBIT_REQ (grab, release, forced release) | PM, DIMMER, DPMS, BACKLIGHT, SCREEN by INHIBIT_UPD | grabs counted without validating, releases only when valid | flag on exactly while a hold is counted |
| INTERFACE `interface.c` | `lock_map`: references per bus name, cookies; static requests | ScreenSaver.Inhibit/UnInhibit, Clight.Inhibit, owner gone, Pause, Simulate, every configuration property | INHIBIT, PM, all others by requests | references here, holds in INHIBIT, a pipe between | no hold lost, doubled or left behind |
| UPOWER `upower.c` | `state.ac_state`, `state.lid_state` | start (two ways to fail), PropertiesChanged, its own requests | INHIBIT (docked), all by UPOWER_UPD and LID_UPD | compares hardware with a state that lags | mirrors cable and lid; docked holds come in pairs |
| PM: suspend `pm.c` | `state.suspended`, a static counter, the resume timer | SUSPEND_REQ from logind, session, SIGTSTP, Pause, plugins; timer | pausing modules by SUSPEND_UPD | four overlapping sources, resumes announced late | suspended while one asks; subscribers follow |
| PM: idle lock `pm.c` | `state.pm_inhibited`, token, api | INHIBIT_UPD, PM_REQ, LOOP_STOPPED | logind, PowerManagement | two services, each step may fail | reported iff held; held iff inhibited |
| DIMMER, DPMS `dimmer.c`, `dpms.c`, `utils/idler.c` | pause reasons, idle client | UPOWER_UPD, INHIBIT_UPD, SUSPEND_UPD, timeout and simulate requests, Idle signal, Changed signal | Clightd, DISPLAY | three pause reasons overlap; starting state drops messages; DPMS hears its own echo | client runs iff it should |
| DISPLAY `display.c` | `state.display_state`, saved level | DISPLAY_REQ, idle hint | BACKLIGHT, logind | dimmed and off overlap; level saved mid transition | each state entered is left once; level restored |
| BACKLIGHT `backlight.c` | pause reasons, capture timer, smooth transition, monitors | four messages to start, captures, BL_REQ, sensor, lid, display, timeouts | Clightd, SCREEN, KEYBOARD, GAMMA | seven pause reasons; waiting phase; a one-shot timer | captures go on when they may; paused as told |
| SCREEN `screen.c` | `state.screen_br`, pause reasons, timer | start, timer, AMBIENT_BR_UPD, requests | BACKLIGHT | BACKLIGHT waits for its first value and leaves captures to it | each capture used by one of the two |
| KEYBOARD `keyboard.c` | level, timeouts, curves, pause reasons | BL_UPD, its own request, timeouts, curves | Clightd | requests dropped while paused | dark while paused, else follows the screen |
| GAMMA `gamma.c` | temperature, long and ambient mode, a sync to make up for | day updates, TEMP_REQ, AMB_GAMMA_REQ, BL_UPD, Toggle | Clightd | deaf during a long transition; paused during sleep | temperature is that of the time, or of the backlight |
| DAYTIME `daytime.c` | next events, day, event window, alarm | first location, location changes, alarm, sunrise and sunset requests | GAMMA, BACKLIGHT | three dates compared, sleeps, offsets | day follows the sun; an alarm is always set |
| LOCATION `location.c` | location, geoclue client, cache, timer | cache, fix, user, timeout, stop | DAYTIME | late answer against fallback timer; restart | DAYTIME is told of a location |
| BUS, SIGNAL, validations, timers, options | connections, fds | dispatch, refuse, arm, check ranges | all | order of dispatch; arithmetic | see the modules using them |

The `components` list of `PROJECT.json` has the same parts with what is
modelled of each.  Under `hazards` it lists what is hard to test, at its line.

## Modules

| Module | Models | Correspondence |
|---|---|---|
| `HoldCounter` | the abstract counted switch | `n` holds, `on`; Grab, Release, Clear |
| `ModPause` | `mod_check_pause` | `Reasons` the bits after a change, `Pauses` the first one, `Resumes` the last |
| `Inhibit` | INHIBIT | `OnInhibitReq` is `on_inhibit_req`; `inhQ` is its pipe |
| `ScreenSaver` | INTERFACE's locks, EXTENDS `Inhibit` | `CreateInhibit`, `DropInhibit` are `create_inhibit`, `drop_inhibit`; one action per D-Bus method |
| `UPower` | UPOWER, EXTENDS `ScreenSaver` | `OnUPowerChange` is the signal handler, `Start*` the branches of LOOP_STARTED, `Receive*Req` the requests to itself |
| `Suspend` | the suspend half of PM, with one subscriber | `OnSuspendReq` is `on_suspend_req`; `DelayExpired` the timer |
| `PMLock` | the lock half of PM | `AcquireLock`, `ReleaseLock` are `on_pm_req` |
| `IdleClient` | DIMMER and DPMS (one state machine; `Module` selects what INTERFACE treats differently) | `StartModule`/`Drop` are `receive_waiting_acstate`, the other `Receive*` are `receive` and `receive_paused` together, `PauseModule`/`ResumeModule` are `mod_check_pause` with `pause_dimmer` |
| `Display` | DISPLAY with what DIMMER, DPMS and logind send it and BACKLIGHT's gate on BL_REQ | `EnterDimmed`, `EnterOff`, `LeaveAll`, `RefuseDisplayReq` are the branches of `receive`; `SetDpms` is `set_dpms` with Clightd's echo; `Accept`/`RefuseBlReq`, `DimmedCallback` are BACKLIGHT's |
| `Backlight` | BACKLIGHT and SCREEN | `Hear` is `receive_waiting_init`, the `...Callback`s have the code's names, `DoCapture` is `do_capture`, `TimerExpires` FD_UPD; `Screen...` are SCREEN's |
| `Keyboard` | KEYBOARD, EXTENDS `ModPause` | `PauseKbd` is `pause_kbd`, `OnScreenBlUpdate` is `on_screen_bl_update` |
| `Gamma` | GAMMA, with DAYTIME, BACKLIGHT and PM as its environment | `SetTemp` is `set_temp`, `OnDaytimeReq` is `on_daytime_req`, `PauseMod` is `pause_mod` |
| `Location` | LOCATION | `LoadCache`, `ReceiveLocationReq`, `TimerExpires`, the geoclue actions; `Crash` and `Restart` |
| `Daytime` | DAYTIME, EXTENDS `Location` | `NextEvents` is `get_next_events`, `CheckDaytime` is `check_daytime`, `ResetDaytime` is `reset_daytime` |
| `*_proofs` | theorems | |
| `MC*` | entry points for TLC | |

Operators commented "Mutant" are wrong versions of the operator that follows
them; no action uses them.  They exist to test the properties: each property is
violated when one of them takes its operator's place.

Abstractions.  An application is its bus name, a cookie is named by the entry it
was issued for.  Timeouts are on or off, and so are timers ("armed" stands for
expired and unread as well), except DAYTIME's, which has a distance.  AC and lid
values are the integers of the enums where one of them passes through a `bool`.
Levels and temperatures are small ranges; a fade is one step that happens later,
or in GAMMA one that passes through values in between.  The day of `Daytime` is
a circle of `DayLength` units with one sunrise and one sunset per place; all times
are relative to now.  The day of `Gamma` is a circle of six parts, because GAMMA
sees no more of it.  What a user does is a choice among all calls of the bus
interface that the modules of the model listen to.

Some properties hold except after an event the code provides for nowhere.  Such
an event sets a history variable, which stands for nothing in the code, and every
handler that makes up for it clears the variable again (nothing makes up for a
`misuse`).  The properties say what each event excuses, and nothing more:

| Variable | What it records | What it excuses |
|---|---|---|
| `slip` (`Display`, `Backlight`), `missed` (`Gamma`) | what is listed under "Further disagreements met" | the level, the reason or the temperature concerned |
| `misuse` (`Suspend`) | a source suspends twice or resumes what it did not suspend, by itself or by rewriting its unread request | a repeated suspend may hold the system longer, a stray or forced resume may resume it earlier; never the other way round |
| `mishap` (`PMLock`) | a refused lock, an UnInhibit that was not sent, a write of InhibitPM, until PM answers or sends the next request; for good, a descriptor that could not be kept and a lock left on the other bus | the lock's agreement with inhibition; in `ReportedIsHeld` and `ReleasedOnStop` only the lock that was lost, unsent or left |
| `skipped` (`IdleClient`) | `idle_set_timeout` did not start the client because of `state.inhibited`, though no reason pauses the module; until a start or a pause | a client that does not run |
| `overwritten` (`IdleClient`) | the AC states whose last write was rewritten unread | the timeouts of these AC states |

## What the runs show

`day` and `susp` take about two minutes, `backlight` and `gamma` about one,
`idle`, `keyboard` and `display` less, the others seconds.  The two "violation"
runs exhibit disagreements between the code and what it says about itself; they
are described under `findings` in `PROJECT.json`.

| Run | Question | Bounds |
|---|---|---|
| `ss` | Applications that behave, and a user who forces only while alone: is each hold conserved from `lock_map` to the counter, is a held system inhibited, does inhibition end? | 3 applications, 2 references, 3 messages |
| `up` | Hardware that lets UPOWER settle, start-up failures, foreign cookies and forced releases: are cable and lid mirrored, does a docked inhibition need a closed lid, is INHIBIT a counted switch? | 1 application and the user, 2 signals, 4 messages |
| `susp` | Four sources, repeated and stray requests, plugins and a delay that is rewritten: counted switch, suspended exactly while a source asks but for what was repeated or stray, subscribers that follow in spite of overtaken announcements and resume in the end | 3 messages per pipe, 4 holds |
| `pm` | All four faults, InhibitPM written at any time: is a lock reported exactly while one is held, does it follow inhibition again after each mishap, and what may be left after the loop? | 4 messages |
| `idle` | Changes at any time, before the start too, and requests rewritten unread: does the client run when it should, with the timeouts the user wrote, and is it never left stopped? | DIMMER, 3 messages |
| `idle_overlap` (violation) | Is the client stopped while the module is paused for an inhibition? Not if a cable change during a suspension started it. | 3 messages |
| `day` | Cache, geoclue, user, 30 seconds, moves, sleeps and restarts: is DAYTIME told, is an alarm always set, does day follow the sun? | 2 places, one with its sunrise after its sunset; a day of 8 units, events of 1, offsets 0 and 1, sunset moved to one fixed time and back; 1 message |
| `display` | DIMMER, DPMS, the hint and calibrations across one another: is the level restored, is dimmed dim, does DPMS agree, does the display wake? | 3 levels, dimmed at 0, 3 messages |
| `keyboard` | Is KEYBOARD paused for the reasons there are, dark meanwhile, and else at the screen's present level? | 3 levels, 2 curves, 3 messages |
| `backlight` | Are BACKLIGHT and SCREEN paused as told, do captures go on, does only a paused SCREEN keep BACKLIGHT from starting, is each capture used? | SCREEN configured for both AC states or, as shipped, for AC only, `contrib` 0 or not; beyond that at most 2 things off at a time, 2 timeouts written, 1 message before anything else happens |
| `gamma` | Does GAMMA set the temperature of the time, or of the backlight? | 2 temperatures, 2 levels, sleeps of up to half a day or more than one, 1 message |
| `gamma_sleep` (violation) | The same, when one sleep leads from dawn to the night of the same date. It does not. | sleeps of 1 to 4 parts |

Why the bounds are enough.  Two applications show every interference between
entries (an entry has an owner and at most one stranger acting on it), three are
used where holds are counted.  Two references distinguish first, further and
last.  Pipes of three or four hold a request, the one that overtakes it and the
one that overwrites it; `MaxPending` only delays publishers, and no property
mentions it.  In `Backlight` and `Gamma` one unread message delays what happens
elsewhere, but one event publishes several, handlers publish more, and both
pipes count, so handlers meet queues of several.  `MaxOff` of 2 covers every pair of reasons:
pauses interact through "the first" and "the last", which two decide.  Three
levels are below, at and above the one dimmed to, and every level may follow
every other.  A day of 8 units has room for two events with their windows and
for parts outside; 1 as duration lets an alarm fall before, at and after an
event.  The six parts of `Gamma` are all the day it can tell apart, and ten parts
asleep reach the day after next.  Deadlock is checked except in `pm`, which ends after LOOP_STOPPED.

### Assumptions on the environment, and what happens without them

Where a constant makes the assumption, the unrestricted case can be tried by
changing it.  The last items are guards of an environment action instead; their
comments say so.

* `OwnCookies`, `UserLock`: applications release their own cookies, and the user
  releases by org.clight.clight.Inhibit, which forces, only while no application
  holds a lock (`"alone"`).  A foreign cookie makes `drop_inhibit` take the last reference of
  one entry and remove the caller's key (`interface.c:444`), so the owner's next
  Inhibit publishes nothing; a forced release leaves entries whose holds are
  gone.  `ss` with `OwnCookies = FALSE` or `UserLock = "any"` violates
  `HeldIsInhibited`.  INHIBIT itself is a counted switch even then (`up`).
* `PatientHardware`: cable and lid wait until UPOWER has stored the previous
  change.  Otherwise the comparison with `state` misses a change that is undone
  in time (`HardwareMirrored`), or inhibits twice for one dock (`DockedNeedsLid`).
  The fault `"read"` (a property that cannot be read) is left out of the run: at
  start-up it leaves the state unknown until the next signal.
* Repeated suspends, stray resumes and the rewriting of unread requests are in
  `Suspend`, and writes of InhibitPM and all faults in `PMLock`: nothing is assumed
  there.  The sources PM listens to itself change by turns: logind's PrepareForSleep
  does, and of the session PM compares with what it was told last (`pm.c:109-129`).
  Even such sources can
  make a subscriber resume before `resumedelay` is over, when an earlier
  announcement is still on its way: it reads the new state.
* `IdleClient` assumes nothing of the order or the number of the changes.
  `Module = "DPMS"` violates `TimeoutsAsWritten` (`interface.c:700`, below).
* `PatientUser`: nobody comes or goes before DISPLAY has received what it was
  told.  Otherwise DPMS takes Clightd's echo for a request (below).
* `Offsets` are not negative.  Otherwise `AlarmSet` fails (below).
* `ScreenConf`: the timeouts of SCREEN at start.  The run has the shipped ones,
  off on battery, and positive ones.  BACKLIGHT waits for a paused SCREEN (below),
  which `BacklightStarts` names as the only thing it waits for in vain.
* Guards in `Backlight`: "time goes on slowly", DAYTIME tells the next after
  BACKLIGHT has read the last; UPOWER's first messages are the first in both
  pipes, so that of what other modules announce before them nothing is shown; a
  user asks for a capture when nothing else is on its way.  Everything else a user
  asks for, he may ask at any time, before either module has started too.
* Guards in `Keyboard` (`May`, `~waiting`): of cable, display and suspension, no
  change while an earlier one of the same kind is unread, and none of the latter two
  before KEYBOARD has read UPOWER's first message.  Unread copies would say the
  same, because KEYBOARD reads `state`; what was announced before UPOWER's first
  message KEYBOARD would drop, and not know.  BL_UPD, a heap message
  (`backlight.c:530`), carries its own level, is not rewritten and not restricted.
* Guards in `Gamma`: `ToggleGamma` is not called before DAYTIME knows the time.
  `method_toggle_gamma` would index `conf.gamma_conf.temp` with a `day_time` of -1
  (`gamma.c:371`).  `Asleep`, a constant, says which sleeps happen; `gamma_sleep`
  has the one that is left out of `gamma`.

### Fairness

Weak fairness is assumed of the program: a pipe with a message is eventually
read (`Receive...`), because the loop polls all pipes and handlers terminate; an
armed timer expires (`DelayExpired`, LOCATION's `TimerExpires`, SCREEN's).
Clightd's signals are handled (`OnNewIdle`) and its fade goes on (`OnBlChanged`).

`Backlight` assumes more, and says so at `FairSpec`.  Its timer is paused with its
module, and every pause may disarm or set it, so that `TimerExpires` is not
enabled for good: strong fairness says that a timer which can expire again and
again does.  A capture may fail or come out clogged, as Clightd chooses; strong
fairness says that it works in the end.  DAYTIME tells the first time, also if
a user's writes of timeouts keep delaying it in the model (strong fairness; `day`
shows that it is told a location).  Nothing is assumed of applications,
hardware, sources or the user.  `InhibitionEnds`, `EventuallyResumed`,
`ClientEventuallyRuns`, `DisplayWakes` and the others are therefore statements
"unless the environment changes its mind".

## What is proved

With TLAPS, for all values of the constants that satisfy the named assumptions
(any set of applications, any levels, any bounds):

* `UPower_proofs`, of ScreenSaver (which UPower EXTENDS), then of UPOWER beside it.
  `TypeCorrect`.  `CounterCorrect`: `CounterMatchesFlag` is inductive together with
  the types.  `ImplementsHolds`: each step is a Grab, Release, Clear or stutter of
  `HoldCounter`.  `Conservation` and `HeldStaysInhibited`, assuming `OwnCookies` and
  `UserLock # "any"`: `HoldsConserved` is not inductive, because `on_inhibit_req`
  refuses a release when nothing is inhibited, and a refused one would break the
  sum.  The strengthening `OwnInv` adds that the pipe `Leads` from the counter to
  the number of entries through counts that are never negative, and 0 after a forced
  release: a function `h` gives the count before every message.  A publication
  extends `h`, a reception drops its first value, and the head of the pipe is never
  a release at count 0, so none is refused.
  `UPowerTypeCorrect` and `UPowerImplementsHolds`, without assumptions.
  `HardwareIsMirrored`, assuming `PatientHardware` and `"read" \notin Faults`: there
  is one signal at most, no request of UPOWER while it waits, and `MirrorInv` says
  that what was asked for last is what was found last.  `DockNeedsClosedLid`, under
  the same assumptions but for any cookies and any forced release: holds are not
  conserved then, but `AtMost` bounds where the pipe can lead the counter, by one
  hold for each entry and one for the closed lid found last; refused releases only
  lead lower.
* `PM_proofs`, of both halves of PM.  Of `Suspend`: `TypeCorrect` and
  `CounterCorrect` are proved jointly (that the counter stays natural needs the flag
  and vice versa).  `ImplementsHolds`.
  `SubscriberCorrect`: `SubscriberFollows` is inductive given the types, since
  whoever changes `state.suspended` also fills the pipe or arms the timer.
  `SuspendedCorrect`: `SuspendedWhileAsked` speaks of an empty pipe only, and each
  of its halves has an invariant of its own (`CountLeadsToAsks`).  A function over
  the pipe bounds the counter after each unread request, and ends in the number of
  sources that ask: from below (`Lower`) unless a resume was stray, from above
  (`Upper`) unless a suspend was repeated.  A refused resume only raises the counter
  above the lower bound; a request that rewrites its unread copies goes on record as
  the misuse that would break the bound, and keeps the other.
  Of `PMLock`, for any faults and any writes of InhibitPM: `LockTypeCorrect`.
  `Reported` and `Released`, from `LockKnown`: token, flag, api and lock services say
  the same, but for a lock that is on record as lost, and any other lock was left
  with PowerManagement.  `LockFollows`: while PM runs, no lock was lost or left and
  the configuration was not changed since, `ToldOrAsked` says that the lock is what
  it should be or was refused, or an INHIBIT_UPD is unread, or the last PM_REQ in the
  pipe asks for what is inhibited now; older ones may say otherwise.
* `Daytime_proofs`.  `TypeCorrect` (times relative to now stay within two days
  and the longest offset).  `AlarmIsSet`, assuming `Offsets \subseteq Nat`: every
  branch of `check_daytime` leaves the alarm ahead.  `StartedIsLocated`.  `DayIsDay`,
  without assumptions: `DayFollowsSun` holds because of what the timer was armed
  for.  `SunInv` says that the known sunset is over, and will be recomputed, or is
  the next one of this place with the sunrise before it (`EventsKnown`); and that
  outside of the windows, without an offset, the timer expires when the event comes
  that ends what was told (`ToldSun`).  The lemmas are arithmetic of the circle of
  the day, with the sunrise that falls after its sunset.
* `IdleClient_proofs`, of DIMMER and of DPMS, whatever is announced before the
  start.  `TypeCorrect`.  `ClientRuns`: a started module has no bit whose reason is over,
  unless news of it is unread (`InhibitKnown`, `SuspendKnown`; it may lack a bit whose
  news it dropped); a client that does not run although nothing pauses the module
  waits for news of the AC state, or `skipped` says why it was not started (`Runs`).
  `idle_set_timeout` looks at `state.inhibited` and not at the reasons, so the bits
  alone are not inductive.
  `DimmerKeepsTimeouts`, assuming `Module = "DIMMER"`: what was written is in `conf`,
  or the unread copies of the request will put it there when the first of them is
  read, or the write is on record as overwritten.
* `Keyboard_proofs`.  `TypeCorrect`.  `KeyboardFollows`: KEYBOARD knows each reason
  or has unread news of it, and behind every request for a level that is out of
  date there is news in the pipe that will correct it.  BL_UPDs are not rewritten,
  so several levels may be unread: only the last needs to be the present one
  (`Says`), and requests are compared with the news ahead of them.
* `Display_proofs`.  `TypeCorrect`.  `DpmsFollows`: only those listened to speak,
  so with DIMMER enabled each change of the display goes through DPMS.
  `LevelReturns` and `DimStaysDim` from `LevelInv`: outside the dimmed state the
  level calibrated last is the target, or what DIMMER asks BACKLIGHT for, and
  DIMMER's requests precede BACKLIGHT's own; in it that level is the one saved,
  and a DISPLAY_UPD in the pipe guards BACKLIGHT from its own requests.
* `Backlight_proofs`, of BACKLIGHT and SCREEN, without assumptions.  `TypeCorrect`:
  the types are not inductive alone, since BACKLIGHT looks its timeout up by the time
  of the day; `TimeKnown` adds that one message of the time is unread at most, that no
  written timeout precedes it and that a time heard is known.  `PausedCorrect`: of
  every reason, a bit is right, or news of it is in the pipe, or it is on record as
  missed (`BlToldOf`, and for SCREEN, which waits, runs or is stopped by the lid,
  `ScrToldOf`).  `CapturesContinue`: `TimerKept` lists what excuses a timer that does
  not run: its expiry is unread, its capture was dropped, the cable's news are
  unread, or the timeout is not positive, or was not at the time that is read next.
* `Gamma_proofs`.  `TypeCorrect`: an ambient temperature, a rounded part of the
  difference of the two configured ones, lies between them (`Rounded`, `AmbientType`).
  `TemperatureFollows`, assuming that at one look at the clock 0 to 3 or 6 to 12 parts
  of the day have gone by: `TransitionEnds` says that a long transition outside of an
  event has its end announced in the pipe, or the date has changed; that needs the
  assumption (`EventEnds`), and `gamma_sleep` shows what happens without it.  A SYNC
  comes after each announcement (`SyncFollows`) and the last BL_UPD in the pipe names
  the level that the backlight goes to (`LastLevel`); so what is set is right, or
  unread news corrects it, or news kept while paused, or GAMMA is on record as not
  having set it (`Followed`).

Only model-checked: every liveness property, which is out of the prover's reach.
Every invariant of a passing run is proved, and so is every refinement; the
assumptions named above hold in the runs.  What the two runs that find a violation
check is false; the sleep of `gamma_sleep` is one that `TemperatureFollows` excludes.


## Further disagreements met

The two violation runs were chosen because the text they contradict is explicit.
These were met as well; the settings show them, and where none are given the
model records the event as a slip and carries on.

* An undocked lid event with `inhibit_docked` releases a hold of an application
  (`upower.c:153`): `MCUPower` with `OwnCookies = TRUE`, `UserLock = "none"`,
  `Faults = {}` and the invariant `HeldIsInhibited`.
* BattTimeout of DPMS changes the AC timeout (`interface.c:700`): `MCIdleClient`
  with `Module = "DPMS"`, `SuspendUsed = FALSE`, `TimeoutsAsWritten`.
* A user who is back between the idle client's report and `set_dpms` is left with
  a display that is off: Clightd's Changed, the echo of `set_dpms`, rewrites the
  static DISPLAY_REQ of DPMS, which carried the ON (`dpms.c:137-160`,
  `public.h:168`).  `MCDisplay` with `PatientUser = FALSE`, `MaxLevel = 1`,
  `dimmed_pct = 1`, `MaxPending = 2`, no deadlock check, `DisplayWakes`.
* The level restored by DISPLAY is lost if the display is dimmed or off again before
  BACKLIGHT reads it; `old_pct` is a level of a fade in progress; a calibration
  still queued when DISPLAY leaves is overwritten by the level restored
  (`display.c:54`; slip `"lost"`).  A paused BACKLIGHT refuses DIMMER's BL_REQ
  (`backlight.c:399-406`), against the comment at `backlight.c:230-241` (slip
  `"refused"`).
* With the shipped timeouts of SCREEN, off on battery, a Clight that starts on
  battery never calibrates, not even for a user's Capture, until the cable is
  plugged in: a SCREEN paused for TIMEOUT emits nothing (`screen.c:74`), and
  BACKLIGHT waits for it (`backlight.c:183`).  `screen.conf:18-20` recommends
  Capture in this case, and `screen.conf:33-34` says that only the compensation is
  off.  A `contrib` of 0 does the same.  `MCBacklight` with `ScreenConf <-
  ShippedOnly`, `Writable = {}`, `MaxOff = 1`, `StartsUncompensated`.
* An inhibition or a suspension announced before the first UPOWER_UPD is dropped by
  DIMMER and DPMS, which do not look at it when they start (`dimmer.c:67`).
  `idle_set_timeout` does not start the client for an inhibition then, and the end
  of that inhibition does not either (`utils.c:76`); Simulate starts it while the
  inhibition lasts.  `MCIdleClient` with `SetTimeouts = FALSE`, `SuspendUsed =
  FALSE`, `NoClientWhileInhibited`; or `ClientRunsWhenWanted` without `~skipped`.
* Of two writes of DIMMER's timeouts that INTERFACE handles before DIMMER reads its
  pipe, the first is lost (`interface.c:655-715`; `overwritten`).
* PowerManagement's lock is acquired on the system bus and released on the user bus,
  where no answer is waited for (`pm.c:186`, `pm.c:209`, `bus.c:83`): it outlives
  Clight, against the comment at `pm.c:75`.  `MCPMLock` with `Faults = {"systemd"}`,
  `ToggleConf = FALSE`, `NothingLeftOnStop`.
* If duplicating logind's descriptor fails, the `unsigned` token -1 passes the test
  `> 0` (`pm.c:170`) and a lock is reported that nobody holds (mishap `"lost"`).
  InhibitPM switched off between grab and release leaves the lock until the loop
  stops (`pm.c:59`).
* Pause(true) twice and Pause(false) once leave Clight suspended; Pause(false) alone
  ends logind's suspension (`interface.c:578-584`, `signal.c:58-65`; `misuse`).
* `no_auto_calib` from the configuration pauses BACKLIGHT but SCREEN is not told,
  so its updates still set the backlight (`backlight.c:344-348`).
* BACKLIGHT drops DISPLAY_UPD, SUSPEND_UPD and INHIBIT_UPD while it waits, and does
  not look at those states when it starts (slips of these names).
* The timer's capture is dropped if a pause was queued before it, and nobody arms
  `bl_fd` again: automatic captures stop until the cable, the lid or a user's
  capture does (`backlight.c:380`; slip `"CAPTURE"`).
* `upower_callback` (`backlight.c:604-606`) does not update the reason TIMEOUT
  (slip `"TIMEOUT"`), and two time messages that cross make `time_callback`
  compute the wrong old timeout (excluded: time goes on slowly).  SCREEN's LID
  reason stays if InhibitOnLidClosed is switched off with the lid closed
  (`screen.c:110-113`).
* A negative offset, which the configuration allows ("You can use negative values
  too."), makes `set_timeout` disarm DAYTIME's alarm for good
  (`daytime.c:196-198`): `MCDaytime` with `Offsets` defined as `{-2, 0}`, `AlarmSet`.
* DAYTIME keeps DAY until `event_duration` after a sunset whose alarm comes a
  second early, and an offset of `event_duration` or more flips the windows;
  SUNRISE_REQ and SUNSET_REQ are dropped while it waits for a location.
* LOCATION's comment says its destructor stores the cache (`location.c:63-65`); only
  LOOP_STOPPED does.
* GAMMA's comment that `long_transitioning` cannot be true after ambient mode does
  not hold; TEMP_REQ and AMB_GAMMA_REQ are dropped while paused; a transition that
  Clightd refused still counts as long; ambient mode switched on during a fade
  uses where the backlight is, not where it goes (`missed`).
* `on_delayed_interface` sends GAMMA an intermediate temperature, which becomes the
  configured one (`backlight.c:790-796`); `on_interface_removed` may compare with
  NULL (`backlight.c:774`); `trans_fixed` with an unchanged level divides by zero
  (`validations.c:146-148`).
* KEYBOARD's `receive_paused` has no case for KBD_TO_REQ, so a timeout written while
  it is paused is lost; when it resumes, its level is 1 minus the screen's, on no
  curve.

## Not modelled, and why

* Curve fitting and solar computations: floating point with GSL.  Curves are
  arbitrary functions in `Keyboard`, sun times arbitrary constants in `Daytime`;
  polar days, on which `calculate_sunrise` fails, are left out.
* Configuration files, command line, log and wizard: no interleaving of their own,
  or not part of the daemon.  Range checks of `opts.c` appear as assumptions on constants.
* Durations: seconds of fades and timers other than DAYTIME's, and with them the
  arithmetic of `reset_timer` and of the transition helpers in `validations.c`.
* Several monitors, their own curves, and the levels and temperatures restored at
  exit.  Plugins, except as sources of suspends.
* Clightd, logind, UPower, geoclue, except as the choices they give Clight.
* LOCATION not started because both event times are configured, and PM not
  started because the inhibition tool is disabled (`pm.c:45`).
