# Verification of the RDK-C LED manager

TLA+ models of the LED manager (`src/ledmgrmain.c`, `src/ledmgr.c`,
`src/ledhal.c`, `src/ledmgr_rtmsg.c`), the TLC configurations that check them on
small instances, and TLAPS proofs of what matters most for every instance.

## 1. The system

A camera has a front-panel LED and, next to it, an XW (the accessory with its
own LED, reached over rtMessage). A daemon tells the user the camera's state.

| Part | State it keeps | Operations | Talks to |
|---|---|---|---|
| **Daemon** `ledmgrmain.c` | `cur_state`, `next_state`, XW answer, `gateway`, `sleep_time`; globals `bt_state`, `audio_state` | loop of `main()`; one handler per state; probes (marker files, `system.conf`, ping, `stateFinder`) | `ledmgr_setState`; an rtMessage thread writes the two globals |
| **setState** `ledmgr.c:347` | - | state → look of the camera's and of the XW's panel | `ledmgr_setOp`, `led_xw_setOp` |
| **setOp** `ledmgr.c:421` | process mutex `ledinitmutex` | one request = init, reset, brightness, colour, action, apply | the HAL |
| **HAL, configuration** `ledhal.c:184-983` | one file per LED on a RAM disk, `flock` | `led_init`, `led_reset`, the setters, the read of `led_applySettings` | other processes, through the file |
| **HAL, devices** `ledhal.c:985-1409` | registers and programs of an LP5562 or AW210xx, the IR brightness | apply | the device |
| **XW link** `ledmgr_rtmsg.c` | - | `xw_isconnected`, `xw_led_*` remote calls, `xw_file_get` | the XW, through the broker |
| **XW colour table** `ledmgr.c:166` | `g_xwledColorVal`, files under `/opt/usr_config` and `/tmp` | `led_xw_init` | XW link |
| **ledtest** | - | one `ledmgr_setState` or `ledmgr_setOp` from a second process | as the daemon |
| logger, option parsing, stubs, build files | - | - | - |

What is hard: the surroundings change between any two probes of one condition;
the rtMessage thread writes what a handler reads; results are ignored almost
everywhere; two processes share the configuration file through a lock that is
given up after three attempts, and `led_reset` truncates before it locks; a
process may die between truncation and write; the device is written after the
unlock, and nothing excludes two processes there; background jobs reach an
AW210xx in any order; ten times a time is computed in `uint32_t` and packed into
16-bit commands; the XW may be silent, and silence counts as "connected"; a
remote call that timed out may still be executed. PROJECT.json lists each
hazard with its line.

What makes each part correct:

* daemon: it announces only what its probes said; it comes to rest, and where
  the network says; an XW that was gone catches up; the panel tells a legal story.
* HAL: the lock excludes and is never kept; no update is lost; a disabled LED
  keeps its configuration; every call returns.
* setOp: one request at a time in a process; a request that had the HAL for
  itself takes effect, whatever others left in the file.
* LP5562: every action the setters accept compiles into a program that fits and
  shows the light asked for; an application alone with the chip leaves it
  running its programs.
* AW210xx: no script of a look gone by survives; the last word is that of the
  last application.
* XW: a request of which nothing was lost is what it shows; a process that
  believes in its colour table has a whole one, and `led_xw_init` returns.

## 2. The modules

| Module | Models |
|---|---|
| `LedLifecycle` | abstract: the graph of states and the looks of each |
| `LedMgrMain` | the daemon: `main()`, handlers, probes, listeners, surroundings |
| `LedConfig` | a LED's configuration and what each HAL function does to it (no state) |
| `LedStore` | abstract: the configuration file as an atomic store |
| `LedHal` | `ledhal.c` for a LED, system call by system call, any callers |
| `LedPanel` | abstract: requests carried out one at a time and wholly |
| `LedSetOp` | `ledmgr_setOp` over `LedHal`: scripts, mutex, threads, processes, crashes |
| `LedWave` | abstract: on for so long, off for so long, so many times, again |
| `Lp5562` | the compiler of actions into LP5562 programs, and the engine that runs them |
| `LedDevice` | what `led_applySettings` does to the chip, command by command |
| `XwLink` | `led_xw_setOp`, its remote calls, and the XW that executes them |
| `XwColors` | `led_xw_init` and `xw_file_get`: the XW's colours by way of two files |
| `..._proofs` | the theorems on the module (`LedPanel_proofs`: on `LedSetOp` and `LedPanel`) |
| `MC...` | the constants of the runs |

`LedMgrMain` implements `LedLifecycle`, `LedHal` implements `LedStore`, `Lp5562`
implements `LedWave`, and `LedSetOp`, which composes the steps
of `LedHal`, implements `LedPanel` on an LP5562. The layers meet at their calls:
for the daemon a request to the camera's LED is one step, which shows the look
or, where HAL calls behind it fail, any look of the constant `Spoilt`; `LedSetOp`
is what is behind that step. A request to the XW is made call by call there, each
executed at once or lost; `XwLink` has what each call does and the calls that
are executed late. The write to an LP5562, one step of `LedHal` for the currents
and one for the programs, is taken apart in `LedDevice`, which has the AW210xx
too; a program, one value there, is made and run in `Lp5562`.

### LedMgrMain

A handler of `get_next_state[]` is a table of clauses; a clause is the list of
calls of one condition, in C's evaluation order, and the state returned when
all answer as wanted. `pc = "check"` evaluates call `lit` of clause `clause`, in
one step, so that everything else may move between two calls of the same
condition. `is_camera_connected` takes two steps (`Ping`, `StateFinder`), or one
that looks for the gateway (`FindGateway`), and sets `sleep_time` and `gateway`
on the way. `!is_camera_not_online()` is `connected`, `a || (b && c)` is two
clauses with the same result. `saw` is a history variable: the last answer each
probe gave in the current evaluation.

`Poll`, `SetState`, `SetXw`, `Adopt`, `Dispatch`, `WakeUp` are the loop of `main()`;
`Alternate` is the loop of `LED_MGR_STATE_INCORRECT_XW`, which has no exit.
`SetXw` is one remote call of `led_xw_setOp` (`xwSent` counts them): an XW that is up
executes it, one that is silent may, one that is down does not. The XW shows the
look asked for only if it has executed all of a request, and `Mixed` after a
part of one; `main()` believes it told in either case. `timely` is a history
variable: the XW came up while main() knew it as gone and had nothing to tell it
before the next poll, and has stayed up since.
`onBTActive` and `onTwoWayAudio` are the listeners. `EnvStep` changes one fact of
the surroundings; `Worlds` are the sets of combinations explored, and a camera
stays in one of them. `wifiState` is
written by `onWiFiMessage` and never read, and is left out.

### LedConfig, LedHal

The file is `Absent`, `Empty` or a record of state, currents, PWMs and action;
values are model values, `Junk` stands for a field nobody wrote. `led`, chosen at
the start from `Leds` and constant, says whose file it is: that of a front panel
on an LP5562, or of the IR LED, which has no colour, does not blink and has
another device. On an AW210xx the functions are the same up to the unlock of
`led_applySettings`; what comes then is in `LedDevice`. The LED shows any look of
`StartLook` at first. `Calls[led]` are the calls explored for it. All HAL
functions have the same shape, so a caller walks through `pc[p]`:

    idle -> (stat) -> open -> lock -> read -> write -> unlock
         -> (currents -> program | brightness) -> idle

`stat` is `led_init`'s size check; `led_init` (O_EXCL) and `led_reset` (O_TRUNC)
skip `read`; `led_applySettings` skips `write` and goes on to the device after
`unlock` (`Currents` and `Program` for an LP5562, `Brightness` for the IR LED). Every
early return is a branch: file missing or already there, three
failed lock attempts, disabled, unsupported by the IR LED, I/O errors. `setOnOff`,
`setBlink` and `setBlinkSequence` set one field, the action, and are two operations
(`action`, and `blink`, which the IR LED refuses). The map gives the
definitions that stand for all setters at once the lines of one of them.
A partial read or write of a file this small is not modelled, nor are
arguments out of range, which are refused before anything is touched.
`Crash(p)` is the death of a process: the kernel drops its lock.

### LedSetOp

`todo[t]` is the rest of the script of thread `t`, `mutex[q]` the mutex of process
`q`; `HalCall` starts the next HAL function with `Begin` of `LedHal`, `HalStep` is
one of its system calls. BUSY leaves everything as it was and is no step. `solo`
is a history variable: no other request was under way since this one began.
The requests of other LEDs and of the XW, which share the mutex, are left out.
The LED is on an LP5562, which shows its look when `led_applySettings` returns; on
an AW210xx a background job of one request may land after that of the next, so
`LedPanel` is not promised there.

### Lp5562, LedWave

`Program(a, v)` is `led_transfer_command_to_lp5562_program` for one channel: words
as integers, `Hold` the repeated longest wait and its remainder, `Branch` with the
`uint16_t` of the C expression. `Tenths` is `ontime*10` in `uint32_t` (modulo the
constant `Word`), `Accepted` the range checks of the setters. The engine (`Set`,
`Sleep`, `Jump`) follows the chip's data sheet and is external. `LedWave` counts
time in steps of 15.6 ms, so the refinement says that at every step of every
round the channel is lit when the times asked for, in the caller's milliseconds
and rounded down (`AskedSteps`), say so. Of an action that was accepted because a
time of it wrapped (`Wrapped`: ten times the time does not fit into `uint32_t`)
nothing is asked: `LedWave` then allows any light (`free`).

### LedDevice

`pc[p]` is the next command of `p`'s `led_applySettings`, `channel[p]` the index of
its loop; one action per command. `chip` is which of the two chips the board
has. A configuration is one value, its look; `Program(c, l)` is what the compiler
makes of it for channel `c`. `echo RGB > engine_mux`, which never changes
anything, is left out. `Lost` is a command of the loop, an I2C write or one of the
shell, that fails: nobody looks at its result. For the
AW210xx, `Send` puts a job into the background:
an echo (`late`) that lands in any order (`Land`), or a script that goes on
writing (`ScriptWrites`) until some process kills every script (`Kill`). `owner` is
a history variable: who applied last, if it was alone all along and lost no
command.

### XwLink

A request is a list of remote calls (`Script`), each a field of the XW's
configuration and the values it may get; `xw_led_setBlinkSequence` has two, since
it puts both off times into the message under one name. A call gives up
after 2 s and nobody looks at the result: `Send` does not wait, and `Execute` may
come at once, late or never (`GoDown` drops what was sent). The XW and its
configuration are external and taken from what the calls are named.

### XwColors

The two files (`copy`, `conf`) are shared, `table[p]` and `inited[p]` belong to the
process. `Access`, `GetFails`, `Get`, `Fill`, `Grep`, `Parse` are the steps of
`led_xw_init`; a command of the shell and the file it writes are one step.
An entry of the table is its origin, not its six numbers: the default, a whole
line of some colour, a torn one, or the stack (`content` is not initialised).

## 3. The runs

| Run | What it shows |
|---|---|
| `mgr_camera` | types, `DispatchInRange`, `DecisionJustified`, `ProvisioningRules`, refinement `Story`, with marker files, one router, Bluetooth, audio changing at any step, and requests that fail in part |
| `mgr_settles` | `Settles`, `WorkingWhenOnline`, `TroubleWhenCutOff`, with two routers, provisioning, pairing, Internet and audio; `XwCatchesUp`, with an XW that goes up, down and silent between any two calls of a request |
| `mgr_gateway` | **violated**: `GatewayDecides` |
| `hal_calls` | either kind of LED, two callers of its functions from any file, I/O errors, one that may die or stop: `TypeOK`, `LockIsHeld`, `NothingStale`, `DisabledIsFrozen`, refinement `StoreSpec`, `CallsReturn` |
| `hal_truncated` | **violated**: `ReadSuccessMeansRead` with `led_reset` |
| `setop_threads` | three threads of one process, any look at first: `SetOpTypeOK`, `NeverContended`, refinement `PanelSpec` |
| `setop_processes` | two processes that may die, one of which may also stop: `SoloTakesEffect`, `NeverBusyForEver` |
| `lp_programs` | actions at the edges of the encoding, some with times that wrap: `ProgramFits`, `StopsWhenSteady`, `RoundsEnd`, refinement `WaveSpec` |
| `device` | either chip, two processes that may die, commands of one of which may fail: `SoloRunsItsPrograms`, `SoloHasTheLastWord`, `SoloIsShown` |
| `xw_colors` | two processes that may die, any copy of the file: `NothingTornKept`, `SoloGetsColors`, `InitReturns` |
| `xw_link` | every operation, an XW that executes late, goes and comes: `ShowsLastRequest` |
| `xw_blink` | **violated**: `TimesAsAsked` |

`DisabledIsFrozen` says that only a step of `led_init` or `led_reset`, which do
not look at `state`, changes the look of a disabled LED (`ledhal.c:164` promises it
of the setters).

Bounds. Daemon: two routers, one more than the gateway code can tell apart; the
surroundings of a run are the facts its question depends on (`CameraEnv`,
`SettleEnv`, `XwEnv`, `RoamEnv` of `MCLedMgrMain`). `mgr_settles` has two worlds. In
`SettleEnv` all kinds of provisioning meet pairing, Internet, pings and routes, except that the
second router is there for a camera provisioned on board only: so a working camera may
be moved to it, be pinging a gateway that is no longer its own, and have a way
out all the same; the XW stays up. In `XwEnv` (on the other router, so that the two share no combination) it moves, and of the camera what
changes its state. `Spoilt` holds a panel half reset and one half repainted
in `mgr_camera`, and is empty where a question is not about panels. HAL: two
callers, since lock and file have one holder and one content: the
second is the one who comes between; two values, the default and another, so
that a lost update shows; three attempts are the code's. setOp: two different
lights and Off over five values (one light for two processes, where the state
space is large; no Off, of which `SoloTakesEffect` promises nothing). `Lp5562`:
times below and at a step, one and two longest waits, the longest accepted and
one more, the last rejected and the first that wraps;
`Word` is 2^20 for 2^32, since TLC's integers hold no more than 2^31 and ten times
a time must fit. `ClockBound` is one step past the longest round any accepted
action has, and `TypeOK` says that it is never reached. `LedDevice`: two channels,
enough for an engine to get another's program; three looks, so that one echo may
overtake another and a script be outlived; the commands of one process may fail
(`Unlucky`), so that the other finds what they left; `MaxLate` echoes of a look outstanding.
`XwLink`: `MaxInbox` is a whole request on its way; two colours. `XwColors`: three
colours, the first (`>`), the last and one between; `InitRetries` 2 for the code's
25, which the theorems leave open. Nothing else is bounded: loops and callers
never stop.

No run uses symmetry.

Fairness. `FairSpec` of the daemon: weak fairness of its steps, because nothing
it waits for is unbounded (ping has a deadline, an RPC 2000 ms, then sleep);
messages and surroundings owe nothing. `LedHal`: weak fairness of the system
calls of the `Live` callers only: `flock` is called with LOCK_NB, no call blocks,
and the others may stop for ever, also with the lock; `LedSetOp` likewise for the
requests of its `Live` threads. `Lp5562`: a running engine is clocked. `LedDevice`:
a background job runs; nothing is assumed of the processes. `XwColors`: a call goes on; nothing of the next call or of deaths. The
liveness properties assume what they say. `TroubleWhenCutOff` needs an audio
state that comes to rest, since a call that starts and stops between the two
reads of `audio_state` hides the trouble every time. `SoloIsShown` needs that no
echo was outstanding at the start (`clean`), since that one may land last.

`XwCatchesUp` is about an XW that a poll has seen gone and that is up before the
next one. One that comes up later, in the middle of a request, executes the rest
of it and is left with a mixed look, while `main()` takes the answer of the poll
for that of an XW it has told, and does not repeat the request before the next
change. Nothing is promised of it, nor of one that falls silent and restarts
unnoticed. In `LedMgrMain` a call is executed at once or never; `XwLink` is about
the late ones.

### The violated runs

* `mgr_gateway`: `ledmgrmain.c:364` lets a ping of the gateway determine the
  status; the gateway pinged is the first one ever found.
* `hal_truncated`: `ledhal.c:214` says 0 is success of the read; it is also
  returned for the empty file that `led_reset` makes before it has the lock.
* `xw_blink`: `xw_led_setBlink` has the parameters `(ledid, offtime, ontime)` and is
  called with on time first: the XW blinks with its times exchanged.

Two divergences are stated in the hazards and have no run of their own.
`ledmgrmain.c:553` promises a sleep of 1 s to a connected camera and 15 s to another;
a camera found connected by `stateFinder()` after a lost ping sleeps 15 s.
`ledhal.h:120` takes the on time in milliseconds; `ledhal.c:737` (and 742, 822-834)
compares `ontime*10`, computed in `uint32_t`, with the longest time that fits:
2^32/10 ms and more wrap, pass, and blink at the remainder. `WaveSpec` exempts
exactly these (`Wrapped`); `ProgramFits` and `RoundsEnd` do not.

## 4. The proofs

All theorems are checked by `tlapm` for every value of the constants. Assumed are
the named assumptions on the constants (`EnvAssumption`, `ConfigAssumption`,
`HalAssumption`, `SetOpAssumption`, `LpAssumption`, `DeviceAssumption`,
`XwAssumption`, `LinkAssumption`), which TLC evaluates in the runs, and what a
theorem states after ASSUME.

* **Daemon.** `IInv` adds to `TypeOK` where clause and literal are within the
  handler in force (`clause` and `lit` index tuples of different lengths), that
  what the handler saw so far agrees with the clause reached, and that a state
  about to be announced has its reason among the answers. `DecisionJustified` is
  not inductive alone: between the call that justified a decision and the
  announcement there are further calls, which must not overwrite the answer.
  From `IInv`: `TypeCorrect`, `DispatchSafe`, `ProvisioningSafe`, `DecisionsSafe`,
  and with `StoryStep` the refinement `StoryHolds`, for any set `Spoilt`: the graph
  is followed whatever the driver does, and where no call fails (`Spoilt` empty)
  the panel shows the look of the state announced. What a request that met a
  failure left on the panel is not claimed.
* **HAL.** `IInv` adds to `TypeOK`, `LockIsHeld` and `NothingStale`: a caller's record
  is untouched up to the lock, a file once there stays (`Locals`), and the check
  of `state` still holds at the write (`CheckStillHolds`). The others are outside
  the critical section and can only truncate. From it: `HalTypeCorrect`,
  `MutualExclusion`, `NoStaleWrite`, `UsersRespectDisabled`, the refinement
  `HalImplementsStore`; and, under `UsersOnly` (an existing file, no `led_init` or
  `led_reset`), `UsersReadWhole`. `hal_truncated` shows why it needs that.
* **setOp.** `UsesTheHal`: a step of `LedSetOp` is one of `LedHal` or leaves it alone,
  so that `HalInvariance` holds here. With `MutexOK` (the mutex names the thread at
  work): `SetOpTypeCorrect`; with all threads in one process
  `OneProcessNeverContends`, since who holds the lock holds the mutex too.
  `SoloSucceeds` (no I/O errors) needs how far a request has come: `OnScript` ties
  the call under way to the script, `LightProgress` says what the calls made so
  far have achieved, from `led_reset` on, whatever was in the file.
* **Panel.** `ImplementsPanel`, the refinement, for an LP5562 that shows any look at
  first: any number of threads of one process
  that does not die, no I/O errors, a file that is whole or absent (`TroubleFree`;
  an empty one `led_init` never heals, and NO_LIGHT calls nothing else).
  `PanelInv` says how file and LED agree between two requests (`Rest`) and, besides
  `LightProgress`, what a NO_LIGHT under way keeps (`OffProgress`): of colour and
  brightness `LedPanel` says that they stay or are the default ones, since an
  absent file is made with those. Nothing is claimed of an AW210xx here.
* **LP5562.** `ProgramsFit` and `NeverStopsInABlink`, for every width of `uint32_t`,
  brightness and action, also one that passed its check because it wrapped: lemmas
  on `Hold`, `Then` and `Repeat` bound the words of each part and say that each is
  a whole command; the engine's invariant is that it is in such a program and
  meets `End` only after a steady light.
  `ShowsTheWave`, the refinement `WaveSpec`, which exempts by name the actions that
  are `Wrapped`, and the bound on a round in `LpTypeCorrect`, which exempts none:
  the loops of a program, one within the other, add up to the times it was compiled
  from, and those are the milliseconds asked for where ten times a time fits
  (`StepsAsAsked`; `NotWrapped` says that an accepted action other than a `Wrapped`
  one has such times only). `Layout` says which words a program has where (`LaidOut`);
  `LightGoes`, that a step within one light goes on with it or ends it, with
  `Elapsed` steps of its time over, a function of the word and the count of its
  branch. `WInv` says where in its round the engine is (`Phase`: lit, dark, about
  to count a beat, resting, over) and that the clock is `Beats` whole beats and
  what has elapsed of this one. `PhaseStep` has one lemma for each, and for each
  step that the light was right while time passed (`Moves`, against `Glow`).
* **Device.** `TypeCorrect`, `LpTakesEffect`, `AwTakesEffect`: `SoloInv` says what the
  commands given so far have done to the chip (`LpWork`, `AwWork`) for a process
  that is alone and has lost no command, whatever was there before, and that an
  owner is only named while nobody is at work.
* **XW colours.** `XwTypeCorrect`; `NothingTorn`, whatever anybody does to the files;
  `SoloGets`, from how far a process that is alone has got (`SoloWork`) and from
  what holds whoever is at work (`Anyway`).
* **XW link.** `LinkTypeCorrect`, `LastRequestShown`: while nothing is lost, what is
  on its way is the rest of the script in order, after older calls (`InOrder`), and
  the XW is as the calls executed so far have made it (`Done`).

* **Why things end.** What TLC's liveness runs rest on is proved as far as it is a
  fact about steps: a bound on the steps to go that every own step lowers and no
  step of anybody else raises. `CallsShorten` (at most 10 system calls, behind
  `CallsReturn`), `RequestsShorten` (at most 67 steps with the mutex, behind
  `NeverBusyForEver`), `InitShortens` (behind `InitReturns`: nothing removes the copy,
  so a call fetches it at most once) and `LoopsShortly` (main() sleeps again within
  37 steps unless it is caught in the loop of an incompatible XW, behind the
  liveness of the daemon). What remains is that a step not yet made can be made,
  which needs ENABLED, and that it will be, which is the fairness.

Model-checked only: liveness itself (`Settles`, `WorkingWhenOnline`,
`TroubleWhenCutOff`, `XwCatchesUp`, `CallsReturn`, `NeverBusyForEver`, `RoundsEnd`,
`SoloIsShown`, `InitReturns`), which under fairness is out of the prover's reach.
Every invariant and every safety property of the passing runs is proved.

## 5. Not modelled

* A daemon over `LedSetOp`, `LedDevice` and `XwLink` in one state space: the layers
  are checked one by one, each for any caller of the one above; their product is
  too large for TLC. That a request of the daemon shows its look is what
  `SoloSucceeds` and `LastRequestShown` say; that it may leave something else
  (`Spoilt`, `Mixed`) is what they do not say.
* `ledmgr_init`'s table of camera colours: one pass over strings of `system.conf`,
  by one thread; whether it reaches `led_xw_init` is in `XwColors`.
* `xw_led_resetAll`, `xw_led_setEnable`, `xw_led_applyAllSettings`,
  `xw_led_getErrorMsg`, `xw_led_getVersion`: nobody calls them.
* The file descriptors that early returns of `led_xw_init` leave open.
* I/O errors are part of `LedHal`; of a request that meets one nothing is
  promised, since its result is ignored. What exactly its panel then shows is not
  computed: `Spoilt` is a parameter.
* Of an AW210xx, `ledmgr_setOp` in one model with the background jobs: `LedHal` has
  the file, `LedDevice` the device.
* Logging, option parsing, `ledmain.c` and `ledhal_stubs.c` (not built), build files.

What could still be done: the requests of several LEDs under one mutex; a bound on
the steps of a round, as there is one for calls, requests and main(), for
`RoundsEnd`.

## 6. Running

    tlc -workers 2 -config LedHal_calls.cfg MCLedHal.tla
    tlapm LedHal_proofs.tla

The `.cfg` of a run is named in PROJECT.json; the longest takes about three minutes.
