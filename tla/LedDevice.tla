------------------------------ MODULE LedDevice ------------------------------
(***************************************************************************)
(* What led_applySettings of ledhal.c does to the chip behind a front      *)
(* panel, command by command. Nothing keeps two processes from doing it at *)
(* once, and one may die between two commands. The board has one of two    *)
(* chips: an LP5562, whose engines are stopped, loaded one by one through  *)
(* sysfs and started, or an AW210xx, which is left to background jobs of a *)
(* shell: an echo for a steady light, a script for a blinking one.         *)
(***************************************************************************)
EXTENDS Naturals

CONSTANTS
  Procs,      \* the processes that apply settings
  N,          \* channels, each with its engine: 3
  Steady,     \* the looks (colour, brightness, action) with Led_ON or Led_OFF
  Blinking,   \* those with Led_BLINK or Led_SEQ_BLINK
  NoLook,     \* none of them
  Asked,      \* Asked[chip]: the looks explored for each chip
  Unlucky,    \* the processes some of whose commands may fail
  MaxLate     \* bound: echoes of one look that are outstanding at once

Looks    == Steady \cup Blinking
Channels == 1..N

ASSUME DeviceAssumption ==
  /\ N \in Nat \ {0} /\ MaxLate \in Nat \ {0}
  /\ Steady \cap Blinking = {} /\ NoLook \notin Looks
  /\ Asked \in [{"lp5562", "aw210xx"} -> SUBSET Looks]
  /\ Unlucky \subseteq Procs

VARIABLES
  chip,      \* "lp5562", or "aw210xx": LEDS_CHIP_AW210XX_FILE is there
  pc,        \* pc[p]: the next command of p's led_applySettings
  channel,   \* channel[p]: the index of its loop
  want,      \* want[p]: the configuration it has read
  current,   \* LP5562: the current of each channel, as the look it is from
  selected,  \* LP5562: select_engine
  loading,   \* LP5562: firmware/lp5562/loading
  buffer,    \* LP5562: firmware/lp5562/data
  engine,    \* LP5562: the program in each engine
  running,   \* LP5562: run_engine
  late,      \* AW210xx: how many echoes of a look are outstanding
  script,    \* AW210xx: the look each process' led_functions.sh shows
  light,     \* AW210xx: the look last written to it
  solo,      \* history: has p been alone with the device since it began, and
             \* was none of its commands lost?
  clean,     \* history: was no echo outstanding when p began?
  owner      \* history: the last to apply settings, if it was alone all along

lpVars  == <<current, selected, loading, buffer, engine, running>>
awVars  == <<late, script, light>>
vars    == <<chip, pc, channel, want, lpVars, awVars, solo, clean, owner>>

\* The program led_transfer_command_to_lp5562_program makes of l for channel c.
Program(c, l) == [channel |-> c, look |-> l]
Blank         == [channel |-> 0, look |-> NoLook]
Programs      == [channel : Channels, look : Looks] \cup {Blank}

NoOwner == [by |-> NoLook, look |-> NoLook, clean |-> FALSE]
Owners  == [by : Procs, look : Looks, clean : BOOLEAN]

Init ==
  /\ chip \in {"lp5562", "aw210xx"}
  /\ pc = [p \in Procs |-> "idle"] /\ channel = [p \in Procs |-> 1]
  /\ want = [p \in Procs |-> NoLook]
  /\ current = [c \in Channels |-> NoLook] /\ engine = [c \in Channels |-> Blank]
  /\ selected = 1 /\ loading = FALSE /\ buffer = Blank /\ running = FALSE
  /\ late = [l \in Steady |-> 0] /\ script = [p \in Procs |-> NoLook]
  /\ light = NoLook
  /\ solo = [p \in Procs |-> FALSE] /\ clean = [p \in Procs |-> FALSE]
  /\ owner = NoOwner

NoneLate == \A l \in Steady : late[l] = 0

\* led_applySettings has read its configuration and chosen by the chip.
Begin(p, l) ==
  /\ pc[p] = "idle"
  /\ pc' = [pc EXCEPT ![p] = IF chip = "lp5562" THEN "current" ELSE "kill"]
  /\ want' = [want EXCEPT ![p] = l]
  /\ solo' = [q \in Procs |-> q = p /\ \A r \in Procs : pc[r] = "idle"]
  /\ clean' = [clean EXCEPT ![p] = NoneLate]
  /\ owner' = NoOwner
  /\ UNCHANGED <<chip, channel, lpVars, awVars>>

Command(p, l) == pc[p] = l /\ UNCHANGED chip

Goto(p, l) ==
  pc' = [pc EXCEPT ![p] = l] /\ UNCHANGED <<channel, want, solo, clean, owner>>

\* The next channel's turn, or else on to the next command.
Advance(p, same, next) ==
  /\ pc' = [pc EXCEPT ![p] = IF channel[p] < N THEN same ELSE next]
  /\ channel' = [channel EXCEPT ![p] = IF @ < N THEN @ + 1 ELSE 1]
  /\ UNCHANGED <<want, clean, owner>>

NextChannel(p, same, next) == Advance(p, same, next) /\ UNCHANGED solo

Return(p, newOwner) ==
  /\ pc' = [pc EXCEPT ![p] = "idle"] /\ channel' = [channel EXCEPT ![p] = 1]
  /\ want' = [want EXCEPT ![p] = NoLook]
  /\ solo' = [solo EXCEPT ![p] = FALSE] /\ clean' = [clean EXCEPT ![p] = FALSE]
  /\ owner' = newOwner

\* Done: p is the owner if nobody came in between.
Succeed(p) ==
  Return(p, IF solo[p] THEN [by |-> p, look |-> want[p], clean |-> clean[p]]
                       ELSE NoOwner)
-----------------------------------------------------------------------------
(* The LP5562.                                                             *)

\* /dev/i2c does not open, or refuses the address: the programs stay as well.
NoI2c(p) == /\ Command(p, "current") /\ channel[p] = 1
            /\ Return(p, NoOwner) /\ UNCHANGED <<lpVars, awVars>>

\* i2c_smbus_write_byte_data
Current(p) ==
  /\ Command(p, "current")
  /\ current' = [current EXCEPT ![channel[p]] = want[p]]
  /\ NextChannel(p, "current", "stop")
  /\ UNCHANGED <<selected, loading, buffer, engine, running, awVars>>

\* echo 0 > run_engine
Stop(p) == /\ Command(p, "stop") /\ Goto(p, "select")
           /\ running' = FALSE
           /\ UNCHANGED <<current, selected, loading, buffer, engine, awVars>>

\* Mutant: the engine is selected once, before the loop.
SelectOnce(p) ==
  /\ Command(p, "select") /\ Goto(p, "start")
  /\ selected' = IF channel[p] = 1 THEN 1 ELSE selected
  /\ UNCHANGED <<current, loading, buffer, engine, running, awVars>>

\* echo i > select_engine
Select(p) == /\ Command(p, "select") /\ Goto(p, "start")
             /\ selected' = channel[p]
             /\ UNCHANGED <<current, loading, buffer, engine, running, awVars>>

\* echo 1 > loading: a new, empty firmware
StartLoading(p) ==
  /\ Command(p, "start") /\ Goto(p, "data")
  /\ loading' = TRUE /\ buffer' = Blank
  /\ UNCHANGED <<current, selected, engine, running, awVars>>

\* echo program > data, which is there while loading
Data(p) ==
  /\ Command(p, "data") /\ Goto(p, "end")
  /\ buffer' = IF loading THEN Program(channel[p], want[p]) ELSE buffer
  /\ UNCHANGED <<current, selected, loading, engine, running, awVars>>

\* Mutant: the loop ends one channel late.
EndLoadingLate(p) ==
  /\ Command(p, "end")
  /\ engine' = IF loading THEN [engine EXCEPT ![selected] = buffer] ELSE engine
  /\ loading' = FALSE
  /\ pc' = [pc EXCEPT ![p] = IF channel[p] <= N THEN "select" ELSE "run"]
  /\ channel' = [channel EXCEPT ![p] = IF @ <= N THEN @ + 1 ELSE 1]
  /\ UNCHANGED <<want, solo, clean, owner, current, selected, buffer, running,
                 awVars>>

\* echo 0 > loading: what was loaded goes to the engine selected by now
EndLoading(p) ==
  /\ Command(p, "end") /\ NextChannel(p, "select", "run")
  /\ engine' = IF loading THEN [engine EXCEPT ![selected] = buffer] ELSE engine
  /\ loading' = FALSE
  /\ UNCHANGED <<current, selected, buffer, running, awVars>>

\* echo 1 > run_engine
Run(p) == /\ Command(p, "run") /\ Succeed(p)
          /\ running' = TRUE
          /\ UNCHANGED <<current, selected, loading, buffer, engine, awVars>>
-----------------------------------------------------------------------------
(* The AW210xx.                                                            *)

\* Mutant: a process kills its own script only.
KillOwn(p) == /\ Command(p, "kill") /\ Goto(p, "send")
              /\ script' = [script EXCEPT ![p] = NoLook]
              /\ UNCHANGED <<lpVars, late, light>>

\* kill -9 of every led_functions there is, whoever started it. ps, grep and
\* kill are one step; an echo has no such name and is not found.
Kill(p) == /\ Command(p, "kill") /\ Goto(p, "send")
           /\ script' = [q \in Procs |-> NoLook]
           /\ UNCHANGED <<lpVars, late, light>>

\* Mutant: the blinking looks are forgotten.
SendSteadyOnly(p) ==
  /\ Command(p, "send") /\ Succeed(p)
  /\ \/ /\ want[p] \in Steady /\ late[want[p]] < MaxLate
        /\ late' = [late EXCEPT ![want[p]] = @ + 1]
     \/ want[p] \in Blinking /\ UNCHANGED late
  /\ UNCHANGED <<lpVars, light, script>>

\* led_apply_aw21009_setting: a job is put into the background.
Send(p) ==
  /\ Command(p, "send") /\ Succeed(p)
  /\ \/ /\ want[p] \in Steady /\ late[want[p]] < MaxLate
        /\ late' = [late EXCEPT ![want[p]] = @ + 1]
        /\ UNCHANGED script
     \/ /\ want[p] \in Blinking
        /\ script' = [script EXCEPT ![p] = want[p]]
        /\ UNCHANGED late
  /\ UNCHANGED <<lpVars, light>>

applyVars == <<chip, pc, channel, want, lpVars, solo, clean, owner>>

\* An echo of l reaches the device; there is no order among them.
Land(l) == /\ late[l] > 0
           /\ late' = [late EXCEPT ![l] = @ - 1] /\ light' = l
           /\ UNCHANGED <<applyVars, script>>

\* A script goes on showing its look, its process dead or alive.
ScriptWrites(p) == /\ script[p] # NoLook
                   /\ light' = script[p]
                   /\ UNCHANGED <<applyVars, late, script>>
-----------------------------------------------------------------------------
(* Commands that fail.                                                     *)

\* The command after each outside the ends of the two loops.
Following == {<<"stop", "select">>, <<"select", "start">>, <<"start", "data">>,
              <<"data", "end">>, <<"kill", "send">>}

\* An i2c write or a command of the shell fails: nobody looks at the result.
Lost(p) ==
  /\ p \in Unlucky
  /\ UNCHANGED <<chip, lpVars, awVars>>
  /\ \/ /\ \/ pc[p] = "current" /\ Advance(p, "current", "stop")
           \/ pc[p] = "end" /\ Advance(p, "select", "run")
           \/ /\ \E f \in Following : /\ pc[p] = f[1]
                                      /\ pc' = [pc EXCEPT ![p] = f[2]]
              /\ UNCHANGED <<channel, want, clean, owner>>
        /\ solo' = [solo EXCEPT ![p] = FALSE]
     \/ pc[p] \in {"run", "send"} /\ Return(p, NoOwner)

\* A process dies between two commands. What it has started goes on.
Crash(p) == /\ pc[p] # "idle" /\ Return(p, NoOwner)
            /\ UNCHANGED <<chip, lpVars, awVars>>

Step(p) == \/ NoI2c(p) \/ Current(p) \/ Stop(p) \/ Select(p) \/ StartLoading(p)
           \/ Data(p) \/ EndLoading(p) \/ Run(p) \/ Kill(p) \/ Send(p) \/ Lost(p)

Next == \/ \E p \in Procs : \/ \E l \in Asked[chip] : Begin(p, l)
                            \/ Step(p) \/ Crash(p) \/ ScriptWrites(p)
        \/ \E l \in Steady : Land(l)

Spec == Init /\ [][Next]_vars

\* A background job runs. Nothing is assumed of the processes.
FairSpec == /\ Spec
            /\ \A l \in Steady : WF_vars(Land(l))
            /\ \A p \in Procs : WF_vars(ScriptWrites(p))
-----------------------------------------------------------------------------
Labels == {"idle", "current", "stop", "select", "start", "data", "end", "run",
           "kill", "send"}

\* Type correctness.
TypeOK ==
  /\ chip \in {"lp5562", "aw210xx"}
  /\ pc \in [Procs -> Labels] /\ channel \in [Procs -> Channels]
  /\ want \in [Procs -> Looks \cup {NoLook}]
  /\ current \in [Channels -> Looks \cup {NoLook}]
  /\ selected \in Channels /\ loading \in BOOLEAN /\ running \in BOOLEAN
  /\ buffer \in Programs /\ engine \in [Channels -> Programs]
  /\ late \in [Steady -> 0..MaxLate] /\ script \in [Procs -> Looks \cup {NoLook}]
  /\ light \in Looks \cup {NoLook}
  /\ solo \in [Procs -> BOOLEAN] /\ clean \in [Procs -> BOOLEAN]
  /\ owner \in Owners \cup {NoOwner}

\* A process that had the LP5562 for itself and lost no command leaves it showing
\* its look, all of it, on every channel and running: whatever engine another had
\* selected or half loaded, and wherever a crash or a failure had left it.
SoloRunsItsPrograms ==
  chip = "lp5562" /\ owner # NoOwner =>
    /\ running
    /\ \A c \in Channels : /\ current[c] = owner.look
                           /\ engine[c] = Program(c, owner.look)

\* A process that had the AW210xx for itself, likewise, leaves one script, its own, if its
\* look blinks, and none if it does not: no script of a look gone by goes on.
\* Where no echo was outstanding before, the last word is then its own, too.
SoloHasTheLastWord ==
  chip = "aw210xx" /\ owner # NoOwner =>
    /\ script = [p \in Procs |-> IF p = owner.by /\ owner.look \in Blinking
                                   THEN owner.look ELSE NoLook]
    /\ owner.clean =>
         /\ \A l \in Steady : late[l] > 0 => l = owner.look
         /\ owner.look \in Steady /\ NoneLate => light = owner.look

\* Liveness: the AW210xx comes to show the look of a process that was alone
\* with it, unless it is asked for another before. An echo that was outstanding
\* when the process began may still be the last one to reach the device.
SoloIsShown ==
  chip = "aw210xx" /\ owner.clean ~> owner = NoOwner \/ light = owner.look
=============================================================================
