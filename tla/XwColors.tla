------------------------------- MODULE XwColors -------------------------------
(***************************************************************************)
(* How a process comes by the colours of the XW: led_xw_init of ledmgr.c,  *)
(* which ledmgr_init and every request for the XW run, and xw_file_get of  *)
(* ledmgr_rtmsg.c. The XW's system.conf is copied once into a file that    *)
(* stays over boots; its lines are grepped, one command per colour, into   *)
(* a file in /tmp; that one is parsed into the table of the process.       *)
(* Processes share both files and lock neither. A command and the file it  *)
(* writes are one step.                                                    *)
(***************************************************************************)
EXTENDS Naturals, Sequences

CONSTANTS
  Procs,
  Connected,    \* processes that called rtConnection_Init: not ledtest
  N,            \* LED_MGR_COLOR_MAX
  InitRetries,  \* XW_INIT_MAX_RETRY
  NoFile,       \* no file
  Nobody        \* not a process

Colors == 1..N

ASSUME XwAssumption ==
  /\ N \in Nat \ {0, 1} /\ InitRetries \in Nat \ {0}
  /\ Connected \subseteq Procs /\ Nobody \notin Procs
  /\ NoFile \notin Seq(Colors)

VARIABLES
  copy,      \* xwsystem.conf: "absent", "empty" or "full"
  conf,      \* xw_led_conf: NoFile, or its lines, each that of a colour
  pc,        \* pc[p]: where p is in led_xw_init
  retry,     \* retry[p]: the parameter of the running call
  count,     \* count[p]: attempts
  line,      \* line[p]: the colour grepped next
  table,     \* table[p]: g_xwledColorVal
  inited,    \* inited[p]: led_xw_color_init
  solo,      \* history: has p been alone in led_xw_init since it called it?
  owner      \* history: the last to leave it, if it was alone all along

fileVars == <<copy, conf>>
callVars == <<pc, retry, count, line>>
vars     == <<fileVars, callVars, table, inited, solo, owner>>

\* An entry of the table: the default, a whole line of the XW's, the current of
\* red of one with the rest from before, or what was on the stack.
Junk  == <<"junk", 0>>
Entry == {<<"default", 0>>, Junk} \cup ({"line", "torn"} \X Colors)

DefaultTable == [c \in Colors |-> <<"default", 0>>]
Whole(c)     == <<"line", c>>

Init ==
  /\ copy \in {"absent", "empty", "full"} /\ conf = NoFile
  /\ pc = [p \in Procs |-> "start"]
  /\ retry = [p \in Procs |-> 1] /\ count = [p \in Procs |-> 1]
  /\ line = [p \in Procs |-> 1]
  /\ table = [p \in Procs |-> DefaultTable] /\ inited = [p \in Procs |-> FALSE]
  /\ solo = [p \in Procs |-> FALSE] /\ owner = Nobody

Outside == {"start", "idle"}

\* led_xw_init(r) is called, by a process that has not succeeded in it before.
Call(p, r) ==
  /\ pc' = [pc EXCEPT ![p] = "access"]
  /\ retry' = [retry EXCEPT ![p] = r] /\ count' = [count EXCEPT ![p] = 1]
  /\ solo' = [q \in Procs |-> q = p /\ \A o \in Procs : pc[o] \in Outside]
  /\ owner' = Nobody
  /\ UNCHANGED <<fileVars, line, table, inited>>

\* ledmgr_init: a colour of the camera's system.conf that does not parse ends
\* it early; a file that cannot be read does not.
ledmgr_init(p) ==
  /\ pc[p] = "start"
  /\ \/ Call(p, InitRetries)
     \/ /\ pc' = [pc EXCEPT ![p] = "idle"]
        /\ UNCHANGED <<fileVars, retry, count, line, table, inited, solo, owner>>

\* led_xw_setOp
Request(p) == pc[p] = "idle" /\ ~inited[p] /\ Call(p, 1)

Goto(p, l) == pc' = [pc EXCEPT ![p] = l]

\* Mutants: one attempt too many; the file looked for is another one.
AccessOnceMore(p) ==
  /\ pc[p] = "access"
  /\ Goto(p, IF count[p] > retry[p] + 1 THEN "parse"
             ELSE IF copy = "absent" THEN "get" ELSE "grep")
  /\ UNCHANGED <<fileVars, retry, count, line, table, inited, solo, owner>>
AccessElsewhere(p) ==
  /\ pc[p] = "access"
  /\ Goto(p, IF count[p] > retry[p] THEN "parse" ELSE "get")
  /\ UNCHANGED <<fileVars, retry, count, line, table, inited, solo, owner>>

\* The head of the loop, and access(): what is there need not be fetched.
Access(p) ==
  /\ pc[p] = "access"
  /\ Goto(p, IF count[p] > retry[p] THEN "parse"
             ELSE IF copy = "absent" THEN "get" ELSE "grep")
  /\ UNCHANGED <<fileVars, retry, count, line, table, inited, solo, owner>>

\* xw_file_get: the XW does not send its file, and the attempt counts,
GetFails(p) ==
  /\ pc[p] = "get" /\ Goto(p, "access")
  /\ count' = [count EXCEPT ![p] = @ + 1]
  /\ UNCHANGED <<fileVars, retry, line, table, inited, solo, owner>>

\* or it does, and fopen empties the copy. The lines are written by fclose.
Get(p) == /\ pc[p] = "get" /\ p \in Connected /\ Goto(p, "fill")
          /\ copy' = "empty"
          /\ UNCHANGED <<conf, retry, count, line, table, inited, solo, owner>>

\* An attempt that succeeds does not count.
Fill(p) == /\ pc[p] = "fill" /\ Goto(p, "access")
           /\ copy' = "full"
           /\ UNCHANGED <<conf, retry, count, line, table, inited, solo, owner>>

\* Mutant: the first line is appended, too.
GrepAppends(p) ==
  /\ pc[p] = "grep"
  /\ conf' = (IF conf = NoFile THEN <<>> ELSE conf)
             \o (IF copy = "full" THEN <<line[p]>> ELSE <<>>)
  /\ Goto(p, IF line[p] < N THEN "grep" ELSE "parse")
  /\ line' = [line EXCEPT ![p] = IF @ < N THEN @ + 1 ELSE 1]
  /\ UNCHANGED <<copy, retry, count, table, inited, solo, owner>>

\* grep led_color<line>: > for the first, >> for the others.
Grep(p) ==
  /\ pc[p] = "grep"
  /\ conf' = (IF line[p] = 1 \/ conf = NoFile THEN <<>> ELSE conf)
             \o (IF copy = "full" THEN <<line[p]>> ELSE <<>>)
  /\ Goto(p, IF line[p] < N THEN "grep" ELSE "parse")
  /\ line' = [line EXCEPT ![p] = IF @ < N THEN @ + 1 ELSE 1]
  /\ UNCHANGED <<copy, retry, count, table, inited, solo, owner>>

\* What the parse of the lines makes of t. After the last line fgets leaves
\* what strtok has left of it, its first number; before any line, the stack,
\* which may hold nothing, a number, or by chance a line.
Parsed(t, lines) ==
  LET k == Len(lines)
      read == [c \in Colors |-> IF c <= k THEN Whole(lines[c]) ELSE t[c]]
  IN  IF k >= N     THEN {read}
      ELSE IF k > 0 THEN {[read EXCEPT ![k + 1] = <<"torn", lines[k]>>]}
      ELSE {t, [t EXCEPT ![1] = Junk], [t EXCEPT ![1] = Junk, ![2] = Junk]}

Leave(p) ==
  /\ Goto(p, "idle") /\ retry' = [retry EXCEPT ![p] = 1]
  /\ count' = [count EXCEPT ![p] = 1]
  /\ solo' = [solo EXCEPT ![p] = FALSE]
  /\ owner' = IF solo[p] THEN p ELSE Nobody
  /\ UNCHANGED <<fileVars, line>>

\* Mutant: a missing number ends the parse as the last line does.
ParseShort(p) ==
  /\ pc[p] = "parse" /\ Leave(p)
  /\ \/ conf = NoFile /\ UNCHANGED <<table, inited>>
     \/ /\ conf # NoFile
        /\ \E t \in Parsed(table[p], conf) : table' = [table EXCEPT ![p] = t]
        /\ inited' = [inited EXCEPT ![p] = TRUE]

\* No file, or too few lines: LED_MGR_ERR_GENERAL, the lines there are kept.
Parse(p) ==
  /\ pc[p] = "parse" /\ Leave(p)
  /\ \/ conf = NoFile /\ UNCHANGED <<table, inited>>
     \/ /\ conf # NoFile
        /\ \E t \in Parsed(table[p], conf) : table' = [table EXCEPT ![p] = t]
        /\ inited' = [inited EXCEPT ![p] = Len(conf) >= N]

\* The process ends, or dies; the next one starts afresh.
Die(p) ==
  /\ pc[p] # "start" /\ Goto(p, "start")
  /\ retry' = [retry EXCEPT ![p] = 1] /\ count' = [count EXCEPT ![p] = 1]
  /\ line' = [line EXCEPT ![p] = 1]
  /\ table' = [table EXCEPT ![p] = DefaultTable]
  /\ inited' = [inited EXCEPT ![p] = FALSE]
  /\ solo' = [solo EXCEPT ![p] = FALSE]
  /\ owner' = IF owner = p THEN Nobody ELSE owner
  /\ UNCHANGED fileVars

Step(p) == Access(p) \/ GetFails(p) \/ Get(p) \/ Fill(p) \/ Grep(p) \/ Parse(p)

Next == \E p \in Procs : ledmgr_init(p) \/ Request(p) \/ Step(p) \/ Die(p)

Spec == Init /\ [][Next]_vars

\* A call goes on.
FairSpec == Spec /\ \A p \in Procs : WF_vars(Step(p))
-----------------------------------------------------------------------------
Labels == Outside \cup {"access", "get", "fill", "grep", "parse"}

\* Type correctness; a call makes no more attempts than it was told to.
TypeOK ==
  /\ copy \in {"absent", "empty", "full"} /\ conf \in Seq(Colors) \cup {NoFile}
  /\ pc \in [Procs -> Labels] /\ line \in [Procs -> Colors]
  /\ retry \in [Procs -> {1, InitRetries}]
  /\ count \in [Procs -> Nat] /\ \A p \in Procs : count[p] <= retry[p] + 1
  /\ table \in [Procs -> [Colors -> Entry]] /\ inited \in [Procs -> BOOLEAN]
  /\ solo \in [Procs -> BOOLEAN] /\ owner \in Procs \cup {Nobody}

\* A process that believes in its colours has a whole line for each: it never
\* settles for a table that was filled in part or from the stack.
NothingTornKept ==
  \A p \in Procs : inited[p] => \A c \in Colors : table[p][c][1] = "line"

\* A process that had the files for itself leaves led_xw_init with the colour
\* of every name, its own, if there is a whole copy, whatever others have left
\* in /tmp; and otherwise knows that it has none.
SoloGetsColors ==
  owner # Nobody =>
    IF copy = "full" THEN inited[owner] /\ table[owner] = [c \in Colors |-> Whole(c)]
    ELSE ~inited[owner]

\* Liveness: led_xw_init returns, though an attempt that fetches the file does
\* not count and others may be writing the files: main() and every request for
\* the XW wait for it.
InitReturns == \A p \in Procs : pc[p] \notin Outside ~> pc[p] \in Outside
=============================================================================
