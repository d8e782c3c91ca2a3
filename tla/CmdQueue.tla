------------------------------- MODULE CmdQueue -------------------------------
(***************************************************************************)
(* What the consoles run, components/shell/command.c and the rest of       *)
(* shell.c: a command whose function asks to be repeated becomes a task of *)
(* its console, which is called in every round of the background loop      *)
(* until it asks no more or is killed; pause stops the tasks of a console, *)
(* a trap hands its lines to one command.  Everything happens in one       *)
(* thread; a call of a function is one step, and what it answers is up to  *)
(* it.                                                                     *)
(*                                                                         *)
(* A line is a record of the words the code looks at.  Left out: functions *)
(* that run lines themselves, a trap that asks to repeat a pause or a      *)
(* kill, and consoles that come and go.                                    *)
(***************************************************************************)
EXTENDS Integers, SequencesExt

CONSTANTS
    Console,
    TaskName,   \* the commands that may ask to be repeated
    MaxTasks,   \* bound: the tasks of a console
    Nothing     \* no console, no trap, no word

ASSUME CmdQueueAssumption == Nothing \notin Console \cup TaskName /\ MaxTasks \in Nat

VARIABLES
    cmd_list, cmd_flag, trap,   \* the cmd_queue_s of each console; cmd_flag, its flag: paused
    locked,                 \* SHELL_CONFIG_LOCK
    console, todo,          \* the one shell_Update is at, and how many tasks of
                            \* it are still to be called
    killing                 \* history: the last step has run this kill, there

cmdVars == <<cmd_list, cmd_flag, trap, locked, console, todo, killing>>

Idle == [console |-> Nothing, words |-> <<>>]

CmdQueueInit ==
    /\ cmd_list = [c \in Console |-> <<>>] /\ cmd_flag = [c \in Console |-> FALSE]
    /\ trap = [c \in Console |-> Nothing] /\ locked = [c \in Console |-> FALSE]
    /\ console = Nothing /\ todo = 0 /\ killing = Idle

Call(n)     == [cmd |-> n, words |-> <<>>]
Pause(word) == [cmd |-> "pause", words |-> <<word>>]
Kill(words) == [cmd |-> "kill", words |-> words]

CmdLine == {Call(n) : n \in TaskName}
           \cup {Pause(word) : word \in {Nothing, "on", "off"}}
           \cup {Kill(words) : words \in SeqOf(TaskName \cup {"all"}, 2)}
-----------------------------------------------------------------------------
\* The trap of a console takes every line that does not call for it.
Trapped(c, line) == trap[c] \notin {Nothing, line.cmd}

\* The line is done, or becomes a task, the first of the list.
RunLine(c, line) ==
    /\ Trapped(c, line) \/ line.cmd \in TaskName
    /\ \/ UNCHANGED cmd_list
       \/ /\ line.cmd \in TaskName /\ Len(cmd_list[c]) < MaxTasks
          /\ cmd_list' = [cmd_list EXCEPT ![c] = <<line.cmd>> \o @]
    /\ killing' = Idle
    /\ UNCHANGED cmd_flag

\* Without a word, the other way round.
cmd_pause_func(c, line) ==
    /\ ~Trapped(c, line) /\ line.cmd = "pause"
    /\ cmd_flag' = [cmd_flag EXCEPT ![c] = IF line.words[1] = Nothing THEN ~@ ELSE line.words[1] = "on"]
    /\ killing' = Idle
    /\ UNCHANGED cmd_list

\* The first task that each word fits is closed and removed; the words after one
\* that fits none are not looked at.
Fitting(list, word) == SelectInSeq(list, LAMBDA name : word \in {name, "all"})

Killed(list, words) ==
    LET kill(rest, word) ==
            IF rest.stop THEN rest
            ELSE IF Fitting(rest.list, word) = 0 THEN [rest EXCEPT !.stop = TRUE]
            ELSE [rest EXCEPT !.list = RemoveAt(@, Fitting(@, word))]
    IN  FoldLeft(kill, [list |-> list, stop |-> FALSE], words).list

cmd_kill_func(c, line) ==
    /\ ~Trapped(c, line) /\ line.cmd = "kill"
    /\ cmd_list' = [cmd_list EXCEPT ![c] = Killed(@, line.words)]
    /\ killing' = [console |-> c, words |-> line.words]
    /\ UNCHANGED cmd_flag

cmd_queue_exec(c, line) ==
    /\ RunLine(c, line) \/ cmd_pause_func(c, line) \/ cmd_kill_func(c, line)
    /\ UNCHANGED <<trap, locked>>
-----------------------------------------------------------------------------
\* shell_Update comes to a console that is not locked.
Update(c) ==
    /\ console = Nothing /\ ~locked[c]
    /\ console' = c /\ todo' = IF cmd_flag[c] THEN 0 ELSE Len(cmd_list[c])
    /\ killing' = Idle
    /\ UNCHANGED <<cmd_list, cmd_flag, trap, locked>>

\* cmd_queue_update calls the next task, which stays if it, or the trap that is
\* called in its place, asks for that.
CallTask ==
    /\ todo > 0 /\ todo' = todo - 1
    /\ \/ UNCHANGED cmd_list
       \/ cmd_list' = [cmd_list EXCEPT ![console] = RemoveAt(@, Len(@) - todo + 1)]
    /\ killing' = Idle
    /\ UNCHANGED <<cmd_flag, trap, locked, console>>

\* Then it runs the line that has been entered there, if there is one.
EnterLine ==
    /\ console # Nothing /\ todo = 0
    /\ \/ \E line \in CmdLine : cmd_queue_exec(console, line)
       \/ killing' = Idle /\ UNCHANGED <<cmd_list, cmd_flag, trap, locked>>
    /\ console' = Nothing /\ UNCHANGED todo

\* The calls of other parts of the program, between two consoles.
Calls(c) ==
    /\ console = Nothing
    /\ \/ \E line \in CmdLine : cmd_queue_exec(c, line)     \* shell_exec_cmd
       \/ /\ \E cmd \in TaskName \cup {Nothing} : trap' = [trap EXCEPT ![c] = cmd]
          /\ killing' = Idle /\ UNCHANGED <<cmd_list, cmd_flag, locked>>
       \/ /\ \E on \in BOOLEAN : locked' = [locked EXCEPT ![c] = on]
          /\ killing' = Idle /\ UNCHANGED <<cmd_list, cmd_flag, trap>>
    /\ UNCHANGED <<console, todo>>

CmdQueueNext ==
    \/ \E c \in Console : Update(c) \/ Calls(c)
    \/ CallTask \/ EnterLine

CmdQueueSpec == CmdQueueInit /\ [][CmdQueueNext]_cmdVars
-----------------------------------------------------------------------------
\* The loop over a list that changes under it stays on the list.
CmdQueueTypeOK ==
    /\ cmd_list \in [Console -> SeqOf(TaskName, MaxTasks)]
    /\ cmd_flag \in [Console -> BOOLEAN] /\ locked \in [Console -> BOOLEAN]
    /\ trap \in [Console -> TaskName \cup {Nothing}]
    /\ console \in Console \cup {Nothing}
    /\ todo > 0 => console # Nothing /\ todo <= Len(cmd_list[console])

\* "kill all" (command.c:413, the line of ctrl-x in shell.c:288) leaves no task.
\* The loop over the tasks ends with the first that fits (command.c:439).
KillAllKillsAll == killing.words = <<"all">> => cmd_list[killing.console] = <<>>
=============================================================================
