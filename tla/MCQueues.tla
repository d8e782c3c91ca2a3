------------------------------- MODULE MCQueues -------------------------------
(***************************************************************************)
(* What waits for its turn: the items of a data queue, the bytes of a      *)
(* pipe, the lines of a console and the tasks it has started.  They are    *)
(* explored one at a time: part says which, and the others stay as they    *)
(* started.  The pipe has two readers and three writers on a pool of two   *)
(* bytes, and blocks that are shorter than it, fill it, and do not fit;    *)
(* what the bytes are plays no part.                                       *)
(***************************************************************************)
EXTENDS MCDataQueue, Pipe, ShellLine, CmdQueue

VARIABLE part

partVars == <<part, queueVars, pvars, lineVars, cmdVars>>

Queues(A) == part = "queue" /\ A /\ UNCHANGED <<part, pvars, lineVars, cmdVars>>
Pipes(A)  == part = "pipe" /\ A /\ UNCHANGED <<part, queueVars, lineVars, cmdVars>>
Lines(A)  == part = "line" /\ A /\ UNCHANGED <<part, queueVars, pvars, cmdVars>>
Tasks(A)  == part = "tasks" /\ A /\ UNCHANGED <<part, queueVars, pvars, lineVars>>

PartsInit == /\ part \in {"queue", "pipe", "line", "tasks"}
             /\ QueueInit /\ ShellLineInit /\ CmdQueueInit
             /\ PipeInit /\ (part # "pipe" => flag = {})

PartsNext == \/ Queues(QueueNext) \/ Pipes(PipeNext)
             \/ Lines(ShellLineNext) \/ Tasks(CmdQueueNext)

PartsSpec == PartsInit /\ [][PartsNext]_partVars

OneByte == {"b"}

\* The types of every part.
TypesOK == QueueTypeOK /\ PipeTypeOK /\ ShellLineTypeOK /\ CmdQueueTypeOK
===============================================================================
