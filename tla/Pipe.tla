--------------------------------- MODULE Pipe ---------------------------------
(***************************************************************************)
(* The pipe device of common/pipe.c, on the ring buffer of RingBuf: the    *)
(* threads that read and write it may wait for bytes and for room, as its  *)
(* flags say.                                                              *)
(*                                                                         *)
(* A section with interrupts disabled is one step.  The kernel (suspend,   *)
(* resume) is external, any ready thread may run next, and rx_indicate     *)
(* belongs to the user of the pipe and does not touch it.                  *)
(***************************************************************************)
EXTENDS RingBuf, FiniteSets

CONSTANTS Reader, Writer    \* the threads that read, and those that write

ASSUME PipeAssumption == Reader \cap Writer = {}

PipeThread == Reader \cup Writer
Flags  == {"BLOCK_RD", "BLOCK_WR", "FORCE_WR"}

VARIABLES
    flag,                   \* a set of Flags
    read_list, write_list,  \* suspended_read_list and suspended_write_list
    pipe_state,             \* of a thread: running, suspended, or resumed
    want,                   \* the size a suspended or resumed reader asks for
    block,                  \* the buffer a suspended or resumed writer passes
    readers_crowded         \* history: two readers have waited at the same time

lists == <<read_list, write_list, pipe_state, want, block>>
pvars == <<vars, flag, lists, readers_crowded>>

\* rt_pipe_init
PipeInit ==
    /\ Init
    /\ flag \in SUBSET Flags
    /\ read_list = <<>> /\ write_list = <<>>
    /\ pipe_state = [t \in PipeThread |-> "run"]
    /\ want = [r \in Reader |-> 0]
    /\ block = [w \in Writer |-> <<>>]
    /\ readers_crowded = FALSE
-----------------------------------------------------------------------------
\* RT_PIPE_FLAG_FORCE_WR makes RT_PIPE_FLAG_BLOCK_WR ignored.
ReadBlocks  == "BLOCK_RD" \in flag
WriteBlocks == "BLOCK_WR" \in flag /\ "FORCE_WR" \notin flag

\* What becomes of the threads when t returns and the first of a list, if there
\* is one, is resumed.
Resumed(t, list) ==
    [u \in PipeThread |-> IF list # <<>> /\ u = Head(list) THEN "ready"
                      ELSE IF u = t THEN "run" ELSE pipe_state[u]]

Remaining(list) == IF list = <<>> THEN <<>> ELSE Tail(list)

\* Mutants: the writer is resumed and stays on the list; nobody is resumed; a
\* writer is resumed only if the pipe was full.
resume_writer_kept(t) ==
    /\ pipe_state' = Resumed(t, write_list)
    /\ UNCHANGED <<read_list, write_list>>

resume_writer_never(t) ==
    /\ pipe_state' = Resumed(t, <<>>)
    /\ UNCHANGED <<read_list, write_list>>

resume_writer_when_full(t) ==
    /\ pipe_state' = Resumed(t, IF Full THEN write_list ELSE <<>>)
    /\ write_list' = IF Full THEN Remaining(write_list) ELSE write_list
    /\ UNCHANGED read_list

resume_writer(t) ==
    /\ pipe_state' = Resumed(t, write_list)
    /\ write_list' = Remaining(write_list)
    /\ UNCHANGED read_list

\* Mutant: a write resumes a reader only if it has filled the pipe.
resume_reader_when_full(t) ==
    /\ pipe_state' = Resumed(t, IF count' = Size THEN read_list ELSE <<>>)
    /\ read_list' = IF count' = Size THEN Remaining(read_list) ELSE read_list
    /\ UNCHANGED write_list

resume_reader(t) ==
    /\ pipe_state' = Resumed(t, read_list)
    /\ read_list' = Remaining(read_list)
    /\ UNCHANGED write_list

Wait(t)   == pipe_state' = [pipe_state EXCEPT ![t] = "wait"]
Return(t)  == pipe_state' = [pipe_state EXCEPT ![t] = "run"]
-----------------------------------------------------------------------------
\* The section of rt_pipe_read, entered by a call and by a resumed reader.
ReadSection(t, size) ==
    /\ ringbuf_get(size)
    /\ UNCHANGED <<flag, block>>
    /\ \/ /\ count' # 0
          /\ resume_writer(t)
          /\ want' = [want EXCEPT ![t] = 0]
          /\ UNCHANGED readers_crowded
       \/ /\ count' = 0 /\ ReadBlocks
          /\ Wait(t)
          /\ read_list' = Append(read_list, t)
          /\ want' = [want EXCEPT ![t] = size]
          /\ readers_crowded' = (readers_crowded \/ read_list # <<>>)
          /\ UNCHANGED write_list
       \/ /\ count' = 0 /\ ~ReadBlocks
          /\ UNCHANGED <<lists, readers_crowded>>

rt_pipe_read(t, size) == pipe_state[t] = "run" /\ ReadSection(t, size)

ReadResumed(t) == pipe_state[t] = "ready" /\ ReadSection(t, want[t])

\* The section of rt_pipe_write.
PutPlain(t, data) ==
    /\ ringbuf_put(data)
    /\ \/ /\ count' # 0 \/ ~WriteBlocks
          /\ resume_reader(t)
          /\ block' = [block EXCEPT ![t] = <<>>]
       \/ /\ count' = 0 /\ WriteBlocks
          /\ Wait(t)
          /\ write_list' = Append(write_list, t)
          /\ block' = [block EXCEPT ![t] = data]
          /\ UNCHANGED read_list

PutForced(t, data) ==
    /\ ringbuf_put_force(data)
    /\ resume_reader(t)
    /\ UNCHANGED block

WriteSection(t, data) ==
    /\ UNCHANGED <<flag, want, readers_crowded>>
    /\ \/ "FORCE_WR" \notin flag /\ PutPlain(t, data)
       \/ "FORCE_WR" \in flag /\ PutForced(t, data)

rt_pipe_write(t, data) == pipe_state[t] = "run" /\ WriteSection(t, data)

WriteResumed(t) == pipe_state[t] = "ready" /\ WriteSection(t, block[t])
-----------------------------------------------------------------------------
\* A call asks for a byte at least.
PipeNext ==
    \/ \E r \in Reader :
          \/ \E size \in 1 .. MaxLength : rt_pipe_read(r, size)
          \/ ReadResumed(r)
    \/ \E w \in Writer :
          \/ \E data \in Block \ {<<>>} : rt_pipe_write(w, data)
          \/ WriteResumed(w)

PipeSpec == PipeInit /\ [][PipeNext]_pvars
-----------------------------------------------------------------------------
Asleep  == {t \in PipeThread : pipe_state[t] = "wait"}
Ready   == {t \in PipeThread : pipe_state[t] = "ready"}

ListOf(list, threads) ==
    /\ \A i, j \in DOMAIN list : i # j => list[i] # list[j]
    /\ {list[i] : i \in DOMAIN list} = threads

PipeTypeOK ==
    /\ flag \subseteq Flags
    /\ pipe_state \in [PipeThread -> {"run", "wait", "ready"}]
    /\ want \in [Reader -> 0 .. MaxLength] /\ block \in [Writer -> Block]
    /\ ListOf(read_list, Asleep \cap Reader)
    /\ ListOf(write_list, Asleep \cap Writer)
    /\ readers_crowded \in BOOLEAN

\* The two sides never wait for each other: when readers and writers are
\* suspended at the same time, one that has been resumed is about to run.  Every
\* transfer resumes one thread only, and a resumed one that comes too late waits
\* again, without resuming anybody (pipe.c:78-97, 165-183).
NoStandoff == read_list # <<>> /\ write_list # <<>> => Ready # {}

\* Nobody sleeps beside what it waits for.  Writers do not wait at an empty pipe,
\* unless one that has been resumed is about to fill it; a read that returns
\* nothing resumes nobody (pipe.c:65).  A reader does not wait beside bytes, unless
\* one that has been resumed is about to take them: as long as readers have never
\* waited together, where a write resumes the first of them only and it need not
\* take all (pipe.c:102-124).
NoneSleepsInVain ==
    /\ write_list # <<>> /\ Empty => Ready \cap Writer # {}
    /\ read_list # <<>> /\ ~Empty => readers_crowded \/ Ready \cap Reader # {}
=============================================================================
