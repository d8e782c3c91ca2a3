------------------------------ MODULE BlockDisk ------------------------------
(***************************************************************************)
(* What a USB mass storage device promises its host: an array of sectors.  *)
(* The host gives one command at a time.  A read returns the sectors in    *)
(* order; a write has stored all of its sectors when it ends, in whatever  *)
(* order it stores them; every other command leaves the sectors alone.     *)
(***************************************************************************)
EXTENDS Naturals, Sequences

CONSTANTS Block, Value, Command, NoCommand

VARIABLES
    disk,     \* the sectors
    cmd,      \* the command under way, or NoCommand
    got       \* the sectors a read has returned so far

Init ==
    /\ disk \in [Block -> Value]
    /\ cmd = NoCommand
    /\ got = <<>>

Start(c) ==
    /\ cmd = NoCommand
    /\ cmd' = c
    /\ got' = <<>>
    /\ UNCHANGED disk

Fetch ==
    /\ cmd # NoCommand /\ cmd.op = "read" /\ Len(got) < cmd.count
    /\ got' = Append(got, disk[cmd.block + Len(got)])
    /\ UNCHANGED <<disk, cmd>>

Store ==
    /\ cmd # NoCommand /\ cmd.op = "write"
    /\ \E i \in DOMAIN cmd.data :
          disk' = [disk EXCEPT ![cmd.block + i - 1] = cmd.data[i]]
    /\ UNCHANGED <<cmd, got>>

Finished ==
    /\ cmd.op = "read"  => Len(got) = cmd.count
    /\ cmd.op = "write" => \A i \in DOMAIN cmd.data :
                               disk[cmd.block + i - 1] = cmd.data[i]

Finish ==
    /\ cmd # NoCommand /\ Finished
    /\ cmd' = NoCommand
    /\ got' = <<>>
    /\ UNCHANGED disk

Next ==
    \/ \E c \in Command : Start(c)
    \/ Fetch
    \/ Store
    \/ Finish

Spec == Init /\ [][Next]_<<disk, cmd, got>>
=============================================================================
