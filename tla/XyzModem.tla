------------------------------- MODULE XyzModem -------------------------------
(***************************************************************************)
(* The receiver of X-modem and Y-modem transfers (common/xyzModem.c)       *)
(* against a sender that waits for an answer to every packet, over a line  *)
(* that loses and damages packets and answers and keeps their order.       *)
(*                                                                         *)
(* A packet is the number of what it carries, counted from the header that *)
(* names the file; a damaged one is found out by its check sum.  A block   *)
(* of data is two pieces of the file; one piece of padding is three or     *)
(* more ^Z, and the file holds none.  A time-out is longer than the sender *)
(* takes to answer, so it happens only while nothing is on the line; the   *)
(* sender never times out by itself.                                       *)
(***************************************************************************)
EXTENDS Integers, SequencesExt

CONSTANTS
    FileLen,            \* pieces of the file
    BlkMod,             \* block numbers are modulo this: 256 in the code
    MAX_RETRIES,        \* xyzModem_MAX_RETRIES
    MaxRead,            \* bound on the size given to xyzModem_stream_read
    MaxFaults           \* bound on the faults of the line in a transfer

ASSUME XyzAssumption ==
    /\ FileLen \in Nat \ {0} /\ BlkMod \in Nat \ {0, 1}
    /\ MAX_RETRIES \in Nat \ {0} /\ MaxRead \in Nat \ {0} /\ MaxFaults \in Nat

VARIABLES
    xyz,            \* the static xyz; pkt is what of the packet is still to be read
    modem,          \* where the receiver is
    want,           \* size: what the read that is being made still asks for
    retries,        \* of the loop that waits for a packet
    delivered,      \* what the reads have returned
    wire,           \* the packet on its way, or one of the values below
    replies,        \* the answers on their way
    sender,         \* [at |-> the packet it is at, sent |-> it waits for the answer]
    faults,         \* how many faults the line has had in this transfer
    respent         \* history: all retries were spent on copies of one block

receiver == <<xyz, modem, want, retries, delivered, respent>>
xyzVars  == <<receiver, wire, replies, sender, faults>>

Silent  == -1
Damaged == -2
CAN     == -3

File      == [i \in 1 .. FileLen |-> i]
Padding   == 0
LastBlock == (FileLen + 1) \div 2
EOT       == LastBlock + 1
NullName  == LastBlock + 2      \* the header that names no further file
SenderEnd == LastBlock + 3

Blk(i)    == IF i = NullName THEN 0 ELSE i % BlkMod
IsData(i) == i \in (0 .. LastBlock) \cup {NullName}
Piece(k)  == IF k <= FileLen THEN k ELSE Padding
Pieces(i) == IF i \in 1 .. LastBlock THEN <<Piece(2 * i - 1), Piece(2 * i)>>
                                     ELSE <<Padding, Padding>>

Closed == [mode |-> "xmodem", file_length |-> 0, read_length |-> 0, pkt |-> <<>>,
           next_blk |-> 1, tx_ack |-> FALSE, at_eof |-> FALSE]

XyzInit ==
    /\ xyz = Closed /\ modem = "closed" /\ want = 0 /\ retries = 0
    /\ delivered = <<>> /\ respent = FALSE
    /\ wire = Silent /\ replies = <<>> /\ faults = 0
    /\ sender = [at |-> SenderEnd, sent |-> FALSE]
-----------------------------------------------------------------------------
\* CYGACC_COMM_IF_PUTC
Putc(answers) == replies' = replies \o answers

\* How xyzModem_get_hdr ends: a packet is taken from the line, or nothing comes.
TakesPacket(i) == wire = i /\ wire' = Silent
TimesOut       == wire = Silent /\ replies = <<>> /\ UNCHANGED wire

\* A turn of a loop has come to nothing.
Again == /\ retries' = retries - 1
         /\ modem' = IF retries = 1 THEN "failed" ELSE modem

Unread   == UNCHANGED <<xyz, want, delivered, respent>>
NotReply == UNCHANGED <<sender, faults>>

\* xyzModem_stream_open, whenever no transfer goes on.  The other end starts anew.
xyzModem_stream_open(mode, length) ==
    /\ modem \in {"closed", "ended", "failed", "aborted"}
    /\ xyz' = [Closed EXCEPT !.mode = mode, !.file_length = length]
    /\ modem' = IF mode = "xmodem" THEN "idle" ELSE "opening"
    /\ retries' = MAX_RETRIES /\ want' = 0 /\ delivered' = <<>> /\ respent' = FALSE
    /\ replies' = <<"C">> /\ wire' = Silent /\ faults' = 0
    /\ sender' = [at |-> IF mode = "xmodem" THEN 1 ELSE 0, sent |-> FALSE]

\* The loop of xyzModem_stream_open: a damaged packet gets no answer.
OpenHeader ==
    /\ modem = "opening" /\ TakesPacket(0)
    /\ Putc(<<"ACK">>) /\ modem' = "idle"
    /\ UNCHANGED <<xyz, want, retries, delivered, respent>> /\ NotReply

OpenAgain ==
    /\ modem = "opening"
    /\ \/ TakesPacket(Damaged) /\ UNCHANGED replies
       \/ TimesOut /\ Putc(<<"C">>)
    /\ Again /\ Unread /\ NotReply

Cancelled ==
    /\ modem \in {"opening", "hdr"} /\ TakesPacket(CAN)
    /\ modem' = "failed"
    /\ UNCHANGED <<xyz, want, retries, delivered, replies, respent>> /\ NotReply
-----------------------------------------------------------------------------
\* xyzModem_stream_read.  A block is acknowledged when the next one is asked for.
xyzModem_stream_read(size) ==
    /\ modem = "idle"
    /\ modem' = "reading" /\ want' = size
    /\ UNCHANGED <<xyz, retries, delivered, wire, replies, respent>> /\ NotReply

ReadCopy ==
    LET n == IF want < Len(xyz.pkt) THEN want ELSE Len(xyz.pkt) IN
    /\ modem = "reading" /\ xyz.pkt # <<>>
    /\ delivered' = delivered \o SubSeq(xyz.pkt, 1, n)
    /\ xyz' = [xyz EXCEPT !.pkt = SubSeq(@, n + 1, Len(@))]
    /\ want' = want - n
    /\ modem' = IF want = n THEN "idle" ELSE "reading"
    /\ UNCHANGED <<retries, wire, replies, respent>> /\ NotReply

ReadMore ==
    /\ modem = "reading" /\ xyz.pkt = <<>>
    /\ modem' = "hdr" /\ retries' = MAX_RETRIES
    /\ Putc(IF xyz.tx_ack THEN <<"ACK">> ELSE <<>>)
    /\ xyz' = [xyz EXCEPT !.tx_ack = FALSE]
    /\ UNCHANGED <<want, delivered, wire, respent>> /\ NotReply

\* What is before the padding at the end of a block.
Unpadded(pieces) ==
    SubSeq(pieces, 1, Max({0} \cup {k \in DOMAIN pieces : pieces[k] # Padding}))

\* Mutant: a block that is beyond the end of the file is kept as a whole.
KeptWhole(pieces) ==
    IF xyz.file_length = 0
    THEN Unpadded(pieces)
    ELSE pieces

\* What of a block is kept: no padding, which the length tells if it is known.
Kept(pieces) ==
    IF xyz.file_length = 0
    THEN Unpadded(pieces)
    ELSE LET over == xyz.read_length + Len(pieces) - xyz.file_length IN
         SubSeq(pieces, 1, Len(pieces) - IF over > 0 THEN over ELSE 0)

NextBlock ==
    /\ modem = "hdr" /\ IsData(wire) /\ Blk(wire) = xyz.next_blk
    /\ wire' = Silent /\ modem' = "reading"
    /\ xyz' = [xyz EXCEPT !.tx_ack = TRUE, !.next_blk = (@ + 1) % BlkMod,
                          !.pkt = Kept(Pieces(wire)),
                          !.read_length = IF xyz.file_length = 0 THEN 0 ELSE @ + 2]
    /\ UNCHANGED <<want, retries, delivered, replies, respent>> /\ NotReply

\* Mutant: a block that came before is dropped, its sender left without an answer.
RepeatedSilently ==
    /\ modem = "hdr" /\ IsData(wire) /\ Blk(wire) = (xyz.next_blk - 1) % BlkMod
    /\ wire' = Silent /\ Again
    /\ UNCHANGED <<replies, want, delivered, xyz, respent>> /\ NotReply

\* A block that came before is acknowledged again.  It leaves stat at 0: when the
\* last retry is spent on it, the reader takes its pieces for new ones.
Repeated ==
    /\ modem = "hdr" /\ IsData(wire) /\ Blk(wire) = (xyz.next_blk - 1) % BlkMod
    /\ wire' = Silent /\ retries' = retries - 1
    /\ Putc(<<"ACK">>)
    /\ IF retries > 1 THEN UNCHANGED <<xyz, modem, respent>>
       ELSE /\ modem' = "reading" /\ respent' = TRUE
            /\ xyz' = [xyz EXCEPT !.pkt = Pieces(wire)]
    /\ UNCHANGED <<want, delivered>> /\ NotReply

OutOfSequence == IsData(wire) /\ Blk(wire) \notin {xyz.next_blk, (xyz.next_blk - 1) % BlkMod}

ReadAgain ==
    /\ modem = "hdr"
    /\ \/ (wire = Damaged \/ OutOfSequence) /\ wire' = Silent
       \/ TimesOut
    /\ Putc(<<"C">>)
    /\ Again /\ Unread /\ NotReply

\* The end of the file.  A Y-modem receiver asks for one more header, and ends
\* whatever comes; xyzModem_get_hdr has acknowledged an EOT itself.
EndOfFile ==
    /\ modem = "hdr" /\ TakesPacket(EOT)
    /\ \/ /\ xyz.mode = "xmodem"
          /\ Putc(<<"ACK">>)
          /\ modem' = "ended" /\ xyz' = [xyz EXCEPT !.at_eof = TRUE]
       \/ /\ xyz.mode = "ymodem"
          /\ Putc(<<"ACK", "C">>)
          /\ modem' = "final" /\ UNCHANGED xyz
    /\ UNCHANGED <<want, retries, delivered, respent>> /\ NotReply

EndOfBatch ==
    /\ modem = "final"
    /\ (wire # Silent /\ wire' = Silent) \/ TimesOut
    /\ Putc(IF wire = EOT THEN <<"ACK", "ACK">> ELSE <<"ACK">>)
    /\ modem' = "ended" /\ xyz' = [xyz EXCEPT !.at_eof = TRUE]
    /\ UNCHANGED <<want, retries, delivered, respent>> /\ NotReply

\* xyzModem_stream_terminate, abort.
xyzModem_stream_terminate ==
    /\ modem = "idle"
    /\ modem' = "aborted" /\ xyz' = [xyz EXCEPT !.at_eof = TRUE]
    /\ Putc(<<"CAN">>)
    /\ UNCHANGED <<want, retries, delivered, wire, respent>> /\ NotReply
-----------------------------------------------------------------------------
\* The sender and the line (external).
Answer_(c) == /\ replies # <<>> /\ Head(replies) = c /\ replies' = Tail(replies)
              /\ wire = Silent /\ sender.at # SenderEnd
              /\ UNCHANGED <<receiver, faults>>

SenderAsked ==
    /\ Answer_("C")
    /\ wire' = sender.at /\ sender' = [sender EXCEPT !.sent = TRUE]

\* After the name of a file the sender waits to be asked, or does not.  In X-modem
\* an EOT ends the transfer.
SenderAcked ==
    LET next == IF sender.at = EOT /\ xyz.mode = "xmodem" THEN SenderEnd ELSE sender.at + 1 IN
    /\ Answer_("ACK")
    /\ \/ /\ ~sender.sent
          /\ UNCHANGED <<wire, sender>>
       \/ /\ sender.sent /\ sender.at \in 0 .. LastBlock
          /\ wire' = next /\ sender' = [at |-> next, sent |-> TRUE]
       \/ /\ sender.sent /\ sender.at \notin 1 .. LastBlock
          /\ sender' = [at |-> next, sent |-> FALSE] /\ UNCHANGED wire

SenderStops ==
    /\ sender.at # SenderEnd /\ wire = Silent
    /\ wire' \in {CAN, Silent}
    /\ wire' = Silent => replies # <<>> /\ Head(replies) = "CAN"
    /\ sender' = [at |-> SenderEnd, sent |-> FALSE]
    /\ UNCHANGED <<receiver, replies, faults>>

ForNobody == /\ sender.at = SenderEnd /\ replies # <<>> /\ replies' = <<>>
             /\ UNCHANGED <<receiver, wire, sender, faults>>

LineFault ==
    /\ faults < MaxFaults /\ faults' = faults + 1
    /\ \/ wire # Silent /\ wire' \in {Silent, Damaged} \ {wire} /\ UNCHANGED replies
       \/ replies # <<>> /\ replies' = Tail(replies) /\ UNCHANGED wire
    /\ UNCHANGED <<receiver, sender>>
-----------------------------------------------------------------------------
XyzOpen ==
    \/ xyzModem_stream_open("xmodem", 0)
    \/ \E length \in {0, FileLen} : xyzModem_stream_open("ymodem", length)

XyzWaits == OpenHeader \/ OpenAgain \/ Cancelled
XyzReads ==
    \/ \E size \in 1 .. MaxRead : xyzModem_stream_read(size)
    \/ ReadCopy \/ ReadMore \/ NextBlock \/ Repeated \/ ReadAgain
    \/ EndOfFile \/ EndOfBatch
SenderStep == SenderAsked \/ SenderAcked \/ ForNobody

XyzNext ==
    \/ XyzOpen \/ XyzWaits \/ XyzReads \/ SenderStep
    \/ xyzModem_stream_terminate \/ SenderStops \/ LineFault

\* The caller reads on, the receiver runs, and the sender answers.
XyzSpec == /\ XyzInit /\ [][XyzNext]_xyzVars
           /\ WF_xyzVars(XyzWaits \/ XyzReads) /\ WF_xyzVars(SenderStep)
-----------------------------------------------------------------------------
XyzTypeOK ==
    /\ modem \in {"closed", "opening", "idle", "reading", "hdr", "final",
                  "ended", "failed", "aborted"}
    /\ xyz.next_blk \in 0 .. BlkMod - 1
    /\ Len(xyz.pkt) <= 2 /\ Len(replies) <= 3
    /\ retries \in 0 .. MAX_RETRIES
    /\ wire \in CAN .. NullName /\ sender.at \in 0 .. SenderEnd

\* What the reads return is the beginning of the file, and the whole of it once the
\* end is reported, whatever the line lost, damaged and made come twice, and whether
\* or not the header told the length: unless every retry went to copies of one block.
FileInOrder ==
    /\ respent \/ IsPrefix(delivered, File)
    /\ (modem = "ended" /\ ~respent) => delivered = File

\* The faults a transfer lives through at any place: one may cost two retries, one
\* for the time-out and one for the packet that comes again, and a sender that was
\* told of the name of the file may wait for one more time-out.
Tolerated == (MAX_RETRIES - 2) \div 2

\* A transfer neither end has given up comes to its end, with no more faults than that.
TransferEnds ==
    modem \in {"opening", "idle"} ~>
        \/ modem = "ended" /\ delivered = File
        \/ faults > Tolerated
        \/ modem = "aborted" \/ sender.at = SenderEnd
===============================================================================
