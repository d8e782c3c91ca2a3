------------------------------ MODULE ShellLine ------------------------------
(***************************************************************************)
(* The command line of a console, components/shell/shell.c: the line being *)
(* edited, and a ring of the lines before it, separated by zeros.  A poll  *)
(* (shell_ReadLine) takes the keys that have come, and measures the line   *)
(* once, before the first of them.  A key is one step, those of an escape  *)
(* sequence together: the code waits for the rest of one.  Up and down on  *)
(* a digit step the number that ends there, enter the line and offer it    *)
(* again.                                                                  *)
(*                                                                         *)
(* Characters are numbered in the order of ASCII as far as the code asks   *)
(* for it.  What the terminal shows is left out; ideal is what a user who  *)
(* knows no buffers expects to be editing.                                 *)
(***************************************************************************)
EXTENDS Integers, SequencesExt, FiniteSetsExt

CONSTANTS
    LenCmd,     \* CONFIG_SHELL_LEN_CMD_MAX, the bytes of cmd_buffer
    HistSize,   \* CONFIG_SHELL_LEN_HIS_MAX, the bytes of cmd_history
    Digits,     \* the base of numbers
    MaxKeys     \* bound: the keys between two registrations of the shell

ASSUME ShellLineAssumption ==
    /\ {LenCmd, HistSize, Digits, MaxKeys} \subseteq Nat
    /\ LenCmd > 2 /\ HistSize > LenCmd /\ Digits > 1

NUL    == 0
Letter == 1
Dot    == 3
Slash  == 4
Zero   == 5
Nine   == Zero + Digits - 1
Digit  == Zero .. Nine
IsDigit(ch) == ch \in Digit
Char   == {NUL, Letter, Dot, Slash} \cup Digit

HelpLine   == <<Letter, Letter>>    \* the line a new history starts with
HotkeyLine == <<Letter>>            \* "pause" and "kill all"

VARIABLES
    cmd_buffer, cmd_idx, cmd_history, cmd_hrail, cmd_hrpos,
    len,        \* the length of the line at the start of the poll
    polling,    \* in the loop of shell_ReadLine
    broken,     \* a byte beside the buffer has been written
    \* History: no code reads or writes what follows.
    ideal,      \* the line, the cursor, and how many of kept lie before it
    kept,       \* the latest lines entered, as many as the ring has room for
    excused,    \* the line has been through what the code does not support
    keys

lineVars == <<cmd_buffer, cmd_idx, cmd_history, cmd_hrail, cmd_hrpos, len, polling,
              broken, ideal, kept, excused, keys>>

Cell     == 0 .. LenCmd - 1
HistCell == 0 .. HistSize - 1

\* The bytes of a string up to its zero.
TextLen(b) == Min({i \in Cell : b[i] = NUL} \cup {LenCmd})
Text(b)    == [k \in 1 .. TextLen(b) |-> b[k - 1]]

\* memset and the copy of a line over it; strcpy, which leaves the rest.
Buffered(line) == [i \in Cell |-> IF i < Len(line) THEN line[i + 1] ELSE NUL]
Copied(line)   == [i \in Cell |-> IF i <= Len(line) THEN Buffered(line)[i] ELSE cmd_buffer[i]]
-----------------------------------------------------------------------------
\* Mutant: the rest of an older line is left behind a new one.
ErasedToNone(n) == n

\* cmd_SetHistory: where it stops, after the n bytes of the line, to erase the
\* rest of the lines it has run into.
ErasedTo(n) ==
    Min({k \in n .. HistSize - 1 : cmd_history[(cmd_hrail + k) % HistSize] = NUL}
        \cup {HistSize})

cmd_SetHistory(line) ==
    LET place(p) == (p - cmd_hrail + HistSize) % HistSize
    IN  /\ cmd_history' = [p \in HistCell |->
              IF place(p) < Len(line) THEN line[place(p) + 1]
              ELSE IF place(p) < ErasedTo(Len(line)) THEN NUL ELSE cmd_history[p]]
        /\ cmd_hrail' = (((cmd_hrail + Len(line) - 1) % HistSize) + 2) % HistSize

\* cmd_GetHistory from a place in a direction: the next line and the zero behind
\* it.  The place behind the ring reads as whatever lies there.
cmd_GetHistory(from, dir, beyond) ==
    LET place(k) == IF k = 0 THEN from ELSE (from + dir * k + HistSize) % HistSize
        byte(k)  == IF place(k) = HistSize THEN beyond ELSE cmd_history[place(k)]
        first    == Min({k \in HistCell : byte(k) # NUL})
        stop     == Min({k \in first .. HistSize - 1 : byte(k) = NUL} \cup {HistSize})
        found    == [k \in 1 .. stop - first |-> byte(first + k - 1)]
    IN  [line |-> IF dir < 0 THEN Reverse(found) ELSE found, pos |-> place(stop)]

\* Mutant: the start of the ring is forgotten.
NewestPosBefore == cmd_hrail - 1

\* Where a search begins: behind the ring, when the next line goes to its start.
NewestPos == IF cmd_hrail = 0 THEN HistSize ELSE cmd_hrail - 1
-----------------------------------------------------------------------------
Nowhere == [line |-> <<>>, cur |-> 0, gap |-> 0]

\* The user's view of a key, as long as the code supports it.
Expect(view, sound) ==
    LET off == excused \/ ~sound
    IN  excused' = off /\ ideal' = IF off THEN Nowhere ELSE view

\* The length measured at the start of the poll is still that of the line.
Fresh == len = TextLen(cmd_buffer)

Key(A) == /\ polling /\ ~broken /\ keys < MaxKeys /\ keys' = keys + 1
          /\ A

Edited(b, idx) ==
    /\ cmd_buffer' = b /\ cmd_idx' = idx
    /\ broken' = (TextLen(b) = LenCmd)
    /\ UNCHANGED <<cmd_history, cmd_hrail, len, polling, kept>>

Moved(idx) == Edited(cmd_buffer, idx) /\ UNCHANGED cmd_hrpos

\* A byte before or behind the buffer is written.
Overrun ==
    /\ broken' = TRUE
    /\ UNCHANGED <<cmd_buffer, cmd_idx, cmd_history, cmd_hrail, cmd_hrpos, len, polling, kept>>

\* Mutant: the tail is not moved out of the way.
InsertedOver(b, ch) == [b EXCEPT ![cmd_idx] = ch]

Inserted(b, ch) == [i \in Cell |-> IF i = cmd_idx THEN ch
                                   ELSE IF i > cmd_idx /\ i <= len THEN b[i - 1] ELSE b[i]]

\* A character at the end of the line needs no length, as long as it fits.
Typed(ch) == Key(
    /\ IF len = LenCmd - 1 THEN Moved(cmd_idx)
       ELSE IF cmd_idx = LenCmd THEN Overrun
       ELSE Edited(Inserted(cmd_buffer, ch), cmd_idx + 1) /\ UNCHANGED cmd_hrpos
    /\ Expect(IF Len(ideal.line) < LenCmd - 1
              THEN [ideal EXCEPT !.line = InsertAt(@, ideal.cur + 1, ch), !.cur = @ + 1]
              ELSE ideal,
              Fresh \/ (/\ len < TextLen(cmd_buffer) /\ TextLen(cmd_buffer) < LenCmd - 1
                        /\ cmd_idx = TextLen(cmd_buffer))))

Removed(b) == [i \in Cell |-> IF i = len - 1 THEN NUL
                              ELSE IF i >= cmd_idx - 1 /\ i < len - 1 THEN b[i + 1] ELSE b[i]]

\* With a length of zero the byte before the buffer is cleared.
Backspace == Key(
    /\ IF cmd_idx = 0 THEN Moved(0)
       ELSE IF len > 0 THEN Edited(Removed(cmd_buffer), cmd_idx - 1) /\ UNCHANGED cmd_hrpos
       ELSE Overrun
    /\ Expect(IF ideal.cur = 0 THEN ideal
              ELSE [ideal EXCEPT !.line = RemoveAt(@, ideal.cur), !.cur = @ - 1], Fresh))

Right == Key(/\ Moved(IF cmd_idx < len THEN cmd_idx + 1 ELSE cmd_idx)
             /\ Expect([ideal EXCEPT !.cur = IF @ < Len(ideal.line) THEN @ + 1 ELSE @], Fresh))
Left  == Key(/\ Moved(IF cmd_idx > 0 THEN cmd_idx - 1 ELSE cmd_idx)
             /\ Expect([ideal EXCEPT !.cur = IF @ > 0 THEN @ - 1 ELSE @], TRUE))
Home  == Key(Moved(0) /\ Expect([ideal EXCEPT !.cur = 0], TRUE))
End   == Key(/\ Moved(IF cmd_idx < len THEN len ELSE cmd_idx)
             /\ Expect([ideal EXCEPT !.cur = Len(ideal.line)], Fresh))
-----------------------------------------------------------------------------
\* The line before or after the last one shown; the first follows the last.
Recalled(dir) ==
    LET n == IF dir < 0 THEN IF ideal.gap = 0 THEN Len(kept) ELSE ideal.gap
                        ELSE IF ideal.gap = Len(kept) THEN 1 ELSE ideal.gap + 1
    IN  [line |-> kept[n], cur |-> Len(kept[n]), gap |-> IF dir < 0 THEN n - 1 ELSE n]

\* Up and down at the end of the line.
Recall(dir) == Key(
    /\ cmd_idx = len
    /\ \E beyond \in {NUL, Letter} :
          LET found == cmd_GetHistory(cmd_hrpos, dir, beyond)
          IN  Edited(Buffered(found.line), Len(found.line)) /\ cmd_hrpos' = found.pos
    /\ Expect(Recalled(dir), Fresh /\ cmd_hrpos # HistSize))

\* Lines one after the other, with a zero behind each.
Flat(lines) == FlattenSeq([i \in DOMAIN lines |-> Append(lines[i], NUL)])

\* The line is entered: it goes to the history unless it is empty.
Enter(b, idx) ==
    /\ cmd_buffer' = b /\ cmd_idx' = idx /\ polling' = FALSE
    /\ IF TextLen(b) = 0 THEN UNCHANGED <<cmd_history, cmd_hrail, kept>>
       ELSE /\ cmd_SetHistory(Text(b))
            /\ LET all     == Append(kept, Text(b))
                   last(i) == SubSeq(all, i, Len(all))
               IN  kept' = last(Min({i \in DOMAIN all : Len(Flat(last(i))) <= HistSize}))
    /\ UNCHANGED <<cmd_hrpos, len, broken>>

\* Mutant: a carry ends at the point of a decimal fraction.
CarriesToPoint(b, i, dir) == b[i] = (IF dir > 0 THEN Nine ELSE Zero)

\* A step of b[i] goes on at i - 1; the point itself steps like a digit when the
\* cursor is on it.
Carries(b, i, dir) ==
    \/ b[i] = (IF dir > 0 THEN Nine ELSE Zero)
    \/ b[i] = Dot /\ (i < cmd_idx \/ dir < 0)

Stepped(b, i, dir) ==
    IF IsDigit(b[i]) THEN Zero + ((b[i] - Zero + dir + Digits) % Digits)
    ELSE IF b[i] # Dot \/ i < cmd_idx THEN b[i]
    ELSE IF dir > 0 THEN Slash ELSE Nine

SteppedLine(b, dir) ==
    [i \in Cell |-> IF i <= cmd_idx /\ \A k \in i + 1 .. cmd_idx : Carries(b, k, dir)
                    THEN Stepped(b, i, dir) ELSE b[i]]

\* The digits of the number that ends at the cursor; points in it count for nothing.
NumberDigits(line, cur) ==
    {i \in 1 .. cur + 1 : /\ IsDigit(line[i])
                          /\ \A k \in i .. cur + 1 : IsDigit(line[k]) \/ line[k] = Dot}

\* What these digits of a line are worth from each of the places up to last on, and
\* what a digit before that place is.
Worth(line, digits, last) ==
    LET from[i \in 1 .. last + 1] ==
            IF i = last + 1 THEN [value |-> 0, weight |-> 1]
            ELSE IF i \notin digits THEN from[i + 1]
            ELSE [value  |-> from[i + 1].value + (line[i] - Zero) * from[i + 1].weight,
                  weight |-> from[i + 1].weight * Digits]
    IN  from

\* That number, one more or one less.
SteppedNumber(line, cur, dir) ==
    LET digits == NumberDigits(line, cur)
        worth  == Worth(line, digits, cur + 1)
        number == (worth[1].value + dir) % worth[1].weight
    IN  [i \in DOMAIN line |->
            IF i \in digits THEN Zero + ((number \div worth[i + 1].weight) % Digits) ELSE line[i]]

\* Up and down elsewhere.  Behind the buffer lies cmd_idx, before it the top byte of
\* an address: neither is a digit.
Step(dir) == Key(
    /\ cmd_idx # len
    /\ IF cmd_idx < LenCmd /\ (IsDigit(cmd_buffer[cmd_idx]) \/ cmd_buffer[cmd_idx] = Dot)
       THEN /\ Enter(SteppedLine(cmd_buffer, dir), -2 - cmd_idx)
            /\ Expect([ideal EXCEPT !.line = SteppedNumber(@, ideal.cur, dir)],
                      Fresh /\ cmd_buffer[cmd_idx] # Dot)
       ELSE Moved(cmd_idx) /\ Expect(ideal, Fresh))

\* Return and '@'; ctrl-c and ctrl-x, which put a line of their own.
ReturnKey == Key(Enter(cmd_buffer, -1) /\ Expect(Nowhere, TRUE))
Hotkey == Key(Enter(Copied(HotkeyLine), -1) /\ Expect(Nowhere, TRUE))
-----------------------------------------------------------------------------
\* The ring after cmd_SetHistory("help").
NewHistory == [p \in HistCell |-> IF p < Len(HelpLine) THEN HelpLine[p + 1] ELSE NUL]

\* shell_register
ShellLineInit ==
    /\ cmd_buffer = Buffered(<<>>) /\ cmd_idx = -1
    /\ cmd_history = NewHistory /\ cmd_hrail = Len(HelpLine) + 1 /\ cmd_hrpos = 0
    /\ len = 0 /\ polling = FALSE /\ broken = FALSE
    /\ ideal = Nowhere /\ kept = <<HelpLine>> /\ excused = FALSE /\ keys = 0

\* shell_unregister frees all of it, and the device is registered again.
Reopen ==
    /\ broken \/ ~polling
    /\ cmd_buffer' = Buffered(<<>>) /\ cmd_idx' = -1
    /\ cmd_history' = NewHistory /\ cmd_hrail' = Len(HelpLine) + 1 /\ cmd_hrpos' = 0
    /\ len' = 0 /\ polling' = FALSE /\ broken' = FALSE
    /\ ideal' = Nowhere /\ kept' = <<HelpLine>> /\ excused' = FALSE /\ keys' = 0

\* shell_ReadLine up to its loop: it goes on with a line, starts an empty one, or
\* offers the last one again with the cursor where it was.
GoOn ==
    /\ cmd_idx >= 0
    /\ len' = TextLen(cmd_buffer)
    /\ UNCHANGED <<cmd_buffer, cmd_idx, cmd_hrpos, broken, ideal, excused>>

Start ==
    /\ cmd_idx = -1
    /\ cmd_buffer' = Buffered(<<>>) /\ cmd_idx' = 0 /\ cmd_hrpos' = NewestPos
    /\ len' = 0
    /\ ideal' = [Nowhere EXCEPT !.gap = Len(kept)] /\ excused' = FALSE
    /\ UNCHANGED broken

OfferAgain ==
    /\ cmd_idx < -1
    /\ \E beyond \in {NUL, Letter} :
          LET found == cmd_GetHistory(NewestPos, -1, beyond)
          IN  cmd_buffer' = Buffered(found.line) /\ cmd_hrpos' = found.pos
    /\ cmd_idx' = -2 - cmd_idx
    /\ len' = TextLen(cmd_buffer') /\ broken' = (len' = LenCmd)
    /\ excused' = (NewestPos = HistSize \/ -2 - cmd_idx > Len(Last(kept)))
    /\ ideal' = IF excused' THEN Nowhere
                ELSE [line |-> Last(kept), cur |-> -2 - cmd_idx, gap |-> Len(kept) - 1]

Poll ==
    /\ ~polling /\ ~broken /\ polling' = TRUE
    /\ GoOn \/ Start \/ OfferAgain
    /\ UNCHANGED <<cmd_history, cmd_hrail, kept, keys>>

\* No more keys have come.
PollEnds ==
    /\ polling /\ ~broken /\ polling' = FALSE
    /\ UNCHANGED <<cmd_buffer, cmd_idx, cmd_history, cmd_hrail, cmd_hrpos, len, broken,
                   ideal, kept, excused, keys>>

ShellLineNext ==
    \/ Poll \/ PollEnds \/ Reopen
    \/ \E ch \in {Letter, Dot} \cup Digit : Typed(ch)
    \/ Backspace \/ Right \/ Left \/ Home \/ End
    \/ \E dir \in {-1, 1} : Recall(dir) \/ Step(dir)
    \/ ReturnKey \/ Hotkey

ShellLineSpec == ShellLineInit /\ [][ShellLineNext]_lineVars
-----------------------------------------------------------------------------
EditLine == UNION {[1 .. n -> Char \ {NUL}] : n \in 0 .. LenCmd - 1}

ShellLineTypeOK ==
    /\ cmd_buffer \in [Cell -> Char] /\ cmd_idx \in -LenCmd - 1 .. LenCmd
    /\ cmd_history \in [HistCell -> Char]
    /\ cmd_hrail \in HistCell /\ cmd_hrpos \in 0 .. HistSize
    /\ len \in 0 .. LenCmd /\ (len = LenCmd => broken)
    /\ ideal.line \in EditLine /\ ideal.cur \in 0 .. Len(ideal.line) /\ ideal.gap \in 0 .. HistSize
    /\ kept \in Seq(EditLine \ {<<>>})
    /\ {polling, broken, excused} \subseteq BOOLEAN /\ keys \in 0 .. MaxKeys

\* What is entered is what the user has edited: insertions and deletions anywhere
\* in the line, recalled lines, and numbers that were stepped, also when several
\* keys come in one poll, as long as none of them needs a length that an earlier
\* one has changed (shell.c:273), and the search does not start behind the ring
\* (shell.c:258).
LineAsEdited ==
    ~excused /\ ~broken /\ cmd_idx # -1 =>
        /\ Text(cmd_buffer) = ideal.line
        /\ (IF cmd_idx < 0 THEN -2 - cmd_idx ELSE cmd_idx) = ideal.cur

\* The ring holds whole lines: the latest that fit, with one zero behind each, and
\* zeros elsewhere, wherever a line wraps and however many a long one replaces
\* (shell.c:545-573).
HistoryIsWhole ==
    LET flat == Flat(kept)
    IN  \A d \in 1 .. HistSize :
           cmd_history[(cmd_hrail - d + HistSize) % HistSize] =
               IF d <= Len(flat) THEN flat[Len(flat) + 1 - d] ELSE NUL
=============================================================================
