------------------------------ MODULE LineEdit ------------------------------
(***************************************************************************)
(* The debugging prompt: repl() of src/nerves_initramfs.c:233-246 and the  *)
(* line editor under it, src/linenoise.c, as repl() uses it (no            *)
(* completion, no hints, single-line mode, no history file).               *)
(*                                                                         *)
(* The person at the terminal types keys, may resize the terminal between  *)
(* two lines, and the terminal may hang up at any point.  A key is read    *)
(* and handled in one step, which reads and writes nobody else's state; an *)
(* escape sequence counts as a key.                                        *)
(*                                                                         *)
(* While a line is edited the last entry of the history is a slot for it.  *)
(* Moving through the history copies the line to the entry it came from    *)
(* and the next entry to the line; index counts from the end.              *)
(***************************************************************************)
EXTENDS Integers, Sequences

CONSTANTS
    Chars,          \* what a key inserts, Space and Nul among them
    Space, Nul,
    BufLen,         \* the longest line, 4095 in the code
    HistoryMax,     \* the entries of the history, 100 in the code
    Plen,           \* the length of the prompt, 18 in the code
    Cols,           \* the widths the terminal may have
    Terminals,      \* subset of {"tty", "dumb", "pipe"}: standard input is an
                    \* ordinary terminal, one named in unsupported_term, or none
    PlainLines      \* the lines that arrive from the last two

ASSUME LineAssumption ==
    /\ Space \in Chars /\ Nul \in Chars /\ Space # Nul
    /\ BufLen \in Nat \ {0}
    /\ HistoryMax \in Nat \ {0, 1}
    /\ Plen \in Nat
    /\ Cols \subseteq Nat \ {0}
    /\ Terminals \subseteq {"tty", "dumb", "pipe"}
    /\ PlainLines \subseteq Seq(Chars \ {Nul})

VARIABLES
    term, hungup,
    raw,            \* the terminal is in raw mode
    pc,             \* "prompt", "edit", "entered", "eval", "over", "crashed"
    line,           \* what linenoise() returned
    history, index,
    buf, pos,       \* the edited line and the cursor in it, from 0
    cols,
    screen          \* the bytes in the row after the prompt (of which a terminal
                    \* does not show a NUL), and the column of the cursor

vars == <<term, hungup, raw, pc, line, history, index, buf, pos, cols, screen>>

Letters == Chars \ {Nul}
Empty   == <<>>
Smaller(a, b) == IF a <= b THEN a ELSE b

\* n is the length of b as a C string.
IsStrlen(n, b) ==
    /\ \A i \in 1 .. n : b[i] # Nul
    /\ n < Len(b) => b[n + 1] = Nul

\* The entry that the edited line belongs to.
Slot == Len(history) - index

-----------------------------------------------------------------------------
(* The row of the terminal *)

\* Mutant: a column is kept free behind the cursor.
ScrolledEarly(p) == IF Plen + p + 1 >= cols THEN Plen + p - cols + 2 ELSE 0

\* How many characters at the start of a line do not fit before the cursor.
Scrolled(p) == IF Plen + p >= cols THEN Plen + p - cols + 1 ELSE 0

\* How many characters refreshSingleLine() writes; a size_t in the code, where
\* a number below zero is one beyond any memory.
Shown(b, p) == Smaller(Len(b) - Scrolled(p), cols - Plen)

\* A character in the last column leaves the cursor there, and the erasing of
\* the rest of the row, which follows, takes that character with it.
Row(b, p) ==
    LET d == Scrolled(p) IN
    [cells |-> SubSeq(b, d + 1, d + Smaller(Shown(b, p), cols - Plen - 1)),
     cur   |-> Plen + p - d]

\* The line becomes b, with the cursor at p, and the row is written again.
Refresh(b, p) ==
    /\ buf' = b
    /\ pos' = p
    /\ IF Shown(b, p) >= 0
       THEN screen' = Row(b, p) /\ UNCHANGED pc
       ELSE pc' = "crashed" /\ UNCHANGED screen

-----------------------------------------------------------------------------
(* Keys *)

edited == <<term, hungup, raw, line, history, index, cols>>

Key == pc = "edit" /\ ~hungup

Until(b, n) == SubSeq(b, 1, n)
After(b, n) == SubSeq(b, n + 1, Len(b))

\* Mutant: the room for the NUL is used for a character.
InsertOneMore(c) ==
    /\ Key
    /\ Len(buf) <= BufLen
    /\ Refresh(Until(buf, pos) \o <<c>> \o After(buf, pos), pos + 1)
    /\ UNCHANGED edited

\* Mutant: the trivial case is taken also at the right edge.
InsertAtEdge(c) ==
    /\ Key
    /\ Len(buf) < BufLen
    /\ IF pos = Len(buf) /\ Plen + Len(buf) <= cols
       THEN /\ buf' = Append(buf, c)
            /\ pos' = pos + 1
            /\ screen' = [cells |-> Append(screen.cells, c), cur |-> screen.cur + 1]
            /\ UNCHANGED pc
       ELSE Refresh(Until(buf, pos) \o <<c>> \o After(buf, pos), pos + 1)
    /\ UNCHANGED edited

\* Only a character at the end of a line that fits the row is written alone.
linenoiseEditInsert(c) ==
    /\ Key
    /\ Len(buf) < BufLen
    /\ IF pos = Len(buf) /\ Plen + Len(buf) + 1 < cols
       THEN /\ buf' = Append(buf, c)
            /\ pos' = pos + 1
            /\ screen' = [cells |-> Append(screen.cells, c), cur |-> screen.cur + 1]
            /\ UNCHANGED pc
       ELSE Refresh(Until(buf, pos) \o <<c>> \o After(buf, pos), pos + 1)
    /\ UNCHANGED edited

linenoiseEditBackspace ==
    /\ Key
    /\ pos > 0
    /\ Refresh(Until(buf, pos - 1) \o After(buf, pos), pos - 1)
    /\ UNCHANGED edited

\* The Delete key, and CTRL-D in a line that is not empty.
linenoiseEditDelete ==
    /\ Key
    /\ pos < Len(buf)
    /\ Refresh(Until(buf, pos) \o After(buf, pos + 1), pos)
    /\ UNCHANGED edited

\* CTRL-W: the blanks before the cursor and the word before them.
linenoiseEditDeletePrevWord ==
    /\ Key
    /\ \E end \in 0 .. pos : \E start \in 0 .. end :
         /\ \A i \in end + 1 .. pos : buf[i] = Space
         /\ end > 0 => buf[end] # Space
         /\ \A i \in start + 1 .. end : buf[i] # Space
         /\ start > 0 => buf[start] = Space
         /\ Refresh(Until(buf, start) \o After(buf, pos), start)
    /\ UNCHANGED edited

\* CTRL-T.
Transpose ==
    /\ Key
    /\ pos > 0
    /\ pos < Len(buf)
    /\ Refresh([buf EXCEPT ![pos] = buf[pos + 1], ![pos + 1] = buf[pos]],
               IF pos = Len(buf) - 1 THEN pos ELSE pos + 1)
    /\ UNCHANGED edited

\* CTRL-U and CTRL-K.
KillLine ==
    /\ Key
    /\ Refresh(Empty, 0)
    /\ UNCHANGED edited

KillToEnd ==
    /\ Key
    /\ Refresh(Until(buf, pos), pos)
    /\ UNCHANGED edited

\* Left, right, home and end; in the places they lead to already, they do
\* nothing.  CTRL-L clears the screen and writes the row where it is.
Move ==
    /\ Key
    /\ \E p \in {pos - 1, pos + 1, 0, Len(buf), pos} :
         /\ p \in 0 .. Len(buf)
         /\ Refresh(buf, p)
    /\ UNCHANGED edited

\* Mutant: the edited line is not kept.
HistoryNextDrops(step) ==
    /\ Key
    /\ index + step \in 0 .. Len(history) - 1
    /\ index' = index + step
    /\ LET h == history[Slot - step]
           n == Smaller(Len(h), BufLen - 1)
       IN  Refresh(Until(h, n), n)
    /\ UNCHANGED <<term, hungup, raw, line, history, cols>>

\* The edited line is copied to its entry in any case; there is another entry
\* to show unless this is the newest or the oldest.  The copy back takes
\* buflen - 1 characters, one less than a line may have.
linenoiseEditHistoryNext(step) ==
    /\ Key
    /\ Len(history) > 1
    /\ \E n \in 0 .. Len(buf) :
         /\ IsStrlen(n, buf)
         /\ history' = [history EXCEPT ![Slot] = Until(buf, n)]
    /\ IF index + step \in 0 .. Len(history) - 1
       THEN /\ index' = index + step
            /\ LET h == history[Slot - step]
                   n == Smaller(Len(h), BufLen - 1)
               IN  Refresh(Until(h, n), n)
       ELSE UNCHANGED <<index, buf, pos, screen, pc>>
    /\ UNCHANGED <<term, hungup, raw, line, cols>>

Edit ==
    \/ \E c \in Chars : linenoiseEditInsert(c)
    \/ linenoiseEditBackspace
    \/ linenoiseEditDelete
    \/ linenoiseEditDeletePrevWord
    \/ Transpose
    \/ KillLine
    \/ KillToEnd
    \/ Move
    \/ \E step \in {-1, 1} : linenoiseEditHistoryNext(step)

-----------------------------------------------------------------------------
(* One line *)

\* linenoiseHistoryAdd(): no line twice in a row, the oldest line makes room.
Added(l) ==
    IF history # <<>> /\ history[Len(history)] = l THEN history
    ELSE IF Len(history) = HistoryMax THEN Append(Tail(history), l)
    ELSE Append(history, l)

Popped == Until(history, Len(history) - 1)

NoRow == [cells |-> <<>>, cur |-> 0]

Init ==
    /\ term \in Terminals
    /\ hungup = FALSE
    /\ raw = FALSE
    /\ pc = "prompt"
    /\ line = Empty
    /\ history = <<>>
    /\ index = 0
    /\ buf = Empty
    /\ pos = 0
    /\ cols \in Cols
    /\ screen = NoRow

\* linenoiseEdit() begins: raw mode, the width, the slot, the prompt.
Begin ==
    /\ pc = "prompt"
    /\ term = "tty"
    /\ ~hungup
    /\ pc' = "edit"
    /\ raw' = TRUE
    /\ history' = Added(Empty)
    /\ index' = 0
    /\ buf' = Empty
    /\ pos' = 0
    /\ cols' \in Cols
    /\ screen' = [cells |-> <<>>, cur |-> Plen]
    /\ UNCHANGED <<term, hungup, line>>

\* Nothing of the line's state outlives the call.
Gone ==
    /\ index' = 0
    /\ buf' = Empty
    /\ pos' = 0
    /\ screen' = NoRow

\* linenoiseEdit() returns without a line, or with the C string in the buffer.
\* Raw mode is left, unless the terminal has hung up and takes no settings.
NoLine ==
    /\ pc' = "over"
    /\ raw' = hungup
    /\ Gone
    /\ UNCHANGED <<term, hungup, line, cols>>

\* Mutant: the terminal is left as it is.
ReturnRaw ==
    /\ pc' = "entered"
    /\ \E n \in 0 .. Len(buf) : IsStrlen(n, buf) /\ line' = Until(buf, n)
    /\ Gone
    /\ UNCHANGED <<term, hungup, raw, cols>>

Return ==
    /\ pc' = "entered"
    /\ raw' = hungup
    /\ \E n \in 0 .. Len(buf) : IsStrlen(n, buf) /\ line' = Until(buf, n)
    /\ Gone
    /\ UNCHANGED <<term, hungup, cols>>

\* Mutant: the slot stays in the history.
EnterKeepsSlot ==
    /\ Key
    /\ UNCHANGED history
    /\ Return

Enter ==
    /\ Key
    /\ history' = Popped
    /\ Return

\* CTRL-D in an empty line.
EndOfFile ==
    /\ Key
    /\ buf = Empty
    /\ history' = Popped
    /\ NoLine

\* CTRL-C leaves the slot behind; the prompt is not shown again.
Interrupt ==
    /\ Key
    /\ UNCHANGED history
    /\ NoLine

\* read() fails on a terminal that has hung up: what was typed so far is the
\* line, and the slot stays.
ReadFails ==
    /\ pc = "edit"
    /\ hungup
    /\ UNCHANGED history
    /\ Return

\* The line of a pipe or of a terminal without escape sequences, as read by
\* fgetc() or fgets().
ReadPlain ==
    /\ pc = "prompt"
    /\ term # "tty"
    /\ ~hungup
    /\ line' \in PlainLines
    /\ pc' = "entered"
    /\ UNCHANGED <<term, hungup, raw, history, index, buf, pos, cols, screen>>

\* Mutant: no line, and repl() prompts again.
NoMoreInputLoops ==
    /\ pc = "prompt"
    /\ hungup
    /\ pc' = "eval"
    /\ UNCHANGED <<term, hungup, raw, line, history, index, buf, pos, cols, screen>>

\* Standard input has ended; a terminal that has hung up is none to isatty(),
\* and reading it as a file finds its end.
NoMoreInput ==
    /\ pc = "prompt"
    /\ hungup
    /\ pc' = "over"
    /\ UNCHANGED <<term, hungup, raw, line, history, index, buf, pos, cols, screen>>

\* repl() keeps the line, evaluates it, which frees it, and prompts again; the
\* evaluation may end the machine.
Keep ==
    /\ pc = "entered"
    /\ history' = Added(line)
    /\ pc' = "eval"
    /\ UNCHANGED <<term, hungup, raw, line, index, buf, pos, cols, screen>>

Evaluated ==
    /\ pc = "eval"
    /\ pc' \in {"prompt", "over"}
    /\ line' = Empty
    /\ UNCHANGED <<term, hungup, raw, history, index, buf, pos, cols, screen>>

HangUp ==
    /\ ~hungup
    /\ pc \notin {"over", "crashed"}
    /\ hungup' = TRUE
    /\ UNCHANGED <<term, raw, pc, line, history, index, buf, pos, cols, screen>>

Program == Begin \/ ReadFails \/ NoMoreInput \/ Keep \/ Evaluated

Next == Edit \/ Enter \/ EndOfFile \/ Interrupt \/ ReadPlain \/ Program \/ HangUp

Spec == Init /\ [][Next]_vars

\* Init goes on by itself whenever it does not wait for a key.
FairSpec == Spec /\ WF_vars(Program)

-----------------------------------------------------------------------------
NoNul(b) == \A i \in DOMAIN b : b[i] # Nul

\* Type correctness: the line fits its buffer with a NUL, the cursor is in the
\* line, the slot in the history, and the history in its array.
TypeOK ==
    /\ term \in Terminals
    /\ hungup \in BOOLEAN
    /\ raw \in BOOLEAN
    /\ pc \in {"prompt", "edit", "entered", "eval", "over", "crashed"}
    /\ line \in Seq(Letters)
    /\ history \in Seq(Seq(Letters))
    /\ Len(history) <= HistoryMax
    /\ index \in Nat
    /\ pc = "edit" => index < Len(history)
    /\ buf \in Seq(Chars)
    /\ Len(buf) <= BufLen
    /\ pos \in 0 .. Len(buf)
    /\ cols \in Cols

\* While a line without a NUL is edited, the row shows it around the cursor:
\* one stretch of it, up to the last column but one, from its first character
\* unless the cursor would leave the row; and the terminal's cursor is where
\* the next character goes.  refreshSingleLine() writes the row anew each time,
\* linenoiseEditInsert() at times writes one character
\* (src/linenoise.c:512-519, 646-649).
ScreenShowsLine ==
    (pc = "edit" /\ cols > Plen /\ NoNul(buf)) =>
        \E from \in 0 .. pos :
            /\ screen.cells =
                   SubSeq(buf, from + 1, Smaller(Len(buf), from + cols - Plen - 1))
            /\ screen.cur = Plen + pos - from
            /\ screen.cur < cols
            /\ from > 0 => screen.cur = cols - 1

\* Only a terminal that is no wider than the prompt makes the lengths of
\* refreshSingleLine() wrap around, which ends PID 1 (src/linenoise.c:512-519).
OnlyNarrowCrashes == pc = "crashed" => cols <= Plen

\* The commands of a line, programs run by cmd() among them, find the terminal
\* as it was, unless it has hung up (src/linenoise.c:992-995).
CookedForCommands == pc = "eval" /\ ~hungup => ~raw

\* The entries of the history, with the edited line in its place.
Drafts == [history EXCEPT ![Slot] = buf]

\* Moving up and down the history loses no line: whatever was typed in the new
\* line, or changed in an old one, is there on the way back.  It needs lines
\* without a NUL and shorter than the buffer (src/linenoise.c:702-722).
MovesKeepLines ==
    [][(/\ pc = "edit"
        /\ pc' \in {"edit", "crashed"}
        /\ index' # index \/ history' # history
        /\ NoNul(buf)
        /\ \A i \in DOMAIN history : Len(history[i]) < BufLen)
       => Drafts' = Drafts]_vars

\* The history without the slot of the edited line.
Kept == IF pc \in {"edit", "crashed"} THEN Popped ELSE history

Entered == PlainLines \cup UNION {[1 .. n -> Letters] : n \in 0 .. BufLen}

Phase ==
    CASE pc \in {"prompt", "eval"}  -> "idle"
      [] pc \in {"edit", "crashed"} -> "open"
      [] pc = "entered"             -> "given"
      [] pc = "over"                -> "left"

Book == INSTANCE LineBook WITH
    Lines <- Entered, Max <- HistoryMax,
    book <- Kept, phase <- Phase,
    given <- IF pc = "entered" THEN line ELSE Empty,
    lost <- raw /\ Phase # "open"

\* The history is the list of lines that LineBook promises, however the slot
\* at its end is added, reused and dropped (src/linenoise.c:702-722, 1102-1130).
IsBook == Book!Spec

\* When the terminal hangs up or the input ends, the prompt ends and the boot
\* goes on (src/linenoise.c:800, src/nerves_initramfs.c:240).
ReplEnds == hungup ~> pc \in {"over", "crashed"}
=============================================================================
