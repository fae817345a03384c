------------------------------- MODULE Shell -------------------------------
(***************************************************************************)
(* user/apps/shell/shell.c: the line editor, the recognition of commands   *)
(* in the C string it collects, and what each command does to the process  *)
(* table.  The shell's data is its own, so only its order of steps matters *)
(* here; how it waits for a byte and loses the CPU is in module Kernel.    *)
(*                                                                         *)
(* A character is a one-letter string or one of the control characters     *)
(* below.  The terminal is external, and the processes share it: row is    *)
(* the stretch of cells right of the prompt or, if the kernel or another   *)
(* process has printed since, right of that output.  It is too short to    *)
(* reach the right margin.                                                 *)
(***************************************************************************)
EXTENDS Integers, Sequences

CONSTANTS
    LINE_MAX,           \* size of the line buffer
    Keys,               \* the characters the user types
    Word,               \* Word[c]: the characters of command c
    NUM_PROCESSES,
    SHELL_PID,          \* the shell's own pid
    WORD                \* 2^32: an int wraps there

Commands == {"help", "ps", "kill", "echo", "clear", "crash"}

Digits == {"0", "1", "2", "3", "4", "5", "6", "7", "8", "9"}
DigitValue ==
    [d \in Digits |-> CHOOSE v \in 0 .. 9 :
        d = <<"0", "1", "2", "3", "4", "5", "6", "7", "8", "9">>[v + 1]]

Blanks   == {" ", "TAB"}
Enter    == {"CR", "LF"}
Erase    == {"BS", "DEL"}
Controls == {"TAB", "NUL"} \cup Enter \cup Erase

Procs == 0 .. NUM_PROCESSES - 1

ASSUME ShellAssumption ==
    /\ LINE_MAX \in Nat /\ LINE_MAX > 0
    /\ NUM_PROCESSES \in Nat /\ SHELL_PID \in Procs
    /\ WORD \in Nat /\ WORD > NUM_PROCESSES
    /\ \A c \in Commands : Word[c] \in Seq(STRING) /\ Len(Word[c]) > 0
    /\ \A c \in Commands : \A i \in 1 .. Len(Word[c]) :
            Word[c][i] \notin Controls \cup Blanks
    /\ \A c, d \in Commands : Word[c] = Word[d] => c = d

VARIABLES
    pc,             \* "read", "dispatch", "prompt" or "gone"
    line,           \* line[0] .. line[n - 1], then the terminator
    row,            \* cells of the terminal, right of the prompt or other output
    cursor,         \* cells of them left of the cursor
    above,          \* history: characters of line that stand before other output
    clean,          \* history: only printable characters since the prompt
    did,            \* history: the command performed and its argument
    alive           \* processes that are not DEAD

terminal == <<row, cursor, above, clean>>
vars     == <<pc, line, terminal, did, alive>>

\* A command with the text or the number it is given.
Done(cmd, arg, pid) == [cmd |-> cmd, arg |-> arg, pid |-> pid]

Nothing == Done("none", <<>>, 0)

-----------------------------------------------------------------------------
(* The terminal.                                                           *)

BlankRow == [i \in 1 .. LINE_MAX |-> " "]

\* Echo of a printable character.
TermPut(c) ==
    /\ row' = IF cursor < LINE_MAX THEN [row EXCEPT ![cursor + 1] = c] ELSE row
    /\ cursor' = cursor + 1

\* What the echo of a control character does to the row is left open: the model
\* stops following the row until the next prompt.
TermForget == row' = BlankRow /\ cursor' = 0 /\ above' = 0

\* A fresh row with the cursor right of the prompt.
prompt == row' = BlankRow /\ cursor' = 0 /\ above' = 0 /\ clean' = TRUE

\* Back, space, back.  With the cursor at the left end of the row it goes into
\* the other output, or stays at the margin: either way the row is blank.
TermErase_BackOnly ==
    /\ cursor' = IF cursor > 0 THEN cursor - 1 ELSE 0
    /\ UNCHANGED row
TermErase ==
    /\ row' = IF cursor \in 1 .. LINE_MAX THEN [row EXCEPT ![cursor] = " "] ELSE row
    /\ cursor' = IF cursor > 0 THEN cursor - 1 ELSE 0

-----------------------------------------------------------------------------
(* main: one byte at a time.                                               *)

Reading(c) == pc = "read" /\ c \in Keys

EnterKey(c) ==
    /\ Reading(c) /\ c \in Enter
    /\ line' = Append(line, "NUL")
    /\ pc' = "dispatch"
    /\ UNCHANGED <<terminal, did, alive>>

EraseKey(c) ==
    /\ Reading(c) /\ c \in Erase
    /\ \/ /\ line # <<>>
          /\ line' = SubSeq(line, 1, Len(line) - 1)
          /\ above' = IF above > Len(line') THEN Len(line') ELSE above
          /\ IF clean THEN TermErase ELSE UNCHANGED <<row, cursor>>
       \/ line = <<>> /\ UNCHANGED <<line, row, cursor, above>>
    /\ UNCHANGED <<pc, clean, did, alive>>

\* n + 1 < LINE_MAX
Room_Full == Len(line) < LINE_MAX
Room == Len(line) + 1 < LINE_MAX

\* Any other byte, printable or not, is appended and echoed; without room it is
\* dropped.
OtherKey(c) ==
    /\ Reading(c) /\ c \notin Enter \cup Erase
    /\ \/ /\ Room
          /\ line' = Append(line, c)
          /\ clean' = (clean /\ c \notin Controls)
          /\ IF clean' THEN TermPut(c) /\ UNCHANGED above ELSE TermForget
       \/ ~Room /\ UNCHANGED <<line, terminal>>
    /\ UNCHANGED <<pc, did, alive>>

\* Another process prints, as the counter does every three seconds, or the kernel
\* does on its behalf, in the midst of the editing.  Every write of it and every
\* echo is one system call with IRQs masked, so none splits another; between
\* the shell's update of its line and the echo it is as if it came before the key.
OtherOutput ==
    /\ pc = "read" /\ clean
    /\ alive \ {SHELL_PID} # {}
    /\ row' = BlankRow /\ cursor' = 0
    /\ above' = Len(line)
    /\ UNCHANGED <<pc, line, clean, did, alive>>

-----------------------------------------------------------------------------
(* Recognition of a command in the terminated line.  A position s stands   *)
(* for the pointer line + s - 1; nothing after the terminator exists, so a *)
(* read beyond it is an error of the evaluation.                           *)

skip_spaces(s) ==
    CHOOSE i \in s .. Len(line) :
        /\ line[i] \notin Blanks
        /\ \A j \in s .. i - 1 : line[j] \in Blanks

\* ulib_strncmp(s, w, strlen(w)) = 0: the comparison stops at the first
\* difference, the terminator at the latest.
SameWord(s, w) == \A i \in 1 .. Len(w) : line[s + i - 1] = w[i]

match_word_Prefix(s, w) == SameWord(s, w)
match_word(s, w) ==
    SameWord(s, w) /\ line[s + Len(w)] \in Blanks \cup {"NUL"}

\* The commands in the order dispatch tries them.
Order == <<"help", "ps", "kill", "echo", "clear", "crash">>

First == skip_spaces(1)

Selected(k) ==
    /\ pc = "dispatch"
    /\ line[First] # "NUL"
    /\ match_word(First, Word[Order[k]])
    /\ \A j \in 1 .. k - 1 : ~match_word(First, Word[Order[j]])

Rest(c) == skip_spaces(First + Len(Word[c]))

\* What ulib_puts prints from position s on.
CString(s) ==
    LET end == CHOOSE e \in s .. Len(line) :
                  line[e] = "NUL" /\ \A j \in s .. e - 1 : line[j] # "NUL"
    IN  SubSeq(line, s, end - 1)

ulib_atoi(s) ==
    LET end == CHOOSE e \in s .. Len(line) :
                  line[e] \notin Digits /\ \A j \in s .. e - 1 : line[j] \in Digits
        value[k \in 0 .. end - s] ==
            IF k = 0 THEN 0
            ELSE (value[k - 1] * 10 + DigitValue[line[s + k - 1]]) % WORD
    IN  value[end - s]

-----------------------------------------------------------------------------
(* The commands.                                                           *)

\* A command that only prints.
Prints(cmd, arg) ==
    /\ did' = Done(cmd, arg, 0)
    /\ pc' = "prompt"
    /\ UNCHANGED <<line, terminal, alive>>

EmptyLine == pc = "dispatch" /\ line[First] = "NUL" /\ Prints("empty", <<>>)

Unknown ==
    /\ pc = "dispatch" /\ line[First] # "NUL"
    /\ \A k \in 1 .. 6 : ~match_word(First, Word[Order[k]])
    /\ Prints("unknown", <<>>)

cmd_help  == Selected(1) /\ Prints("help", <<>>)
cmd_ps    == Selected(2) /\ Prints("ps", <<>>)
cmd_echo  == Selected(4) /\ Prints("echo", CString(Rest("echo")))
cmd_clear == Selected(5) /\ Prints("clear", <<>>)

\* The shell goes on when it is alive, or when there is nobody to switch to.
GoesOn == pc' = IF SHELL_PID \in alive' \/ alive' = {} THEN "prompt" ELSE "gone"

sys_kill(pid) == alive' = alive \ {pid}

cmd_kill ==
    /\ Selected(3)
    /\ LET arg == Rest("kill")
       IN  \/ line[arg] = "NUL" /\ Prints("usage", <<>>)
           \/ /\ line[arg] # "NUL"
              /\ sys_kill(ulib_atoi(arg))
              /\ did' = Done("kill", <<>>, ulib_atoi(arg))
              /\ GoesOn
              /\ UNCHANGED <<line, terminal>>

\* The kernel retires the shell, or halts if nobody else is left.
cmd_crash ==
    /\ Selected(6)
    /\ did' = Done("crash", <<>>, 0)
    /\ alive' = alive \ {SHELL_PID}
    /\ pc' = "gone"
    /\ UNCHANGED <<line, terminal>>

\* n = 0; prompt();
Prompt ==
    /\ pc = "prompt"
    /\ pc' = "read"
    /\ line' = <<>>
    /\ prompt
    /\ did' = Nothing
    /\ UNCHANGED alive

-----------------------------------------------------------------------------

Init ==
    /\ pc = "read"
    /\ line = <<>>
    /\ row = BlankRow /\ cursor = 0 /\ above = 0 /\ clean = TRUE
    /\ did = Nothing
    /\ alive = Procs

Next ==
    \/ \E c \in Keys : EnterKey(c) \/ EraseKey(c) \/ OtherKey(c)
    \/ OtherOutput
    \/ EmptyLine \/ Unknown
    \/ cmd_help \/ cmd_ps \/ cmd_kill \/ cmd_echo \/ cmd_clear \/ cmd_crash
    \/ Prompt

Spec == Init /\ [][Next]_vars

-----------------------------------------------------------------------------
(* Properties.                                                             *)

\* Types; the collected line with its terminator fits into the buffer, whatever
\* mixture of characters, erasures and Enter led to it.
TypeOK ==
    /\ pc \in {"read", "dispatch", "prompt", "gone"}
    /\ line \in Seq(Keys \cup {"NUL"}) /\ Len(line) <= LINE_MAX
    /\ row \in [1 .. LINE_MAX -> Keys \cup {" "}]
    /\ cursor \in 0 .. LINE_MAX /\ above \in 0 .. LINE_MAX
    /\ clean \in BOOLEAN
    /\ did \in [cmd : Commands \cup {"none", "empty", "unknown", "usage"},
                arg : Seq(Keys), pid : 0 .. WORD - 1]
    /\ alive \subseteq Procs

\* While the user edits, the terminal shows right of the prompt, or right of what
\* another process last printed, exactly the characters of the line that were
\* typed since and that Enter would dispatch: dropped and erased ones not, and
\* nothing after them.  What stands before other output is not followed (an
\* erasure cannot reach it), and lines that hold or held a control character are
\* excepted.
ScreenShowsLine ==
    pc = "read" /\ clean =>
        /\ cursor = Len(line) - above
        /\ \A i \in 1 .. LINE_MAX :
              row[i] = IF i <= cursor THEN line[above + i] ELSE " "

\* Reference reading of a line: the first word of its text and what follows.
Text ==
    CHOOSE t \in {SubSeq(line, 1, e) : e \in 0 .. Len(line) - 1} :
        /\ line[Len(t) + 1] = "NUL"
        /\ \A j \in 1 .. Len(t) : t[j] # "NUL"

\* The maximal stretches [first, last] of text t whose characters are in set S.
Stretches(t, S) ==
    {b \in (1 .. Len(t)) \X (1 .. Len(t)) :
        /\ b[1] <= b[2]
        /\ \A j \in b[1] .. b[2] : t[j] \in S
        /\ b[1] > 1 => t[b[1] - 1] \notin S
        /\ b[2] < Len(t) => t[b[2] + 1] \notin S}

WordsOf(t) == Stretches(t, {t[i] : i \in 1 .. Len(t)} \ Blanks)

\* From the second word on.
ArgumentOf(t) ==
    LET starts == {b[1] : b \in WordsOf(t)}
        later  == {s \in starts : \E r \in starts : r < s}
    IN  IF later = {} THEN <<>>
        ELSE SubSeq(t, CHOOSE s \in later : \A r \in later : s <= r, Len(t))

\* A numeral by the weights of its digits, the last one first.
ValueOf(t) ==
    LET weight[k \in 0 .. Len(t)] == IF k = 0 THEN 1 ELSE 10 * weight[k - 1]
        lowest[k \in 0 .. Len(t)] ==
            IF k = 0 THEN 0
            ELSE lowest[k - 1] + DigitValue[t[Len(t) - k + 1]] * weight[k - 1]
    IN  lowest[Len(t)]

\* The numeral an argument starts with, as an int.
NumberOf(t) ==
    LET leading == {b \in Stretches(t, Digits) : b[1] = 1}
    IN  IF leading = {} THEN 0
        ELSE ValueOf(SubSeq(t, 1, (CHOOSE b \in leading : TRUE)[2])) % WORD

Meaning ==
    LET t == Text
        first == CHOOSE b \in WordsOf(t) : \A d \in WordsOf(t) : b[1] <= d[1]
        named == {c \in Commands : Word[c] = SubSeq(t, first[1], first[2])}
        cmd == CHOOSE c \in named : TRUE
    IN  IF WordsOf(t) = {} THEN Done("empty", <<>>, 0)
        ELSE IF named = {} THEN Done("unknown", <<>>, 0)
        ELSE IF cmd = "kill" THEN
            IF ArgumentOf(t) = <<>> THEN Done("usage", <<>>, 0)
            ELSE Done("kill", <<>>, NumberOf(ArgumentOf(t)))
        ELSE Done(cmd, IF cmd = "echo" THEN ArgumentOf(t) ELSE <<>>, 0)

\* The shell performs the command whose name is the first word of the line, with
\* the rest as its argument, and no other: commands that begin alike, surplus
\* blanks and tabs, a NUL in the middle, a missing argument and a numeral that
\* wraps included.
CommandExact == pc \in {"prompt", "gone"} => did = Meaning
=============================================================================
