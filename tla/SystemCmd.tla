----------------------------- MODULE SystemCmd -----------------------------
(***************************************************************************)
(* Running a program from the script: system_cmd() of src/cmd.c and its    *)
(* two callers, cmd() and fwup_revert() (src/script.c:587-634).            *)
(*                                                                         *)
(* Init is PID 1: it forks a child, reads the child's standard output from *)
(* a pipe until no process holds the write end, and reaps the child.  The  *)
(* program the child runs may close its descriptors before it ends, and it *)
(* may leave a background process behind.  That process has the write end  *)
(* as standard output and as an inherited descriptor, until it ends or     *)
(* closes all its descriptors, and it becomes a child of init.  Bytes are  *)
(* counted: produced by the program, consumed by init, index of them in    *)
(* the caller's buffer.  What the bytes in the buffer are, blanks, NULs or *)
(* others, matters to cmd(), which trims them (src/util.c:97-110).         *)
(***************************************************************************)
EXTENDS Integers, Sequences

CONSTANTS
    Length,         \* size of the caller's buffer, 256 in the code
    Throwaway,      \* size of the buffer that drains the rest, 256
    PipeCap,        \* what the kernel's pipe holds
    MaxOut          \* bound: the most bytes a program writes

ASSUME CmdAssumption ==
    /\ Length \in Nat \ {0} /\ Throwaway \in Nat \ {0}
    /\ PipeCap \in Nat \ {0} /\ MaxOut \in Nat

VARIABLES
    pc,         \* where init is
    caller,     \* "cmd" or "fwup_revert"
    pid,        \* what fork() returned: "child", "failed" for -1, "none" before
    consumed, index,
    buffer,     \* the first index bytes of the caller's buffer; NULs follow
    answer,     \* the string cmd() returned
    result,     \* what system_cmd() returned: "none" before it, "error" for
                \* -1, else a wait status
    child,      \* the child of this call; "closed": its descriptors are
    code,       \* the child's wait status once it has exited
    helper,     \* the background process
    todo,       \* what the program still has to write
    produced

init    == <<pc, caller, pid, consumed, index, buffer, answer, result>>
program == <<child, code, helper, todo, produced>>
vars    == <<pc, caller, pid, consumed, index, buffer, answer, result, child, code, helper, todo, produced>>

Callers    == {"cmd", "fwup_revert"}
Statuses   == {"success", "failure"}
Background == {"attached", "detached"}
Bytes      == {"char", "blank", "nul"}

\* Somebody can still write to the pipe.
Writers == child \in {"setup", "running"} \/ helper = "attached"

Least(a, b) == IF a <= b THEN a ELSE b

-----------------------------------------------------------------------------
Init ==
    /\ pc = "idle"
    /\ caller = "cmd"
    /\ pid = "none"
    /\ consumed = 0
    /\ index = 0
    /\ buffer = <<>>
    /\ answer = <<>>
    /\ result = "none"
    /\ child = "none"
    /\ code = "failure"
    /\ helper = "none"
    /\ todo = 0
    /\ produced = 0

\* The script calls cmd(), or fwup_revert() on a device that can be resolved
\* (otherwise it returns false here and runs nothing).  pipe() may fail.
Call(who) ==
    /\ pc = "idle"
    /\ caller' = who
    /\ pid' = "none"
    /\ consumed' = 0
    /\ index' = 0
    /\ buffer' = <<>>
    /\ answer' = <<>>
    /\ \/ /\ pc' = "fork"
          /\ result' = "none"
       \/ /\ pc' = "return"
          /\ result' = "error"
    /\ child' = "none"
    /\ code' = "failure"
    /\ todo' = 0
    /\ produced' = 0
    /\ UNCHANGED helper

\* Mutant: the child is reaped before its output is read.
ForkThenWait ==
    /\ pc = "fork"
    /\ pc' = "wait"
    /\ pid' = "child"
    /\ child' = "setup"
    /\ UNCHANGED <<caller, consumed, index, buffer, answer, result, code, helper, todo, produced>>

Fork ==
    /\ pc = "fork"
    /\ pc' = "read"
    /\ \/ /\ pid' = "child"
          /\ child' = "setup"
       \/ /\ pid' = "failed"
          /\ UNCHANGED child
    /\ UNCHANGED <<caller, consumed, index, buffer, answer, result, code, helper, todo, produced>>

\* What one read() asks for: the room left in the caller's buffer, of which a
\* byte is kept for the final NUL, or when that is used up the throwaway.
Room   == Length - 1 - index
Wanted == IF Room > 0 THEN Room ELSE Throwaway

\* Mutant: a byte that was thrown away is counted into the buffer.
ReadCountsAll ==
    /\ pc = "read"
    /\ \E n \in 1 .. Least(produced - consumed, Wanted) :
         /\ consumed' = consumed + n
         /\ index' = index + n
    /\ UNCHANGED <<pc, caller, pid, buffer, answer, result, program>>

\* read() returns bytes, to the buffer or, when that is full, to nowhere.
Read ==
    /\ pc = "read"
    /\ \E n \in 1 .. Least(produced - consumed, Wanted) :
         /\ consumed' = consumed + n
         /\ IF Room > 0
            THEN /\ index' = index + n
                 /\ \E b \in [1 .. n -> Bytes] : buffer' = buffer \o b
            ELSE UNCHANGED <<index, buffer>>
    /\ UNCHANGED <<pc, caller, pid, answer, result, program>>

\* Mutant: the loop ends once the program has closed the pipe, whoever else has it.
UntilEmpty ==
    /\ pc = "read"
    /\ produced = consumed
    /\ child \notin {"setup", "running"}
    /\ pc' = "wait"
    /\ UNCHANGED <<caller, pid, consumed, index, buffer, answer, result, program>>

\* read() returns 0: the pipe is empty and has no writer.
EndOfFile ==
    /\ pc = "read"
    /\ produced = consumed
    /\ ~Writers
    /\ pc' = "wait"
    /\ UNCHANGED <<caller, pid, consumed, index, buffer, answer, result, program>>

\* Mutant: waitpid() does not wait, and its status is used all the same.
WaitDoesNotBlock ==
    /\ pc = "wait"
    /\ result' \in Statuses
    /\ pc' = "return"
    /\ UNCHANGED <<caller, pid, consumed, index, buffer, answer, program>>

\* waitpid(pid, &status, 0) when fork() worked.
ReapChild ==
    /\ pid = "child"
    /\ child = "exited"
    /\ child' = "reaped"
    /\ result' = code
    /\ UNCHANGED helper

\* When fork() failed pid is -1, which waits for any child.  One that a program
\* left behind is reaped and its pid is not -1; with none waitpid() returns -1,
\* which equals pid, and status was never written.
ReapAny ==
    /\ pid = "failed"
    /\ \/ /\ helper = "zombie"
          /\ helper' = "none"
          /\ result' = "error"
       \/ /\ helper = "none"
          /\ result' \in Statuses
          /\ UNCHANGED helper
    /\ UNCHANGED child

Wait ==
    /\ pc = "wait"
    /\ ReapChild \/ ReapAny
    /\ pc' = "return"
    /\ UNCHANGED <<caller, pid, consumed, index, buffer, answer, code, todo, produced>>

\* fwup_revert() reboots if the status is zero.
Reboot ==
    /\ pc = "return"
    /\ caller = "fwup_revert"
    /\ result = "success"
    /\ pc' = "rebooted"
    /\ UNCHANGED <<caller, pid, consumed, index, buffer, answer, result, program>>

\* fwup_revert() returns false on any other.
Return ==
    /\ pc = "return"
    /\ caller = "fwup_revert"
    /\ result # "success"
    /\ pc' = "idle"
    /\ UNCHANGED <<caller, pid, consumed, index, buffer, answer, result, program>>

Blank(offset) == buffer[offset + 1] = "blank"

\* The first `first` of the n characters of the string in the buffer are blank,
\* and no more.
Leading(first, n) ==
    /\ \A i \in 0 .. n - 1 : buffer[i + 1] # "nul"
    /\ n < index => buffer[n + 1] = "nul"
    /\ \A i \in 0 .. first - 1 : Blank(i)
    /\ first < n => ~Blank(first)

\* Mutant: the last character is not looked at.
TrimLessOne(first, n) ==
    \E last \in first .. n - 1 :
        /\ \A i \in last + 1 .. n - 2 : Blank(i)
        /\ last = first \/ ~Blank(last)
        /\ answer' = SubSeq(buffer, first + 1, last + 1)
        /\ pc' = "idle"

\* trim_string_in_place() of a string with another character: last goes back
\* from its end.
TrimText(first, n) ==
    /\ first < n
    /\ \E last \in first .. n - 1 :
         /\ \A i \in last + 1 .. n - 1 : Blank(i)
         /\ last = first \/ ~Blank(last)
         /\ answer' = SubSeq(buffer, first + 1, last + 1)
    /\ pc' = "idle"

\* Of one without: last begins below first, which it is compared with, and goes
\* down over the blanks and whatever lies below the buffer.  If it moves at all
\* last - first + 1 is negative, a size_t that no memmove() survives.  With an
\* empty string it moves if the byte below the buffer is a blank.
TrimBlanks(first, n) ==
    /\ first = n
    /\ \/ pc' = "crashed"
       \/ n = 0 /\ pc' = "idle"
    /\ answer' = <<>>

\* cmd() ignores the status and returns the output, trimmed.
CmdReturns ==
    /\ pc = "return"
    /\ caller = "cmd"
    /\ \E n \in 0 .. index : \E first \in 0 .. n :
         /\ Leading(first, n)
         /\ TrimText(first, n) \/ TrimBlanks(first, n)
    /\ UNCHANGED <<caller, pid, consumed, index, buffer, result, program>>

-----------------------------------------------------------------------------
\* The child redirects its output and executes the program, which has n bytes
\* to write; it exits with a failure if /dev/null or the program is missing.
Exec ==
    /\ child = "setup"
    /\ \/ /\ child' = "running"
          /\ todo' \in 0 .. MaxOut
          /\ UNCHANGED code
       \/ /\ child' = "exited"
          /\ code' = "failure"
          /\ UNCHANGED todo
    /\ UNCHANGED <<helper, produced, init>>

\* The program, or the background process it left the rest to, blocks while
\* the pipe is full.
Write ==
    /\ child = "running" \/ helper = "attached"
    /\ todo > 0
    /\ produced - consumed < PipeCap
    /\ todo' = todo - 1
    /\ produced' = produced + 1
    /\ UNCHANGED <<child, code, helper, init>>

StartBackground ==
    /\ child = "running"
    /\ helper = "none"
    /\ helper' = "attached"
    /\ UNCHANGED <<child, code, todo, produced, init>>

\* The program closes all its descriptors and goes on.
CloseAll ==
    /\ child = "running"
    /\ todo = 0
    /\ child' = "closed"
    /\ UNCHANGED <<code, helper, todo, produced, init>>

\* The program ends when it, or the background process, has written the rest.
Exit ==
    /\ child \in {"running", "closed"}
    /\ todo = 0 \/ helper = "attached"
    /\ child' = "exited"
    /\ code' \in Statuses
    /\ UNCHANGED <<helper, todo, produced, init>>

\* The background process closes all its descriptors, or ends.
Detach ==
    /\ helper = "attached"
    /\ helper' = "detached"
    /\ UNCHANGED <<child, code, todo, produced, init>>

HelperEnds ==
    /\ helper \in Background
    /\ helper' = "zombie"
    /\ UNCHANGED <<child, code, todo, produced, init>>

SystemCall == Fork \/ Read \/ EndOfFile \/ Wait \/ Reboot \/ Return \/ CmdReturns
Program    == Exec \/ Write \/ Exit
Helper     == StartBackground \/ CloseAll \/ Detach \/ HelperEnds

Next ==
    \/ \E who \in Callers : Call(who)
    \/ SystemCall
    \/ Program
    \/ Helper

Spec == Init /\ [][Next]_vars

\* Init and the program it runs are scheduled, and the program ends when it has
\* written its output.  Nothing is assumed of a background process.
FairSpec ==
    /\ Spec
    /\ WF_vars(SystemCall)
    /\ WF_vars(Exec)
    /\ WF_vars(Write)
    /\ WF_vars(Exit)

-----------------------------------------------------------------------------
\* Type correctness: no bytes beyond the buffer's last but one, none consumed
\* that were not produced, none in the pipe beyond what it holds.
TypeOK ==
    /\ pc \in {"idle", "fork", "read", "wait", "return", "rebooted", "crashed"}
    /\ caller \in Callers
    /\ pid \in {"none", "child", "failed"}
    /\ produced \in Nat
    /\ consumed \in 0 .. produced
    /\ produced - consumed <= PipeCap
    /\ index \in 0 .. Length - 1
    /\ buffer \in Seq(Bytes)
    /\ Len(buffer) = index
    /\ answer \in Seq(Bytes)
    /\ result \in Statuses \cup {"none", "error"}
    /\ child \in {"none", "setup", "running", "closed", "exited", "reaped"}
    /\ code \in Statuses
    /\ helper \in {"none", "zombie"} \cup Background
    /\ todo \in 0 .. MaxOut

\* When system_cmd() answers with the child's status, the program and all it
\* left behind have written their last byte, init has read every one, and the
\* buffer holds the first of them, up to its size: output longer than the
\* buffer, and output that arrives late, is neither lost nor left in the pipe
\* (src/cmd.c:43-62).
AllOutput ==
    (pc = "return" /\ child = "reaped") =>
        /\ ~Writers
        /\ consumed = produced
        /\ index = Least(produced, Length - 1)

\* If fork() worked, a status that is not -1 is the one the program of this
\* call ended with, and its process is reaped; init never answers for another
\* one (src/cmd.c:66-70).
StatusIsTheCommands ==
    (pc = "return" /\ result \in Statuses /\ pid # "failed") =>
        child = "reaped" /\ result = code

\* The machine restarts only after fwup has ended and reported success
\* (src/script.c:624-633; README.md:94: "Run fwup with the appropriate
\* parameters to revert to the previous firmware. Reboots on success.").
RevertedBeforeReboot ==
    pc = "rebooted" => caller = "fwup_revert" /\ child = "reaped" /\ code = "success"

\* So it does if fork() worked, which src/cmd.c:16 does not check.
RevertedIfForked == pid # "failed" => RevertedBeforeReboot

\* The bytes b are those of s up to a NUL, without the blanks at both ends.
Trims(b, s) ==
    /\ b[1] # "blank"
    /\ b[Len(b)] # "blank"
    /\ \E from \in 1 .. Len(s) : \E to \in from .. Len(s) :
         /\ b = SubSeq(s, from, to)
         /\ \A i \in 1 .. to : s[i] # "nul" /\ (i < from => s[i] = "blank")
         /\ \A i \in to + 1 .. Len(s) :
                s[i] = "char" => \E j \in to + 1 .. i : s[j] = "nul"

\* Up to a NUL there are only blanks.
NoText(s) ==
    \A i \in 1 .. Len(s) : s[i] = "char" => \E j \in 1 .. i : s[j] = "nul"

\* What cmd() returns is the output up to a NUL without the blanks at both ends;
\* and only output that holds nothing else ends PID 1 (src/util.c:97-110,
\* src/script.c:604-608).
TrimmedUnlessBlank ==
    caller = "cmd" =>
        /\ (pc = "idle" /\ answer # <<>>) => Trims(answer, buffer)
        /\ (pc = "crashed" \/ (pc = "idle" /\ answer = <<>>)) => NoText(buffer)

\* A program's output is trimmed "since that's what's expected in practice.
\* There's usually a newline to trim anyway" (src/script.c:604-606): whatever a
\* program writes, a newline alone too, does not end the boot.
OutputIsTrimmed == pc = "crashed" => index = 0

\* A call comes to its end however much the program writes, unless a process
\* it left in the background lives on with the pipe open (src/cmd.c:44-62).
CallEnds ==
    pc \in {"fork", "read", "wait", "return"} ~>
        (pc \in {"idle", "rebooted", "crashed"} \/ helper \in Background)
=============================================================================
