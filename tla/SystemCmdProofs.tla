-------------------------- MODULE SystemCmdProofs --------------------------
(***************************************************************************)
(* Proofs about SystemCmd for every size of the buffers and of the pipe    *)
(* and every amount of output.                                             *)
(***************************************************************************)
EXTENDS SystemCmd, TLAPS

-----------------------------------------------------------------------------
LEMMA EmptyBytes == <<>> \in Seq(Bytes) /\ Len(<<>>) = 0
OBVIOUS

\* What one read() adds to the buffer.
LEMMA MoreBytes ==
    ASSUME NEW s \in Seq(Bytes), NEW n \in Nat, NEW b \in [1 .. n -> Bytes]
    PROVE  s \o b \in Seq(Bytes) /\ Len(s \o b) = Len(s) + n
<1>1. b \in Seq(Bytes) /\ Len(b) = n
    OBVIOUS
<1> QED
    BY <1>1

\* The initial state satisfies the type invariant.
LEMMA TypeInit == Init => TypeOK
BY CmdAssumption, EmptyBytes DEF Init, TypeOK, Callers, Statuses, Background

\* Every step of src/cmd.c, of its callers and of the program keeps the types.
LEMMA TypeStep == TypeOK /\ [Next]_vars => TypeOK'
<1> USE CmdAssumption DEF TypeOK
<1> SUFFICES ASSUME TypeOK, [Next]_vars PROVE TypeOK'
    OBVIOUS
<1>1. CASE \E who \in Callers : Call(who)
    BY <1>1, EmptyBytes DEF Call, Callers, Statuses, Background
<1>2. CASE Fork
    BY <1>2 DEF Fork
<1>3. CASE Read
    <2>1. PICK n \in 1 .. Least(produced - consumed, Wanted) :
              /\ consumed' = consumed + n
              /\ IF Room > 0
                 THEN /\ index' = index + n
                      /\ \E b \in [1 .. n -> Bytes] : buffer' = buffer \o b
                 ELSE UNCHANGED <<index, buffer>>
        BY <1>3 DEF Read
    <2>2. n \in Nat /\ n >= 1 /\ n <= produced - consumed /\ (Room > 0 => n <= Room)
        BY <2>1 DEF Least, Wanted, Room
    <2>3. consumed' \in 0 .. produced /\ index' \in 0 .. Length - 1
        BY <2>1, <2>2 DEF Room
    <2>4. buffer' \in Seq(Bytes) /\ Len(buffer') = index'
        BY <2>1, <2>2, MoreBytes
    <2> QED
        BY <1>3, <2>1, <2>2, <2>3, <2>4 DEF Read, program
<1>4. CASE EndOfFile
    BY <1>4 DEF EndOfFile, program
<1>5. CASE Wait
    BY <1>5 DEF Wait, ReapChild, ReapAny, Statuses
<1>6. CASE Reboot \/ Return
    BY <1>6 DEF Reboot, Return, program
<1>10. CASE CmdReturns
    <2>1. pc' \in {"idle", "crashed"} /\ answer' \in Seq(Bytes)
        <3>1. PICK n \in 0 .. index : \E first \in 0 .. n :
                  TrimText(first, n) \/ TrimBlanks(first, n)
            BY <1>10 DEF CmdReturns
        <3>2. PICK first \in 0 .. n : TrimText(first, n) \/ TrimBlanks(first, n)
            BY <3>1
        <3>3. CASE TrimBlanks(first, n)
            BY <3>3, EmptyBytes DEF TrimBlanks
        <3>4. CASE TrimText(first, n)
            BY <3>4 DEF TrimText
        <3> QED
            BY <3>2, <3>3, <3>4
    <2> QED
        BY <1>10, <2>1 DEF CmdReturns, program
<1>7. CASE Program
    BY <1>7 DEF Program, Exec, Write, Exit, init, Statuses
<1>8. CASE Helper
    BY <1>8 DEF Helper, StartBackground, CloseAll, Detach, HelperEnds, init, Background
<1>9. CASE UNCHANGED vars
    BY <1>9 DEF vars
<1> QED
    BY <1>1, <1>2, <1>3, <1>4, <1>5, <1>6, <1>7, <1>8, <1>9, <1>10 DEF Next, SystemCall

-----------------------------------------------------------------------------
(***************************************************************************)
(* The output.  AllOutput is not inductive: it says nothing of what the    *)
(* loop has read before the end of file, and nothing of what holds between *)
(* the end of file and waitpid()'s answer.                                 *)
(***************************************************************************)
Drained == ~Writers /\ consumed = produced

OutputInv ==
    /\ index = Least(consumed, Length - 1)
    /\ pc = "wait" => Drained
    /\ (pc = "return" /\ child = "reaped") => Drained

\* Once the pipe is drained and has no writer, no process can write to it again.
LEMMA OutputStep == TypeOK /\ OutputInv /\ [Next]_vars => OutputInv'
<1> USE CmdAssumption
<1> SUFFICES ASSUME TypeOK, OutputInv, [Next]_vars PROVE OutputInv'
    OBVIOUS
<1>1. CASE \E who \in Callers : Call(who)
    BY <1>1 DEF Call, OutputInv, Least
<1>2. CASE Fork
    BY <1>2 DEF Fork, OutputInv
<1>3. CASE Read
    <2>1. PICK n \in 1 .. Least(produced - consumed, Wanted) :
              /\ consumed' = consumed + n
              /\ index' = IF Room > 0 THEN index + n ELSE index
        BY <1>3 DEF Read
    <2>2. n \in Int /\ n >= 1 /\ (Room > 0 => n <= Room)
        BY <2>1 DEF Least, Wanted, Room, TypeOK
    <2>3. index' = Least(consumed', Length - 1)
        BY <2>1, <2>2 DEF Least, Room, TypeOK, OutputInv
    <2> QED
        BY <1>3, <2>3 DEF Read, OutputInv
<1>4. CASE EndOfFile
    BY <1>4 DEF EndOfFile, OutputInv, Drained, Writers, program
<1>5. CASE Wait
    BY <1>5 DEF Wait, ReapChild, ReapAny, OutputInv, Drained, Writers
<1>6. CASE Reboot \/ Return \/ CmdReturns
    <2>1. pc' \notin {"wait", "return"} /\ UNCHANGED <<index, consumed>>
        BY <1>6 DEF Reboot, Return, CmdReturns, TrimText, TrimBlanks
    <2> QED
        BY <2>1 DEF OutputInv
<1>7. CASE Program
    BY <1>7 DEF Program, Exec, Write, Exit, OutputInv, Drained, Writers, init
<1>8. CASE Helper
    BY <1>8 DEF Helper, StartBackground, CloseAll, Detach, HelperEnds, OutputInv,
                Drained, Writers, Background, init
<1>9. CASE UNCHANGED vars
    BY <1>9 DEF vars, OutputInv, Drained, Writers
<1> QED
    BY <1>1, <1>2, <1>3, <1>4, <1>5, <1>6, <1>7, <1>8, <1>9 DEF Next, SystemCall

\* For every buffer, pipe and amount of output: system_cmd() answers only after
\* the last byte was read, and the buffer holds as many of them as fit
\* (src/cmd.c:43-62); the indexes stay inside the buffers.
THEOREM AllOutputAlways == Spec => [](TypeOK /\ AllOutput)
<1>1. Init => OutputInv
    BY CmdAssumption DEF Init, OutputInv, Least
<1>2. OutputInv => AllOutput
  <2> SUFFICES ASSUME OutputInv, pc = "return", child = "reaped",
                      consumed = produced
               PROVE  index = Least(produced, Length - 1)
    BY DEF OutputInv, AllOutput, Drained
  <2> QED
    BY DEF OutputInv
<1> QED
    BY <1>1, <1>2, TypeInit, TypeStep, OutputStep, PTL DEF Spec

\* For every buffer, pipe and amount of output: the index stays in the caller's
\* buffer with room for the NUL, and counts the bytes that are there.
THEOREM TypeAlways == Spec => []TypeOK
<1> QED
    BY AllOutputAlways, PTL

-----------------------------------------------------------------------------
\* The status.  Between fork() and waitpid() the pid init holds is the child's or -1.
StatusInv ==
    /\ pc \in {"read", "wait"} => pid \in {"child", "failed"}
    /\ StatusIsTheCommands
    /\ RevertedIfForked

\* If fork() has worked, no other process is waited for, and the status of a
\* reaped child does not change.
LEMMA StatusStep == StatusInv /\ [Next]_vars => StatusInv'
<1> USE DEF StatusInv, StatusIsTheCommands, RevertedBeforeReboot, RevertedIfForked
<1> SUFFICES ASSUME StatusInv, [Next]_vars PROVE StatusInv'
    OBVIOUS
<1>1. CASE \E who \in Callers : Call(who)
    BY <1>1 DEF Call, Statuses
<1>2. CASE Fork
    BY <1>2 DEF Fork
<1>3. CASE Read \/ EndOfFile
    BY <1>3 DEF Read, EndOfFile, program
<1>4. CASE Wait
    BY <1>4 DEF Wait, ReapChild, ReapAny
<1>5. CASE Reboot \/ Return \/ CmdReturns
    <2>1. /\ pc' \notin {"read", "wait", "return"}
          /\ pc' = "rebooted" => Reboot
        BY <1>5 DEF Reboot, Return, CmdReturns, TrimText, TrimBlanks
    <2> QED
        BY <1>5, <2>1 DEF Reboot, program, Statuses
<1>6. CASE Program
    BY <1>6 DEF Program, Exec, Write, Exit, init
<1>7. CASE Helper
    BY <1>7 DEF Helper, StartBackground, CloseAll, Detach, HelperEnds, init
<1>8. CASE UNCHANGED vars
    BY <1>8 DEF vars
<1> QED
    BY <1>1, <1>2, <1>3, <1>4, <1>5, <1>6, <1>7, <1>8 DEF Next, SystemCall

\* If fork() has worked, a status is the program's own, and the machine is
\* restarted by fwup_revert() only after fwup has succeeded (src/cmd.c:66-70,
\* src/script.c:624-633).
THEOREM RevertedIfForkedAlways == Spec => [](StatusIsTheCommands /\ RevertedIfForked)
<1>1. Init => StatusInv
    BY DEF Init, StatusInv, StatusIsTheCommands, RevertedBeforeReboot, RevertedIfForked
<1>2. StatusInv => StatusIsTheCommands /\ RevertedIfForked
    BY DEF StatusInv
<1> QED
    BY <1>1, <1>2, StatusStep, PTL DEF Spec

\* If fork() has worked, what system_cmd() answers is the wait status of the program
\* it started, whatever background processes there are (src/cmd.c:66-70).
THEOREM StatusAlways == Spec => []StatusIsTheCommands
<1> QED
    BY RevertedIfForkedAlways, PTL

-----------------------------------------------------------------------------
(***************************************************************************)
(* The trim.  Of the steps that lead to "idle" or "crashed" only cmd()'s   *)
(* return has an answer to show for it.                                    *)
(***************************************************************************)
\* The two loops of trim_string_in_place() leave a text without blanks around it.
LEMMA TrimTextStep ==
    ASSUME TypeOK, NEW n \in 0 .. index, NEW first \in 0 .. n,
           Leading(first, n), TrimText(first, n), UNCHANGED <<caller, index, buffer>>
    PROVE  TrimmedUnlessBlank'
<1> USE DEF TypeOK
<1>1. PICK last \in first .. n - 1 :
          /\ \A i \in last + 1 .. n - 1 : Blank(i)
          /\ last = first \/ ~Blank(last)
          /\ answer' = SubSeq(buffer, first + 1, last + 1)
    BY DEF TrimText
<1>2. /\ Len(answer') = last - first + 1
      /\ answer'[1] = buffer[first + 1]
      /\ answer'[last - first + 1] = buffer[last + 1]
    BY <1>1, CmdAssumption
<1>3. ~Blank(first) /\ ~Blank(last)
    BY <1>1 DEF Leading, TrimText
<1>4. answer'[1] # "blank" /\ answer'[Len(answer')] # "blank"
    BY <1>2, <1>3 DEF Blank
<1>5. \A i \in 1 .. last + 1 : buffer[i] # "nul" /\ (i < first + 1 => buffer[i] = "blank")
    <2> SUFFICES ASSUME NEW i \in 1 .. last + 1
                 PROVE  buffer[i] # "nul" /\ (i < first + 1 => buffer[i] = "blank")
        OBVIOUS
    <2>1. i - 1 \in 0 .. n - 1 /\ (i - 1) + 1 = i
        BY <1>1
    <2>2. i < first + 1 => i - 1 \in 0 .. first - 1
        BY <1>1
    <2>3. buffer[(i - 1) + 1] # "nul"
        BY <2>1 DEF Leading
    <2>4. i < first + 1 => buffer[(i - 1) + 1] = "blank"
        BY <2>2 DEF Leading, Blank
    <2> QED
        BY <2>1, <2>3, <2>4
<1>6. first + 1 \in 1 .. index /\ last + 1 \in first + 1 .. index
    BY <1>1
<1>7. \A i \in last + 2 .. index :
          buffer[i] = "char" => \E j \in last + 2 .. i : buffer[j] = "nul"
    <2> SUFFICES ASSUME NEW i \in last + 2 .. index, buffer[i] = "char"
                 PROVE  \E j \in last + 2 .. i : buffer[j] = "nul"
        OBVIOUS
    <2>1. i - 1 \notin last + 1 .. n - 1
        <3>1. (i - 1) + 1 = i
            BY <1>1
        <3> QED
            BY <1>1, <3>1 DEF Blank
    <2>2. i > n /\ n < index
        BY <1>1, <2>1
    <2>3. buffer[n + 1] = "nul" /\ n + 1 \in last + 2 .. i
        BY <1>1, <2>2 DEF Leading
    <2> QED
        BY <2>3
<1>8. pc' = "idle" /\ answer' # <<>>
    BY <1>1, <1>2 DEF TrimText
<1>9. (last + 1) + 1 = last + 2
    BY <1>1
<1>10. Trims(answer', buffer)
    <2>1. \E from \in 1 .. index : \E to \in from .. index :
              /\ answer' = SubSeq(buffer, from, to)
              /\ \A i \in 1 .. to : buffer[i] # "nul" /\ (i < from => buffer[i] = "blank")
              /\ \A i \in to + 1 .. index :
                     buffer[i] = "char" => \E j \in to + 1 .. i : buffer[j] = "nul"
        <3> WITNESS first + 1 \in 1 .. index
        <3> WITNESS last + 1 \in first + 1 .. index
        <3> QED
            BY <1>1, <1>5, <1>7, <1>9
    <2> QED
        BY <1>4, <2>1 DEF Trims
<1> QED
    BY <1>8, <1>10 DEF TrimmedUnlessBlank

\* A string without another character is the only one that can be fatal.
LEMMA TrimBlanksStep ==
    ASSUME TypeOK, NEW n \in 0 .. index, NEW first \in 0 .. n,
           Leading(first, n), TrimBlanks(first, n), UNCHANGED <<caller, index, buffer>>
    PROVE  TrimmedUnlessBlank'
<1> USE DEF TypeOK
<1>1. NoText(buffer)
    <2> SUFFICES ASSUME NEW i \in 1 .. index, buffer[i] = "char"
                 PROVE  \E j \in 1 .. i : buffer[j] = "nul"
        BY DEF NoText
    <2>1. i - 1 \notin 0 .. n - 1
        <3>1. (i - 1) + 1 = i
            OBVIOUS
        <3> QED
            BY <3>1 DEF Leading, TrimBlanks, Blank
    <2>2. n < index /\ n + 1 \in 1 .. i
        BY <2>1
    <2> QED
        BY <2>2 DEF Leading
<1> QED
    BY <1>1 DEF TrimmedUnlessBlank, TrimBlanks

LEMMA TrimStep == TypeOK /\ TrimmedUnlessBlank /\ [Next]_vars => TrimmedUnlessBlank'
<1> SUFFICES ASSUME TypeOK, TrimmedUnlessBlank, [Next]_vars PROVE TrimmedUnlessBlank'
    OBVIOUS
<1>1. CASE CmdReturns
    <2>1. PICK n \in 0 .. index : \E first \in 0 .. n :
              Leading(first, n) /\ (TrimText(first, n) \/ TrimBlanks(first, n))
        BY <1>1 DEF CmdReturns
    <2>2. PICK first \in 0 .. n :
              Leading(first, n) /\ (TrimText(first, n) \/ TrimBlanks(first, n))
        BY <2>1
    <2>3. UNCHANGED <<caller, index, buffer>>
        BY <1>1 DEF CmdReturns
    <2> QED
        BY <2>2, <2>3, TrimTextStep, TrimBlanksStep
<1>2. CASE \/ \E who \in Callers : Call(who)
           \/ Fork \/ Read \/ EndOfFile \/ Wait \/ Reboot
    BY <1>2, EmptyBytes DEF Call, Fork, Read, EndOfFile, Wait, Reboot, TrimmedUnlessBlank
<1>3. CASE Return
    BY <1>3 DEF Return, TrimmedUnlessBlank
<1>4. CASE Program \/ Helper \/ UNCHANGED vars
    <2>1. UNCHANGED <<pc, caller, index, buffer, answer>>
        BY <1>4 DEF Program, Exec, Write, Exit, Helper, StartBackground, CloseAll,
                    Detach, HelperEnds, init, vars
    <2> QED
        BY <2>1 DEF TrimmedUnlessBlank
<1> QED
    BY <1>1, <1>2, <1>3, <1>4 DEF Next, SystemCall

\* For every buffer and every output: what cmd() returns has no blanks around it
\* and lacks nothing else, and only output of blanks alone is fatal
\* (src/util.c:97-110, src/script.c:604-608).
THEOREM TrimmedAlways == Spec => []TrimmedUnlessBlank
<1>1. Init => TrimmedUnlessBlank
    BY DEF Init, TrimmedUnlessBlank, NoText
<1> QED
    BY <1>1, TypeInit, TypeStep, TrimStep, PTL DEF Spec
=============================================================================
