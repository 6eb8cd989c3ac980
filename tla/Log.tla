--------------------------------- MODULE Log --------------------------------
(***************************************************************************)
(* framework/log/log.go: any goroutine puts lines into the bounded channel *)
(* ch; one goroutine, doLogTask, writes them to a file, which it rolls     *)
(* when it is full and when a day has passed.  Rolling copies the file to  *)
(* one named after the second it was begun in, and truncates it.  Every    *)
(* operation on files may fail; most failures are reported and passed      *)
(* over.                                                                   *)
(*                                                                         *)
(* Lines are numbered in the order in which ch accepts them.  The time of  *)
(* day passes only between lines.                                          *)
(***************************************************************************)
EXTENDS Sequences, FiniteSets, Naturals, Functions

CONSTANTS
    ChNum,    \* lines ch holds: 100000
    RollSize, \* lines a file holds: 200 MB
    DayLen,   \* seconds of a day
    MaxNow,   \* bound on the clock
    MaxLines, \* bound on the lines
    MaxFailed \* bound on the kinds of operations that fail

ASSUME LogAssumption ==
    {ChNum, RollSize, DayLen, MaxNow, MaxLines} \subseteq Nat \ {0} /\ MaxFailed \in Nat

VARIABLES
    clock,    \* seconds
    ch,       \* lines, and 0 for the empty one Fatal adds
    isClosed, \* whether Close has closed ch
    fatals,   \* goroutines in Fatal, about to add the empty line: at most one
    printed,  \* lines accepted so far
    taken,    \* the last line doLogTask has taken
    time,     \* Logger.time
    disk,     \* open: baseFile is set, since: newFileTime; file and rolled ones
    failed,   \* operations that have failed: history
    process

logVars == <<clock, ch, isClosed, fatals, printed, taken, time, disk, failed, process>>

LogInit ==
    /\ clock = 1 /\ time = 1
    /\ ch = <<>> /\ isClosed = FALSE /\ fatals = 0
    /\ printed = 0 /\ taken = 0
    /\ disk = [open |-> FALSE, since |-> 0, file |-> <<>>, rolled |-> [s \in 1..MaxNow |-> <<>>]]
    /\ failed = {}
    /\ process = "up"

-----------------------------------------------------------------------------
(* Any goroutine. *)

\* doPrintf: a full channel loses the line; a closed one panics.
doPrintf(isFatal) ==
    /\ process = "up"
    /\ printed < MaxLines /\ (isFatal => fatals = 0)
    /\ IF isClosed THEN process' = "crashed" /\ UNCHANGED <<ch, printed, fatals>>
       ELSE /\ fatals' = fatals + (IF isFatal THEN 1 ELSE 0)
            /\ process' = process
            /\ \/ Len(ch) < ChNum /\ ch' = Append(ch, printed + 1) /\ printed' = printed + 1
               \/ Len(ch) = ChNum /\ UNCHANGED <<ch, printed>>
    /\ UNCHANGED <<clock, isClosed, taken, time, disk, failed>>

\* The empty line is not dropped.
FatalEnds ==
    /\ process = "up" /\ fatals > 0
    /\ \/ isClosed /\ process' = "crashed" /\ UNCHANGED <<ch, fatals>>
       \/ /\ ~isClosed /\ Len(ch) < ChNum
          /\ ch' = Append(ch, 0)
          /\ fatals' = fatals - 1
          /\ process' = process
    /\ UNCHANGED <<clock, isClosed, printed, taken, time, disk, failed>>

\* main, when it ends.
Close ==
    /\ process = "up" /\ ~isClosed
    /\ isClosed' = TRUE
    /\ UNCHANGED <<clock, ch, fatals, printed, taken, time, disk, failed, process>>

-----------------------------------------------------------------------------
(* doLogTask.  What may become of the files is a set of outcomes. *)

Outcome(d, ops) == [disk |-> d, failed |-> ops]
Then(outcomes, Op(_)) ==
    UNION {{Outcome(p.disk, o.failed \cup p.failed) : p \in Op(o.disk)} : o \in outcomes}

\* Writing from the start of a file that is there already.
Over(old, new) == new \o SubSeq(old, Len(new) + 1, Len(old))

\* io.Copy reads from where the file is, which after a write is its end, and may
\* stop early.  A file of the roll's name is written over from its start.
Copied(d, from, upto) ==
    [d EXCEPT !.open = FALSE, !.rolled[d.since] = Over(@, SubSeq(d.file, from, upto))]

\* Wrong variant: the file is not sought.
RollFileUnsought(d) ==
    {Outcome([Copied(d, Len(d.file) + 1, Len(d.file)) EXCEPT !.file = <<>>], {})}

RollFile(d) ==
    LET Copies(ops) == {s \in (1..Len(d.file) + 1) \X (0..Len(d.file)) :
                            s[1] <= s[2] + 1 /\ ("seek" \notin ops => s[1] = 1)}
        Rolled(ops, s) ==
            Outcome([Copied(d, s[1], s[2]) EXCEPT !.file = IF "truncate" \in ops THEN @ ELSE <<>>],
                    ops \cup (IF s[2] < Len(d.file) THEN {"copy"} ELSE {})
                        \cup (IF d.rolled[d.since] = <<>> THEN {} ELSE {"name"}))
    IN  {Outcome(d, {"open roll"})} \cup
        UNION {{Rolled(ops, s) : s \in Copies(ops)} : ops \in SUBSET {"seek", "truncate"}}

\* If it fails, baseFile stays as it was.
OpenNewFile(d) ==
    {Outcome([d EXCEPT !.open = TRUE, !.since = clock], {}), Outcome(d, {"open"})}

CheckFile(d) ==
    LET Begin(e)   == Then(IF e.open THEN RollFile(e) ELSE {Outcome(e, {})}, OpenNewFile)
        checked    == IF d.open /\ clock \div DayLen = time \div DayLen THEN {Outcome(d, {})}
                      ELSE Begin(d)
        RollFull(e) == IF e.open /\ Len(e.file) >= RollSize
                       THEN Then(RollFile(e), OpenNewFile) ELSE {Outcome(e, {})}
    IN  Then(checked, RollFull)

\* A line that cannot be written is lost, and the file opened again; without a
\* file it goes to the standard output.
WriteString(d, line) ==
    IF ~d.open THEN {Outcome(d, {})}
    ELSE {Outcome([d EXCEPT !.file = Append(@, line)], {})} \cup
         {Outcome(o.disk, o.failed \cup {"write"}) : o \in OpenNewFile([d EXCEPT !.open = FALSE])}

\* One line.  The empty one ends the process.
doLogTask ==
    /\ process = "up"
    /\ ch # <<>>
    /\ ch' = Tail(ch)
    /\ time' = clock
    /\ LET line == Head(ch)
           Write(d) == IF line = 0 THEN {Outcome(d, {})} ELSE WriteString(d, line)
       IN  /\ \E o \in Then(CheckFile(disk), Write) :
                 /\ Cardinality(failed \cup o.failed) <= MaxFailed
                 /\ disk' = o.disk /\ failed' = failed \cup o.failed
           /\ taken' = IF line = 0 THEN taken ELSE line
           /\ process' = IF line = 0 THEN "exited" ELSE process
    /\ UNCHANGED <<clock, isClosed, fatals, printed>>

\* All lines are written, Close returns, and main with it.
LogEnds ==
    /\ process = "up" /\ isClosed /\ ch = <<>>
    /\ process' = "exited"
    /\ UNCHANGED <<clock, ch, isClosed, fatals, printed, taken, time, disk, failed>>

TimePasses ==
    /\ process = "up" /\ clock < MaxNow
    /\ clock' = clock + 1
    /\ UNCHANGED <<ch, isClosed, fatals, printed, taken, time, disk, failed, process>>

-----------------------------------------------------------------------------
LogNext ==
    \/ \E isFatal \in BOOLEAN : doPrintf(isFatal)
    \/ FatalEnds \/ Close \/ doLogTask \/ LogEnds \/ TimePasses
LogSpec == LogInit /\ [][LogNext]_logVars

-----------------------------------------------------------------------------
\* The files in the order they were begun in: the rolled ones by their names, the
\* current one last.
Files(d) == [s \in 1..MaxNow + 1 |-> IF s = MaxNow + 1 THEN d.file ELSE d.rolled[s]]

HeldIn(d, line) == \E s \in DOMAIN Files(d) : line \in Range(Files(d)[s])

\* From file to file and within each, lines come later that were accepted later.
InOrder(d) ==
    \A s, t \in DOMAIN Files(d) : \A i \in DOMAIN Files(d)[s], j \in DOMAIN Files(d)[t] :
       s < t \/ (s = t /\ i < j) => Files(d)[s][i] < Files(d)[t][j]

\* A line that has been taken is in a file, although a roll copies the file and
\* truncates it whatever became of the copy, unless a seek, a copy, a write or
\* the opening of the file has failed, or two files were begun in one second
\* and have one name; and unless a truncation failed as well, the lines are
\* there in order and once each (RollFile, CheckFile).
LinesAreKept ==
    /\ failed \cap {"seek", "copy", "write", "open", "name"} = {} =>
          \A line \in 1..taken : HeldIn(disk, line)
    /\ failed \subseteq {"open roll"} =>
          /\ InOrder(disk)
          /\ \A s \in DOMAIN Files(disk) : Range(Files(disk)[s]) \subseteq 1..taken
=============================================================================
