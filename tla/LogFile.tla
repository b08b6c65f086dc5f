------------------------------ MODULE LogFile ------------------------------
(***************************************************************************)
(* The log files (logutil/writer.go): a writer appends lines to the file   *)
(* of its name, and before a line renames a file that has grown too large  *)
(* to .old and opens a new one.  A writer's mutex makes its own steps      *)
(* follow one another.  Several writers may have one file: momail -p logs  *)
(* to the log of the daemon, and each session that ends opens the session  *)
(* log for one line (logSummary).                                          *)
(***************************************************************************)
EXTENDS Naturals, FiniteSets, SequencesExt

CONSTANTS
  Writer,      \* writers that have the same file
  Once,        \* those that open it for one line: logSummary
  MaxSize,     \* maxSize, in lines; 0 is no limit
  Faults,      \* what may fail: "rename", "open"
  MaxLines,    \* bound: lines, all in all
  None

WriterAssumption == Once \subseteq Writer /\ IsFiniteSet(Writer) /\ None \notin Nat
BoundAssumption == MaxSize \in Nat /\ MaxLines \in Nat
FaultAssumption == Faults \subseteq {"rename", "open"}

\* Files, by what they are and not by their names: two have one, each writer may hold one.
File == 1 .. Cardinality(Writer) + 2

VARIABLES
  current,  \* the file of the name filename, or None
  old,      \* the file of the name filename.old, or None
  content,  \* content[f]: the lines of the file, by their numbers
  fd,       \* fd[w]: the file that w.file has open, or None
  at,       \* at[w]: where the writer is
  lines,    \* lines that Write is done with, in the order in which they have come
  main,     \* lines of logSummary that went to the main log
  works     \* whether the file can be opened

vars == <<current, old, content, fd, at, lines, main, works>>

\* Inside of Write.
InWrite == {"write", "rename", "open"}

TypeOK ==
  /\ current \in File \cup {None} /\ old \in File \cup {None}
  /\ content \in [File -> Seq(1 .. MaxLines)]
  /\ fd \in [Writer -> File \cup {None}]
  /\ at \in [Writer -> {"closed", "ready"} \cup InWrite]
  /\ \A w \in Writer : at[w] \in {"closed", "rename", "open"} => fd[w] = None
  /\ lines \in 0 .. MaxLines /\ main \in 0 .. MaxLines /\ works \in BOOLEAN

Init ==
  /\ current = None /\ old = None
  /\ content = [f \in File |-> <<>>]
  /\ fd = [w \in Writer |-> None]
  /\ at = [w \in Writer |-> "closed"]
  /\ lines = 0 /\ main = 0 /\ works = TRUE

-----------------------------------------------------------------------------
Go(w, from, to) == at[w] = from /\ at' = [at EXCEPT ![w] = to]

\* A file that nothing refers to.
Unused == CHOOSE f \in File : f \notin {current, old} /\ \A w \in Writer : fd[w] # f

\* Mutant of OpenFile: O_TRUNC in place of O_APPEND.
OpenFileTrunc(w) ==
  LET f == IF current = None THEN Unused ELSE current IN
  /\ works
  /\ current' = f
  /\ content' = [content EXCEPT ![f] = <<>>]
  /\ fd' = [fd EXCEPT ![w] = f]

\* os.OpenFile with O_APPEND and O_CREATE.
OpenFile(w) ==
  LET f == IF current = None THEN Unused ELSE current IN
  /\ works
  /\ current' = f
  /\ content' = IF current = None THEN [content EXCEPT ![f] = <<>>] ELSE content
  /\ fd' = [fd EXCEPT ![w] = f]

\* NewRotatableWriter.
New(w) ==
  /\ OpenFile(w) /\ Go(w, "closed", "ready")
  /\ UNCHANGED <<old, lines, main, works>>

\* logSummary falls back to the main log; momail does not start without its log.
NewFails(w) ==
  /\ ~works /\ w \in Once /\ at[w] = "closed"
  /\ main < MaxLines /\ main' = main + 1
  /\ UNCHANGED <<current, old, content, fd, at, lines, works>>

\* The size of the file that is open; a writer whose file is closed cannot tell.
TooLarge(w) == MaxSize > 0 /\ fd[w] # None /\ Len(content[fd[w]]) > MaxSize

\* Write is called: rotate begins with closing the file.
Write(w) ==
  /\ lines + Cardinality({v \in Writer : at[v] \in InWrite}) < MaxLines
  /\ Go(w, "ready", IF TooLarge(w) THEN "rename" ELSE "write")
  /\ fd' = IF TooLarge(w) THEN [fd EXCEPT ![w] = None] ELSE fd
  /\ UNCHANGED <<current, old, content, lines, main, works>>

\* The old .old goes.  The error of os.Rename is not looked at.
Rename(w) ==
  /\ Go(w, "rename", "open")
  /\ \/ current # None /\ old' = current /\ current' = None
     \/ current = None /\ UNCHANGED <<current, old>>
     \/ "rename" \in Faults /\ UNCHANGED <<current, old>>
  /\ UNCHANGED <<content, fd, lines, main, works>>

Reopen(w) ==
  /\ OpenFile(w) /\ Go(w, "open", "write")
  /\ UNCHANGED <<old, lines, main, works>>

\* "Log rotation failed", and w.file is the closed one.
ReopenFails(w) ==
  /\ ~works /\ Go(w, "open", "write")
  /\ UNCHANGED <<current, old, content, fd, lines, main, works>>

\* The line is written, or lost with a closed file; logSummary closes its writer.
Put(w) ==
  /\ Go(w, "write", IF w \in Once THEN "closed" ELSE "ready")
  /\ content' = IF fd[w] = None THEN content ELSE [content EXCEPT ![fd[w]] = Append(@, lines + 1)]
  /\ fd' = IF w \in Once THEN [fd EXCEPT ![w] = None] ELSE fd
  /\ lines' = lines + 1
  /\ UNCHANGED <<current, old, main, works>>

\* momail is killed, between any two steps, and is started again.
Crash(w) ==
  /\ at[w] # "closed"
  /\ at' = [at EXCEPT ![w] = "closed"]
  /\ fd' = [fd EXCEPT ![w] = None]
  /\ UNCHANGED <<current, old, content, lines, main, works>>

Disk ==
  /\ "open" \in Faults /\ works' = ~works
  /\ UNCHANGED <<current, old, content, fd, at, lines, main>>

-----------------------------------------------------------------------------
Step(w) == New(w) \/ NewFails(w) \/ Write(w) \/ Rename(w) \/ Reopen(w) \/ ReopenFails(w) \/ Put(w) \/ Crash(w)

Next == Disk \/ \E w \in Writer : Step(w)

Spec == Init /\ [][Next]_vars

-----------------------------------------------------------------------------
(* Properties.                                                              *)

LinesOf(f) == IF f = None THEN <<>> ELSE content[f]

\* What the two files hold is the last lines of the log, none missing, and at least a file's
\* worth of them, whatever renames fail and wherever momail is killed: for a file with one writer.
Kept ==
  LET kept == LinesOf(old) \o LinesOf(current)
      n == Len(kept)
  IN /\ \A i \in 1 .. n : kept[i] = lines - n + i
     /\ n = lines \/ (MaxSize > 0 /\ n > MaxSize)

\* However many write to a file, it grows over its limit by a line of each, for each looks at the
\* size of the file it has open and not of the one that has the name (renames do not fail here).
SizeBound ==
  MaxSize > 0 => \A f \in {current, old} : Len(LinesOf(f)) <= MaxSize + Cardinality(Writer)

\* A file is rotated when it has reached its size ("When this size is reached, the log file is
\* automatically rotated (renamed to .old)", config.yaml.dist:65).
RotatedWhenFull == [][old' # old => Len(LinesOf(old')) > MaxSize]_vars

\* A line is lost when its own rotation failed, and not later ("If rotation fails, complain to
\* stderr but try to keep writing", writer.go:46).
KeepsWriting == [][\A w \in Writer : Put(w) /\ fd[w] = None => ~works]_vars
=============================================================================
