------------------------- MODULE PersistentLongFile -------------------------
(***************************************************************************)
(* src/util/PersistentLongFile.h: the file behind last-promised-epoch and  *)
(* last-writer-epoch.  The value is cached; set() truncates the file and   *)
(* writes it anew, two system calls between which the process may end.     *)
(* Module Journal takes the register as one variable that is Torn after    *)
(* such an end; this module is what justifies it.                          *)
(***************************************************************************)
EXTENDS Integers

CONSTANTS
  MaxValue,    \* bound on what set() is called with
  Absent,      \* the file does not exist
  Empty,       \* it was truncated and holds no line
  None,        \* no answer yet
  Faults       \* which of "crash", "diskFull" may happen

DefaultVal == 0
Value == DefaultVal..MaxValue

ASSUME FileAssumption ==
  /\ MaxValue \in Nat
  /\ Absent \notin Value /\ Empty \notin Value /\ None \notin Value
  /\ Absent # Empty /\ Absent # None /\ Empty # None

VARIABLES
  file,      \* Absent, Empty or the value on its line
  value,     \* the cached value
  loaded,    \* whether the cache is valid
  writing,   \* the value being written between truncation and write, or None
  answer     \* what the last get() or set() returned: a value, Empty for -1,
             \* or None

vars == <<file, value, loaded, writing, answer>>

TypeOK ==
  /\ file \in Value \cup {Absent, Empty}
  /\ value \in Value
  /\ loaded \in BOOLEAN
  /\ writing \in Value \cup {None}
  /\ answer \in Value \cup {Empty, None}

\* A new object, on whatever file there is.
Construct ==
  /\ value' = DefaultVal
  /\ loaded' = FALSE
  /\ writing' = None
  /\ answer' = None

Init ==
  /\ file = Absent /\ value = DefaultVal /\ loaded = FALSE
  /\ writing = None /\ answer = None

\* Mutant: a missing file is read like any other.
ReadMissingFile == file

ReadFile == IF file = Absent THEN DefaultVal ELSE file

Get ==
  /\ writing = None
  /\ \/ /\ loaded
        /\ answer' = value
        /\ UNCHANGED <<value, loaded>>
     \/ /\ ~loaded /\ ReadFile # Empty
        /\ value' = ReadFile /\ loaded' = TRUE
        /\ answer' = ReadFile
     \/ /\ ~loaded /\ ReadFile = Empty
        /\ answer' = Empty
        /\ UNCHANGED <<value, loaded>>
  /\ UNCHANGED <<file, writing>>

\* Mutant: the value alone decides, loaded or not.
SetSameUnloaded(v) ==
  /\ writing = None /\ value = v
  /\ answer' = v /\ loaded' = TRUE
  /\ UNCHANGED <<file, value, writing>>

\* The value is cached already: nothing is written.
SetSame(v) ==
  /\ writing = None /\ loaded /\ value = v
  /\ answer' = v
  /\ UNCHANGED <<file, value, loaded, writing>>

Truncate(v) ==
  /\ writing = None /\ ~(loaded /\ value = v)
  /\ file' = Empty /\ writing' = v /\ answer' = None
  /\ UNCHANGED <<value, loaded>>

\* Nothing checks the stream after the write: on a full disk the file stays
\* empty and set() still succeeds.
WriteLine ==
  /\ writing # None
  /\ \E content \in {writing} \cup (IF "diskFull" \in Faults THEN {Empty} ELSE {}) :
       file' = content
  /\ value' = writing /\ loaded' = TRUE /\ writing' = None
  /\ answer' = writing

\* The process ends and another one opens the file; or the object is replaced.
Restart ==
  /\ "crash" \in Faults \/ writing = None
  /\ Construct /\ UNCHANGED file

Use ==
  \/ Get
  \/ \E v \in Value : SetSame(v)
  \/ \E v \in Value : Truncate(v)
  \/ WriteLine

Next == Use \/ Restart

Spec == Init /\ [][Next]_vars

-----------------------------------------------------------------------------
\* The register a journal sees: gone while the file is empty, held while the
\* cache is valid.
Register == INSTANCE LongRegister WITH
  reg <- ReadFile, held <- IF loaded THEN value ELSE None,
  Lost <- Empty, Pending <- None

\* get() and set() implement the register, also on a disk that runs full:
\* whatever the cache and the file went through, a process reads what it set
\* last, and the next process reads that or fails, but never an older value.
ImplementsRegister == Register!Spec
=============================================================================
