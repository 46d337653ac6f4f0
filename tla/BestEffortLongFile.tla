------------------------- MODULE BestEffortLongFile -------------------------
(***************************************************************************)
(* src/util/BestEffortLongFile.h: the file behind committed-txid.  set()   *)
(* writes nineteen digits and no newline.  lazyOpen() reads the file with  *)
(* getline, which meets the end of the file before a newline and leaves    *)
(* the stream not good, so the value is the default; and it opens the      *)
(* stream for writing, which truncates the file.                           *)
(***************************************************************************)
EXTENDS Integers

CONSTANTS
  MaxValue,   \* bound on what set() is called with
  Absent      \* the file does not exist

DefaultVal == -12345
Value == 1..MaxValue

\* The content of the file: nothing, or the digits of a value, and whether a
\* newline ends them.
Content == [digits : Value \cup {DefaultVal}, newline : BOOLEAN]
NoLine == [digits |-> DefaultVal, newline |-> FALSE]

VARIABLES
  file,      \* Absent or its content
  value,     \* the cached value
  opened,    \* lazyOpen() has run in this process
  lastSet    \* history: the last value set in this process, or the default

vars == <<file, value, opened, lastSet>>

TypeOK ==
  /\ file \in Content \cup {Absent}
  /\ value \in IF opened THEN Value \cup {DefaultVal} ELSE {-1}
  /\ opened \in BOOLEAN
  /\ lastSet \in Value \cup {DefaultVal}

Init ==
  /\ file = Absent /\ value = -1 /\ opened = FALSE
  /\ lastSet = DefaultVal

\* The line getline() finds, if it finds one.
LineRead ==
  IF file # Absent /\ file.newline THEN file.digits ELSE DefaultVal

\* What the value and the file are once lazyOpen() has run.
Opened == IF opened THEN [value |-> value, file |-> file]
                    ELSE [value |-> LineRead, file |-> NoLine]

Get ==
  /\ value' = Opened.value /\ file' = Opened.file /\ opened' = TRUE
  /\ UNCHANGED lastSet

\* Mutant: the cached value is not updated.
SetFileOnly(v) ==
  /\ opened' = TRUE
  /\ value' = Opened.value
  /\ file' = [digits |-> v, newline |-> FALSE]
  /\ lastSet' = v

Set(v) ==
  /\ opened' = TRUE
  /\ file' = [digits |-> v, newline |-> FALSE]
  /\ value' = v
  /\ lastSet' = v

\* The object is destroyed, in good order or not, and another one made.
Restart ==
  /\ value' = -1 /\ opened' = FALSE /\ lastSet' = DefaultVal
  /\ UNCHANGED file

Use == Get \/ \E v \in Value : Set(v)

Next == Use \/ Restart

Spec == Init /\ [][Next]_vars

-----------------------------------------------------------------------------
\* Within one process the value read is the last one set, and the file holds
\* it for whoever looks at it.
ReadsLastSet ==
  opened => /\ value = lastSet
            /\ lastSet # DefaultVal => file.digits = lastSet
=============================================================================
