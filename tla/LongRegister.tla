---------------------------- MODULE LongRegister ----------------------------
(***************************************************************************)
(* What a journal needs of the file that holds an epoch: a register whose  *)
(* reads return what the last write stored, across any number of restarts. *)
(* A write loses the old value before it stores the new one, and may be    *)
(* interrupted there by the end of the process, or fail to store it        *)
(* unnoticed: then the process still holds the value, and the next process *)
(* reads nothing, but never an older value.                                *)
(***************************************************************************)
EXTENDS Integers

CONSTANTS MaxValue, Lost, Pending

Value == 0..MaxValue

VARIABLES
  reg,     \* the value stored, or Lost
  held,    \* the value the process holds, or Pending
  answer   \* what the last operation returned: a value, Lost for an error,
           \* or Pending while a write is under way or after a restart

vars == <<reg, held, answer>>

Init == reg = 0 /\ held = Pending /\ answer = Pending

Read ==
  /\ answer' = IF held = Pending THEN reg ELSE held
  /\ held' = IF answer' = Lost THEN Pending ELSE answer'
  /\ UNCHANGED reg

BeginWrite == reg' = Lost /\ answer' = Pending /\ UNCHANGED held

\* A process that holds another value has begun the write before.
EndWrite(v) ==
  /\ reg = Lost
  /\ reg' \in {v, Lost} /\ held' = v /\ answer' = v

Restart == held' = Pending /\ answer' = Pending /\ UNCHANGED reg

Next ==
  \/ Read
  \/ BeginWrite
  \/ \E v \in Value : EndWrite(v)
  \/ Restart

Spec == Init /\ [][Next]_vars
=============================================================================
