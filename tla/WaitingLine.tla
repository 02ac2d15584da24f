---------------------------- MODULE WaitingLine ----------------------------
(***************************************************************************)
(* The arrays of waiters the primitives keep: shift() serves the oldest,   *)
(* and the abort listener of a waiter takes it out wherever it stands.     *)
(***************************************************************************)
EXTENDS Naturals, Sequences, SequencesExt

\* line.splice(line.indexOf(w), 1), if it is there.
LeaveLine(line, w) ==
  IF w \in ToSet(line)
  THEN RemoveAt(line, CHOOSE i \in 1 .. Len(line) : line[i] = w)
  ELSE line
=============================================================================
