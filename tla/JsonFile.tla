------------------------------- MODULE JsonFile -------------------------------
(***************************************************************************)
(* A file that a service rewrites as a whole with fs.writeFile, as the       *)
(* reputation events, the replication states and the peer cache are.         *)
(*                                                                         *)
(* A write is first waiting, then open: the file is empty from the moment it *)
(* is opened until the text lands.  Nothing orders two writes of one file.   *)
(***************************************************************************)
EXTENDS Sequences, SequencesExt, Lists

CONSTANTS
  Absent,  \* there is no such file
  Empty,   \* opened and not yet written: JSON.parse fails
  Garbled  \* a text and the end of a longer one: JSON.parse fails

ASSUME FileAssumption == Absent # Empty /\ Absent # Garbled /\ Empty # Garbled

Unreadable == {Empty, Garbled}

\* A call of writeFile with the text it was given.
Waiting(text) == [text |-> text, open |-> FALSE]
Opened(w) == [w EXCEPT !.open = TRUE]

\* What a file may hold once text has landed in it: a longer text that another
\* handle wrote meanwhile keeps its end.
Landings(file, text) ==
  {text} \cup (IF file \in {Absent, Empty, text} THEN {} ELSE {Garbled})

===============================================================================
