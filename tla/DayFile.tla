------------------------------- MODULE DayFile -------------------------------
(***************************************************************************)
(* A day file as its one writer meets it: EventStore's sequence of lines   *)
(* reduced to the events that can be read back, whether the last line      *)
(* lacks its newline, and that line's event if it can be read all the      *)
(* same.  The imports of the collectors write to such files.               *)
(***************************************************************************)

EmptyDay == [events |-> {}, open |-> FALSE, last |-> {}]

\* The lines of some events S are appended, that of first before the others.  It
\* continues an open line, and then neither the one nor the other can be read.
Put(c, S, first) ==
  [events |-> IF c.open THEN (c.events \cup S) \ (c.last \cup {first}) ELSE c.events \cup S,
   open |-> FALSE, last |-> {}]

\* The last line appended, that of event x, lacks its newline, or more of it.
CutAt(c, x) ==
  {[c EXCEPT !.open = TRUE, !.last = {x} \cap c.events],
   [events |-> c.events \ {x}, open |-> TRUE, last |-> {}]}

\* What an interrupted append may leave.  Of each part of the buffer that may have
\* been written, parts has the events and which of them are first and last.
Interrupted(c, parts) ==
  {c} \cup UNION {{Put(c, p.events, p.first)} \cup CutAt(Put(c, p.events, p.first), p.last) : p \in parts}

=============================================================================
