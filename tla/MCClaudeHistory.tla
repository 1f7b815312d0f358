--------------------------- MODULE MCClaudeHistory ---------------------------
(***************************************************************************)
(* Small instances of ClaudeHistory: days of four ticks; a session that    *)
(* runs over midnight between a tool's use and its result, and a second    *)
(* file that begins with copies of its records, as resumed sessions do.    *)
(***************************************************************************)
EXTENDS ClaudeHistory

Rec(type, uuid, time, session, side, content) ==
  [type |-> type, uuid |-> uuid, time |-> time, session |-> session, side |-> side,
   content |-> content, usage |-> IF type = "assistant" THEN 5 ELSE 0]

Block(kind, id, name, error) == [kind |-> kind, id |-> id, name |-> name, error |-> error]

Prose == Block("text", Missing, NoName, FALSE)

u1 == Rec("user", "u1", 2, "A", FALSE, Text)
u2 == Rec("user", "u2", 5, "A", FALSE, Text)
a1 == Rec("assistant", "a1", 3, "A", FALSE, <<Prose, Block("tool_use", "t1", "Bash", FALSE),
                                             Block("tool_use", Missing, "Read", FALSE)>>)
a3 == Rec("assistant", "a3", 3, "A", FALSE, Text)
r1 == Rec("user", "r1", 5, "A", FALSE, <<Block("tool_result", "t1", NoName, TRUE),
                                        Block("tool_result", Missing, NoName, FALSE), Prose>>)
z1 == Rec("user", "z1", 0, "A", FALSE, Text)

Copy(rec) == [rec EXCEPT !.session = "B"]

\* A session, and one resumed from it, which begins with a copy of its record and
\* ends with a prompt that has no timestamp.
ResumedScripts == <<<<a1>>, <<Copy(a1), Copy(r1), Copy(z1)>>>>
\* One session, whose line after the one that may be damaged is the user's.
OneScript == <<<<u1, a3, u2>>>>

From(t) == [start |-> t, end |-> 0]
To(t) == [start |-> 0, end |-> t]

CutPeriods == {Always, To(5), From(5)}
LatePeriods == {From(3), Always}

=============================================================================
