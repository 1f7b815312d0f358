----------------------------- MODULE MCSessions -----------------------------
(***************************************************************************)
(* Small instances of SessionCatalog.  Lines are 2 or 3 bytes long, the    *)
(* head 4 bytes, the tail 1, 4 and at last 6 bytes.                        *)
(***************************************************************************)
EXTENDS SessionCatalog

Line(type, time, text, bytes) ==
  [type |-> type, time |-> time, text |-> text, size |-> bytes, cwd |-> "/w", branch |-> "",
   side |-> FALSE, meta |-> FALSE, source |-> "", message |-> TRUE, tool |-> FALSE, title |-> ""]

typed == [Line("user", 1, "fix it", 2) EXCEPT !.source = "typed"]
typedLater == [Line("user", 2, "go on", 3) EXCEPT !.source = "typed"]
old == Line("user", 1, "add it", 2)
command == [Line("user", 1, "<command-name>", 2) EXCEPT !.source = "queued"]
result1 == [Line("user", 1, "", 3) EXCEPT !.tool = TRUE, !.branch = "main"]
agentLine == Line("assistant", 2, "done", 2)
sideLine == [Line("user", 2, "look", 3) EXCEPT !.side = TRUE]
titleLine == [Line("ai-title", 0, "", 2) EXCEPT !.title = "a title", !.cwd = "", !.message = FALSE]
badLine == Line("bad", 0, "", 2)
unstamped == [Line("user", 0, "what", 2) EXCEPT !.source = "typed", !.cwd = ""]

Kinds == {typed, typedLater, command, result1, sideLine, titleLine, badLine, unstamped}
LinesUpTo(n) == UNION {[1 .. k -> Kinds] : k \in 1 .. n}

idA == <<"a", "1">>
idB == <<"a", "2">>

Whole(ls) == EndOf(ls, Len(ls))

All == [since |-> 0, noContent |-> FALSE]
Since(t) == [since |-> t, noContent |-> FALSE]
NoContent == [since |-> 0, noContent |-> TRUE]

\* One transcript nobody changes: any lines, the last of them complete, without its
\* newline, or cut.
Alone(ls, missing) ==
  [lines |-> <<ls>>, ids |-> <<idA>>, size |-> <<Whole(ls) - missing>>, now |-> 2, pids |-> {},
   grows |-> FALSE, orders |-> {<<Claude>>}, options |-> {All, NoContent}]

RichSetups == {Alone(ls, k) : ls \in LinesUpTo(3), k \in 0 .. 2}

\* Two processes that run the same session, or something else.
Live == [lines |-> <<<<old>>>>, ids |-> <<idA>>, size |-> <<2>>, now |-> 1, pids |-> {1, 2}, grows |-> FALSE,
         orders |-> {<<Claude>>}, options |-> {All}]

\* Two transcripts that grow and go, and another harness.
Growing(o, q) ==
  [lines |-> <<<<old, typedLater>>, <<agentLine>>>>, ids |-> <<idA, idB>>, size |-> <<2, 0>>, now |-> 1,
   pids |-> {}, grows |-> TRUE, orders |-> {o}, options |-> {q}]

MCSetups ==
  {Growing(<<Claude, Other>>, Since(2)), Growing(<<Other, Claude>>, All), Live} \cup RichSetups

MCIds == {idA, idB}
Told(id, activity) == [harness |-> Other, id |-> id, file |-> 0, activity |-> activity, pid |-> NoPid]
MCOtherLists == {<<>>, <<Told(idA, 1)>>}

=============================================================================
