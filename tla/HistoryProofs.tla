---------------------------- MODULE HistoryProofs ----------------------------
(***************************************************************************)
(* Proofs about ClaudeHistory, for any transcripts, periods and bounds.    *)
(***************************************************************************)
EXTENDS ClaudeHistory, OrderFacts, SequenceTheorems

-----------------------------------------------------------------------------
(* The events of a file.                                                   *)

Line == Records \cup {Bad}
Stamps == {r.time : r \in Records}
Asked == Periods \cup {Always}

\* The events a line of the user yields.
UserLine(ls, n, p) == ToolResults(ls, n, p) \cup Prompts(ls, n)

LEMMA LineIsRecord ==
  ASSUME NEW ls \in Seq(Line), NEW n \in DOMAIN ls, ls[n] # Bad
  PROVE  ls[n] \in Records /\ ls[n].time \in Stamps /\ ls[n].time \in Nat /\ n \in Nat
  BY ScriptsAssumption DEF Line, Stamps

\* Where the blocks of a record are.
LEMMA BlocksAreNumbered ==
  ASSUME NEW r \in Records, NEW kind
  PROVE  /\ Blocks(r, kind) \subseteq Nat
         /\ Blocks(r, kind) # {} => Len(r.content) \in Nat
<1>1. CASE IsBlocks(r.content)
  <2>1. r.content \in Seq({r.content[k] : k \in DOMAIN r.content})
    BY <1>1, ContentAssumption
  <2> QED
    BY <2>1 DEF Blocks
<1>2. CASE ~IsBlocks(r.content)
  BY <1>2 DEF Blocks
<1> QED
  BY <1>1, <1>2

\* An event of a line of the user has the line's time and its number for a place.
LEMMA UserLineFacts ==
  ASSUME NEW ls \in Seq(Line), NEW p, NEW n \in Users(ls), NEW x \in UserLine(ls, n, p)
  PROVE  /\ x = <<x[1], x[2]>> /\ x[1] = <<n, x[1][2]>> /\ x[1][2] \in Nat
         /\ x[2].time = ls[n].time
         /\ x[2].type \in {"tool", "prompt"}
<1>1. ls[n] \in Records
  BY LineIsRecord DEF Users
<1>2. CASE x \in ToolResults(ls, n, p)
  <2>1. PICK k \in Blocks(ls[n], "tool_result") :
          x = <<<<n, k>>, x[2]>> /\ x[2].time = ls[n].time /\ x[2].type = "tool"
    BY <1>2 DEF ToolResults, NewEvent
  <2> QED
    BY <1>1, <2>1, BlocksAreNumbered
<1>3. CASE x \in Prompts(ls, n)
  <2>1. IsPrompt(ls[n])
    BY <1>3 DEF Prompts
  <2>2. 1 + (IF ls[n].content = Text THEN 0 ELSE Len(ls[n].content)) \in Nat
    BY <1>1, <2>1, BlocksAreNumbered DEF IsPrompt
  <2> QED
    BY <1>3, <2>1, <2>2 DEF Prompts, NewEvent
<1> QED
  BY <1>2, <1>3 DEF UserLine

\* The events of the user for a period are those of all time in it: which names a
\* tool has does not depend on the period.
LEMMA UserEventsCut ==
  ASSUME NEW ls \in Seq(Line), NEW p \in Asked, NEW x
  PROVE  x \in UserEvents(ls, p) <=> x \in UserEvents(ls, Always) /\ Contains(p, x[2].time)
<1>1. \A n : UserLine(ls, n, p) = UserLine(ls, n, Always)
  BY DEF UserLine, ToolResults, ToolName, Registered
<1>2. \A t : Contains(Always, t)
  BY DEF Contains, Always
<1>3. \A q : x \in UserEvents(ls, q) <=>
        \E n \in Users(ls) : Contains(q, ls[n].time) /\ x \in UserLine(ls, n, q)
  BY DEF UserEvents, UserLine
<1>4. \A n \in Users(ls) : x \in UserLine(ls, n, Always) => x[2].time = ls[n].time
  BY UserLineFacts
<1> QED
  BY <1>1, <1>2, <1>3, <1>4

LEMMA AssistantEventsCut ==
  ASSUME NEW ls \in Seq(Line), NEW p \in Asked, NEW x
  PROVE  /\ x \in AssistantEvents(ls, p) <=>
              x \in AssistantEvents(ls, Always) /\ Contains(p, x[2].time)
         /\ x \in AssistantEvents(ls, p) =>
              \E n \in Assistants(ls) : /\ x = <<<<n, 1>>, x[2]>> /\ x[2].type = "message"
                                        /\ x[2].time = ls[n].time
<1>1. \A t : Contains(Always, t)
  BY DEF Contains, Always
<1> DEFINE event(n) == NewEvent("message", ls[n].uuid, ls[n], [usage |-> ls[n].usage, side |-> ls[n].side])
<1>2. \A n : event(n).time = ls[n].time /\ event(n).type = "message"
  BY DEF NewEvent
<1> HIDE DEF event
<1>3. \A q : x \in AssistantEvents(ls, q) <=>
        \E n \in Assistants(ls) : Contains(q, ls[n].time) /\ x = <<<<n, 1>>, event(n)>>
  BY DEF AssistantEvents, event
<1> QED
  BY <1>1, <1>2, <1>3

\* A session on disk has finitely many times, which are those of records.
LEMMA TimesFacts ==
  ASSUME NEW ls \in Seq(Line), NEW s, NEW p
  PROVE  /\ IsFiniteSet(Times(ls, s, p)) /\ Times(ls, s, p) \subseteq Nat
         /\ Times(ls, s, p) \subseteq Stamps /\ ZeroTime \notin Times(ls, s, p)
         /\ \A t : t \in Times(ls, s, p) <=>
              \E n \in DOMAIN ls : ls[n] # Bad /\ ls[n].session = s /\ ls[n].time = t /\ t # ZeroTime
<1> DEFINE own == {n \in DOMAIN ls : ls[n] # Bad /\ ls[n].session = s}
           times == {ls[n].time : n \in own}
           of == [n \in own |-> ls[n].time]
<1>1. IsFiniteSet(own)
  <2>1. DOMAIN ls = 1 .. Len(ls) /\ Len(ls) \in Nat
    OBVIOUS
  <2>2. IsFiniteSet(DOMAIN ls)
    BY <2>1, FS_Interval
  <2> QED
    BY <2>2, FS_Subset
<1>2. of \in Surjection(own, times)
  BY DEF Surjection
<1>3. IsFiniteSet(times)
  BY <1>1, <1>2, FS_Surjection
<1>4. Times(ls, s, p) = times \ {ZeroTime}
  BY DEF Times, Spanned
<1>5. Times(ls, s, p) \in SUBSET times
  BY <1>4
<1>6. IsFiniteSet(Times(ls, s, p))
  BY <1>3, <1>5, FS_Subset
<1>7. times \subseteq Nat /\ times \subseteq Stamps
  BY LineIsRecord
<1> QED
  BY <1>4, <1>6, <1>7

\* The first and the last time of a session bound it.
LEMMA SessionEventsFacts ==
  ASSUME NEW ls \in Seq(Line), NEW p, NEW x \in SessionEvents(ls, p)
  PROVE  /\ x = <<<<Len(ls) + 1, x[1][2]>>, x[2]>> /\ x[1][2] \in Nat
         /\ x[2].type \in {"start", "end"}
         /\ x[2].time \in Stamps
         /\ x[2].type = "start" =>
              \E s : /\ s # Missing /\ x[2] = Bound("start", s, x[2].time)
                     /\ x[2].time \in Times(ls, s, p)
                     /\ \A u \in Times(ls, s, p) : x[2].time <= u
<1> DEFINE sessions == {s \in {ls[n].session : n \in Spanned(ls, p)} : s # Missing /\ Times(ls, s, p) # {}}
           first(s) == CHOOSE t \in Times(ls, s, p) : \A u \in Times(ls, s, p) : t <= u
           last(s) == CHOOSE t \in Times(ls, s, p) : \A u \in Times(ls, s, p) : t >= u
<1>1. ASSUME NEW s \in sessions
      PROVE  /\ first(s) \in Times(ls, s, p) /\ \A u \in Times(ls, s, p) : first(s) <= u
             /\ last(s) \in Times(ls, s, p)
             /\ s # Missing
  <2> DEFINE T == Times(ls, s, p)
  <2>1. T \in SUBSET Nat /\ T # {} /\ IsFiniteSet(T)
    BY TimesFacts
  <2> HIDE DEF T
  <2>2. (\E t \in T : \A u \in T : t <= u) /\ (\E t \in T : \A u \in T : t >= u)
    BY <2>1, Least, Greatest
  <2> QED
    BY <2>2 DEF T
<1>2. \/ \E s \in sessions : x = <<<<Len(ls) + 1, 1>>, Bound("start", s, first(s))>>
      \/ \E s \in sessions : x = <<<<Len(ls) + 1, 1>>, Bound("end", s, last(s))>>
  BY DEF SessionEvents
<1> HIDE DEF sessions, first, last
<1>3. CASE \E s \in sessions : x = <<<<Len(ls) + 1, 1>>, Bound("start", s, first(s))>>
  <2>1. PICK s \in sessions : x = <<<<Len(ls) + 1, 1>>, Bound("start", s, first(s))>>
    BY <1>3
  <2>2. x[2] = Bound("start", s, first(s)) /\ x[1] = <<Len(ls) + 1, 1>>
    BY <2>1
  <2>3. x[2].time = first(s) /\ x[2].type = "start"
    BY <2>2 DEF Bound
  <2>4. first(s) \in Stamps
    BY <1>1, TimesFacts
  <2> QED
    BY <1>1, <2>1, <2>2, <2>3, <2>4
<1>4. CASE \E s \in sessions : x = <<<<Len(ls) + 1, 1>>, Bound("end", s, last(s))>>
  <2>1. PICK s \in sessions : x = <<<<Len(ls) + 1, 1>>, Bound("end", s, last(s))>>
    BY <1>4
  <2>2. x[2] = Bound("end", s, last(s)) /\ x[1] = <<Len(ls) + 1, 1>>
    BY <2>1
  <2>3. x[2].time = last(s) /\ x[2].type = "end"
    BY <2>2 DEF Bound
  <2>4. last(s) \in Stamps
    BY <1>1, TimesFacts
  <2> QED
    BY <1>1, <2>1, <2>2, <2>3, <2>4
<1> QED
  BY <1>2, <1>3, <1>4

\* So do those of a session: every record counts for its span.
LEMMA SessionEventsCut ==
  ASSUME NEW ls \in Seq(Line), NEW p \in Asked, NEW x
  PROVE  x \in SessionEvents(ls, p) <=> x \in SessionEvents(ls, Always) /\ Contains(p, x[2].time)
<1> DEFINE sessions(q) == {s \in {ls[n].session : n \in Spanned(ls, q)} : s # Missing /\ Times(ls, s, q) # {}}
           first(s, q) == CHOOSE t \in Times(ls, s, q) : \A u \in Times(ls, s, q) : t <= u
           last(s, q) == CHOOSE t \in Times(ls, s, q) : \A u \in Times(ls, s, q) : t >= u
           start(s, q) == <<<<Len(ls) + 1, 1>>, Bound("start", s, first(s, q))>>
           end(s, q) == <<<<Len(ls) + 1, 1>>, Bound("end", s, last(s, q))>>
<1>1. \A s, q : Times(ls, s, q) = Times(ls, s, Always) /\ Spanned(ls, q) = Spanned(ls, Always)
  BY DEF Times, Spanned
<1>2. \A s, q : /\ first(s, q) = first(s, Always) /\ last(s, q) = last(s, Always)
                /\ sessions(q) = sessions(Always)
  BY <1>1
<1>3. \A s, q : start(s, q)[2].time = first(s, q) /\ end(s, q)[2].time = last(s, q)
  BY DEF Bound
<1>5. \A t : Contains(Always, t)
  BY DEF Contains, Always
<1>6. \A q : x \in SessionEvents(ls, q) <=>
        \E s \in sessions(q) : \/ x = start(s, q) /\ Contains(q, first(s, q))
                               \/ x = end(s, q) /\ Contains(q, last(s, q))
  BY DEF SessionEvents
<1> HIDE DEF sessions, first, last
<1>4. \A s, q : start(s, q) = start(s, Always) /\ end(s, q) = end(s, Always)
  BY <1>2
<1> HIDE DEF start, end
<1> QED
  BY <1>2, <1>3, <1>4, <1>5, <1>6

\* What an event of a file is.
LEMMA FileEventsFacts ==
  ASSUME NEW ls \in Seq(Line), NEW p \in Asked, NEW x \in FileEvents(ls, p)
  PROVE  /\ x = <<x[1], x[2]>> /\ x[1] = <<x[1][1], x[1][2]>>
         /\ x[1][1] \in Nat /\ x[1][2] \in Nat
         /\ x[2].time \in Stamps
<1>1. CASE x \in UserEvents(ls, p)
  <2>1. PICK n \in Users(ls) : x \in UserLine(ls, n, p)
    BY <1>1 DEF UserEvents, UserLine
  <2>2. x = <<x[1], x[2]>> /\ x[1] = <<n, x[1][2]>> /\ x[1][2] \in Nat /\ x[2].time = ls[n].time
    BY <2>1, UserLineFacts
  <2> QED
    BY <2>2, LineIsRecord DEF Users
<1>2. CASE x \in AssistantEvents(ls, p)
  <2>1. PICK n \in Assistants(ls) : x = <<<<n, 1>>, x[2]>> /\ x[2].time = ls[n].time
    BY <1>2, AssistantEventsCut
  <2>2. x[1] = <<n, 1>>
    BY <2>1
  <2> QED
    BY <2>1, <2>2, LineIsRecord DEF Assistants
<1>3. CASE x \in SessionEvents(ls, p)
  <2>1. x = <<<<Len(ls) + 1, x[1][2]>>, x[2]>> /\ x[1][2] \in Nat /\ x[2].time \in Stamps
    BY <1>3, SessionEventsFacts
  <2>2. x[1] = <<Len(ls) + 1, x[1][2]>> /\ Len(ls) + 1 \in Nat
    BY <2>1
  <2> QED
    BY <2>1, <2>2
<1> QED
  BY <1>1, <1>2, <1>3 DEF FileEvents

\* The events for a period are those of all time in it.
LEMMA FileIsCutCleanly ==
  ASSUME NEW ls \in Seq(Line), NEW p \in Asked
  PROVE  EventsIn(FileEvents(ls, p)) = {e \in EventsIn(FileEvents(ls, Always)) : Contains(p, e.time)}
<1>1. \A x : x \in FileEvents(ls, p) <=> x \in FileEvents(ls, Always) /\ Contains(p, x[2].time)
  BY UserEventsCut, AssistantEventsCut, SessionEventsCut DEF FileEvents
<1> QED
  BY <1>1 DEF EventsIn

-----------------------------------------------------------------------------
(* What a record gives, wherever its line is.                              *)

\* The ids of the events of a record.
Gives(r) ==
  (IF r.type = "user" /\ r.content # NoMessage
   THEN {<<"tool", r.content[k].id>> : k \in Blocks(r, "tool_result")}
        \cup (IF IsPrompt(r) THEN {<<"prompt", r.uuid>>} ELSE {})
   ELSE {})
  \cup (IF r.type = "assistant" /\ r.content # NoMessage THEN {<<"message", r.uuid>>} ELSE {})

\* Every event of a record is one it gives, at its time.
LEMMA EventIsGiven ==
  ASSUME NEW ls \in Seq(Line), NEW p \in Asked, NEW x \in UserEvents(ls, p) \cup AssistantEvents(ls, p)
  PROVE  \E n \in DOMAIN ls : /\ ls[n] \in Records /\ x[2].id \in Gives(ls[n])
                              /\ x[2].time = ls[n].time /\ Contains(p, ls[n].time)
<1>1. CASE x \in UserEvents(ls, p)
  <2>1. PICK n \in Users(ls) : Contains(p, ls[n].time) /\ x \in ToolResults(ls, n, p) \cup Prompts(ls, n)
    BY <1>1 DEF UserEvents
  <2>2. n \in DOMAIN ls /\ ls[n] \in Records /\ ls[n].type = "user" /\ ls[n].content # NoMessage
    BY LineIsRecord DEF Users
  <2>3. CASE x \in ToolResults(ls, n, p)
    <3>1. PICK k \in Blocks(ls[n], "tool_result") :
            x[2].id = <<"tool", ls[n].content[k].id>> /\ x[2].time = ls[n].time
      BY <2>3 DEF ToolResults, NewEvent
    <3> QED
      BY <2>1, <2>2, <3>1 DEF Gives
  <2>4. CASE x \in Prompts(ls, n)
    <3>1. IsPrompt(ls[n]) /\ x[2].id = <<"prompt", ls[n].uuid>> /\ x[2].time = ls[n].time
      BY <2>4 DEF Prompts, NewEvent
    <3> QED
      BY <2>1, <2>2, <3>1 DEF Gives
  <2> QED
    BY <2>1, <2>3, <2>4
<1>2. CASE x \in AssistantEvents(ls, p)
  <2>1. PICK n \in Assistants(ls) :
          /\ Contains(p, ls[n].time)
          /\ x = <<<<n, 1>>, NewEvent("message", ls[n].uuid, ls[n], [usage |-> ls[n].usage, side |-> ls[n].side])>>
    BY <1>2 DEF AssistantEvents
  <2>2. x[2].id = <<"message", ls[n].uuid>> /\ x[2].time = ls[n].time
    BY <2>1 DEF NewEvent
  <2>3. n \in DOMAIN ls /\ ls[n] \in Records /\ ls[n].type = "assistant" /\ ls[n].content # NoMessage
    BY LineIsRecord DEF Assistants
  <2> QED
    BY <2>1, <2>2, <2>3 DEF Gives
<1> QED
  BY <1>1, <1>2

\* All that a record gives is among the events of a file that has it in a line.
LEMMA GivenIsEvent ==
  ASSUME NEW ls \in Seq(Line), NEW p \in Asked, NEW n \in DOMAIN ls, ls[n] \in Records,
         Contains(p, ls[n].time), NEW i \in Gives(ls[n])
  PROVE  \E x \in FileEvents(ls, p) : x[2].id = i /\ x[2].time = ls[n].time
<1> DEFINE r == ls[n]
<1>1. r # Bad
  BY BadAssumption
<1>2. CASE r.type = "user" /\ r.content # NoMessage /\ i \in {<<"tool", r.content[k].id>> : k \in Blocks(r, "tool_result")}
  <2>1. PICK k \in Blocks(r, "tool_result") : i = <<"tool", r.content[k].id>>
    BY <1>2
  <2> DEFINE e == NewEvent("tool", r.content[k].id, r,
                        [ok |-> ~r.content[k].error, side |-> r.side,
                         tool |-> ToolName(ls, n, r.content[k].id, p)])
             x == <<<<n, k>>, e>>
  <2>2. x \in ToolResults(ls, n, p)
    BY DEF ToolResults
  <2>3. e.id = i /\ e.time = r.time
    BY <2>1 DEF NewEvent
  <2>4. n \in Users(ls)
    BY <1>1, <1>2 DEF Users
  <2>5. x \in UserEvents(ls, p)
    BY <2>2, <2>4 DEF UserEvents
  <2>6. x[2] = e
    OBVIOUS
  <2> HIDE DEF x, e
  <2> QED
    BY <2>3, <2>5, <2>6 DEF FileEvents
<1>3. CASE r.type = "user" /\ r.content # NoMessage /\ IsPrompt(r) /\ i = <<"prompt", r.uuid>>
  <2> DEFINE e == NewEvent("prompt", r.uuid, r, <<>>)
             x == <<<<n, 1 + IF r.content = Text THEN 0 ELSE Len(r.content)>>, e>>
  <2>1. x \in Prompts(ls, n)
    BY <1>3 DEF Prompts
  <2>2. e.id = i /\ e.time = r.time
    BY <1>3 DEF NewEvent
  <2>3. n \in Users(ls)
    BY <1>1, <1>3 DEF Users
  <2>4. x \in UserEvents(ls, p)
    BY <2>1, <2>3 DEF UserEvents
  <2>5. x[2] = e
    OBVIOUS
  <2> HIDE DEF x, e
  <2> QED
    BY <2>2, <2>4, <2>5 DEF FileEvents
<1>4. CASE r.type = "assistant" /\ r.content # NoMessage /\ i = <<"message", r.uuid>>
  <2> DEFINE e == NewEvent("message", r.uuid, r, [usage |-> r.usage, side |-> r.side])
             x == <<<<n, 1>>, e>>
  <2>1. n \in Assistants(ls)
    BY <1>1, <1>4 DEF Assistants
  <2>2. x \in AssistantEvents(ls, p)
    BY <2>1 DEF AssistantEvents
  <2>3. e.id = i /\ e.time = r.time
    BY <1>4 DEF NewEvent
  <2>4. x[2] = e
    OBVIOUS
  <2> HIDE DEF x, e
  <2> QED
    BY <2>2, <2>3, <2>4 DEF FileEvents
<1> QED
  BY <1>2, <1>3, <1>4 DEF Gives

-----------------------------------------------------------------------------
(* The order of what was collected.                                        *)

\* A place: the file, and in it the line and the position in what the line yields.
Placed(x) ==
  /\ x = <<x[1], x[2]>>
  /\ x[1][1] \in Nat /\ x[1][2][1] \in Nat /\ x[1][2][2] \in Nat

\* Of some collected events one comes first.
LEMMA OneComesFirst ==
  ASSUME NEW G, G # {}, \A x \in G : Placed(x)
  PROVE  \E y \in G : \A z \in G : ~Earlier(z[1], y[1])
<1>1. PICK a \in {x[1][1] : x \in G} : \A b \in {x[1][1] : x \in G} : a <= b
  <2>1. {x[1][1] : x \in G} \in SUBSET Nat /\ {x[1][1] : x \in G} # {}
    BY DEF Placed
  <2> QED
    BY <2>1, Least
<1> DEFINE H == {x \in G : x[1][1] = a}
<1>2. PICK b \in {x[1][2][1] : x \in H} : \A c \in {x[1][2][1] : x \in H} : b <= c
  <2>1. {x[1][2][1] : x \in H} \in SUBSET Nat /\ {x[1][2][1] : x \in H} # {}
    BY <1>1 DEF Placed
  <2> QED
    BY <2>1, Least
<1> DEFINE I == {x \in H : x[1][2][1] = b}
<1>3. PICK c \in {x[1][2][2] : x \in I} : \A d \in {x[1][2][2] : x \in I} : c <= d
  <2>1. {x[1][2][2] : x \in I} \in SUBSET Nat /\ {x[1][2][2] : x \in I} # {}
    BY <1>2 DEF Placed
  <2> QED
    BY <2>1, Least
<1>4. PICK y \in I : y[1][2][2] = c
  BY <1>3
<1>5. ASSUME NEW z \in G, Earlier(z[1], y[1])
      PROVE  FALSE
  <2>1. Placed(z) /\ Placed(y) /\ y[1][1] = a /\ y[1][2][1] = b /\ y[1][2][2] = c
    BY <1>4
  <2>2. z[1][1] \in Nat /\ z[1][2][1] \in Nat /\ z[1][2][2] \in Nat /\ a \in Nat /\ b \in Nat /\ c \in Nat
    BY <2>1 DEF Placed
  <2>3. a <= z[1][1]
    BY <1>1
  <2>4. z[1][1] = a => b <= z[1][2][1]
    BY <1>2
  <2>5. z[1][1] = a /\ z[1][2][1] = b => c <= z[1][2][2]
    BY <1>3
  <2>6. \/ z[1][1] < a
        \/ z[1][1] = a /\ z[1][2][1] < b
        \/ z[1][1] = a /\ z[1][2][1] = b /\ z[1][2][2] < c
    BY <1>5, <2>1 DEF Earlier, Before
  <2> QED
    BY <2>2, <2>3, <2>4, <2>5, <2>6
<1> QED
  BY <1>4, <1>5

-----------------------------------------------------------------------------
(* The inductive invariant.                                                *)

Halves == Records \X {1, 2}

\* The events any lines could give.
AllEvents == UNION {EventsIn(FileEvents(w[1], w[2])) : w \in Seq(Line) \X Asked}

DiskOK ==
  /\ lines \in [Files -> Seq(Seq(Halves))]
  /\ next \in [Files -> Nat] /\ \A f \in Files : next[f] <= Len(Scripts[f])
  /\ part \in [Files -> 0 .. 2] /\ cut \in [Files -> BOOLEAN]
  /\ gone \in SUBSET Files
  /\ \A f \in Files : cut[f] => lines[f] # <<>>

ImportOK ==
  /\ pc \in {"idle", "list", "file", "write"}
  /\ period \in Asked
  /\ files \in SUBSET Files /\ (pc = "file" => files # {})
  /\ at \in [line : Nat, halves : Nat] /\ read \in Seq(Line)
  /\ pc # "file" => at = Start /\ read = <<>> /\ had = {}
  /\ \A x \in got : Placed(x) /\ x[2] \in AllEvents
  /\ pc = "write" => \A x \in got : x[2].time # ZeroTime
  /\ todo \in SUBSET Days
  /\ deaths \in 0 .. MaxDeaths /\ faults \in 0 .. MaxFaults /\ split \in BOOLEAN

StoredOK ==
  /\ stored \in [Days -> DayFiles(AllEvents)]
  /\ \A d \in Days : \A e \in stored[d].events : e.time # ZeroTime /\ DayOf(e.time) = d

\* A line the import has yet to read from its beginning.
Ahead(n) ==
  /\ n \in DOMAIN lines[File] /\ Ended(File, n)
  /\ n > at.line /\ (n = at.line + 1 => at.halves = 0)

\* What a transcript had to give when it was opened is in a record that has been
\* read, or in a line that is still ahead.
HadIsComing ==
  pc = "file" =>
    \A e \in had : \E r \in Records :
      /\ e.id \in Gives(r) /\ e.time = r.time /\ Contains(period, r.time)
      /\ \/ \E k \in DOMAIN read : read[k] = r
         \/ \E n \in Nat : Ahead(n) /\ Decode(lines[File][n]) = r

\* What is owed has been collected ...
OwedIsGot == \A e \in owed : \E x \in got : x[2].id = e.id /\ x[2].time = e.time

\* An event is stored, and no append will take it away.
IsSafe(e) == \E x \in Safe(stored[DayOf(e.time)]) : x.id = e.id

\* ... and while the import writes it is stored, or its day is still to come.
WrittenOrToDo == pc = "write" => \A e \in owed : DayOf(e.time) \in todo \/ IsSafe(e)

PromisesKept == \A e \in promised : e.time \in Stamps /\ IsSafe(e)

HInv ==
  /\ DiskOK /\ ImportOK /\ StoredOK
  /\ HadIsComing /\ OwedIsGot /\ WrittenOrToDo /\ PromisesKept

\* Days are those of time stamps.
LEMMA StampsHaveDays == Stamps \subseteq Nat /\ \A t \in Stamps : DayOf(t) \in Days
  BY ScriptsAssumption DEF Stamps, Days

\* The events of a file are such events, at their places.
LEMMA FileGives ==
  ASSUME NEW ls \in Seq(Line), NEW p \in Asked, NEW y \in FileEvents(ls, p)
  PROVE  y[2] \in AllEvents /\ y[1][1] \in Nat /\ y[1][2] \in Nat
<1>1. <<ls, p>> \in Seq(Line) \X Asked /\ <<ls, p>>[1] = ls /\ <<ls, p>>[2] = p
  OBVIOUS
<1>2. y[2] \in EventsIn(FileEvents(ls, p))
  BY DEF EventsIn
<1> QED
  BY <1>1, <1>2, FileEventsFacts DEF AllEvents

\* They have the times of records.
LEMMA EventsHaveStamps ==
  ASSUME NEW e \in AllEvents
  PROVE  e.time \in Stamps
<1>1. PICK w \in Seq(Line) \X Asked : e \in EventsIn(FileEvents(w[1], w[2]))
  BY DEF AllEvents
<1>2. PICK y \in FileEvents(w[1], w[2]) : e = y[2]
  BY <1>1 DEF EventsIn
<1>3. w[1] \in Seq(Line) /\ w[2] \in Asked
  OBVIOUS
<1> QED
  BY <1>2, <1>3, FileEventsFacts

LEMMA HInvInit == Init => HInv
<1> SUFFICES ASSUME Init PROVE HInv
  OBVIOUS
<1>1. DiskOK
  BY ScriptsAssumption DEF Init, DiskOK
<1>2. ImportOK
  <2>1. 0 \in 0 .. MaxDeaths /\ 0 \in 0 .. MaxFaults /\ Start \in [line : Nat, halves : Nat]
    BY BoundsAssumption DEF Start
  <2>2. <<>> \in Seq(Line) /\ Always \in Asked
    BY DEF Asked
  <2> QED
    BY <2>1, <2>2 DEF Init, ImportOK
<1>3. StoredOK
  BY EmptyDayFacts DEF Init, StoredOK
<1>4. HadIsComing /\ OwedIsGot /\ WrittenOrToDo /\ PromisesKept
  BY DEF Init, HadIsComing, OwedIsGot, WrittenOrToDo, PromisesKept
<1> QED
  BY <1>1, <1>2, <1>3, <1>4 DEF HInv

-----------------------------------------------------------------------------
(* The agent and the disk.                                                 *)

\* What the agent writes next is a record.
LEMMA NextIsRecord ==
  ASSUME DiskOK, NEW f \in Files, Busy(f)
  PROVE  /\ NextRecord(f) \in Records /\ Len(Scripts[f]) \in Nat /\ next[f] \in Nat
         /\ next[f] + 1 \in DOMAIN Scripts[f]
<1>1. Scripts[f] \in Seq(Records) /\ next[f] \in Nat /\ next[f] < Len(Scripts[f])
  BY ScriptsAssumption DEF DiskOK, Busy
<1>2. next[f] + 1 \in DOMAIN Scripts[f]
  BY <1>1
<1> QED
  BY <1>1, <1>2 DEF NextRecord

\* A half continues the last line, if it lacks its newline, or begins another.
LEMMA HalfWritten ==
  ASSUME DiskOK, NEW f \in Files, NEW h \in Halves
  PROVE  /\ WithHalf(f, h) \in Seq(Seq(Halves)) /\ WithHalf(f, h) # <<>>
         /\ Len(WithHalf(f, h)) = IF cut[f] THEN Len(lines[f]) ELSE Len(lines[f]) + 1
         /\ \A n \in DOMAIN lines[f] : (n = Len(lines[f]) => ~cut[f]) => WithHalf(f, h)[n] = lines[f][n]
         /\ WithHalf(f, h)[Len(WithHalf(f, h))] =
              IF cut[f] THEN Append(lines[f][Len(lines[f])], h) ELSE <<h>>
<1> DEFINE ls == lines[f]
<1>1. /\ ls \in Seq(Seq(Halves)) /\ Len(ls) \in Nat /\ DOMAIN ls = 1 .. Len(ls)
      /\ cut[f] \in BOOLEAN /\ (cut[f] => ls # <<>>)
  BY DEF DiskOK
<1> HIDE DEF ls
<1>2. CASE cut[f]
  <2>1. Len(ls) \in DOMAIN ls
    BY <1>1, <1>2
  <2>2. Append(ls[Len(ls)], h) \in Seq(Halves)
    BY <1>1, <2>1
  <2>3. WithHalf(f, h) = [ls EXCEPT ![Len(ls)] = Append(ls[Len(ls)], h)]
    BY <1>2, <2>1 DEF WithHalf, ls
  <2>4. ls \in [1 .. Len(ls) -> Seq(Halves)]
    BY <1>1
  <2>5. WithHalf(f, h) \in [1 .. Len(ls) -> Seq(Halves)]
    BY <2>2, <2>3, <2>4
  <2>6. WithHalf(f, h) \in Seq(Seq(Halves)) /\ Len(WithHalf(f, h)) = Len(ls)
    <3> DEFINE w == WithHalf(f, h)
               m == Len(ls)
    <3>1. m \in Nat /\ w \in [1 .. m -> Seq(Halves)]
      BY <1>1, <2>5
    <3> HIDE DEF w, m
    <3>2. w \in Seq(Seq(Halves)) /\ Len(w) = m
      BY <3>1
    <3> QED
      BY <3>2 DEF w, m
  <2> QED
    BY <1>1, <1>2, <2>1, <2>3, <2>4, <2>6 DEF ls
<1>3. CASE ~cut[f]
  <2>1. WithHalf(f, h) = Append(ls, <<h>>) /\ <<h>> \in Seq(Halves)
    BY <1>3 DEF WithHalf, ls
  <2> QED
    BY <1>1, <1>3, <2>1 DEF ls
<1> QED
  BY <1>1, <1>2, <1>3

\* The agent's steps leave the import alone.
LEMMA AgentStepsApart ==
  ASSUME NEW f \in Files, AgentStep(f)
  PROVE  UNCHANGED <<import, stored, faults, promised, split>>
  BY DEF AgentStep, WriteHalf, EndLine, Die, Prune, rest

\* The import leaves the disk alone.
LEMMA ImportStepsApart ==
  ASSUME [Next]_vars
  PROVE  UNCHANGED disk \/ \E f \in Files : AgentStep(f)
  BY DEF Next, Collect, ImportStep, OpenFile, ReadLine, CloseFile, FailFile, Write, WriteDay, Done, Abort, vars

\* The agent's steps keep the disk well formed ...
LEMMA DiskStep == DiskOK /\ [Next]_vars => DiskOK'
<1> SUFFICES ASSUME DiskOK, [Next]_vars PROVE DiskOK'
  OBVIOUS
<1>1. ASSUME NEW f \in Files, WriteHalf(f)
      PROVE  DiskOK'
  <2>1. Busy(f) /\ part[f] < 2 /\ part[f] \in 0 .. 2
    BY <1>1 DEF WriteHalf, DiskOK
  <2>2. part[f] + 1 \in {1, 2} /\ part[f] + 1 \in 0 .. 2
    BY <2>1
  <2>3. <<NextRecord(f), part[f] + 1>> \in Halves
    BY <2>1, <2>2, NextIsRecord DEF Halves
  <2>4. PICK h \in Halves : h = <<NextRecord(f), part[f] + 1>>
    BY <2>3
  <2>5. /\ lines' = [lines EXCEPT ![f] = WithHalf(f, h)] /\ part' = [part EXCEPT ![f] = part[f] + 1]
        /\ cut' = [cut EXCEPT ![f] = TRUE] /\ next' = next /\ gone' = gone
    BY <1>1, <2>4 DEF WriteHalf, DiskOK
  <2>6. WithHalf(f, h) \in Seq(Seq(Halves)) /\ WithHalf(f, h) # <<>>
    BY HalfWritten
  <2>7. lines' \in [Files -> Seq(Seq(Halves))] /\ \A g \in Files : cut'[g] => lines'[g] # <<>>
    BY <2>5, <2>6 DEF DiskOK
  <2> QED
    BY <2>2, <2>5, <2>7 DEF DiskOK
<1>2. ASSUME NEW f \in Files, EndLine(f) \/ Die(f)
      PROVE  DiskOK'
  <2>1. Busy(f)
    BY <1>2 DEF EndLine, Die
  <2>2. next[f] + 1 \in Nat /\ next[f] + 1 <= Len(Scripts[f])
    BY <2>1, NextIsRecord DEF Busy
  <2>3. /\ next' = [next EXCEPT ![f] = next[f] + 1] /\ part' = [part EXCEPT ![f] = 0]
        /\ lines' = lines /\ gone' = gone /\ cut' \in {cut, [cut EXCEPT ![f] = FALSE]}
    BY <1>2 DEF EndLine, Die, DiskOK
  <2>4. next' \in [Files -> Nat] /\ \A g \in Files : next'[g] <= Len(Scripts[g])
    BY <2>2, <2>3 DEF DiskOK
  <2>5. part' \in [Files -> 0 .. 2]
    <3>1. 0 \in 0 .. 2
      OBVIOUS
    <3> QED
      BY <2>3, <3>1 DEF DiskOK
  <2>6. cut' \in [Files -> BOOLEAN] /\ \A g \in Files : cut'[g] => cut[g]
    BY <2>3 DEF DiskOK
  <2> QED
    BY <2>3, <2>4, <2>5, <2>6 DEF DiskOK
<1>3. ASSUME NEW f \in Files, Prune(f)
      PROVE  DiskOK'
  BY <1>3 DEF Prune, DiskOK
<1>4. CASE UNCHANGED disk
  BY <1>4 DEF disk, DiskOK
<1> QED
  BY <1>1, <1>2, <1>3, <1>4, ImportStepsApart DEF AgentStep

\* ... and leave the lines that have ended as they are.
LEMMA EndedStays ==
  ASSUME DiskOK, [Next]_vars, NEW f \in Files, NEW n \in DOMAIN lines[f], Ended(f, n)
  PROVE  n \in DOMAIN lines'[f] /\ Ended(f, n)' /\ lines'[f][n] = lines[f][n]
<1>0. lines[f] \in Seq(Seq(Halves)) /\ n \in 1 .. Len(lines[f]) /\ Len(lines[f]) \in Nat /\ cut[f] \in BOOLEAN
  BY DEF DiskOK
<1>1. ASSUME NEW g \in Files, WriteHalf(g)
      PROVE  n \in DOMAIN lines'[f] /\ Ended(f, n)' /\ lines'[f][n] = lines[f][n]
  <2>0. Busy(g) /\ part[g] < 2 /\ part[g] \in 0 .. 2
    BY <1>1 DEF WriteHalf, DiskOK
  <2>1. Busy(g) /\ part[g] + 1 \in {1, 2}
    BY <2>0
  <2>2. PICK h \in Halves : h = <<NextRecord(g), part[g] + 1>>
    BY <2>1, NextIsRecord DEF Halves
  <2>3. lines' = [lines EXCEPT ![g] = WithHalf(g, h)] /\ cut' = [cut EXCEPT ![g] = TRUE]
    BY <1>1, <2>2 DEF WriteHalf
  <2>4. CASE g # f
    BY <1>0, <2>3, <2>4 DEF Ended, DiskOK
  <2>5. CASE g = f
    <3>1. lines'[f] = WithHalf(f, h)
      BY <2>3, <2>5 DEF DiskOK
    <3>2. n = Len(lines[f]) => ~cut[f]
      BY <1>0 DEF Ended
    <3>3. /\ WithHalf(f, h) \in Seq(Seq(Halves)) /\ WithHalf(f, h)[n] = lines[f][n]
          /\ Len(WithHalf(f, h)) = IF cut[f] THEN Len(lines[f]) ELSE Len(lines[f]) + 1
      BY <3>2, HalfWritten
    <3>4. n < Len(lines'[f]) /\ n \in DOMAIN lines'[f]
      BY <1>0, <3>1, <3>2, <3>3
    <3> QED
      BY <3>1, <3>3, <3>4 DEF Ended
  <2> QED
    BY <2>4, <2>5
<1>2. ASSUME NEW g \in Files, EndLine(g)
      PROVE  n \in DOMAIN lines'[f] /\ Ended(f, n)' /\ lines'[f][n] = lines[f][n]
  <2>1. lines' = lines /\ cut' = [cut EXCEPT ![g] = FALSE]
    BY <1>2 DEF EndLine
  <2> QED
    BY <1>0, <2>1 DEF Ended, DiskOK
<1>3. ASSUME NEW g \in Files, Die(g) \/ Prune(g)
      PROVE  n \in DOMAIN lines'[f] /\ Ended(f, n)' /\ lines'[f][n] = lines[f][n]
  BY <1>3 DEF Die, Prune, Ended
<1>4. CASE UNCHANGED disk
  BY <1>4 DEF disk, Ended
<1> QED
  BY <1>1, <1>2, <1>3, <1>4, ImportStepsApart DEF AgentStep

-----------------------------------------------------------------------------
(* What an import collects.                                                *)

\* The transcript being read is one of those yet to be read.
LEMMA FileIs ==
  ASSUME ImportOK, files # {}
  PROVE  File \in files /\ File \in Files
<1>1. files \in SUBSET Nat /\ files \subseteq Files
  BY ScriptsAssumption DEF ImportOK
<1> QED
  BY <1>1, Least DEF File

\* What is read of a line is a record or Bad.
LEMMA DecodeIs ==
  ASSUME NEW h
  PROVE  Decode(h) \in Line
<1>1. ASSUME NEW r \in Records, h = <<<<r, 1>>, <<r, 2>>>>
      PROVE  h[1][1] \in Records
  BY <1>1
<1> QED
  BY <1>1 DEF Decode, Line

\* What the lines read give is in the result, at its place.
LEMMA CollectsFacts ==
  ASSUME ImportOK, files # {}, Collects
  PROVE  /\ got \subseteq got'
         /\ \A x \in got' : Placed(x) /\ x[2] \in AllEvents
         /\ \A x \in got' : x \in got \/ \E y \in FileEvents(read, period) : x[2] = y[2]
         /\ \A y \in FileEvents(read, period) : \E x \in got' : x[2] = y[2]
<1> DEFINE placed(y) == <<<<File, y[1]>>, y[2]>>
<1>1. File \in Nat
  BY FileIs, ScriptsAssumption
<1>2. read \in Seq(Line) /\ period \in Asked
  BY DEF ImportOK
<1>3. got' = got \cup {placed(y) : y \in FileEvents(read, period)}
  BY DEF Collects
<1>4. \A y : placed(y)[1] = <<File, y[1]>> /\ placed(y)[2] = y[2]
  OBVIOUS
<1>5. ASSUME NEW y \in FileEvents(read, period)
      PROVE  Placed(placed(y)) /\ placed(y)[2] \in AllEvents
  <2>1. y[1][1] \in Nat /\ y[1][2] \in Nat /\ y[2] \in AllEvents
    BY <1>2, <1>5, FileGives
  <2> QED
    BY <1>1, <2>1 DEF Placed
<1>6. \A x \in got : Placed(x) /\ x[2] \in AllEvents
  BY DEF ImportOK
<1> HIDE DEF placed
<1> QED
  BY <1>3, <1>4, <1>5, <1>6

\* Reading a line touches only what has been read.
LEMMA ReadLineFacts ==
  ASSUME DiskOK, ImportOK, ReadLine
  PROVE  /\ pc = "file" /\ at' \in [line : Nat, halves : Nat] /\ read' \in Seq(Line) /\ split' \in BOOLEAN
         /\ UNCHANGED <<disk, pc, period, files, got, todo, had, owed, stored, deaths, faults, promised>>
<1> DEFINE n == at.line + 1
<1>1. at \in [line : Nat, halves : Nat] /\ read \in Seq(Line) /\ split \in BOOLEAN
  BY DEF ImportOK
<1>2. n \in Nat /\ at.halves \in Nat
  BY <1>1
<1>3. read' \in Seq(Line)
  BY <1>1, DecodeIs DEF ReadLine
<1>4. CASE Ended(File, n)
  BY <1>1, <1>2, <1>3, <1>4 DEF ReadLine
<1>5. CASE ~Ended(File, n)
  <2>1. at' = [at EXCEPT !.halves = Len(lines[File][n])]
    BY <1>5 DEF ReadLine
  <2>2. Len(lines[File][n]) \in Nat
    <3>1. File \in Files /\ at.line < Len(lines[File])
      BY FileIs DEF ReadLine, AtEnd, ImportOK
    <3>2. lines[File] \in Seq(Seq(Halves)) /\ n \in 1 .. Len(lines[File])
      BY <1>1, <3>1 DEF DiskOK
    <3>3. lines[File][n] \in Seq(Halves)
      BY <3>2
    <3> QED
      BY <3>3
  <2> QED
    BY <1>1, <1>3, <2>1, <2>2 DEF ReadLine
<1> QED
  BY <1>4, <1>5

-----------------------------------------------------------------------------
(* The steps of an import.                                                 *)

\* An import that has returned holds nothing.
LEMMA ReturnedTyped ==
  ASSUME Returned
  PROVE  /\ pc' = "idle" /\ period' \in Asked /\ files' = {} /\ at' = Start /\ read' = <<>>
         /\ got' = {} /\ todo' = {} /\ had' = {} /\ owed' = {}
  BY DEF Returned, Asked

LEMMA ImportTypeStep == HInv /\ [Next]_vars => ImportOK'
<1> SUFFICES ASSUME HInv, [Next]_vars PROVE ImportOK'
  OBVIOUS
<1>0. DiskOK /\ ImportOK
  BY DEF HInv
<1>1. ASSUME NEW f \in Files, AgentStep(f)
      PROVE  ImportOK'
  <2>1. deaths' \in 0 .. MaxDeaths
    BY <1>0, <1>1, BoundsAssumption DEF ImportOK, AgentStep, WriteHalf, EndLine, Die, Prune, rest
  <2> QED
    BY <1>0, <1>1, <2>1, AgentStepsApart DEF ImportOK, import
<1>2. ASSUME NEW p \in Periods, Collect(p)
      PROVE  ImportOK'
  <2>1. period' \in Asked /\ files' \in SUBSET Files /\ pc' = "list" /\ pc = "idle"
    BY <1>2 DEF Collect, Asked
  <2>2. faults' \in 0 .. MaxFaults
    BY <1>0, <1>2, BoundsAssumption DEF ImportOK, Collect
  <2> QED
    BY <1>0, <1>2, <2>1, <2>2 DEF ImportOK, Collect
<1>3. Start \in [line : Nat, halves : Nat] /\ <<>> \in Seq(Line)
  BY DEF Start
<1>4. ASSUME Returned, UNCHANGED <<deaths, split>>, faults' \in 0 .. MaxFaults
      PROVE  ImportOK'
  BY <1>0, <1>3, <1>4, ReturnedTyped DEF ImportOK
<1>5. CASE OpenFile
  BY <1>0, <1>5 DEF ImportOK, OpenFile, rest
<1>6. CASE ReadLine
  BY <1>0, <1>6, ReadLineFacts DEF ImportOK
<1>7. ASSUME OnToNext, UNCHANGED <<period, todo, deaths, split>>, faults' \in 0 .. MaxFaults,
             \A x \in got' : Placed(x) /\ x[2] \in AllEvents
      PROVE  ImportOK'
  BY <1>0, <1>3, <1>7 DEF OnToNext, ImportOK
<1>8. CASE CloseFile
  <2>1. \A x \in got' : Placed(x) /\ x[2] \in AllEvents
    BY <1>0, <1>8, CollectsFacts DEF CloseFile, ImportOK
  <2> QED
    BY <1>0, <1>7, <1>8, <2>1 DEF CloseFile, ImportOK, rest
<1>9. CASE FailFile
  <2>1. \A x \in got' : Placed(x) /\ x[2] \in AllEvents
    BY <1>0, <1>9, CollectsFacts DEF FailFile, ImportOK
  <2>2. faults' \in 0 .. MaxFaults
    BY <1>0, <1>9, BoundsAssumption DEF FailFile, ImportOK
  <2> QED
    BY <1>7, <1>9, <2>1, <2>2 DEF FailFile
<1>10. CASE Write
  <2>1. CASE \A x \in got : x[2].time # ZeroTime
    <3>1. /\ pc' = "write" /\ todo' = {DayOf(x[2].time) : x \in got} /\ pc = "list"
          /\ UNCHANGED <<period, files, at, read, got, had, rest>>
      BY <1>10, <2>1 DEF Write
    <3>2. todo' \in SUBSET Days
      BY <1>0, <3>1, EventsHaveStamps, StampsHaveDays DEF ImportOK
    <3> QED
      BY <1>0, <2>1, <3>1, <3>2 DEF ImportOK, rest
  <2>2. CASE ~\A x \in got : x[2].time # ZeroTime
    BY <1>0, <1>4, <1>10, <2>2 DEF Write, ImportOK, rest
  <2> QED
    BY <2>1, <2>2
<1>11. CASE WriteDay
  BY <1>0, <1>11 DEF WriteDay, ImportOK
<1>12. CASE Done
  BY <1>0, <1>4, <1>12 DEF Done, ImportOK
<1>13. CASE Abort
  BY <1>0, <1>4, <1>13, BoundsAssumption DEF Abort, ImportOK
<1>14. CASE UNCHANGED vars
  BY <1>0, <1>14 DEF vars, import, rest, ImportOK
<1> QED
  BY <1>1, <1>2, <1>5, <1>6, <1>8, <1>9, <1>10, <1>11, <1>12, <1>13, <1>14 DEF Next, ImportStep

\* What is new to a day is collected for that day, and not in its file.
LEMMA NewOnDayIs ==
  ASSUME ImportOK, StoredOK, NEW d \in Days
  PROVE  /\ NewOnDay(d) \subseteq got
         /\ EventsIn(NewOnDay(d)) \in SUBSET AllEvents
         /\ EventsIn(NewOnDay(d)) \cap stored[d].events = {}
         /\ \A e \in EventsIn(NewOnDay(d)) : DayOf(e.time) = d
         /\ \A e \in EventsIn(NewOnDay(d)) : \E x \in got : x[2] = e
<1>1. \A x \in NewOnDay(d) : /\ x \in got /\ DayOf(x[2].time) = d /\ x[2] \in AllEvents
                             /\ \A e \in stored[d].events : e.id # x[2].id
  BY DEF NewOnDay, ImportOK
<1> QED
  BY <1>1 DEF EventsIn

\* Afterwards the day has the id of everything collected for it.
LEMMA DayGetsAll ==
  ASSUME ImportOK, NEW d \in Days, NEW x \in got, DayOf(x[2].time) = d
  PROVE  \E e \in stored[d].events \cup EventsIn(NewOnDay(d)) : e.id = x[2].id
<1> DEFINE G == {y \in got : y[2].id = x[2].id /\ DayOf(y[2].time) = d}
<1>1. CASE \E e \in stored[d].events : e.id = x[2].id
  BY <1>1
<1>2. CASE \A e \in stored[d].events : e.id # x[2].id
  <2>1. \A y \in G : Placed(y)
    BY DEF ImportOK
  <2>2. G # {}
    OBVIOUS
  <2>3. PICK y \in G : \A z \in G : ~Earlier(z[1], y[1])
    <3> HIDE DEF G
    <3> QED
      BY <2>1, <2>2, OneComesFirst
  <2>4. y \in NewOnDay(d)
    BY <1>2, <2>3 DEF NewOnDay
  <2> QED
    BY <2>3, <2>4 DEF EventsIn
<1> QED
  BY <1>1, <1>2

\* The day to be written is one of those.
LEMMA DayIs ==
  ASSUME ImportOK, todo # {}
  PROVE  Day \in todo /\ Day \in Days
<1>1. Days \subseteq Nat
  BY ScriptsAssumption, DayTicksAssumption DEF Days, DayOf
<1>2. todo \in SUBSET Nat /\ todo \subseteq Days
  BY <1>1 DEF ImportOK
<1> QED
  BY <1>2, Least DEF Day

\* An append keeps what is safe, and makes what it writes safe if no line was open.
LEMMA WrittenDay ==
  ASSUME ImportOK, StoredOK, NEW d \in Days, NEW c \in Written(stored[d], NewOnDay(d))
  PROVE  /\ c \in DayFiles(AllEvents)
         /\ c.events \subseteq stored[d].events \cup EventsIn(NewOnDay(d))
         /\ Safe(stored[d]) \subseteq Safe(c)
         /\ ~stored[d].open => Safe(c) = stored[d].events \cup EventsIn(NewOnDay(d))
<1>1. PICK k \in DayFiles(AllEvents) : k = stored[d]
  BY DEF StoredOK
<1>2. PICK N : N = NewOnDay(d)
  OBVIOUS
<1>3. PICK E \in SUBSET AllEvents : E = EventsIn(N) /\ E \cap k.events = {}
  BY <1>1, <1>2, NewOnDayIs
<1>4. CASE N = {}
  <2>1. E = {} /\ c = k
    BY <1>1, <1>2, <1>3, <1>4 DEF EventsIn, Written
  <2> QED
    BY <1>1, <1>2, <1>3, <2>1 DEF Safe, DayFiles
<1>5. CASE N # {}
  <2>1. PICK x \in FirstOf(N) : c = Put(k, E, x[2])
    BY <1>1, <1>2, <1>3, <1>5 DEF Written
  <2>2. PICK first \in E : first = x[2]
    BY <1>3 DEF FirstOf, EventsIn
  <2>3. c = Put(k, E, first)
    BY <2>1, <2>2
  <2>4. /\ Put(k, E, first) \in DayFiles(AllEvents) /\ Put(k, E, first).events \subseteq k.events \cup E
        /\ Safe(k) \subseteq Safe(Put(k, E, first))
        /\ ~k.open => Safe(Put(k, E, first)) = k.events \cup E
    BY <1>3, PutFacts
  <2> QED
    BY <1>1, <1>2, <1>3, <2>3, <2>4
<1> QED
  BY <1>4, <1>5

\* One that is interrupted keeps it too.
LEMMA InterruptedDay ==
  ASSUME ImportOK, StoredOK, NEW d \in Days, NEW c \in Interrupted(stored[d], Parts(NewOnDay(d)))
  PROVE  /\ c \in DayFiles(AllEvents)
         /\ c.events \subseteq stored[d].events \cup EventsIn(NewOnDay(d))
         /\ Safe(stored[d]) \subseteq Safe(c)
<1>1. PICK k \in DayFiles(AllEvents) : k = stored[d]
  BY DEF StoredOK
<1>2. PICK N : N = NewOnDay(d)
  OBVIOUS
<1>3. PICK E \in SUBSET AllEvents : E = EventsIn(N) /\ E \cap k.events = {}
  BY <1>1, <1>2, NewOnDayIs
<1>4. ASSUME NEW p \in Parts(N)
      PROVE  p.events \in SUBSET E /\ p.first \in p.events /\ p.last \in p.events
  <2>1. PICK x \in N, S \in SUBSET N :
          /\ x \in S
          /\ \E y \in {z \in FirstOf(S) : z = x => S = {x}} :
               p = [events |-> EventsIn(S), first |-> y[2], last |-> x[2]]
    BY DEF Parts
  <2>2. PICK y \in FirstOf(S) : p = [events |-> EventsIn(S), first |-> y[2], last |-> x[2]]
    BY <2>1
  <2>3. y \in S
    BY DEF FirstOf
  <2> QED
    BY <1>3, <2>1, <2>2, <2>3 DEF EventsIn
<1>5. \A p \in Parts(N) : /\ p.events \in SUBSET AllEvents /\ p.events \cap k.events = {}
                          /\ p.first \in p.events /\ p.last \in p.events
  BY <1>3, <1>4
<1>6. c \in Interrupted(k, Parts(N))
  BY <1>1, <1>2
<1>7. /\ c \in DayFiles(AllEvents) /\ Safe(k) \subseteq Safe(c)
      /\ c = k \/ \E p \in Parts(N) : c.events \subseteq k.events \cup p.events
  BY <1>5, <1>6, InterruptedFacts
<1>8. c.events \subseteq k.events \cup E
  BY <1>4, <1>7
<1> QED
  BY <1>1, <1>2, <1>3, <1>7, <1>8

\* What a step does to the store.
DayGets(d, c) ==
  /\ stored' = [stored EXCEPT ![d] = c] /\ c \in DayFiles(AllEvents)
  /\ c.events \subseteq stored[d].events \cup EventsIn(NewOnDay(d))
  /\ Safe(stored[d]) \subseteq Safe(c)

LEMMA StoredChanges ==
  ASSUME HInv, [Next]_vars
  PROVE  \/ UNCHANGED stored
         \/ pc = "write" /\ \E d \in Days, c \in DayFiles(AllEvents) : DayGets(d, c)
<1>0. ImportOK /\ StoredOK
  BY DEF HInv
<1>1. CASE WriteDay
  <2>1. Day \in Days /\ pc = "write"
    BY <1>0, <1>1, DayIs DEF WriteDay
  <2>2. PICK c \in Written(stored[Day], NewOnDay(Day)) : stored' = [stored EXCEPT ![Day] = c]
    BY <1>1 DEF WriteDay
  <2> QED
    BY <1>0, <2>1, <2>2, WrittenDay DEF DayGets
<1>2. CASE Abort
  <2>1. ASSUME pc = "write", todo # {}, ~UNCHANGED stored
        PROVE  \E d \in Days, c \in DayFiles(AllEvents) : DayGets(d, c)
    <3>1. Day \in Days
      BY <1>0, <2>1, DayIs
    <3>2. PICK c \in Interrupted(stored[Day], Parts(NewOnDay(Day))) : stored' = [stored EXCEPT ![Day] = c]
      BY <1>2, <2>1 DEF Abort
    <3> QED
      BY <1>0, <3>1, <3>2, InterruptedDay DEF DayGets
  <2> QED
    BY <1>2, <2>1 DEF Abort
<1>3. \A f \in Files : AgentStep(f) => UNCHANGED stored
  BY AgentStepsApart
<1> QED
  BY <1>1, <1>2, <1>3
     DEF Next, ImportStep, Collect, OpenFile, ReadLine, CloseFile, FailFile, Write, Done, vars, rest

LEMMA StoredStep == HInv /\ [Next]_vars => StoredOK'
<1> SUFFICES ASSUME HInv, [Next]_vars PROVE StoredOK'
  OBVIOUS
<1>0. StoredOK /\ ImportOK
  BY DEF HInv
<1>1. CASE UNCHANGED stored
  BY <1>0, <1>1 DEF StoredOK
<1>2. ASSUME pc = "write", NEW d \in Days, NEW c \in DayFiles(AllEvents), DayGets(d, c)
      PROVE  StoredOK'
  <2>1. stored' \in [Days -> DayFiles(AllEvents)] /\ stored'[d] = c /\ \A b \in Days \ {d} : stored'[b] = stored[b]
    BY <1>0, <1>2 DEF DayGets, StoredOK
  <2>2. ASSUME NEW e \in c.events
        PROVE  e.time # ZeroTime /\ DayOf(e.time) = d
    <3>1. CASE e \in stored[d].events
      BY <1>0, <3>1 DEF StoredOK
    <3>2. CASE e \in EventsIn(NewOnDay(d))
      <4>1. PICK x \in got : x[2] = e
        BY <1>0, <3>2, NewOnDayIs
      <4> QED
        BY <1>0, <1>2, <3>2, <4>1, NewOnDayIs DEF ImportOK
    <3> QED
      BY <1>2, <3>1, <3>2 DEF DayGets
  <2> QED
    BY <1>0, <2>1, <2>2 DEF StoredOK
<1> QED
  BY <1>1, <1>2, StoredChanges

\* What is safe stays so.
LEMMA SafeStays ==
  ASSUME HInv, [Next]_vars, NEW e, DayOf(e.time) \in Days, IsSafe(e)
  PROVE  IsSafe(e)'
<1>0. StoredOK
  BY DEF HInv
<1>1. CASE UNCHANGED stored
  BY <1>1 DEF IsSafe
<1>2. ASSUME NEW d \in Days, NEW c \in DayFiles(AllEvents), DayGets(d, c)
      PROVE  IsSafe(e)'
  <2>1. stored'[d] = c /\ \A b \in Days \ {d} : stored'[b] = stored[b]
    BY <1>0, <1>2 DEF DayGets, StoredOK
  <2> QED
    BY <1>2, <2>1 DEF DayGets, IsSafe
<1> QED
  BY <1>1, <1>2, StoredChanges

-----------------------------------------------------------------------------
(* What there was to give is collected, owed, and stored.                  *)

\* What a transcript has to give is in its lines that have ended.
LEMMA ToGiveIs ==
  ASSUME DiskOK, ImportOK, NEW f \in Files, NEW e \in ToGive(f)
  PROVE  \E r \in Records, n \in DOMAIN lines[f] :
           /\ Ended(f, n) /\ Decode(lines[f][n]) = r
           /\ e.id \in Gives(r) /\ e.time = r.time /\ Contains(period, r.time)
<1> DEFINE E == {m \in DOMAIN lines[f] : Ended(f, m)}
           j == IF cut[f] THEN Len(lines[f]) - 1 ELSE Len(lines[f])
           ended == [n \in 1 .. Cardinality(E) |-> Decode(lines[f][n])]
<1>1. /\ DOMAIN lines[f] = 1 .. Len(lines[f]) /\ Len(lines[f]) \in Nat /\ cut[f] \in BOOLEAN
      /\ cut[f] => Len(lines[f]) # 0
  BY DEF DiskOK
<1>2. j \in Nat /\ j <= Len(lines[f]) /\ E = 1 .. j
  BY <1>1 DEF Ended
<1>3. Cardinality(E) = j
  <2> HIDE DEF j, E
  <2>1. Cardinality(1 .. j) = IF 1 > j THEN 0 ELSE j - 1 + 1
    BY <1>2, FS_Interval
  <2> QED
    BY <1>2, <2>1
<1>4. PICK y \in UserEvents(ended, Always) \cup AssistantEvents(ended, Always) :
        Contains(period, y[2].time) /\ e = y[2]
  BY DEF ToGive
<1> HIDE DEF E, j
<1>5. ended \in Seq(Line) /\ DOMAIN ended = E /\ Always \in Asked
  <2>1. ended = [n \in 1 .. j |-> Decode(lines[f][n])]
    BY <1>3
  <2> HIDE DEF ended
  <2>2. ended \in [1 .. j -> Line]
    BY <2>1, DecodeIs
  <2> QED
    BY <1>2, <2>1, <2>2 DEF Asked
<1>6. \A n \in E : ended[n] = Decode(lines[f][n])
  BY <1>2, <1>3
<1> HIDE DEF ended
<1>7. PICK n \in DOMAIN ended : /\ ended[n] \in Records /\ y[2].id \in Gives(ended[n])
                                /\ y[2].time = ended[n].time
  BY <1>4, <1>5, EventIsGiven
<1>8. n \in DOMAIN lines[f] /\ Ended(f, n) /\ ended[n] = Decode(lines[f][n])
  BY <1>5, <1>6, <1>7 DEF E
<1> QED
  BY <1>4, <1>7, <1>8

\* Nothing is ahead at the end of a transcript.
LEMMA NothingAhead ==
  ASSUME DiskOK, ImportOK, pc = "file", AtEnd(File), NEW n \in Nat, Ahead(n)
  PROVE  FALSE
<1>1. File \in Files /\ at.line \in Nat
  BY FileIs DEF ImportOK
<1>2. /\ DOMAIN lines[File] = 1 .. Len(lines[File]) /\ Len(lines[File]) \in Nat /\ cut[File] \in BOOLEAN
  BY <1>1 DEF DiskOK
<1>3. n \in 1 .. Len(lines[File]) /\ n > at.line /\ Ended(File, n)
  BY <1>2 DEF Ahead
<1>4. ~Ended(File, at.line + 1)
  BY <1>1, <1>2, <1>3 DEF AtEnd
<1> QED
  BY <1>1, <1>2, <1>3, <1>4 DEF Ended

\* A line ahead is read, or still ahead of the next one.
LEMMA ReadLineReads ==
  ASSUME DiskOK, ImportOK, ReadLine, NEW n \in Nat, Ahead(n), NEW r \in Records, Decode(lines[File][n]) = r
  PROVE  (\E k \in DOMAIN read' : read'[k] = r) \/ (Ahead(n)' /\ Decode(lines'[File'][n]) = r)
<1> DEFINE m == at.line + 1
           line == lines[File][m]
<1>1. File \in Files /\ at.line \in Nat /\ read \in Seq(Line)
  BY FileIs DEF ImportOK, ReadLine
<1>2. lines' = lines /\ cut' = cut /\ files' = files /\ File' = File
  BY DEF ReadLine, disk, File
<1>3. n \in DOMAIN lines[File] /\ Ended(File, n) /\ n >= m /\ Len(lines[File]) \in Nat /\ n <= Len(lines[File])
  BY <1>1 DEF Ahead, DiskOK
<1>4. CASE n = m
  <2>1. Ended(File, m) /\ at.halves = 0 /\ line \in Seq(Halves)
    BY <1>1, <1>3, <1>4 DEF Ahead, DiskOK
  <2>2. Unread(File) = line
    <3>1. Unread(File) = SubSeq(line, 1, Len(line))
      BY <2>1 DEF Unread
    <3> QED
      BY <2>1, <3>1, SubSeqFull
  <2>3. line # <<>>
    <3>1. CASE line = <<>>
      <4>1. \A q \in Records : line # <<<<q, 1>>, <<q, 2>>>>
        BY <3>1
      <4> QED
        BY <1>4, <4>1, BadAssumption DEF Decode
    <3> QED
      BY <3>1
  <2>4. read' = Append(read, r)
    BY <1>4, <2>2, <2>3 DEF ReadLine
  <2> QED
    BY <1>1, <2>4
<1>5. CASE n # m
  <2>1. n > m
    BY <1>1, <1>3, <1>5
  <2>2. Ended(File, m)
    BY <1>1, <1>3, <2>1 DEF Ended
  <2>3. at' = [line |-> m, halves |-> 0]
    BY <2>2 DEF ReadLine
  <2>4. at'.line = m /\ at'.halves = 0
    BY <2>3
  <2>5. Ended(File, n)'
    BY <1>2, <1>3 DEF Ended
  <2> QED
    BY <1>2, <1>3, <2>1, <2>4, <2>5 DEF Ahead
<1> QED
  BY <1>4, <1>5

\* The steps of the agent change no line that has ended: it stays ahead.
LEMMA AheadStays ==
  ASSUME DiskOK, [Next]_vars, UNCHANGED <<files, at>>, File \in Files, NEW n \in Nat, Ahead(n)
  PROVE  Ahead(n)' /\ lines'[File'][n] = lines[File][n]
<1>1. File' = File
  BY DEF File
<1>2. PICK f \in Files : f = File
  OBVIOUS
<1>3. n \in DOMAIN lines'[f] /\ Ended(f, n)' /\ lines'[f][n] = lines[f][n]
  BY <1>2, EndedStays DEF Ahead
<1> QED
  BY <1>1, <1>2, <1>3 DEF Ahead, Ended

LEMMA HadStep == HInv /\ [Next]_vars => HadIsComing'
<1> SUFFICES ASSUME HInv, [Next]_vars, pc' = "file", NEW e \in had'
             PROVE  \E r \in Records :
                      /\ e.id \in Gives(r) /\ e.time = r.time /\ Contains(period', r.time)
                      /\ \/ \E k \in DOMAIN read' : read'[k] = r
                         \/ \E n \in Nat : Ahead(n)' /\ Decode(lines'[File'][n]) = r
  BY DEF HadIsComing
<1>0. DiskOK /\ ImportOK /\ HadIsComing
  BY DEF HInv
<1>1. CASE OpenFile
  <2>1. /\ files # {} /\ pc = "list" /\ had' = ToGive(File)
        /\ UNCHANGED <<lines, cut, period, files, at, read>>
    BY <1>1 DEF OpenFile, disk
  <2>2. File \in Files /\ at = Start /\ File' = File
    BY <1>0, <2>1, FileIs DEF ImportOK, File
  <2>3. PICK r \in Records, n \in DOMAIN lines[File] :
          /\ Ended(File, n) /\ Decode(lines[File][n]) = r
          /\ e.id \in Gives(r) /\ e.time = r.time /\ Contains(period, r.time)
    BY <1>0, <2>1, <2>2, ToGiveIs
  <2>4. n \in Nat /\ n > 0
    BY <1>0, <2>2 DEF DiskOK
  <2>5. Ahead(n)
    BY <2>2, <2>3, <2>4 DEF Ahead, Start
  <2>6. Ahead(n)' /\ lines'[File'][n] = lines[File][n]
    BY <1>0, <2>1, <2>2, <2>4, <2>5, AheadStays
  <2> QED
    BY <2>1, <2>3, <2>4, <2>6
<1>2. ASSUME pc = "file", e \in had
      PROVE  \E r \in Records :
               /\ e.id \in Gives(r) /\ e.time = r.time /\ Contains(period, r.time)
               /\ \/ \E k \in DOMAIN read : read[k] = r
                  \/ \E n \in Nat : Ahead(n) /\ Decode(lines[File][n]) = r
  BY <1>0, <1>2 DEF HadIsComing
<1>3. CASE ReadLine
  <2>1. pc = "file" /\ e \in had /\ period' = period
    BY <1>3 DEF ReadLine
  <2>2. PICK r \in Records :
          /\ e.id \in Gives(r) /\ e.time = r.time /\ Contains(period, r.time)
          /\ \/ \E k \in DOMAIN read : read[k] = r
             \/ \E n \in Nat : Ahead(n) /\ Decode(lines[File][n]) = r
    BY <1>2, <2>1
  <2>3. ASSUME NEW k \in DOMAIN read, read[k] = r
        PROVE  \E l \in DOMAIN read' : read'[l] = r
    <3>1. read \in Seq(Line) /\ (read' = read \/ \E w : read' = Append(read, w))
      BY <1>0, <1>3 DEF ImportOK, ReadLine
    <3> QED
      BY <2>3, <3>1
  <2>4. ASSUME NEW n \in Nat, Ahead(n), Decode(lines[File][n]) = r
        PROVE  (\E k \in DOMAIN read' : read'[k] = r) \/ (Ahead(n)' /\ Decode(lines'[File'][n]) = r)
    BY <1>0, <1>3, <2>4, ReadLineReads
  <2> QED
    BY <2>1, <2>2, <2>3, <2>4
<1>4. CASE UNCHANGED <<pc, period, files, at, read, had>>
  <2>1. pc = "file" /\ e \in had
    BY <1>4
  <2>2. PICK r \in Records :
          /\ e.id \in Gives(r) /\ e.time = r.time /\ Contains(period, r.time)
          /\ \/ \E k \in DOMAIN read : read[k] = r
             \/ \E n \in Nat : Ahead(n) /\ Decode(lines[File][n]) = r
    BY <1>2, <2>1
  <2>3. File \in Files
    BY <1>0, <2>1, FileIs DEF ImportOK
  <2>4. ASSUME NEW n \in Nat, Ahead(n)
        PROVE  Ahead(n)' /\ lines'[File'][n] = lines[File][n]
    BY <1>0, <1>4, <2>3, <2>4, AheadStays
  <2> QED
    BY <1>4, <2>2, <2>4
<1>5. \A f \in Files : AgentStep(f) => UNCHANGED <<pc, period, files, at, read, had>>
  BY AgentStepsApart DEF import
<1>6. OpenFile \/ ReadLine \/ UNCHANGED <<pc, period, files, at, read, had>>
  BY <1>5, ReturnedTyped
     DEF Next, ImportStep, Collect, CloseFile, FailFile, OnToNext, Write, WriteDay, Done, Abort, vars, import
<1> QED
  BY <1>1, <1>3, <1>4, <1>6

LEMMA OwedStep == HInv /\ [Next]_vars => OwedIsGot'
<1> SUFFICES ASSUME HInv, [Next]_vars, NEW e \in owed'
             PROVE  \E x \in got' : x[2].id = e.id /\ x[2].time = e.time
  BY DEF OwedIsGot
<1>0. DiskOK /\ ImportOK /\ HadIsComing /\ OwedIsGot
  BY DEF HInv
<1>1. CASE e \in owed /\ got \subseteq got'
  BY <1>0, <1>1 DEF OwedIsGot
<1>2. CASE CloseFile
  <2>1. /\ pc = "file" /\ AtEnd(File) /\ Collects /\ owed' = owed \cup had /\ files # {}
        /\ read \in Seq(Line) /\ period \in Asked
    BY <1>0, <1>2 DEF CloseFile, ImportOK
  <2>2. CASE e \in had
    <3>1. PICK r \in Records :
            /\ e.id \in Gives(r) /\ e.time = r.time /\ Contains(period, r.time)
            /\ \/ \E k \in DOMAIN read : read[k] = r
               \/ \E n \in Nat : Ahead(n) /\ Decode(lines[File][n]) = r
      BY <1>0, <2>1, <2>2 DEF HadIsComing
    <3>2. PICK k \in DOMAIN read : read[k] = r
      BY <1>0, <2>1, <3>1, NothingAhead
    <3>3. PICK y \in FileEvents(read, period) : y[2].id = e.id /\ y[2].time = e.time
      BY <2>1, <3>1, <3>2, GivenIsEvent
    <3> QED
      BY <1>0, <2>1, <3>3, CollectsFacts
  <2>3. got \subseteq got'
    BY <1>0, <2>1, CollectsFacts
  <2> QED
    BY <1>1, <2>1, <2>2, <2>3
<1>3. CASE FailFile
  <2>1. owed' = owed /\ (UNCHANGED got \/ (Collects /\ pc = "file"))
    BY <1>3 DEF FailFile
  <2> QED
    BY <1>0, <1>1, <2>1, CollectsFacts DEF ImportOK
<1>4. CASE Returned
  BY <1>4, ReturnedTyped
<1>5. CASE owed' \subseteq owed /\ got' = got
  BY <1>1, <1>5
<1>6. \A f \in Files : AgentStep(f) => UNCHANGED <<owed, got>>
  BY AgentStepsApart DEF import
<1>7. CloseFile \/ FailFile \/ Returned \/ (owed' \subseteq owed /\ got' = got)
  BY <1>6 DEF Next, ImportStep, Collect, OpenFile, ReadLine, Write, WriteDay, Done, Abort, vars, import
<1> QED
  BY <1>2, <1>3, <1>4, <1>5, <1>7

LEMMA WrittenStep == HInv /\ [Next]_vars => WrittenOrToDo'
<1> SUFFICES ASSUME HInv, [Next]_vars, pc' = "write", NEW e \in owed'
             PROVE  DayOf(e.time) \in todo' \/ IsSafe(e)'
  BY DEF WrittenOrToDo
<1>0. ImportOK /\ StoredOK /\ OwedIsGot /\ WrittenOrToDo
  BY DEF HInv
<1>1. ASSUME e \in owed
      PROVE  \E x \in got : x[2].id = e.id /\ x[2].time = e.time /\ DayOf(e.time) \in Days
  <2>1. PICK x \in got : x[2].id = e.id /\ x[2].time = e.time
    BY <1>0, <1>1 DEF OwedIsGot
  <2>2. e.time \in Stamps
    BY <1>0, <2>1, EventsHaveStamps DEF ImportOK
  <2> QED
    BY <2>1, <2>2, StampsHaveDays
<1>2. CASE Write
  <2>1. ~Returned
    BY ReturnedTyped
  <2>2. todo' = {DayOf(x[2].time) : x \in got} /\ owed' = owed
    BY <1>2, <2>1 DEF Write
  <2> QED
    BY <1>1, <2>2
<1>3. CASE WriteDay
  <2>1. /\ pc = "write" /\ todo' = todo \ {Day} /\ Day \in Days
        /\ e \in owed /\ ~(DayOf(e.time) = Day /\ stored[Day].open)
    BY <1>0, <1>3, DayIs DEF WriteDay
  <2>2. PICK c \in Written(stored[Day], NewOnDay(Day)) : stored' = [stored EXCEPT ![Day] = c]
    BY <1>3 DEF WriteDay
  <2>3. PICK x \in got : x[2].id = e.id /\ x[2].time = e.time /\ DayOf(e.time) \in Days
    BY <1>1, <2>1
  <2>4. CASE DayOf(e.time) = Day
    <3>1. ~stored[Day].open
      BY <2>1, <2>4
    <3>2. Safe(c) = stored[Day].events \cup EventsIn(NewOnDay(Day))
      BY <1>0, <2>1, <2>2, <3>1, WrittenDay
    <3>3. \E y \in stored[Day].events \cup EventsIn(NewOnDay(Day)) : y.id = x[2].id
      BY <1>0, <2>1, <2>3, <2>4, DayGetsAll
    <3>4. stored'[Day] = c
      BY <1>0, <2>1, <2>2 DEF StoredOK
    <3> QED
      BY <2>3, <2>4, <3>2, <3>3, <3>4 DEF IsSafe
  <2>5. CASE DayOf(e.time) # Day
    <3>1. DayOf(e.time) \in todo \/ IsSafe(e)
      BY <1>0, <2>1 DEF WrittenOrToDo
    <3> QED
      BY <2>1, <2>3, <2>5, <3>1, SafeStays
  <2> QED
    BY <2>4, <2>5
<1>4. CASE pc = "write" /\ UNCHANGED <<todo, owed, stored>>
  BY <1>0, <1>4 DEF WrittenOrToDo, IsSafe
<1>5. \A f \in Files : AgentStep(f) => UNCHANGED <<pc, todo, owed, stored>>
  BY AgentStepsApart DEF import
<1>6. Write \/ WriteDay \/ (pc = "write" /\ UNCHANGED <<todo, owed, stored>>)
  BY <1>5, ReturnedTyped
     DEF Next, ImportStep, Collect, OpenFile, ReadLine, CloseFile, FailFile, OnToNext, Done, Abort, vars, import, rest
<1> QED
  BY <1>2, <1>3, <1>4, <1>6

LEMMA PromisesStep == HInv /\ [Next]_vars => PromisesKept'
<1> SUFFICES ASSUME HInv, [Next]_vars, NEW e \in promised'
             PROVE  e.time \in Stamps /\ IsSafe(e)'
  BY DEF PromisesKept
<1>0. ImportOK /\ OwedIsGot /\ WrittenOrToDo /\ PromisesKept
  BY DEF HInv
<1>1. ASSUME e \in promised
      PROVE  e.time \in Stamps /\ IsSafe(e)'
  BY <1>0, <1>1, StampsHaveDays, SafeStays DEF PromisesKept
<1>2. CASE Done
  <2>1. promised' = promised \cup owed /\ pc = "write" /\ todo = {} /\ stored' = stored
    BY <1>2 DEF Done
  <2>2. CASE e \in owed
    <3>1. IsSafe(e)'
      BY <1>0, <2>1, <2>2 DEF WrittenOrToDo, IsSafe
    <3>2. PICK x \in got : x[2].time = e.time
      BY <1>0, <2>2 DEF OwedIsGot
    <3> QED
      BY <1>0, <3>1, <3>2, EventsHaveStamps DEF ImportOK
  <2> QED
    BY <1>1, <2>1, <2>2
<1>3. \A f \in Files : AgentStep(f) => promised' = promised
  BY AgentStepsApart
<1>4. Done \/ promised' = promised
  BY <1>3 DEF Next, ImportStep, Collect, OpenFile, ReadLine, CloseFile, FailFile, Write, WriteDay, Abort, vars, rest
<1> QED
  BY <1>1, <1>2, <1>4

LEMMA HInvStep == HInv /\ [Next]_vars => HInv'
  BY DiskStep, ImportTypeStep, StoredStep, HadStep, OwedStep, WrittenStep, PromisesStep DEF HInv

\* Every reachable state of an import is well typed: whatever the agent writes,
\* whatever is asked for, and wherever an import is cut short, a day has only
\* events of that day, all of them with a time.
THEOREM TypeCorrect == Spec => []TypeOK
<1>1. HInv => TypeOK
  <2> SUFFICES ASSUME HInv PROVE TypeOK
    OBVIOUS
  <2>1. DiskOK /\ ImportOK /\ StoredOK /\ OwedIsGot /\ PromisesKept
    BY DEF HInv
  <2>2. \A f \in Files : next[f] \in 0 .. Len(Scripts[f])
    BY <2>1, ScriptsAssumption DEF DiskOK
  <2>3. \A e \in EventsIn(got) \cup owed \cup promised : e.time \in Nat
    <3>1. \A x \in got : x[2].time \in Nat
      BY <2>1, EventsHaveStamps, StampsHaveDays DEF ImportOK
    <3>2. \A e \in owed : e.time \in Nat
      BY <2>1, <3>1 DEF OwedIsGot
    <3>3. \A e \in promised : e.time \in Nat
      BY <2>1, StampsHaveDays DEF PromisesKept
    <3> QED
      BY <3>1, <3>2, <3>3 DEF EventsIn
  <2>4. /\ DOMAIN stored = Days
        /\ \A d \in Days : /\ \A e \in stored[d].events : e.time # ZeroTime /\ DayOf(e.time) = d
                           /\ stored[d].last \subseteq stored[d].events
                           /\ stored[d].open \in BOOLEAN
    BY <2>1 DEF StoredOK, DayFiles
  <2> QED
    BY <2>1, <2>2, <2>3, <2>4 DEF TypeOK, DiskOK, ImportOK, Line, Asked, Halves
<1> QED
  BY <1>1, HInvInit, HInvStep, PTL DEF Spec

\* Collect for a period gives just what Collect for all time gives in that period,
\* names of tools and the bounds of sessions included, whatever lines were read.
THEOREM PeriodsAreCutCleanly == Spec => []PeriodsCutCleanly
<1>1. HInv => PeriodsCutCleanly
  BY FileIsCutCleanly DEF HInv, ImportOK, PeriodsCutCleanly
<1> QED
  BY <1>1, HInvInit, HInvStep, PTL DEF Spec

\* An import that ran to its end has stored the events of every record whose line
\* had ended when its transcript was opened, and they stay: whatever is written
\* meanwhile, and whatever imports are cut short, in the middle of an append too;
\* but for days whose file ended in a torn line.
THEOREM CompleteImportsStoreAll == Spec => []ImportsAreComplete
<1>1. HInv => ImportsAreComplete
  BY DEF HInv, PromisesKept, IsSafe, Safe, ImportsAreComplete
<1> QED
  BY <1>1, HInvInit, HInvStep, PTL DEF Spec

-----------------------------------------------------------------------------
(* A session starts once, where agents finish their lines and no line is   *)
(* read in two.                                                            *)

\* The records of a session that have a time are in one file and in the order of
\* their times, as an agent writes them.
SessionRecords(s) ==
  UNION {{<<f, n>> : n \in {m \in DOMAIN Scripts[f] : /\ Scripts[f][m].session = s
                                                       /\ Scripts[f][m].time # ZeroTime}} : f \in Files}

Chronological ==
  \A r \in Records : r.session # Missing =>
    \A x, y \in SessionRecords(r.session) :
      /\ x[1] = y[1]
      /\ x[2] < y[2] => Scripts[x[1]][x[2]].time <= Scripts[y[1]][y[2]].time

TimesOf(s) == {Scripts[x[1]][x[2]].time : x \in SessionRecords(s)}

\* The start of a session, whenever it is imported.
TheStart(s) == Bound("start", s, CHOOSE t \in TimesOf(s) : \A u \in TimesOf(s) : t <= u)

\* A transcript holds the beginning of its script, the last line perhaps half.
FileIsScript(f) ==
  /\ cut[f] <=> part[f] > 0
  /\ Len(lines[f]) = next[f] + (IF cut[f] THEN 1 ELSE 0)
  /\ \A n \in DOMAIN lines[f] :
       /\ n \in DOMAIN Scripts[f]
       /\ lines[f][n] = IF n > next[f] /\ part[f] = 1 THEN <<<<Scripts[f][n], 1>>>>
                        ELSE <<<<Scripts[f][n], 1>>, <<Scripts[f][n], 2>>>>

LinesAreScript == \A f \in Files : FileIsScript(f)

\* So does what was read of it: half a line may be at the end only.
ReadIsScript ==
  pc = "file" =>
    /\ at.halves \in {0, 1, 2}
    /\ Len(read) = at.line + (IF at.halves = 0 THEN 0 ELSE 1)
    /\ \A n \in DOMAIN read :
         /\ n \in DOMAIN Scripts[File]
         /\ read[n] = IF n > at.line /\ at.halves = 1 THEN Bad ELSE Scripts[File][n]

\* What is collected and stored of starts.
StartsAreTheOnes ==
  /\ \A x \in got : x[2].type = "start" => x[2] = TheStart(x[2].session)
  /\ \A d \in Days : \A e \in stored[d].events : e.type = "start" => e = TheStart(e.session)

Whole == deaths = 0 /\ ~split

StartInv == HInv /\ (Whole => LinesAreScript /\ ReadIsScript /\ StartsAreTheOnes)

LEMMA SessionRecordIs ==
  ASSUME NEW f \in Files, NEW n \in DOMAIN Scripts[f], Scripts[f][n].time # ZeroTime
  PROVE  /\ <<f, n>> \in SessionRecords(Scripts[f][n].session)
         /\ Scripts[f][n] \in Records /\ n \in Nat
         /\ Scripts[f][n].time \in TimesOf(Scripts[f][n].session)
<1>1. <<f, n>> \in SessionRecords(Scripts[f][n].session)
  BY DEF SessionRecords
<1>2. Scripts[f][n] \in Records /\ n \in Nat
  BY ScriptsAssumption
<1>3. Scripts[<<f, n>>[1]][<<f, n>>[2]].time = Scripts[f][n].time
  OBVIOUS
<1>4. Scripts[f][n].time \in TimesOf(Scripts[f][n].session)
  BY <1>1, <1>3 DEF TimesOf
<1> QED
  BY <1>1, <1>2, <1>4

\* The first time read is the first time of the script, if only the last line read
\* may be bad: what comes later is not earlier.
LEMMA FirstIsTheStart ==
  ASSUME Chronological, NEW f \in Files, NEW ls \in Seq(Line), NEW p \in Asked,
         \A n \in DOMAIN ls : /\ n \in DOMAIN Scripts[f]
                              /\ ls[n] # Scripts[f][n] => ls[n] = Bad /\ n = Len(ls),
         NEW x \in FileEvents(ls, p), x[2].type = "start"
  PROVE  x[2] = TheStart(x[2].session)
<1> DEFINE t == x[2].time
<1>0. ls \in Seq(Line)
  OBVIOUS
<1>1. x \in SessionEvents(ls, p)
  <2>1. ASSUME x \in UserEvents(ls, p)
        PROVE  FALSE
    <3>1. PICK n \in Users(ls) : x \in UserLine(ls, n, p)
      BY <2>1 DEF UserEvents, UserLine
    <3> QED
      BY <1>0, <3>1, UserLineFacts
  <2>2. x \notin AssistantEvents(ls, p)
    BY <1>0, AssistantEventsCut
  <2> QED
    BY <2>1, <2>2 DEF FileEvents
<1>2. PICK s : /\ s # Missing /\ x[2] = Bound("start", s, t)
               /\ t \in Times(ls, s, p) /\ \A u \in Times(ls, s, p) : t <= u
  BY <1>0, <1>1, SessionEventsFacts
<1>3. PICK n \in DOMAIN ls : ls[n] # Bad /\ ls[n].session = s /\ ls[n].time = t /\ t # ZeroTime
  BY <1>0, <1>2, TimesFacts
<1>4. n \in DOMAIN Scripts[f] /\ Scripts[f][n] = ls[n]
  BY <1>3
<1>5. <<f, n>> \in SessionRecords(s) /\ Scripts[f][n] \in Records /\ n \in Nat /\ t \in TimesOf(s)
  BY <1>3, <1>4, SessionRecordIs
<1>6. ASSUME NEW y \in SessionRecords(s)
      PROVE  t <= Scripts[y[1]][y[2]].time /\ Scripts[y[1]][y[2]].time \in Nat
  <2>1. PICK g \in Files, m \in Nat : /\ y = <<g, m>> /\ m \in DOMAIN Scripts[g]
                                      /\ Scripts[g][m].session = s /\ Scripts[g][m].time # ZeroTime
    <3>1. PICK g \in Files : \E m \in DOMAIN Scripts[g] :
            y = <<g, m>> /\ Scripts[g][m].session = s /\ Scripts[g][m].time # ZeroTime
      BY DEF SessionRecords
    <3> QED
      BY <3>1, ScriptsAssumption
  <2>2. \A z \in SessionRecords(s) : z[1] = y[1] /\ (z[2] < y[2] => Scripts[z[1]][z[2]].time <= Scripts[y[1]][y[2]].time)
    BY <1>2, <1>3, <1>4, <1>5 DEF Chronological
  <2>3. <<f, n>>[1] = f /\ <<f, n>>[2] = n /\ y[1] = g /\ y[2] = m
    BY <2>1
  <2>4. f = g /\ (n < m => t <= Scripts[g][m].time)
    BY <1>3, <1>4, <1>5, <2>2, <2>3
  <2>5. CASE m \in DOMAIN ls /\ ls[m] # Bad
    <3>1. ls[m] = Scripts[f][m]
      BY <2>5
    <3>2. Scripts[g][m].time \in Times(ls, s, p)
      BY <1>0, <2>1, <2>4, <2>5, <3>1, TimesFacts
    <3> QED
      BY <1>0, <1>2, <2>3, <3>2, TimesFacts
  <2>6. CASE ~(m \in DOMAIN ls /\ ls[m] # Bad)
    <3>1. m \in Nat /\ m >= 1
      BY <2>1, ScriptsAssumption
    <3>2. DOMAIN ls = 1 .. Len(ls) /\ Len(ls) \in Nat
      BY <1>0
    <3>3. m \in DOMAIN ls => m = Len(ls)
      <4>1. Scripts[g][m] # Bad
        BY <2>1, ScriptsAssumption, BadAssumption
      <4> QED
        BY <2>4, <2>6, <4>1
    <3>4. n < m
      <4>1. n \in 1 .. Len(ls) /\ m >= Len(ls)
        <5>1. n \in DOMAIN ls
          BY <1>3
        <5>2. CASE m \in DOMAIN ls
          BY <3>2, <3>3, <5>1, <5>2
        <5>3. CASE m \notin DOMAIN ls
          <6>1. m > Len(ls)
            BY <3>1, <3>2, <5>3
          <6> QED
            BY <3>1, <3>2, <5>1, <6>1
        <5> QED
          BY <5>2, <5>3
      <4>2. n # m
        BY <1>3, <2>6
      <4> QED
        BY <3>1, <3>2, <4>1, <4>2
    <3>5. Scripts[g][m].time \in Nat
      BY <2>1, ScriptsAssumption
    <3> QED
      BY <2>3, <2>4, <3>4, <3>5
  <2> QED
    BY <2>5, <2>6
<1>7. t \in Nat /\ \A u \in TimesOf(s) : t <= u /\ u \in Nat
  BY <1>5, <1>6 DEF TimesOf
<1>8. t = CHOOSE v \in TimesOf(s) : \A u \in TimesOf(s) : v <= u
  <2> DEFINE T == TimesOf(s)
  <2> HIDE DEF T, t
  <2>1. \A v \in T : (\A u \in T : v <= u) => v = t
    BY <1>5, <1>7 DEF T
  <2>2. t \in T /\ \A u \in T : t <= u
    BY <1>5, <1>7 DEF T
  <2>3. t = CHOOSE v \in T : \A u \in T : v <= u
    BY <2>1, <2>2
  <2> QED
    BY <2>3 DEF T
<1>9. x[2].session = s
  BY <1>2 DEF Bound
<1> QED
  BY <1>2, <1>8, <1>9 DEF TheStart

\* A whole record reads as that record, half of one as no record.
LEMMA DecodeHalves ==
  ASSUME NEW r \in Records
  PROVE  /\ Decode(<<<<r, 1>>, <<r, 2>>>>) = r /\ Decode(<<<<r, 1>>>>) = Bad
         /\ Len(<<<<r, 1>>, <<r, 2>>>>) = 2 /\ Len(<<<<r, 1>>>>) = 1
<1>1. \A q \in Records : <<<<r, 1>>>> # <<<<q, 1>>, <<q, 2>>>>
  <2>1. \A q \in Records : Len(<<<<r, 1>>>>) # Len(<<<<q, 1>>, <<q, 2>>>>)
    OBVIOUS
  <2> QED
    BY <2>1
<1> QED
  BY <1>1 DEF Decode

\* Nobody dies in the middle of a line: a step extends the lines by the script.
LEMMA LinesStep ==
  ASSUME DiskOK, LinesAreScript, [Next]_vars, \A f \in Files : ~Die(f)
  PROVE  LinesAreScript'
<1>1. ASSUME NEW f \in Files,
             \A g \in Files \ {f} : UNCHANGED <<lines[g], next[g], part[g], cut[g]>>,
             FileIsScript(f)'
      PROVE  LinesAreScript'
  <2>1. ASSUME NEW g \in Files, g # f
        PROVE  FileIsScript(g)'
    <3>1. lines'[g] = lines[g] /\ next'[g] = next[g] /\ part'[g] = part[g] /\ cut'[g] = cut[g]
      BY <1>1, <2>1
    <3>2. FileIsScript(g)
      BY DEF LinesAreScript
    <3> QED
      BY <3>1, <3>2 DEF FileIsScript
  <2> QED
    BY <1>1, <2>1 DEF LinesAreScript
<1>2. ASSUME NEW f \in Files, WriteHalf(f)
      PROVE  LinesAreScript'
  <2> DEFINE k == next[f] + 1
             r == Scripts[f][k]
  <2>1. /\ Busy(f) /\ part[f] < 2 /\ part[f] \in 0 .. 2
        /\ next[f] \in Nat /\ k \in DOMAIN Scripts[f] /\ r \in Records /\ NextRecord(f) = r
    BY <1>2, NextIsRecord DEF WriteHalf, DiskOK, NextRecord
  <2>2. part[f] \in {0, 1} /\ part[f] + 1 \in {1, 2}
    BY <2>1
  <2>3. PICK h \in Halves : h = <<r, part[f] + 1>>
    BY <2>1, <2>2 DEF Halves
  <2>4. /\ lines' = [lines EXCEPT ![f] = WithHalf(f, h)] /\ part' = [part EXCEPT ![f] = part[f] + 1]
        /\ cut' = [cut EXCEPT ![f] = TRUE] /\ next' = next
    BY <1>2, <2>1, <2>3 DEF WriteHalf, DiskOK
  <2>5. /\ lines'[f] = WithHalf(f, h) /\ part'[f] = part[f] + 1 /\ cut'[f] /\ next'[f] = next[f]
        /\ \A g \in Files \ {f} : UNCHANGED <<lines[g], next[g], part[g], cut[g]>>
    BY <2>4 DEF DiskOK
  <2>6. /\ lines[f] \in Seq(Seq(Halves)) /\ cut[f] \in BOOLEAN /\ (cut[f] <=> part[f] = 1)
        /\ Len(lines[f]) = next[f] + (IF cut[f] THEN 1 ELSE 0)
    BY <2>2 DEF DiskOK, LinesAreScript, FileIsScript
  <2>7. /\ WithHalf(f, h) \in Seq(Seq(Halves)) /\ Len(WithHalf(f, h)) = k
        /\ \A n \in 1 .. next[f] : WithHalf(f, h)[n] = lines[f][n]
    <3>0. Len(WithHalf(f, h)) = IF cut[f] THEN Len(lines[f]) ELSE Len(lines[f]) + 1
      BY HalfWritten
    <3>1. Len(WithHalf(f, h)) = k
      BY <2>1, <2>6, <3>0
    <3>2. \A n \in 1 .. next[f] : n \in DOMAIN lines[f] /\ (n = Len(lines[f]) => ~cut[f])
      BY <2>1, <2>6
    <3> QED
      BY <3>1, <3>2, HalfWritten
  <2>8. WithHalf(f, h)[k] = IF part[f] = 0 THEN <<<<r, 1>>>> ELSE <<<<r, 1>>, <<r, 2>>>>
    <3>1. WithHalf(f, h)[k] = IF cut[f] THEN Append(lines[f][Len(lines[f])], h) ELSE <<h>>
      BY <2>7, HalfWritten
    <3>2. CASE part[f] = 0
      <4>1. WithHalf(f, h)[k] = <<h>>
        BY <2>6, <3>1, <3>2
      <4>2. h = <<r, 1>>
        BY <2>3, <3>2
      <4>3. <<h>> = <<<<r, 1>>>>
        BY <4>2
      <4> QED
        BY <3>2, <4>1, <4>3
    <3>3. CASE part[f] = 1
      <4>1. cut[f] /\ Len(lines[f]) = k /\ k \in DOMAIN lines[f] /\ k > next[f]
        BY <2>1, <2>6, <3>3
      <4>2. lines[f][k] = <<<<r, 1>>>>
        BY <3>3, <4>1 DEF LinesAreScript, FileIsScript
      <4> QED
        BY <2>3, <3>1, <3>3, <4>1, <4>2
    <3> QED
      BY <2>2, <3>2, <3>3
  <2>9. ASSUME NEW n \in 1 .. next[f]
        PROVE  n \in DOMAIN Scripts[f] /\ lines[f][n] = <<<<Scripts[f][n], 1>>, <<Scripts[f][n], 2>>>>
    <3>1. n \in DOMAIN lines[f] /\ ~(n > next[f])
      BY <2>1, <2>6
    <3> QED
      BY <3>1 DEF LinesAreScript, FileIsScript
  <2>10. DOMAIN lines'[f] = 1 .. k /\ \A n \in 1 .. k : n = k \/ n \in 1 .. next[f]
    BY <2>1, <2>5, <2>7
  <2>11. ASSUME NEW n \in DOMAIN lines'[f]
         PROVE  /\ n \in DOMAIN Scripts[f]
                /\ lines'[f][n] = IF n > next'[f] /\ part'[f] = 1 THEN <<<<Scripts[f][n], 1>>>>
                                  ELSE <<<<Scripts[f][n], 1>>, <<Scripts[f][n], 2>>>>
    <3>1. CASE n = k
      <4>1. n > next'[f] /\ (part'[f] = 1 <=> part[f] = 0)
        BY <2>1, <2>2, <2>5, <3>1
      <4> QED
        BY <2>1, <2>5, <2>8, <3>1, <4>1
    <3>2. CASE n \in 1 .. next[f]
      <4>1. ~(n > next'[f])
        BY <2>1, <2>5, <3>2
      <4> QED
        BY <2>5, <2>7, <2>9, <3>2, <4>1
    <3> QED
      BY <2>10, <2>11, <3>1, <3>2
  <2>12. (cut'[f] <=> part'[f] > 0) /\ Len(lines'[f]) = next'[f] + (IF cut'[f] THEN 1 ELSE 0)
    BY <2>1, <2>2, <2>5, <2>7
  <2>13. FileIsScript(f)'
    BY <2>11, <2>12 DEF FileIsScript
  <2> QED
    BY <1>1, <2>5, <2>13
<1>3. ASSUME NEW f \in Files, EndLine(f)
      PROVE  LinesAreScript'
  <2>1. /\ Busy(f) /\ part[f] = 2 /\ next[f] \in Nat
        /\ lines' = lines /\ part' = [part EXCEPT ![f] = 0] /\ next' = [next EXCEPT ![f] = next[f] + 1]
        /\ cut' = [cut EXCEPT ![f] = FALSE]
    BY <1>3 DEF EndLine, DiskOK
  <2>2. /\ lines'[f] = lines[f] /\ part'[f] = 0 /\ next'[f] = next[f] + 1 /\ ~cut'[f]
        /\ \A g \in Files \ {f} : UNCHANGED <<lines[g], next[g], part[g], cut[g]>>
    BY <2>1 DEF DiskOK
  <2>3. cut[f] /\ Len(lines[f]) = next[f] + 1
    BY <2>1 DEF LinesAreScript, FileIsScript
  <2>4. ASSUME NEW n \in DOMAIN lines[f]
        PROVE  /\ n \in DOMAIN Scripts[f]
               /\ lines[f][n] = <<<<Scripts[f][n], 1>>, <<Scripts[f][n], 2>>>>
    <3>1. part[f] # 1
      BY <2>1
    <3> QED
      BY <3>1 DEF LinesAreScript, FileIsScript
  <2>5. FileIsScript(f)'
    <3>1. (cut'[f] <=> part'[f] > 0) /\ Len(lines'[f]) = next'[f] + (IF cut'[f] THEN 1 ELSE 0)
      BY <2>1, <2>2, <2>3
    <3>2. part'[f] # 1
      BY <2>2
    <3> QED
      BY <2>2, <2>4, <3>1, <3>2 DEF FileIsScript
  <2> QED
    BY <1>1, <2>2, <2>5
<1>4. ASSUME NEW f \in Files, Prune(f)
      PROVE  LinesAreScript'
  BY <1>4 DEF Prune, LinesAreScript, FileIsScript
<1>5. CASE UNCHANGED disk
  BY <1>5 DEF disk, LinesAreScript, FileIsScript
<1> QED
  BY <1>2, <1>3, <1>4, <1>5, ImportStepsApart DEF AgentStep

\* What is read of a line is its record, or what there is of it at the end; a rest
\* read later would make two of one line.
LEMMA ReadLineStep ==
  ASSUME DiskOK, ImportOK, LinesAreScript, ReadIsScript, ReadLine, ~split'
  PROVE  ReadIsScript'
<1> DEFINE n == at.line + 1
           line == lines[File][n]
           r == Scripts[File][n]
<1>1. /\ pc = "file" /\ File \in Files /\ File' = File /\ ~AtEnd(File)
      /\ at \in [line : Nat, halves : Nat] /\ read \in Seq(Line)
  BY FileIs DEF ImportOK, ReadLine, File
<1>2. /\ lines[File] \in Seq(Seq(Halves)) /\ at.line < Len(lines[File]) /\ n \in Nat
      /\ n \in DOMAIN lines[File] /\ line \in Seq(Halves) /\ at.line \in Nat /\ at.halves \in Nat
  <2>1. lines[File] \in Seq(Seq(Halves)) /\ at.line < Len(lines[File]) /\ at.line \in Nat /\ at.halves \in Nat
    BY <1>1 DEF DiskOK, AtEnd
  <2> QED
    BY <2>1
<1>3. /\ n \in DOMAIN Scripts[File] /\ r \in Records
      /\ line = IF n > next[File] /\ part[File] = 1 THEN <<<<r, 1>>>> ELSE <<<<r, 1>>, <<r, 2>>>>
  <2>1. /\ n \in DOMAIN Scripts[File]
        /\ line = IF n > next[File] /\ part[File] = 1 THEN <<<<r, 1>>>> ELSE <<<<r, 1>>, <<r, 2>>>>
    BY <1>1, <1>2 DEF LinesAreScript, FileIsScript
  <2>2. Scripts[File] \in Seq(Records)
    BY <1>1, ScriptsAssumption
  <2>3. r \in Records
    BY <2>1, <2>2
  <2> QED
    BY <2>1, <2>3
<1>4. Ended(File, n) => line = <<<<r, 1>>, <<r, 2>>>>
  <2>1. ASSUME n > next[File], part[File] = 1
        PROVE  ~Ended(File, n)
    <3>1. cut[File] /\ Len(lines[File]) = next[File] + 1 /\ next[File] \in Nat
      BY <1>1, <2>1 DEF LinesAreScript, FileIsScript, DiskOK
    <3> QED
      BY <1>2, <2>1, <3>1 DEF Ended
  <2> QED
    BY <1>3, <2>1
<1>5. Len(line) = (IF n > next[File] /\ part[File] = 1 THEN 1 ELSE 2)
      /\ Decode(line) = IF n > next[File] /\ part[File] = 1 THEN Bad ELSE r
  BY <1>3, DecodeHalves
<1>6. /\ at.halves \in {0, 1, 2}
      /\ Len(read) = at.line + (IF at.halves = 0 THEN 0 ELSE 1)
      /\ \A k \in DOMAIN read :
           /\ k \in DOMAIN Scripts[File]
           /\ read[k] = IF k > at.line /\ at.halves = 1 THEN Bad ELSE Scripts[File][k]
  BY <1>1 DEF ReadIsScript
<1>7. at' = IF Ended(File, n) THEN [line |-> n, halves |-> 0] ELSE [at EXCEPT !.halves = Len(line)]
  BY DEF ReadLine
<1> HIDE DEF line, r
<1>8. /\ Ended(File, n) => at'.line = n /\ at'.halves = 0
      /\ ~Ended(File, n) => at'.line = at.line /\ at'.halves = Len(line)
  BY <1>1, <1>7
<1>9. CASE at.halves = 0
  <2>1. Unread(File) = line
    <3>1. Unread(File) = SubSeq(line, 1, Len(line))
      BY <1>9 DEF Unread, line
    <3> QED
      BY <1>2, <3>1, SubSeqFull
  <2>2. line # <<>>
    BY <1>5
  <2>3. read' = Append(read, Decode(line))
    BY <2>1, <2>2 DEF ReadLine
  <2>4. Len(read) = at.line /\ \A k \in DOMAIN read : k \in DOMAIN Scripts[File] /\ read[k] = Scripts[File][k]
    <3>1. Len(read) = at.line
      BY <1>2, <1>6, <1>9
    <3>2. at.halves # 1
      BY <1>9
    <3>3. \A k \in DOMAIN read : k \in DOMAIN Scripts[File] /\ read[k] = Scripts[File][k]
      BY <1>6, <3>2
    <3> QED
      BY <3>1, <3>3
  <2>5. /\ Len(read') = n /\ DOMAIN read' = 1 .. n /\ read'[n] = Decode(line)
        /\ \A k \in 1 .. n : k = n \/ (k \in DOMAIN read /\ read'[k] = read[k] /\ ~(k > at.line))
    BY <1>1, <1>2, <2>3, <2>4
  <2>6. \A k \in 1 .. n : k \in DOMAIN Scripts[File] /\ (k # n => read'[k] = Scripts[File][k])
    BY <1>3, <2>4, <2>5
  <2>7. CASE Ended(File, n)
    <3>1. Decode(line) = r
      BY <1>3, <1>4, <2>7, DecodeHalves
    <3> QED
      BY <1>1, <1>8, <2>5, <2>6, <2>7, <3>1 DEF ReadIsScript, r
  <2>8. CASE ~Ended(File, n)
    <3>1. at'.line = at.line /\ at'.halves \in {1, 2} /\ read'[n] = IF at'.halves = 1 THEN Bad ELSE r
      BY <1>5, <1>8, <2>5, <2>8
    <3>2. n > at'.line
      BY <1>2, <3>1
    <3>3. Len(read') = at'.line + 1
      BY <2>5, <3>1
    <3>4. ASSUME NEW k \in DOMAIN read'
          PROVE  /\ k \in DOMAIN Scripts[File]
                 /\ read'[k] = IF k > at'.line /\ at'.halves = 1 THEN Bad ELSE Scripts[File][k]
      BY <2>5, <2>6, <3>1, <3>2 DEF r
    <3> QED
      BY <1>1, <3>1, <3>3, <3>4 DEF ReadIsScript
  <2> QED
    BY <2>7, <2>8
<1>10. CASE at.halves # 0
  <2>1. Unread(File) = <<>> /\ read' = read
    <3>1. at.halves > 0
      BY <1>2, <1>10
    <3> QED
      BY <3>1 DEF ReadLine
  <2>2. Ended(File, n)
    BY <1>1, <1>2, <2>1 DEF AtEnd
  <2>3. line = <<<<r, 1>>, <<r, 2>>>> /\ Len(line) = 2
    BY <1>3, <1>4, <2>2, DecodeHalves
  <2>4. at.halves # 1
    <3>1. CASE at.halves = 1
      <4>1. Unread(File) = SubSeq(line, 2, 2)
        BY <2>3, <3>1 DEF Unread, line
      <4>2. line[2] \in Halves
        BY <1>2, <2>3
      <4>3. \A i \in 2 .. 2 : line[i] \in Halves
        BY <4>2
      <4>4. Len(SubSeq(line, 2, 2)) = 1
        BY <4>3, SubSeqProperties
      <4> QED
        BY <2>1, <4>1, <4>4
    <3> QED
      BY <3>1
  <2>5. at'.line = n /\ at'.halves = 0 /\ Len(read) = n
    BY <1>2, <1>6, <1>8, <1>10, <2>2
  <2>6. \A k \in DOMAIN read : k \in DOMAIN Scripts[File] /\ read[k] = Scripts[File][k]
    BY <1>6, <2>4
  <2> QED
    BY <1>1, <2>1, <2>5, <2>6 DEF ReadIsScript
<1> QED
  BY <1>9, <1>10

LEMMA ReadStep ==
  ASSUME HInv, LinesAreScript, ReadIsScript, [Next]_vars, ~split'
  PROVE  ReadIsScript'
<1>0. DiskOK /\ ImportOK
  BY DEF HInv
<1>1. CASE ReadLine
  BY <1>0, <1>1, ReadLineStep
<1>2. CASE OpenFile
  <2>1. at' = Start /\ read' = <<>>
    BY <1>0, <1>2 DEF OpenFile, ImportOK
  <2>2. at'.line = 0 /\ at'.halves = 0 /\ Len(read') = 0 /\ DOMAIN read' = {}
    BY <2>1 DEF Start
  <2> QED
    BY <2>2 DEF ReadIsScript
<1>3. CASE UNCHANGED <<pc, files, at, read>>
  BY <1>3 DEF ReadIsScript, File
<1>4. CASE pc' # "file"
  BY <1>4 DEF ReadIsScript
<1>5. \A f \in Files : AgentStep(f) => UNCHANGED <<pc, files, at, read>>
  BY AgentStepsApart DEF import
<1>6. ReadLine \/ OpenFile \/ UNCHANGED <<pc, files, at, read>> \/ pc' # "file"
  BY <1>5, ReturnedTyped
     DEF Next, ImportStep, Collect, CloseFile, FailFile, OnToNext, Write, WriteDay, Done, Abort, vars, import
<1> QED
  BY <1>1, <1>2, <1>3, <1>4, <1>6

LEMMA StartsStep ==
  ASSUME Chronological, HInv, ReadIsScript, StartsAreTheOnes, [Next]_vars
  PROVE  StartsAreTheOnes'
<1>0. DiskOK /\ ImportOK /\ StoredOK
  BY DEF HInv
<1>1. ASSUME NEW y \in FileEvents(read, period), pc = "file", y[2].type = "start"
      PROVE  y[2] = TheStart(y[2].session)
  <2>1. File \in Files /\ read \in Seq(Line) /\ period \in Asked /\ at.line \in Nat
    BY <1>0, <1>1, FileIs DEF ImportOK
  <2>2. \A n \in DOMAIN read : /\ n \in DOMAIN Scripts[File]
                               /\ read[n] # Scripts[File][n] => read[n] = Bad /\ n > at.line /\ at.halves = 1
    BY <1>1 DEF ReadIsScript
  <2>3. at.halves = 1 => Len(read) = at.line + 1
    BY <1>1 DEF ReadIsScript
  <2>4. \A n \in DOMAIN read : /\ n \in DOMAIN Scripts[File]
                               /\ read[n] # Scripts[File][n] => read[n] = Bad /\ n = Len(read)
    <3>1. DOMAIN read = 1 .. Len(read) /\ Len(read) \in Nat
      BY <2>1
    <3> QED
      BY <2>1, <2>2, <2>3, <3>1
  <2>5. PICK f \in Files : f = File
    BY <2>1
  <2>6. \A n \in DOMAIN read : /\ n \in DOMAIN Scripts[f]
                               /\ read[n] # Scripts[f][n] => read[n] = Bad /\ n = Len(read)
    BY <2>4, <2>5
  <2> QED
    BY <1>1, <2>1, <2>6, FirstIsTheStart
<1>2. ASSUME NEW x \in got', x[2].type = "start"
      PROVE  x[2] = TheStart(x[2].session)
  <2>1. CASE x \in got
    BY <1>2, <2>1 DEF StartsAreTheOnes
  <2>2. CASE x \notin got
    <3>1. \A f \in Files : AgentStep(f) => UNCHANGED got
      BY AgentStepsApart DEF import
    <3>2. Collects /\ pc = "file"
      BY <1>2, <2>2, <3>1, ReturnedTyped
         DEF Next, ImportStep, Collect, OpenFile, ReadLine, CloseFile, FailFile, Write, WriteDay, Done, Abort, vars, import
    <3>3. PICK y \in FileEvents(read, period) : x[2] = y[2]
      BY <1>0, <1>2, <2>2, <3>2, CollectsFacts DEF ImportOK
    <3> QED
      BY <1>1, <1>2, <3>2, <3>3
  <2> QED
    BY <2>1, <2>2
<1>3. ASSUME NEW d \in Days, NEW e \in stored'[d].events, e.type = "start"
      PROVE  e = TheStart(e.session)
  <2>1. CASE e \in stored[d].events
    BY <1>3, <2>1 DEF StartsAreTheOnes
  <2>2. CASE e \notin stored[d].events
    <3>1. PICK b \in Days, c \in DayFiles(AllEvents) : DayGets(b, c)
      BY <1>3, <2>2, StoredChanges
    <3>2. b = d /\ stored'[d] = c
      BY <1>0, <1>3, <2>2, <3>1 DEF DayGets, StoredOK
    <3>3. e \in EventsIn(NewOnDay(d))
      BY <1>3, <2>2, <3>1, <3>2 DEF DayGets
    <3>4. PICK x \in got : x[2] = e
      BY <1>0, <3>3, NewOnDayIs
    <3> QED
      BY <1>3, <3>4 DEF StartsAreTheOnes
  <2> QED
    BY <2>1, <2>2
<1> QED
  BY <1>2, <1>3 DEF StartsAreTheOnes

\* Where agents write a session to one file in the order of time, none has died in
\* the middle of a line, and no import has read a line in two, the store has one
\* start of every session: however often it is imported while its transcript
\* grows, for whatever periods, and however imports are cut short.
THEOREM SessionsStartOnce ==
  ASSUME Chronological
  PROVE  Spec => []StartsOnce
<1>1. Init => StartInv
  <2>1. Init => LinesAreScript /\ ReadIsScript
    BY DEF Init, LinesAreScript, FileIsScript, ReadIsScript
  <2>2. Init => StartsAreTheOnes
    BY EmptyDayFacts DEF Init, StartsAreTheOnes
  <2> QED
    BY <2>1, <2>2, HInvInit DEF StartInv
<1>2. StartInv /\ [Next]_vars => StartInv'
  <2> SUFFICES ASSUME StartInv, [Next]_vars PROVE StartInv'
    OBVIOUS
  <2>1. HInv /\ HInv'
    BY HInvStep DEF StartInv
  <2>2. ASSUME Whole'
        PROVE  Whole /\ \A f \in Files : ~Die(f)
    <3>1. deaths \in Nat /\ deaths' = 0 /\ ~split'
      BY <2>1, <2>2, BoundsAssumption DEF HInv, ImportOK, Whole
    <3>2. \A f \in Files : ~Die(f)
      BY <3>1 DEF Die
    <3>3. deaths' = deaths
      BY <3>2 DEF Next, AgentStep, WriteHalf, EndLine, Prune, ImportStep, Collect, OpenFile, ReadLine, CloseFile,
                  FailFile, Write, WriteDay, Done, Abort, vars, rest
    <3>4. ~split
      BY <3>1 DEF Next, AgentStep, WriteHalf, EndLine, Die, Prune, ImportStep, Collect, OpenFile, ReadLine, CloseFile,
                  FailFile, Write, WriteDay, Done, Abort, vars, rest
    <3> QED
      BY <3>1, <3>2, <3>3, <3>4 DEF Whole
  <2>3. ASSUME Whole'
        PROVE  LinesAreScript' /\ ReadIsScript' /\ StartsAreTheOnes'
    <3>1. LinesAreScript /\ ReadIsScript /\ StartsAreTheOnes /\ ~split'
      BY <2>2, <2>3 DEF StartInv, Whole
    <3> QED
      BY <2>1, <2>2, <2>3, <3>1, LinesStep, ReadStep, StartsStep DEF HInv
  <2> QED
    BY <2>1, <2>3 DEF StartInv
<1>3. StartInv => StartsOnce
  <2> SUFFICES ASSUME StartInv, deaths = 0, ~split, NEW c \in Days, NEW d \in Days,
                      NEW e \in stored[c].events, NEW x \in stored[d].events,
                      e.type = "start", x.type = "start", e.session = x.session
               PROVE  e = x
    BY DEF StartsOnce
  <2>1. e = TheStart(e.session) /\ x = TheStart(x.session)
    BY DEF StartInv, Whole, StartsAreTheOnes
  <2> QED
    BY <2>1
<1> QED
  BY <1>1, <1>2, <1>3, PTL DEF Spec

=============================================================================
