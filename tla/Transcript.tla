----------------------------- MODULE Transcript -----------------------------
(***************************************************************************)
(* readSession: what the session reader makes of a transcript without      *)
(* reading all of it.  It looks at a window at the start of the file and   *)
(* at one that ends where the file ended when it was opened, and grows.    *)
(*                                                                         *)
(* A transcript is a sequence of lines; a line is a record with its size   *)
(* in bytes, newline included.  Of a text the model keeps its beginning:   *)
(* "<" is any text that begins so and is none of the injected ones.        *)
(***************************************************************************)
EXTENDS Integers, SequencesExt

CONSTANTS HeadBytes, TailBytes, MaxTailBytes, RecentPrompts

ASSUME BytesAssumption ==
  /\ HeadBytes \in Nat \ {0} /\ TailBytes \in Nat \ {0}
  /\ MaxTailBytes \in Nat /\ TailBytes <= MaxTailBytes
  /\ RecentPrompts \in Nat

NoTime == 0             \* time.Time{}

\* Lines; "bad" is one that does not parse, such as an empty one.
LineRecords ==
  {r \in [type : STRING, time : Nat, text : STRING, size : Nat \ {0}, cwd : STRING, branch : STRING,
          side : BOOLEAN, meta : BOOLEAN, source : STRING, message : BOOLEAN, tool : BOOLEAN,
          title : STRING] :
     r.size = 1 => r.type = "bad"}

Injected == {"<command-name>", "<local-command", "<system-reminder", "Caveat:"}
Markup == (Injected \ {"Caveat:"}) \cup {"<"}

-----------------------------------------------------------------------------
IsHumanPrompt(r) ==
  /\ r.type = "user" /\ ~r.side /\ r.message
  /\ \/ r.source \in {"typed", "queued"}
     \/ /\ r.source = "" /\ ~r.meta
        /\ r.text \notin Injected \cup {""} /\ ~r.tool

\* A human prompt whose text is worth showing.
IsShown(r) == IsHumanPrompt(r) /\ r.text \notin Markup \cup {""}

\* Where line n ends, and where it begins.
EndOf(ls, n) ==
  LET end[k \in 0 .. Len(ls)] == IF k = 0 THEN 0 ELSE end[k - 1] + ls[k].size
  IN end[n]
BeginOf(ls, n) == EndOf(ls, n) - ls[n].size

\* scanRecords on the bytes from..to: the lines that parse, and begin after the
\* one that holds the first byte, unless that is the first of the file.  The last
\* line may lack its newline.
ScanRecords(ls, from, to) ==
  {n \in DOMAIN ls : /\ from = 0 \/ BeginOf(ls, n) > from
                     /\ EndOf(ls, n) - 1 <= to
                     /\ ls[n].type # "bad"}

FirstOf(ls, S, field, default) == IF S = {} THEN default ELSE ls[Min(S)][field]
LastOf(ls, S, field, default) == IF S = {} THEN default ELSE ls[Max(S)][field]

Stamped(ls, S) == {n \in S : ls[n].time # NoTime}
Shown(ls, S) == {n \in S : IsShown(ls[n])}
InDir(ls, S) == {n \in S : ls[n].cwd # ""}

\* What the start of the file tells.  Reading stops at the line where the first
\* three are known, so a branch named later is not seen.
ReadHead(ls, size) ==
  LET lines == ScanRecords(ls, 0, Min({size, HeadBytes}))
      known == {Stamped(ls, lines), InDir(ls, lines), Shown(ls, lines)}
      read == IF {} \in known THEN lines ELSE {n \in lines : n <= Max({Min(S) : S \in known})}
  IN [created |-> FirstOf(ls, Stamped(ls, lines), "time", NoTime),
      cwd |-> FirstOf(ls, InDir(ls, lines), "cwd", ""),
      prompt |-> FirstOf(ls, Shown(ls, lines), "text", ""),
      branch |-> FirstOf(ls, {n \in read : ls[n].branch # ""}, "branch", "")]

InFileOrder(S) ==
  CHOOSE s \in [1 .. Cardinality(S) -> S] : \A m, n \in DOMAIN s : m < n => s[m] < s[n]

\* The latest of each kind among some lines.
Latest(ls, lines) ==
  LET prompts == InFileOrder(Shown(ls, lines))
  IN [title |-> LastOf(ls, {n \in lines : ls[n].type = "ai-title" /\ ls[n].title # ""}, "title", ""),
      activity |-> LastOf(ls, {n \in Stamped(ls, lines) : ~ls[n].side}, "time", NoTime),
      human |-> LastOf(ls, {n \in lines : IsHumanPrompt(ls[n])}, "time", NoTime),
      prompts |-> [i \in DOMAIN prompts |-> [at |-> ls[prompts[i]].time, text |-> ls[prompts[i]].text]]]

TailFrom(ls, size, window) ==
  Latest(ls, ScanRecords(ls, Max({size - window, 0}), size))

\* The sizes the window takes.
Windows == {w \in TailBytes .. MaxTailBytes : w = MaxTailBytes \/ \E k \in 0 .. 6 : w = TailBytes * 4^k}

\* Is content with any activity.
StopsAtActivity(ls, size, window) ==
  TailFrom(ls, size, window).activity # NoTime \/ window >= size \/ window = MaxTailBytes

\* The loop ends at the first window with a human prompt.
Stops(ls, size, window) ==
  TailFrom(ls, size, window).human # NoTime \/ window >= size \/ window = MaxTailBytes

ReadTail(ls, size) == TailFrom(ls, size, Min({w \in Windows : Stops(ls, size, w)}))

\* Keeps the first of them.
EarliestPrompts(prompts) == SubSeq(prompts, 1, Min({RecentPrompts, Len(prompts)}))

LastPrompts(prompts) == SubSeq(prompts, Max({0, Len(prompts) - RecentPrompts}) + 1, Len(prompts))

\* A transcript that readSession returns nil for.
NoSession(ls, size) == ReadHead(ls, size).created = NoTime

\* The session of any other one.
ReadSession(ls, size, mtime, noContent) ==
  LET head == ReadHead(ls, size)
      tail == ReadTail(ls, size)
  IN [created |-> head.created, cwd |-> head.cwd, branch |-> head.branch,
      activity |-> IF tail.activity = NoTime THEN mtime ELSE tail.activity,
      human |-> tail.human,
      prompts |-> IF noContent THEN <<>> ELSE LastPrompts(tail.prompts),
      title |-> CASE ~noContent /\ tail.title # "" -> [from |-> "harness", text |-> tail.title]
                  [] ~noContent /\ tail.title = "" /\ head.prompt # "" ->
                       [from |-> "first-prompt", text |-> head.prompt]
                  [] OTHER -> [from |-> "cwd", text |-> head.cwd]]

=============================================================================
