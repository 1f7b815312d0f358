----------------------------- MODULE EventFiles -----------------------------
(***************************************************************************)
(* Events as the store sees them, and the layout of its directory: which   *)
(* day file an event belongs to and which day directories a query visits.  *)
(*                                                                         *)
(* An event is a record with at least the fields id, type, time and        *)
(* product.  Its time is a number of ticks, 0 being Go's zero time; its    *)
(* product is a sequence of characters.                                    *)
(***************************************************************************)
EXTENDS Integers, Sequences

CONSTANTS
  DayTicks,     \* ticks in one UTC day
  Missing       \* an id or type left empty

ASSUME DayTicksAssumption == DayTicks \in Nat \ {0}

ZeroTime == 0           \* time.Time{}

-----------------------------------------------------------------------------
(* Periods are half-open; a zero bound is open.                            *)

Contains(period, t) ==
  /\ period.start # ZeroTime => t >= period.start
  /\ period.end # ZeroTime => t < period.end

-----------------------------------------------------------------------------
(* One character of every class strings.Map tells apart: kept, lowered and *)
(* replaced.                                                               *)

Kept == {"a", "b", "1", "-", "_"}
Lowered == [c \in {"A", "B"} |-> IF c = "A" THEN "a" ELSE "b"]

SanitizeChar(c) ==
  IF c \in Kept THEN c ELSE IF c \in DOMAIN Lowered THEN Lowered[c] ELSE "-"

Sanitize(product) == [i \in DOMAIN product |-> SanitizeChar(product[i])]

DayOf(t) == t \div DayTicks

\* The day file of an event: events/YYYY/MM/DD/<product>.jsonl
EventFile(e) == [day |-> DayOf(e.time), name |-> Sanitize(e.product)]

\* What Write demands of every event before it touches any file.
Valid(e) ==
  /\ e.id # Missing
  /\ e.type # Missing
  /\ e.time # ZeroTime
  /\ Sanitize(e.product) # <<>>

-----------------------------------------------------------------------------
(* skipDay: a day directory lies entirely outside the period.  The first   *)
(* test lets a directory that ends exactly at the start through.           *)

\* Prunes a day as soon as its first instant lies before the period.
SkipDayByItsStart(day, period) ==
  \/ period.start # ZeroTime /\ day * DayTicks < period.start
  \/ period.end # ZeroTime /\ day * DayTicks >= period.end

SkipDay(day, period) ==
  \/ period.start # ZeroTime /\ (day + 1) * DayTicks < period.start
  \/ period.end # ZeroTime /\ day * DayTicks >= period.end

=============================================================================
