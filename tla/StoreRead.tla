------------------------------ MODULE StoreRead ------------------------------
(***************************************************************************)
(* Store.Read over the files the writers leave: the walk over the day      *)
(* directories, the pruning by period, the filter by product and the       *)
(* decoding of each line.  A query is a record with a period and a         *)
(* product, <<>> when every product is asked for.  The final sort orders   *)
(* what is returned and is left out.                                       *)
(***************************************************************************)
EXTENDS EventStore

ASSUME TimesAssumption == \A e \in Events : e.time \in Int

\* The files the walk opens.  The file name is compared with the product as
\* the caller wrote it.
Opened(q) ==
  {f \in DayFiles : /\ ~SkipDay(f.day, q.period)
                    /\ q.product # <<>> => f.name = q.product}

\* The lines of a file that decode, and of them the ones in the period.
ReadFile(f, q) ==
  {<<f, i>> : i \in {j \in DOMAIN file[f].lines : /\ file[f].lines[j] # Damaged
                                                  /\ Contains(q.period, file[f].lines[j].time)}}

\* Every place whose event Read returns.
ReadPlaces(q) == UNION {ReadFile(f, q) : f \in Opened(q)}

EventAt(place) == file[place[1]].lines[place[2]]

-----------------------------------------------------------------------------
(* Queries a caller can make: every period, and every product there is.    *)

Ticks == {e.time : e \in Events} \cup {ZeroTime}
Periods == [start : Ticks, end : Ticks]

\* The names of files, and <<>> for every product.
FileNames == {f.name : f \in DayFiles} \cup {<<>>}

\* "Day directories entirely outside the period are pruned", and only those: for
\* every period, wherever it begins and ends in a day, and for every product that
\* names a file, Read returns each event on disk that is of the product and in the
\* period, and no other.
PruningKeepsPeriod ==
  \A p \in Periods, name \in FileNames :
    {EventAt(x) : x \in ReadPlaces([period |-> p, product |-> name])} =
    {EventAt(x) : x \in
       {y \in UNION {{f} \X DOMAIN file[f].lines : f \in DayFiles} :
          /\ EventAt(y) # Damaged /\ Contains(p, EventAt(y).time)
          /\ name # <<>> => Sanitize(EventAt(y).product) = name}}

=============================================================================
