-------------------------------- MODULE Pull --------------------------------
(***************************************************************************)
(* The pull of a source's table by keyset: rows are read in the order of   *)
(* (cursor column, tie breaker), ingested one by one, and the cursor of    *)
(* the connection is moved to the last one that went in.                   *)
(***************************************************************************)
EXTENDS Naturals, FiniteSets

CONSTANTS
    Runner,      \* requests POST /connections/:id/pull
    Rows,        \* [stamp, tie] of the source, fixed or still to come
    Poison,      \* rows that ingestion refuses for ever
    BatchSize,
    Precision,   \* units of the cursor column in one unit of the saved cursor
    MaxBreaks    \* bound on runs that die and on lock connections that break

VARIABLES
    written,     \* rows the source has by now
    savedCursor, \* pull_cursor; 0: never pulled
    lockedBy,    \* the runner whose session holds connector-pull:<id>
    runs,        \* per runner: [at, batch, reached]
    takenIn,     \* rows that were ingested
    breaks

pullVars == <<written, savedCursor, lockedBy, runs, takenIn, breaks>>

NoCursor == [stamp |-> 0, tie |-> 0]
IdleRun == [at |-> "idle", batch |-> {}, reached |-> NoCursor]

Before(a, b) == a.stamp < b.stamp \/ (a.stamp = b.stamp /\ a.tie < b.tie)
FirstOf(rs) == CHOOSE r \in rs : \A q \in rs : q = r \/ Before(r, q)

PullInit ==
    /\ written = {}
    /\ savedCursor = NoCursor
    /\ lockedBy = {}
    /\ runs = [p \in Runner |-> IdleRun]
    /\ takenIn = {}
    /\ breaks = 0

(* The source writes its rows in their order.                              *)
Write(r) ==
    /\ r \notin written /\ \A q \in Rows : Before(q, r) => q \in written
    /\ written' = written \cup {r}
    /\ UNCHANGED <<savedCursor, lockedBy, runs, takenIn, breaks>>

(* The cursor column comes from the driver as a Date, which keeps          *)
(* milliseconds, and is saved as its text.                                 *)
Saved(r) == [r EXCEPT !.stamp = (@ \div Precision) * Precision]

(* Mutant: the comparison of the column alone.                             *)
BeyondWithoutTie(cursor) == {r \in written : cursor.stamp < r.stamp}

(* (column, tie) > (cursor, tie).                                          *)
Beyond(cursor) == {r \in written : cursor = NoCursor \/ Before(cursor, r)}
Batch(cursor) ==
    {r \in Beyond(cursor) :
       Cardinality({q \in Beyond(cursor) : Before(q, r)}) < BatchSize}

(* pg_try_advisory_lock, then one SELECT of the source from the cursor.    *)
StartPull(p) ==
    /\ runs[p] = IdleRun /\ lockedBy = {}
    /\ lockedBy' = {p}
    /\ runs' = [runs EXCEPT ![p] =
                  [at |-> "ingesting", batch |-> Batch(savedCursor), reached |-> NoCursor]]
    /\ UNCHANGED <<written, savedCursor, takenIn, breaks>>

(* The earliest row of the batch goes in, or ends the loop.                *)
IngestNextRow(p) ==
    /\ runs[p].at = "ingesting" /\ runs[p].batch # {}
    /\ LET r == FirstOf(runs[p].batch)
       IN  IF r \in Poison
           THEN /\ runs' = [runs EXCEPT ![p].batch = {}]
                /\ UNCHANGED takenIn
           ELSE /\ takenIn' = takenIn \cup {r}
                /\ runs' = [runs EXCEPT ![p].batch = @ \ {r}, ![p].reached = r]
    /\ UNCHANGED <<written, savedCursor, lockedBy, breaks>>

(* The loop is over: the cursor moves to what was reached, if anything.    *)
SaveCursor(p) ==
    /\ runs[p].at = "ingesting" /\ runs[p].batch = {}
    /\ savedCursor' = IF runs[p].reached = NoCursor THEN savedCursor ELSE Saved(runs[p].reached)
    /\ runs' = [runs EXCEPT ![p] = IdleRun]
    /\ lockedBy' = lockedBy \ {p}
    /\ UNCHANGED <<written, takenIn, breaks>>

(* The process dies in the middle: what was ingested stays, the cursor was *)
(* not moved, the session and its lock are gone.                           *)
PullDies(p) ==
    /\ runs[p] # IdleRun /\ breaks < MaxBreaks
    /\ runs' = [runs EXCEPT ![p] = IdleRun]
    /\ lockedBy' = lockedBy \ {p}
    /\ breaks' = breaks + 1
    /\ UNCHANGED <<written, savedCursor, takenIn>>

(* The connection that holds the lock breaks; the run, which works on      *)
(* others, goes on and can meet a second one.                              *)
LockBreaks(p) ==
    /\ p \in lockedBy /\ breaks < MaxBreaks
    /\ lockedBy' = lockedBy \ {p}
    /\ breaks' = breaks + 1
    /\ UNCHANGED <<written, savedCursor, runs, takenIn>>

RunPull(p) == StartPull(p) \/ IngestNextRow(p) \/ SaveCursor(p)

PullNext ==
    \/ \E r \in Rows : Write(r)
    \/ \E p \in Runner : RunPull(p) \/ PullDies(p) \/ LockBreaks(p)

(* The pull has no scheduler: whoever operates the connection keeps asking *)
(* for it.                                                                 *)
PullSpec ==
    /\ PullInit /\ [][PullNext]_pullVars
    /\ WF_pullVars(\E p \in Runner : RunPull(p))

PullTypeOK ==
    /\ written \subseteq Rows /\ takenIn \subseteq written \ Poison
    /\ savedCursor \in [stamp : Nat, tie : Nat]
    /\ lockedBy \subseteq Runner /\ Cardinality(lockedBy) <= 1
    /\ \A p \in Runner : runs[p].batch \subseteq written
    /\ breaks \in 0..MaxBreaks

(* As long as someone pulls, every row before the first that ingestion     *)
(* refuses is ingested.                                                    *)
EveryRowIsPulled ==
    \A r \in Rows :
      (r \in written /\ \A q \in Poison : Before(r, q)) ~> (r \in takenIn)
=============================================================================
