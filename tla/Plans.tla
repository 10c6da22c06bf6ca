------------------------------- MODULE Plans -------------------------------
(***************************************************************************)
(* The order in which the executors of a statement access the records of a *)
(* table.  scan is the table's records in the order RmScan visits them,    *)
(* matches the ones the WHERE condition selects.                           *)
(***************************************************************************)
EXTENDS Sequences, SequencesExt

\* SELECT: SeqScanExecutor reads each record for its condition, and a selected
\* one again in Next before it goes on to the next.
Select(scan, matches) ==
    FoldLeft(LAMBDA acc, r : acc \o IF r \in matches THEN <<<<"read", r>>, <<"read", r>>>>
                                                     ELSE <<<<"read", r>>>>,
             <<>>, scan)

\* UPDATE: Portal::start collects the rids the scan selects, then
\* UpdateExecutor reads and writes each of them.
Update(scan, matches) ==
    FoldLeft(LAMBDA acc, r : Append(acc, <<"read", r>>), <<>>, scan) \o
    FoldLeft(LAMBDA acc, r : IF r \in matches THEN acc \o <<<<"read", r>>, <<"write", r>>>> ELSE acc,
             <<>>, scan)

\* The plans of every SELECT and UPDATE on a table with the given scan order.
Plans(scan) ==
    UNION {{Select(scan, m), Update(scan, m)} : m \in SUBSET {scan[i] : i \in 1 .. Len(scan)}}
=============================================================================
