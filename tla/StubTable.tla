----------------------------- MODULE StubTable ------------------------------
(***************************************************************************)
(* What the mapping store promises its callers: a table from stub ids to   *)
(* definitions, each entry stamped with the position it was first created  *)
(* at.  Overwriting an id, by POST or by PUT, keeps the stamp; deleting an *)
(* id and creating it again gives a new one, never used before.  Each      *)
(* operation takes effect in one step.                                     *)
(***************************************************************************)
EXTENDS Integers

CONSTANTS
    Ids,            \* stub ids
    Definitions     \* what a mapping document says, its id apart

VARIABLES
    table,          \* id -> [def, sequence], for the stubs that exist
    issued          \* the last sequence number given out

tableVars == <<table, issued>>

SequenceNumbers == Nat \ {0}
Entry == [def : Definitions, sequence : SequenceNumbers]

\* A stub as handlers hold it: an entry and its id.
Stub == [id : Ids, def : Definitions, sequence : SequenceNumbers]
StubOf(tbl, i) == [id |-> i, def |-> tbl[i].def, sequence |-> tbl[i].sequence]
StubsOf(tbl) == {StubOf(tbl, i) : i \in DOMAIN tbl}

With(tbl, i, entry) ==
    [j \in DOMAIN tbl \cup {i} |-> IF j = i THEN entry ELSE tbl[j]]
Without(tbl, i) == [j \in DOMAIN tbl \ {i} |-> tbl[j]]

EmptyTable == [i \in {} |-> {}]

-----------------------------------------------------------------------------
TableInit ==
    /\ table = EmptyTable
    /\ issued = 0

Insert(i, d) ==
    /\ i \notin DOMAIN table
    /\ issued' = issued + 1
    /\ table' = With(table, i, [def |-> d, sequence |-> issued + 1])

Overwrite(i, d) ==
    /\ i \in DOMAIN table
    /\ table' = With(table, i, [def |-> d, sequence |-> table[i].sequence])
    /\ UNCHANGED issued

Delete(i) ==
    /\ i \in DOMAIN table
    /\ table' = Without(table, i)
    /\ UNCHANGED issued

TableNext ==
    \E i \in Ids :
        \/ \E d \in Definitions : Insert(i, d) \/ Overwrite(i, d)
        \/ Delete(i)

TableSpec == TableInit /\ [][TableNext]_tableVars
=============================================================================
