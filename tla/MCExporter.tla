------------------------------ MODULE MCExporter ------------------------------
(* Instances of Exporter for TLC.  The names "q" and "p" stand for names that
   differ in a bad character only, "q1" for one that looks numbered. *)
EXTENDS Exporter

CONSTANTS n1, n2, n3, b1, b2, b3

MCSafe == [q |-> <<"s">>, p |-> <<"s">>, q1 |-> <<"s", 1>>, Trash |-> <<"Trash">>]

\* Two names that become one; a notebook named like the trash; notes that are
\* filed under a notebook without a row.
MCNotebookTables ==
    {[b \in Notebooks |-> [name |-> IF b = b1 THEN "q" ELSE "p", stack |-> None]],
     [b \in Notebooks |-> [name |-> IF b = b1 THEN "Trash" ELSE "q1",
                           stack |-> IF b = b1 THEN None ELSE "p"]],
     [b \in Notebooks |-> IF b = b1 THEN [name |-> "q", stack |-> "p"] ELSE None]}

\* A content that would close its section twice.
MCContents == {<<"prolog", "x", "]", "]", ">", "cdata", "]", "]">>}

MCRows(guids, titles, active) ==
    [notebook_guid : guids, title : titles, is_active : active,
     raw_note : MCContents \cup {Corrupt}]

MCNoteTables ==
    {[n \in Notes |-> IF n = n1 THEN row1 ELSE row2] :
        row1 \in MCRows({b1}, {"q"}, {TRUE}), row2 \in MCRows(Notebooks, {"p", "q1"}, BOOLEAN) \cup {None}}

MCPlainContents == {<<"x">>}

\* One note in each of two notebooks whose names become one, and one in a
\* notebook without a row.
MCLosingNotebooks ==
    {[b \in {b1, b2, b3} |-> IF b = b3 THEN None
                            ELSE [name |-> IF b = b1 THEN "q" ELSE "p", stack |-> None]]}

MCLosingNotes ==
    {[n \in {n1, n2, n3} |->
        [notebook_guid |-> CASE n = n1 -> b1 [] n = n2 -> b2 [] n = n3 -> b3,
         title |-> "q1", is_active |-> TRUE, raw_note |-> <<"x">>]]}

\* An empty directory, or one with a file of an earlier export.
MCFileSystems ==
    {<<>>, [f \in {[dirs |-> <<>>, name |-> <<"s">>],
                   [dirs |-> <<<<"s">>>>, name |-> <<"s">>]}
                |-> [notes |-> <<>>, tail |-> TRUE]]}

\* Around the days on which the two branches and the leap years change.
MCTimes ==
    [day : {-719163, -1, 47541, 157113, 376200, 2932896, 2932897}, sec : {3}]
============================================================================
