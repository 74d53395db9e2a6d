---------------------------- MODULE MCConnection ----------------------------
(* A small instance of Connection.                                         *)
EXTENDS Connection

(* Whatever is read along with other clients' traffic ends the same way.   *)
ManyContents ==
    {read \in SUBSET (Messages \ {"other"}) : "addressed" \in read => Cardinality(read) <= 2}
        \cup {{"other"}}
=============================================================================
