--------------------------- MODULE MCSoftwareList ---------------------------
(* Four titles, two to a page: a full search takes three requests, the last    *)
(* one empty.  Two orders and a search that one page satisfies; one scan may   *)
(* swap two titles and remove a third.                                         *)
EXTENDS SoftwareList

MCTerms == {[sort |-> "devices", matches |-> 1..4], [sort |-> "name", matches |-> 1..4],
            [sort |-> "devices", matches |-> {2}]}
MCTables == {<<1, 2, 2, 1>>, <<2, 1, 2, 0>>}
=============================================================================
