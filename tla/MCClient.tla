------------------------------ MODULE MCClient ------------------------------
(***************************************************************************)
(* Instances of Client.  The numbers begin before and inside the windows   *)
(* that read as a header, at both ends of the range, and the times are an  *)
(* ordinary one, two on either side of the schema test, and one that reads *)
(* as a header with the template of a parser.                              *)
(***************************************************************************)
EXTENDS Client

MCFirstNumbers == {1, 65535, 13 * 65536 - 1, 13 * 65536 + 998, 51 * 65536 - 64537,
                   51 * 65536}
MCTimes == {<<4660, 22136, 5000, 6040>>, <<999, 50, 999, 6040>>,
            <<1, 1, 1000, 6040>>, <<1, 13, 0, 6040>>}
MCDepths == {0, 20}
=============================================================================
