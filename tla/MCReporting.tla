------------------------------ MODULE MCReporting ------------------------------
(* Small instances of Reporting: two clusters, of one attribute and of two,  *)
(* on one endpoint and a third on another; a subscription to all of the      *)
(* first endpoint, one to a single attribute, and two reads.                 *)
EXTENDS Reporting

CONSTANTS wide, narrow, reader, reader2

DataModel == << <<1, 1, 1>>, <<1, 2, 1>>, <<1, 2, 2>>, <<2, 1, 1>> >>

Paths == [h \in Handlers |->
    CASE h = wide   -> << <<1, 0, 0>> >>
      [] h = narrow -> << <<1, 2, 2>> >>
      [] h = reader -> << <<1, 2, 0>> >>
      [] h = reader2 -> << <<2, 1, 1>> >>]

OneByOne == {<<1, 1, 1>>, <<1, 2, 1>>, <<1, 2, 2>>, <<2, 1, 1>>}
================================================================================
