--------------------------------- MODULE CsvFiles ---------------------------------
(***************************************************************************)
(* Small files for CsvInbox: one with a row that brings its id and a box,  *)
(* another of the same name and without stock with a row whose box is      *)
(* unusable and one that names nothing, an archive without items, and a    *)
(* backup.  0 and <<0, 0>> stand for an article and an id that a row does  *)
(* not name.                                                               *)
(***************************************************************************)
EXTENDS Naturals, TLC

MCFiles == {"a", "again", "boxes", "backup"}
MCBackups == {"backup"}
MCBoxes == {"x"}
MCStock == {<<1, 2>>}

CsvRow(a, id, units, bulk, box) ==
  [article |-> a, id |-> id, units |-> units, bulk |-> bulk, box |-> box]
CsvFile(name, zero, rows, withBoxes, deferred) ==
  [name |-> name, zero |-> zero, rows |-> rows, boxes |-> withBoxes, runs |-> deferred]
MCContent ==
  "a" :> CsvFile("a", FALSE, <<CsvRow(1, <<1, 1>>, 2, FALSE, "x")>>, {}, {1})
  @@ "again" :> CsvFile("a", TRUE, <<CsvRow(1, <<0, 0>>, 1, FALSE, "bad"),
                                     CsvRow(0, <<0, 0>>, 1, TRUE, "none")>>, {}, {})
  @@ "boxes" :> CsvFile("none", FALSE, <<>>, {}, {1})
  @@ "backup" :> CsvFile("backup", FALSE, <<>>, {}, {})
\* Those with items, and the backup.
ItemFiles == MCFiles \ {"boxes"}
ItemContent == [f \in ItemFiles |-> MCContent[f]]
==============================================================================
