--------------------------------- MODULE MCCsvInbox ---------------------------------
(* The inbox with small files. *)
EXTENDS CsvInbox, CsvFiles
=====================================================================================
