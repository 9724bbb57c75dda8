--------------------------------- MODULE CsvInbox ---------------------------------
(***************************************************************************)
(* The CSV import and the backup: an uploaded archive brings boxes, items  *)
(* and agentic runs; its items go into the inbox directory, the watcher    *)
(* hands each file to handleCsv, which ingests it row by row and then      *)
(* moves it to the archive.  Several files are ingested at a time.  A      *)
(* backup is an archive that the data export writes and that is uploaded   *)
(* as any other.                                                           *)
(*                                                                         *)
(* The importer does not wait for its writes: runUpsertBox, persistItem    *)
(* and persistItemReference run on while the next row is read and the file *)
(* is archived.  Such a write is in pending until it has landed; an item   *)
(* whose box is not there, and any reference or item that fails, ends the  *)
(* server process, as a crash does.                                        *)
(*                                                                         *)
(* Articles and the sequence numbers of minted item ids are numbers; an    *)
(* item id is a pair of both.  A row that names no article or no id has    *)
(* Missing in its place, one without a box has NoBox.                      *)
(***************************************************************************)
EXTENDS Naturals, Sequences, FiniteSets, FiniteSetsExt

CONSTANTS
  Files,       \* uploads
  Content,     \* per upload: name (of items.csv), zero (stock), rows, boxes,
               \* runs (articles)
  Backups,     \* uploads whose content the data export writes
  Boxes,       \* box ids
  StockedIds,       \* item ids that are in the database before
  MaxArticle,  \* bound: the highest article number
  MaxSequence, \* bound: the highest sequence number of an item id
  MaxBusy,     \* bound: files in the inbox and exports at a time
  MaxPending,  \* bound: writes that are under way when one more is issued
  MaxCrashes   \* bound: faults: crashes, boxes and reads that fail

Articles == 1..MaxArticle
Missing == 0
Ids == Articles \X (1..MaxSequence)
NoId == <<Missing, Missing>>
NoBox == "none"
BadBox == "bad"
NoName == "none"
Row == [article : Articles \union {Missing}, id : Ids \union {NoId},
        units : 0..MaxSequence, bulk : BOOLEAN, box : Boxes \union {NoBox, BadBox}]

\* What is uploaded, what the export will write, and the stock before.
UploadsFit ==
  /\ Content = [f \in Files |-> Content[f]]
  /\ \A f \in Files :
       Content[f] \in [name : {Content[f].name}, zero : BOOLEAN, rows : Seq(Row),
                      boxes : SUBSET Boxes, runs : SUBSET Articles]
  /\ Backups \subseteq Files /\ \A f \in Backups : ~Content[f].zero
  /\ StockedIds \subseteq Ids
BoundsFit ==
  /\ {MaxArticle, MaxSequence, MaxCrashes} \subseteq Nat
  /\ {MaxBusy, MaxPending} \subseteq Nat \ {0}

ASSUME UploadsAssumption == UploadsFit
ASSUME BoundsAssumption == BoundsFit

VARIABLES
  content,  \* what is in each upload; a backup's grows as the export writes it
  place,    \* where a file is: offered, refused, taken, inbox, archived, removed;
            \* a backup begins unwritten, then has its items, then its boxes
  zeroed,   \* registered ingestion options (kept in memory): zeroStock
  runsFile, \* files whose agentic_runs.csv lies next to them in the inbox
  imp,      \* the ingestion of each file
  pending,  \* writes that were issued and have not landed
  boxes,    \* boxes that have a row
  refs,     \* item_refs: articles that have a row
  items,    \* items: the file and row that wrote each id last, NoOne if it is not there
  runs,     \* agentic_runs: articles that got a row from a file
  lost,     \* writes of archived files that a crash took
  crashes

files == <<content, place, zeroed, runsFile>>
database == <<boxes, refs, items, runs>>
vars == <<files, imp, pending, database, lost, crashes>>

NoOne == <<"none", 0>>
Before == <<"before", 0>>
Idle == [pc |-> "idle", row |-> 1, zero |-> FALSE, base |-> 0, minted |-> 0,
         sequence |-> [a \in Articles |-> 0], article |-> Missing, ids |-> <<>>]

Rows(f) == content[f].rows
Written(id) == items[id] # NoOne
ItemsOf(a) == {id \in Ids : id[1] = a /\ Written(id)}
Highest(S) == Max(S \union {0})

\* findArchiveDuplicate: by name or by checksum.
IsDuplicate(f) ==
  \E g \in Files : place[g] = "archived" /\ content[g].name = content[f].name

\* Writes that are issued and not waited for: a box, a reference (id is NoId
\* when it is the reference alone), and after it an item.
BoxWrite(f, n, box) ==
  [file |-> f, row |-> n, article |-> Missing, id |-> NoId, box |-> box, stage |-> "box"]

-----------------------------------------------------------------------------
(* The upload *)

Busy == {f \in Files : \/ place[f] = "inbox" /\ imp[f].pc \notin {"ended", "unread"}
                      \/ place[f] \in {"items", "boxes"}}

At(f, pc) == imp[f].pc = pc

\* Of the entries of an archive the first .csv of another name is items.csv.
HasItems(f) == content[f].name # NoName

\* ingestBoxesCsv, before anything is said of the items.
IngestBoxes(f) == {BoxWrite(f, 0, box) : box \in content[f].boxes}

\* The agentic runs wait in a file of their own for the items they belong to.
DeferRuns(f) ==
  runsFile' = IF content[f].runs = {} THEN runsFile ELSE runsFile \union {f}

Upload(f) ==
  /\ place[f] = "offered" /\ HasItems(f) /\ ~IsDuplicate(f)
  /\ Cardinality(Busy) < MaxBusy
  /\ place' = [place EXCEPT ![f] = "inbox"]
  /\ zeroed' = IF content[f].zero THEN zeroed \union {f} ELSE zeroed
  /\ pending' = pending \union IngestBoxes(f)
  /\ DeferRuns(f)
  /\ UNCHANGED <<content, imp, database, lost, crashes>>

\* The items of a duplicate are refused, but its boxes are taken and its
\* agentic runs are written to the inbox, next to a CSV file that is not there.
RefuseUpload(f) ==
  /\ place[f] = "offered" /\ HasItems(f) /\ IsDuplicate(f)
  /\ place' = [place EXCEPT ![f] = "refused"]
  /\ pending' = pending \union IngestBoxes(f)
  /\ DeferRuns(f)
  /\ UNCHANGED <<content, zeroed, imp, database, lost, crashes>>

\* Without items there is nothing to wait for: the runs are taken at once, as
\* far as their references are there.
UploadWithoutItems(f) ==
  /\ place[f] = "offered" /\ ~HasItems(f)
  /\ place' = [place EXCEPT ![f] = "taken"]
  /\ pending' = pending \union IngestBoxes(f)
  /\ runs' = runs \union (content[f].runs \intersect refs)
  /\ UNCHANGED <<content, zeroed, runsFile, imp, boxes, refs, items, lost, crashes>>

-----------------------------------------------------------------------------
(* handleCsv and ingestCsvFile *)

\* The duplicate stays where it is.
KeepDuplicate(f) ==
  /\ place[f] = "inbox" /\ At(f, "idle") /\ IsDuplicate(f)
  /\ zeroed' = zeroed \ {f}
  /\ imp' = [imp EXCEPT ![f].pc = "ended"]
  /\ UNCHANGED <<content, place, runsFile, pending, database, lost, crashes>>

RemoveDuplicate(f) ==
  /\ place[f] = "inbox" /\ At(f, "idle") /\ IsDuplicate(f)
  /\ place' = [place EXCEPT ![f] = "removed"]
  /\ zeroed' = zeroed \ {f}
  /\ UNCHANGED <<content, runsFile, imp, pending, database, lost, crashes>>

\* Of the options only zeroStock reaches the importer.
HandleCsv(f) ==
  /\ place[f] = "inbox" /\ At(f, "idle") /\ ~IsDuplicate(f)
  /\ imp' = [imp EXCEPT ![f].pc = "open", ![f].zero = f \in zeroed]
  /\ UNCHANGED <<files, pending, database, lost, crashes>>

\* A file that cannot be read stays in the inbox until the next start.
ReadFails(f) ==
  /\ At(f, "open") /\ crashes < MaxCrashes
  /\ crashes' = crashes + 1
  /\ imp' = [imp EXCEPT ![f].pc = "unread"]
  /\ zeroed' = zeroed \ {f}
  /\ UNCHANGED <<content, place, runsFile, pending, database, lost>>

\* The rows, and resolveArtikelNummerMintState, once for the whole file.
ReadCsv(f) ==
  /\ At(f, "open")
  /\ imp' = [imp EXCEPT ![f].pc = "row", ![f].base = Highest(refs)]
  /\ UNCHANGED <<files, pending, database, lost, crashes>>

Current(f) == Rows(f)[imp[f].row]
AtRow(f) == At(f, "row") /\ imp[f].row <= Len(Rows(f))

NextRow(f) == [imp[f] EXCEPT !.pc = "row", !.row = @ + 1, !.article = Missing, !.ids = <<>>]

\* A row whose box id has no valid form is left out as a whole.
SkipRow(f) ==
  /\ AtRow(f) /\ Current(f).box = BadBox
  /\ imp' = [imp EXCEPT ![f] = NextRow(f)]
  /\ UNCHANGED <<files, pending, database, lost, crashes>>

\* The article of the row, or the next number after those the file found.
Named(f) == Current(f).article
Article(f) == IF Named(f) # Missing THEN Named(f) ELSE imp[f].base + imp[f].minted + 1

Calm == Cardinality(pending) < MaxPending
AtGoodRow(f) == AtRow(f) /\ Current(f).box # BadBox /\ Article(f) \in Articles /\ Calm

\* The box of the row is written first.
RowBox(f) ==
  IF Current(f).box = NoBox THEN {} ELSE {BoxWrite(f, imp[f].row, Current(f).box)}

\* The ingestion goes on to next; a number the row minted is used up.
TakeRow(f, next) ==
  imp' = [imp EXCEPT ![f] =
            [next EXCEPT !.minted = IF Named(f) = Missing THEN @ + 1 ELSE @]]

\* resolveInstancePlan, after zeroStock has set the quantity: an item for every
\* piece, or one item for all of them.
Quantity(f) == IF imp[f].zero THEN 0 ELSE Current(f).units
Units(f) == IF Current(f).bulk THEN Min({1, Quantity(f)}) ELSE Quantity(f)

Write(f, article, id) ==
  [file |-> f, row |-> imp[f].row, article |-> article, id |-> id,
   box |-> Current(f).box, stage |-> "ref"]

\* Without stock a row creates the reference, if there is none.
PersistItemReference(f) ==
  /\ AtGoodRow(f) /\ Units(f) = 0
  /\ TakeRow(f, NextRow(f))
  /\ pending' = pending \union RowBox(f) \union
       (IF Article(f) \in refs THEN {} ELSE {Write(f, Article(f), NoId)})
  /\ UNCHANGED <<files, database, lost, crashes>>

\* Counting on from the highest sequence number in the database.
MintedAfterStored(f, n) ==
  LET stored == {id[2] : id \in ItemsOf(Article(f))}
  IN [i \in 1..n |-> <<Article(f), Highest(stored \union {imp[f].sequence[Article(f)]}) + i>>]

\* mintArtikelItemIdentifier counts from 1 in every file.
Minted(f, n) ==
  [i \in 1..n |-> <<Article(f), imp[f].sequence[Article(f)] + i>>]

\* The first id of a row: its own, else that of some item of the article (the
\* code takes the newest), else none.
BaseIds(f) ==
  LET id == Current(f).id
      stored == ItemsOf(Article(f))
  IN IF id # NoId THEN {<<id>>}
     ELSE IF stored = {} THEN {<<>>} ELSE {<<other>> : other \in stored}

\* The ids of a row's instances; all but the base id are minted.
ChooseIds(f) ==
  /\ AtGoodRow(f) /\ Units(f) > 0
  /\ \E base \in BaseIds(f) :
       LET minted == Minted(f, Units(f) - Len(base))
       IN /\ \A i \in DOMAIN minted : minted[i] \in Ids
          /\ TakeRow(f, [imp[f] EXCEPT !.pc = "write", !.article = Article(f), !.ids = base \o minted,
                                       !.sequence[Article(f)] = @ + Len(minted)])
  /\ pending' = pending \union RowBox(f)
  /\ UNCHANGED <<files, database, lost, crashes>>

\* One instance: the write is started, the event is logged and waited for.
PersistItem(f) ==
  /\ At(f, "write") /\ Calm
  /\ pending' = pending \union {Write(f, imp[f].article, Head(imp[f].ids))}
  /\ imp' = [imp EXCEPT ![f] =
       IF Len(imp[f].ids) = 1 THEN NextRow(f) ELSE [imp[f] EXCEPT !.ids = Tail(@)]]
  /\ UNCHANGED <<files, database, lost, crashes>>

\* The agentic runs of the file, as far as their references are there by now;
\* the rest of them is dropped with the file that held them.
IngestDeferredRuns(f) ==
  /\ At(f, "row") /\ imp[f].row > Len(Rows(f))
  /\ imp' = [imp EXCEPT ![f].pc = "archive"]
  /\ runs' = IF f \in runsFile THEN runs \union (content[f].runs \intersect refs) ELSE runs
  /\ runsFile' = runsFile \ {f}
  /\ UNCHANGED <<content, place, zeroed, pending, boxes, refs, items, lost, crashes>>

\* The options outlive the file.
ArchiveKeepingOptions(f) ==
  /\ At(f, "archive")
  /\ place' = [place EXCEPT ![f] = "archived"]
  /\ imp' = [imp EXCEPT ![f] = Idle]
  /\ UNCHANGED <<content, zeroed, runsFile, pending, database, lost, crashes>>

Archive(f) ==
  /\ At(f, "archive")
  /\ place' = [place EXCEPT ![f] = "archived"]
  /\ zeroed' = zeroed \ {f}
  /\ imp' = [imp EXCEPT ![f] = Idle]
  /\ UNCHANGED <<content, runsFile, pending, database, lost, crashes>>

-----------------------------------------------------------------------------
(* The writes, and what can go wrong *)

LandBox(w) ==
  /\ w.stage = "box"
  /\ boxes' = boxes \union {w.box}
  /\ pending' = pending \ {w}
  /\ UNCHANGED <<files, imp, refs, items, runs, lost, crashes>>

\* runUpsertBox reports a failure in its result, which nobody reads.
DropBox(w) ==
  /\ w.stage = "box" /\ crashes < MaxCrashes
  /\ crashes' = crashes + 1
  /\ pending' = pending \ {w} /\ lost' = lost \union {w}
  /\ UNCHANGED <<files, imp, database>>

\* The item's statement fails and the error is only logged.
LandReferenceAlone(w) ==
  /\ w.stage = "ref"
  /\ refs' = refs \union {w.article}
  /\ pending' = pending \ {w}
  /\ UNCHANGED <<files, imp, boxes, items, runs, lost, crashes>>

\* The reference first, in a statement of its own.
LandReference(w) ==
  /\ w.stage = "ref"
  /\ refs' = refs \union {w.article}
  /\ pending' = IF w.id = NoId THEN pending \ {w}
                ELSE (pending \ {w}) \union {[w EXCEPT !.stage = "item"]}
  /\ UNCHANGED <<files, imp, boxes, items, runs, lost, crashes>>

\* The box is a foreign key.
Placeable(w) == w.box = NoBox \/ w.box \in boxes

LandItem(w) ==
  /\ w.stage = "item" /\ Placeable(w)
  /\ items' = [items EXCEPT ![w.id] = <<w.file, w.row>>]
  /\ pending' = pending \ {w}
  /\ UNCHANGED <<files, imp, boxes, refs, runs, lost, crashes>>

\* The process ends and is started again: the watcher reports every file anew.
Restart ==
  /\ crashes' = Min({crashes + 1, MaxCrashes})
  /\ lost' = lost \union {w \in pending : place[w.file] \notin {"inbox", "removed"}}
  /\ pending' = {}
  /\ zeroed' = {}
  /\ imp' = [f \in Files |-> Idle]
  /\ UNCHANGED <<content, place, runsFile, database>>

\* By itself, or because a reference or an item failed for some other reason.
Crash == crashes < MaxCrashes /\ Restart

\* The item overtook its box, which is bounded as a crash, or its box failed.
RejectItem(w) ==
  /\ w.stage = "item" /\ ~Placeable(w)
  /\ crashes < MaxCrashes \/ \A box \in pending : box.stage # "box" \/ box.box # w.box
  /\ Restart

-----------------------------------------------------------------------------
(* The backup: export-data, one statement for each table *)

WriterOf(id) == content[items[id][1]].rows[items[id][2]]

\* The row of the backup for an item: its own id and what is in stock of it.
ExportedRow(id) ==
  IF items[id] = Before
  THEN [article |-> id[1], id |-> id, units |-> 1, bulk |-> FALSE, box |-> NoBox]
  ELSE [article |-> id[1], id |-> id, bulk |-> WriterOf(id).bulk, box |-> WriterOf(id).box,
        units |-> IF WriterOf(id).bulk THEN WriterOf(id).units ELSE 1]

\* listItemsForExport, the rows by article and id: an item comes after those of lower
\* articles, and of its own article those of lower numbers.
InOrder(id, other) == id[1] < other[1] \/ (id[1] = other[1] /\ id[2] < other[2])
Listed == {id \in Ids : Written(id)}
Earlier(id) == {other \in Listed : InOrder(other, id)}

\* stageItemsExport.
ExportedRows ==
  [n \in 1..Cardinality(Listed) |->
     ExportedRow(CHOOSE id \in Listed : Cardinality(Earlier(id)) = n - 1)]

ExportItems(b) ==
  /\ b \in Backups /\ place[b] = "unwritten"
  /\ Cardinality(Busy) < MaxBusy
  /\ content' = [content EXCEPT ![b].rows = ExportedRows]
  /\ place' = [place EXCEPT ![b] = "items"]
  /\ UNCHANGED <<zeroed, runsFile, imp, pending, database, lost, crashes>>

ExportBoxes(b) ==
  /\ place[b] = "items"
  /\ content' = [content EXCEPT ![b].boxes = boxes]
  /\ place' = [place EXCEPT ![b] = "boxes"]
  /\ UNCHANGED <<zeroed, runsFile, imp, pending, database, lost, crashes>>

\* The last table; then the archive is built and answered.
ExportRuns(b) ==
  /\ place[b] = "boxes"
  /\ content' = [content EXCEPT ![b].runs = runs]
  /\ place' = [place EXCEPT ![b] = "offered"]
  /\ UNCHANGED <<zeroed, runsFile, imp, pending, database, lost, crashes>>

Init ==
  /\ content = Content
  /\ place = [f \in Files |-> IF f \in Backups THEN "unwritten" ELSE "offered"]
  /\ zeroed = {} /\ runsFile = {} /\ pending = {} /\ runs = {} /\ lost = {}
  /\ imp = [f \in Files |-> Idle]
  /\ boxes = {}
  /\ refs = {id[1] : id \in StockedIds}
  /\ items = [id \in Ids |-> IF id \in StockedIds THEN Before ELSE NoOne]
  /\ crashes = 0

Ingest(f) ==
  \/ RemoveDuplicate(f) \/ HandleCsv(f) \/ ReadCsv(f)
  \/ SkipRow(f) \/ PersistItemReference(f) \/ ChooseIds(f) \/ PersistItem(f)
  \/ IngestDeferredRuns(f) \/ Archive(f)

Settle(w) == LandBox(w) \/ LandReference(w) \/ LandItem(w) \/ RejectItem(w)
Fault ==
  \/ Crash
  \/ \E w \in pending : DropBox(w)
  \/ \E f \in Files : ReadFails(f)
Export(b) == ExportItems(b) \/ ExportBoxes(b) \/ ExportRuns(b)

Progress == (\E f \in Files : Ingest(f)) \/ \E w \in pending : Settle(w)

Next ==
  \/ \E f \in Files : Upload(f) \/ RefuseUpload(f) \/ UploadWithoutItems(f)
  \/ \E b \in Backups : Export(b)
  \/ Progress
  \/ Fault

Spec == Init /\ [][Next]_vars

\* The event loop goes on while there is anything to do; uploads, exports and
\* faults may not come.
Fairness == WF_vars(Progress)
FairSpec == Spec /\ Fairness

-----------------------------------------------------------------------------
Places == {"unwritten", "items", "boxes", "offered", "refused", "taken",
           "inbox", "archived", "removed"}
Writes == [file : Files, row : Nat, article : Articles \union {Missing},
           id : Ids \union {NoId}, box : Boxes \union {NoBox}, stage : {"box", "ref", "item"}]

(* Type: the ingestion of a file is at a row of it, works only on a file that
   is in the inbox, and has options registered only then; an item's box has a
   row. *)
TypeOK ==
  /\ place \in [Files -> Places]
  /\ \A f \in Files :
       /\ content[f].rows \in Seq(Row) /\ content[f].boxes \subseteq Boxes
       /\ content[f].runs \subseteq Articles
  /\ zeroed \subseteq {f \in Files : place[f] = "inbox"} /\ runsFile \subseteq Files
  /\ \A f \in Files :
       /\ imp[f].pc \in {"idle", "ended", "unread", "open", "row", "write", "archive"}
       /\ imp[f].row \in 1..(Len(Rows(f)) + 1)
       /\ imp[f].article \in Articles \union {Missing}
       /\ ~At(f, "idle") => place[f] = "inbox"
  /\ pending \subseteq Writes /\ lost \subseteq Writes
  /\ boxes \subseteq Boxes /\ refs \subseteq Articles /\ runs \subseteq Articles
  /\ items \in [Ids -> (Files \X Nat) \union {Before, NoOne}]
  /\ \A id \in Ids : Written(id) => ExportedRow(id).box \in boxes \union {NoBox}
  /\ crashes \in 0..MaxCrashes

\* The units that the usable uploaded rows claim of an article; a file that is
\* uploaded again claims nothing more, and a backup nothing at all.
Claims(a) ==
  LET Claiming(f) == {i \in DOMAIN Rows(f) : Rows(f)[i].article = a /\ Rows(f)[i].box # BadBox}
      rows == UNION {{<<Rows(f), i, Rows(f)[i].units>> : i \in Claiming(f)} :
                        f \in Files \ Backups}
  IN MapThenSumSet(LAMBDA r : r[3], rows)

\* The items that rows naming the article left, and those that were there.
CountedOf(a) == {id \in ItemsOf(a) : items[id] = Before \/ WriterOf(id).article = a}

\* A row that names no article gets a new one each time it is read; the
\* backup then names it.
GivenArticles ==
  LET GivenBy(f) == {Rows(f)[i].article : i \in DOMAIN Rows(f)}
  IN ({id[1] : id \in StockedIds} \union UNION {GivenBy(f) : f \in Files \ Backups}) \ {Missing}

(* However often files are ingested again after crashes, uploaded twice,
   ingested side by side or restored from a backup, no article gets more items
   than it had and the rows that name it claim: minting that starts over finds
   its own ids again, and a backup names the ids it found. *)
ReimportAddsNothing ==
  \A a \in GivenArticles :
    Cardinality(CountedOf(a)) <= Cardinality({id \in StockedIds : id[1] = a}) + Claims(a)

(* The archive means done: the box of every row, the reference of every row
   that names its article and the item of every row that brings its id are in
   the database or on their way, unless a fault took the write; a backup that
   was restored is a file like any other. *)
ArchivedRowsLand ==
  \A f \in Files : place[f] = "archived" =>
    \A i \in {j \in DOMAIN Rows(f) : Rows(f)[j].box # BadBox} :
      LET row == Rows(f)[i] IN
      /\ row.box # NoBox =>
           row.box \in boxes \/ \E w \in pending \union lost : w.box = row.box
      /\ row.article # Missing =>
           row.article \in refs \/ \E w \in pending \union lost : w.article = row.article
      /\ row.article # Missing /\ row.id # NoId /\ row.units > 0 /\ ~content[f].zero =>
           Written(row.id) \/ \E w \in pending \union lost : w.id = row.id

(* The inbox drains: in the end no file is left in it but one that could not
   be read since the last start; each is archived or, when its like was
   archived before, removed. *)
InboxDrains ==
  <>[](\A f \in Files : place[f] = "inbox" => At(f, "unread"))

====
