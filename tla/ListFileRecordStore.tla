------------------------ MODULE ListFileRecordStore ------------------------
(***************************************************************************)
(* The external record files of adapters/list_file_record_store.cpp: one   *)
(* headerless, page-aligned file per IVF list.  A file is a value          *)
(*                                                                         *)
(*   pages   number of whole pages                                         *)
(*   ragged  a partial page follows them (st_size % page_size # 0)         *)
(*   rec     the record in every slot; slots past the last whole page hold *)
(*           ZeroRecord, which is what a freshly extended page holds       *)
(*                                                                         *)
(* A file that does not exist is the file with no page.  The operators are *)
(* pure; ExternalListIndex owns the files and takes the steps one system   *)
(* call at a time.                                                         *)
(***************************************************************************)
EXTENDS Integers, FiniteSets

CONSTANTS
  RecordsPerPage,  \* records_per_page_: page_size / (4 + payload_bytes)
  IdLimit,         \* UINT32_MAX: Logical IDs are 0 .. IdLimit - 1
  Vecs,            \* vectors, each standing for its exact payload as well
  NoVec            \* the payload of a zeroed record lane

ASSUME RecordsPerPageAssumption == RecordsPerPage \in Nat \ {0}
ASSUME IdLimitAssumption == IdLimit \in Nat \ {0}
ASSUME NoVecAssumption == NoVec \notin Vecs

Ids == 0 .. (IdLimit - 1)

\* page_count(rows, records_per_page)
PageCount(rows) == (rows + RecordsPerPage - 1) \div RecordsPerPage

\* A list never holds more than IdLimit rows, so these slots are enough.
Slots == 0 .. (PageCount(IdLimit) * RecordsPerPage - 1)
PageOf(slot) == slot \div RecordsPerPage

Record == [id : Ids, vec : Vecs \cup {NoVec}]
ZeroRecord == [id |-> 0, vec |-> NoVec]

ListFile == [pages : Nat, ragged : BOOLEAN, rec : [Slots -> Record]]
EmptyFile == [pages |-> 0, ragged |-> FALSE,
              rec |-> [s \in Slots |-> ZeroRecord]]

\* ftruncate(fd, n * page_size)
TruncateFile(f, n) ==
  [pages |-> n, ragged |-> FALSE,
   rec |-> [s \in Slots |-> IF PageOf(s) < n THEN f.rec[s] ELSE ZeroRecord]]

(***************************************************************************)
(* append_records: the size check on open, the page loop's range, and one  *)
(* read-modify-write of page p that lays down the rows given for its slots *)
(* (rows maps a set of slots to records).                                  *)
(***************************************************************************)
AppendSizeOK(f, oldSize) == f.pages >= PageCount(oldSize) /\ ~f.ragged

AppendPages(oldSize, newSize) == PageOf(oldSize) .. (PageCount(newSize) - 1)

\* Mutant: the page is not read back before it is written.
WriteAppendPageBlind(f, p, rows) ==
  [pages |-> IF p < f.pages THEN f.pages ELSE p + 1, ragged |-> FALSE,
   rec |-> [s \in Slots |-> IF PageOf(s) # p THEN f.rec[s]
                            ELSE IF s \in DOMAIN rows THEN rows[s]
                            ELSE ZeroRecord]]

WriteAppendPage(f, p, rows) ==
  [pages |-> IF p < f.pages THEN f.pages ELSE p + 1, ragged |-> FALSE,
   rec |-> [s \in Slots |-> IF PageOf(s) = p /\ s \in DOMAIN rows
                            THEN rows[s] ELSE f.rec[s]]]

\* pwrite_exact gave up inside page p: an existing page keeps a prefix of the
\* new rows (those below slot k), a new one leaves the file ragged.
TearAppendPage(f, p, rows, k) ==
  IF p < f.pages
  THEN WriteAppendPage(f, p, [s \in {r \in DOMAIN rows : r < k} |-> rows[s]])
  ELSE [f EXCEPT !.ragged = TRUE]

(***************************************************************************)
(* prepare_moves_and_truncate and commit_prepared_mutation: the exact size *)
(* both demand, the pages the commit rewrites, and the rewrite of page p,  *)
(* which carries the moved rows and clears the stale lanes of the tail.    *)
(***************************************************************************)
MutationSizeOK(f, oldSize) == f.pages = PageCount(oldSize) /\ ~f.ragged

MutationPages(newSize, rows) ==
  {PageOf(s) : s \in DOMAIN rows} \cup
  (IF newSize % RecordsPerPage # 0 THEN {PageOf(newSize)} ELSE {})

WriteMutatedPage(f, p, rows, newSize) ==
  [f EXCEPT !.rec = [s \in Slots |->
     IF PageOf(s) # p THEN f.rec[s]
     ELSE IF s \in DOMAIN rows THEN rows[s]
     ELSE IF s >= newSize THEN ZeroRecord ELSE f.rec[s]]]

TearMutatedPage(f, p, rows, newSize, k) ==
  [f EXCEPT !.rec = [s \in Slots |->
     IF s < k THEN WriteMutatedPage(f, p, rows, newSize).rec[s] ELSE f.rec[s]]]
=============================================================================
