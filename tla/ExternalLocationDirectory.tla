--------------------- MODULE ExternalLocationDirectory ---------------------
(***************************************************************************)
(* locations.bin of adapters/external_location_directory.cpp: the map from *)
(* a Logical ID to the list and offset of its record.  A directory is      *)
(*                                                                         *)
(*   pages   number of whole pages                                         *)
(*   ragged  a partial page follows them                                   *)
(*   loc     the entry of every ID; entries past the last whole page are   *)
(*           tombstones, which is what write_batch fills a new page with   *)
(***************************************************************************)
EXTENDS ListFileRecordStore

CONSTANTS
  NumLists,        \* nlist
  EntriesPerPage   \* page_size / sizeof(DiskLocation)

ASSUME NumListsAssumption == NumLists \in 1 .. IdLimit
ASSUME EntriesPerPageAssumption == EntriesPerPage \in Nat \ {0}

Lists == 0 .. (NumLists - 1)
Locations == Lists \X Slots

\* DiskLocation::tombstone(): both fields UINT32_MAX, which is no list.
Tombstone == <<IdLimit, IdLimit>>

EntryPage(id) == id \div EntriesPerPage

Directory == [pages : Nat, ragged : BOOLEAN,
              loc : [Ids -> Locations \cup {Tombstone}]]
EmptyDirectory == [pages |-> 0, ragged |-> FALSE,
                   loc |-> [i \in Ids |-> Tombstone]]

\* read_batch returns an entry for id (it throws when the file is not page
\* aligned or the entry's page is past its end).
InDirectory(d, id) == ~d.ragged /\ EntryPage(id) < d.pages

\* The entries of page p whose ID satisfies the update function u (a function
\* from a set of IDs to locations) are replaced; pages skipped by a write past
\* the end would read as zeroes.
WriteEntryPage(d, p, u) ==
  [pages |-> IF p < d.pages THEN d.pages ELSE p + 1, ragged |-> FALSE,
   loc |-> [i \in Ids |->
     IF EntryPage(i) = p /\ i \in DOMAIN u THEN u[i]
     ELSE IF d.pages <= EntryPage(i) /\ EntryPage(i) < p THEN <<0, 0>>
     ELSE d.loc[i]]]

\* pwrite_exact gave up inside page p: an existing page keeps a prefix of the
\* new entries (those below k), a new one leaves the file ragged.
TearEntryPage(d, p, u, k) ==
  IF p < d.pages
  THEN WriteEntryPage(d, p, [i \in {j \in DOMAIN u : j < k} |-> u[i]])
  ELSE [d EXCEPT !.ragged = TRUE]
=============================================================================
