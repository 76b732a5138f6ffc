-------------------------------- MODULE Harvest --------------------------------
(***************************************************************************)
(* One import: a source of any kind is read, its records turned into       *)
(* documents, and the documents sent in chunks to the backend.             *)
(*                                                                         *)
(* An OAI-PMH source is read page by page over the network.  Its endpoint  *)
(* is another installation of this program, whose index changes while it   *)
(* is listed, or a foreign one, which pages in the same way but may hand   *)
(* out a page again, a record without a header, or an answer without a     *)
(* list.  A file is read whole and its records come as one page.           *)
(*                                                                         *)
(* Records are numbered in the order of their _id.  RecordDocs says which  *)
(* documents they make; a document is the record it comes from and its     *)
(* place among the documents of that record.  What the import counts is    *)
(* left out (ImportRuns has the counts of a run).                          *)
(***************************************************************************)
EXTENDS Integers, Sequences, FiniteSets, SequencesExt, RecordDocs

CONSTANTS
  Kinds,      \* the kinds of source configured
  Records,    \* numbers of the records
  Described,  \* record -> what the importers look at in it
  Garbled,    \* records whose bytes do not parse
  Unmappable, \* records for which SchemaMapper.map_record raises
  Headless,   \* records that a foreign endpoint lists without a header
  PageSize,   \* DEFAULT_PAGE_SIZE of the provider
  ChunkSize,  \* documents per bulk request
  MaxPages,   \* ceiling of pages of a harvest
  MaxChanges  \* bound: changes of the index of the endpoint

ASSUME KindsAssumption == Kinds \subseteq OaiKinds \cup FileKinds
ASSUME RecordsAssumption ==
  /\ Records \subseteq Nat \ {0} /\ IsFiniteSet(Records)
  /\ Described \in [Records -> RecordType]
  /\ Garbled \subseteq Records /\ Unmappable \subseteq Records
  /\ Headless \subseteq Records
\* What the walk of a finding aid computes are ids, which may well be the same ones.
ASSUME IdsAssumption ==
  Kinds \cap EadKinds # {} => \A r \in Records : EadIds(Described[r]) \in Seq(Id)
ASSUME SizesAssumption ==
  /\ PageSize \in Nat \ {0} /\ ChunkSize \in Nat \ {0}
  /\ MaxPages \in Nat \ {0} /\ MaxChanges \in Nat

None == 0
NoDoc == <<None, None>>

\* This program lists no deleted records and none without an id; a finding aid is a file.
Sources(k, isForeign) ==
  CASE k = "ead_file" -> {{r} : r \in Records}
    [] k \in OaiKinds /\ ~isForeign ->
         SUBSET {r \in Records : ~Described[r].deleted /\ Described[r].first # NoId}
    [] OTHER -> SUBSET Records

VARIABLES
  kind,      \* the kind of the source
  docs,      \* record -> the ids of the documents that its importer makes of it
  index,     \* the records of the endpoint, or of the file
  foreign,   \* the endpoint is not this program
  at,        \* where the import stands
  cursor,    \* the record the next page starts after; None for the first page
  pages,     \* pages fetched
  page,      \* documents of the page not yet in a chunk
  more,      \* the page came with a resumption token
  cut,       \* history: an answer without a list has ended the reading
  chunk,     \* documents not yet sent
  target,    \* the backend: id -> the document that has it, or NoDoc
  steady,    \* history: records that have been in the index since the import began
  listed,    \* history: record -> how often it was on a page, 2 for more than once
  refused,   \* history: documents the backend refused
  changes

vars == <<kind, docs, index, foreign, at, cursor, pages, page, more, cut, chunk, target, steady,
          listed, refused, changes>>

IsOai == kind \in OaiKinds
Ids == UNION {Range(docs[r]) : r \in Records}
DocumentsOf(found) == UNION {{<<r, j>> : j \in DOMAIN docs[r]} : r \in found}
Documents == DocumentsOf(Records)
Over == at \in {"done", "failed", "raised"}

Init ==
  /\ kind \in Kinds
  /\ docs = [r \in Records |-> DocIds(kind, Described[r])]
  /\ foreign \in (IF IsOai THEN BOOLEAN ELSE {FALSE})
  /\ index \in Sources(kind, foreign)
  /\ at = "fetching"
  /\ cursor = None
  /\ pages = 0
  /\ page = {}
  /\ more = FALSE
  /\ cut = FALSE
  /\ chunk = <<>>
  /\ target = [id \in Ids |-> NoDoc]
  /\ steady = index
  /\ listed = [r \in Records |-> 0]
  /\ refused = {}
  /\ changes = 0

-----------------------------------------------------------------------------
(* The endpoint *)

\* The index changes between two pages.
AddRecord ==
  /\ IsOai /\ ~Over /\ changes < MaxChanges
  /\ \E r \in Records \ index : index' = index \cup {r}
  /\ index' \in Sources(kind, foreign)
  /\ changes' = changes + 1
  /\ UNCHANGED <<kind, docs, foreign, at, cursor, pages, page, more, cut, chunk, target, steady,
                 listed, refused>>

RemoveRecord ==
  /\ IsOai /\ ~Over /\ changes < MaxChanges
  /\ \E r \in index : index' = index \ {r} /\ steady' = steady \ {r}
  /\ changes' = changes + 1
  /\ UNCHANGED <<kind, docs, foreign, at, cursor, pages, page, more, cut, chunk, target, listed,
                 refused>>

\* Mutant: pages by offset, as translate_query does without a cursor.
SearchPageByOffset(c) ==
  {r \in index : Cardinality({s \in index : s < r}) \in pages * PageSize .. (pages + 1) * PageSize - 1}

\* _search_page: the first PageSize records after the cursor in the order of the sort,
\* which is that of _id as every record has the same score.
SearchPage(c) ==
  {r \in index : r > c /\ Cardinality({s \in index : c < s /\ s < r}) < PageSize}

\* Mutant: a token only if the page were fuller than full.
HasNextStrict(found) == Cardinality(found) > PageSize

\* A full page has a token, also when nothing follows it.
HasNext(found) == Cardinality(found) >= PageSize

\* _verb_list answers with records, not with an error: of the envelope (another format
\* than plain Dublin Core, nothing at all to list) or of the request (a record that
\* cannot be mapped is a 502 for the whole page).
Lists(found) ==
  /\ kind = "oaipmh"
  /\ found # {} \/ cursor # None
  /\ found \cap Unmappable = {}

\* Documents are read record by record, and those of a record in order.
Before(d, e) == d[1] < e[1] \/ (d[1] = e[1] /\ d[2] < e[2])
FirstDoc(documents) == CHOOSE d \in documents : \A e \in documents \ {d} : Before(d, e)

IdOf(document) == docs[document[1]][document[2]]

-----------------------------------------------------------------------------
(* The import *)

\* Mutant: the harvest goes on for as long as there are tokens.
UnderCeilingAlways == TRUE

UnderCeiling == pages < MaxPages

\* The documents of a page, or of a file, are read next.
Reads(documents, found) ==
  /\ page' = documents
  /\ listed' = [r \in Records |-> IF r \in found /\ listed[r] < 2 THEN listed[r] + 1 ELSE listed[r]]
  /\ at' = "reading"

\* A record without a header is passed over.
Headed(found) == IF foreign THEN found \ Headless ELSE found

\* iter_records: a request and its answer.  The token of the answer stands for the last
\* record of the page; that of a foreign endpoint perhaps for this same page.
FetchPage ==
  /\ at = "fetching" /\ IsOai /\ UnderCeiling
  /\ LET found == SearchPage(cursor) IN
     /\ foreign \/ Lists(found)
     /\ found \cap Garbled = {}
     /\ Reads(DocumentsOf(Headed(found)), Headed(found))
     /\ more' = HasNext(found)
     /\ \/ cursor' = IF found = {} THEN cursor
                     ELSE CHOOSE last \in found : \A r \in found : r <= last
        \/ foreign /\ cursor' = cursor
  /\ pages' = IF pages < MaxPages THEN pages + 1 ELSE pages
  /\ UNCHANGED <<kind, docs, index, foreign, cut, chunk, target, steady, refused, changes>>

\* The answer is OAI-PMH, no error, and has no ListRecords: the reading is over, the last
\* chunk is sent and the harvest has succeeded.
FetchNothing ==
  /\ at = "fetching" /\ IsOai /\ UnderCeiling /\ foreign
  /\ Reads({}, {})
  /\ more' = FALSE /\ cut' = TRUE
  /\ pages' = IF pages < MaxPages THEN pages + 1 ELSE pages
  /\ UNCHANGED <<kind, docs, index, foreign, cursor, chunk, target, steady, refused, changes>>

\* No answer, an HTTP error, XML that is not, an OAI-PMH error, a file that is not there or
\* cannot be read: nothing is tried again, and the documents of the last, incomplete chunk
\* are dropped.
FetchFails ==
  /\ at = "fetching"
  /\ at' = "failed"
  /\ UNCHANGED <<kind, docs, index, foreign, cursor, pages, page, more, cut, chunk, target,
                 steady, listed, refused, changes>>

\* The safety ceiling.
TooManyPages ==
  /\ at = "fetching" /\ IsOai /\ ~UnderCeiling
  /\ at' = "failed"
  /\ UNCHANGED <<kind, docs, index, foreign, cursor, pages, page, more, cut, chunk, target,
                 steady, listed, refused, changes>>

FileRead == UNCHANGED <<kind, docs, index, foreign, cursor, pages, more, cut, chunk, target, steady,
                        refused, changes>>

\* A MARC file is split at its record terminators and a record that does not parse is
\* skipped.
ParsedMarc == index \ Garbled

\* A file of XML is one document: one record that does not parse takes the others with it
\* (FetchFails).
XmlParses == index \cap Garbled = {}

ReadMarc ==
  /\ at = "fetching" /\ kind = "marc_file"
  /\ Reads(DocumentsOf(ParsedMarc), ParsedMarc)
  /\ FileRead

ReadLido ==
  /\ at = "fetching" /\ kind = "lido_file"
  /\ XmlParses
  /\ Reads(DocumentsOf(index), index)
  /\ FileRead

ReadMarcXml ==
  /\ at = "fetching" /\ kind = "marcxml_file"
  /\ XmlParses
  /\ Reads(DocumentsOf(index), index)
  /\ FileRead

\* An EAD file is one finding aid.
ReadEad ==
  /\ at = "fetching" /\ kind = "ead_file"
  /\ XmlParses
  /\ Reads(DocumentsOf(index), index)
  /\ FileRead

\* CSV: bytes that do not decode are replaced, and short rows padded.
ReadCsv ==
  /\ at = "fetching" /\ kind = "csv_file"
  /\ Reads(DocumentsOf(index), index)
  /\ FileRead

\* The chunk is sent with the document that fills it.
ChunkIsFull == Len(chunk) + 1 >= ChunkSize

\* A document joins the chunk.
AppendDoc ==
  /\ at = "reading" /\ page # {}
  /\ chunk' = Append(chunk, FirstDoc(page))
  /\ page' = page \ {FirstDoc(page)}
  /\ at' = IF ChunkIsFull THEN "sending" ELSE "reading"
  /\ UNCHANGED <<kind, docs, index, foreign, cursor, pages, more, cut, target, steady, listed,
                 refused, changes>>

\* The page is exhausted: the next one, the last chunk, or the end.
PageEnds ==
  /\ at = "reading" /\ page = {}
  /\ at' = CASE more -> "fetching" [] ~more /\ chunk # <<>> -> "sending" [] OTHER -> "done"
  /\ UNCHANGED <<kind, docs, index, foreign, cursor, pages, page, more, cut, chunk, target,
                 steady, listed, refused, changes>>

\* The backend after it indexed the documents at these places of the chunk, in order.
Indexed(places) ==
  [id \in Ids |->
     LET mine == {i \in places : IdOf(chunk[i]) = id}
     IN IF mine = {} THEN target[id] ELSE chunk[CHOOSE i \in mine : \A j \in mine : j <= i]]

\* bulk_index returns (ingested, failed): each document is indexed or refused.
Bulk ==
  /\ at = "sending"
  /\ \E places \in SUBSET DOMAIN chunk :
       /\ target' = Indexed(places)
       /\ refused' = refused \cup {chunk[i] : i \in DOMAIN chunk \ places}
  /\ chunk' = <<>>
  /\ at' = "reading"
  /\ UNCHANGED <<kind, docs, index, foreign, cursor, pages, page, more, cut, steady, listed,
                 changes>>

\* bulk_index raises, the documents indexed or not.  An import of a file passes on what is
\* neither an AppError nor an OSError, a harvest nothing.
BulkRaises ==
  /\ at = "sending"
  /\ \E places \in {{}, DOMAIN chunk} : target' = Indexed(places)
  /\ \/ at' = "failed"
     \/ ~IsOai /\ at' = "raised"
  /\ UNCHANGED <<kind, docs, index, foreign, cursor, pages, page, more, cut, chunk, steady,
                 listed, refused, changes>>

Ended == Over /\ UNCHANGED vars

Import ==
  \/ FetchPage \/ FetchNothing \/ FetchFails \/ TooManyPages \/ ReadMarc \/ ReadLido \/ ReadMarcXml
  \/ ReadEad \/ ReadCsv \/ AppendDoc \/ PageEnds \/ Bulk \/ BulkRaises

Next == AddRecord \/ RemoveRecord \/ Import \/ Ended

\* The import runs in a thread of its own, and every request it makes has a timeout.
Fairness == WF_vars(Import)

Spec == Init /\ [][Next]_vars /\ Fairness

-----------------------------------------------------------------------------
(* Properties *)

\* Every variable keeps to its values; a chunk never exceeds its size (ingest).
TypeOK ==
  /\ kind \in Kinds /\ docs \in [Records -> Seq(Id)] /\ index \in SUBSET Records /\ foreign \in BOOLEAN
  /\ at \in {"fetching", "reading", "sending", "done", "failed", "raised"}
  /\ cursor \in Records \cup {None} /\ pages \in 0..MaxPages
  /\ page \in SUBSET Documents /\ more \in BOOLEAN /\ cut \in BOOLEAN
  /\ chunk \in Seq(Documents) /\ Len(chunk) <= ChunkSize
  /\ target \in [Ids -> Documents \cup {NoDoc}]
  /\ steady \in SUBSET Records /\ listed \in [Records -> 0..2]
  /\ refused \in SUBSET Documents /\ changes \in 0..MaxChanges

\* The records no document is made of: those a MARC file garbles, and those without a header.
Skipped == (IF kind = "marc_file" THEN Garbled ELSE {}) \cup (IF foreign THEN Headless ELSE {})

\* An import that ends without an error has put in the backend every document of every
\* record that was in the source all the time and is not skipped, whatever was added to or
\* removed from the endpoint between two pages, except those the backend refused.  Under an
\* id that several documents have, of one finding aid or of different records, it is one of
\* them.  An answer without a list ends the harvest as a success where it stands: then this
\* holds up to the last token (_search_page, iter_records, the ingest functions).
HarvestIsComplete ==
  at = "done" =>
    \A doc \in Documents :
      doc[1] \in steady \ Skipped /\ (cut => doc[1] <= cursor) =>
        \/ doc \in refused
        \/ target[IdOf(doc)] \in {d \in Documents : IdOf(d) = IdOf(doc)}

\* A harvest of another installation never sees a record twice, although the index changes
\* under its pages (the cursor of _search_page).
NeverTwice == ~foreign => \A r \in Records : listed[r] <= 1

\* Every import ends, also against an endpoint that hands out the same page for ever
\* (the max_pages ceiling of iter_records).
ImportEnds == <>Over
=============================================================================
