------------------------------ MODULE RecordDocs ------------------------------
(***************************************************************************)
(* What documents the importers make of a record, and with which ids.      *)
(*                                                                         *)
(* An id is a sequence of numbers: one number is an identifier that the    *)
(* source gives, 0 the one given to a finding aid without any, and a part  *)
(* is added where an id is made from another.  Other fields of a document  *)
(* are copied from the record and left out here.                           *)
(***************************************************************************)
EXTENDS Integers, Sequences, FiniteSets, SequencesExt

Id == Seq(Nat)
NoId == <<>>

\* A component of a finding aid: its parent's place (0 for archdesc itself, which comes
\* first), whether it has a <did>, and the <unitid> or id in it.
ComponentType == [parent : Nat, did : BOOLEAN, given : Id]

\* A record: whether its OAI header says deleted, the identifier of the header, those of
\* the payload in the order they are preferred, and the components of a finding aid.
RecordType == [deleted : BOOLEAN, header : Id, first : Id, second : Id,
               components : Seq(ComponentType)]

\* The first identifier there is, or no document.
FirstOf(ids) ==
  LET given == {i \in DOMAIN ids : ids[i] # NoId}
  IN IF given = {} THEN <<>> ELSE <<ids[CHOOSE i \in given : \A j \in given : i <= j]>>

\* dc_record_to_doc: the first dc:identifier, or that of the header.
DublinCoreIds(r) == FirstOf(<<r.first, r.header>>)

\* lido_element_to_doc: lidoRecID, or the recordID of the administrative metadata.
LidoIds(r) == FirstOf(<<r.first, r.second>>)

\* marc_record_to_doc, in both flavours: the control field 001.
MarcIds(r) == FirstOf(<<r.first>>)

\* parse_csv_bytes: the cell of the column named id.
CsvIds(r) == FirstOf(<<r.first>>)

-----------------------------------------------------------------------------
(* Finding aids *)

\* _walk goes down into components that have a document, and so a <did>.
Walked(components) ==
  LET walked[i \in DOMAIN components] ==
        i = 1 \/ (walked[components[i].parent] /\ components[components[i].parent].did)
  IN walked

\* The counter that all levels of the walk share.
DepthCounter(components, i) == Cardinality({k \in 2..i : Walked(components)[k]})

\* _best_id with its fallback.
ComponentIds(components) ==
  LET id[i \in DOMAIN components] ==
        CASE components[i].given # NoId -> components[i].given
          [] components[i].given = NoId /\ i = 1 -> <<0>>
          [] OTHER -> Append(id[components[i].parent], DepthCounter(components, i))
  IN id

\* iter_ead_docs, in which an id given is taken as it is, also when another component has it
\* or it is made for another: a document for archdesc and for every component under it that has a
\* <did>; a component without one takes what is below it with it.
EadIds(r) ==
  LET yields == {i \in DOMAIN r.components : r.components[i].did /\ Walked(r.components)[i]}
      places == SetToSortSeq(yields, <)
  IN [k \in DOMAIN places |-> ComponentIds(r.components)[places[k]]]

-----------------------------------------------------------------------------
(* By kind of source *)

OaiKinds == {"oaipmh", "oaipmh_lido", "oaipmh_marcxml", "oaipmh_ead"}
EadKinds == {"oaipmh_ead", "ead_file"}
XmlFileKinds == {"lido_file", "marcxml_file", "ead_file"}
FileKinds == XmlFileKinds \cup {"marc_file", "csv_file"}

\* run_import: the parser of a kind.  A header that says deleted makes no document.
DocIds(kind, r) ==
  IF kind \in OaiKinds /\ r.deleted THEN <<>>
  ELSE CASE kind = "oaipmh" -> DublinCoreIds(r)
         [] kind \in {"oaipmh_lido", "lido_file"} -> LidoIds(r)
         [] kind \in {"oaipmh_marcxml", "marc_file", "marcxml_file"} -> MarcIds(r)
         [] kind \in EadKinds -> EadIds(r)
         [] kind = "csv_file" -> CsvIds(r)
=============================================================================
