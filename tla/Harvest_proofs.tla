---------------------------- MODULE Harvest_proofs ----------------------------
(***************************************************************************)
(* Theorems about Harvest for any source, any records and documents, any   *)
(* sizes of pages and chunks, and any changes of the index.                *)
(***************************************************************************)
EXTENDS Harvest, FiniteSetTheorems, SequenceTheorems, WellFoundedInduction, TLAPS

-----------------------------------------------------------------------------
(* Numbers *)

LEMMA LeastNumber ==
  ASSUME NEW S \in SUBSET Nat, S # {}
  PROVE  \E m \in S : \A y \in S : m <= y
<1>1. PICK x \in S : \A y \in S : ~ (<<y, x>> \in OpToRel(<, Nat))
  BY NatLessThanWellFounded, WFMin, Zenon
<1>2. \A y \in S : ~(y < x)
  BY <1>1 DEF OpToRel
<1> QED BY <1>2

HasGreatest(S) == \E m \in S : \A y \in S : y <= m

LEMMA GreatestNumber ==
  ASSUME NEW S \in SUBSET Nat, IsFiniteSet(S), S # {}
  PROVE  HasGreatest(S)
<1> DEFINE Bad == {n \in Nat : \E T \in SUBSET S : T # {} /\ Cardinality(T) = n /\ ~HasGreatest(T)}
<1> SUFFICES ASSUME Bad # {} PROVE FALSE
  <2>1. Cardinality(S) \in Nat /\ S \in SUBSET S
    BY FS_CardinalityType
  <2> QED BY <2>1
<1>1. Bad \in SUBSET Nat
  OBVIOUS
<1>2. PICK n \in Bad : \A k \in Bad : n <= k
  BY <1>1, LeastNumber
<1>3. PICK T \in SUBSET S : T # {} /\ Cardinality(T) = n /\ ~HasGreatest(T)
  BY <1>2
<1>4. PICK x \in T : TRUE
  BY <1>3
<1>5. IsFiniteSet(T) /\ n \in Nat /\ x \in Nat
  BY <1>1, <1>2, <1>3, <1>4, FS_Subset
<1>6. IsFiniteSet(T \ {x}) /\ Cardinality(T \ {x}) = n - 1 /\ Cardinality(T \ {x}) \in Nat
  BY <1>3, <1>4, <1>5, FS_RemoveElement, FS_CardinalityType
<1>7. CASE T \ {x} = {}
  <2>1. \A y \in T : y <= x
    BY <1>5, <1>7
  <2> QED BY <1>3, <1>4, <2>1 DEF HasGreatest
<1>8. CASE T \ {x} # {}
  <2>1. n - 1 \notin Bad /\ n - 1 \in Nat
    <3>1. ~(n <= n - 1)
      BY <1>5
    <3> HIDE DEF Bad
    <3> QED BY <1>2, <1>6, <3>1
  <2>2. HasGreatest(T \ {x})
    <3>1. T \ {x} \in SUBSET S
      BY <1>3
    <3> QED BY <1>6, <1>8, <2>1, <3>1
  <2>3. PICK m \in T \ {x} : \A y \in T \ {x} : y <= m
    BY <2>2 DEF HasGreatest
  <2>4. m \in Nat
    BY <1>3, <2>3
  <2>5. CASE x <= m
    BY <1>3, <2>3, <2>5 DEF HasGreatest
  <2>6. CASE ~(x <= m)
    <3>1. \A y \in T : y \in Nat
      BY <1>3
    <3>2. \A y \in T : y <= x
      BY <1>5, <2>3, <2>4, <2>6, <3>1
    <3> QED BY <1>3, <1>4, <3>2 DEF HasGreatest
  <2> QED BY <2>5, <2>6
<1> QED BY <1>7, <1>8

-----------------------------------------------------------------------------
(* The documents and the pages *)

LEMMA Facts ==
  /\ Records \in SUBSET Nat /\ 0 \notin Records /\ IsFiniteSet(Records)
  /\ PageSize \in Nat \ {0} /\ ChunkSize \in Nat \ {0} /\ MaxPages \in Nat \ {0} /\ MaxChanges \in Nat
  /\ None = 0
BY RecordsAssumption, SizesAssumption DEF None

\* Of the documents of a page one comes first.
LEMMA FirstDocIs ==
  ASSUME NEW D, D # {}, \A d \in D : \E r, j \in Nat : d = <<r, j>>
  PROVE  FirstDoc(D) \in D
<1> DEFINE Rs == {d[1] : d \in D}
<1>1. Rs \in SUBSET Nat /\ Rs # {}
  OBVIOUS
<1>2. PICK r \in Rs : \A s \in Rs : r <= s
  BY <1>1, LeastNumber
<1> DEFINE Js == {d[2] : d \in {e \in D : e[1] = r}}
<1>3. Js \in SUBSET Nat /\ Js # {}
  BY <1>2
<1>4. PICK j \in Js : \A k \in Js : j <= k
  BY <1>3, LeastNumber
<1>5. PICK d \in D : d[1] = r /\ d[2] = j
  BY <1>4
<1>6. ASSUME NEW e \in D \ {d} PROVE Before(d, e)
  <2>1. PICK s, k \in Nat : e = <<s, k>>
    OBVIOUS
  <2>2. PICK t, l \in Nat : d = <<t, l>>
    OBVIOUS
  <2>3. t = r /\ l = j /\ r <= s /\ (s = r => j <= k)
    BY <1>2, <1>4, <1>5, <2>1, <2>2
  <2>4. t # s \/ l # k
    BY <1>6, <2>1, <2>2
  <2>5. t < s \/ (t = s /\ l < k)
    BY <2>1, <2>2, <2>3, <2>4
  <2> QED BY <2>1, <2>2, <2>5 DEF Before
<1> QED BY <1>6 DEF FirstDoc

\* A page has the first records after the cursor, and all of them if it is not full.
LEMMA PageIs ==
  ASSUME NEW c \in Nat, index \in SUBSET Records
  PROVE  /\ SearchPage(c) \in SUBSET index /\ IsFiniteSet(SearchPage(c))
         /\ \A r \in SearchPage(c) : r > c
         /\ \A m \in SearchPage(c), r \in index : c < r /\ r <= m => r \in SearchPage(c)
         /\ ~HasNext(SearchPage(c)) => \A r \in index : c < r => r \in SearchPage(c)
<1> DEFINE found == SearchPage(c)
           Between(m) == {s \in index : c < s /\ s < m}
<1>1. IsFiniteSet(index) /\ index \in SUBSET Nat
  BY Facts, FS_Subset
<1>2. ASSUME NEW m PROVE IsFiniteSet(Between(m)) /\ Cardinality(Between(m)) \in Nat /\ Between(m) \in SUBSET index
  <2>1. Between(m) \in SUBSET index
    OBVIOUS
  <2> HIDE DEF Between
  <2> QED BY <1>1, <2>1, FS_Subset, FS_CardinalityType
<1>3. \A r : r \in found <=> r \in index /\ r > c /\ Cardinality(Between(r)) < PageSize
  BY DEF SearchPage
<1>4. found \in SUBSET index /\ IsFiniteSet(found) /\ \A r \in found : r > c
  <2>1. found \in SUBSET index /\ \A r \in found : r > c
    BY <1>3
  <2> HIDE DEF found
  <2> QED BY <1>1, <2>1, FS_Subset
<1>5. ASSUME NEW m \in found, NEW r \in index, c < r, r <= m PROVE r \in found
  <2>1. Between(r) \in SUBSET Between(m)
    <3>1. m \in Nat /\ r \in Nat
      BY <1>1, <1>4
    <3>2. \A s \in index : s < r => s < m
      BY <1>1, <1>5, <3>1
    <3> QED BY <3>2
  <2>2. Cardinality(Between(m)) < PageSize
    BY <1>3
  <2>3. Cardinality(Between(r)) <= Cardinality(Between(m))
    <3> HIDE DEF Between
    <3> QED BY <1>2, <2>1, FS_Subset
  <2>4. Cardinality(Between(r)) < PageSize
    <3> HIDE DEF Between
    <3> QED BY <1>2, <2>2, <2>3, Facts
  <2>5. r > c
    BY <1>1, <1>5
  <2> HIDE DEF found, Between
  <2> QED BY <1>3, <2>4, <2>5
<1>6. ASSUME ~HasNext(found), NEW r \in index, c < r, r \notin found PROVE FALSE
  <2> DEFINE Missing == {s \in index : c < s /\ s \notin found}
  <2>1. Missing \in SUBSET Nat /\ Missing # {}
    BY <1>1, <1>6
  <2>2. PICK m \in Missing : \A s \in Missing : m <= s
    BY <2>1, LeastNumber
  <2>3. m \in index /\ c < m /\ m \notin found
    BY <2>2
  <2>4. Between(m) \in SUBSET found
    <3> SUFFICES ASSUME NEW s \in index, c < s, s < m, s \notin found PROVE FALSE
      OBVIOUS
    <3>1. m <= s /\ m \in Nat /\ s \in Nat
      BY <1>1, <2>2
    <3> QED BY <3>1
  <2>5. Cardinality(Between(m)) <= Cardinality(found) /\ Cardinality(found) \in Nat
    <3> HIDE DEF Between, found
    <3> QED BY <1>4, <2>4, FS_Subset, FS_CardinalityType
  <2>6. Cardinality(found) < PageSize
    <3> HIDE DEF found
    <3> QED BY <1>6, <2>5, Facts DEF HasNext
  <2>7. Cardinality(Between(m)) < PageSize
    <3> HIDE DEF Between, found
    <3> QED BY <1>2, <2>5, <2>6, Facts
  <2>8. m > c
    BY <1>1, <2>3
  <2> HIDE DEF found, Between
  <2> QED BY <1>3, <2>3, <2>7, <2>8
<1> HIDE DEF found
<1>7. /\ found \in SUBSET index /\ IsFiniteSet(found)
      /\ \A r \in found : r > c
      /\ \A m \in found, r \in index : c < r /\ r <= m => r \in found
      /\ ~HasNext(found) => \A r \in index : c < r => r \in found
  BY <1>4, <1>5, <1>6
<1> QED BY <1>7 DEF found

-----------------------------------------------------------------------------
(* The documents of a record *)

AreIds(ids) == ids \in Seq(Id)

LEMMA FirstOfIs ==
  ASSUME NEW ids \in Seq(Id)
  PROVE  AreIds(FirstOf(ids))
<1> DEFINE given == {i \in DOMAIN ids : ids[i] # NoId}
<1>1. CASE given = {}
  <2>1. FirstOf(ids) = <<>>
    BY <1>1 DEF FirstOf
  <2>2. AreIds(<<>>)
    BY DEF AreIds
  <2> QED BY <2>1, <2>2
<1>2. CASE given # {}
  <2>1. given \in SUBSET Nat
    BY LenProperties
  <2>2. PICK m \in given : \A j \in given : m <= j
    BY <1>2, <2>1, LeastNumber
  <2> DEFINE first == CHOOSE i \in given : \A j \in given : i <= j
  <2>3. first \in given
    BY <2>2
  <2>4. first \in 1..Len(ids) /\ ids[first] \in Id
    BY <2>3, LenProperties, ElementOfSeq
  <2>5. FirstOf(ids) = <<ids[first]>>
    BY <1>2 DEF FirstOf
  <2> HIDE DEF first
  <2>6. AreIds(<<ids[first]>>)
    BY <2>4 DEF AreIds
  <2> QED BY <2>5, <2>6
<1> QED BY <1>1, <1>2

LEMMA DocIdsAre ==
  ASSUME NEW k \in Kinds, NEW r \in Records
  PROVE  AreIds(DocIds(k, Described[r]))
<1> DEFINE d == Described[r]
<1>1. d.header \in Id /\ d.first \in Id /\ d.second \in Id
  BY RecordsAssumption DEF RecordType
<1> HIDE DEF d
<1>2. <<d.first, d.header>> \in Seq(Id) /\ <<d.first, d.second>> \in Seq(Id) /\ <<d.first>> \in Seq(Id)
  BY <1>1
<1>3. AreIds(DublinCoreIds(d)) /\ AreIds(LidoIds(d)) /\ AreIds(MarcIds(d)) /\ AreIds(CsvIds(d))
  BY <1>2, FirstOfIs DEF DublinCoreIds, LidoIds, MarcIds, CsvIds
<1>4. k \in EadKinds => AreIds(EadIds(d))
  BY IdsAssumption DEF AreIds, d
<1>5. AreIds(<<>>)
  BY DEF AreIds
<1>6. k \in {"oaipmh", "oaipmh_lido", "oaipmh_marcxml", "oaipmh_ead", "lido_file", "marcxml_file",
             "ead_file", "marc_file", "csv_file"}
  BY KindsAssumption DEF OaiKinds, FileKinds, XmlFileKinds
<1>7. AreIds(DocIds(k, d))
  BY <1>3, <1>4, <1>5, <1>6 DEF DocIds, EadKinds
<1> QED BY <1>7 DEF d

-----------------------------------------------------------------------------
(* Type correctness *)

\* What is where at which stage of an import.
Stages ==
  /\ \A r \in Records : AreIds(docs[r])
  /\ steady \subseteq index
  /\ at \in {"fetching", "reading"} => Len(chunk) < ChunkSize
  /\ at \in {"fetching", "done"} => page = {}
  /\ at = "done" => chunk = <<>> /\ ~more
  /\ ~IsOai => ~more /\ cursor = None

Typed == TypeOK /\ Stages

LEMMA DocumentsAre ==
  ASSUME Stages
  PROVE  \A d \in Documents : /\ \E r, j \in Nat : d = <<r, j>>
                              /\ d[1] \in Records /\ d[2] \in DOMAIN docs[d[1]] /\ d = <<d[1], d[2]>>
                              /\ d # NoDoc /\ IdOf(d) \in Ids
<1> SUFFICES ASSUME NEW r \in Records, NEW j \in DOMAIN docs[r]
             PROVE  /\ r \in Nat /\ j \in Nat /\ <<r, j>> # NoDoc /\ docs[r][j] \in Ids
  BY DEF Documents, DocumentsOf, IdOf
<1>1. docs[r] \in Seq(Id)
  BY DEF Stages, AreIds
<1>2. j \in Nat
  BY <1>1, LenProperties
<1>3. docs[r][j] \in Ids
  BY DEF Ids, Range
<1> QED BY <1>2, <1>3, Facts DEF NoDoc

LEMMA SourcesAre ==
  ASSUME NEW k \in Kinds, NEW isForeign
  PROVE  Sources(k, isForeign) \subseteq SUBSET Records
<1>1. CASE k = "ead_file"
  BY <1>1 DEF Sources
<1>2. CASE k \in OaiKinds /\ ~isForeign
  BY <1>2 DEF Sources, OaiKinds
<1>3. CASE k # "ead_file" /\ ~(k \in OaiKinds /\ ~isForeign)
  BY <1>3 DEF Sources
<1> QED BY <1>1, <1>2, <1>3

LEMMA InitTyped == Init => Typed
<1> SUFFICES ASSUME Init PROVE Typed
  OBVIOUS
<1>1. \A r \in Records : docs[r] = DocIds(kind, Described[r]) /\ AreIds(docs[r])
  BY DocIdsAre DEF Init
<1>2. docs \in [Records -> Seq(Id)]
  BY <1>1 DEF Init, AreIds
<1>3. index \in SUBSET Records
  BY SourcesAre DEF Init
<1>4. chunk = <<>> /\ Len(chunk) = 0 /\ chunk \in Seq(Documents)
  BY DEF Init
<1>5. /\ pages \in 0..MaxPages /\ changes \in 0..MaxChanges
      /\ listed \in [Records -> 0..2] /\ target \in [Ids -> Documents \cup {NoDoc}]
  BY Facts DEF Init
<1>6. foreign \in BOOLEAN /\ more \in BOOLEAN /\ cut \in BOOLEAN
  BY DEF Init
<1>7. /\ kind \in Kinds /\ at \in {"fetching", "reading", "sending", "done", "failed", "raised"}
      /\ cursor \in Records \cup {None} /\ page \in SUBSET Documents /\ refused \in SUBSET Documents
      /\ steady \in SUBSET Records /\ Len(chunk) <= ChunkSize
  BY <1>3, <1>4, Facts DEF Init
<1>8. TypeOK
  BY <1>2, <1>3, <1>4, <1>5, <1>6, <1>7 DEF TypeOK
<1>9. Stages
  BY <1>1, <1>4, Facts DEF Init, Stages
<1> QED BY <1>8, <1>9 DEF Typed

\* The documents and the kind do not change.
LEMMA SameDocuments ==
  ASSUME UNCHANGED docs
  PROVE  /\ Ids' = Ids /\ Documents' = Documents
         /\ \A found : DocumentsOf(found)' = DocumentsOf(found)
BY DEF Ids, Documents, DocumentsOf

LEMMA IndexedIs ==
  ASSUME Typed, NEW places \in SUBSET (DOMAIN chunk)
  PROVE  /\ Indexed(places) \in [Ids -> Documents \cup {NoDoc}]
         /\ \A id \in Ids : LET mine == {i \in places : IdOf(chunk[i]) = id}
                            IN \/ mine = {} /\ Indexed(places)[id] = target[id]
                               \/ \E i \in mine : Indexed(places)[id] = chunk[i]
<1>1. chunk \in Seq(Documents) /\ target \in [Ids -> Documents \cup {NoDoc}]
      /\ DOMAIN chunk \in SUBSET Nat /\ IsFiniteSet(DOMAIN chunk)
  <2>1. chunk \in Seq(Documents) /\ target \in [Ids -> Documents \cup {NoDoc}]
    BY DEF Typed, TypeOK
  <2>2. DOMAIN chunk = 1..Len(chunk) /\ Len(chunk) \in Nat
    BY <2>1, LenProperties
  <2>3. IsFiniteSet(1..Len(chunk))
    BY <2>2, FS_Interval
  <2> QED BY <2>1, <2>2, <2>3
<1>2. \A i \in places : chunk[i] \in Documents
  BY <1>1, ElementOfSeq, LenProperties
<1> DEFINE Mine(id) == {i \in places : IdOf(chunk[i]) = id}
<1>3. ASSUME NEW id \in Ids
      PROVE  \/ Mine(id) = {} /\ Indexed(places)[id] = target[id]
             \/ \E i \in Mine(id) : Indexed(places)[id] = chunk[i]
  <2> DEFINE mine == Mine(id)
  <2>1. Indexed(places)[id] = IF mine = {} THEN target[id]
                              ELSE chunk[CHOOSE i \in mine : \A j \in mine : j <= i]
    BY DEF Indexed
  <2>2. CASE mine # {}
    <3>1. mine \in SUBSET Nat /\ mine \in SUBSET (DOMAIN chunk)
      BY <1>1
    <3>2. IsFiniteSet(mine)
      <4> HIDE DEF mine
      <4> QED BY <1>1, <3>1, FS_Subset
    <3> HIDE DEF mine
    <3>3. \E m \in mine : \A y \in mine : y <= m
      BY <2>2, <3>1, <3>2, GreatestNumber DEF HasGreatest
    <3>4. (CHOOSE i \in mine : \A j \in mine : j <= i) \in mine
      BY <3>3
    <3>5. \E i \in mine : Indexed(places)[id] = chunk[i]
      BY <2>1, <2>2, <3>4
    <3> QED BY <3>5 DEF mine
  <2> QED BY <2>1, <2>2
<1>4. \A id \in Ids : Indexed(places)[id] \in Documents \cup {NoDoc}
  BY <1>1, <1>2, <1>3
<1>5. Indexed(places) \in [Ids -> Documents \cup {NoDoc}]
  BY <1>4 DEF Indexed
<1> QED BY <1>3, <1>5

\* A page, or a file, is read.
LEMMA ReadsKeepTypes ==
  ASSUME Typed, at = "fetching", NEW found \in SUBSET Records, Reads(DocumentsOf(found), found),
         UNCHANGED <<kind, docs, index, foreign, chunk, target, steady, refused, changes>>,
         cursor' \in Records \cup {None}, pages' \in 0..MaxPages, more' \in BOOLEAN, cut' \in BOOLEAN,
         IsOai \/ (~more' /\ cursor' = None)
  PROVE  Typed'
<1>1. Documents' = Documents /\ Ids' = Ids
  BY SameDocuments
<1>2. page' \in SUBSET Documents
  BY DEF Reads, Documents, DocumentsOf
<1>3. listed' \in [Records -> 0..2]
  <2>1. \A r \in Records : listed[r] \in 0..2
    BY DEF Typed, TypeOK
  <2>2. \A r \in Records : listed[r] < 2 => listed[r] + 1 \in 0..2
    BY <2>1
  <2> QED BY <2>1, <2>2 DEF Reads
<1>4. at' = "reading"
  BY DEF Reads
<1>5. TypeOK'
  BY <1>1, <1>2, <1>3, <1>4 DEF Typed, TypeOK
<1>6. Stages'
  BY <1>4 DEF Typed, Stages, IsOai
<1> QED BY <1>5, <1>6 DEF Typed

\* The token of a page stands for its last record.
Greatest(found) == CHOOSE last \in found : \A r \in found : r <= last

LEMMA LastIs ==
  ASSUME NEW found \in SUBSET Records, found # {}
  PROVE  Greatest(found) \in found /\ \A r \in found : r <= Greatest(found)
<1>1. found \in SUBSET Nat /\ IsFiniteSet(found)
  BY Facts, FS_Subset
<1>2. \E m \in found : \A r \in found : r <= m
  BY <1>1, GreatestNumber DEF HasGreatest
<1> QED BY <1>2 DEF Greatest

\* What a request and its answer do.
LEMMA FetchIs ==
  ASSUME Typed, FetchPage
  PROVE  LET found == SearchPage(cursor)
         IN /\ at = "fetching" /\ IsOai /\ page = {} /\ cursor \in Nat
            /\ found \in SUBSET index /\ found \in SUBSET Records
            /\ Headed(found) \in SUBSET Records /\ found \subseteq Headed(found) \cup (IF foreign THEN Headless ELSE {})
            /\ Headed(found) \subseteq found
            /\ Reads(DocumentsOf(Headed(found)), Headed(found))
            /\ more' = HasNext(found)
            /\ \/ cursor' = cursor /\ (found = {} \/ foreign)
               \/ found # {} /\ cursor' = Greatest(found)
            /\ cursor' \in Records \cup {None} /\ pages' \in 0..MaxPages
            /\ UNCHANGED <<kind, docs, index, foreign, cut, chunk, target, steady, refused, changes>>
<1> DEFINE found == SearchPage(cursor)
<1>1. /\ cursor \in Records \cup {None} /\ cursor \in Nat /\ index \in SUBSET Records /\ pages \in 0..MaxPages
      /\ at = "fetching" => page = {}
  BY Facts DEF Typed, TypeOK, Stages
<1>2. found \in SUBSET index /\ found \in SUBSET Records
  BY <1>1, PageIs
<1>3. pages' \in 0..MaxPages
  BY <1>1, Facts DEF FetchPage
<1>4. /\ Reads(DocumentsOf(Headed(found)), Headed(found)) /\ more' = HasNext(found)
      /\ \/ cursor' = IF found = {} THEN cursor ELSE Greatest(found)
         \/ foreign /\ cursor' = cursor
  BY DEF FetchPage, Greatest
<1> HIDE DEF found
<1>5. cursor' \in Records \cup {None}
  BY <1>1, <1>2, <1>4, LastIs
<1>6. \/ cursor' = cursor /\ (found = {} \/ foreign)
      \/ found # {} /\ cursor' = Greatest(found)
  BY <1>4
<1>7. /\ at = "fetching" /\ IsOai
      /\ UNCHANGED <<kind, docs, index, foreign, cut, chunk, target, steady, refused, changes>>
  BY DEF FetchPage
<1>8. /\ Headed(found) \in SUBSET Records /\ Headed(found) \subseteq found
      /\ found \subseteq Headed(found) \cup (IF foreign THEN Headless ELSE {})
  BY <1>2 DEF Headed
<1> QED BY <1>1, <1>2, <1>3, <1>4, <1>5, <1>6, <1>7, <1>8 DEF found

\* What an answer without a list does.
LEMMA NothingIs ==
  ASSUME Typed, FetchNothing
  PROVE  /\ at = "fetching" /\ IsOai /\ foreign /\ Reads(DocumentsOf({}), {})
         /\ ~more' /\ more' \in BOOLEAN /\ cut' /\ cut' \in BOOLEAN /\ pages' \in 0..MaxPages
         /\ cursor' \in Records \cup {None} /\ cursor' = cursor
         /\ UNCHANGED <<kind, docs, index, foreign, chunk, target, steady, refused, changes>>
<1>1. pages' \in 0..MaxPages
  BY Facts DEF FetchNothing, Typed, TypeOK
<1>2. DocumentsOf({}) = {}
  BY DEF DocumentsOf
<1>3. /\ at = "fetching" /\ IsOai /\ foreign /\ Reads({}, {}) /\ cursor' = cursor
      /\ UNCHANGED <<kind, docs, index, foreign, chunk, target, steady, refused, changes>>
  BY DEF FetchNothing
<1>4. ~more' /\ more' \in BOOLEAN /\ cut' /\ cut' \in BOOLEAN
  BY Zenon DEF FetchNothing
<1>5. cursor \in Records \cup {None}
  BY DEF Typed, TypeOK
<1> QED BY <1>1, <1>2, <1>3, <1>4, <1>5

\* What reading a file does.
ReadsFile(found) ==
  /\ at = "fetching" /\ ~IsOai /\ found \in SUBSET Records
  /\ index \ (IF kind = "marc_file" THEN Garbled ELSE {}) \subseteq found
  /\ Reads(DocumentsOf(found), found)
  /\ FileRead

ReadsSomeFile == ReadMarc \/ ReadLido \/ ReadMarcXml \/ ReadEad \/ ReadCsv

LEMMA FileIs ==
  ASSUME Typed, ReadsSomeFile
  PROVE  \E found \in SUBSET Records : ReadsFile(found)
<1>1. index \in SUBSET Records /\ index \ Garbled \in SUBSET Records
  BY DEF Typed, TypeOK
<1>2. CASE ReadMarc
  <2>1. ReadsFile(index \ Garbled)
    BY <1>1, <1>2 DEF ReadMarc, ReadsFile, ParsedMarc, IsOai, OaiKinds
  <2> QED BY <1>1, <2>1
<1>3. CASE ReadLido \/ ReadMarcXml \/ ReadEad \/ ReadCsv
  <2>1. ReadsFile(index)
    BY <1>1, <1>3 DEF ReadLido, ReadMarcXml, ReadEad, ReadCsv, ReadsFile, IsOai, OaiKinds
  <2> QED BY <1>1, <2>1
<1> QED BY <1>2, <1>3 DEF ReadsSomeFile

\* The steps that end an import with an error.
Fails ==
  /\ at' \in {"failed", "raised"} /\ target' \in [Ids -> Documents \cup {NoDoc}]
  /\ UNCHANGED <<kind, docs, index, foreign, cursor, pages, page, more, cut, chunk, steady, listed,
                 refused, changes>>

LEMMA FailsIs ==
  ASSUME Typed, FetchFails \/ TooManyPages \/ BulkRaises
  PROVE  Fails
<1>1. CASE FetchFails \/ TooManyPages
  BY <1>1 DEF FetchFails, TooManyPages, Fails, Typed, TypeOK
<1>2. CASE BulkRaises
  <2>1. PICK places \in {{}, DOMAIN chunk} : target' = Indexed(places)
    BY <1>2 DEF BulkRaises
  <2>2. target' \in [Ids -> Documents \cup {NoDoc}]
    BY <2>1, IndexedIs
  <2> QED BY <1>2, <2>2 DEF BulkRaises, Fails
<1> QED BY <1>1, <1>2

\* What the first document of a page is.
LEMMA NextDocIs ==
  ASSUME Typed, page # {}
  PROVE  FirstDoc(page) \in page /\ FirstDoc(page) \in Documents
<1>1. page \in SUBSET Documents /\ Stages
  BY DEF Typed, TypeOK
<1>2. \A d \in page : \E r, j \in Nat : d = <<r, j>>
  BY <1>1, DocumentsAre
<1>3. FirstDoc(page) \in page
  BY <1>2, FirstDocIs
<1> QED BY <1>1, <1>3

LEMMA NextTyped == Typed /\ [Next]_vars => Typed'
<1> SUFFICES ASSUME Typed, [Next]_vars PROVE Typed'
  OBVIOUS
<1>0. TypeOK /\ Stages /\ Len(chunk) \in Nat /\ chunk \in Seq(Documents)
  BY LenProperties DEF Typed, TypeOK
<1>1. CASE UNCHANGED vars
  <2>1. Documents' = Documents /\ Ids' = Ids
    BY <1>1, SameDocuments DEF vars
  <2> QED BY <1>0, <1>1, <2>1 DEF vars, Typed, TypeOK, Stages, IsOai
<1>2. CASE AddRecord
  <2>1. Documents' = Documents /\ Ids' = Ids
    BY <1>2, SameDocuments DEF AddRecord
  <2>2. index' \in SUBSET Records /\ changes' \in 0..MaxChanges /\ index \subseteq index'
    BY <1>0, <1>2, Facts DEF AddRecord, TypeOK
  <2> QED BY <1>0, <1>2, <2>1, <2>2 DEF AddRecord, Typed, TypeOK, Stages, IsOai
<1>3. CASE RemoveRecord
  <2>1. Documents' = Documents /\ Ids' = Ids
    BY <1>3, SameDocuments DEF RemoveRecord
  <2>2. index' \in SUBSET Records /\ changes' \in 0..MaxChanges
        /\ steady' \in SUBSET Records /\ steady' \subseteq index'
    BY <1>0, <1>3, Facts DEF RemoveRecord, TypeOK, Stages
  <2> QED BY <1>0, <1>3, <2>1, <2>2 DEF RemoveRecord, Typed, TypeOK, Stages, IsOai
<1>4. CASE FetchPage
  <2> DEFINE found == SearchPage(cursor)
  <2>1. /\ at = "fetching" /\ IsOai /\ Headed(found) \in SUBSET Records
        /\ Reads(DocumentsOf(Headed(found)), Headed(found))
        /\ more' = HasNext(found) /\ cursor' \in Records \cup {None} /\ pages' \in 0..MaxPages
        /\ UNCHANGED <<kind, docs, index, foreign, cut, chunk, target, steady, refused, changes>>
    BY <1>4, FetchIs
  <2> HIDE DEF found
  <2>2. more' \in BOOLEAN /\ cut' \in BOOLEAN
    BY <1>0, <2>1 DEF HasNext, TypeOK
  <2> QED BY <2>1, <2>2, ReadsKeepTypes
<1>5. CASE ReadsSomeFile
  <2>1. PICK found \in SUBSET Records : ReadsFile(found)
    BY <1>5, FileIs
  <2>2. ~more' /\ cursor' = None
    BY <1>0, <2>1 DEF ReadsFile, FileRead, Stages
  <2>3. cursor' \in Records \cup {None} /\ pages' \in 0..MaxPages /\ more' \in BOOLEAN /\ cut' \in BOOLEAN
    BY <1>0, <2>1 DEF ReadsFile, FileRead, TypeOK
  <2> QED BY <2>1, <2>2, <2>3, ReadsKeepTypes DEF ReadsFile, FileRead
<1>6. CASE Fails
  <2>1. Documents' = Documents /\ Ids' = Ids
    BY <1>6, SameDocuments DEF Fails
  <2> QED BY <1>0, <1>6, <2>1 DEF Fails, Typed, TypeOK, Stages, IsOai
<1>7. CASE AppendDoc
  <2>1. Documents' = Documents /\ Ids' = Ids
    BY <1>7, SameDocuments DEF AppendDoc
  <2> DEFINE d == FirstDoc(page)
  <2>2. d \in Documents /\ at = "reading" /\ chunk' = Append(chunk, d) /\ page' = page \ {d}
        /\ at' = IF ChunkIsFull THEN "sending" ELSE "reading"
    BY <1>7, NextDocIs DEF AppendDoc
  <2> HIDE DEF d
  <2>3. chunk' \in Seq(Documents) /\ Len(chunk') = Len(chunk) + 1
    BY <1>0, <2>2, AppendProperties
  <2>4. Len(chunk) < ChunkSize
    BY <1>0, <2>2 DEF Stages
  <2>5. Len(chunk') <= ChunkSize /\ (at' = "reading" => Len(chunk') < ChunkSize)
    BY <1>0, <2>2, <2>3, <2>4, Facts DEF ChunkIsFull
  <2>6. page' \in SUBSET Documents
    BY <1>0, <2>2 DEF TypeOK
  <2>7. UNCHANGED <<kind, docs, index, foreign, cursor, pages, more, cut, target, steady, listed, refused, changes>>
    BY <1>7 DEF AppendDoc
  <2>8. at' \in {"reading", "sending"}
    BY <2>2
  <2>9. TypeOK'
    BY <1>0, <2>1, <2>3, <2>5, <2>6, <2>7, <2>8 DEF TypeOK
  <2>10. Stages'
    BY <1>0, <2>5, <2>7, <2>8 DEF Stages, IsOai
  <2> QED BY <2>9, <2>10 DEF Typed
<1>8. CASE PageEnds
  <2>1. Documents' = Documents /\ Ids' = Ids
    BY <1>8, SameDocuments DEF PageEnds
  <2>2. /\ at = "reading" /\ page = {}
        /\ UNCHANGED <<kind, docs, index, foreign, cursor, pages, page, more, cut, chunk, target, steady,
                       listed, refused, changes>>
        /\ \/ more /\ at' = "fetching"
           \/ ~more /\ chunk # <<>> /\ at' = "sending"
           \/ ~more /\ chunk = <<>> /\ at' = "done"
    BY <1>0, <1>8 DEF PageEnds, TypeOK
  <2>3. TypeOK'
    BY <1>0, <2>1, <2>2 DEF TypeOK
  <2>4. Stages'
    BY <1>0, <2>2 DEF Stages, IsOai
  <2> QED BY <2>3, <2>4 DEF Typed
<1>9. CASE Bulk
  <2>1. Documents' = Documents /\ Ids' = Ids
    BY <1>9, SameDocuments DEF Bulk
  <2>2. PICK places \in SUBSET DOMAIN chunk :
          target' = Indexed(places) /\ refused' = refused \cup {chunk[i] : i \in DOMAIN chunk \ places}
    BY <1>9 DEF Bulk
  <2>3. target' \in [Ids -> Documents \cup {NoDoc}]
    BY <2>2, IndexedIs
  <2>4. refused' \in SUBSET Documents
    BY <1>0, <2>2, ElementOfSeq, LenProperties DEF TypeOK
  <2>5. chunk' = <<>> /\ chunk' \in Seq(Documents) /\ Len(chunk') = 0 /\ at' = "reading"
        /\ UNCHANGED <<kind, docs, index, foreign, cursor, pages, page, more, cut, steady, listed, changes>>
    BY <1>9 DEF Bulk
  <2>6. TypeOK'
    BY <1>0, <2>1, <2>3, <2>4, <2>5, Facts DEF TypeOK
  <2>7. Stages'
    BY <1>0, <2>5, Facts DEF Stages, IsOai
  <2> QED BY <2>6, <2>7 DEF Typed
<1>10. CASE Ended
  BY <1>1, <1>10 DEF Ended
<1>11. CASE FetchNothing
  BY <1>11, NothingIs, ReadsKeepTypes
<1> QED BY <1>1, <1>2, <1>3, <1>4, <1>5, <1>6, <1>7, <1>8, <1>9, <1>10, <1>11, FailsIs
       DEF Next, Import, ReadsSomeFile

\* The import, its source and the backend keep their types; a chunk never exceeds its size.
THEOREM TypeCorrect == Spec => []TypeOK
<1>1. Typed => TypeOK
  BY DEF Typed
<1> QED BY <1>1, InitTyped, NextTyped, PTL DEF Spec

-----------------------------------------------------------------------------
(* No record twice *)

\* What this program has listed is behind the cursor; what a file holds is read at once.
Once ==
  ~foreign => \A r \in Records :
    /\ listed[r] <= 1
    /\ listed[r] # 0 => r <= cursor \/ (~IsOai /\ at # "fetching")

LEMMA NextOnce == Typed /\ Once /\ [Next]_vars => Once'
<1> SUFFICES ASSUME Typed, Once, [Next]_vars, ~foreign', NEW r \in Records
             PROVE  /\ listed'[r] <= 1
                    /\ listed'[r] # 0 => r <= cursor' \/ (~IsOai' /\ at' # "fetching")
  BY DEF Once
<1>0. /\ TypeOK /\ Stages /\ r \in Nat /\ listed[r] \in 0..2
  BY Facts DEF Typed, TypeOK
<1>1. ASSUME foreign' = foreign, kind' = kind, listed' = listed, cursor' = cursor,
             at' = "fetching" => at = "fetching" \/ IsOai
      PROVE  /\ listed'[r] <= 1
             /\ listed'[r] # 0 => r <= cursor' \/ (~IsOai' /\ at' # "fetching")
  BY <1>1 DEF Once, IsOai
<1>2. CASE UNCHANGED vars \/ AddRecord \/ RemoveRecord \/ Fails \/ AppendDoc \/ Bulk \/ Ended
  BY <1>1, <1>2 DEF vars, AddRecord, RemoveRecord, Fails, AppendDoc, Bulk, Ended
<1>3. CASE PageEnds
  <2>1. at' = "fetching" => more
    BY <1>3 DEF PageEnds
  <2> QED BY <1>0, <1>1, <1>3, <2>1 DEF PageEnds, Stages
<1>4. CASE FetchPage
  <2> DEFINE found == SearchPage(cursor)
  <2>0. ~foreign /\ cursor \in Nat /\ index \in SUBSET Records
    BY <1>4, FetchIs DEF Typed, TypeOK
  <2>1. /\ IsOai /\ found \in SUBSET Records /\ Headed(found) = found
        /\ Reads(DocumentsOf(Headed(found)), Headed(found))
        /\ \/ cursor' = cursor /\ found = {}
           \/ found # {} /\ cursor' = Greatest(found)
    BY <1>4, <2>0, FetchIs DEF Headed
  <2>2. \A s \in found : s > cursor
    BY <2>0, PageIs
  <2> HIDE DEF found
  <2>3. CASE r \in found
    <3>1. r > cursor /\ listed[r] = 0
      <4>1. r > cursor /\ ~(r <= cursor)
        BY <1>0, <2>0, <2>2, <2>3
      <4> QED BY <2>0, <2>1, <4>1 DEF Once
    <3>2. listed'[r] = 1
      BY <1>0, <2>1, <2>3, <3>1 DEF Reads
    <3>3. r <= cursor'
      BY <2>1, <2>3, LastIs
    <3> QED BY <3>2, <3>3
  <2>4. CASE r \notin found
    <3>1. listed'[r] = listed[r]
      BY <2>1, <2>4 DEF Reads
    <3>2. r <= cursor => r <= cursor'
      <4>1. CASE found # {} /\ cursor' = Greatest(found)
        <5>1. Greatest(found) \in Nat /\ Greatest(found) > cursor
          BY <2>1, <2>2, <4>1, LastIs, Facts
        <5> QED BY <1>0, <2>0, <4>1, <5>1
      <4> QED BY <2>1, <4>1
    <3> QED BY <2>0, <2>1, <3>1, <3>2 DEF Once
  <2> QED BY <2>3, <2>4
<1>5. CASE ReadsSomeFile
  <2>1. PICK found \in SUBSET Records : ReadsFile(found)
    BY <1>5, FileIs
  <2>2. at = "fetching" /\ ~IsOai /\ at' = "reading" /\ kind' = kind /\ cursor' = cursor /\ foreign' = foreign
    BY <2>1 DEF ReadsFile, Reads, FileRead
  <2>3. listed'[r] = IF r \in found /\ listed[r] < 2 THEN listed[r] + 1 ELSE listed[r]
    BY <2>1 DEF ReadsFile, Reads
  <2>4. CASE listed[r] = 0
    BY <2>2, <2>3, <2>4 DEF IsOai
  <2>5. CASE listed[r] # 0
    <3>1. r <= cursor
      BY <2>2, <2>5 DEF Once
    <3>2. cursor = 0 /\ r # 0
      BY <1>0, <2>2, Facts DEF Stages
    <3> QED BY <1>0, <3>1, <3>2
  <2> QED BY <2>4, <2>5
<1>6. CASE FetchNothing
  BY <1>6, NothingIs
<1> QED BY <1>2, <1>3, <1>4, <1>5, <1>6, FailsIs DEF Next, Import, ReadsSomeFile

\* A harvest of another installation never sees a record twice, although the index changes
\* under its pages (the cursor of _search_page).
THEOREM NoRecordTwice == Spec => []NeverTwice
<1>1. Init => Once
  BY DEF Init, Once
<1>2. Once => NeverTwice
  BY DEF Once, NeverTwice
<1> QED BY <1>1, <1>2, InitTyped, NextTyped, NextOnce, PTL DEF Spec

-----------------------------------------------------------------------------
(* Every document *)

\* The documents with the id of a document.
Namesakes(d) == {e \in Documents : IdOf(e) = IdOf(d)}

\* What became of a document that was sent.
Delivered(d) == d \in refused \/ target[IdOf(d)] \in Namesakes(d)

InChunk(d) == \E i \in DOMAIN chunk : chunk[i] = d
Settled(d) == d \in page \/ InChunk(d) \/ Delivered(d)

\* The pages read so far, and all of the source once the last one is read.
IsRead(r) == r <= cursor \/ (at # "fetching" /\ ~more /\ ~cut)

\* Of every record read that is still there, every document is where it belongs.
Complete ==
  at \notin {"failed", "raised"} =>
    \A d \in Documents : d[1] \in steady \ Skipped /\ IsRead(d[1]) => Settled(d)

\* Delivered is a matter of the documents, the backend and what it refused.
LEMMA DeliveredStays ==
  ASSUME UNCHANGED <<docs, target, refused>>, NEW d, Delivered(d)
  PROVE  Delivered(d)'
BY SameDocuments DEF Delivered, Namesakes, IdOf

\* A step that reads no record and loses no document.
LEMMA NothingLost ==
  ASSUME Typed, Complete, at \notin {"failed", "raised"}, UNCHANGED <<kind, docs, foreign>>,
         steady' \subseteq steady, \A r \in Records : IsRead(r)' => IsRead(r),
         \A d \in Documents : Settled(d) => Settled(d)'
  PROVE  Complete'
<1>1. Documents' = Documents /\ Skipped' = Skipped
  BY SameDocuments DEF Skipped
<1>2. \A d \in Documents : d[1] \in Records
  BY DocumentsAre DEF Typed
<1> QED BY <1>1, <1>2 DEF Complete

\* What a page or a file brings is all there is to read up to the cursor.
LEMMA ReadsComplete ==
  ASSUME Typed, Complete, at = "fetching", NEW found \in SUBSET Records,
         Reads(DocumentsOf(found), found),
         UNCHANGED <<kind, docs, foreign, chunk, target, steady, refused>>,
         \A r \in steady \ Skipped : IsRead(r)' => r \in found \/ r <= cursor
  PROVE  Complete'
<1>1. Documents' = Documents /\ Skipped' = Skipped /\ steady' = steady
  BY SameDocuments DEF Skipped
<1> SUFFICES ASSUME NEW d \in Documents, d[1] \in steady \ Skipped, IsRead(d[1])' PROVE Settled(d)'
  BY <1>1 DEF Complete
<1>2. d[1] \in Records /\ d[2] \in DOMAIN docs[d[1]] /\ d = <<d[1], d[2]>>
  BY DocumentsAre DEF Typed
<1>3. CASE d[1] \in found
  <2>1. d \in page'
    BY <1>2, <1>3 DEF Reads, DocumentsOf
  <2> QED BY <2>1 DEF Settled
<1>4. CASE d[1] <= cursor
  <2>1. Settled(d) /\ page = {}
    BY <1>4 DEF Complete, IsRead, Typed, Stages
  <2>2. InChunk(d) \/ Delivered(d)
    BY <2>1 DEF Settled
  <2>3. InChunk(d)' \/ Delivered(d)'
    BY <2>2, DeliveredStays DEF InChunk
  <2> QED BY <2>3 DEF Settled
<1> QED BY <1>3, <1>4

LEMMA BulkSettles ==
  ASSUME Typed, Bulk, NEW d \in Documents, Settled(d)
  PROVE  Settled(d)'
<1>0. chunk \in Seq(Documents) /\ \A i \in DOMAIN chunk : chunk[i] \in Documents
  BY ElementOfSeq, LenProperties DEF Typed, TypeOK
<1>1. PICK places \in SUBSET DOMAIN chunk :
        target' = Indexed(places) /\ refused' = refused \cup {chunk[i] : i \in DOMAIN chunk \ places}
  BY DEF Bulk
<1>2. UNCHANGED <<docs, page>>
  BY DEF Bulk
<1> DEFINE id == IdOf(d)
           mine == {i \in places : IdOf(chunk[i]) = id}
<1>3. id \in Ids /\ IdOf(d)' = id /\ Namesakes(d)' = Namesakes(d)
  BY <1>2, DocumentsAre, SameDocuments DEF Typed, IdOf, Namesakes
<1>4. \/ mine = {} /\ target'[id] = target[id]
      \/ \E i \in mine : target'[id] = chunk[i]
  BY <1>1, <1>3, IndexedIs
<1>5. CASE \E i \in mine : target'[id] = chunk[i]
  <2>1. PICK i \in mine : target'[id] = chunk[i]
    BY <1>5
  <2>2. chunk[i] \in Namesakes(d)
    BY <1>0, <2>1 DEF Namesakes
  <2> QED BY <1>3, <2>1, <2>2 DEF Settled, Delivered
<1>6. CASE mine = {} /\ target'[id] = target[id]
  <2>1. CASE d \in page
    BY <1>2, <2>1 DEF Settled
  <2>2. CASE InChunk(d)
    <3>1. PICK i \in DOMAIN chunk : chunk[i] = d
      BY <2>2 DEF InChunk
    <3>2. i \notin places
      BY <1>6, <3>1
    <3>3. d \in refused'
      BY <1>1, <3>1, <3>2
    <3> QED BY <3>3 DEF Settled, Delivered
  <2>3. CASE Delivered(d)
    BY <1>1, <1>3, <1>6, <2>3 DEF Delivered, Settled
  <2> QED BY <2>1, <2>2, <2>3 DEF Settled
<1> QED BY <1>4, <1>5, <1>6

LEMMA NextComplete == Typed /\ Complete /\ [Next]_vars => Complete'
<1> SUFFICES ASSUME Typed, Complete, [Next]_vars PROVE Complete'
  OBVIOUS
<1>0. TypeOK /\ Stages
  BY DEF Typed
<1>1. ASSUME UNCHANGED <<kind, docs, foreign, at, cursor, page, more, cut, chunk, target, refused>>,
             steady' \subseteq steady
      PROVE  Complete'
  <2>1. Documents' = Documents /\ Skipped' = Skipped
    BY <1>1, SameDocuments DEF Skipped
  <2>2. \A d : Settled(d)' <=> Settled(d)
    BY <1>1, SameDocuments DEF Settled, InChunk, Delivered, Namesakes, IdOf
  <2>3. \A r : IsRead(r)' <=> IsRead(r)
    BY <1>1 DEF IsRead
  <2> QED BY <1>1, <2>1, <2>2, <2>3 DEF Complete
<1>2. CASE UNCHANGED vars \/ AddRecord \/ RemoveRecord \/ Ended
  BY <1>1, <1>2 DEF vars, AddRecord, RemoveRecord, Ended
<1>3. CASE Fails
  BY <1>3 DEF Fails, Complete
<1>4. CASE FetchPage
  <2> DEFINE found == SearchPage(cursor)
  <2>1. /\ at = "fetching" /\ IsOai /\ cursor \in Nat /\ found \in SUBSET index /\ found \in SUBSET Records
        /\ Headed(found) \in SUBSET Records
        /\ Reads(DocumentsOf(Headed(found)), Headed(found)) /\ more' = HasNext(found)
        /\ cursor' = cursor \/ (found # {} /\ cursor' = Greatest(found))
        /\ UNCHANGED <<kind, docs, foreign, chunk, target, steady, refused>>
    BY <1>4, FetchIs
  <2>2. /\ index \in SUBSET Records /\ steady \subseteq index /\ \A r \in index : r \in Nat
    BY <1>0, Facts DEF TypeOK, Stages
  <2>3. /\ \A m \in found, r \in index : cursor < r /\ r <= m => r \in found
        /\ ~HasNext(found) => \A r \in index : cursor < r => r \in found
    BY <2>1, <2>2, PageIs
  <2> HIDE DEF found
  <2>4. ASSUME NEW r \in steady \ Skipped, IsRead(r)' PROVE r \in Headed(found) \/ r <= cursor
    <3>1. r \in index /\ r \in Nat /\ (cursor < r \/ r <= cursor)
      BY <2>1, <2>2
    <3>2. r <= cursor' => r \in found \/ r <= cursor
      BY <2>1, <2>3, <3>1, LastIs
    <3>3. ~more' => r \in found \/ r <= cursor
      BY <2>1, <2>3, <3>1
    <3>4. r \in found \/ r <= cursor
      BY <2>4, <3>2, <3>3 DEF IsRead
    <3>5. r \in found => r \in Headed(found)
      BY <2>4 DEF Headed, Skipped
    <3> QED BY <3>4, <3>5
  <2> QED BY <2>1, <2>4, ReadsComplete
<1>5. CASE ReadsSomeFile
  <2>1. PICK found \in SUBSET Records : ReadsFile(found)
    BY <1>5, FileIs
  <2>2. /\ at = "fetching" /\ Reads(DocumentsOf(found), found) /\ index \ Skipped \subseteq found
        /\ UNCHANGED <<kind, docs, foreign, chunk, target, steady, refused>>
    BY <2>1 DEF ReadsFile, FileRead, Skipped
  <2>3. steady \ Skipped \subseteq found
    BY <1>0, <2>2 DEF Stages
  <2> QED BY <2>2, <2>3, ReadsComplete
<1>6. CASE AppendDoc
  <2> DEFINE f == FirstDoc(page)
  <2>1. /\ f \in page /\ f \in Documents /\ at = "reading" /\ at' # "fetching"
        /\ chunk' = Append(chunk, f) /\ page' = page \ {f}
        /\ UNCHANGED <<kind, docs, foreign, cursor, more, cut, target, steady, refused>>
    BY <1>6, NextDocIs DEF AppendDoc
  <2> HIDE DEF f
  <2>2. /\ chunk \in Seq(Documents) /\ Len(chunk) \in Nat /\ DOMAIN chunk = 1..Len(chunk)
        /\ DOMAIN chunk' = 1..(Len(chunk) + 1)
        /\ (\A i \in 1..Len(chunk) : chunk'[i] = chunk[i]) /\ chunk'[Len(chunk) + 1] = f
    BY <1>0, <2>1, AppendProperties, LenProperties DEF TypeOK
  <2>3. ASSUME NEW d \in Documents, Settled(d) PROVE Settled(d)'
    <3>1. CASE d = f
      <4>1. InChunk(d)'
        BY <2>2, <3>1 DEF InChunk
      <4> QED BY <4>1 DEF Settled
    <3>2. CASE d \in page /\ d # f
      BY <2>1, <3>2 DEF Settled
    <3>3. CASE InChunk(d)
      <4>1. InChunk(d)'
        BY <2>2, <3>3 DEF InChunk
      <4> QED BY <4>1 DEF Settled
    <3>4. CASE Delivered(d)
      BY <2>1, <3>4, DeliveredStays DEF Settled
    <3> QED BY <2>3, <3>1, <3>2, <3>3, <3>4 DEF Settled
  <2>4. \A r \in Records : IsRead(r)' => IsRead(r)
    BY <2>1 DEF IsRead
  <2> QED BY <2>1, <2>3, <2>4, NothingLost
<1>7. CASE PageEnds
  <2>1. /\ at = "reading" /\ (at' # "fetching" => ~more)
        /\ UNCHANGED <<kind, docs, foreign, cursor, page, more, cut, chunk, target, steady, refused>>
    BY <1>0, <1>7 DEF PageEnds, TypeOK
  <2>2. \A d : Settled(d) => Settled(d)'
    BY <2>1, DeliveredStays DEF Settled, InChunk
  <2>3. \A r \in Records : IsRead(r)' => IsRead(r)
    BY <2>1 DEF IsRead
  <2> QED BY <2>1, <2>2, <2>3, NothingLost
<1>8. CASE Bulk
  <2>1. at = "sending" /\ at' = "reading" /\ UNCHANGED <<kind, docs, foreign, cursor, more, cut, steady>>
    BY <1>8 DEF Bulk
  <2>2. \A r \in Records : IsRead(r)' => IsRead(r)
    BY <2>1 DEF IsRead
  <2> QED BY <1>8, <2>1, <2>2, BulkSettles, NothingLost
<1>9. CASE FetchNothing
  <2>1. \A r \in Records : IsRead(r)' => r <= cursor
    BY <1>9, NothingIs DEF IsRead
  <2>2. steady \subseteq Records
    BY <1>0 DEF TypeOK
  <2>3. \A r \in steady \ Skipped : IsRead(r)' => r \in {} \/ r <= cursor
    BY <2>1, <2>2
  <2> QED BY <1>9, <2>3, NothingIs, ReadsComplete
<1> QED BY <1>2, <1>3, <1>4, <1>5, <1>6, <1>7, <1>8, <1>9, FailsIs DEF Next, Import, ReadsSomeFile

\* An import that ends without an error has put in the backend every document of every
\* record that was in the source all the time and is not skipped, or another document with
\* its id, whatever changed at the endpoint between two pages, except those the backend
\* refused; up to the last token, when an answer without a list has ended it (_search_page,
\* iter_records, the ingest functions).
THEOREM HarvestsAreComplete == Spec => []HarvestIsComplete
<1>1. Init => Complete
  <2> SUFFICES ASSUME Init PROVE \A d \in Documents : d[1] \in steady => ~IsRead(d[1])
    BY DEF Complete
  <2>1. \A r \in Records : ~(r <= cursor)
    <3>1. \A r \in Records : r \in Nat /\ r # 0
      BY Facts
    <3> QED BY <3>1, Facts DEF Init
  <2>2. \A d \in Documents : d[1] \in Records
    BY InitTyped, DocumentsAre DEF Typed
  <2> QED BY <2>1, <2>2 DEF Init, IsRead
<1>2. Typed /\ Complete => HarvestIsComplete
  <2> SUFFICES ASSUME Typed, Complete, at = "done", NEW d \in Documents, d[1] \in steady \ Skipped,
                      cut => d[1] <= cursor
               PROVE  Delivered(d)
    BY DEF HarvestIsComplete, Delivered, Namesakes
  <2>1. page = {} /\ chunk = <<>> /\ ~more
    BY DEF Typed, Stages
  <2>2. Settled(d)
    BY <2>1 DEF Complete, IsRead
  <2> QED BY <2>1, <2>2 DEF Settled, InChunk
<1> QED BY <1>1, <1>2, InitTyped, NextTyped, NextComplete, PTL DEF Spec
=============================================================================
