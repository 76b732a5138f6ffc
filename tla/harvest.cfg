SPECIFICATION Spec
CONSTANTS
  Kinds = {"oaipmh", "oaipmh_lido", "lido_file", "marc_file", "marcxml_file", "ead_file", "csv_file"}
  Records = {1, 2, 3, 4, 5, 6}
  Described <- MCDescribed
  Garbled = {4}
  Unmappable = {1}
  Headless = {3}
  PageSize = 2
  ChunkSize = 2
  MaxPages = 4
  MaxChanges = 1
INVARIANTS
  HarvestIsComplete
  NeverTwice
PROPERTIES
  ImportEnds
