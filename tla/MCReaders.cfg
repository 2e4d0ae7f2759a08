SPECIFICATION Spec
CONSTANTS
  HashFiles <- TheHashFiles
  VersionFiles <- TheVersionFiles
  SymbolFiles <- TheSymbolFiles
  NoteFiles <- TheNoteFiles
  ElfFiles <- TheElfFiles
  BoxFiles <- TheBoxFiles
  CompoundFiles <- TheCompoundFiles
  Words <- SmallWords
  MaxDamage <- DamageBound
INVARIANTS
  LinkersTablesClose
  ClosedTablesFindEveryName
  VersionsWholeOrRefused
  SymbolsKeepTheirVersion
  NotesAccountedFor
  HeadersReadAlike
  CleanWalksTile
  CompoundStreamsStandAlone
  
CHECK_DEADLOCK FALSE
