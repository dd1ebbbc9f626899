CONSTANTS
  Foreign = "foreign"
  MaxEdits = 2
SPECIFICATION Spec
INVARIANTS
  TypeOK
  SettingsSurvive
PROPERTIES
  ReaderOnlyFinds
