\* Up to three lines added to the file the server wrote or to a new one.
SPECIFICATION Spec
CONSTANTS
  Edits <- SomeEdits
  MaxEdits = 3
  PortSpan <- Port
  IntSpan <- Integer
  CountSpan <- Count
  LongSpan <- Long
PROPERTIES
  SettingsSurviveRestart
