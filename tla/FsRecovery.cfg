SPECIFICATION Spec
CONSTANTS
    MaxFiles = 2
    Types = {"pdf", "docx", "xlsx", "pptx", "zip"}
    Marks = {"types", "xl"}
INVARIANTS TypeOK EntriesOnDisk WantedSaved
PROPERTIES NeverOverwrites
CHECK_DEADLOCK FALSE
