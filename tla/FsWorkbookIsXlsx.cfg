SPECIFICATION Spec
CONSTANTS
    MaxFiles = 1
    Types = {"pdf", "docx", "xlsx", "pptx", "zip"}
    Marks = {"types", "xl"}
INVARIANTS WorkbookIsXlsx
CHECK_DEADLOCK FALSE
