SPECIFICATION CommandSpec
CONSTANTS
    Positions = {0, 2}
    DiskSize = 3
    ZipTypes = {"ZIP", "DOCX"}
    MaxRuns = 2
INVARIANTS CommandTypeOK ReportMatchesDirectory
PROPERTIES RerunKeepsNumbers
CHECK_DEADLOCK FALSE
