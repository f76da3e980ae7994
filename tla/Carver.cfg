SPECIFICATION Spec
CONSTANTS
    Positions = {0, 2, 3}
    DiskSize = 4
    ZipTypes = {"ZIP", "DOCX"}
INVARIANTS TypeOK RangesDisjoint EveryArchiveCarved ResultsOnDisk
PROPERTIES NeverOverwrites
CHECK_DEADLOCK FALSE
