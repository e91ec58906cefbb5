SPECIFICATION Spec
CONSTANTS
    Texts <- Words
    Pool <- Records
    MaxRecords = 4
INVARIANTS
    BestRowDecides
    
    ConflictsAgreeWithRow
\* Aggregation is done.
CHECK_DEADLOCK FALSE
