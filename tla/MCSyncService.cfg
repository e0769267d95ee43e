SPECIFICATION FairServiceSpec
CONSTANT Content <- File
INVARIANTS ServiceTypeOK Truthful NothingOpen
PROPERTIES OperationsEnd
