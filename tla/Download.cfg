SPECIFICATION FairDownload
CONSTANT Size = 2
INVARIANT FileInv
PROPERTIES PortSpec TasksEnd
