SPECIFICATION DownloadSpec
CONSTANT Size = 2
INVARIANT SaysWhatIsLeft
