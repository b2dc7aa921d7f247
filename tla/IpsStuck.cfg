\* Two sources, and a run that dies between rmtree and move.
SPECIFICATION FairSpec
CONSTANTS
  Sources <- MCSources
  Versioned <- MCVersioned
  FilesOf <- MCFilesOf
  Changes <- InTurn
  Size <- Growing
  Offers <- FewOffers
  MaxRev = 2
  SwapBreaks = TRUE
PROPERTY CatchesUp
