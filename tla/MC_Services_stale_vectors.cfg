SPECIFICATION FoldSpec
INVARIANT SharedSetIsOfItsCorpus
CHECK_DEADLOCK FALSE
