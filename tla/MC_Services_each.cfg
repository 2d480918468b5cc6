SPECIFICATION Spec
INVARIANTS EncodesServe ModelIsOwned SnapshotsSurvive VectorsSurvive EditsAreSaved DownloadIsSafe BuildIsTheVault SearchIsWhole RetrievalIsSound SegmentsAreRead RequestsAreSound DenseSetIsSound AnalysisIsTrue
PROPERTIES WorkersServe UpdateIsTrue ArtifactIsKept QueriesShareSlots RegistryIsSound StoreAnswers
CHECK_DEADLOCK FALSE
