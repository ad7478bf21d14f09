SPECIFICATION FairSpec
CONSTANTS
    v1 = v1
    v2 = v2
    v3 = v3
    BlockLen = 8
    LenLen = 4
    Inputs <- AllInputs
    MaxIn = 12
    Tag = Tag
    SdkFaults <- AllSdkFaults
    Vectors = {v1, v2, v3}
    OkVectors = {v1, v2}
    Contents <- AllContents
    Proved = v1
    GoldenFaults <- AllGoldenFaults
    NoFile = NoFile
    OldFile = OldFile
INVARIANT TypeOK
INVARIANT RecordIsStatement
INVARIANT HasherHoldsOutput
INVARIANT BundleIsProven
INVARIANT GoldenWhenDone
INVARIANT AtMostOneTorn
INVARIANT RecordMatchesGolden
PROPERTY CallReturns
