\* Two requests, a read and a mutation, revisions 0..2.
SPECIFICATION Spec
CONSTANTS
    r1 = r1
    r2 = r2
    owner = owner
    read = read
    write = write
    RequestId <- MCRequestId
    Caller <- MCCaller
    Capability <- MCCapability
    Mutating <- MCMutating
    NeedsProvider <- MCNeedsProvider
    Expectation <- MCExpectation
    MaxRevision = 2
    NoCommand = NoCommand
    NoReceipt = NoReceipt
SYMMETRY Symmetry
INVARIANTS
    TypeOK
    ReceiptTruth
    EventsTellProgress
    RevisionNamesOneMutation
    ExpectedRevisionHonoured
PROPERTIES
    ImplementsAtMostOnce
