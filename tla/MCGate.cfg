SPECIFICATION Spec
CONSTANTS
    Pipeline = {p1, p2}
    MaxPipelines = 1
    ReplayGap = 0
    ConfirmTimeout = 1
    MaxLockWait = 0
    MaxWindow = 1
    MaxEpoch = 2
INVARIANTS OneOwnerPerEpoch IInv AcceptedIsDurable
PROPERTIES PublicationSpec GrantsGoToTheSpeaker NoLiveOwnerDeposed
SYMMETRY PipelineSymmetry
