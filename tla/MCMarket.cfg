SPECIFICATION Spec
CONSTANTS
    demo = demo
    review = review
    Procs = {demo, review}
    Reviews <- MCReviews
    FacilitatorProcs = {demo}
    Nobody = Nobody
    NoKey = NoKey
    TornKey = TornKey
INVARIANT TypeOK
INVARIANT OneIdentity
INVARIANT PacketsArePaid
INVARIANT LossIsLoud
INVARIANT OwnMerchantStays
PROPERTY CommandsEnd
CHECK_DEADLOCK FALSE
