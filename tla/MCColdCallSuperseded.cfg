SPECIFICATION Spec
CONSTANTS
    call1 = call1
    rf1 = rf1
    h1 = h1
    t1 = t1
    Calls = {call1}
    Hangups = {h1}
    Transcripts = {t1}
    Finalizers = {f1, f2}
    CallOf <- OneCall
    Candidates = {rf1}
    CandidateOf <- OneCandidate
    OtherTags = {}
    Grace = 1
    Cleanup = 2
    MaxFaults = 0
PROPERTY SupersededMeansUnrecorded
