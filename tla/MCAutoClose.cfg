SPECIFICATION FairSpec
CONSTANTS
    s1 = s1
    c1 = c1
    Sessions = {s1}
    Closers = {c1}
    AutoCloser = AutoCloser
    Worker = Worker
    Nobody = Nobody
    Runs <- RunsValue
    Quiet <- EitherKind
    MaxFailures = 1
INVARIANTS CompletedIsGone MailedIsCompleted
PROPERTIES ChatOutlivesReport SentStands ClosesEnd ChatGoesOrWaits
