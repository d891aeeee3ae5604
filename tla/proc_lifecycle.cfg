\* Three slots, four pids: slots are reused while parents, orphans and zombies
\* are around, with the fairness the kernel provides.  Memory may run out; no mail.
SPECIFICATION FairSpec
CONSTANTS
    NPROC = 3
    MaxPid = 4
    ExitCodes = {0}
    OOM = TRUE
    MailPids = {}
    MailLens = {1}
    MAILSLOTS = 2
    MAILMAX = 1
    Mails = {}
    NoMail = NoMail
    Alive = Alive
    Reaped = Reaped
INVARIANTS RunningIsCurrent OverMeansOver PidsUnique WaiterHasKid KidsAreOwnOrOrphans
PROPERTIES NoStarvation WaitReturns StopsWhenOver WaitDelivers
