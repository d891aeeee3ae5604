SPECIFICATION Spec
CONSTANTS
    NPROC = 2
    MaxPid = 3
    ExitCodes = {0}
    OOM = FALSE
    MailPids = {}
    MailLens = {1}
    MAILSLOTS = 2
    MAILMAX = 1
    Mails = {}
    NoMail = NoMail
    Alive = Alive
    Reaped = Reaped
PROPERTIES SpawnReturnsPid
