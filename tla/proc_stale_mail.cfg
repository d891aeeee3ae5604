SPECIFICATION Spec
CONSTANTS
    NPROC = 2
    MaxPid = 3
    ExitCodes = {0}
    OOM = FALSE
    MailPids = {2}
    MailLens = {1}
    MAILSLOTS = 2
    MAILMAX = 1
    Mails = {2}
    NoMail = NoMail
    Alive = Alive
    Reaped = Reaped
PROPERTIES MailIsForReader
