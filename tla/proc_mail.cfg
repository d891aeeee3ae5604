\* Two processes that write to the mailbox of the first; rings of
\* three entries, mails of one and two bytes, one length that is
\* cut down to two, and a negative one.
SPECIFICATION Spec
CONSTANTS
    NPROC = 2
    MaxPid = 2
    ExitCodes = {0}
    OOM = FALSE
    MailPids = {1}
    MailLens <- AnyLens
    MAILSLOTS = 3
    MAILMAX = 2
    Mails = {1}
    NoMail = NoMail
    Alive = Alive
    Reaped = Reaped
INVARIANTS TypeOK
PROPERTIES MailIsFIFO
