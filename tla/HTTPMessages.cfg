SPECIFICATION Spec
CONSTANTS
    Messages <- MCMessages
    NotComposed = NotComposed
    Junk <- MCJunk
INVARIANTS
    ResumeIsRestart
    WithinInput
    ParsedIsWritten
