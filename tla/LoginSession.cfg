SPECIFICATION FairSpec
CONSTANTS
    Configs <- AllConfigs
    Commands <- AllCommands
    MaxCmds = 3
    MaxDue = 2
    Spins = 1
INVARIANTS TlsAgreed RelinkOnlyWhenRefused LoggedInHasSite OptionsAgreed AnsweredOnce
PROPERTIES AnsweredUnlessBlocked
CHECK_DEADLOCK FALSE
