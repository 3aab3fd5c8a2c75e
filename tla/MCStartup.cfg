CONSTANTS
    GlobalHeaders = {"[Global]", "[GLOBAL]"}
    Unquoted <- Raw
    Starts <- EveryStart
    SecretUpdates <- Updates
    NoSecret = NoSecret
    NoCloudConf = NoCloudConf
    MaxUpdates = 1
    MaxFaults = 1
    MaxCrashes = 1
SPECIFICATION FairSpec
INVARIANTS OptionsAsWritten ValidatorsAgree CredentialsComplete
PROPERTY GetsToRun
\* A process that runs has nothing left to do here.
CHECK_DEADLOCK FALSE
