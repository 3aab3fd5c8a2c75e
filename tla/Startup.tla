------------------------------ MODULE Startup -------------------------------
(***************************************************************************)
(* main.go, run: how the process gets its OpenStack credentials.  They     *)
(* come from environment variables, or from a Secret that holds a          *)
(* cloud.conf file; provider/openstack/cloudconfig.go parses and validates *)
(* the file, provider/openstack/openstack.go validates again, and logs in. *)
(* Any error ends the process; the kubelet starts it again.                *)
(*                                                                         *)
(* A file is a sequence of lines, trimmed, of four kinds: a header with    *)
(* its name, an assignment (a key, "=", a raw value), one longer than the  *)
(* scanner's buffer, and noise: blank, a comment, or without "=".          *)
(***************************************************************************)
EXTENDS Integers, Sequences, FiniteSetsExt

CONSTANTS
    GlobalHeaders,  \* headers that are [global] but for the case
    Unquoted,       \* Unquoted[v]: raw value v without white space and quotes
    Starts,         \* what may be given: the command line [provider, secret], what the
                    \*   OS_* variables say, field by field, and the Secret
    SecretUpdates,  \* what the Secret may be changed to
    NoSecret,       \* there is no such Secret
    NoCloudConf,    \* it has no cloud.conf key
    MaxUpdates,     \* bound: changes of the Secret in a behaviour
    MaxFaults,      \* bound: calls that fail in a behaviour
    MaxCrashes      \* bound: crashes of the running process in a behaviour

Blank == ""

ConfigKey == {"auth-url", "user-id", "password", "trust-id", "application-credential-id",
              "application-credential-secret", "region"}

\* The fields of AuthConfig that are used.
Field == ConfigKey \cup {"username", "tenant-name", "domain-name"}

NoOptions == [f \in Field |-> Blank]

ASSUME StartupAssumption ==
    /\ \A start \in Starts :
            /\ DOMAIN start.env = Field
            /\ start.flags.secret \in {"none", "malformed", "namespace/name"}
    /\ \A lines \in ({start.secret : start \in Starts} \cup SecretUpdates) \ {NoSecret, NoCloudConf} :
            lines \in Seq(Range(lines))
    /\ MaxUpdates \in Nat /\ MaxFaults \in Nat /\ MaxCrashes \in Nat

VARIABLES
    flags, env,     \* the command line and the environment
    secret,         \* the Secret in the API
    pc,             \* the next step of run, "running" or "exited"
    file,           \* the cloud.conf that was read
    line,           \* the line parseCloudConfig is at
    inGlobal,       \* whether it is in a [Global] section
    opts,           \* the options read so far, then those of the provider
    updates, faults, crashes    \* bounds

configVars == <<file, line, inGlobal, opts>>
bounds == <<updates, faults, crashes>>
vars == <<flags, env, secret, pc, configVars, bounds>>

Init ==
    /\ \E start \in Starts : flags = start.flags /\ env = start.env /\ secret = start.secret
    /\ pc = "start" /\ file = <<>> /\ line = 1 /\ inGlobal = FALSE /\ opts = NoOptions
    /\ updates = 0 /\ faults = 0 /\ crashes = 0

(***************************************************************************)
(* run, initProvider, buildAuthOptions.                                    *)
(***************************************************************************)
initProvider ==
    /\ pc = "start"
    /\ \/ /\ flags.provider # "openstack" \/ flags.secret = "malformed"
          /\ pc' = "exited" /\ UNCHANGED opts
       \/ /\ flags.provider = "openstack" /\ flags.secret = "none"
          /\ pc' = "validate" /\ opts' = env
       \/ /\ flags.provider = "openstack" /\ flags.secret = "namespace/name"
          /\ pc' = "read" /\ UNCHANGED opts
    /\ UNCHANGED <<flags, env, secret, file, line, inGlobal, bounds>>

ReadCloudConfigSecret ==
    /\ pc = "read"
    /\ IF secret \in {NoSecret, NoCloudConf}
       THEN pc' = "exited" /\ UNCHANGED file
       ELSE pc' = "scan" /\ file' = secret
    /\ UNCHANGED <<flags, env, secret, line, inGlobal, opts, bounds>>

(***************************************************************************)
(* parseCloudConfig.                                                       *)
(***************************************************************************)
SectionOpens(name) == inGlobal \/ name \in GlobalHeaders            \* mutant

Section(name) == name \in GlobalHeaders

\* One iteration of the loop over the lines.
ScanLine ==
    /\ pc = "scan" /\ line <= Len(file) /\ file[line].kind # "too long"
    /\ line' = line + 1
    /\ inGlobal' = IF file[line].kind = "header" THEN Section(file[line].name) ELSE inGlobal
    /\ opts' = IF file[line].kind = "assignment" /\ inGlobal /\ file[line].key \in ConfigKey
               THEN [opts EXCEPT ![file[line].key] = Unquoted[file[line].value]] ELSE opts
    /\ UNCHANGED <<flags, env, secret, pc, file, bounds>>

Missing(fields) == {f \in fields : opts[f] = Blank}

ConfigMissingTrustFirst ==                                          \* mutant
    Missing({"auth-url"}) \cup
    IF opts["user-id"] # Blank
    THEN Missing({"password", "trust-id"})
    ELSE Missing({"application-credential-id", "application-credential-secret"})

ConfigMissing ==
    Missing({"auth-url"}) \cup
    IF opts["application-credential-id"] # Blank
    THEN Missing({"application-credential-secret"})
    ELSE Missing({"user-id", "password", "trust-id"})

\* The last line has been read, or one too long for the scanner.
ScanEnds ==
    /\ pc = "scan"
    /\ \/ line > Len(file) /\ pc' = IF ConfigMissing = {} THEN "validate" ELSE "exited"
       \/ line <= Len(file) /\ file[line].kind = "too long" /\ pc' = "exited"
    /\ UNCHANGED <<flags, env, secret, configVars, bounds>>

(***************************************************************************)
(* NewProvider.                                                            *)
(***************************************************************************)
ProviderMissingNoPassword ==                                        \* mutant
    Missing({"auth-url"}) \cup
    CASE opts["application-credential-id"] # Blank -> Missing({"application-credential-secret"})
      [] opts["application-credential-id"] = Blank /\ opts["user-id"] # Blank
            -> Missing({"password", "trust-id"})
      [] opts["application-credential-id"] = Blank /\ opts["user-id"] = Blank
            -> Missing({"username", "tenant-name", "domain-name"})

ProviderMissing ==
    Missing({"auth-url"}) \cup
    CASE opts["application-credential-id"] # Blank -> Missing({"application-credential-secret"})
      [] opts["application-credential-id"] = Blank /\ opts["user-id"] # Blank
            -> Missing({"password", "trust-id"})
      [] opts["application-credential-id"] = Blank /\ opts["user-id"] = Blank
            -> Missing({"username", "password", "tenant-name", "domain-name"})

validateAuthOptions ==
    /\ pc = "validate"
    /\ pc' = IF ProviderMissing = {} THEN "authenticate" ELSE "exited"
    /\ UNCHANGED <<flags, env, secret, configVars, bounds>>

\* Then run sets up the controller and starts the manager.
authenticate ==
    /\ pc = "authenticate" /\ pc' = "running"
    /\ UNCHANGED <<flags, env, secret, configVars, bounds>>

(***************************************************************************)
(* Failures and the rest of the world.                                     *)
(***************************************************************************)
\* The manager is not created, the Secret not read, Keystone does not answer.
CallFails ==
    /\ pc \in {"start", "read", "authenticate"} /\ pc' = "exited"
    /\ faults < MaxFaults /\ faults' = faults + 1
    /\ UNCHANGED <<flags, env, secret, configVars, updates, crashes>>

Crash ==
    /\ pc = "running" /\ pc' = "exited"
    /\ crashes < MaxCrashes /\ crashes' = crashes + 1
    /\ UNCHANGED <<flags, env, secret, configVars, updates, faults>>

Restart ==
    /\ pc = "exited" /\ pc' = "start"
    /\ file' = <<>> /\ line' = 1 /\ inGlobal' = FALSE /\ opts' = NoOptions
    /\ UNCHANGED <<flags, env, secret, bounds>>

UpdateSecret ==
    /\ updates < MaxUpdates /\ updates' = updates + 1
    /\ secret' \in SecretUpdates \ {secret}
    /\ UNCHANGED <<flags, env, pc, configVars, faults, crashes>>

-----------------------------------------------------------------------------
Run ==
    initProvider \/ ReadCloudConfigSecret \/ ScanLine \/ ScanEnds
    \/ validateAuthOptions \/ authenticate

Next == Run \/ CallFails \/ Crash \/ Restart \/ UpdateSecret

Spec == Init /\ [][Next]_vars

\* The process goes on until it exits; the kubelet starts it again.
FairSpec == Spec /\ WF_vars(Run) /\ WF_vars(Restart)

-----------------------------------------------------------------------------
(***************************************************************************)
(* Properties.                                                             *)
(***************************************************************************)
\* What a file says, read as a whole: of the assignments to a key that stand in
\* a [Global] section the last one counts.
InGlobalSection(lines, i) ==
    \E h \in 1..(i - 1) :
        /\ lines[h].kind = "header" /\ lines[h].name \in GlobalHeaders
        /\ \A j \in (h + 1)..(i - 1) : lines[j].kind # "header"

Says(lines) ==
    [f \in Field |->
        LET assignments == {i \in DOMAIN lines : /\ lines[i].kind = "assignment"
                                                 /\ lines[i].key = f /\ f \in ConfigKey
                                                 /\ InGlobalSection(lines, i)}
        IN  IF assignments = {} THEN Blank ELSE Unquoted[lines[Max(assignments)].value]]

\* At every line parseCloudConfig has what the lines before it say, and to the
\* end the process uses what the whole file says: no other section and no other
\* key leaks into the credentials, whatever the order of the lines ("Only the
\* [Global] section is read; other sections are ignored.", cloudconfig.go).
OptionsAsWritten ==
    flags.secret # "none" =>
        /\ pc \in {"start", "read", "scan"} => opts = Says(SubSeq(file, 1, line - 1))
        /\ pc \in {"validate", "authenticate", "running"} => opts = Says(file)

Modes == {
    {"auth-url", "application-credential-id", "application-credential-secret"},
    {"auth-url", "user-id", "password", "trust-id"},
    {"auth-url", "username", "password", "tenant-name", "domain-name"}}

\* The process never logs in with credentials that are complete for none of the
\* three modes of openstack.go:88-92, wherever they came from.
CredentialsComplete ==
    pc \in {"authenticate", "running"} => \E mode \in Modes : Missing(mode) = {}

\* The provider's validator never rejects what the parser's has accepted: a
\* Secret that passes the first check is not the reason of a restart loop.
ValidatorsAgree ==
    pc = "validate" /\ flags.secret # "none" => ProviderMissing = {}

\* The credentials are complete for the mode that the fields present select.
Usable(o) ==
    \E mode \in Modes :
        /\ \A f \in mode : o[f] # Blank
        /\ o["application-credential-id"] # Blank => "application-credential-id" \in mode

SourceUsable ==
    /\ flags.provider = "openstack"
    /\ \/ flags.secret = "none" /\ Usable(env)
       \/ /\ flags.secret = "namespace/name" /\ secret \notin {NoSecret, NoCloudConf}
          /\ \A i \in DOMAIN secret : secret[i].kind # "too long"
          /\ Usable(Says(secret))

\* Once the Secret or the environment is usable, the process gets to run, even
\* if there was no Secret or a wrong one at first, and however often it exited.
GetsToRun == <>[]SourceUsable => <>[](pc = "running")
=============================================================================
