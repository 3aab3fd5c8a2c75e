------------------------------ MODULE MCStartup ------------------------------
(***************************************************************************)
(* Instances of Startup for TLC: files that begin with the configuration   *)
(* of one of the two modes of a Secret, complete or not, and go on with up *)
(* to three lines that may repeat, contradict or leave the section.        *)
(***************************************************************************)
EXTENDS Startup, TLC, SequencesExt

Global == [kind |-> "header", name |-> "[Global]"]
OtherSection == [kind |-> "header", name |-> "[Networking]"]
Upper == [kind |-> "header", name |-> "[GLOBAL]"]
Noise == [kind |-> "noise"]
TooLong == [kind |-> "too long"]
Put(k, v) == [kind |-> "assignment", key |-> k, value |-> v]

Raw == "a" :> "a" @@ "b" :> "b" @@ "\"b\"" :> "b" @@ "\"\"" :> ""

Trust == <<Global, Put("auth-url", "a"), Put("user-id", "a"), Put("password", "\"b\""),
           Put("trust-id", "a")>>
Credential == <<Upper, Put("auth-url", "a"), Put("application-credential-id", "a"),
                Put("application-credential-secret", "\"b\"")>>

Tails == SeqOf({Upper, OtherSection, Noise, TooLong, Put("ca-file", "a"), Put("region", "b"),
                Put("password", "\"\""), Put("trust-id", "b"), Put("user-id", "\"\""),
                Put("application-credential-id", "b"), Put("application-credential-id", "\"\""),
                Put("application-credential-secret", "\"\"")}, 3)

SomeFiles == {base \o tail : base \in {Trust, Credential, <<>>, Tail(Trust)}, tail \in Tails}

FromSecret == [provider |-> "openstack", secret |-> "namespace/name"]
FromEnvironment == [provider |-> "openstack", secret |-> "none"]

EnvFields == {"auth-url", "username", "password", "tenant-name", "domain-name", "region"}
Environment(given) == [f \in Field |-> IF f \in given THEN "a" ELSE ""]

Start(flags_, given, secret_) == [flags |-> flags_, env |-> Environment(given), secret |-> secret_]

\* Every file; every combination of the variables; flags that are wrong, with
\* a usable environment and Secret.
EveryStart ==
    {Start(FromSecret, {}, file_) : file_ \in SomeFiles \cup {NoSecret, NoCloudConf}}
    \cup {Start(FromEnvironment, given, Trust) : given \in SUBSET EnvFields}
    \cup {Start([provider |-> p, secret |-> s], EnvFields, Trust) :
                <<p, s>> \in {<<"designate", "none">>, <<"designate", "namespace/name">>,
                              <<"openstack", "malformed">>}}

\* A file of each mode with a field of the other, and none.
Updates == {Credential \o <<Put("user-id", "a")>>,
            Trust \o <<Put("application-credential-id", "b")>>, NoSecret}
=============================================================================
