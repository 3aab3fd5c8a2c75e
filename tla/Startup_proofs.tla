--------------------------- MODULE Startup_proofs ---------------------------
(***************************************************************************)
(* Proofs about Startup: for every cloud.conf file, of any length and with *)
(* any lines, the process uses what the file says and nothing else, and it *)
(* never logs in with credentials that are incomplete.                     *)
(***************************************************************************)
EXTENDS Startup, WellFoundedInduction, TLAPS

(***************************************************************************)
(* What the first n lines of a file say.                                   *)
(***************************************************************************)
Assignments(lines, n, f) ==
    {i \in 1..n : /\ lines[i].kind = "assignment"
                  /\ lines[i].key = f /\ f \in ConfigKey
                  /\ InGlobalSection(lines, i)}

SaysUpTo(lines, n) ==
    [f \in Field |-> IF Assignments(lines, n, f) = {} THEN Blank
                     ELSE Unquoted[lines[Max(Assignments(lines, n, f))].value]]

LEMMA MaxIs ==
    ASSUME NEW S \in SUBSET Int, NEW m \in S, \A y \in S : m >= y
    PROVE  Max(S) = m
<1>1. \A x \in S : (\A y \in S : x >= y) => x = m
    OBVIOUS
<1> QED  BY <1>1 DEF Max

\* A non-empty set of positions has a last one.
LEMMA LastPosition ==
    ASSUME NEW n \in Nat, NEW S \in SUBSET (1..n), S # {}
    PROVE  Max(S) \in S
<1> DEFINE T == {n - x : x \in S}
<1>1. T \subseteq Nat /\ T # {}
    <2>1. \A x \in S : x \in Int /\ n - x \in Nat
        OBVIOUS
    <2>2. PICK x \in S : TRUE
        OBVIOUS
    <2>3. n - x \in T
        OBVIOUS
    <2> QED  BY <2>1, <2>3
<1> HIDE DEF T
<1>2. PICK t \in T : \A u \in T : ~(<<u, t>> \in OpToRel(<, Nat))
    BY <1>1, NatLessThanWellFounded, WFMin
<1>3. \A u \in T : ~(u < t)
    BY <1>1, <1>2 DEF OpToRel
<1> USE DEF T
<1>4. PICK m \in S : t = n - m
    BY <1>2
<1>5. \A y \in S : m >= y
    BY <1>3, <1>4
<1> QED  BY <1>5, MaxIs

\* Whether line i is in a [Global] section depends on the lines before it only.
LEMMA SectionOfPrefix ==
    ASSUME NEW S, NEW lines \in Seq(S), NEW n \in 0..Len(lines), NEW i \in 1..n
    PROVE  InGlobalSection(SubSeq(lines, 1, n), i) = InGlobalSection(lines, i)
<1>1. \A j \in 1..n : SubSeq(lines, 1, n)[j] = lines[j]
    OBVIOUS
<1> QED  BY <1>1 DEF InGlobalSection

LEMMA SaysPrefix ==
    ASSUME NEW S, NEW lines \in Seq(S), NEW n \in 0..Len(lines)
    PROVE  Says(SubSeq(lines, 1, n)) = SaysUpTo(lines, n)
<1> DEFINE prefix == SubSeq(lines, 1, n)
<1>1. DOMAIN prefix = 1..n /\ \A j \in 1..n : prefix[j] = lines[j]
    OBVIOUS
<1>2. ASSUME NEW f \in Field
      PROVE  {i \in DOMAIN prefix : /\ prefix[i].kind = "assignment"
                                    /\ prefix[i].key = f /\ f \in ConfigKey
                                    /\ InGlobalSection(prefix, i)}
             = Assignments(lines, n, f)
    BY <1>1, SectionOfPrefix DEF Assignments
<1>3. ASSUME NEW f \in Field, Assignments(lines, n, f) # {}
      PROVE  Max(Assignments(lines, n, f)) \in 1..n
    <2> DEFINE A == Assignments(lines, n, f)
    <2>1. A \in SUBSET (1..n)
        BY DEF Assignments
    <2>2. n \in Nat /\ A # {}
        BY <1>3
    <2> HIDE DEF A
    <2>3. Max(A) \in A
        BY <2>1, <2>2, LastPosition
    <2> QED  BY <2>1, <2>3 DEF A
<1> QED  BY <1>1, <1>2, <1>3 DEF Says, SaysUpTo

\* Reading one more line.
LEMMA OneMoreLine ==
    ASSUME NEW S, NEW lines \in Seq(S), NEW n \in 1..Len(lines)
    PROVE  /\ InGlobalSection(lines, n + 1)
                = IF lines[n].kind = "header" THEN Section(lines[n].name)
                                              ELSE InGlobalSection(lines, n)
           /\ SaysUpTo(lines, n)
                = IF /\ lines[n].kind = "assignment" /\ InGlobalSection(lines, n)
                     /\ lines[n].key \in ConfigKey
                  THEN [SaysUpTo(lines, n - 1) EXCEPT ![lines[n].key] = Unquoted[lines[n].value]]
                  ELSE SaysUpTo(lines, n - 1)
<1> DEFINE Counts == /\ lines[n].kind = "assignment" /\ InGlobalSection(lines, n)
                     /\ lines[n].key \in ConfigKey
           A(f) == Assignments(lines, n, f)
           B(f) == Assignments(lines, n - 1, f)
<1>1. InGlobalSection(lines, n + 1)
        = IF lines[n].kind = "header" THEN Section(lines[n].name) ELSE InGlobalSection(lines, n)
    <2> DEFINE Opens(h) == lines[h].kind = "header" /\ lines[h].name \in GlobalHeaders
               Last(h, i) == \A j \in (h + 1)..(i - 1) : lines[j].kind # "header"
    <2>1. n \in Nat /\ (n + 1) - 1 = n
        OBVIOUS
    <2>2. /\ InGlobalSection(lines, n) = \E h \in 1..(n - 1) : Opens(h) /\ Last(h, n)
          /\ InGlobalSection(lines, n + 1) = \E h \in 1..n : Opens(h) /\ Last(h, n + 1)
        BY <2>1 DEF InGlobalSection
    <2>3. Last(n, n + 1)
        BY <2>1
    <2>4. CASE lines[n].kind = "header"
        <3>1. \A h \in 1..(n - 1) : ~Last(h, n + 1)
            BY <2>1, <2>4
        <3>2. \A h \in 1..n : h = n \/ h \in 1..(n - 1)
            BY <2>1
        <3>3. n \in 1..n
            BY <2>1
        <3> HIDE DEF Last
        <3>4. InGlobalSection(lines, n + 1) = Opens(n)
            BY <2>2, <2>3, <3>1, <3>2, <3>3
        <3> QED  BY <2>4, <3>4 DEF Section
    <2>5. CASE lines[n].kind # "header"
        <3>1. \A h \in 1..(n - 1) : Last(h, n + 1) <=> Last(h, n)
            BY <2>1, <2>5
        <3>2. \A h \in 1..n : Opens(h) => h \in 1..(n - 1)
            BY <2>1, <2>5
        <3>3. \A h \in 1..(n - 1) : h \in 1..n
            BY <2>1
        <3> HIDE DEF Last, Opens
        <3> QED  BY <2>2, <2>5, <3>1, <3>2, <3>3
    <2> QED  BY <2>4, <2>5
<1>2. ASSUME NEW f \in Field, ~(Counts /\ lines[n].key = f)
      PROVE  A(f) = B(f)
    BY <1>2 DEF Assignments
<1>3. ASSUME NEW f \in Field, Counts, lines[n].key = f
      PROVE  A(f) # {} /\ Max(A(f)) = n
    <2>1. n \in A(f) /\ A(f) \in SUBSET (1..n)
        BY <1>3 DEF Assignments
    <2>2. A(f) \in SUBSET Int /\ \A y \in A(f) : n >= y
        BY <2>1
    <2>3. Max(A(f)) = n
        BY <2>1, <2>2, MaxIs
    <2> QED  BY <2>1, <2>3
<1> HIDE DEF A, B
<1>4. ASSUME NEW f \in Field, ~(Counts /\ lines[n].key = f)
      PROVE  SaysUpTo(lines, n)[f] = SaysUpTo(lines, n - 1)[f]
    BY <1>2, <1>4 DEF SaysUpTo, A, B
<1>5. ASSUME NEW f \in Field, Counts, lines[n].key = f
      PROVE  SaysUpTo(lines, n)[f] = Unquoted[lines[n].value]
    BY <1>3, <1>5 DEF SaysUpTo, A
<1>6. DOMAIN SaysUpTo(lines, n) = Field /\ DOMAIN SaysUpTo(lines, n - 1) = Field
    BY DEF SaysUpTo
<1>7. /\ SaysUpTo(lines, n) = [f \in Field |-> SaysUpTo(lines, n)[f]]
      /\ SaysUpTo(lines, n - 1) = [f \in Field |-> SaysUpTo(lines, n - 1)[f]]
    BY DEF SaysUpTo
<1> DEFINE u == SaysUpTo(lines, n)
           v == SaysUpTo(lines, n - 1)
<1>8. CASE Counts
    <2>1. u = [f \in Field |-> u[f]] /\ v = [f \in Field |-> v[f]]
        BY <1>7
    <2>2. \A f \in Field : u[f] = IF f = lines[n].key THEN Unquoted[lines[n].value] ELSE v[f]
        BY <1>4, <1>5, <1>8
    <2> HIDE DEF u, v
    <2>3. u = [v EXCEPT ![lines[n].key] = Unquoted[lines[n].value]]
        BY <2>1, <2>2
    <2> QED  BY <1>1, <1>8, <2>3 DEF u, v
<1>9. CASE ~Counts
    <2>1. u = v
        BY <1>4, <1>7, <1>9
    <2> QED  BY <1>1, <1>9, <2>1
<1> QED  BY <1>8, <1>9

(***************************************************************************)
(* The parser, line by line.                                               *)
(***************************************************************************)
FileOK ==
    /\ secret \in {start.secret : start \in Starts} \cup SecretUpdates
    /\ file \in Seq(Range(file)) /\ line \in 1..(Len(file) + 1)

\* What run has at each of its steps.
ParserInv ==
    /\ pc \in {"start", "read", "scan", "validate", "authenticate", "running", "exited"}
    /\ pc \in {"read", "scan"} => flags.secret # "none"
    /\ pc \in {"start", "read"} => file = <<>> /\ line = 1 /\ inGlobal = FALSE
                              /\ opts = NoOptions
    /\ pc = "scan" =>
        /\ inGlobal = InGlobalSection(file, line)
        /\ opts = SaysUpTo(file, line - 1)
    /\ pc \in {"validate", "authenticate", "running"} /\ flags.secret # "none" =>
        opts = SaysUpTo(file, Len(file))

LEMMA EmptyFile ==
    /\ <<>> \in Seq(Range(<<>>)) /\ Len(<<>>) = 0
    /\ \A lines : SaysUpTo(lines, 0) = NoOptions /\ InGlobalSection(lines, 1) = FALSE
<1>1. \A lines, f : Assignments(lines, 0, f) = {}
    BY DEF Assignments
<1>2. \A lines : SaysUpTo(lines, 0) = NoOptions
    BY <1>1 DEF SaysUpTo, NoOptions
<1>3. \A lines : ~InGlobalSection(lines, 1)
    BY DEF InGlobalSection
<1>4. <<>> \in Seq(Range(<<>>)) /\ Len(<<>>) = 0
    OBVIOUS
<1> QED  BY <1>2, <1>3, <1>4

LEMMA InitParser == Init => FileOK /\ ParserInv
BY EmptyFile DEF Init, FileOK, ParserInv

LEMMA ReadParser ==
    ASSUME FileOK, ParserInv, ReadCloudConfigSecret
    PROVE  FileOK' /\ ParserInv'
<1>1. CASE secret \in {NoSecret, NoCloudConf}
    BY <1>1 DEF FileOK, ParserInv, ReadCloudConfigSecret, bounds
<1>2. CASE secret \notin {NoSecret, NoCloudConf}
    <2>1. file' = secret /\ file' \in Seq(Range(file'))
        BY <1>2, StartupAssumption DEF FileOK, ReadCloudConfigSecret
    <2>2. line' = 1 /\ inGlobal' = FALSE /\ opts' = NoOptions /\ pc' = "scan" /\ flags'.secret # "none"
        BY <1>2 DEF ParserInv, ReadCloudConfigSecret, bounds
    <2>3. Len(file') \in Nat
        BY <2>1
    <2>4. FileOK'
        BY <2>1, <2>2, <2>3 DEF FileOK, ReadCloudConfigSecret
    <2>5. inGlobal' = InGlobalSection(file', line')
        BY <2>2, EmptyFile
    <2>6. opts' = SaysUpTo(file', line' - 1)
        <3>1. line' - 1 = 0
            BY <2>2
        <3> QED  BY <2>2, <3>1, EmptyFile
    <2> QED  BY <2>2, <2>4, <2>5, <2>6 DEF ParserInv
<1> QED  BY <1>1, <1>2

LEMMA ScanLineParser ==
    ASSUME FileOK, ParserInv, ScanLine
    PROVE  FileOK' /\ ParserInv'
<1>1. /\ pc = "scan" /\ pc' = "scan" /\ file' = file /\ flags' = flags /\ secret' = secret
      /\ line \in 1..Len(file) /\ line' = line + 1 /\ line' - 1 = line
    <2>1. Len(file) \in Nat /\ line \in 1..(Len(file) + 1)
        BY DEF FileOK
    <2>2. line <= Len(file) /\ line' = line + 1
        BY DEF ScanLine
    <2>3. line \in 1..Len(file) /\ line' - 1 = line
        BY <2>1, <2>2
    <2> QED  BY <2>2, <2>3 DEF ScanLine
<1>2. FileOK'
    BY <1>1 DEF FileOK
<1>3. inGlobal' = InGlobalSection(file', line')
    BY <1>1, OneMoreLine DEF ScanLine, FileOK, ParserInv
<1>4. opts' = SaysUpTo(file', line' - 1)
    BY <1>1, OneMoreLine DEF ScanLine, FileOK, ParserInv
<1> QED  BY <1>1, <1>2, <1>3, <1>4 DEF ParserInv

LEMMA ScanEndsParser ==
    ASSUME FileOK, ParserInv, ScanEnds
    PROVE  FileOK' /\ ParserInv'
<1>1. FileOK'
    BY DEF ScanEnds, FileOK, configVars
<1>2. CASE pc' = "validate"
    <2>1. line - 1 = Len(file)
        BY <1>2 DEF ScanEnds, FileOK
    <2> QED  BY <1>1, <1>2, <2>1 DEF ScanEnds, ParserInv, configVars
<1>3. CASE pc' # "validate"
    BY <1>1, <1>3 DEF ScanEnds, ParserInv, configVars
<1> QED  BY <1>2, <1>3

\* The parser's variables are right at every step.
THEOREM ParserInvariant == Spec => [](FileOK /\ ParserInv)
<1>1. FileOK /\ ParserInv /\ [Next]_vars => (FileOK /\ ParserInv)'
    <2> SUFFICES ASSUME FileOK, ParserInv, [Next]_vars PROVE (FileOK /\ ParserInv)'
        OBVIOUS
    <2>1. CASE initProvider
        BY <2>1 DEF initProvider, FileOK, ParserInv
    <2>2. CASE validateAuthOptions \/ authenticate
        BY <2>2 DEF validateAuthOptions, authenticate, FileOK, ParserInv, configVars
    <2>3. CASE CallFails \/ Crash
        BY <2>3 DEF CallFails, Crash, FileOK, ParserInv, configVars
    <2>4. CASE Restart
        BY <2>4, EmptyFile DEF Restart, FileOK, ParserInv
    <2>5. CASE UpdateSecret
        BY <2>5 DEF UpdateSecret, FileOK, ParserInv, configVars
    <2>6. CASE UNCHANGED vars
        BY <2>6 DEF vars, FileOK, ParserInv, configVars
    <2> QED  BY <2>1, <2>2, <2>3, <2>4, <2>5, <2>6, ReadParser, ScanLineParser, ScanEndsParser
             DEF Next, Run
<1> QED  BY <1>1, InitParser, PTL DEF Spec

\* parseCloudConfig takes from a file what it says, read as a whole, for every
\* file: no other section or key leaks in, and of several assignments the last
\* one counts.
THEOREM ConfigAsWritten == Spec => []OptionsAsWritten
<1>1. FileOK /\ ParserInv => OptionsAsWritten
    <2> SUFFICES ASSUME FileOK, ParserInv, flags.secret # "none"
                 PROVE  /\ pc \in {"start", "read", "scan"} => opts = Says(SubSeq(file, 1, line - 1))
                        /\ pc \in {"validate", "authenticate", "running"} => opts = Says(file)
        BY DEF OptionsAsWritten
    <2>1. line - 1 \in 0..Len(file) /\ Len(file) \in 0..Len(file)
        BY DEF FileOK
    <2>2. /\ Says(SubSeq(file, 1, line - 1)) = SaysUpTo(file, line - 1)
          /\ Says(SubSeq(file, 1, Len(file))) = SaysUpTo(file, Len(file))
        BY <2>1, SaysPrefix DEF FileOK
    <2>3. SubSeq(file, 1, Len(file)) = file
        BY DEF FileOK
    <2>4. pc \in {"start", "read"} => opts = SaysUpTo(file, line - 1)
        BY EmptyFile DEF ParserInv
    <2> QED  BY <2>2, <2>3, <2>4 DEF ParserInv
<1> QED  BY <1>1, ParserInvariant, PTL

(***************************************************************************)
(* The two validators.                                                     *)
(***************************************************************************)
ValidInv ==
    /\ pc \in {"read", "scan"} => flags.secret # "none"
    /\ pc = "validate" /\ flags.secret # "none" => ConfigMissing = {}
    /\ pc \in {"authenticate", "running"} => ProviderMissing = {}

\* What the parser's validator accepts, the provider's accepts.
LEMMA ParserStricter == ConfigMissing = {} => ProviderMissing = {}
<1>1. CASE opts["application-credential-id"] # Blank
    BY <1>1 DEF ConfigMissing, ProviderMissing, Missing
<1>2. CASE opts["application-credential-id"] = Blank /\ opts["user-id"] # Blank
    BY <1>2 DEF ConfigMissing, ProviderMissing, Missing
<1>3. CASE opts["application-credential-id"] = Blank /\ opts["user-id"] = Blank
    BY <1>3 DEF ConfigMissing, ProviderMissing, Missing
<1> QED  BY <1>1, <1>2, <1>3

THEOREM ValidatorInvariant == Spec => []ValidInv
<1>1. Init => ValidInv
    BY DEF Init, ValidInv
<1>2. ValidInv /\ [Next]_vars => ValidInv'
    <2> SUFFICES ASSUME ValidInv, [Next]_vars PROVE ValidInv'
        OBVIOUS
    <2>1. CASE initProvider
        BY <2>1 DEF initProvider, ValidInv
    <2>2. CASE ReadCloudConfigSecret \/ ScanLine
        BY <2>2 DEF ReadCloudConfigSecret, ScanLine, ValidInv
    <2>3. CASE ScanEnds
        <3>1. ConfigMissing' = ConfigMissing
            BY <2>3 DEF ScanEnds, configVars, ConfigMissing, Missing
        <3> QED  BY <2>3, <3>1 DEF ScanEnds, ValidInv
    <2>4. CASE validateAuthOptions \/ authenticate
        <3>1. ProviderMissing' = ProviderMissing
            BY <2>4 DEF validateAuthOptions, authenticate, configVars, ProviderMissing, Missing
        <3> QED  BY <2>4, <3>1 DEF validateAuthOptions, authenticate, ValidInv
    <2>5. CASE CallFails \/ Crash \/ Restart
        BY <2>5 DEF CallFails, Crash, Restart, ValidInv
    <2>6. CASE UpdateSecret \/ UNCHANGED vars
        <3>1. /\ pc' = pc /\ flags' = flags /\ opts' = opts
            BY <2>6 DEF UpdateSecret, vars, configVars
        <3> QED  BY <3>1 DEF ValidInv, ConfigMissing, ProviderMissing, Missing
    <2> QED  BY <2>1, <2>2, <2>3, <2>4, <2>5, <2>6 DEF Next, Run
<1> QED  BY <1>1, <1>2, PTL DEF Spec

\* A Secret that parseCloudConfig has accepted is never rejected by NewProvider,
\* whatever is in the file.
THEOREM NeverRejectedTwice == Spec => []ValidatorsAgree
<1>1. ValidInv => ValidatorsAgree
    BY ParserStricter DEF ValidInv, ValidatorsAgree
<1> QED  BY <1>1, ValidatorInvariant, PTL

\* Nobody logs in with credentials that are incomplete, whether they came from
\* a Secret or from the environment.
THEOREM LoginComplete == Spec => []CredentialsComplete
<1>1. ValidInv => CredentialsComplete
    BY DEF ValidInv, CredentialsComplete, ProviderMissing, Missing, Modes
<1> QED  BY <1>1, ValidatorInvariant, PTL
=============================================================================
