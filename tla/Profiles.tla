------------------------------- MODULE Profiles -------------------------------
(***************************************************************************)
(* The data directory of elastic-package: its installation, the profiles   *)
(* in it, and the stacks of the profiles, with the certificates they use   *)
(* and the record each leaves to the next command.                         *)
(*                                                                         *)
(* A command is the check of the installation followed by the command      *)
(* itself.  Commands run one after the other, so each is one step, taken   *)
(* to its end or cut anywhere by an error or by a signal: what it had      *)
(* written stays, and the file it was writing can be torn.                 *)
(*                                                                         *)
(* Certificates and projects in Elastic Cloud are named by the number of   *)
(* the command that made them.                                             *)
(***************************************************************************)
EXTENDS Naturals, Sequences, FiniteSets

CONSTANTS
    Names,         \* names of profiles, "default" among them
    Services,      \* services with a certificate
    Providers,     \* what --provider may ask for, of "compose" and "serverless"
    MaxCommands,   \* bound: how many commands are issued
    MaxCuts        \* bound: how many of them are cut

ASSUME ProfilesAssumption ==
    /\ "default" \in Names /\ Names \cap {"absent", "corrupt"} = {}
    /\ IsFiniteSet(Services) /\ Services # {} /\ Services \cap {"ca", "cert", "key"} = {}
    /\ Providers \subseteq {"compose", "serverless"}
    /\ MaxCommands \in Nat /\ MaxCuts \in Nat

VARIABLES
    stage,       \* "idle", or "command" when the installation was checked
    home,        \* the installation: root directory, current profile, version file
    store,       \* the directory of every profile
    containers,  \* services that run, of the compose project of every profile
    projects,    \* projects that exist in Elastic Cloud
    expired,     \* certificates made up to this command have expired
    cmd,         \* number of the last command
    target,      \* the profile it was for
    ok,          \* it returned without error
    applied,     \* it wrote the files of the stack without error
    cuts,        \* history: commands cut so far
    loose,       \* history: an installation or a deletion was cut, or a profile was
                 \* deleted with ELASTIC_PACKAGE_PROFILE set
    given,       \* history: projects whose record was given up, or never written
    mingled      \* history: a deletion left some of the certificates of a profile,
                 \* certificates were copied to a directory that had some, or only the
                 \* key of the CA was not written

profilesVars == <<stage, home, store, containers, projects, expired, cmd, target, ok, applied,
                  cuts, loose, given, mingled>>
history == <<loose, given, mingled>>

-----------------------------------------------------------------------------
(***************************************************************************)
(* Files.                                                                  *)
(***************************************************************************)
Pair == [made : 0..MaxCommands, issuer : 0..MaxCommands]
NoPair == [made |-> 0, issuer |-> 0]    \* there is no file
Torn == [made |-> 0, issuer |-> 1]      \* the file cannot be parsed

\* The file of a certificate and that of its key hold the pair they were made as.
CertFile == {<<"ca", "cert">>, <<"ca", "key">>} \cup (Services \X {"cert", "key", "ca"})
NoCerts == [f \in CertFile |-> NoPair]

Record == [provider : {"none", "corrupt", "compose", "serverless"}, project : 0..MaxCommands]
NoRecord == [provider |-> "none", project |-> 0]
Corrupt == [provider |-> "corrupt", project |-> 0]

\* meta is the name in profile.json.
Directory == [meta : Names \cup {"absent", "corrupt"}, record : Record,
              certs : [CertFile -> Pair]]
NoDirectory == [meta |-> "absent", record |-> NoRecord, certs |-> NoCerts]

\* Services have an order; in the directory of each, files are written and copied in these.
ServiceOrder == CHOOSE o \in [1..Cardinality(Services) -> Services] :
                    \A i, j \in DOMAIN o : o[i] = o[j] => i = j
WriteOrder == <<"cert", "key", "ca">>
CopyOrder == <<"ca", "cert", "key">>

\* The CA comes first.
Position(f, order) ==
    LET service == IF f[1] = "ca" THEN 0
                   ELSE CHOOSE i \in DOMAIN ServiceOrder : ServiceOrder[i] = f[1]
    IN  3 * service + (CHOOSE i \in DOMAIN order : order[i] = f[2])

\* What the files hold when writing g failed: a file whose content stays is not
\* written, g is as it was or torn, and the files after it are written or not.
Interrupted(old, new, order, g, torn, rest) ==
    [f \in CertFile |->
        IF new[f] = old[f] THEN old[f]
        ELSE IF f = g THEN (IF torn THEN Torn ELSE old[f])
        ELSE IF Position(f, order) < Position(g, order) \/ rest THEN new[f] ELSE old[f]]

ProfilesTypeOK ==
    /\ stage \in {"idle", "command"}
    /\ home \in [root : BOOLEAN, current : Names \cup {"absent", "corrupt"},
                 version : {"absent", "old", "latest"}]
    /\ store \in [Names -> Directory]
    /\ containers \in [Names -> SUBSET Services]
    /\ projects \subseteq 1..MaxCommands
    /\ expired \in 0..MaxCommands
    /\ cmd \in 0..MaxCommands /\ target \in Names /\ cuts \in 0..MaxCuts
    /\ {ok, applied, loose, mingled} \subseteq BOOLEAN
    /\ given \subseteq 1..MaxCommands

ProfilesInit ==
    /\ stage = "idle" /\ cmd = 0 /\ target = "default" /\ ok = TRUE /\ applied = FALSE
    /\ home = [root |-> FALSE, current |-> "absent", version |-> "absent"]
    /\ store = [p \in Names |-> NoDirectory]
    /\ containers = [p \in Names |-> {}]
    /\ projects = {} /\ expired = 0
    /\ cuts = 0 /\ loose = FALSE /\ given = {} /\ mingled = FALSE

-----------------------------------------------------------------------------
Ends == stage' = "idle" /\ ok' = TRUE /\ UNCHANGED cuts
Refused == stage' = "idle" /\ ok' = FALSE /\ UNCHANGED cuts
Cut == stage' = "idle" /\ ok' = FALSE /\ cuts < MaxCuts /\ cuts' = cuts + 1

(***************************************************************************)
(* EnsureInstalled, which every command starts with: what is there of the  *)
(* root directory, config.yml, the version file and the default profile    *)
(* after n of these were written, the next one torn or not begun.          *)
(***************************************************************************)
InstalledHome(n, torn) ==
    [root |-> n >= 1,
     current |-> CASE n >= 2 -> "default" [] n = 1 /\ torn -> "corrupt" [] OTHER -> "absent",
     version |-> CASE n >= 3 -> "latest" [] n = 2 /\ torn -> "old" [] OTHER -> "absent"]

InstalledMeta(n, torn) ==
    CASE n = 4 -> "default" [] n = 3 /\ torn -> "corrupt" [] OTHER -> "absent"

Install ==
    /\ ~home.root
    /\ \E n \in 0..4, torn \in BOOLEAN :
        /\ home' = InstalledHome(n, torn)
        /\ store' = [store EXCEPT !["default"].meta = InstalledMeta(n, torn)]
        /\ IF n = 4 THEN stage' = "command" /\ UNCHANGED <<ok, cuts, loose>>
           ELSE Cut /\ loose' = TRUE

\* A version file that cannot be read is an error, also when there is none.
Migrate ==
    /\ home.root /\ home.version # "latest"
    /\ \/ /\ home.version = "absent"
          /\ Refused /\ UNCHANGED home
       \/ /\ home.version = "old"
          /\ \/ /\ stage' = "command" /\ UNCHANGED <<ok, cuts>>
                /\ home' = [home EXCEPT !.version = "latest"]
             \/ Cut /\ UNCHANGED home
    /\ UNCHANGED <<store, loose>>

LatestInstalled ==
    /\ home.root /\ home.version = "latest"
    /\ stage' = "command" /\ UNCHANGED <<home, store, ok, cuts, loose>>

EnsureInstalled ==
    /\ stage = "idle" /\ cmd < MaxCommands
    /\ Install \/ Migrate \/ LatestInstalled
    /\ cmd' = cmd + 1 /\ applied' = FALSE
    /\ UNCHANGED <<containers, projects, expired, target, given, mingled>>

\* A new version of elastic-package.
Upgrade ==
    /\ stage = "idle" /\ home.version = "latest"
    /\ home' = [home EXCEPT !.version = "old"]
    /\ UNCHANGED <<stage, store, containers, projects, expired, cmd, target, ok, applied, cuts,
                   history>>

-----------------------------------------------------------------------------
(***************************************************************************)
(* The profiles command.                                                   *)
(***************************************************************************)
Loads(p) == store[p].meta \notin {"absent", "corrupt"}

\* Configuration: a missing file is the default one, env is ELASTIC_PACKAGE_PROFILE.
ReadsConfiguration == home.current # "corrupt"
CurrentProfile(env) ==
    IF env # "" THEN env ELSE IF home.current = "absent" THEN "default" ELSE home.current

\* WriteConfigFile writes all of the configuration again.
WriteCurrent(p) ==
    \/ Ends /\ home' = [home EXCEPT !.current = p]
    \/ Cut /\ home' \in {home, [home EXCEPT !.current = "corrupt"]}

\* CopyAll adds files to those of a directory and replaces them.
CopiedCerts(p, from) ==
    [f \in CertFile |-> IF store[from].certs[f] # NoPair THEN store[from].certs[f]
                        ELSE store[p].certs[f]]

Copied(p, from) ==
    [meta |-> store[from].meta, certs |-> CopiedCerts(p, from),
     record |-> IF store[from].record # NoRecord THEN store[from].record ELSE store[p].record]

\* A copy that is cut, in lexical order: among the certificates, at profile.json, or at the
\* record of the stack.
CopiedPartly(p, from) ==
    {[store[p] EXCEPT !.certs = Interrupted(store[p].certs, CopiedCerts(p, from), CopyOrder,
                                            g, torn, FALSE)] : g \in CertFile, torn \in BOOLEAN}
    \cup {[meta |-> m, record |-> store[p].record, certs |-> CopiedCerts(p, from)] :
             m \in {store[p].meta, "corrupt"}}
    \cup {[Copied(p, from) EXCEPT !.record = r] : r \in {store[p].record, Corrupt}}

Create(p, from) ==
    /\ target' = p
    /\ IF store[p].meta # "absent" \/ (from \notin {"", "default"} /\ ~Loads(from))
       THEN Refused /\ UNCHANGED <<store, mingled>>
       ELSE LET copies == from \notin {"", "default"}
                copied == IF copies THEN Copied(p, from) ELSE store[p]
            IN  /\ \/ /\ Ends
                      /\ store' = [store EXCEPT ![p] = [copied EXCEPT !.meta = p]]
                   \/ /\ Cut
                      /\ \/ store' = [store EXCEPT ![p] = copied]
                         \/ store' = [store EXCEPT ![p] = [copied EXCEPT !.meta = "corrupt"]]
                         \/ /\ copies
                            /\ \E d \in CopiedPartly(p, from) : store' = [store EXCEPT ![p] = d]
                /\ mingled' = (mingled \/ (copies /\ NoCerts \notin {store[p].certs, store[from].certs}))
    /\ UNCHANGED <<home, containers, projects, expired, cmd, applied, loose, given>>

RecordedBy(p) == {store[p].record.project} \cap projects

\* The current profile is reset once the profile is gone.
ResetCurrent(p, env) ==
    IF CurrentProfile(env) = p
    THEN WriteCurrent("default")
    ELSE Ends /\ UNCHANGED home

Delete(p, env) ==
    /\ target' = p
    /\ IF ~ReadsConfiguration \/ p = "default"
       THEN Refused /\ UNCHANGED <<home, store, given, loose, mingled>>
       ELSE /\ \/ /\ store' = [store EXCEPT ![p] = NoDirectory]
                  /\ ResetCurrent(p, env)
                  /\ loose' = (loose \/ env # "" \/ ~ok')
                  /\ UNCHANGED mingled
               \/ /\ Cut /\ loose' = TRUE
                  /\ \E m \in {store[p].meta, "absent"}, r \in {store[p].record, NoRecord},
                        kept \in SUBSET CertFile :
                        LET c == [f \in CertFile |-> IF f \in kept THEN store[p].certs[f] ELSE NoPair]
                        IN  /\ store' = [store EXCEPT ![p] = [meta |-> m, record |-> r, certs |-> c]]
                            /\ mingled' = (mingled \/ c \notin {store[p].certs, NoCerts})
                  /\ UNCHANGED home
            /\ given' = given \cup RecordedBy(p)
    /\ UNCHANGED <<containers, projects, expired, cmd, applied>>

UseDirectory(p) ==    \* mutant: any directory is taken for a profile
    /\ target' = p
    /\ IF store[p] # NoDirectory /\ ReadsConfiguration
       THEN WriteCurrent(p)
       ELSE Refused /\ UNCHANGED home
    /\ UNCHANGED <<store, containers, projects, expired, cmd, applied, history>>

Use(p) ==
    /\ target' = p
    /\ IF Loads(p) /\ ReadsConfiguration
       THEN WriteCurrent(p)
       ELSE Refused /\ UNCHANGED home
    /\ UNCHANGED <<store, containers, projects, expired, cmd, applied, history>>

-----------------------------------------------------------------------------
(***************************************************************************)
(* Certificates: initTLSCertificates decides the content of every file     *)
(* from what it reads, then applyResources writes them in order.           *)
(***************************************************************************)
Expired(pair) == pair.made <= expired    \* or no certificate at all

ValidCA(c) ==
    /\ c[<<"ca", "cert">>] = c[<<"ca", "key">>]
    /\ ~Expired(c[<<"ca", "cert">>])

\* initCA.
CA(c) == IF ValidCA(c) THEN c[<<"ca", "cert">>] ELSE [made |-> cmd, issuer |-> cmd]

ValidAlone(c, s) ==    \* mutant: the certificate is not verified against the CA
    c[<<s, "cert">>] = c[<<s, "key">>] /\ ~Expired(c[<<s, "cert">>])

\* verifyTLSCertificates, with the certificate of the CA that is in its file.
ValidService(c, s) ==
    /\ c[<<s, "cert">>] = c[<<s, "key">>]
    /\ ~Expired(c[<<s, "cert">>]) /\ ~Expired(c[<<"ca", "cert">>])
    /\ c[<<s, "cert">>].issuer = c[<<"ca", "cert">>].made

\* initServiceTLSCertificates.
ServicePair(c, s) ==
    IF ValidService(c, s) THEN c[<<s, "cert">>] ELSE [made |-> cmd, issuer |-> CA(c).made]

Wanted(c) ==
    [f \in CertFile |-> IF f[1] = "ca" \/ f[2] = "ca" THEN CA(c) ELSE ServicePair(c, f[1])]

\* applyResources.
ApplyResources(p) ==
    /\ store' = [store EXCEPT ![p].certs = Wanted(@)]
    /\ applied' = TRUE

ApplyFails(p) ==
    /\ Cut
    /\ \E g \in CertFile, torn \in BOOLEAN, rest \in BOOLEAN :
        /\ store' = [store EXCEPT ![p].certs = Interrupted(@, Wanted(@), WriteOrder, g, torn, rest)]
        /\ mingled' = (mingled \/ (rest /\ g = <<"ca", "key">>))
    /\ UNCHANGED <<containers, projects, applied, given>>

\* Time passes: certificates expire in the order they were made.
Expire ==
    /\ stage = "idle"
    /\ expired' \in (expired + 1)..cmd
    /\ UNCHANGED <<stage, home, store, containers, projects, cmd, target, ok, applied, cuts,
                   history>>

-----------------------------------------------------------------------------
(***************************************************************************)
(* The stack command.                                                      *)
(***************************************************************************)
Agent == CHOOSE s \in Services : TRUE

\* docker compose up: all services run, or some are left.
ComposeUp(p, up) ==
    containers' = [containers EXCEPT ![p] = up]

StoreRecord(p, record, certs) ==
    \/ Ends /\ store' = [store EXCEPT ![p].record = record, ![p].certs = certs]
    \/ /\ Cut
       /\ \/ store' = [store EXCEPT ![p].certs = certs]
          \/ store' = [store EXCEPT ![p].record = Corrupt, ![p].certs = certs]

\* BootUp of the compose provider.  A second attempt, when only the agent failed,
\* ends like the first.
BootUpCompose(p) ==
    \/ ApplyFails(p)
    \/ /\ ApplyResources(p) /\ Cut    \* building the images
       /\ UNCHANGED <<containers, projects, given, mingled>>
    \/ \E left \in SUBSET Services :
        /\ ApplyResources(p) /\ Cut
        /\ ComposeUp(p, left)
        /\ UNCHANGED <<projects, given, mingled>>
    \/ /\ applied' = TRUE
       /\ ComposeUp(p, Services)
       /\ StoreRecord(p, [provider |-> "compose", project |-> 0], Wanted(store[p].certs))
       /\ given' = given \cup RecordedBy(p)
       /\ UNCHANGED <<projects, mingled>>

\* BootUp of the serverless provider: the project that is recorded, if it still
\* exists, else a new one, which is recorded before it is used.
StartLocalServices(p) ==
    /\ \E left \in SUBSET {Agent} : ComposeUp(p, (containers[p] \ {Agent}) \cup left)
    /\ Ends \/ Cut

UseProject(p) ==
    /\ store[p].record.project \in projects
    /\ \/ ApplyFails(p)
       \/ /\ ApplyResources(p)
          /\ StartLocalServices(p)
          /\ UNCHANGED <<projects, given, mingled>>

CreateThenRecord(p) ==    \* mutant: the project is recorded when its services run
    /\ store[p].record.project \notin projects
    /\ projects' = projects \cup {cmd} /\ applied' = TRUE
    /\ StartLocalServices(p)
    /\ store' = [store EXCEPT ![p].certs = Wanted(@),
                    ![p].record = IF ok' THEN [provider |-> "serverless", project |-> cmd] ELSE @]
    /\ UNCHANGED <<given, mingled>>

CreateProject(p) ==
    /\ store[p].record.project \notin projects
    /\ \/ Cut /\ UNCHANGED <<store, containers, projects, applied, given>>
       \/ /\ Cut /\ projects' = projects \cup {cmd} /\ given' = given \cup {cmd}
          /\ store' \in {store, [store EXCEPT ![p].record = Corrupt]}
          /\ UNCHANGED <<containers, applied>>
       \/ /\ projects' = projects \cup {cmd}
          /\ LET record == [provider |-> "serverless", project |-> cmd]
             IN  \/ /\ Cut /\ store' = [store EXCEPT ![p].record = record]
                    /\ UNCHANGED <<containers, applied>>
                 \/ /\ store' = [store EXCEPT ![p].record = record, ![p].certs = Wanted(@)]
                    /\ StartLocalServices(p) /\ applied' = TRUE
          /\ UNCHANGED given
    /\ UNCHANGED mingled

\* GetStackProviderFromProfile: a profile without a record is of the default provider.
RecordedProvider(p) ==
    IF store[p].record.provider = "none" THEN "compose" ELSE store[p].record.provider

ProfileCommandFails == Refused /\ UNCHANGED <<store, containers, projects, applied, given, mingled>>

\* stack up, with the provider the flag asks for, or the one recorded.
Up(p, flag) ==
    /\ target' = p
    /\ LET provider == IF flag = "" THEN RecordedProvider(p) ELSE flag
       IN  IF ~Loads(p) \/ RecordedProvider(p) = "corrupt"
           THEN ProfileCommandFails
           ELSE IF provider = "compose" THEN BootUpCompose(p)
           ELSE UseProject(p) \/ CreateProject(p)
    /\ UNCHANGED <<home, expired, cmd, loose>>

TearDownCompose(p) ==
    /\ \/ Ends /\ ComposeUp(p, {})
       \/ Cut /\ \E left \in SUBSET containers[p] : ComposeUp(p, left)
    /\ UNCHANGED projects

\* The project is deleted also when removing the services failed.
TearDownServerless(p) ==
    \/ /\ RecordedBy(p) = {}
       /\ \/ Refused /\ ComposeUp(p, {})
          \/ Cut /\ \E left \in SUBSET containers[p] : ComposeUp(p, left)
       /\ UNCHANGED projects
    \/ /\ RecordedBy(p) # {}
       /\ \/ Ends /\ ComposeUp(p, {}) /\ projects' = projects \ RecordedBy(p)
          \/ /\ Cut
             /\ \E left \in SUBSET containers[p] : ComposeUp(p, left)
             /\ projects' \in {projects, projects \ RecordedBy(p)}

\* stack down: the record stays.
Down(p) ==
    /\ target' = p
    /\ IF ~Loads(p) \/ RecordedProvider(p) = "corrupt"
       THEN ProfileCommandFails
       ELSE /\ IF RecordedProvider(p) = "compose" THEN TearDownCompose(p) ELSE TearDownServerless(p)
            /\ UNCHANGED <<store, applied, given>>
    /\ UNCHANGED <<home, expired, cmd, loose, mingled>>

\* stack update, which only the compose provider has.
Update(p) ==
    /\ target' = p
    /\ IF ~Loads(p) \/ RecordedProvider(p) # "compose"
       THEN ProfileCommandFails
       ELSE \/ ApplyFails(p)
            \/ /\ ApplyResources(p) /\ (Ends \/ Cut)
               /\ UNCHANGED <<containers, projects, given, mingled>>
    /\ UNCHANGED <<home, expired, cmd, loose>>

-----------------------------------------------------------------------------
ProfileCommand ==
    /\ stage = "command"
    /\ \E p \in Names :
        \/ \E from \in Names \cup {""} : Create(p, from)
        \/ \E env \in Names \cup {""} : Delete(p, env)
        \/ Use(p)
        \/ \E flag \in Providers \cup {""} : Up(p, flag)
        \/ Down(p)
        \/ Update(p)

ProfilesNext == EnsureInstalled \/ ProfileCommand \/ Upgrade \/ Expire

ProfilesSpec == ProfilesInit /\ [][ProfilesNext]_profilesVars

-----------------------------------------------------------------------------
(***************************************************************************)
(* Properties.                                                             *)
(***************************************************************************)
\* Whatever was cut before, torn, copied from another profile or has expired since,
\* a command that wrote the files of the stack leaves certificates that every
\* service accepts: pairs that belong together, issued by the CA that is in the
\* directory, whose copy is in that of every service (initTLSCertificates).  Services of
\* a CA without its key can be in a directory with certificates of several origins, or in
\* one where of the files of a boot only the key of the CA could not be written: these
\* are left out.
CertificatesMatch ==
    applied /\ ~mingled =>
        LET c == store[target].certs
        IN  /\ c[<<"ca", "cert">>] = c[<<"ca", "key">>]
            /\ \A s \in Services : /\ c[<<s, "cert">>] = c[<<s, "key">>]
                                   /\ c[<<s, "cert">>].issuer = c[<<"ca", "cert">>].made
                                   /\ c[<<s, "ca">>] = c[<<"ca", "cert">>]

\* The profile that commands use when none is given exists: config.yml names one
\* that loads, also when commands other than an installation or a deletion were
\* cut (profiles use, profiles delete, profiles create).
CurrentProfileLoads ==
    loose \/ ~home.root \/ ~ReadsConfiguration \/ Loads(CurrentProfile(""))

\* A project in Elastic Cloud is recorded by a profile until it is deleted, unless the
\* profile was deleted, booted with another provider, or the boot that created the
\* project was cut before it was recorded (storeConfig, CreateProfile, DeleteProfile).
ProjectsAreRecorded ==
    projects \ given \subseteq {store[p].record.project : p \in Names}
=============================================================================
