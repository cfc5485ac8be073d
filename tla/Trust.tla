------------------------------- MODULE Trust -------------------------------
(***************************************************************************)
(* Effects and trust of one operation: how a discovery, an import or the   *)
(* owner's own profile states what the operation does (policy.rs,          *)
(* importers.rs, commands/discover.rs), and what a call or a probe of it   *)
(* may do under that statement (commands/call.rs, commands/adapters.rs).   *)
(* A profile is text that anyone may edit, so a call tightens it by what   *)
(* the adapter itself knows; evidence that the operation only reads may    *)
(* lift a confirmation, never more.  Discovery, calls and their learning   *)
(* run in processes of their own: each works on the profile it read.       *)
(***************************************************************************)
CONSTANTS
    Callers,       \* the processes that call the operation
    Declared,      \* the effect sets a seed or a profile may declare
    SeedTrusts     \* the trust settings a CLI seed or a profile may declare

Methods == {"GET", "HEAD", "POST", "none"}
Grades == {"none", "proven", "assumed", "unproven"}
Hints == {"yes", "no", "absent"}
AllHints == [read_only : Hints, destructive : Hints]
Silent == [read_only |-> "absent", destructive |-> "absent"]

Effects == [read_only : BOOLEAN, mutating : BOOLEAN, network : BOOLEAN,
            shell : BOOLEAN, sensitive : BOOLEAN, cacheable : BOOLEAN,
            requires_confirmation : BOOLEAN, grade : Grades]

Trusts == [allow_shell : BOOLEAN, allow_network : BOOLEAN, auto_upgrade : BOOLEAN]

ASSUME TrustAssumption == Declared \subseteq Effects /\ SeedTrusts \subseteq Trusts

VARIABLES
    source,     \* the kind of the source
    hints,      \* what the MCP server says of its tool at present
    profile,    \* the stored profile
    discovery,  \* the discovery under way
    call,       \* call[c]: the call of process c
    knob        \* whether the owner last left trust.auto_upgrade on

vars == <<source, hints, profile, discovery, call, knob>>

-----------------------------------------------------------------------------
(* Effect sets (policy.rs).                                                *)

Identity ==
    [read_only |-> TRUE, mutating |-> FALSE, network |-> FALSE, shell |-> FALSE,
     sensitive |-> FALSE, cacheable |-> TRUE, requires_confirmation |-> FALSE,
     grade |-> "none"]

ReadEffects(network, shell) ==
    [Identity EXCEPT !.network = network, !.shell = shell]

UnsafeEffects(network, shell) ==
    [read_only |-> FALSE, mutating |-> TRUE, network |-> network, shell |-> shell,
     sensitive |-> FALSE, cacheable |-> FALSE, requires_confirmation |-> TRUE,
     grade |-> "none"]

Tighten(left, right) ==
    [read_only |-> left.read_only /\ right.read_only,
     mutating |-> left.mutating \/ right.mutating,
     network |-> left.network \/ right.network,
     shell |-> left.shell \/ right.shell,
     sensitive |-> left.sensitive \/ right.sensitive,
     cacheable |-> left.cacheable /\ right.cacheable,
     requires_confirmation |-> left.requires_confirmation \/ right.requires_confirmation,
     grade |-> IF left.grade = "none" THEN right.grade ELSE left.grade]

HttpAdapterEffects(method) ==
    IF method = "GET" THEN ReadEffects(TRUE, FALSE) ELSE UnsafeEffects(TRUE, FALSE)

HttpHardening(method) ==
    IF method = "GET"
    THEN [Identity EXCEPT !.network = TRUE]
    ELSE [Identity EXCEPT !.network = TRUE, !.read_only = FALSE, !.mutating = TRUE,
                          !.cacheable = FALSE, !.requires_confirmation = TRUE]

CliHardening(shell) == [Identity EXCEPT !.shell = shell]

\* A tool is proven to read only by a hint that nothing contradicts.
ProvenReadOnly(said) == said.read_only = "yes" /\ said.destructive # "yes"

ToolEffects(said) ==
    IF ProvenReadOnly(said)
    THEN [ReadEffects(FALSE, FALSE) EXCEPT !.requires_confirmation = TRUE,
                                           !.grade = "proven"]
    ELSE [UnsafeEffects(FALSE, FALSE) EXCEPT !.grade = "unproven"]

\* Proven read-only evidence lifts the confirmation, where the profile lets it.
EffectiveEffects(effects, trust) ==
    IF /\ trust.auto_upgrade /\ effects.grade = "proven"
       /\ effects.read_only /\ ~effects.mutating /\ ~effects.shell /\ ~effects.sensitive
    THEN [effects EXCEPT !.requires_confirmation = FALSE]
    ELSE effects

DiscoveryAllowed(effects, trust) ==
    LET effective == EffectiveEffects(effects, trust)
    IN  /\ effective.read_only /\ ~effective.mutating
        /\ ~effective.requires_confirmation
        /\ effective.network => trust.allow_network

CallAllowed(effects, yes, trust) ==
    LET effective == EffectiveEffects(effects, trust)
    IN  /\ effective.mutating \/ effective.requires_confirmation => yes
        /\ effective.shell => trust.allow_shell
        /\ effective.network => trust.allow_network

PaginationAllowed(effects) ==
    effects.read_only /\ ~effects.mutating /\ ~effects.shell /\ ~effects.sensitive

-----------------------------------------------------------------------------
(* Profiles.  "method" and "shell" are the operation's invocation; shell   *)
(* may be left out, and method is "none" where there is no invocation.     *)

DefaultTrust == [allow_shell |-> FALSE, allow_network |-> FALSE, auto_upgrade |-> TRUE]
NetworkTrust == [DefaultTrust EXCEPT !.allow_network = TRUE]

Profile(kind, method, shell, effects, trust) ==
    [kind |-> kind, method |-> method, shell |-> shell, effects |-> effects,
     trust |-> trust, learned |-> FALSE]

Profiles == [kind : {"http", "cli", "mcp"}, method : Methods, shell : Hints,
             effects : Effects, trust : Trusts, learned : BOOLEAN]

NoProfile == [kind |-> "none"]

\* Faulty variant: what a seed declares is taken as it is.
EffectsAsDeclared(adapter, hardening) == {adapter} \cup Declared

\* What a seed declares of the operation, tightened by its adapter; nothing
\* declared is the adapter's own, conservative, statement.
EffectsFromSeed(adapter, hardening) ==
    {adapter} \cup {Tighten(declared, hardening) : declared \in Declared}

HttpSeeds ==
    UNION {{Profile("http", method, "no", effects, NetworkTrust) :
                effects \in EffectsFromSeed(HttpAdapterEffects(method),
                                            HttpHardening(method))} :
           method \in Methods \ {"none"}}

CliEffects(shell) ==
    EffectsFromSeed(UnsafeEffects(FALSE, shell = "yes"), CliHardening(shell = "yes"))

CliSeeds ==
    UNION {{Profile("cli", "none", shell, effects, trust) :
                effects \in CliEffects(shell)} :
           shell \in {"yes", "no"}, trust \in SeedTrusts \cup {DefaultTrust}}

McpSeed(said) == Profile("mcp", "none", "no", ToolEffects(said), DefaultTrust)

Seeds(said) == HttpSeeds \cup CliSeeds \cup {McpSeed(said)}

\* OpenAPI: the method declares the effect, HEAD and OPTIONS as well as GET.
OpenApiImport(method) ==
    LET reads == method \in {"GET", "HEAD"}
    IN  Profile("http", method, "no",
                [read_only |-> reads, mutating |-> ~reads, network |-> TRUE,
                 shell |-> FALSE, sensitive |-> FALSE, cacheable |-> reads,
                 requires_confirmation |-> TRUE,
                 grade |-> IF reads THEN "proven" ELSE "unproven"],
                NetworkTrust)

\* JSON Schema: reading is inferred, and nothing says how to call it.
JsonSchemaImport ==
    Profile("http", "none", "no",
            [Identity EXCEPT !.requires_confirmation = TRUE, !.grade = "assumed"],
            DefaultTrust)

CliHelpImport ==
    Profile("cli", "none", "no",
            [UnsafeEffects(FALSE, FALSE) EXCEPT !.grade = "unproven"], DefaultTrust)

Imports ==
    {OpenApiImport(method) : method \in Methods \ {"none"}}
        \cup {JsonSchemaImport, CliHelpImport}

\* A profile as its owner writes or edits it: any method, shell or effects.
Authored ==
    {Profile("http", method, "no", effects, trust) :
        method \in Methods \ {"none"}, effects \in Declared, trust \in SeedTrusts}
    \cup {Profile("cli", "none", shell, effects, trust) :
        shell \in Hints, effects \in Declared, trust \in SeedTrusts}
    \cup {Profile("mcp", "none", "no", effects, trust) :
        effects \in Declared, trust \in SeedTrusts}

\* What is authored replaces what was stored, except for what was learnt.
MergeProfiles(current, authored) ==
    IF current = NoProfile THEN authored
    ELSE [authored EXCEPT !.learned = authored.learned \/ current.learned]

-----------------------------------------------------------------------------
(* What an adapter executes.                                               *)

Callable(p) == p.kind = "http" => p.method # "none"

RunsInShell(p) == p.kind = "cli"
                  /\ (p.shell = "yes" \/ (p.shell = "absent" /\ p.effects.shell))

\* Faulty variant: the profile is taken at its word.
HardenNothing(p) == p.effects

Harden(p) ==
    CASE p.kind = "http" -> Tighten(p.effects, HttpHardening(p.method))
      [] p.kind = "cli" -> Tighten(p.effects, CliHardening(RunsInShell(p)))
      [] OTHER -> p.effects

\* The CLI adapter checks the trust once more by itself.
AdapterAgrees(p) == RunsInShell(p) => p.trust.allow_shell

-----------------------------------------------------------------------------
Idle == [stage |-> "idle"]

\* One kind of source: a profile of another kind is another source.
Init ==
    /\ source \in {"http", "cli", "mcp"}
    /\ hints \in IF source = "mcp" THEN AllHints ELSE {Silent}
    /\ profile = NoProfile
    /\ discovery = Idle
    /\ call = [c \in Callers |-> Idle]
    /\ knob = TRUE

\* The server publishes its tool with other hints.
Republish ==
    /\ source = "mcp"
    /\ hints' \in AllHints
    /\ UNCHANGED <<source, profile, discovery, call, knob>>

\* An import, or a profile of the owner's, is merged at once: neither asks the
\* source anything, and --probe is refused.
Import ==
    /\ \E p \in Imports :
          /\ p.kind = source
          /\ profile' = MergeProfiles(profile, p)
    /\ UNCHANGED <<source, hints, discovery, call, knob>>

Author ==
    /\ \E p \in Authored :
          /\ p.kind = source
          /\ profile' = MergeProfiles(profile, p)
          /\ knob' = p.trust.auto_upgrade
    /\ UNCHANGED <<source, hints, discovery, call>>

\* discover reads its seed and lets the database go; an MCP seed asks the server.
Prepare ==
    /\ discovery = Idle
    /\ \E p \in Seeds(hints), probe \in BOOLEAN :
          /\ p.kind = source
          /\ discovery' = [stage |-> "prepared", profile |-> p, probe |-> probe]
    /\ UNCHANGED <<source, hints, profile, call, knob>>

\* probe_profile executes the operation if what discovery prepared allows it.
Probe ==
    /\ discovery.stage = "prepared" /\ discovery.probe
    /\ DiscoveryAllowed(discovery.profile.effects, discovery.profile.trust)
    /\ AdapterAgrees(discovery.profile)
    /\ discovery' = [discovery EXCEPT !.stage = "probing"]
    /\ UNCHANGED <<source, hints, profile, call, knob>>

\* The probe answered, failed, was skipped or was not asked for: the profile is
\* merged into what is stored by then.
Merge ==
    /\ discovery.stage \in {"prepared", "probing"}
    /\ \E answered \in IF discovery.stage = "probing" THEN BOOLEAN ELSE {FALSE} :
          profile' = MergeProfiles(profile,
                                   [discovery.profile EXCEPT !.learned = answered])
    /\ discovery' = Idle
    /\ UNCHANGED <<source, hints, call, knob>>

\* A call reads the profile, tightens it by the adapter, and executes the
\* operation if that admits it; the CLI adapter asks for its trust once more.
Execute(c, yes) ==
    /\ call[c] = Idle /\ profile # NoProfile /\ Callable(profile)
    /\ CallAllowed(Harden(profile), yes, profile.trust)
    /\ AdapterAgrees(profile)
    /\ call' = [call EXCEPT ![c] = [stage |-> "running", profile |-> profile, yes |-> yes]]
    /\ UNCHANGED <<source, hints, profile, discovery, knob>>

\* --pages: further pages are fetched under the profile the call has read.
NextPage(c) ==
    /\ call[c].stage = "running"
    /\ PaginationAllowed(Harden(call[c].profile))
    /\ call' = [call EXCEPT ![c].stage = "paging"]
    /\ UNCHANGED <<source, hints, profile, discovery, knob>>

\* Faulty variant: what a call learns is written to the profile that it read.
LearnInto(current, read) == [read EXCEPT !.learned = TRUE]

\* What a call learns is added to the profile that is stored by then.
Learn(current, read) ==
    [(IF current = NoProfile THEN read ELSE current) EXCEPT !.learned = TRUE]

\* The call ends: with an error, with --no-cache, or with something learnt.
Finish(c) ==
    /\ call[c].stage \in {"running", "paging"}
    /\ \/ profile' = profile
       \/ /\ ~Harden(call[c].profile).sensitive
          /\ profile' = Learn(profile, call[c].profile)
    /\ call' = [call EXCEPT ![c] = Idle]
    /\ UNCHANGED <<source, hints, discovery, knob>>

Next ==
    \/ Republish \/ Import \/ Author \/ Prepare \/ Probe \/ Merge
    \/ \E c \in Callers : \/ \E yes \in BOOLEAN : Execute(c, yes)
                          \/ NextPage(c) \/ Finish(c)

Spec == Init /\ [][Next]_vars

-----------------------------------------------------------------------------
(* Properties.                                                             *)

\* I7: an operation that its adapter knows to change something runs only with
\* --yes, one in a shell or over the network only with that trust, whatever
\* the profile says of itself; a confirmation the profile asks for is lifted
\* only by proven evidence; and nothing but a plain read is paged through.
CallsAreGrounded ==
    \A c \in Callers : call[c].stage \in {"running", "paging"} =>
        LET p == call[c].profile IN
        /\ p.kind = "http" => p.trust.allow_network
        /\ p.kind = "http" /\ p.method # "GET" => call[c].yes /\ call[c].stage = "running"
        /\ RunsInShell(p) => p.trust.allow_shell /\ call[c].stage = "running"
        /\ p.effects.mutating => call[c].yes
        /\ p.effects.requires_confirmation /\ ~call[c].yes =>
               p.effects.grade = "proven" /\ ~p.effects.sensitive
        /\ p.effects.sensitive => call[c].stage = "running"

\* I6: discovery probes no operation that its adapter or its server does not
\* state to be read-only.
ProbesOnlyRead ==
    discovery.stage = "probing" =>
        /\ discovery.profile.kind = "http" => discovery.profile.method = "GET"
        /\ RunsInShell(discovery.profile) => discovery.profile.trust.allow_shell
        /\ discovery.profile.effects.read_only /\ ~discovery.profile.effects.mutating

Ungated(p) == p # NoProfile /\ CallAllowed(Harden(p), FALSE, p.trust)

\* Only a statement about the operation lifts its gate - a discovery, an import
\* or its owner - and never a call, which learns from what it executed under
\* the profile of an earlier time.
OnlyStatementsRelax ==
    [][Ungated(profile') /\ ~Ungated(profile) => call' = call]_vars

\* What makes them hold: profiles are well formed, what a discovery prepared
\* of a request that changes something says so, and a call that runs has read
\* a profile that is still stored, if with other statements.
TypeOK ==
    /\ profile \in Profiles \cup {NoProfile}
    /\ hints \in AllHints
    /\ discovery \in {Idle} \cup [stage : {"prepared", "probing"},
                                 profile : Profiles, probe : BOOLEAN]
    /\ call \in [Callers -> {Idle} \cup [stage : {"running", "paging"},
                                         profile : Profiles, yes : BOOLEAN]]

Honest(p) == p.kind = "http" /\ p.method # "GET" => p.effects.mutating

TrustInv ==
    /\ TypeOK
    /\ discovery # Idle => Honest(discovery.profile)
    /\ \A c \in Callers : call[c] # Idle => profile # NoProfile
    /\ CallsAreGrounded
    /\ ProbesOnlyRead

\* docs/safety.md: with trust.auto_upgrade off, even proven read-only
\* operations need --yes and discovery skips them.
KnobRegates ==
    discovery.stage = "probing" =>
        (discovery.profile.effects.requires_confirmation => knob)
=============================================================================
