------------------------------ MODULE Registry ------------------------------
(***************************************************************************)
(* The start of the process (src/src/index.ts) and what it builds from the *)
(* configuration: the tool registry (src/src/proxy/tool-registry.ts) and   *)
(* the key vault (src/src/custody/key-vault.ts).                           *)
(*                                                                         *)
(* A URL is a sequence of pieces of text, cut where two of them part, so   *)
(* that startsWith is IsPrefix.  A tool key is the sequence of the words   *)
(* between its colons, as the vault's split(':') sees it.                  *)
(***************************************************************************)
EXTENDS Integers, SequencesExt

CONSTANTS
    Configs,        \* configurations: config.yaml after parsing
    Envs,           \* environments: for each name its value, Unset or Empty
    Unset,
    Empty,
    None            \* no tool, no key, no answer

\* A configuration has tools, roles, and the names that it substitutes (${NAME}).
ToolKeysOf(c) == {c.tools[i].key : i \in DOMAIN c.tools}

IsList(s) == s \in Seq(ToSet(s))

ASSUME ConfigAssumption ==
    \A c \in Configs :
        /\ IsList(c.tools) /\ IsList(c.roles)
        /\ \A i \in DOMAIN c.roles : IsList(c.roles[i].permissions)
        /\ \A i \in DOMAIN c.tools :
              /\ c.tools[i] # None
              /\ IsList(c.tools[i].baseUrl) /\ IsList(c.tools[i].key)
              /\ c.tools[i].key # << >>
        /\ \A e \in Envs : \A i \in DOMAIN c.tools : c.tools[i].keyRef \in DOMAIN e

VARIABLES
    phase,          \* how far main() is
    config,         \* config.yaml
    env,            \* process.env
    tools,          \* the registry: per tool key, its configuration
    baseUrls,       \* the registry: base URLs with their tools, longest first
    keys            \* the vault: per tool key, the API key

startVars == <<phase, config, env, tools, baseUrls, keys>>

StartInit ==
    /\ phase = "starting"
    /\ config \in Configs
    /\ env \in Envs
    /\ tools = << >>
    /\ baseUrls = << >>
    /\ keys = << >>

-----------------------------------------------------------------------------
(* loadConfig() and the schema *)

\* A name in the configuration's text must be set (loader), and no setting it
\* fills may be empty; a keyRef need only be set (schema).
SchemaAccepts(c, e) ==
    /\ \A name \in c.substitutes : e[name] \notin {Unset, Empty}
    /\ c.tools # << >> /\ c.roles # << >>
    /\ \A i \in DOMAIN c.tools : e[c.tools[i].keyRef] # Unset

LoadConfig ==
    /\ phase = "starting"
    /\ phase' = IF SchemaAccepts(config, env) THEN "configured" ELSE "exited"
    /\ UNCHANGED <<config, env, tools, baseUrls, keys>>

-----------------------------------------------------------------------------
(* The API keys *)

\* The value that Map.set leaves for key k: that of the last tool with it.
LastTool(c, k) == c.tools[Max({i \in DOMAIN c.tools : c.tools[i].key = k})]

\* Variant: the first tool with a key keeps it.
KeysFromEnvFirst(c, e) ==
    [k \in ToolKeysOf(c) |->
        e[c.tools[Min({i \in DOMAIN c.tools : c.tools[i].key = k})].keyRef]]

\* Per tool key, the value of its variable.
KeysFromEnv(c, e) == [k \in ToolKeysOf(c) |-> e[LastTool(c, k).keyRef]]

\* Variant: only a missing variable stops the start, as in the schema.
LoadKeysIfSet ==
    /\ phase = "configured"
    /\ IF \E i \in DOMAIN config.tools : env[config.tools[i].keyRef] = Unset
       THEN phase' = "exited" /\ UNCHANGED keys
       ELSE phase' = "keyed" /\ keys' = KeysFromEnv(config, env)
    /\ UNCHANGED <<config, env, tools, baseUrls>>

\* Every tool's key must be set and not empty, or the process exits.
LoadKeys ==
    /\ phase = "configured"
    /\ IF \E i \in DOMAIN config.tools : env[config.tools[i].keyRef] \in {Unset, Empty}
       THEN phase' = "exited" /\ UNCHANGED keys
       ELSE phase' = "keyed" /\ keys' = KeysFromEnv(config, env)
    /\ UNCHANGED <<config, env, tools, baseUrls>>

\* inject() of the handle `vault:${tool}`: split(':') gives the tool key back
\* only up to its next colon, and what follows is ignored.
Inject(tool) ==
    LET handle == <<"vault">> \o tool
        name   == <<handle[2]>>
    IN  IF name \in DOMAIN keys THEN keys[name] ELSE None

-----------------------------------------------------------------------------
(* The tool registry *)

\* Variant: the base URLs stay in the order of the configuration.
UnsortedBaseUrls(c) ==
    [i \in DOMAIN c.tools |-> [baseUrl |-> c.tools[i].baseUrl, toolKey |-> c.tools[i].key]]

\* Tool i of configuration c sorts before tool j: it has the longer base URL; the
\* sort is stable.
SortsBefore(c, i, j) ==
    \/ Len(c.tools[i].baseUrl) > Len(c.tools[j].baseUrl)
    \/ Len(c.tools[i].baseUrl) = Len(c.tools[j].baseUrl) /\ i < j

SortOrder(c) ==
    CHOOSE p \in [DOMAIN c.tools -> DOMAIN c.tools] :
        \A m, n \in DOMAIN c.tools : m < n => SortsBefore(c, p[m], p[n])

SortedBaseUrls(c) ==
    [n \in DOMAIN c.tools |->
        LET tool == c.tools[SortOrder(c)[n]]
        IN  [baseUrl |-> tool.baseUrl, toolKey |-> tool.key]]

\* createServer() builds the registry, and the process listens.  The rest of it
\* needs the address of the audit contract and the encryption key.
CreateServer ==
    /\ phase = "keyed"
    /\ IF env["AUDIT_CONTRACT_ADDRESS"] \in {Unset, Empty}
          \/ env["AUDIT_ENCRYPTION_KEY"] \in {Unset, Empty}
       THEN phase' = "exited" /\ UNCHANGED <<tools, baseUrls>>
       ELSE /\ phase' = "serving"
            /\ tools' = [k \in ToolKeysOf(config) |-> LastTool(config, k)]
            /\ baseUrls' = SortedBaseUrls(config)
    /\ UNCHANGED <<config, env, keys>>

Hits(target) == {i \in DOMAIN baseUrls : IsPrefix(baseUrls[i].baseUrl, target)}

\* The tool of the first base URL that the target starts with.
FindTool(target) ==
    IF Hits(target) = {} THEN None
    ELSE tools[baseUrls[Min(Hits(target))].toolKey]

GetTool(k) == IF k \in DOMAIN tools THEN tools[k] ELSE None

Start == LoadConfig \/ LoadKeys \/ CreateServer
=============================================================================
