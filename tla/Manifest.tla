------------------------------ MODULE Manifest ------------------------------
(***************************************************************************)
(* internal/capsule/manifest.go: which capsules a process accepts; and how *)
(* internal/oauth and cli/oauth_bridge.go find the endpoints of the        *)
(* provider that an accepted one names.  Names, versions and durations are *)
(* what their patterns make of them: a value of a few kinds.               *)
(***************************************************************************)
EXTENDS Naturals, Sequences, FiniteSets, Functions

CONSTANT None

(* isReservedCapsuleNamespace.                                             *)
ReservedCapability == {"runtime.x", "loamss.x", "audit.x", "permission.x", "pairing.x"}
IsReservedCapsuleNamespace(name) == name \in ReservedCapability

(* A text is "", "bad" or "good": what its rule says of it.                *)
SupportedSpecVersions == {"good"}
KnownRoles == {"ingestor", "organizer", "exposer", "actuator"}

(* ingestorMinInterval, ingestorMaxInterval, in minutes.                   *)
MinInterval == 1
MaxInterval == 1440

-----------------------------------------------------------------------------
(* oauth.Lookup and oauth.WellKnown; the hook of the capsule package says  *)
(* no until `loamss start` sets it to WellKnown, and no other command      *)
(* does.                                                                   *)
Providers == [p \in {"google", "github"} |-> [authorization |-> "https", token |-> "https"]]
WellKnown(p) == p \in DOMAIN Providers
WellKnownOAuthProvider(process, p) == process = "daemon" /\ WellKnown(p)

-----------------------------------------------------------------------------
(* Validate collects what is wrong, section by section; a manifest is      *)
(* accepted when nothing is.                                               *)
IdentityErrors(m) ==
  (IF m.spec \notin SupportedSpecVersions THEN {"spec_version"} ELSE {})
  \union {f \in {"name", "version"} : m[f] # "good"}
  \union (IF m.author = "" THEN {"author"} ELSE {})

PermissionErrors(m, registered) ==
  (IF m.permissions = <<>> THEN {"permissions"} ELSE {})
  \union {<<"permission", i>> : i \in {j \in DOMAIN m.permissions :
            \/ m.permissions[j] = ""
            \/ IsReservedCapsuleNamespace(m.permissions[j])
            \/ m.permissions[j] \notin registered}}

(* A tool: its name, and whether its schema is none, typed or untyped.     *)
ToolNames(m) == {m.tools[i].name : i \in DOMAIN m.tools} \ {""}

ToolErrors(m) ==
  (IF m.tools = <<>> THEN {"tools"} ELSE {})
  \union {<<"tool", i>> : i \in {j \in DOMAIN m.tools :
            \/ m.tools[j].name \in {"", "bad"}
            \/ m.tools[j].schema = "untyped"
            \/ \E k \in 1 .. j - 1 : m.tools[k].name = m.tools[j].name}}

ModelErrors(m) ==
  IF m.model.quality \notin {"", "high", "balanced", "fast"} \/ m.model.context = "negative" THEN {"model"} ELSE {}

RuntimeErrors(m) ==
  {f \in {"type", "entrypoint", "protocol", "resources"} :
     \/ f = "type" /\ m.runtime.type # "subprocess"
     \/ f = "entrypoint" /\ m.runtime.entrypoint = <<>>
     \/ f = "protocol" /\ m.runtime.protocol # "mcp"
     \/ f = "resources" /\ m.runtime.resources = "negative"}

RoleErrors(m) == {i \in DOMAIN m.roles : m.roles[i] \notin KnownRoles \/ \E j \in 1 .. i - 1 : m.roles[j] = m.roles[i]}

(* An interval or a delay in minutes; None if it is missing or no          *)
(* duration.  The first delay may be any duration, a negative one too.     *)
(* Slip: the trigger is not looked up among the tools.                     *)
IngestorErrorsNoTrigger(m) ==
  LET is == m.ingestor # None  has == "ingestor" \in Range(m.roles)
  IN (IF is # has THEN {"ingestor"} ELSE {})
     \union (IF is /\ m.ingestor.source # "good" THEN {"source_id"} ELSE {})
     \union (IF is /\ m.ingestor.every \notin MinInterval .. MaxInterval THEN {"interval"} ELSE {})
     \union (IF is /\ m.ingestor.initial = "bad" THEN {"initial"} ELSE {})

IngestorErrors(m) ==
  LET is == m.ingestor # None  has == "ingestor" \in Range(m.roles)
  IN (IF is # has THEN {"ingestor"} ELSE {})
     \union (IF is /\ m.ingestor.source # "good" THEN {"source_id"} ELSE {})
     \union (IF is /\ m.ingestor.every \notin MinInterval .. MaxInterval THEN {"interval"} ELSE {})
     \union (IF is /\ m.ingestor.initial = "bad" THEN {"initial"} ELSE {})
     \union (IF is /\ m.ingestor.trigger \notin ToolNames(m) THEN {"on_trigger"} ELSE {})

(* Endpoints are "https", "http" or "".  A well-known provider brings its  *)
(* own, any other must declare them.                                       *)
OAuthErrors(m, process) ==
  IF m.oauth = None THEN {}
  ELSE (IF m.oauth.provider = "" THEN {"provider"} ELSE {})
       \union {f \in {"authorization", "token"} :
                 m.oauth[f] # (IF WellKnownOAuthProvider(process, m.oauth.provider) THEN "" ELSE "https")}
       \union (IF m.oauth.scopes = {} THEN {"scopes"} ELSE {})

ExtensionErrors(m) ==
  {i \in DOMAIN m.extensions : m.extensions[i].name = "" \/ m.extensions[i].namespace # "good"
                               \/ m.extensions[i].schema # "typed"}

Accepts(process, m, registered) ==
  /\ IdentityErrors(m) = {} /\ PermissionErrors(m, registered) = {} /\ ToolErrors(m) = {}
  /\ ModelErrors(m) = {} /\ RuntimeErrors(m) = {} /\ RoleErrors(m) = {}
  /\ IngestorErrors(m) = {} /\ OAuthErrors(m, process) = {} /\ ExtensionErrors(m) = {}

-----------------------------------------------------------------------------
(* resolveProvider: the endpoints of the registry, or else the manifest's, *)
(* and the client that the user has stored for the provider.               *)
Endpoints(m) ==
  IF WellKnown(m.oauth.provider) THEN Providers[m.oauth.provider]
  ELSE [authorization |-> m.oauth.authorization, token |-> m.oauth.token]

Resolves(m, clients) == m.oauth # None /\ m.oauth.provider \in clients

(* The scheduler's arming of a capsule: the tool it calls, if the capsule  *)
(* that is running has registered it.                                      *)
Armed(m) == m.ingestor # None /\ m.ingestor.trigger \in ToolNames(m)

-----------------------------------------------------------------------------
(* Properties, of every input of a run.                                    *)

(* What either process accepts, the daemon can serve: once a client of the *)
(* provider is stored, the code and the tokens travel over https both      *)
(* ways, to the provider's own endpoints if it is a well-known one; and a  *)
(* capsule in the ingestor's role has a tool for the scheduler to call.    *)
AcceptedIsServed(process, m, registered, clients) ==
  Accepts(process, m, registered) =>
    /\ Resolves(m, clients) => \A f \in {"authorization", "token"} : Endpoints(m)[f] = "https"
    /\ "ingestor" \in Range(m.roles) => Armed(m)

(* A capsule of a well-known provider declares no endpoints, and installs  *)
(* (sdk/typescript/examples/calendar-ingestor/README.md, after `loamss     *)
(* capsule install ./`: "`oauth.provider: google` is well-known so the     *)
(* endpoints come from" the runtime).                                      *)
WellKnownInstalls(m, registered) ==
  m.oauth # None /\ Accepts("daemon", m, registered) => Accepts("cli", m, registered)
=============================================================================
