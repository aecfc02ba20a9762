--------------------------- MODULE TrustBoundary ---------------------------
(***************************************************************************)
(* What an agent may touch in a workspace: the path classes of the trust   *)
(* boundary, the integrity of configuration files, the tools' own path and *)
(* command filters, the environment of child processes, the product's path *)
(* policy and the repository authorization.  Paths, commands and variables *)
(* are records of the facts the code's patterns decide.                    *)
(***************************************************************************)
EXTENDS Naturals, FiniteSets

\* A path: does it resolve inside the workspace, which pattern list does it
\* match, where does it lie, which configuration file is it and what does that
\* file say, and how do the product's own patterns see it.
PathFacts == [resolves : {"inside", "outside", "invalid"}, pattern : {"trust_root", "critical", "none"},
              dir : {"src", "tests", "other"}, config : {"tsconfig", "package", "none"},
              content : {"absent", "sound", "zone_alias", "hollow", "broken"},
              sensitive : BOOLEAN, product : {"allowed", "protected", "unlisted"}]

PlainPath == [resolves |-> "inside", pattern |-> "none", dir |-> "src", config |-> "none",
              content |-> "sound", sensitive |-> FALSE, product |-> "allowed"]

\* Normalizing a path throws when it is malformed or leaves the workspace.
Normalizes(p) == p.resolves = "inside"

ClassifyPath(p) ==
  CASE p.pattern = "trust_root" -> "TRUST_ROOT"
    [] p.pattern = "critical"   -> "SECURITY_CRITICAL"
    [] p.pattern = "none" /\ p.dir = "tests" -> "TESTS"
    [] p.pattern = "none" /\ p.dir = "src" /\ p.config = "none" -> "EXECUTION_ENGINE"
    [] OTHER -> "NORMAL_CONFIG"

IsZoneAPath(p) == ClassifyPath(p) \in {"TRUST_ROOT", "SECURITY_CRITICAL"}

\* A path that cannot be normalized counts as a violation.
ViolatedPaths(paths) == {p \in paths : ~Normalizes(p) \/ IsZoneAPath(p)}

TrustBoundaryAllows(paths) == ViolatedPaths(paths) = {}

TsconfigSound(p) == p.config = "tsconfig" => p.content \notin {"zone_alias", "broken"}

PackageSound(p) == p.config = "package" => p.content \notin {"hollow", "broken"}

ConfigurationIntegrity(paths) == \A p \in paths : Normalizes(p) /\ TsconfigSound(p) /\ PackageSound(p)

\* The two gates before a commit and, over the whole range, before a push.
ChangesetAllowed(paths) == TrustBoundaryAllows(paths) /\ ConfigurationIntegrity(paths)

\* The product's policy looks at its protected patterns only; its allow list is
\* accepted and never read.
ValidateModifiedPaths(paths) == \A p \in paths : p.product # "protected"

-----------------------------------------------------------------------------
(* The agent's tools.                                                      *)

ResolvePath(p) == p.resolves = "inside" /\ ~p.sensitive

WriteAllowed(p) == ResolvePath(p) /\ Normalizes(p) /\ ~IsZoneAPath(p)

\* Command lines by the first filter that recognises them.
Commands == {"empty", "gh", "cmdkey", "shell_gh", "github_api", "blocked_git", "zone_move", "plain"}

ValidateCommand(c) == c \notin {"gh", "cmdkey", "shell_gh", "github_api"}

CheckBlockedGit(c) == c # "blocked_git"

RunCommandAllowed(c) == c # "empty" /\ ValidateCommand(c) /\ CheckBlockedGit(c) /\ c # "zone_move"

-----------------------------------------------------------------------------
(* The environment of a child process.  A variable is what its name and    *)
(* its value say; the two that sanitizing adds are marked "added".         *)

EnvFacts == [name : {"exact", "prefix", "sensitive", "ordinary", "path", "gh_config"},
             value : {"secret", "harmless", "isolated"}]

KeyBlocked(v) == v.name \in {"exact", "prefix", "sensitive", "gh_config"}

\* GH_CONFIG_DIR has a blocked prefix, so only the isolated one is left.
SanitizeWorkspaceEnv(env) ==
  {v \in env : ~KeyBlocked(v) /\ v.value # "secret"} \cup {[name |-> "gh_config", value |-> "isolated"]}

AssertNoGovernanceCredentials(env) ==
  \A v \in env : IF v.name = "gh_config" THEN v.value = "isolated"
                 ELSE v.name \notin {"exact", "prefix", "sensitive"} /\ v.value # "secret"

-----------------------------------------------------------------------------
(* Repository authorization and identity.                                  *)

\* A target: is the repository named, does it parse, is its owner allowed, and
\* which patterns does the branch match ("none" stands for the default, main).
Authorize(t) ==
  /\ t.named /\ t.parses /\ t.ownerAllowed
  /\ t.branch # "protected"
  /\ t.branch = "allowed"

AutonomyNeeded(action) ==
  CASE action = "READ" -> 0 [] action = "MODIFY" -> 2 [] action = "TEST" -> 3
    [] action = "COMMIT" -> 4 [] OTHER -> 5

AuthorizeAutonomy(level, action) == level >= AutonomyNeeded(action)

\* A workspace is identified by the remote its git metadata names.
InspectGitWorkspace(ws) == ws.isRepo /\ ws.hasOrigin /\ ws.hasBranch

VerifyRepositoryIdentity(named, ws) == named /\ InspectGitWorkspace(ws) /\ ws.originIsTarget

-----------------------------------------------------------------------------
(* Execution governance: capabilities, delegation, approval, policy.       *)

ALL_CAPABILITIES == {"WORKSPACE_READ", "WORKSPACE_WRITE", "COMMAND_EXECUTION", "GIT_WRITE",
                     "REMOTE_PERSISTENCE", "CREDENTIAL_ACCESS", "SUBAGENT_DELEGATION"}

ApprovalRequired == {"CREDENTIAL_ACCESS", "SUBAGENT_DELEGATION"}

ValidateApproval(q) ==
  q.requested \cap ApprovalRequired # {} =>
    q.approval = "valid" /\ q.requested \cap ApprovalRequired \subseteq q.scope

ValidateDelegation(q) ==
  q.delegates => /\ "SUBAGENT_DELEGATION" \in q.requested
                 /\ q.maxDepth \in 1..3 /\ q.maxChildren \in 1..8
                 /\ q.depth <= q.maxDepth /\ q.children <= q.maxChildren

AuthorizeExecution(q) ==
  CASE ~q.wellFormed \/ ~q.sameVersion               -> "DENY"
    [] ~(q.requested \subseteq ALL_CAPABILITIES)      -> "DENY"
    [] ~(q.requested \subseteq q.granted \cap q.held) -> "DENY"
    [] ~ValidateDelegation(q)                         -> "DENY"
    [] ~ValidateApproval(q)                           -> "APPROVAL_REQUIRED"
    [] ~q.policyAllows                                -> "DENY"
    [] OTHER                                          -> "ALLOW"

=============================================================================
