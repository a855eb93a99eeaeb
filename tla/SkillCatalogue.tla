--------------------------- MODULE SkillCatalogue ---------------------------
(***************************************************************************)
(* Skills: the registry and the trust store of crates/shaka-skills, the    *)
(* `shaka skill' commands that change them (crates/shaka-cli), and the     *)
(* resident WasmSkillTool of crates/shaka-orchestrator that runs them.     *)
(*                                                                         *)
(* Both stores are files.  A command reads them, changes its copy, writes  *)
(* one of them whole (temporary file and rename) and then appends a        *)
(* control event: three steps, with no lock.  A command uses one of the    *)
(* files only, so the read of the other is left out.  A command that is    *)
(* refused ends and changes nothing.                                       *)
(*                                                                         *)
(* The SHA-256 of an artifact is its contents.  The authority digest of a  *)
(* manifest is its set of permissions (the list is sorted and deduplicated *)
(* before it is hashed; the schemas the CLI writes are constant).  A       *)
(* signature is the binding it signs and the key that made it; name,       *)
(* version, operator and reason of a binding are those of the skill.       *)
(***************************************************************************)
EXTENDS FiniteSets, Naturals

CONSTANTS
    Skill,        \* names in the registry
    KeyId,        \* names in the trust store
    SigningKey,   \* key pairs
    Bytes,        \* contents of artifact files
    Permissions,  \* permission sets a manifest may declare
    HostCapabilities,
    Cli,          \* `shaka skill' processes
    MaxChanges,   \* bound: different commands that may be saved
    MaxEdits,     \* bound: files changed from outside
    None

VARIABLES
    registry,  \* skills_file: name -> SkillRecord
    trust,     \* trust_file: key id -> TrustedKey
    artifact,  \* the artifact file of each skill
    cli,       \* each process: its step, its command and the file it read
    audit,     \* the last control event of the audit chain
    server,    \* the process that loads the tools
    tools,     \* name -> WasmSkillTool
    call,      \* the execution under way
    history    \* the changes saved, the approvals given, whether a save was stale

vars == <<registry, trust, artifact, cli, audit, server, tools, call, history>>

Attestation == [key : KeyId, signer : SigningKey, sha : Bytes, authority : Permissions]

(* Approval of a legacy record: a hash, and neither path nor attestation.  *)
ApprovalRecord == [sha : Bytes, attestation : Attestation \cup {None}]

SkillRecord ==
    [status : {"candidate", "active", "revoked"}, permissions : Permissions,
     approval : ApprovalRecord \cup {None}]

TrustedKey == [signer : SigningKey, revoked : BOOLEAN]

ASSUME SkillAssumption ==
    /\ None \notin ApprovalRecord \cup SkillRecord \cup TrustedKey
    /\ Skill \cap KeyId = {}
    /\ MaxChanges \in Nat /\ MaxEdits \in Nat

Command ==
    [op : {"candidate"}, subject : Skill, permissions : Permissions]
    \cup [op : {"approve_legacy"}, subject : Skill, sha : Bytes]
    \cup [op : {"approve"}, subject : Skill, key : KeyId, signer : SigningKey]
    \cup [op : {"revoke"}, subject : Skill]
    \cup [op : {"trust_add"}, subject : KeyId, signer : SigningKey]
    \cup [op : {"trust_revoke"}, subject : KeyId]

Idle == [pc |-> "idle"]

NoTools == [n \in Skill |-> None]

Init ==
    /\ registry = [n \in Skill |-> None]
    /\ trust = [k \in KeyId |-> None]
    /\ artifact \in [Skill -> Bytes]
    /\ cli = [c \in Cli |-> Idle]
    /\ audit = None
    /\ server = [phase |-> "down"]
    /\ tools = NoTools
    /\ call = None
    /\ history = [changed |-> {}, approved |-> {}, lost |-> FALSE, edits |-> 0]

-----------------------------------------------------------------------------
(* SkillRegistry and TrustStore: what a command does to the copy it read.  *)
(* A disabled operator is a refusal.                                       *)

excessive(p) == {"network", "external_messaging"} \subseteq p

register_candidate(reg, m) ==
    /\ reg[m.subject] = None
    /\ ~excessive(m.permissions)

candidate_record(m) ==
    [status |-> "candidate", permissions |-> m.permissions, approval |-> None]

ensure_candidate(reg, n) == reg[n] # None /\ reg[n].status = "candidate"

(* Mutant: the digest covers the schemas and leaves the permissions out.   *)
DigestOfSchemas(permissions) == {}

(* The schemas are constant, so the digest stands for the permissions.     *)
manifest_authority_sha256(permissions) == permissions

approved_record(r, sha, att) ==
    [r EXCEPT !.status = "active", !.approval = [sha |-> sha, attestation |-> att]]

(* The file as it is now.                                                  *)
sha256_file(n) == artifact[n]

(* The artifact is hashed when the approval is made.  The key id is the    *)
(* operator's word: whether the trust store knows it is not asked here.    *)
sign_approval(reg, m) ==
    [key |-> m.key, signer |-> m.signer, sha |-> sha256_file(m.subject),
     authority |-> manifest_authority_sha256(reg[m.subject].permissions)]

(* Mutant: a skill that was never approved can be revoked.                 *)
RevocableAny(reg, n) == reg[n] # None

revocable(reg, n) == reg[n] # None /\ reg[n].status = "active"

(* TrustStore::add_key, revoke_key                                         *)
add_key(m) == [signer |-> m.signer, revoked |-> FALSE]

revoke_key(k) == [k EXCEPT !.revoked = TRUE]

TrustCommand(m) == m.op \in {"trust_add", "trust_revoke"}

FileOf(m) == IF TrustCommand(m) THEN trust ELSE registry

(* file: the copy of the registry, or of the trust store, that was read.   *)
Accepted(file, m) ==
    CASE m.op = "candidate" -> register_candidate(file, m)
      [] m.op \in {"approve", "approve_legacy"} -> ensure_candidate(file, m.subject)
      [] m.op = "revoke" -> revocable(file, m.subject)
      [] m.op = "trust_add" -> file[m.subject] = None
      [] m.op = "trust_revoke" -> file[m.subject] # None

Changed(file, m) ==
    [file EXCEPT ![m.subject] =
        CASE m.op = "candidate" -> candidate_record(m)
          [] m.op = "approve_legacy" -> approved_record(@, m.sha, None)
          [] m.op = "approve" -> approved_record(@, sha256_file(m.subject), sign_approval(file, m))
          [] m.op = "revoke" -> [@ EXCEPT !.status = "revoked"]
          [] m.op = "trust_add" -> add_key(m)
          [] m.op = "trust_revoke" -> revoke_key(@)]

-----------------------------------------------------------------------------
(* What a signature covers.  Every field carries its length, so two        *)
(* bindings have the same payload only if they are equal.                  *)
approval_payload_v2(sha, authority) == <<sha, authority>>

(* verify_attestation: protocol V2, a known key that is not revoked and is *)
(* the one that signed, and a signature of exactly this binding.           *)
verify_attestation(tr, att, sha, authority) ==
    /\ tr[att.key] # None
    /\ ~tr[att.key].revoked
    /\ tr[att.key].signer = att.signer
    /\ approval_payload_v2(att.sha, att.authority) = approval_payload_v2(sha, authority)

(* One record of active_verified_artifacts.                                *)
Verified(reg, tr, n) ==
    LET a == reg[n].approval IN
    /\ a # None
    /\ a.attestation # None
    /\ sha256_file(n) = a.sha
    /\ manifest_authority_sha256(reg[n].permissions) = a.attestation.authority
    /\ verify_attestation(tr, a.attestation, a.sha, a.attestation.authority)

(* Mutant: a revoked record is still listed.                               *)
ActiveOrRevoked(reg) == {n \in Skill : reg[n] # None /\ reg[n].approval # None}

ActiveSkills(reg) == {n \in Skill : reg[n] # None /\ reg[n].status = "active"}

(* One active record that does not verify makes the whole call fail.       *)
active_verified_artifacts(reg, tr) == \A n \in ActiveSkills(reg) : Verified(reg, tr, n)

(* The ActiveSkillArtifact of a verified record.                           *)
ArtifactOf(reg, n) ==
    [permissions |-> reg[n].permissions, attestation |-> reg[n].approval.attestation]

-----------------------------------------------------------------------------
(* The `shaka skill' commands                                              *)

load(c, m) ==
    /\ cli[c] = Idle
    /\ Cardinality(history.changed) < MaxChanges
    /\ cli' = [cli EXCEPT ![c] = [pc |-> "loaded", cmd |-> m, file |-> FileOf(m)]]
    /\ UNCHANGED <<registry, trust, artifact, audit, server, tools, call, history>>

refuse(c) ==
    /\ cli[c].pc = "loaded"
    /\ ~Accepted(cli[c].file, cli[c].cmd)
    /\ cli' = [cli EXCEPT ![c] = Idle]
    /\ UNCHANGED <<registry, trust, artifact, audit, server, tools, call, history>>

(* history.lost: the file written over was not the one this process read.  *)
save(c) ==
    LET m == cli[c].cmd
        file == cli[c].file
    IN
    /\ cli[c].pc = "loaded"
    /\ Accepted(file, m)
    /\ registry' = IF TrustCommand(m) THEN registry ELSE Changed(file, m)
    /\ trust' = IF TrustCommand(m) THEN Changed(file, m) ELSE trust
    /\ history' =
         [history EXCEPT
            !.changed = @ \cup {m},
            !.approved = IF m.op = "approve"
                         THEN @ \cup {[skill |-> m.subject, sha |-> artifact[m.subject],
                                       permissions |-> file[m.subject].permissions]}
                         ELSE @,
            !.lost = @ \/ FileOf(m) # file]
    /\ cli' = [cli EXCEPT ![c] = [pc |-> "saved", cmd |-> m]]
    /\ UNCHANGED <<artifact, audit, server, tools, call>>

(* Mutant: the event is appended before the file is saved.                 *)
AuditBeforeSave(c) ==
    /\ cli[c].pc \in {"loaded", "saved"}
    /\ audit' = cli[c].cmd
    /\ cli' = [cli EXCEPT ![c] = Idle]
    /\ UNCHANGED <<registry, trust, artifact, server, tools, call, history>>

append_control_audit(c) ==
    /\ cli[c].pc = "saved"
    /\ audit' = cli[c].cmd
    /\ cli' = [cli EXCEPT ![c] = Idle]
    /\ UNCHANGED <<registry, trust, artifact, server, tools, call, history>>

(* The process dies, or the database refuses the event.                    *)
die(c) ==
    /\ cli[c] # Idle
    /\ cli' = [cli EXCEPT ![c] = Idle]
    /\ UNCHANGED <<registry, trust, artifact, audit, server, tools, call, history>>

-----------------------------------------------------------------------------
(* The server: build_tool_registry, then one execution at a time           *)

(* active_verified_artifacts at start; an error ends the start.            *)
start ==
    /\ server.phase = "down"
    /\ active_verified_artifacts(registry, trust)
    /\ server' = [phase |-> "loading", trust |-> trust, reading |-> None, rewritten |-> FALSE,
                  todo |-> {[skill |-> n, artifact |-> ArtifactOf(registry, n)]
                              : n \in ActiveSkills(registry)}]
    /\ UNCHANGED <<registry, trust, artifact, cli, audit, tools, call, history>>

(* Mutant: the artifact is not hashed again before it is read.             *)
TrustedEarlierHash(t) ==
    LET att == t.artifact.attestation IN
    /\ manifest_authority_sha256(t.artifact.permissions) = att.authority
    /\ verify_attestation(server.trust, att, att.sha, att.authority)

Loadable(t) ==
    LET att == t.artifact.attestation IN
    /\ sha256_file(t.skill) = att.sha
    /\ manifest_authority_sha256(t.artifact.permissions) = att.authority
    /\ verify_attestation(server.trust, att, att.sha, att.authority)

(* from_approved_artifact, up to the file being read: the hash once more.  *)
(* An error ends the start.                                                *)
from_approved_artifact ==
    /\ server.phase = "loading" /\ server.reading = None
    /\ \E t \in server.todo :
         IF Loadable(t)
         THEN /\ server' = [server EXCEPT !.todo = @ \ {t}, !.reading = t, !.rewritten = FALSE]
              /\ UNCHANGED tools
         ELSE /\ server' = [phase |-> "down"]
              /\ tools' = NoTools
    /\ UNCHANGED <<registry, trust, artifact, cli, audit, call, history>>

(* fs::read opens the file again; ToolRegistry::register refuses a tool    *)
(* whose permissions the host does not grant, which also ends the start.   *)
register ==
    /\ server.phase = "loading" /\ server.reading # None
    /\ LET t == server.reading IN
       IF t.artifact.permissions \subseteq HostCapabilities
       THEN /\ tools' = [tools EXCEPT ![t.skill] =
                  [artifact |-> t.artifact, wasm |-> artifact[t.skill],
                   rewritten |-> server.rewritten]]
            /\ server' = [server EXCEPT !.reading = None]
       ELSE /\ tools' = NoTools
            /\ server' = [phase |-> "down"]
    /\ UNCHANGED <<registry, trust, artifact, cli, audit, call, history>>

serve ==
    /\ server.phase = "loading" /\ server.reading = None /\ server.todo = {}
    /\ server' = [phase |-> "up"]
    /\ UNCHANGED <<registry, trust, artifact, cli, audit, tools, call, history>>

stop ==
    /\ server.phase = "up"
    /\ server' = [phase |-> "down"]
    /\ tools' = NoTools
    /\ call' = None
    /\ UNCHANGED <<registry, trust, artifact, cli, audit, history>>

(* The skills and the keys a saved command has revoked.                    *)
Revoked(changed) == {m.subject : m \in {c \in changed : c.op \in {"revoke", "trust_revoke"}}}

(* verify_current, first read: the registry.                               *)
execute(n) ==
    /\ server.phase = "up" /\ call = None
    /\ tools[n] # None
    /\ call' = [pc |-> "verify", skill |-> n, registry |-> registry,
                before |-> Revoked(history.changed)]
    /\ UNCHANGED <<registry, trust, artifact, cli, audit, server, tools, history>>

(* Then the trust store and the artifact files.                            *)
Current(n, reg, tr) ==
    /\ active_verified_artifacts(reg, tr)
    /\ n \in ActiveSkills(reg)
    /\ ArtifactOf(reg, n) = tools[n].artifact

verify_current ==
    /\ call # None /\ call.pc = "verify"
    /\ call' = IF Current(call.skill, call.registry, trust)
               THEN [call EXCEPT !.pc = "run"]
               ELSE None
    /\ UNCHANGED <<registry, trust, artifact, cli, audit, server, tools, history>>

(* The sandbox returns, well or badly.                                     *)
executed ==
    /\ call # None /\ call.pc = "run"
    /\ call' = None
    /\ UNCHANGED <<registry, trust, artifact, cli, audit, server, tools, history>>

-----------------------------------------------------------------------------
(* What happens to the files from outside: an artifact is rebuilt, and the *)
(* permissions of a manifest are edited by hand in the skills file.        *)

rebuild(n, b) ==
    /\ artifact[n] # b /\ history.edits < MaxEdits
    /\ artifact' = [artifact EXCEPT ![n] = b]
    /\ server' = IF server.phase = "loading" /\ server.reading # None
                    /\ server.reading.skill = n
                 THEN [server EXCEPT !.rewritten = TRUE]
                 ELSE server
    /\ history' = [history EXCEPT !.edits = @ + 1]
    /\ UNCHANGED <<registry, trust, cli, audit, tools, call>>

edit_manifest(n, p) ==
    /\ registry[n] # None /\ registry[n].permissions # p
    /\ history.edits < MaxEdits
    /\ registry' = [registry EXCEPT ![n].permissions = p]
    /\ history' = [history EXCEPT !.edits = @ + 1]
    /\ UNCHANGED <<trust, artifact, cli, audit, server, tools, call>>

Next ==
    \/ \E c \in Cli :
         \/ \E m \in Command : load(c, m)
         \/ refuse(c) \/ save(c) \/ append_control_audit(c) \/ die(c)
    \/ start \/ from_approved_artifact \/ register \/ serve \/ stop
    \/ \E n \in Skill : execute(n)
    \/ verify_current \/ executed
    \/ \E n \in Skill, b \in Bytes : rebuild(n, b)
    \/ \E n \in Skill, p \in Permissions : edit_manifest(n, p)

Spec == Init /\ [][Next]_vars

-----------------------------------------------------------------------------
(* Properties                                                              *)

Tool == [artifact : [permissions : Permissions, attestation : Attestation],
         wasm : Bytes, rewritten : BOOLEAN]

(* Types; and a record is a candidate exactly as long as it has no         *)
(* approval (register_candidate, approve, revoke).                         *)
TypeOK ==
    /\ registry \in [Skill -> SkillRecord \cup {None}]
    /\ \A n \in Skill :
         registry[n] # None => (registry[n].status = "candidate" <=> registry[n].approval = None)
    /\ trust \in [KeyId -> TrustedKey \cup {None}]
    /\ artifact \in [Skill -> Bytes]
    /\ \A c \in Cli : cli[c].pc \in {"idle", "loaded", "saved"}
    /\ server.phase \in {"down", "loading", "up"}
    /\ tools \in [Skill -> Tool \cup {None}]
    /\ server.phase = "down" => tools = NoTools /\ call = None

RevokedRuns ==
    /\ call # None /\ call.pc = "run"
    /\ {call.skill, tools[call.skill].artifact.attestation.key} \cap call.before # {}

(* A skill that was loaded before a revocation does not run after it: when *)
(* the sandbox is entered, neither the skill nor the key of its approval   *)
(* had been revoked when execute began (verify_current), unless two        *)
(* commands overlapped and the later save undid the earlier one.           *)
RevokedNeverRuns == RevokedRuns => history.lost

(* What runs is what an operator approved: the permissions the sandbox is  *)
(* given and the hash the tool carries were approved together for this     *)
(* skill, whatever was edited or rebuilt since.                            *)
RunsApproved ==
    call # None /\ call.pc = "run" =>
        LET t == tools[call.skill].artifact IN
        [skill |-> call.skill, sha |-> t.attestation.sha, permissions |-> t.permissions]
            \in history.approved

(* The bytes a tool keeps are those that were approved, unless the file    *)
(* was rewritten between sha256_file and fs::read in                       *)
(* from_approved_artifact.                                                 *)
BytesApproved ==
    \A n \in Skill : tools[n] # None =>
        tools[n].wasm = tools[n].artifact.attestation.sha \/ tools[n].rewritten

(* A control event stands for a change that was written, even when the     *)
(* process died or the change was overwritten afterwards.                  *)
AuditBacked == audit # None => audit \in history.changed
=============================================================================
